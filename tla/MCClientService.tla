-------------------------- MODULE MCClientService --------------------------
EXTENDS ClientService
CONSTANTS a, b
MCDevices == {a, b}
=============================================================================
