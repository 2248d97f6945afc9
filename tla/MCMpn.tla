------------------------------- MODULE MCMpn --------------------------------
EXTENDS MpnMachine
=============================================================================
