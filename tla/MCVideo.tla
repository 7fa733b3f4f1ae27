-------------------------------- MODULE MCVideo -------------------------------
EXTENDS VideoReceiver
=============================================================================
