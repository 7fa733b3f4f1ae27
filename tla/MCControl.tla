------------------------------ MODULE MCControl ------------------------------
EXTENDS ControlConnection
=============================================================================
