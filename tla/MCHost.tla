------------------------------- MODULE MCHost --------------------------------
EXTENDS Host
=============================================================================
