-------------------------------- MODULE MCLink --------------------------------
EXTENDS VideoLink
=============================================================================
