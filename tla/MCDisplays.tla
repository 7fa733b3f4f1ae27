------------------------------ MODULE MCDisplays ------------------------------
EXTENDS Displays

CONSTANTS s1, s2

=============================================================================
