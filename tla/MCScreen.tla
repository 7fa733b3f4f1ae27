------------------------------- MODULE MCScreen -------------------------------
EXTENDS StreamScreen
=============================================================================
