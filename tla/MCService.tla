------------------------------ MODULE MCService ------------------------------
\* Two hosts, one --stop, one mouse button.
EXTENDS ConsoleService
=============================================================================
