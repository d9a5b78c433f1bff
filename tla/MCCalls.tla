------------------------------ MODULE MCCalls ------------------------------
\* Every program of upac-cli with Ctrl-C at any moment, and every call of another
\* frontend with one field that is not a good one.
EXTENDS Calls
=============================================================================
