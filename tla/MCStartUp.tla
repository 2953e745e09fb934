----------------------------- MODULE MCStartUp ------------------------------
EXTENDS StartUp

CONSTANTS p1, p2

TwoProcesses == {p1, p2}
=============================================================================
