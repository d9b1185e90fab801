------------------------------ MODULE MCSingle ------------------------------
EXTENDS SingleCheck, TLC

CONSTANTS c1, c2, b1
=============================================================================
