------------------------------ MODULE MCIpFrag ------------------------------
EXTENDS IpFrag

CONSTANTS p1, p2
=============================================================================
