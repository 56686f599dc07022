------------------------------ MODULE MCIntr ------------------------------
\* Two devices of the vexpress board and their drivers.
EXTENDS Intr
=============================================================================
