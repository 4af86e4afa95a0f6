----------------------------- MODULE MCMemscan ------------------------------
EXTENDS Memscan
=============================================================================
