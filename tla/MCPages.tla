------------------------------- MODULE MCPages ------------------------------
EXTENDS Pages
=============================================================================
