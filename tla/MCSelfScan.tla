----------------------------- MODULE MCSelfScan -----------------------------
EXTENDS SelfScan, TLC
=============================================================================
