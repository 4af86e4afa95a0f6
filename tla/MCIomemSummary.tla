--------------------------- MODULE MCIomemSummary ---------------------------
EXTENDS IomemSummary

\* All addresses, and two past the last one.
MCRequests == 0 .. MaxPhysAddr + 2
=============================================================================
