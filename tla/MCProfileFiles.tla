--------------------------- MODULE MCProfileFiles ---------------------------
EXTENDS ProfileFiles

MCName == {"Default", "Second"}
MCSetting == {"std", "own"}
=============================================================================
