--------------------------- MODULE MCSnapshotJournal ---------------------------
EXTENDS SnapshotJournal
================================================================================
