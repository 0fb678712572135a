--------------------------- MODULE MCIndexerDrain ---------------------------
EXTENDS IndexerDrain, TLC

\* No fault; a drain among late errors; everything but aborted relocations
\* and an unreadable StatefulSet; everything.
MCEnvironments ==
  {{}, {"late"}, {"late", "abort"}, FaultKinds \ {"abort", "get"},
   FaultKinds}

=============================================================================
