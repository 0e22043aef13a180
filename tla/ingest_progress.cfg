\* users search while two papers are ingested; every fault but a dying worker
CONSTANTS
  Runs = {r1, r2}
  k1 = k1
  k2 = k2
  k3 = k3
  Keywords = {k1}
  Similar <- AllSimilar
  NoKeyword = NoKeyword
  NoPaper = NoPaper
  Faults = {"action", "job_row", "delete"}
  Searches = TRUE
SPECIFICATION CheckedFairSpec
INVARIANTS CompletePaper JobsTell
PROPERTIES RunsEnd
\* the runs end
CHECK_DEADLOCK FALSE
