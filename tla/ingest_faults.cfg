\* two papers at a time; k1 and k2 are similar, k3 is to neither;
\* any step may fail or die
CONSTANTS
  Runs = {r1, r2}
  k1 = k1
  k2 = k2
  k3 = k3
  Keywords = {k1, k2, k3}
  Similar <- Pair
  NoKeyword = NoKeyword
  NoPaper = NoPaper
  Faults = {"action", "crash"}
  Searches = FALSE
SPECIFICATION CheckedSpec
INVARIANTS TypeOK NoHalfPaper KeywordsRepresented FrequencyCoversLinks KeywordsFindPaper
SYMMETRY Symmetry
\* the runs end
CHECK_DEADLOCK FALSE
