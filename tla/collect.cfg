\* two works that publishers may change; nothing, everything but damage, or damage
CONSTANTS
  Sources = {s1, s2}
  Contents = {a, b}
  Nothing = Nothing
  Troubles <- Mixed
SPECIFICATION Spec
INVARIANTS TypeOK QueuedIsReady QueuedOnce RecordedIsQueued
SYMMETRY Symmetry
