\* two callers with one question and one slot
CONSTANTS
  Tasks = {c1, c2}
  Slots = 1
  Faults = {TRUE, FALSE}
  Kinds = {"keywords"}
  Requests = {r1}
  Models = {{"good"}, {"good", "list"}}
  Warm = FALSE
SPECIFICATION MCSpec
INVARIANTS CacheTornOnlyWhenShared NothingAskedTwice TokensComeBack SlotLimit NoTokenLost
PROPERTIES RequestEnds SlotComesFree
