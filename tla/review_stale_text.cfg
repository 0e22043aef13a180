\* expected to fail: a rejected block keeps its text while its box is changed
CONSTANTS
  MaxBlocks = 1
  BlockTypes = {"title"}
  Boxes = {b1, b2}
  NoBox = NoBox
  NoBlock = NoBlock
  PaperIds = {p1}
  NoPaper = NoPaper
  MinCoveragePct = 90
  RequireAuthor = FALSE
  Clients = {c1}
  NoDoc = NoDoc
  Requests = {"update_block", "approve_all", "confirm", "return_to_layout", "run_ocr"}
  Updates <- StaleUpdates
  Backends = {"paddle"}
  Leftovers = {}
  Crashes = FALSE
SPECIFICATION Spec
INVARIANTS KeptTextMatchesBox
