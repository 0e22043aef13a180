\* two requests at a time; pipelines fail, processes die
CONSTANTS
  MaxBlocks = 1
  BlockTypes = {"title"}
  Boxes = {b1}
  NoBox = NoBox
  NoBlock = NoBlock
  PaperIds = {p1, p2}
  NoPaper = NoPaper
  MinCoveragePct = 90
  RequireAuthor = FALSE
  Clients = {c1, c2}
  NoDoc = NoDoc
  Requests = {"update_block", "approve_all", "confirm", "return_to_layout", "run_ocr", "auto_ocr", "ingest"}
  Updates <- OverlapUpdates
  Backends = {"paddle"}
  Leftovers = {"none", "half", "complete"}
  Crashes = TRUE
SPECIFICATION Spec
INVARIANTS OcrFollowsBox PaperExists
SYMMETRY Symmetry
