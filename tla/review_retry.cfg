\* expected to fail: the job row of STEP 9 fails, and ingest is called again
CONSTANTS
  MaxBlocks = 1
  BlockTypes = {"title"}
  Boxes = {b1}
  NoBox = NoBox
  NoBlock = NoBlock
  PaperIds = {p1, p2}
  NoPaper = NoPaper
  MinCoveragePct = 90
  RequireAuthor = FALSE
  Clients = {c1}
  NoDoc = NoDoc
  Requests = {"auto_ocr", "return_to_layout", "reevaluate", "ingest"}
  Updates <- OverlapUpdates
  Backends = {"paddle"}
  Leftovers = {"none", "complete"}
  Crashes = FALSE
SPECIFICATION Spec
INVARIANTS OnePaper
