\* one request after another, every request, both kinds of backend; with two blocks,
\* coverage may be 0, 50 or 100 percent
CONSTANTS
  MaxBlocks = 2
  BlockTypes = {"title"}
  Boxes = {b1}
  NoBox = NoBox
  NoBlock = NoBlock
  PaperIds = {p1, p2}
  NoPaper = NoPaper
  MinCoveragePct = 90
  RequireAuthor = FALSE
  Clients = {c1}
  NoDoc = NoDoc
  Requests = {"add_block", "delete_block", "update_block", "approve_all", "deduplicate", "confirm", "reevaluate", "return_to_layout", "run_ocr", "auto_ocr", "ingest"}
  Updates <- SequentialUpdates
  Backends = {"paddle", "diagnostic"}
  Leftovers = {"none", "half", "complete"}
  Crashes = FALSE
SPECIFICATION FairSpec
INVARIANTS TypeOK
PROPERTIES CorrectionsKept ReadyGate RejectedUntouched ImplementsLifecycle
