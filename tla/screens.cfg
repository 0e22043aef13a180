\* one document, two jobs, two workers; processes die and messages get lost, or nothing does
CONSTANTS
  Docs = {1}
  Jobs = {1, 2}
  Workers = {w1, w2}
  NoDoc = NoDoc
  NoJob = NoJob
  Faults = {TRUE, FALSE}
  Scopes = {"pending"}
  Tabs = {{"review"}, {"search"}}
  Queries = {"", "q", "r"}
  Blank = ""
  Options = {"all", "less"}
  AllOfIt = "all"
  Nothing = Nothing
SPECIFICATION MCSpec
INVARIANTS NoRunBehindItsBack AnswersTheForm
PROPERTIES ReadyStays SearchTabReturns
CHECK_DEADLOCK FALSE
