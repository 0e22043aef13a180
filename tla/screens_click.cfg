\* expected to fail: a click confirms another document than the one shown
CONSTANTS
  Docs = {1, 2}
  Jobs = {1, 2}
  Workers = {w1}
  NoDoc = NoDoc
  NoJob = NoJob
  Faults = {FALSE}
  Scopes = {"pending"}
  Tabs = {{"review"}}
  Queries = {"", "q"}
  Blank = ""
  Options = {"all"}
  AllOfIt = "all"
  Nothing = Nothing
SPECIFICATION Spec
PROPERTIES ConfirmedWasShown
CHECK_DEADLOCK FALSE
