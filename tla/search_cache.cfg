\* a user searches while two papers are ingested, and everything may fail
CONSTANTS
  Papers = {1, 2}
  Keywords = {k1}
  Users = {u1}
  Nothing = Nothing
  Faults = {"search", "run", "crash"}
SPECIFICATION Spec
INVARIANTS TypeOK GivenIsDownloadable GivenPapersExist FreshUnlessLapsed
