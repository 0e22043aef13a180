---------------------------- MODULE CollectProofs ----------------------------
(***************************************************************************)
(* Collection queues a work once, and only with its PDF and its record in  *)
(* place, and what it has recorded gets queued, for any number of works    *)
(* and PDFs and whatever goes wrong, as long as nobody damages a PDF (and, *)
(* for the second, as long as nothing has gone wrong yet).                 *)
(***************************************************************************)
EXTENDS Collect, TLAPS

\* The PDF of s is stored and recorded, for those who come and for the running collector.
Safe(s) == /\ file[s] # Nothing
           /\ manifest[s] = file[s]
           /\ collector.at # "idle" => collector.memory[s] = file[s]

QueuedIsSafe == \A s \in queued : Safe(s)
DownloadedIsSafe == \A s \in collector.downloaded : Safe(s) /\ s \notin queued

\* What is being downloaded is neither.
NowIsNew == collector.now \notin queued \union collector.downloaded

FetchedIsStored == collector.at = "fetched" => file[collector.now] = collector.pdf
IdleHasNothing == collector.at = "idle" => collector = NoCollector

AllIsSafe == /\ QueuedIsSafe
             /\ DownloadedIsSafe
             /\ NowIsNew
             /\ FetchedIsStored
             /\ IdleHasNothing
IInv == Undamaged => AllIsSafe

-----------------------------------------------------------------------------
LEMMA NoCollectorType == NoCollector \in Collector /\ Empty \in Stored
BY DEF NoCollector, Collector, Empty, Stored

LEMMA TypeInductive == TypeOK /\ [Next]_vars => TypeOK'
<1> SUFFICES ASSUME TypeOK, [Next]_vars PROVE TypeOK'
    OBVIOUS
<1> USE NothingAssumption, NoCollectorType DEF TypeOK, disk, tasks
<1>1. CASE Start
  <2>1. PICK found \in (SUBSET Sources) \ {{}} :
            collector' = [NoCollector EXCEPT !.at = "ready", !.memory = manifest, !.todo = found]
    BY <1>1 DEF Start
  <2> QED BY <1>1, <2>1 DEF Start, NoCollector, Collector, Stored
<1>2. CASE Fetch
  <2>1. PICK pdf \in Contents :
            /\ file' = [file EXCEPT ![collector.now] = pdf]
            /\ collector' = [collector EXCEPT !.at = "fetched", !.pdf = pdf]
    BY <1>2 DEF Fetch
  <2> QED BY <1>2, <2>1 DEF Fetch, Collector, Stored
<1>3. CASE FetchFails
  <2>1. collector' = [collector EXCEPT !.at = "ready", !.now = Nothing, !.pdf = Nothing]
    BY <1>3 DEF FetchFails, NextCandidate, Collector
  <2> QED BY <1>3, <2>1 DEF FetchFails, Collector
<1>4. ASSUME collector.at = "fetched"
      PROVE  WithRecord \in Stored /\ collector.now \in Sources
  BY <1>4 DEF WithRecord, Collector, Stored
<1>5. CASE Record
  BY <1>4, <1>5 DEF Record, NextCandidate, Collector
<1>6. CASE RecordFails
  BY <1>4, <1>6 DEF RecordFails, NextCandidate, Collector
<1>7. CASE FinishCandidates
  BY <1>7 DEF FinishCandidates, Collector
<1>8. CASE End \/ Crash
  BY <1>8 DEF End, Crash, NoCollector, Collector
<1>9. ASSUME NEW s \in Sources, Skip(s) PROVE TypeOK'
  BY <1>9 DEF Skip, Chooses, Collector
<1>10. ASSUME NEW s \in Sources, BeginDownload(s) PROVE TypeOK'
  BY <1>10 DEF BeginDownload, Chooses, Collector, Stored
<1>11. ASSUME NEW s \in Sources, Enqueue(s) \/ EnqueueFails(s) PROVE TypeOK'
  BY <1>11 DEF Enqueue, EnqueueFails, ToQueue, Collector
<1>12. ASSUME NEW s \in Sources, Take(s) \/ Damage(s) PROVE TypeOK'
  BY <1>12 DEF Take, Damage, Stored
<1>13. CASE UNCHANGED vars
  BY <1>13 DEF vars
<1> QED BY <1>1, <1>2, <1>3, <1>5, <1>6, <1>7, <1>8, <1>9, <1>10, <1>11, <1>12, <1>13 DEF Next

\* The files, the manifest and the collector are always well formed: a record is a PDF
\* that was received, and something is at hand exactly while a candidate is processed.
THEOREM CollectTypeCorrect == Spec => []TypeOK
<1>1. Init => TypeOK
  BY NothingAssumption, TroublesAssumption, NoCollectorType
     DEF Init, TypeOK, NoCollector
<1> QED BY <1>1, TypeInductive, PTL DEF Spec

-----------------------------------------------------------------------------
LEMMA TroubleIsFixed == [Next]_vars => trouble' = trouble
BY DEF Next, vars, Start, Fetch, FetchFails, Record, RecordFails, FinishCandidates, End,
       Crash, Skip, BeginDownload, Enqueue, EnqueueFails, ToQueue, Take, Damage

LEMMA InvariantInductive == TypeOK /\ IInv /\ [Next]_vars => IInv'
<1> SUFFICES ASSUME TypeOK, AllIsSafe, Undamaged, [Next]_vars PROVE AllIsSafe'
    BY TroubleIsFixed DEF IInv, Undamaged
<1> USE NothingAssumption DEF AllIsSafe, QueuedIsSafe, DownloadedIsSafe, NowIsNew,
        FetchedIsStored, IdleHasNothing, Safe, disk, tasks
<1>1. CASE Start
  <2>1. PICK found \in (SUBSET Sources) \ {{}} :
            collector' = [NoCollector EXCEPT !.at = "ready", !.memory = manifest, !.todo = found]
    BY <1>1 DEF Start
  <2> QED BY <1>1, <2>1 DEF Start, NoCollector, TypeOK
<1>2. CASE Fetch
  <2>1. PICK pdf \in Contents :
            /\ file' = [file EXCEPT ![collector.now] = pdf]
            /\ collector' = [collector EXCEPT !.at = "fetched", !.pdf = pdf]
    BY <1>2 DEF Fetch
  <2>2. /\ collector' = [at |-> "fetched", memory |-> collector.memory, todo |-> collector.todo,
                         now |-> collector.now, pdf |-> pdf, downloaded |-> collector.downloaded]
        /\ collector.now \in Sources
    BY <1>2, <2>1 DEF Fetch, TypeOK, Collector
  <2>3. \A s \in Sources : s # collector.now => file'[s] = file[s]
    BY <2>1 DEF TypeOK, Stored
  <2>4. file'[collector.now] = pdf
    BY <2>1, <2>2 DEF TypeOK, Stored
  <2> QED BY <1>2, <2>2, <2>3, <2>4 DEF Fetch, TypeOK, Collector
<1>3. CASE FetchFails
  BY <1>3 DEF FetchFails, NextCandidate, TypeOK, Collector
<1>4. ASSUME collector.at = "fetched"
      PROVE  /\ collector.now \in Sources
             /\ WithRecord[collector.now] = file[collector.now]
             /\ file[collector.now] # Nothing
             /\ \A s \in Sources : s # collector.now => WithRecord[s] = collector.memory[s]
  BY <1>4 DEF WithRecord, TypeOK, Collector, Stored
<1>5. CASE Record
  <2>1. /\ collector' = [at |-> "ready", memory |-> WithRecord, todo |-> collector.todo,
                         now |-> Nothing, pdf |-> Nothing,
                         downloaded |-> collector.downloaded \union {collector.now}]
        /\ collector.at = "fetched" /\ manifest' = WithRecord
        /\ UNCHANGED <<file, queued>>
    BY <1>5 DEF Record, NextCandidate, TypeOK, Collector
  <2> QED BY <1>4, <2>1 DEF TypeOK, Collector
<1>6. CASE RecordFails
  <2>1. /\ collector' = [at |-> "ready", memory |-> WithRecord, todo |-> collector.todo,
                         now |-> Nothing, pdf |-> Nothing,
                         downloaded |-> collector.downloaded]
        /\ collector.at = "fetched"
        /\ UNCHANGED <<file, manifest, queued>>
    BY <1>6 DEF RecordFails, NextCandidate, TypeOK, Collector
  <2> QED BY <1>4, <2>1 DEF TypeOK, Collector
<1>7. CASE FinishCandidates
  BY <1>7 DEF FinishCandidates, TypeOK, Collector
<1>8. CASE End \/ Crash
  BY <1>8 DEF End, Crash, NoCollector, TypeOK
<1>9. ASSUME NEW s \in Sources, Skip(s) PROVE AllIsSafe'
  BY <1>9 DEF Skip, Chooses, TypeOK, Collector
<1>10. ASSUME NEW s \in Sources, BeginDownload(s) PROVE AllIsSafe'
  <2>1. s \notin queued \union collector.downloaded
    BY <1>10 DEF BeginDownload, Chooses, UpToDate, Recorded
  <2>2. /\ collector' = [at |-> "fetching", memory |-> collector.memory,
                         todo |-> collector.todo \ {s}, now |-> s, pdf |-> collector.pdf,
                         downloaded |-> collector.downloaded]
        /\ collector.at = "ready"
        /\ UNCHANGED <<manifest, queued>>
    BY <1>10 DEF BeginDownload, Chooses, TypeOK, Collector
  <2>3. \A t \in Sources : t # s => file'[t] = file[t]
    BY <1>10 DEF BeginDownload, TypeOK, Stored
  <2> QED BY <2>1, <2>2, <2>3 DEF TypeOK, Collector
<1>11. ASSUME NEW s \in Sources, Enqueue(s) \/ EnqueueFails(s) PROVE AllIsSafe'
  <2>1. /\ collector' = [collector EXCEPT !.downloaded = @ \ {s}]
        /\ collector.at = "queueing" /\ s \in collector.downloaded
        /\ queued' \subseteq queued \union {s}
        /\ UNCHANGED disk
    BY <1>11 DEF Enqueue, EnqueueFails, ToQueue
  <2>2. collector.now = Nothing /\ Nothing \notin Sources
    BY <2>1 DEF TypeOK
  <2> QED BY <2>1, <2>2 DEF TypeOK, Collector
<1>12. ASSUME NEW s \in Sources, Take(s) PROVE AllIsSafe'
  BY <1>12 DEF Take
<1>13. ASSUME NEW s \in Sources, Damage(s) PROVE AllIsSafe'
  BY <1>13 DEF Damage, Undamaged
<1>14. CASE UNCHANGED vars
  BY <1>14 DEF vars
<1> QED BY <1>1, <1>2, <1>3, <1>5, <1>6, <1>7, <1>8, <1>9, <1>10, <1>11, <1>12, <1>13, <1>14
        DEF Next

LEMMA InvariantHolds == Spec => [](TypeOK /\ IInv)
<1>1. Init => TypeOK /\ IInv
  <2>1. Init => TypeOK
    BY NothingAssumption, TroublesAssumption, NoCollectorType DEF Init, TypeOK, NoCollector
  <2>2. Init => IInv
    BY DEF Init, IInv, AllIsSafe, QueuedIsSafe, DownloadedIsSafe, NowIsNew,
           FetchedIsStored, IdleHasNothing, NoCollector
  <2> QED BY <2>1, <2>2
<1> QED BY <1>1, TypeInductive, InvariantInductive, PTL DEF Spec

\* However often collectors run, die, or fail to write or to queue, a worker finds the
\* PDF and the record of every task it takes, unless somebody damages the PDFs.
THEOREM TasksAreReady == Spec => []QueuedIsReady
<1>1. TypeOK /\ IInv => QueuedIsReady
  BY DEF TypeOK, IInv, AllIsSafe, QueuedIsSafe, Safe, QueuedIsReady
<1> QED BY <1>1, InvariantHolds, PTL

\* And what was queued is not downloaded again, so no work becomes two papers.
THEOREM NothingQueuedTwice == Spec => []QueuedOnce
<1>1. IInv => QueuedOnce
  BY DEF IInv, AllIsSafe, DownloadedIsSafe, QueuedOnce
<1> QED BY <1>1, InvariantHolds, PTL

-----------------------------------------------------------------------------
(* Nothing is recorded and then forgotten, as long as nothing goes wrong. *)

\* What is recorded was queued, or is going to be by the running collector; and that
\* collector does not come back to it.
AccountedFor ==
    /\ \A s \in Sources : manifest[s] # Nothing => s \in queued \union collector.downloaded
    /\ collector.at # "idle" => collector.memory = manifest
    /\ collector.at = "idle" => collector.downloaded = {}
    /\ collector.todo \cap collector.downloaded = {}
    /\ collector.now \notin collector.todo
    /\ skipped \subseteq queued
RInv == trouble = {} => AccountedFor

LEMMA RecordedInductive == TypeOK /\ RInv /\ [Next]_vars => RInv'
<1> SUFFICES ASSUME TypeOK, AccountedFor, trouble = {}, [Next]_vars PROVE AccountedFor'
    BY TroubleIsFixed DEF RInv
<1> USE NothingAssumption DEF AccountedFor, disk, tasks
<1>1. CASE Start
  <2>1. PICK found \in (SUBSET Sources) \ {{}} :
            collector' = [NoCollector EXCEPT !.at = "ready", !.memory = manifest, !.todo = found]
    BY <1>1 DEF Start
  <2>2. collector' = [at |-> "ready", memory |-> manifest, todo |-> found,
                      now |-> Nothing, pdf |-> Nothing, downloaded |-> {}]
    BY <2>1 DEF NoCollector
  <2> QED BY <1>1, <2>2 DEF Start
<1>2. CASE Fetch
  <2>1. PICK pdf \in Contents : collector' = [collector EXCEPT !.at = "fetched", !.pdf = pdf]
    BY <1>2 DEF Fetch
  <2> QED BY <1>2, <2>1 DEF Fetch, TypeOK, Collector
<1>3. CASE FetchFails
  <2>1. /\ collector' = [at |-> "ready", memory |-> collector.memory, todo |-> collector.todo,
                         now |-> Nothing, pdf |-> Nothing, downloaded |-> collector.downloaded]
        /\ collector.at = "fetching" /\ UNCHANGED <<manifest, queued, skipped>>
    BY <1>3 DEF FetchFails, NextCandidate, TypeOK, Collector
  <2> QED BY <2>1 DEF TypeOK, Collector
<1>4. CASE Record
  <2>1. /\ collector' = [at |-> "ready", memory |-> WithRecord, todo |-> collector.todo,
                         now |-> Nothing, pdf |-> Nothing,
                         downloaded |-> collector.downloaded \union {collector.now}]
        /\ collector.at = "fetched" /\ manifest' = WithRecord
        /\ UNCHANGED <<queued, skipped>>
    BY <1>4 DEF Record, NextCandidate, TypeOK, Collector
  <2>2. \A s \in Sources : s # collector.now => WithRecord[s] = manifest[s]
    BY <2>1 DEF WithRecord, TypeOK, Stored
  <2> QED BY <2>1, <2>2 DEF TypeOK, Collector
<1>5. CASE RecordFails \/ Crash \/ \E s \in Sources : EnqueueFails(s) \/ Damage(s)
  BY <1>5 DEF RecordFails, Crash, EnqueueFails, Damage
<1>6. CASE FinishCandidates
  BY <1>6 DEF FinishCandidates, TypeOK, Collector
<1>7. CASE End
  BY <1>7 DEF End, NoCollector, TypeOK
<1>8. ASSUME NEW s \in Sources, Skip(s) PROVE AccountedFor'
  <2>1. manifest[s] # Nothing /\ s \notin collector.downloaded
    BY <1>8 DEF Skip, Chooses, UpToDate, Recorded
  <2>2. s \in queued
    BY <2>1
  <2> QED BY <1>8, <2>2 DEF Skip, Chooses, TypeOK, Collector
<1>9. ASSUME NEW s \in Sources, BeginDownload(s) PROVE AccountedFor'
  <2>1. /\ collector' = [at |-> "fetching", memory |-> collector.memory,
                         todo |-> collector.todo \ {s}, now |-> s, pdf |-> collector.pdf,
                         downloaded |-> collector.downloaded]
        /\ collector.at = "ready" /\ UNCHANGED <<manifest, queued, skipped>>
    BY <1>9 DEF BeginDownload, Chooses, TypeOK, Collector
  <2> QED BY <2>1
<1>10. ASSUME NEW s \in Sources, Enqueue(s) PROVE AccountedFor'
  <2>1. /\ collector' = [collector EXCEPT !.downloaded = @ \ {s}]
        /\ queued' = queued \union {s} /\ UNCHANGED <<manifest, skipped>>
    BY <1>10 DEF Enqueue, ToQueue
  <2> QED BY <2>1 DEF TypeOK, Collector
<1>11. ASSUME NEW s \in Sources, Take(s) PROVE AccountedFor'
  BY <1>11 DEF Take
<1>12. CASE UNCHANGED vars
  BY <1>12 DEF vars
<1> QED BY <1>1, <1>2, <1>3, <1>4, <1>5, <1>6, <1>7, <1>8, <1>9, <1>10, <1>11, <1>12 DEF Next

\* With nothing gone wrong around the collectors, all that the manifest records when one of
\* them ends has been queued, and what any of them skips was queued before, for any number
\* of works and collectors (cli.py:64-66).
THEOREM RecordedWorkIsQueued == Spec => []RecordedIsQueued
<1>1. Init => RInv
  BY DEF Init, RInv, AccountedFor, NoCollector, Empty
<1>2. RInv => RecordedIsQueued
  BY DEF RInv, AccountedFor, RecordedIsQueued
<1> QED BY <1>1, <1>2, RecordedInductive, CollectTypeCorrect, PTL DEF Spec
=============================================================================
