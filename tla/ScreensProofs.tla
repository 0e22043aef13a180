---------------------------- MODULE ScreensProofs ----------------------------
(***************************************************************************)
(* A session watches the OCR runs it has started, and shows what answers   *)
(* its forms, and a document that became ready stays so, for any number of *)
(* documents, jobs, workers and queries.                                   *)
(***************************************************************************)
EXTENDS Screens, TLAPS

(***************************************************************************)
(* Jobs.  What makes NoRunBehindItsBack inductive: a job that is not       *)
(* forgotten is in one place only, as a message or in a worker, and has no *)
(* outcome while it is there.                                              *)
(***************************************************************************)
Typed == /\ message \in [Jobs -> 0..2]
         /\ about \in [Jobs -> Docs \union {NoDoc}]
         /\ outcome \in [Jobs -> {"none", "success", "failure"}]
         /\ watching \in [Docs -> Jobs \union {NoJob}]
         /\ run \in [Workers -> [job : Jobs, at : RunStages] \union {Idle}]

InOnePlace(j) == /\ message[j] <= 1
                 /\ message[j] = 1 => Running(j) = {}
                 /\ \A w, x \in Running(j) : w = x
Watched(j) == /\ InOnePlace(j)
              /\ Live(j) => watching[about[j]] = j /\ outcome[j] = "none"

WatchInv == /\ Typed
            /\ \A d \in Docs : watching[d] # NoJob => about[watching[d]] = d
            /\ \A j \in Jobs : about[j] = NoDoc => ~Live(j) /\ outcome[j] = "none"
            /\ \A j \in Jobs \ forgotten : Watched(j)

\* What the user does to the jobs, and to what the session knows of them.
NoJobConcerned == UNCHANGED <<message, about, run, outcome, watching, forgotten>>
StopsWatching(d) ==
    /\ watching[d] \in Jobs /\ watching' = [watching EXCEPT ![d] = NoJob]
    /\ UNCHANGED <<message, about, run, outcome>>
    /\ \/ outcome[watching[d]] # "none" /\ UNCHANGED forgotten
       \/ forgotten' = forgotten \union {watching[d]}
Starts(d, j) ==
    /\ watching[d] = NoJob /\ Enqueue(j, d)
    /\ \/ watching' = [watching EXCEPT ![d] = j] /\ UNCHANGED forgotten
       \/ UNCHANGED watching /\ forgotten' = forgotten \union {j}

LEMMA RunOfTheScript ==
    ASSUME WatchInv, NEW d \in Docs, JustRun(d)
    PROVE  NoJobConcerned \/ StopsWatching(d)
<1>1. CASE Draw(d)
  BY <1>1 DEF Draw, NoJobConcerned, jobVars
<1>2. PollsFor(d) => watching[d] \in Jobs
  BY DEF WatchInv, Typed, PollsFor
<1>3. CASE PollFails(d)
  BY <1>2, <1>3 DEF PollFails, StopsWatching, jobVars
<1>4. CASE Poll(d)
  <2>1. PollsFor(d) /\ UNCHANGED <<message, about, run, outcome, forgotten>>
    BY <1>4 DEF Poll, jobVars
  <2>2. CASE JobStatus(watching[d]) = "pending"
    BY <1>4, <2>1, <2>2 DEF Poll, NoJobConcerned
  <2>3. CASE JobStatus(watching[d]) # "pending"
    <3>1. watching' = [watching EXCEPT ![d] = NoJob]
      BY <1>4, <2>3 DEF Poll
    <3>2. outcome[watching[d]] # "none"
      BY <2>3 DEF JobStatus
    <3> QED BY <1>2, <2>1, <3>1, <3>2 DEF StopsWatching
  <2> QED BY <2>2, <2>3
<1> QED BY <1>1, <1>3, <1>4 DEF JustRun

LEMMA Pressed ==
    ASSUME WatchInv, NEW d \in Docs, NEW button \in Buttons, Press(button, d)
    PROVE  NoJobConcerned \/ \E j \in Jobs : Starts(d, j)
<1>1. CASE button = "ocr"
  <2>1. Submit(d) /\ "ocr" \in ButtonsFor(d)
    BY <1>1 DEF Press
  <2>2. ~PollsFor(d) /\ InPhase(d, "layout_review")
    BY <2>1 DEF ButtonsFor
  <2>3. watching[d] = NoJob
    BY <2>2 DEF PollsFor
  <2> QED BY <2>1, <2>3 DEF Submit, Starts
<1>2. CASE button = "approve"
  BY <1>2 DEF Press, Approve, RequestChanges, NoJobConcerned
<1>3. CASE button = "return"
  BY <1>3 DEF Press, ReturnToLayout, RequestChanges, NoJobConcerned
<1>4. CASE button = "ingest"
  BY <1>4 DEF Press, Ingest, RequestChanges, NoJobConcerned
<1> QED BY <1>1, <1>2, <1>3, <1>4 DEF Buttons

-----------------------------------------------------------------------------
(* The steps of the user keep the invariant. *)

LEMMA StopsWatchingSafe ==
    ASSUME WatchInv, NEW d \in Docs, StopsWatching(d)
    PROVE  WatchInv'
<1>1. Typed'
  BY DEF WatchInv, Typed, StopsWatching
<1>2. /\ watching' \in [Docs -> Jobs \union {NoJob}] /\ watching'[d] = NoJob
      /\ \A e \in Docs \ {d} : watching'[e] = watching[e]
  BY DEF WatchInv, Typed, StopsWatching
<1>3. /\ \A e \in Docs : watching'[e] # NoJob => about'[watching'[e]] = e
      /\ \A j \in Jobs : about'[j] = NoDoc => ~Live(j)' /\ outcome'[j] = "none"
  BY <1>2 DEF WatchInv, StopsWatching, Live, Running
<1>4. ASSUME NEW j \in Jobs \ forgotten' PROVE Watched(j)'
  <2>1. j \notin forgotten /\ Watched(j) /\ InOnePlace(j)'
    BY DEF WatchInv, StopsWatching, Watched, InOnePlace, Running
  <2>2. CASE j = watching[d]
    <3>1. outcome[j] # "none"
      BY <1>4, <2>2 DEF StopsWatching
    <3>2. ~Live(j)
      BY <2>1, <3>1 DEF Watched
    <3> QED BY <2>1, <3>2 DEF Watched, Live, Running, StopsWatching
  <2>3. CASE j # watching[d]
    <3>1. ASSUME Live(j) PROVE watching'[about[j]] = j /\ outcome[j] = "none"
      <4>1. watching[about[j]] = j /\ outcome[j] = "none" /\ about[j] \in Docs
        BY <2>1, <3>1 DEF Watched, WatchInv, Typed
      <4> QED BY <1>2, <2>3, <4>1
    <3> QED BY <2>1, <3>1 DEF Watched, Live, Running, StopsWatching
  <2> QED BY <2>2, <2>3
<1> QED BY <1>1, <1>3, <1>4 DEF WatchInv

LEMMA StartsSafe ==
    ASSUME WatchInv, NEW d \in Docs, NEW j \in Jobs, Starts(d, j)
    PROVE  WatchInv'
<1>0. /\ about[j] = NoDoc /\ ~Live(j) /\ outcome[j] = "none" /\ UNCHANGED <<run, outcome>>
      /\ about' = [about EXCEPT ![j] = d] /\ message' = [message EXCEPT ![j] = 1]
  BY DEF Starts, Enqueue, WatchInv
<1>1. /\ about' \in [Jobs -> Docs \union {NoDoc}] /\ about'[j] = d
      /\ message' \in [Jobs -> 0..2] /\ message'[j] = 1
      /\ \A k \in Jobs \ {j} : about'[k] = about[k] /\ message'[k] = message[k]
  BY <1>0 DEF WatchInv, Typed
<1>2. \A e \in Docs : watching[e] # j
  BY <1>0, NamesAssumption DEF WatchInv
<1>3. /\ watching' \in [Docs -> Jobs \union {NoJob}]
      /\ \A e \in Docs \ {d} : watching'[e] = watching[e]
      /\ watching'[d] = j \/ (j \in forgotten' /\ watching'[d] = NoJob)
      /\ watching'[d] \in {NoJob, j} /\ forgotten \subseteq forgotten'
  BY DEF Starts, WatchInv, Typed
<1>4. Typed'
  BY <1>0, <1>1, <1>3 DEF WatchInv, Typed
<1>5. ASSUME NEW e \in Docs, watching'[e] # NoJob PROVE about'[watching'[e]] = e
  <2>1. CASE e = d
    BY <1>1, <1>3, <1>5, <2>1
  <2>2. CASE e # d
    BY <1>1, <1>2, <1>3, <1>5, <2>2 DEF WatchInv, Typed
  <2> QED BY <2>1, <2>2
<1>6. ASSUME NEW k \in Jobs, about'[k] = NoDoc PROVE ~Live(k)' /\ outcome'[k] = "none"
  <2>1. k # j
    BY <1>1, <1>6, NamesAssumption
  <2> QED BY <1>0, <1>1, <1>6, <2>1 DEF WatchInv, Live, Running
<1>7. ASSUME NEW k \in Jobs \ forgotten' PROVE Watched(k)'
  <2>1. CASE k = j
    <3>1. InOnePlace(j)'
      BY <1>0, <1>1 DEF InOnePlace, Live, Running
    <3> QED BY <1>0, <1>1, <1>3, <1>7, <2>1, <3>1 DEF Watched
  <2>2. CASE k # j
    <3>1. Watched(k) /\ message'[k] = message[k] /\ about'[k] = about[k]
      BY <1>1, <1>3, <1>7, <2>2 DEF WatchInv
    <3>2. InOnePlace(k)' /\ (Live(k)' <=> Live(k))
      BY <1>0, <3>1 DEF Watched, InOnePlace, Live, Running
    <3>3. ASSUME Live(k) PROVE watching'[about[k]] = k /\ outcome[k] = "none"
      <4>1. watching[about[k]] = k /\ outcome[k] = "none" /\ about[k] \in Docs
        BY <3>1, <3>3 DEF Watched, WatchInv, Typed
      <4>2. about[k] # d
        BY <4>1, <2>2, NamesAssumption DEF Starts
      <4> QED BY <1>3, <4>1, <4>2
    <3> QED BY <1>0, <3>1, <3>2, <3>3 DEF Watched
  <2> QED BY <2>1, <2>2
<1> QED BY <1>4, <1>5, <1>6, <1>7 DEF WatchInv

LEMMA NoJobConcernedSafe == ASSUME WatchInv, NoJobConcerned PROVE WatchInv'
BY DEF WatchInv, NoJobConcerned, Typed, Watched, InOnePlace, Live, Running

LEMMA ReloadSafe == ASSUME WatchInv, Reload PROVE WatchInv'
<1>1. /\ watching' = [d \in Docs |-> NoJob] /\ UNCHANGED <<message, about, run, outcome>>
      /\ forgotten' = forgotten \union ({watching[d] : d \in Docs} \ {NoJob})
  BY DEF Reload, NewSession, jobVars
<1>2. Typed'
  BY <1>1 DEF WatchInv, Typed
<1>3. ASSUME NEW j \in Jobs \ forgotten' PROVE Watched(j)'
  <2>1. Watched(j) /\ \A d \in Docs : watching[d] # j
    BY <1>1, <1>3, NamesAssumption DEF WatchInv
  <2>2. ~Live(j)
    BY <2>1 DEF Watched, WatchInv, Typed
  <2> QED BY <1>1, <2>1, <2>2 DEF Watched, InOnePlace, Live, Running
<1> QED BY <1>1, <1>2, <1>3 DEF WatchInv, Live, Running

LEMMA UserSafe == ASSUME WatchInv, UserStep PROVE WatchInv'
<1>1. ASSUME NEW d \in Docs, JustRun(d) PROVE WatchInv'
  BY <1>1, RunOfTheScript, StopsWatchingSafe, NoJobConcernedSafe
<1>2. ASSUME NEW d \in Docs, NEW button \in Buttons, ClickOn(button, d) PROVE WatchInv'
  BY <1>1, <1>2, Pressed, StartsSafe, NoJobConcernedSafe DEF ClickOn
<1>3. ASSUME NEW d \in Docs, Upload(d) \/ ReviewBlocks(d) PROVE WatchInv'
  BY <1>3, NoJobConcernedSafe DEF Upload, ReviewBlocks, NoJobConcerned, screenVars
<1> QED BY <1>1, <1>2, <1>3, ReloadSafe DEF UserStep, ChooseScope, ChooseDocument, Rerun

-----------------------------------------------------------------------------
(* So do the steps of the queue and of the workers. *)

\* Each keeps what the session knows, and what happens to the job that is not forgotten.
LEMMA JobsFrame ==
    ASSUME WatchInv, JobsStep, Typed',
           \A j \in Jobs : Live(j)' => Live(j),
           \A j \in Jobs : outcome'[j] # outcome[j] => about[j] # NoDoc \/ outcome'[j] = "none",
           \A j \in Jobs \ forgotten' : InOnePlace(j)' /\ (Live(j)' => outcome'[j] = "none")
    PROVE  WatchInv'
<1>1. about' = about /\ watching' = watching /\ forgotten \subseteq forgotten'
  BY DEF JobsStep, JobsNext, JobFault, WorkerStep, LoseMessage, Redeliver, ForgetOutcome, WorkerDies,
         Receive, ReadDocument, ApproveBoxes, StartOcr, SaveTexts, SaveQuality, Succeed, Fail, End
<1>2. ASSUME NEW j \in Jobs \ forgotten' PROVE Watched(j)'
  BY <1>1, <1>2 DEF WatchInv, Watched
<1> QED BY <1>1, <1>2 DEF WatchInv, Typed

LEMMA QueueSafe ==
    ASSUME WatchInv, JobsStep, NEW j \in Jobs, LoseMessage(j) \/ Redeliver(j) \/ ForgetOutcome(j)
    PROVE  WatchInv'
<1>0. /\ UNCHANGED <<about, run, watching>>
      /\ forgotten' = forgotten \union {k \in Jobs : message'[k] = 2}
  BY DEF JobsStep, LoseMessage, Redeliver, ForgetOutcome
<1>1. CASE LoseMessage(j)
  <2>1. /\ message' \in [Jobs -> 0..2] /\ outcome' = outcome
        /\ \A k \in Jobs : message'[k] <= message[k]
    BY <1>1 DEF LoseMessage, WatchInv, Typed
  <2>2. Typed' /\ \A k \in Jobs : Live(k)' => Live(k)
    BY <1>0, <2>1 DEF WatchInv, Typed, Live, Running
  <2>3. ASSUME NEW k \in Jobs \ forgotten' PROVE InOnePlace(k)' /\ (Live(k)' => outcome'[k] = "none")
    <3>1. Watched(k)
      BY <1>0 DEF WatchInv
    <3>2. message'[k] <= message[k] /\ message[k] \in 0..1 /\ message'[k] \in 0..1
      BY <2>1, <3>1 DEF Watched, InOnePlace, WatchInv, Typed
    <3> QED BY <1>0, <2>1, <2>2, <3>1, <3>2 DEF Watched, InOnePlace, Running
  <2> QED BY <2>1, <2>2, <2>3, JobsFrame
<1>2. CASE Redeliver(j)
  <2>1. /\ message' \in [Jobs -> 0..2] /\ outcome' = outcome /\ message[j] = 1 /\ message'[j] = 2
        /\ \A k \in Jobs \ {j} : message'[k] = message[k]
    BY <1>2 DEF Redeliver, WatchInv, Typed
  <2>2. Typed' /\ \A k \in Jobs : Live(k)' => Live(k)
    BY <1>0, <2>1 DEF WatchInv, Typed, Live, Running
  <2>3. ASSUME NEW k \in Jobs \ forgotten' PROVE InOnePlace(k)' /\ (Live(k)' => outcome'[k] = "none")
    <3>1. k # j /\ Watched(k)
      BY <1>0, <2>1 DEF WatchInv
    <3> QED BY <1>0, <2>1, <2>2, <3>1 DEF Watched, InOnePlace, Running
  <2> QED BY <2>1, <2>2, <2>3, JobsFrame
<1>3. CASE ForgetOutcome(j)
  <2>1. /\ message' = message /\ outcome' = [outcome EXCEPT ![j] = "none"]
    BY <1>3 DEF ForgetOutcome
  <2>2. outcome' \in [Jobs -> {"none", "success", "failure"}]
        /\ \A k \in Jobs : outcome'[k] \in {outcome[k], "none"}
    BY <2>1 DEF WatchInv, Typed
  <2>3. Typed' /\ \A k \in Jobs : Live(k)' => Live(k)
    BY <1>0, <2>1, <2>2 DEF WatchInv, Typed, Live, Running
  <2>4. ASSUME NEW k \in Jobs \ forgotten' PROVE InOnePlace(k)' /\ (Live(k)' => outcome'[k] = "none")
    <3>1. Watched(k)
      BY <1>0 DEF WatchInv
    <3> QED BY <1>0, <2>1, <2>2, <2>3, <3>1 DEF Watched, InOnePlace, Running
  <2> QED BY <2>2, <2>3, <2>4, JobsFrame
<1> QED BY <1>1, <1>2, <1>3

\* How a worker that turns to `new` changes who runs a job.
LEMMA RunsChange ==
    ASSUME WatchInv, NEW w \in Workers, NEW new \in [job : Jobs, at : RunStages] \union {Idle},
           run' = [run EXCEPT ![w] = new]
    PROVE  /\ run' \in [Workers -> [job : Jobs, at : RunStages] \union {Idle}]
           /\ \A j \in Jobs : Running(j)' = (Running(j) \ {w}) \union (IF new.job = j THEN {w} ELSE {})
BY DEF WatchInv, Typed, Running

LEMMA ReceiveSafe ==
    ASSUME WatchInv, JobsStep, NEW w \in Workers, NEW j \in Jobs, Receive(w, j)
    PROVE  WatchInv'
<1>0. /\ UNCHANGED <<about, outcome, watching>>
      /\ forgotten' = forgotten \union {k \in Jobs : message'[k] = 2}
  BY DEF JobsStep, Receive
<1> DEFINE new == [job |-> j, at |-> "reading"]
<1>1. new \in [job : Jobs, at : RunStages] /\ new.job = j
  BY DEF RunStages, ReadingStages
<1>2. run' = [run EXCEPT ![w] = new] /\ run[w] = Idle
  BY DEF Receive
<1> HIDE DEF new
<1>3. /\ run' \in [Workers -> [job : Jobs, at : RunStages] \union {Idle}]
      /\ \A k \in Jobs : Running(k)' = (Running(k) \ {w}) \union (IF k = j THEN {w} ELSE {})
  BY <1>1, <1>2, RunsChange
<1>4. /\ message' \in [Jobs -> 0..2] /\ message[j] > 0 /\ message'[j] = message[j] - 1
      /\ \A k \in Jobs \ {j} : message'[k] = message[k]
  BY DEF Receive, WatchInv, Typed
<1>5. Typed' /\ \A k \in Jobs : Live(k)' => Live(k)
  BY <1>0, <1>3, <1>4 DEF WatchInv, Typed, Live
<1>6. ASSUME NEW k \in Jobs \ forgotten' PROVE InOnePlace(k)' /\ (Live(k)' => outcome'[k] = "none")
  <2>1. Watched(k)
    BY <1>0 DEF WatchInv
  <2>2. CASE k = j
    <3>1. message[k] = 1 /\ Running(k) = {}
      BY <1>4, <2>1, <2>2 DEF Watched, InOnePlace, WatchInv, Typed
    <3>2. message'[k] = 0 /\ Running(k)' = {w}
      BY <1>3, <1>4, <2>2, <3>1
    <3> QED BY <1>0, <1>5, <2>1, <3>2 DEF Watched, InOnePlace
  <2>3. CASE k # j
    <3>1. Running(k)' \subseteq Running(k) /\ message'[k] = message[k]
      BY <1>3, <1>4, <2>3
    <3> QED BY <1>0, <1>5, <2>1, <3>1 DEF Watched, InOnePlace
  <2> QED BY <2>2, <2>3
<1> QED BY <1>0, <1>5, <1>6, JobsFrame

\* What a worker does to a document between taking a job and reporting.
Works(w) == \/ ReadDocument(w) \/ ApproveBoxes(w) \/ StartOcr(w)
            \/ SaveTexts(w) \/ SaveQuality(w)

LEMMA WorkGoesOn ==
    ASSUME NEW w \in Workers, Works(w)
    PROVE  /\ run[w] # Idle /\ UNCHANGED <<message, about, outcome>>
           /\ \E stage \in RunStages : GoTo(w, stage)
BY DEF Works, ReadDocument, ApproveBoxes, StartOcr, SaveTexts, SaveQuality,
       RunStages, ReadingStages, HoldingStages, Idle

\* A worker goes on, or comes to its end, with or without an outcome.
LEMMA RunSafe ==
    ASSUME WatchInv, JobsStep, NEW w \in Workers,
           Works(w) \/ Succeed(w) \/ Fail(w) \/ WorkerDies(w)
    PROVE  WatchInv'
<1>0. /\ UNCHANGED <<about, message, watching>>
      /\ forgotten' = forgotten \union {k \in Jobs : message'[k] = 2}
  BY WorkGoesOn DEF JobsStep, Succeed, Fail, WorkerDies, End
<1>1. run[w] # Idle
  BY WorkGoesOn DEF Succeed, Fail, WorkerDies, Idle, ReadingStages, HoldingStages
<1>2. PICK j \in Jobs : j = run[w].job
  BY <1>1 DEF WatchInv, Typed
<1>3. w \in Running(j) /\ Live(j)
  BY <1>2 DEF Running, Live
<1>4. CASE Works(w)
  <2>1. PICK stage \in RunStages : GoTo(w, stage)
    BY <1>4, WorkGoesOn
  <2> DEFINE new == [run[w] EXCEPT !.at = stage]
  <2>2. run[w] \in [job : Jobs, at : RunStages]
    BY <1>1 DEF WatchInv, Typed
  <2>3. new \in [job : Jobs, at : RunStages] /\ new.job = j
    BY <1>2, <2>2
  <2>4. run' = [run EXCEPT ![w] = new] /\ UNCHANGED outcome
    BY <1>4, <2>1, WorkGoesOn DEF GoTo
  <2> HIDE DEF new
  <2>5. /\ run' \in [Workers -> [job : Jobs, at : RunStages] \union {Idle}]
        /\ \A k \in Jobs : Running(k)' = (Running(k) \ {w}) \union (IF j = k THEN {w} ELSE {})
    BY <2>3, <2>4, RunsChange
  <2>6. \A k \in Jobs : Running(k)' = Running(k)
    BY <1>2, <1>3, <2>5 DEF Running
  <2>7. Typed' /\ \A k \in Jobs : Live(k)' => Live(k)
    BY <1>0, <2>4, <2>5, <2>6 DEF WatchInv, Typed, Live
  <2>8. ASSUME NEW k \in Jobs \ forgotten' PROVE InOnePlace(k)' /\ (Live(k)' => outcome'[k] = "none")
    BY <1>0, <2>4, <2>6, <2>7 DEF WatchInv, Watched, InOnePlace
  <2> QED BY <2>4, <2>7, <2>8, JobsFrame
<1>5. CASE Succeed(w) \/ Fail(w) \/ WorkerDies(w)
  <2>1. PICK ending \in {"none", "success", "failure"} :
            outcome' = [outcome EXCEPT ![j] = ending]
    <3>1. CASE Succeed(w)
      BY <1>2, <3>1 DEF Succeed, End
    <3>2. CASE Fail(w)
      BY <1>2, <3>2 DEF Fail, End
    <3>3. CASE WorkerDies(w)
      <4>1. outcome = [outcome EXCEPT ![j] = outcome[j]] /\ outcome[j] \in {"none", "success", "failure"}
        BY DEF WatchInv, Typed
      <4> QED BY <1>2, <3>3, <4>1 DEF WorkerDies
    <3> QED BY <1>5, <3>1, <3>2, <3>3
  <2>2. run' = [run EXCEPT ![w] = Idle] /\ Idle.job \notin Jobs
    BY <1>5, NamesAssumption DEF Succeed, Fail, WorkerDies, End, Idle
  <2>3. /\ run' \in [Workers -> [job : Jobs, at : RunStages] \union {Idle}]
        /\ \A k \in Jobs : Running(k)' = Running(k) \ {w}
    <3>1. Idle \in [job : Jobs, at : RunStages] \union {Idle}
      OBVIOUS
    <3>2. /\ run' \in [Workers -> [job : Jobs, at : RunStages] \union {Idle}]
          /\ \A k \in Jobs : Running(k)' = (Running(k) \ {w})
                                    \union (IF Idle.job = k THEN {w} ELSE {})
      <4> HIDE DEF Idle
      <4> QED BY <2>2, <3>1, RunsChange
    <3> QED BY <2>2, <3>2
  <2>4. /\ outcome' \in [Jobs -> {"none", "success", "failure"}]
        /\ \A k \in Jobs \ {j} : outcome'[k] = outcome[k]
    BY <2>1 DEF WatchInv, Typed
  <2>5. Typed' /\ \A k \in Jobs : Live(k)' => Live(k)
    BY <1>0, <2>3, <2>4 DEF WatchInv, Typed, Live
  <2>6. about[j] # NoDoc
    BY <1>3 DEF WatchInv
  <2>7. ASSUME NEW k \in Jobs \ forgotten' PROVE InOnePlace(k)' /\ (Live(k)' => outcome'[k] = "none")
    <3>1. Watched(k)
      BY <1>0 DEF WatchInv
    <3>2. InOnePlace(k)'
      BY <1>0, <2>3, <3>1 DEF Watched, InOnePlace
    <3>3. CASE k = j
      <4>1. Running(k) = {w} /\ message[k] = 0
        BY <1>3, <3>1, <3>3 DEF Watched, InOnePlace, WatchInv, Typed
      <4> QED BY <1>0, <2>3, <3>2, <4>1 DEF Live
    <3>4. CASE k # j
      BY <2>4, <2>5, <3>1, <3>2, <3>4 DEF Watched
    <3> QED BY <3>3, <3>4
  <2> QED BY <2>4, <2>5, <2>6, <2>7, JobsFrame
<1> QED BY <1>4, <1>5

LEMMA WatchInvInit == Init => WatchInv
<1> SUFFICES ASSUME Init PROVE WatchInv
  OBVIOUS
<1>1. /\ message = [j \in Jobs |-> 0] /\ about = [j \in Jobs |-> NoDoc]
      /\ outcome = [j \in Jobs |-> "none"] /\ run = [w \in Workers |-> Idle]
      /\ watching = [d \in Docs |-> NoJob]
  BY DEF Init, JobsInit, ScreenInit
<1>2. Typed
  BY <1>1 DEF Typed
<1>3. \A w \in Workers : run[w].job \notin Jobs
  BY <1>1, NamesAssumption DEF Idle
<1>4. \A j \in Jobs : Running(j) = {}
  BY <1>3 DEF Running
<1>5. \A j \in Jobs : ~Live(j) /\ Watched(j) /\ outcome[j] = "none"
  BY <1>1, <1>4 DEF Live, Watched, InOnePlace
<1> QED BY <1>1, <1>2, <1>5 DEF WatchInv

LEMMA WatchInvNext == WatchInv /\ [Next]_sessionVars => WatchInv'
<1> SUFFICES ASSUME WatchInv, [Next]_sessionVars PROVE WatchInv'
  OBVIOUS
<1>1. CASE UNCHANGED sessionVars
  BY <1>1, NoJobConcernedSafe DEF sessionVars, jobVars, screenVars, NoJobConcerned
<1>2. CASE JobsStep
  BY <1>2, QueueSafe, ReceiveSafe, RunSafe DEF JobsStep, JobsNext, JobFault, WorkerStep, Works
<1>3. CASE Review
  BY <1>3, UserSafe DEF Review
<1>4. CASE Search \/ (SessionEnds /\ UNCHANGED <<jobVars, screenVars>>)
  BY <1>4, NoJobConcernedSafe DEF Search, jobVars, screenVars, NoJobConcerned
<1> QED BY <1>1, <1>2, <1>3, <1>4 DEF Next

\* A session watches each job it started until the job has ended, unless it was told of an
\* error, was reloaded, or the queue delivered the job twice; so the page starts no second
\* OCR run of a document beside the first (_render_upload_review).
THEOREM RunsAreWatched == Spec => []NoRunBehindItsBack
<1>1. Init => WatchInv
  BY WatchInvInit
<1>2. WatchInv /\ [Next]_sessionVars => WatchInv'
  BY WatchInvNext
<1>3. WatchInv => NoRunBehindItsBack
  BY DEF WatchInv, Watched, NoRunBehindItsBack
<1> QED BY <1>1, <1>2, <1>3, PTL DEF Spec

-----------------------------------------------------------------------------
(***************************************************************************)
(* Ready for ingestion.  A document that became ready while no run was at  *)
(* work on it stays without one: a run that comes later finds it out of    *)
(* layout review.  Only a run at work could take it back.                  *)
(***************************************************************************)
Ready(d) == InPhase(d, "ready_to_ingest")
LeftAlone(d) == Ready(d) => AtWork(d) = {}

RestInv == /\ WatchInv
           /\ document \in [Docs -> Document \union {NoDoc}]
           /\ \A d \in Docs \ overlapped : LeftAlone(d)

\* What becomes of one document in a step.
Rests(d) == Ready(d) /\ AtWork(d) = {} => Ready(d)' /\ AtWork(d)' = {}
DocumentsRest == /\ document' \in [Docs -> Document \union {NoDoc}]
                 /\ \A d \in Docs : Rests(d)

\* What the user does to documents: a ready one stays ready.
Edit(d, contents) == /\ SaveDocument(d, contents) /\ contents \in Document
                     /\ Ready(d) => contents.phase = "ready_to_ingest"
                     /\ UNCHANGED <<about, run>>
NoWorkDone == UNCHANGED <<document, about, run>>

LEMMA NoWorkRests == ASSUME RestInv, NoWorkDone PROVE DocumentsRest
BY DEF RestInv, NoWorkDone, DocumentsRest, Rests, Ready, InPhase, Existing, AtWork

LEMMA EditRests ==
    ASSUME RestInv, NEW d \in Docs, NEW contents, Edit(d, contents)
    PROVE  DocumentsRest
<1>1. /\ document' \in [Docs -> Document \union {NoDoc}] /\ document'[d] = contents
      /\ \A e \in Docs \ {d} : document'[e] = document[e]
  BY DEF RestInv, Edit, SaveDocument
<1>2. \A e \in Docs : AtWork(e)' = AtWork(e)
  BY DEF Edit, AtWork
<1>3. \A e \in Docs : Ready(e) => Ready(e)'
  BY <1>1, NoDocAssumption DEF Edit, Ready, InPhase, Existing
<1> QED BY <1>1, <1>2, <1>3 DEF DocumentsRest, Rests

\* A job that is queued now is not being run.
LEMMA EnqueueRests ==
    ASSUME RestInv, NEW j \in Jobs, NEW d \in Docs, Enqueue(j, d)
    PROVE  DocumentsRest
<1>1. Running(j) = {} /\ UNCHANGED <<document, run>>
  BY DEF Enqueue, RestInv, WatchInv, Live
<1>2. \A w \in Workers : run[w].at \in HoldingStages =>
          run[w].job \in Jobs \ {j} /\ about'[run[w].job] = about[run[w].job]
  BY <1>1 DEF Enqueue, RestInv, WatchInv, Typed, Running, Idle, HoldingStages
<1>3. \A e \in Docs : AtWork(e)' = AtWork(e) /\ (Ready(e)' <=> Ready(e))
  BY <1>1, <1>2 DEF AtWork, Ready, InPhase, Existing
<1> QED BY <1>1, <1>3 DEF DocumentsRest, Rests, RestInv

LEMMA UserRests == ASSUME RestInv, UserStep PROVE DocumentsRest
<1>1. ASSUME NEW d \in Docs, JustRun(d) PROVE NoWorkDone
  BY <1>1 DEF JustRun, Poll, PollFails, Draw, jobVars, NoWorkDone
<1>2. ASSUME NEW d \in Docs, NEW button \in Buttons, Press(button, d) PROVE DocumentsRest
  <2>1. d \in Existing /\ document[d] \in Document
    BY <1>2 DEF Press, ButtonsFor, RestInv, Existing
  <2>2. CASE button = "ocr"
    <3>1. \E j \in Jobs : Enqueue(j, d)
      BY <1>2, <2>2 DEF Press, Submit
    <3> QED BY <3>1, EnqueueRests
  <2>3. CASE button = "approve"
    <3> DEFINE contents == [document[d] EXCEPT !.phase = "ready_to_ingest", !.unreviewed = FALSE]
    <3>1. contents \in Document /\ contents.phase = "ready_to_ingest"
      BY <2>1 DEF Document, Phases
    <3>2. Edit(d, contents)
      BY <1>2, <2>3, <3>1 DEF Press, Approve, RequestChanges, Edit
    <3> QED BY <3>2, EditRests
  <2>4. CASE button = "return"
    <3>1. Detected \in Document
      BY DEF Detected, Document, Phases
    <3>2. ~Ready(d)
      BY <1>2, <2>1, <2>4 DEF Press, ButtonsFor, Ready, InPhase
    <3>3. Edit(d, Detected)
      BY <1>2, <2>4, <3>1, <3>2 DEF Press, ReturnToLayout, RequestChanges, Edit
    <3> QED BY <3>3, EditRests
  <2>5. CASE button = "ingest"
    <3> DEFINE contents == [document[d] EXCEPT !.ingested = TRUE]
    <3>1. contents \in Document /\ contents.phase = document[d].phase
      BY <2>1 DEF Document
    <3>2. Edit(d, contents)
      BY <1>2, <2>5, <3>1 DEF Press, Ingest, RequestChanges, Edit, Ready, InPhase
    <3> QED BY <3>2, EditRests
  <2> QED BY <2>2, <2>3, <2>4, <2>5 DEF Buttons
<1>3. ASSUME NEW d \in Docs, Upload(d) PROVE DocumentsRest
  <2>1. Detected \in Document /\ ~Ready(d)
    BY <1>3 DEF Detected, Document, Phases, Upload, Ready, InPhase, Existing
  <2>2. Edit(d, Detected)
    BY <1>3, <2>1 DEF Upload, Edit
  <2> QED BY <2>2, EditRests
<1>4. ASSUME NEW d \in Docs, ReviewBlocks(d) PROVE DocumentsRest
  <2> DEFINE contents == [document[d] EXCEPT !.unreviewed = FALSE]
  <2>1. document[d] \in Document
    BY <1>4 DEF ReviewBlocks, Existing, RestInv
  <2>2. contents \in Document /\ contents.phase = document[d].phase
    BY <2>1 DEF Document
  <2>3. Edit(d, contents)
    BY <1>4, <2>2 DEF ReviewBlocks, Edit, Ready, InPhase
  <2> QED BY <2>3, EditRests
<1>5. CASE Reload
  BY <1>5, NoWorkRests DEF Reload, jobVars, NoWorkDone
<1> QED
  BY <1>1, <1>2, <1>3, <1>4, <1>5, NoWorkRests
     DEF UserStep, ClickOn, ChooseScope, ChooseDocument, Rerun

\* A worker saves a document only while its run is at work on it, and comes to be at
\* work on it only in layout review.
LEMMA RunRests ==
    ASSUME RestInv, NEW w \in Workers, Works(w)
    PROVE  DocumentsRest
<1> DEFINE d == about[run[w].job]
<1>1. document' = document \/ \E contents \in Document : SaveDocument(d, contents)
  <2>1. CASE ReadDocument(w) \/ StartOcr(w)
    BY <2>1 DEF ReadDocument, StartOcr
  <2>2. CASE ApproveBoxes(w)
    <3>1. Approved \in Document
      BY DEF Approved, Detected, Document, Phases
    <3> QED BY <2>2, <3>1 DEF ApproveBoxes
  <2>3. CASE SaveTexts(w)
    BY <2>3 DEF SaveTexts, Document, Phases
  <2>4. CASE SaveQuality(w)
    BY <2>4 DEF SaveQuality, Judgements, Document, Phases
  <2> QED BY <2>1, <2>2, <2>3, <2>4 DEF Works
<1>2. /\ document' \in [Docs -> Document \union {NoDoc}]
      /\ \A e \in Docs \ {d} : document'[e] = document[e]
  BY <1>1 DEF SaveDocument, RestInv
<1>3. ASSUME d \in Docs PROVE ~(Ready(d) /\ AtWork(d) = {})
  <2>1. CASE ReadDocument(w) \/ StartOcr(w)
    BY <2>1 DEF ReadDocument, StartOcr, Ready, InPhase
  <2>2. CASE ApproveBoxes(w) \/ SaveTexts(w) \/ SaveQuality(w)
    BY <2>2 DEF ApproveBoxes, SaveTexts, SaveQuality, AtWork, HoldingStages
  <2> QED BY <2>1, <2>2 DEF Works
<1>4. ASSUME NEW e \in Docs \ {d} PROVE AtWork(e)' = AtWork(e) /\ (Ready(e)' <=> Ready(e))
  <2>1. about' = about /\ \E stage \in RunStages : GoTo(w, stage)
    BY WorkGoesOn
  <2>2. run[w].job \in Jobs /\ run[w] \in [job : Jobs, at : RunStages]
    BY WorkGoesOn DEF RestInv, WatchInv, Typed
  <2>3. run'[w].job = run[w].job /\ \A x \in Workers \ {w} : run'[x] = run[x]
    BY <2>1, <2>2 DEF GoTo, RestInv, WatchInv, Typed
  <2>4. AtWork(e)' = AtWork(e)
    BY <2>1, <2>3, <1>4 DEF AtWork
  <2> QED BY <1>2, <2>4 DEF Ready, InPhase, Existing
<1> QED BY <1>2, <1>3, <1>4 DEF DocumentsRest, Rests

LEMMA JobsRest == ASSUME RestInv, JobsStep PROVE DocumentsRest
<1>1. ASSUME NEW w \in Workers, Works(w) PROVE DocumentsRest
  BY <1>1, RunRests
<1>2. CASE UNCHANGED <<document, about, run>>
  BY <1>2, NoWorkRests DEF NoWorkDone
<1>3. ASSUME NEW w \in Workers, UNCHANGED <<document, about>>,
             \/ run' = [run EXCEPT ![w] = Idle]
             \/ \E j \in Jobs : run' = [run EXCEPT ![w] = [job |-> j, at |-> "reading"]]
      PROVE  DocumentsRest
  <2>1. run'[w].at \in {"idle", "reading"} /\ \A x \in Workers \ {w} : run'[x] = run[x]
    BY <1>3 DEF RestInv, WatchInv, Typed, Idle
  <2>2. \A d \in Docs : AtWork(d)' \subseteq AtWork(d) /\ (Ready(d)' <=> Ready(d))
    BY <1>3, <2>1 DEF AtWork, HoldingStages, Ready, InPhase, Existing
  <2> QED BY <1>3, <2>2 DEF DocumentsRest, Rests, RestInv
<1> QED
  BY <1>1, <1>2, <1>3
     DEF JobsStep, JobsNext, JobFault, WorkerStep, LoseMessage, Redeliver, ForgetOutcome,
         WorkerDies, Receive, Works, Succeed, Fail, End

LEMMA DocumentsRestNext == ASSUME RestInv, [Next]_sessionVars PROVE DocumentsRest
<1>1. CASE UNCHANGED jobVars
  BY <1>1, NoWorkRests DEF jobVars, NoWorkDone
<1> QED BY <1>1, UserRests, JobsRest DEF Next, Review, Search, sessionVars

LEMMA RestInvNext == RestInv /\ [Next]_sessionVars => RestInv'
<1> SUFFICES ASSUME RestInv, [Next]_sessionVars PROVE RestInv'
  OBVIOUS
<1>1. WatchInv' /\ DocumentsRest
  BY WatchInvNext, DocumentsRestNext DEF RestInv
<1>2. ASSUME NEW d \in Docs \ overlapped' PROVE LeftAlone(d)'
  <2>1. d \notin overlapped
    BY <1>2 DEF Next, sessionVars
  <2>2. CASE Ready(d)
    BY <1>1, <2>1, <2>2 DEF RestInv, LeftAlone, DocumentsRest, Rests
  <2>3. CASE ~Ready(d)
    BY <1>2, <2>3 DEF Next, LeftAlone, Ready, sessionVars, jobVars, InPhase, Existing
  <2> QED BY <2>2, <2>3
<1> QED BY <1>1, <1>2 DEF RestInv, DocumentsRest

\* Whatever the user does and however often a job is delivered, lost or run again, a
\* document that is ready for ingestion stays so, unless a run was at work on it when
\* it became ready, having read it and not saved it yet (run_automatic_ocr, run_reviewed_ocr).
THEOREM ReadyAlwaysStays == Spec => ReadyStays
<1>1. Init => RestInv
  <2> SUFFICES ASSUME Init PROVE RestInv
    OBVIOUS
  <2>1. WatchInv
    BY WatchInvInit
  <2>2. document = [d \in Docs |-> NoDoc]
    BY DEF Init, JobsInit
  <2> QED BY <2>1, <2>2 DEF RestInv, LeftAlone, Ready, InPhase, Existing
<1>2. RestInv /\ [Next]_sessionVars => RestInv'
  BY RestInvNext
<1>3. RestInv /\ [Next]_sessionVars =>
        [\A d \in Docs \ overlapped :
            InPhase(d, "ready_to_ingest") => InPhase(d, "ready_to_ingest")']_sessionVars
  BY DocumentsRestNext DEF RestInv, LeftAlone, DocumentsRest, Rests, Ready
<1> QED BY <1>1, <1>2, <1>3, PTL DEF Spec, ReadyStays

-----------------------------------------------------------------------------
(***************************************************************************)
(* Searches.  While suggestions are on the screen, the session that the    *)
(* API keeps is the one they came with, or none.                           *)
(***************************************************************************)
FormInv == /\ form \in Question
           /\ AnswersTheForm
           /\ suggestion # Nothing => offer \in {suggestion, Nothing}

LEMMA FormInvNext == FormInv /\ [Next]_sessionVars => FormInv'
<1> SUFFICES ASSUME FormInv, [Next]_sessionVars PROVE FormInv'
  OBVIOUS
<1>0. Nothing \notin Question
  BY NothingAssumption DEF Question
<1>1. CASE UNCHANGED searchVars
  BY <1>1 DEF searchVars, FormInv, AnswersTheForm
<1>2. ASSUME form' \in Question, RunSearch(form') PROVE FormInv'
  BY <1>0, <1>2 DEF RunSearch, SetResult, SetSuggestion, OfferFor, FormInv, AnswersTheForm
<1>3. ASSUME NEW query \in Queries, SubmitQuery(query) PROVE FormInv'
  BY <1>2, <1>3, OptionsAssumption DEF SubmitQuery, Ask, Question
<1>4. ASSUME NEW options \in Options, Rebuild(options) PROVE FormInv'
  <2>1. form' = [form EXCEPT !.options = options] /\ RunSearch(form')
    BY <1>4 DEF Rebuild
  <2>2. form' \in Question
    BY <2>1 DEF FormInv, Question
  <2> QED BY <1>2, <2>1, <2>2
<1>5. CASE Select
  BY <1>0, <1>5 DEF Select, SetResult, FormInv, AnswersTheForm
<1>6. CASE SessionEnds
  BY <1>6 DEF SessionEnds, FormInv, AnswersTheForm
<1>7. CASE Search
  BY <1>3, <1>4, <1>5, <1>7 DEF Search, SearchNext
<1>8. CASE (JobsStep /\ UNCHANGED searchVars) \/ Review
  BY <1>1, <1>8 DEF Review
<1> QED BY <1>1, <1>6, <1>7, <1>8 DEF Next, sessionVars, searchVars

\* What is on the screen answers the form, unless the last form sent got no answer, for any
\* queries and options and whenever the suggestion session expires (_set_result, select).
THEOREM ScreenAnswersForm == Spec => []AnswersTheForm
<1>1. Init => FormInv
  BY QueriesAssumption, OptionsAssumption
     DEF Init, SearchInit, Ask, Question, FormInv, AnswersTheForm
<1>2. FormInv /\ [Next]_sessionVars => FormInv'
  BY FormInvNext
<1>3. FormInv => AnswersTheForm
  BY DEF FormInv
<1> QED BY <1>1, <1>2, <1>3, PTL DEF Spec
=============================================================================
