------------------------------- MODULE OcrJobs -------------------------------
(***************************************************************************)
(* OCR as a background job: the API puts a task into the Celery queue      *)
(* (review/api.py), a worker runs run_automatic_ocr (worker/app.py,        *)
(* review/service.py) and Celery keeps the outcome for GET /jobs/{id}.     *)
(*                                                                         *)
(* A document is reduced to what the screens look at.  A worker's run      *)
(* reads the document twice and saves it three times, each in a            *)
(* transaction of its own; then it reports to Celery:                      *)
(*   reading     the task was taken from the queue                         *)
(*   approving   the document is read, to be saved with approved blocks    *)
(*   starting    that is saved; run_reviewed_ocr is about to read it again *)
(*   reviewing   read again, OCR is under way                              *)
(*   judging     the texts are saved, the quality is being judged          *)
(*   reporting   saved; Celery has not recorded the outcome yet            *)
(* ReviewService has these transactions in detail.                         *)
(***************************************************************************)
EXTENDS Naturals, FiniteSets

CONSTANTS
    Docs,      \* documents, numbered in the order of their upload
    Jobs,      \* jobs, numbered in the order they are submitted
    Workers,
    NoDoc, NoJob,
    Faults     \* whether processes die and messages get lost: any of these

ASSUME NumbersAssumption == Docs \subseteq Nat /\ Jobs \subseteq Nat
ASSUME NamesAssumption == NoDoc \notin Docs /\ NoJob \notin Jobs
ASSUME FaultsAssumption == Faults \subseteq BOOLEAN

VARIABLES
    document,  \* the documents
    message,   \* how many messages for a job are in the queue
    about,     \* the document each job is about
    run,       \* what each worker does
    outcome,   \* Celery's result backend
    faulty     \* the answer to Faults in this behaviour; never changes
jobVars == <<document, message, about, run, outcome, faulty>>

Phases == {"layout_review", "ocr_review", "ready_to_ingest"}
Document == [phase : Phases, unreviewed : BOOLEAN, ingested : BOOLEAN]
Idle == [job |-> NoJob, at |-> "idle"]
ReadingStages == {"reading", "starting"}               \* about to read the document
HoldingStages == {"approving", "reviewing", "judging"} \* about to save what it read before
RunStages == ReadingStages \union HoldingStages \union {"reporting"}
ASSUME NoDocAssumption == NoDoc \notin Document

JobsTypeOK ==
    /\ document \in [Docs -> Document \union {NoDoc}]
    /\ message \in [Jobs -> 0..2]
    /\ about \in [Jobs -> Docs \union {NoDoc}]
    /\ run \in [Workers -> [job : Jobs, at : RunStages] \union {Idle}]
    /\ outcome \in [Jobs -> {"none", "success", "failure"}]
    /\ faulty \in BOOLEAN

JobsInit ==
    /\ document = [d \in Docs |-> NoDoc]
    /\ message = [j \in Jobs |-> 0]
    /\ about = [j \in Jobs |-> NoDoc]
    /\ run = [w \in Workers |-> Idle]
    /\ outcome = [j \in Jobs |-> "none"]
    /\ faulty \in Faults

Existing == {d \in Docs : document[d] # NoDoc}
InPhase(d, phase) == d \in Existing /\ document[d].phase = phase
Running(j) == {w \in Workers : run[w].job = j}
Live(j) == message[j] > 0 \/ Running(j) # {}

Detected == [phase |-> "layout_review", unreviewed |-> TRUE, ingested |-> FALSE]
SaveDocument(d, contents) == document' = [document EXCEPT ![d] = contents]

-----------------------------------------------------------------------------
(* The API *)

\* .delay
Enqueue(j, d) ==
    /\ about[j] = NoDoc /\ \A k \in Jobs : k < j => about[k] # NoDoc
    /\ about' = [about EXCEPT ![j] = d]
    /\ message' = [message EXCEPT ![j] = 1]
    /\ UNCHANGED <<document, run, outcome, faulty>>

\* get_job_status: what Celery does not know is pending, like what is waiting or
\* running (task_track_started is off)
JobStatus(j) == IF outcome[j] = "none" THEN "pending" ELSE outcome[j]

-----------------------------------------------------------------------------
(* A worker *)

GoTo(w, stage) == run' = [run EXCEPT ![w] = [@ EXCEPT !.at = stage]]

\* acknowledged before it is run
Receive(w, j) ==
    /\ run[w] = Idle /\ message[j] > 0
    /\ message' = [message EXCEPT ![j] = @ - 1]
    /\ run' = [run EXCEPT ![w] = [job |-> j, at |-> "reading"]]
    /\ UNCHANGED <<document, about, outcome, faulty>>

\* run_automatic_ocr reads the document and looks at its phase
ReadDocument(w) ==
    /\ run[w].at = "reading" /\ InPhase(about[run[w].job], "layout_review")
    /\ GoTo(w, "approving")
    /\ UNCHANGED <<document, message, about, outcome, faulty>>

\* It saves what it read, with the blocks approved, over whatever is there by now.
Approved == [Detected EXCEPT !.unreviewed = FALSE]
ApproveBoxes(w) ==
    /\ run[w].at = "approving" /\ GoTo(w, "starting")
    /\ SaveDocument(about[run[w].job], Approved)
    /\ UNCHANGED <<message, about, outcome, faulty>>

\* Wrong on purpose: the caller has looked at the phase, so it is not looked at again.
StartOcrUnchecked(w) ==
    /\ run[w].at = "starting" /\ ~document[about[run[w].job]].unreviewed
    /\ GoTo(w, "reviewing")
    /\ UNCHANGED <<document, message, about, outcome, faulty>>
\* run_reviewed_ocr reads the document again, and looks at its phase and its blocks
StartOcr(w) ==
    /\ run[w].at = "starting" /\ InPhase(about[run[w].job], "layout_review")
    /\ ~document[about[run[w].job]].unreviewed
    /\ GoTo(w, "reviewing")
    /\ UNCHANGED <<document, message, about, outcome, faulty>>

\* After OCR it saves the document it read before.
SaveTexts(w) ==
    /\ run[w].at = "reviewing" /\ GoTo(w, "judging")
    /\ SaveDocument(about[run[w].job],
                    [phase |-> "ocr_review", unreviewed |-> TRUE, ingested |-> FALSE])
    /\ UNCHANGED <<message, about, outcome, faulty>>

\* Passed, or failed with or without blocks that a person should look at.
Judgements == {[phase |-> "ready_to_ingest", unreviewed |-> FALSE, ingested |-> FALSE]} \union
              [phase : {"ocr_review"}, unreviewed : BOOLEAN, ingested : {FALSE}]
SaveQuality(w) ==
    /\ run[w].at = "judging" /\ GoTo(w, "reporting")
    /\ \E judged \in Judgements : SaveDocument(about[run[w].job], judged)
    /\ UNCHANGED <<message, about, outcome, faulty>>

End(w, ending) ==
    /\ outcome' = [outcome EXCEPT ![run[w].job] = ending]
    /\ run' = [run EXCEPT ![w] = Idle]
    /\ UNCHANGED <<document, message, about, faulty>>

Succeed(w) == run[w].at = "reporting" /\ End(w, "success")

\* Wrong on purpose: an exception is logged, and that is all.
FailSilently(w) ==
    /\ run[w].at \in ReadingStages \union HoldingStages
    /\ End(w, outcome[run[w].job])
\* The document is in another phase or not approved, OCR or the database fails, or
\* there is no slot.
Fail(w) == run[w].at \in ReadingStages \union HoldingStages /\ End(w, "failure")

-----------------------------------------------------------------------------
(* Faults *)

\* A message is lost with its broker, or is delivered again: the one who had
\* reserved it did not get to it within the visibility timeout of the Redis queue.
LoseMessage(j) ==
    /\ faulty /\ message[j] > 0
    /\ message' = [message EXCEPT ![j] = @ - 1]
    /\ UNCHANGED <<document, about, run, outcome, faulty>>
Redeliver(j) ==
    /\ faulty /\ message[j] = 1
    /\ message' = [message EXCEPT ![j] = 2]
    /\ UNCHANGED <<document, about, run, outcome, faulty>>

\* A killed child is noticed by its worker (WorkerLostError), a killed worker by nobody.
WorkerDies(w) ==
    /\ faulty /\ run[w] # Idle
    /\ run' = [run EXCEPT ![w] = Idle]
    /\ outcome' \in {outcome, [outcome EXCEPT ![run[w].job] = "failure"]}
    /\ UNCHANGED <<document, message, about, faulty>>

\* Results expire, and are lost with Redis.
ForgetOutcome(j) ==
    /\ faulty /\ outcome[j] # "none"
    /\ outcome' = [outcome EXCEPT ![j] = "none"]
    /\ UNCHANGED <<document, message, about, run, faulty>>

-----------------------------------------------------------------------------
WorkerStep(w) == \/ \E j \in Jobs : Receive(w, j)
                 \/ ReadDocument(w) \/ ApproveBoxes(w) \/ StartOcr(w)
                 \/ SaveTexts(w) \/ SaveQuality(w) \/ Succeed(w) \/ Fail(w)
JobFault == \/ \E j \in Jobs : LoseMessage(j) \/ Redeliver(j) \/ ForgetOutcome(j)
            \/ \E w \in Workers : WorkerDies(w)
JobsNext == JobFault \/ \E w \in Workers : WorkerStep(w)
=============================================================================
