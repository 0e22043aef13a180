------------------------------- MODULE Collect -------------------------------
(***************************************************************************)
(* Collection of papers (collect/cli.py, collect/service.py), run by hand  *)
(* again and again, and the queue of ingestion tasks that it fills for the *)
(* Celery workers (ingest_collected_paper, worker/app.py).                 *)
(*                                                                         *)
(* One collector runs at a time.  It loads the manifest, works through the *)
(* candidates it found, and then queues what it downloaded.                *)
(*   idle      no collector            fetched   the PDF is in place, and  *)
(*   ready     next candidate                    not yet in the manifest   *)
(*   fetching  about to download       queueing  the candidates are done   *)
(* PDFs and the manifest are replaced atomically, so each replacement is a *)
(* step.  Temporary files, and candidates that are refused before anything *)
(* is written, are left out.                                               *)
(***************************************************************************)
EXTENDS FiniteSets

CONSTANTS
    Sources,    \* OpenAlex works
    Contents,   \* the PDFs that publishers may serve for a work
    Nothing,    \* no file, no record, no candidate
    Troubles    \* what may go wrong in a behaviour: one of these sets

TroubleKinds == {"crash",    \* the collector dies
                 "broker",   \* the queue cannot be reached
                 "disk",     \* the manifest cannot be written
                 "damage"}   \* somebody changes or removes a PDF

ASSUME NothingAssumption == Nothing \notin Contents /\ Nothing \notin Sources
ASSUME TroublesAssumption == Troubles \subseteq SUBSET TroubleKinds

VARIABLES
    trouble,    \* what may go wrong in this behaviour; never changes
    file,       \* the PDF of each source
    manifest,   \* the PDF, by its SHA-256, that the manifest records for it
    collector,  \* the running collector
    queue,      \* sources whose task waits at the broker
    queued,     \* history: sources whose task was ever queued
    skipped     \* history: sources that a collector reported as skipped
vars == <<trouble, file, manifest, collector, queue, queued, skipped>>
disk == <<file, manifest>>
tasks == <<queue, queued>>

Stored == [Sources -> Contents \union {Nothing}]

(***************************************************************************)
(* memory      ManifestStore.records                                       *)
(* todo        the candidates to come                                      *)
(* now, pdf    the candidate being processed, and what was received for it *)
(* downloaded  CollectionReport.downloaded, as far as not yet queued       *)
(***************************************************************************)
Collector == [at: {"idle", "ready", "fetching", "fetched", "queueing"},
              memory: Stored, todo: SUBSET Sources,
              now: Sources \union {Nothing}, pdf: Contents \union {Nothing},
              downloaded: SUBSET Sources]

TypeOK == /\ trouble \in SUBSET TroubleKinds
          /\ file \in Stored /\ manifest \in Stored
          /\ collector \in Collector
          /\ (collector.now # Nothing) <=> (collector.at \in {"fetching", "fetched"})
          /\ (collector.pdf # Nothing) <=> (collector.at = "fetched")
          /\ queue \subseteq queued
          /\ queued \subseteq Sources /\ skipped \subseteq Sources

Empty == [s \in Sources |-> Nothing]
NoCollector == [at |-> "idle", memory |-> Empty, todo |-> {},
                now |-> Nothing, pdf |-> Nothing, downloaded |-> {}]

Init == /\ trouble \in Troubles
        /\ file = Empty /\ manifest = Empty
        /\ collector = NoCollector
        /\ queue = {} /\ queued = {} /\ skipped = {}

-----------------------------------------------------------------------------
(* collect_candidates and _download *)

\* ManifestStore._load, and the candidates that discovery found
Start ==
    /\ collector.at = "idle"
    /\ \E found \in (SUBSET Sources) \ {{}} :
        collector' = [NoCollector EXCEPT !.at = "ready", !.memory = manifest, !.todo = found]
    /\ UNCHANGED <<trouble, disk, tasks, skipped>>

Chooses(s) == collector.at = "ready" /\ s \in collector.todo
Recorded(s) == collector.memory[s] # Nothing
UpToDate(s) == Recorded(s) /\ file[s] = collector.memory[s]

Skip(s) ==
    /\ Chooses(s) /\ UpToDate(s)
    /\ collector' = [collector EXCEPT !.todo = @ \ {s}]
    /\ skipped' = skipped \union {s}
    /\ UNCHANGED <<trouble, disk, tasks>>

\* Wrong on purpose: what is recorded is downloaded again.
DownloadAnyway(s) ==
    /\ Chooses(s)
    /\ collector' = [collector EXCEPT !.at = "fetching", !.todo = @ \ {s}, !.now = s]
    /\ UNCHANGED <<trouble, disk, tasks, skipped>>
\* A recorded file that is not what was recorded is removed first.
BeginDownload(s) ==
    /\ Chooses(s) /\ ~UpToDate(s)
    /\ collector' = [collector EXCEPT !.at = "fetching", !.todo = @ \ {s}, !.now = s]
    /\ file' = IF Recorded(s) THEN [file EXCEPT ![s] = Nothing] ELSE file
    /\ UNCHANGED <<trouble, manifest, tasks, skipped>>

\* Wrong on purpose: an empty answer is taken for a PDF.
FetchAnything ==
    /\ collector.at = "fetching"
    /\ \E pdf \in Contents \union {Nothing} :
        /\ file' = [file EXCEPT ![collector.now] = pdf]
        /\ collector' = [collector EXCEPT !.at = "fetched", !.pdf = pdf]
    /\ UNCHANGED <<trouble, manifest, tasks, skipped>>
\* The download is complete, checked, and renamed to its place.
Fetch ==
    /\ collector.at = "fetching"
    /\ \E pdf \in Contents :
        /\ file' = [file EXCEPT ![collector.now] = pdf]
        /\ collector' = [collector EXCEPT !.at = "fetched", !.pdf = pdf]
    /\ UNCHANGED <<trouble, manifest, tasks, skipped>>

\* Wrong on purpose: the report is started anew for each candidate.
ReportLast(memory, downloaded) ==
    collector' = [collector EXCEPT !.at = "ready", !.now = Nothing, !.pdf = Nothing,
                                   !.memory = memory,
                                   !.downloaded = downloaded \ collector.downloaded]
\* The collector turns to the next candidate.
NextCandidate(memory, downloaded) ==
    collector' = [collector EXCEPT !.at = "ready", !.now = Nothing, !.pdf = Nothing,
                                   !.memory = memory, !.downloaded = downloaded]
\* An HTTP error; a file that is no PDF, or is too large: the candidate is a failure.
FetchFails ==
    /\ collector.at = "fetching"
    /\ NextCandidate(collector.memory, collector.downloaded)
    /\ UNCHANGED <<trouble, disk, tasks, skipped>>

\* ManifestStore.upsert sets the record in memory, then writes all records.
WithRecord == [collector.memory EXCEPT ![collector.now] = collector.pdf]

\* Wrong on purpose: the record is not written.
RecordInMemory ==
    /\ collector.at = "fetched"
    /\ NextCandidate(WithRecord, collector.downloaded \union {collector.now})
    /\ UNCHANGED <<trouble, disk, tasks, skipped>>
Record ==
    /\ collector.at = "fetched"
    /\ manifest' = WithRecord
    /\ NextCandidate(WithRecord, collector.downloaded \union {collector.now})
    /\ UNCHANGED <<trouble, file, tasks, skipped>>

\* The paper goes to the failures, and its record stays in memory.
RecordFails ==
    /\ collector.at = "fetched" /\ "disk" \in trouble
    /\ NextCandidate(WithRecord, collector.downloaded)
    /\ UNCHANGED <<trouble, disk, tasks, skipped>>

-----------------------------------------------------------------------------
(* main: _enqueue_ingest for what was downloaded *)

FinishCandidates ==
    /\ collector.at = "ready" /\ collector.todo = {}
    /\ collector' = [collector EXCEPT !.at = "queueing"]
    /\ UNCHANGED <<trouble, disk, tasks, skipped>>

ToQueue(s) ==
    /\ collector.at = "queueing" /\ s \in collector.downloaded
    /\ collector' = [collector EXCEPT !.downloaded = @ \ {s}]
    /\ UNCHANGED <<trouble, disk, skipped>>
Enqueue(s) ==
    ToQueue(s) /\ queue' = queue \union {s} /\ queued' = queued \union {s}
\* (the exception is printed and forgotten)
EnqueueFails(s) == ToQueue(s) /\ "broker" \in trouble /\ UNCHANGED tasks

End ==
    /\ collector.at = "queueing" /\ collector.downloaded = {}
    /\ collector' = NoCollector
    /\ UNCHANGED <<trouble, disk, tasks, skipped>>

-----------------------------------------------------------------------------
(* Around the collector *)

Crash ==
    /\ "crash" \in trouble /\ collector.at # "idle"
    /\ collector' = NoCollector
    /\ UNCHANGED <<trouble, disk, tasks, skipped>>

\* A worker takes the task; Celery acknowledges it at once.
Take(s) ==
    /\ s \in queue /\ queue' = queue \ {s}
    /\ UNCHANGED <<trouble, disk, collector, queued, skipped>>

Damage(s) ==
    /\ "damage" \in trouble
    /\ \E other \in (Contents \union {Nothing}) \ {file[s]} : file' = [file EXCEPT ![s] = other]
    /\ UNCHANGED <<trouble, manifest, collector, tasks, skipped>>

Next == \/ Start \/ Fetch \/ FetchFails \/ Record \/ RecordFails
        \/ FinishCandidates \/ End \/ Crash
        \/ \E s \in Sources : \/ Skip(s) \/ BeginDownload(s) \/ Enqueue(s) \/ EnqueueFails(s)
                              \/ Take(s) \/ Damage(s)

Spec == Init /\ [][Next]_vars

-----------------------------------------------------------------------------
Undamaged == "damage" \notin trouble

\* A worker that takes a task finds the PDF in place, and in the manifest the record
\* that gives it journal and link (lookup_source_metadata), whatever else went wrong:
\* tasks are queued after both were written, and no later collector removes them.
QueuedIsReady == Undamaged =>
    \A s \in queue : file[s] # Nothing /\ manifest[s] = file[s]

\* A work is not downloaded, and so not ingested, again once its task has been queued:
\* crashes, failed writes and outages lead to omissions only, never to a second paper
\* (cli.py:64-66).
QueuedOnce == Undamaged => collector.downloaded \cap queued = {}

\* With nothing gone wrong around the collectors, all that the manifest records when
\* one of them ends has been queued, so that what they skip was queued before
\* (cli.py:64-66).
RecordedIsQueued == trouble = {} =>
    /\ skipped \subseteq queued
    /\ collector.at = "idle" => \A s \in Sources : manifest[s] # Nothing => s \in queued
=============================================================================
