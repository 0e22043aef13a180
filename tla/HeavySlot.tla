------------------------------ MODULE HeavySlot ------------------------------
(***************************************************************************)
(* heavy_task_slot (concurrency.py): a counting semaphore in Redis that    *)
(* limits how many OCR runs and LLM calls are in progress across the API   *)
(* and the Celery workers.                                                 *)
(*                                                                         *)
(* A task is one use of the context manager.  Each Redis command it sends  *)
(* is one step:                                                            *)
(*   connected  about to SET the marker NX     waiting    inside BLPOP     *)
(*   seeding    SET won, about to RPUSH the tokens                         *)
(*   running    holds a token; RPUSHes it back at the end                  *)
(*   unlimited  runs without one                                           *)
(* The marker and the token list live in Redis and outlast every process.  *)
(* BLPOP is taken to answer any of the waiting tasks.  That Redis itself   *)
(* loses its data is left out.                                             *)
(***************************************************************************)
EXTENDS Naturals, FiniteSets

CONSTANTS
    Tasks,
    Slots,    \* settings.heavy_task_max_concurrency; 0 stands for "no limit"
    Faults    \* whether Redis may be unreachable and processes may die: any of these

ASSUME TasksAssumption == IsFiniteSet(Tasks)
ASSUME SlotsAssumption == Slots \in Nat
ASSUME FaultsAssumption == Faults \subseteq BOOLEAN

VARIABLES
    marker,   \* the key "...:initialized" exists
    tokens,   \* length of the token list
    task,     \* the stage of each task
    faulty    \* the answer to Faults in this behaviour; never changes
vars == <<marker, tokens, task, faulty>>

Stages == {"idle", "connected", "seeding", "waiting", "running", "unlimited"}

TypeOK == /\ marker \in BOOLEAN
          /\ tokens \in Nat
          /\ task \in [Tasks -> Stages]
          /\ faulty \in BOOLEAN

Init == /\ marker = FALSE /\ tokens = 0
        /\ task = [t \in Tasks |-> "idle"]
        /\ faulty \in Faults

Go(t, from, to) ==
    task[t] = from /\ task' = [task EXCEPT ![t] = to] /\ UNCHANGED faulty
At(stage) == {t \in Tasks : task[t] = stage}

-----------------------------------------------------------------------------
\* The limit is switched off, or the ping failed.
PassUnlimited(t) ==
    /\ Slots = 0 \/ faulty
    /\ Go(t, "idle", "unlimited")
    /\ UNCHANGED <<marker, tokens>>
EndUnlimited(t) == Go(t, "unlimited", "idle") /\ UNCHANGED <<marker, tokens>>

Connect(t) == Slots > 0 /\ Go(t, "idle", "connected") /\ UNCHANGED <<marker, tokens>>

\* Wrong on purpose: SET without NX.
EveryoneSeeds(t) == Go(t, "connected", "seeding") /\ marker' = TRUE /\ UNCHANGED tokens
\* _ensure_seeded: SET marker NX, and RPUSH for the one who set it
Mark(t) ==
    /\ Go(t, "connected", IF marker THEN "waiting" ELSE "seeding")
    /\ marker' = TRUE
    /\ UNCHANGED tokens
Seed(t) ==
    /\ Go(t, "seeding", "waiting")
    /\ tokens' = tokens + Slots
    /\ UNCHANGED marker

Take(t) ==
    /\ Go(t, "waiting", "running")
    /\ tokens > 0 /\ tokens' = tokens - 1
    /\ UNCHANGED marker

\* BLPOP times out: HeavyTaskBusyError
GiveUp(t) == Go(t, "waiting", "idle") /\ tokens = 0 /\ UNCHANGED <<marker, tokens>>

\* Wrong on purpose: no `finally`, a block that raises keeps its token.
ReturnUnlessRaised(t) ==
    /\ Go(t, "running", "idle")
    /\ tokens' \in {tokens, tokens + 1}
    /\ UNCHANGED marker
Return(t) ==
    /\ Go(t, "running", "idle")
    /\ tokens' = tokens + 1
    /\ UNCHANGED marker

\* What the Redis command a task is about to send, or waits for, does in Redis.
CommandTakesEffect(t) ==
    \/ task[t] = "connected" /\ marker' = TRUE /\ UNCHANGED tokens
    \/ task[t] = "seeding" /\ tokens' = tokens + Slots /\ UNCHANGED marker
    \/ task[t] = "waiting" /\ tokens > 0 /\ tokens' = tokens - 1 /\ UNCHANGED marker
    \/ task[t] = "running" /\ tokens' = tokens + 1 /\ UNCHANGED marker

\* The process dies or loses its connection: the command was never sent, or it
\* took effect and nobody heard the answer.
Break(t) ==
    /\ faulty /\ task[t] # "idle"
    /\ Go(t, task[t], "idle")
    /\ CommandTakesEffect(t) \/ UNCHANGED <<marker, tokens>>

-----------------------------------------------------------------------------
Step(t) == \/ EndUnlimited(t) \/ Mark(t) \/ Seed(t)
           \/ Take(t) \/ GiveUp(t) \/ Return(t)

Next == \E t \in Tasks : PassUnlimited(t) \/ Connect(t) \/ Step(t) \/ Break(t)

Spec == Init /\ [][Next]_vars

\* Commands are answered and a guarded block ends: the Paddle process and the
\* LLM call have timeouts of their own.
FairSpec == Spec /\ \A t \in Tasks : WF_vars(Step(t))

-----------------------------------------------------------------------------
\* The tokens left and the tasks that hold one never exceed the configured number,
\* whoever seeds first and whatever dies in between: faults only ever lose tokens
\* (concurrency.py:10-19).
SlotLimit == Cardinality(At("running")) + tokens <= Slots

\* Without faults no token is lost either: errors inside the block and busy
\* errors leave the number of tokens as it was (heavy_task_slot's finally).
NoTokenLost ==
    ~faulty /\ marker /\ At("seeding") = {} => Cardinality(At("running")) + tokens = Slots

\* Without faults a slot becomes free again and again.
SlotComesFree == ~faulty /\ marker ~> tokens > 0
=============================================================================
