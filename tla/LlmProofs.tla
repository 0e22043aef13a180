------------------------------ MODULE LlmProofs ------------------------------
(***************************************************************************)
(* What holds of the heavy-task semaphore for any number of tasks and      *)
(* slots, and of the callers of the language model for any number of them  *)
(* and of questions: they keep the semaphore's limit, a caller that does   *)
(* not wait for the model has no token, and the cache stays readable       *)
(* unless two of them store the answer of one question at one time.        *)
(***************************************************************************)
EXTENDS LlmProperties, FiniteSetTheorems, TLAPS

(***************************************************************************)
(* The semaphore.  SlotLimit is not inductive: RPUSH adds Slots tokens at  *)
(* once.  What makes that safe is that at most one task ever wins SET NX,  *)
(* and that until its RPUSH is through there are no tokens and nobody      *)
(* holds one.                                                              *)
(***************************************************************************)
Nothing == tokens = 0 /\ At("running") = {}

IInv == /\ TypeOK
        /\ SlotLimit
        /\ ~marker => Nothing /\ At("seeding") = {}
        /\ \A s \in At("seeding") : Nothing /\ \A t \in At("seeding") : s = t

\* The set of running tasks is finite, and starting or ending one counts as one.
LEMMA RunningCount ==
    ASSUME NEW S, S \subseteq Tasks, NEW t \in Tasks
    PROVE  /\ Cardinality(S) \in Nat
           /\ Cardinality({}) = 0
           /\ t \notin S => Cardinality(S \union {t}) = Cardinality(S) + 1
           /\ t \in S => Cardinality(S \ {t}) = Cardinality(S) - 1 /\ Cardinality(S) > 0
<1>1. IsFiniteSet(S)
  BY TasksAssumption, FS_Subset
<1>2. Cardinality(S) \in Nat /\ (Cardinality(S) = 0 <=> S = {})
  BY <1>1, FS_CardinalityType, FS_EmptySet
<1>3. t \notin S => Cardinality(S \union {t}) = Cardinality(S) + 1
  BY <1>1, FS_AddElement
<1>4. t \in S => Cardinality(S \ {t}) = Cardinality(S) - 1
  BY <1>1, FS_RemoveElement
<1> QED BY <1>2, <1>3, <1>4, FS_EmptySet

\* How a change of stage changes the sets of tasks at a stage.
LEMMA GoAt ==
    ASSUME TypeOK, NEW t \in Tasks, NEW from \in Stages, NEW to \in Stages, Go(t, from, to),
           from # to
    PROVE  /\ task' \in [Tasks -> Stages] /\ faulty' = faulty
           /\ \A s \in Stages : At(s)' = (At(s) \ (IF s = from THEN {t} ELSE {}))
                                           \union (IF s = to THEN {t} ELSE {})
           /\ t \in At(from) /\ t \notin At(to)
BY DEF TypeOK, Go, At

LEMMA IInvInit == Init => IInv
<1> SUFFICES ASSUME Init PROVE IInv
  OBVIOUS
<1>1. At("running") = {} /\ At("seeding") = {}
  BY DEF Init, At
<1>2. TypeOK
  BY FaultsAssumption DEF Init, TypeOK, Stages
<1>3. SlotLimit
  BY <1>1, FS_EmptySet, SlotsAssumption DEF Init, SlotLimit
<1> QED BY <1>1, <1>2, <1>3 DEF Init, IInv, Nothing

LEMMA IInvNext == IInv /\ [Next]_vars => IInv'
<1> SUFFICES ASSUME IInv, [Next]_vars PROVE IInv'
  OBVIOUS
<1>1. CASE UNCHANGED vars
  BY <1>1 DEF vars, IInv, TypeOK, SlotLimit, Nothing, At
<1>2. ASSUME NEW t \in Tasks, PassUnlimited(t) \/ Connect(t) \/ Step(t) \/ Break(t)
      PROVE  IInv'
  <2> DEFINE R == At("running")  S == At("seeding")
  <2>0. /\ TypeOK /\ R \subseteq Tasks /\ Cardinality(R) \in Nat /\ Cardinality({}) = 0
        /\ Cardinality(R) + tokens <= Slots
    BY RunningCount DEF IInv, At, SlotLimit
  <2>1. CASE PassUnlimited(t) \/ EndUnlimited(t) \/ Connect(t) \/ GiveUp(t)
    <3>1. task' \in [Tasks -> Stages] /\ faulty' \in BOOLEAN /\ R' = R /\ S' = S
      BY <2>0, <2>1, GoAt DEF TypeOK, PassUnlimited, EndUnlimited, Connect, GiveUp, Stages
    <3>2. marker' = marker /\ tokens' = tokens
      BY <2>1 DEF PassUnlimited, EndUnlimited, Connect, GiveUp
    <3> QED BY <3>1, <3>2 DEF IInv, TypeOK, SlotLimit, Nothing
  <2>2. CASE Mark(t)
    <3>1. /\ task' \in [Tasks -> Stages] /\ faulty' \in BOOLEAN /\ R' = R
          /\ S' = IF marker THEN S ELSE S \union {t}
      BY <2>0, <2>2, GoAt DEF TypeOK, Mark, Stages
    <3>2. TypeOK' /\ SlotLimit' /\ marker'
      BY <2>0, <2>2, <3>1 DEF Mark, TypeOK, SlotLimit
    <3>3. CASE marker
      BY <2>2, <3>1, <3>2, <3>3 DEF Mark, IInv, Nothing
    <3>4. CASE ~marker
      <4>1. Nothing /\ S' = {t} /\ R' = {} /\ tokens' = 0
        BY <2>2, <3>1, <3>4 DEF Mark, IInv, Nothing
      <4> QED BY <3>2, <4>1 DEF IInv, Nothing
    <3> QED BY <3>3, <3>4
  <2>3. CASE Seed(t)
    <3>1. task' \in [Tasks -> Stages] /\ faulty' \in BOOLEAN /\ R' = R /\ S' = S \ {t} /\ t \in S
      BY <2>0, <2>3, GoAt DEF TypeOK, Seed, Stages
    <3>2. S' = {} /\ tokens = 0 /\ R = {} /\ marker
      BY <3>1 DEF IInv, Nothing
    <3>3. tokens' = Slots /\ marker'
      BY <2>3, <3>2, SlotsAssumption DEF Seed
    <3>4. tokens' \in Nat /\ SlotLimit'
      BY <2>0, <3>1, <3>2, <3>3, SlotsAssumption DEF SlotLimit
    <3>5. TypeOK'
      BY <3>1, <3>3, <3>4 DEF TypeOK
    <3> QED BY <3>2, <3>3, <3>4, <3>5 DEF IInv
  <2>4. CASE Take(t)
    <3>1. task' \in [Tasks -> Stages] /\ faulty' \in BOOLEAN /\ R' = R \union {t} /\ t \notin R /\ S' = S
      BY <2>0, <2>4, GoAt DEF TypeOK, Take, Stages
    <3>2. S = {} /\ marker
      BY <2>4 DEF Take, IInv, Nothing
    <3>3. Cardinality(R') = Cardinality(R) + 1
      BY <2>0, <3>1, RunningCount
    <3> QED BY <2>0, <2>4, <3>1, <3>2, <3>3, SlotsAssumption DEF Take, IInv, TypeOK, SlotLimit
  <2>5. CASE Return(t)
    <3>1. task' \in [Tasks -> Stages] /\ faulty' \in BOOLEAN /\ R' = R \ {t} /\ t \in R /\ S' = S
      BY <2>0, <2>5, GoAt DEF TypeOK, Return, Stages
    <3>2. S = {} /\ marker
      BY <3>1 DEF IInv, Nothing
    <3>3. Cardinality(R') = Cardinality(R) - 1 /\ Cardinality(R) > 0
      BY <2>0, <3>1, RunningCount
    <3> QED BY <2>0, <2>5, <3>1, <3>2, <3>3, SlotsAssumption DEF Return, IInv, TypeOK, SlotLimit
  <2>6. CASE Break(t)
    <3>1. /\ task' \in [Tasks -> Stages] /\ faulty' \in BOOLEAN /\ R' = R \ {t} /\ S' = S \ {t}
      BY <2>0, <2>6 DEF Break, Go, TypeOK, Stages, At
    <3>2. /\ Cardinality(R') \in Nat /\ Cardinality(R') <= Cardinality(R)
          /\ t \in R => Cardinality(R') = Cardinality(R) - 1
      <4>1. R' = R \/ t \in R
        BY <3>1
      <4> QED BY <2>0, <3>1, <4>1, RunningCount
    <3>3. CASE UNCHANGED <<marker, tokens>>
      BY <2>0, <3>1, <3>2, <3>3, SlotsAssumption DEF IInv, TypeOK, SlotLimit, Nothing
    <3>4. CASE task[t] = "connected" /\ marker' = TRUE /\ UNCHANGED tokens
      BY <2>0, <3>1, <3>2, <3>4, SlotsAssumption DEF IInv, TypeOK, SlotLimit, Nothing
    <3>5. CASE task[t] = "seeding" /\ tokens' = tokens + Slots /\ UNCHANGED marker
      <4>1. t \in S
        BY <3>5 DEF At
      <4>2. S' = {} /\ tokens = 0 /\ R' = {} /\ marker
        BY <3>1, <4>1 DEF IInv, Nothing
      <4> QED BY <2>0, <3>1, <3>5, <4>2, SlotsAssumption DEF IInv, TypeOK, SlotLimit
    <3>6. CASE task[t] = "waiting" /\ tokens > 0 /\ tokens' = tokens - 1 /\ UNCHANGED marker
      <4>1. S = {} /\ S' = {} /\ marker
        BY <3>1, <3>6 DEF IInv, Nothing
      <4> QED BY <2>0, <3>1, <3>2, <3>6, <4>1, SlotsAssumption DEF IInv, TypeOK, SlotLimit
    <3>7. CASE task[t] = "running" /\ tokens' = tokens + 1 /\ UNCHANGED marker
      <4>1. t \in R /\ S = {} /\ S' = {} /\ marker
        BY <3>1, <3>7 DEF IInv, Nothing, At
      <4> QED BY <2>0, <3>1, <3>2, <3>7, <4>1, SlotsAssumption DEF IInv, TypeOK, SlotLimit
    <3> QED BY <2>6, <3>3, <3>4, <3>5, <3>6, <3>7 DEF Break, CommandTakesEffect
  <2> QED BY <1>2, <2>1, <2>2, <2>3, <2>4, <2>5, <2>6 DEF Step
<1> QED BY <1>1, <1>2 DEF Next

\* At most Slots limited tasks run at once, for any number of tasks and slots and
\* with processes dying and Redis failing at any command (heavy_task_slot).
THEOREM SlotLimitHolds == Spec => []SlotLimit
<1>1. Init => IInv
  BY IInvInit
<1>2. IInv /\ [Next]_vars => IInv'
  BY IInvNext
<1>3. IInv => SlotLimit
  BY DEF IInv
<1> QED BY <1>1, <1>2, <1>3, PTL DEF Spec

\* Marker, tokens and stages are well formed; above all, no token is ever owed.
THEOREM SlotTypeCorrect == Spec => []TypeOK
<1>1. IInv => TypeOK
  BY DEF IInv
<1> QED BY IInvInit, IInvNext, <1>1, PTL DEF Spec

\* Without faults a step after the seeding only moves tokens, from the list to a task
\* or back.
LEMMA TokensMove ==
    ASSUME IInv, NoTokenLost, Next, ~faulty
    PROVE  NoTokenLost'
<1> DEFINE R == At("running")  S == At("seeding")
<1>1. PICK t \in Tasks : PassUnlimited(t) \/ Connect(t) \/ Step(t)
  BY DEF Next, Break
<1>0. /\ TypeOK /\ R \subseteq Tasks /\ Cardinality(R) \in Nat /\ Cardinality({}) = 0
  BY RunningCount DEF IInv, At
<1>2. CASE PassUnlimited(t) \/ EndUnlimited(t) \/ Connect(t) \/ GiveUp(t)
  <2>1. R' = R /\ S' = S
    BY <1>0, <1>2, GoAt DEF PassUnlimited, EndUnlimited, Connect, GiveUp, Stages
  <2>2. marker' = marker /\ tokens' = tokens
    BY <1>2 DEF PassUnlimited, EndUnlimited, Connect, GiveUp
  <2> QED BY <2>1, <2>2 DEF NoTokenLost
<1>3. CASE Mark(t)
  <2>1. R' = R /\ S' = IF marker THEN S ELSE S \union {t}
    BY <1>0, <1>3, GoAt DEF Mark, Stages
  <2>2. marker => S' = S /\ UNCHANGED <<marker, tokens>>
    BY <1>3, <2>1 DEF Mark
  <2>3. ~marker => S' # {}
    BY <2>1
  <2> QED BY <2>1, <2>2, <2>3 DEF NoTokenLost
<1>4. CASE Seed(t)
  <2>1. R' = R /\ t \in S
    BY <1>0, <1>4, GoAt DEF Seed, Stages
  <2>2. R = {} /\ tokens = 0
    BY <2>1 DEF IInv, Nothing
  <2>3. tokens' = Slots
    BY <1>4, <2>2, SlotsAssumption DEF Seed
  <2> QED BY <1>0, <2>1, <2>2, <2>3, SlotsAssumption DEF NoTokenLost
<1>5. CASE Take(t)
  <2>1. R' = R \union {t} /\ t \notin R /\ S' = S
    BY <1>0, <1>5, GoAt DEF Take, Stages
  <2>2. Cardinality(R') = Cardinality(R) + 1
    BY <1>0, <2>1, RunningCount
  <2>3. tokens' = tokens - 1 /\ marker' = marker
    BY <1>5 DEF Take
  <2> QED BY <1>0, <2>1, <2>2, <2>3, SlotsAssumption DEF NoTokenLost, TypeOK
<1>6. CASE Return(t)
  <2>1. R' = R \ {t} /\ t \in R /\ S' = S
    BY <1>0, <1>6, GoAt DEF Return, Stages
  <2>2. Cardinality(R') = Cardinality(R) - 1
    BY <1>0, <2>1, RunningCount
  <2>3. tokens' = tokens + 1 /\ marker' = marker
    BY <1>6 DEF Return
  <2> QED BY <1>0, <2>1, <2>2, <2>3, SlotsAssumption DEF NoTokenLost, TypeOK
<1> QED BY <1>1, <1>2, <1>3, <1>4, <1>5, <1>6 DEF Step

\* Without faults the tokens left and the running tasks make up the configured number once
\* the list is seeded, whatever times out or raises (heavy_task_slot's finally).
THEOREM TokensAreKept == Spec => []NoTokenLost
<1>1. Init => IInv /\ NoTokenLost
  BY IInvInit DEF Init, NoTokenLost
<1>2. IInv /\ NoTokenLost /\ [Next]_vars => (IInv /\ NoTokenLost)'
  <2> SUFFICES ASSUME IInv, NoTokenLost, [Next]_vars PROVE IInv' /\ NoTokenLost'
    OBVIOUS
  <2>1. IInv'
    BY IInvNext
  <2>2. CASE UNCHANGED vars
    BY <2>1, <2>2 DEF vars, NoTokenLost, At
  <2>3. CASE Next /\ ~faulty
    BY <2>1, <2>3, TokensMove
  <2>4. CASE Next /\ faulty
    <3>1. faulty'
      BY <2>4 DEF Next, PassUnlimited, Connect, Step, Break, EndUnlimited, Mark, Seed, Take,
                  GiveUp, Return, Go
    <3> QED BY <2>1, <3>1 DEF NoTokenLost
  <2> QED BY <2>2, <2>3, <2>4
<1> QED BY <1>1, <1>2, PTL DEF Spec

-----------------------------------------------------------------------------
(***************************************************************************)
(* The slots: each step of a caller is a step of its task or none.         *)
(***************************************************************************)
LEMMA StepUsesSlots == [CheckedNext]_checkedVars => [Next]_vars
<1> SUFFICES ASSUME CheckedNext PROVE [Next]_vars
  BY DEF checkedVars, allVars
<1>1. PICK c \in Tasks : Call(c) \/ CallerStep(c) \/ Die(c) \/ LoseRedis(c)
  BY DEF CheckedNext, LlmNext
<1>2. CASE Call(c) \/ Hit(c) \/ Store(c)
  BY <1>2 DEF Call, Hit, Store, Open, Write, Publish, PublishNothing
<1>3. CASE Ask(c)
  BY <1>3 DEF Ask, Miss, Queue, Busy, Answered, Failed, Replied, Next, Step
<1>4. CASE Die(c) \/ LoseRedis(c)
  BY <1>4 DEF Die, LoseRedis, Next
<1> QED BY <1>1, <1>2, <1>3, <1>4 DEF CallerStep

\* A caller takes and returns tokens in heavy_task_slot alone.
LEMMA CallersUseSlots == CheckedSpec => Spec
<1>1. CheckedInit => Init
  BY DEF CheckedInit, LlmInit
<1>2. [CheckedNext]_checkedVars => [Next]_vars
  BY StepUsesSlots
<1> QED BY <1>1, <1>2, PTL DEF CheckedSpec, Spec

\* So at most Slots calls of the model hold a slot, for any number of callers.
THEOREM CallersKeepLimit == CheckedSpec => []SlotLimit
<1>1. CheckedSpec => Spec
  BY CallersUseSlots
<1>2. Spec => []SlotLimit
  BY SlotLimitHolds
<1> QED BY <1>1, <1>2, PTL

-----------------------------------------------------------------------------
(***************************************************************************)
(* The cache.  For a key whose answer no two callers were ever storing at  *)
(* one time, the temporary file belongs to the one who is: it is empty     *)
(* while he writes and holds an answer when he publishes it.               *)
(***************************************************************************)
Stored == {"opening", "writing", "publishing"}

CallsHold == \A c \in Tasks :
    /\ call[c].stage \in Stored => call[c].reply \in Replies
    /\ handle[c] # "closed" => call[c].stage = "writing"

Owned(k) ==
    /\ \A c, d \in Storing(k) : c = d
    /\ cache[k] \notin Unreadable
    /\ \A c \in Storing(k) :
          /\ call[c].stage = "writing" => handle[c] = "part" /\ part[k] = "empty"
          /\ call[c].stage = "publishing" => part[k] \in Replies

CacheInv == /\ LlmTypeOK /\ CallsHold
            /\ \A k \in Keys \ shared : Owned(k)

\* A call that looks for the cache file, or none.
LEMMA AfterSafe ==
    ASSUME NEW key \in Keys, NEW attempt \in 0..1, NEW outcome
    PROVE  After(key, attempt, outcome) \in Calls
           /\ After(key, attempt, outcome).stage \in {"idle", "lookup"}
<1> DEFINE next(k) == Lookup(1, k)
<1>1. ASSUME NEW k \in Keys, NEW n \in 0..1 PROVE Lookup(n, k) \in Calls /\ Lookup(n, k).stage = "lookup"
  BY DEF Lookup, Calls, CallStages
<1>2. TemperatureOf(1) \in Temperatures
  BY DEF TemperatureOf, Temperatures
<1>3. [key EXCEPT !.prompt = IF Raises(key.kind, outcome) THEN "strict" ELSE @,
                  !.temperature = TemperatureOf(1)] \in Keys
  BY <1>2 DEF Keys, Prompts
<1>4. [key EXCEPT !.temperature = "base"] \in Keys
  BY DEF Keys, Temperatures
<1>5. NoCall \in Calls /\ NoCall.stage = "idle"
  BY DEF NoCall, Calls
<1>6. Again(key, outcome) \in Calls /\ Again(key, outcome).stage = "lookup"
  BY <1>1, <1>3 DEF Again
<1> QED BY <1>1, <1>4, <1>5, <1>6 DEF After

\* What is left of the next-state relation once a step of the callers is known.
LEMMA SharedGrows ==
    ASSUME CheckedNext, NEW k \in Keys \ shared'
    PROVE  k \in Keys \ shared /\ \A c, d \in Storing(k)' : c = d
BY DEF CheckedNext

\* Who stores an answer of k has not moved, nor have the files of k.
LEMMA OwnedKept ==
    ASSUME NEW k \in Keys, Owned(k), \A c, d \in Storing(k)' : c = d,
           cache'[k] = cache[k], part'[k] = part[k],
           \A d \in Tasks : d \in Storing(k)' => call'[d] = call[d] /\ handle'[d] = handle[d]
    PROVE  Owned(k)'
BY DEF Owned, Storing

\* The types of the model's state after a step of c.
LEMMA CallTyped ==
    ASSUME CacheInv, NEW c \in Tasks, NEW new \in Calls, call' = [call EXCEPT ![c] = new]
    PROVE  /\ call' \in [Tasks -> Calls] /\ call'[c] = new
           /\ \A d \in Tasks \ {c} : call'[d] = call[d]
BY DEF CacheInv, LlmTypeOK

LEMMA Moved ==
    ASSUME NEW x \in Calls, x.stage # "idle", NEW stage \in CallStages \ {"idle"},
           NEW y, y = [x EXCEPT !.stage = stage]
    PROVE  y \in Calls /\ y.stage = stage /\ y.key = x.key /\ y.reply = x.reply
           /\ x.key \in Keys /\ x.attempt \in 0..1
<1>1. x \in [stage : CallStages \ {"idle"}, attempt : 0..1, key : Keys, reply : Replies \union {"none"}]
  BY DEF Calls, NoCall
<1> QED BY <1>1 DEF Calls

\* A step of c that leaves the files alone, after which c stores nothing.
LEMMA CalmStep ==
    ASSUME CacheInv, CheckedNext, NEW c \in Tasks, UNCHANGED <<cache, part>>,
           NEW new \in Calls, call' = [call EXCEPT ![c] = new],
           new.stage \notin {"writing", "publishing"},
           new.stage = "opening" => new.reply \in Replies,
           \/ handle' = [handle EXCEPT ![c] = "closed"]
           \/ UNCHANGED handle /\ handle[c] = "closed"
    PROVE  CacheInv'
<1>1. /\ call' \in [Tasks -> Calls] /\ call'[c] = new
      /\ \A d \in Tasks \ {c} : call'[d] = call[d]
  BY CallTyped
<1>2. /\ handle' \in [Tasks -> Places] /\ handle'[c] = "closed"
      /\ \A d \in Tasks \ {c} : handle'[d] = handle[d]
  BY DEF CacheInv, LlmTypeOK, Places
<1>3. model' = model
  BY DEF CheckedNext, LlmNext
<1>4. LlmTypeOK'
  BY <1>1, <1>2, <1>3 DEF CacheInv, LlmTypeOK
<1>5. CallsHold'
  <2> SUFFICES ASSUME NEW d \in Tasks
               PROVE  /\ call'[d].stage \in Stored => call'[d].reply \in Replies
                      /\ handle'[d] # "closed" => call'[d].stage = "writing"
    BY DEF CallsHold
  <2>1. CASE d = c
    BY <1>1, <1>2, <2>1 DEF Stored
  <2>2. CASE d # c
    BY <1>1, <1>2, <2>2 DEF CacheInv, CallsHold
  <2> QED BY <2>1, <2>2
<1>6. ASSUME NEW k \in Keys \ shared' PROVE Owned(k)'
  <2>1. k \in Keys \ shared /\ \A d, e \in Storing(k)' : d = e
    BY SharedGrows
  <2>2. \A d \in Tasks : d \in Storing(k)' => call'[d] = call[d] /\ handle'[d] = handle[d]
    BY <1>1, <1>2 DEF Storing
  <2> QED BY <2>1, <2>2, OwnedKept DEF CacheInv
<1> QED BY <1>4, <1>5, <1>6 DEF CacheInv

\* What is known of a caller that is at work.
LEMMA ActiveCall ==
    ASSUME CacheInv, NEW c \in Tasks, Active(c)
    PROVE  /\ call[c] \in Calls /\ call[c].key \in Keys /\ call[c].attempt \in 0..1
           /\ call[c].stage \in Stored => call[c].reply \in Replies
           /\ call[c].stage # "writing" => handle[c] = "closed"
<1>1. call[c] \in Calls /\ call[c].stage # "idle"
  BY DEF CacheInv, LlmTypeOK, Active
<1>2. call[c].key \in Keys /\ call[c].attempt \in 0..1
  BY <1>1, Moved DEF Calls, NoCall, CallStages
<1> QED BY <1>1, <1>2 DEF CacheInv, CallsHold, Active

\* An attempt ends without touching the files.
LEMMA FinishStep ==
    ASSUME CacheInv, CheckedNext, NEW c \in Tasks, Active(c), NEW outcome, Finish(c, outcome),
           UNCHANGED <<cache, part>>
    PROVE  CacheInv'
<1>1. call[c].key \in Keys /\ call[c].attempt \in 0..1
  BY ActiveCall
<1> DEFINE new == After(call[c].key, call[c].attempt, outcome)
<1>2. new \in Calls /\ new.stage \in {"idle", "lookup"}
  BY <1>1, AfterSafe
<1>3. call' = [call EXCEPT ![c] = new] /\ handle' = [handle EXCEPT ![c] = "closed"]
  BY DEF Finish
<1> HIDE DEF new
<1> QED BY <1>2, <1>3, CalmStep

LEMMA LookStep ==
    ASSUME CacheInv, CheckedNext, NEW c \in Tasks, Call(c) \/ Hit(c)
    PROVE  CacheInv'
<1>1. CASE Call(c)
  <2>1. PICK kind \in Kinds, about \in Requests :
            call' = [call EXCEPT ![c] = Lookup(0, [kind |-> kind, about |-> about, prompt |-> "plain",
                                                   temperature |-> TemperatureOf(0)])]
    BY <1>1 DEF Call
  <2> DEFINE new == Lookup(0, [kind |-> kind, about |-> about, prompt |-> "plain",
                               temperature |-> TemperatureOf(0)])
  <2>2. new \in Calls /\ new.stage = "lookup"
    BY DEF Lookup, Calls, CallStages, Keys, Prompts, Temperatures, TemperatureOf
  <2>3. UNCHANGED <<cache, part, handle>> /\ handle[c] = "closed"
    BY <1>1 DEF Call, CacheInv, CallsHold
  <2>4. call' = [call EXCEPT ![c] = new]
    BY <2>1
  <2> HIDE DEF new
  <2> QED BY <2>2, <2>3, <2>4, CalmStep
<1>2. CASE Hit(c)
  <2>1. Active(c)
    BY <1>2 DEF Hit, Active
  <2> QED BY <1>2, <2>1, FinishStep DEF Hit
<1> QED BY <1>1, <1>2

LEMMA AskStep ==
    ASSUME CacheInv, CheckedNext, NEW c \in Tasks, Ask(c)
    PROVE  CacheInv'
<1>0. Active(c) /\ call[c].stage \in {"lookup", "asking"}
  BY DEF Ask, Miss, Queue, Busy, Answered, Failed, Replied, Active, Proceed
<1>1. /\ call[c] \in Calls /\ call[c].key \in Keys /\ call[c].attempt \in 0..1
      /\ handle[c] = "closed"
  BY <1>0, ActiveCall
<1>2. CASE Miss(c)
  <2> DEFINE new == [call[c] EXCEPT !.stage = "asking"]
  <2>1. new \in Calls /\ new.stage = "asking"
    BY <1>0, <1>1, Moved DEF CallStages, Active
  <2>2. call' = [call EXCEPT ![c] = new] /\ UNCHANGED <<cache, part, handle>>
    BY <1>2 DEF Miss, Proceed
  <2> HIDE DEF new
  <2> QED BY <1>1, <2>1, <2>2, CalmStep
<1>3. CASE Queue(c)
  <2>1. call' = [call EXCEPT ![c] = call[c]] /\ UNCHANGED <<cache, part, handle>>
    BY <1>3 DEF Queue, llmVars, CacheInv, LlmTypeOK
  <2> QED BY <1>0, <1>1, <2>1, CalmStep
<1>4. CASE Busy(c) \/ Failed(c)
  BY <1>0, <1>4, FinishStep DEF Busy, Failed
<1>5. CASE Answered(c)
  <2>1. PICK a \in model : call' = [call EXCEPT ![c] = [@ EXCEPT !.stage = "opening", !.reply = a]]
    BY <1>5 DEF Answered
  <2> DEFINE new == [call[c] EXCEPT !.stage = "opening", !.reply = a]
  <2>2. a \in Replies
    BY ModelsAssumption DEF CacheInv, LlmTypeOK
  <2>3. call[c] \in [stage : CallStages \ {"idle"}, attempt : 0..1, key : Keys,
                     reply : Replies \union {"none"}]
    BY <1>0, <1>1 DEF Calls, NoCall, Active
  <2>4. new \in Calls /\ new.stage = "opening" /\ new.reply = a
    BY <2>2, <2>3 DEF Calls, CallStages
  <2>5. call' = [call EXCEPT ![c] = new] /\ UNCHANGED <<cache, part, handle>>
    BY <1>5, <2>1 DEF Answered
  <2> HIDE DEF new
  <2> QED BY <1>1, <2>2, <2>4, <2>5, CalmStep
<1> QED BY <1>2, <1>3, <1>4, <1>5 DEF Ask

\* Writing touches the files of one key, and through the temporary file only that one.
LEMMA WrittenInto ==
    ASSUME CacheInv, NEW c \in Tasks, call[c].key \in Keys,
           NEW contents \in [Contents -> SUBSET Contents], WriteInto(c, contents)
    PROVE  /\ cache' \in [Keys -> Contents] /\ part' \in [Keys -> Contents]
           /\ \A k \in Keys \ {call[c].key} : cache'[k] = cache[k] /\ part'[k] = part[k]
           /\ handle[c] = "part" => UNCHANGED cache /\ part'[call[c].key] \in contents[part[call[c].key]]
<1> DEFINE k == call[c].key
<1>0. cache \in [Keys -> Contents] /\ part \in [Keys -> Contents] /\ k \in Keys
  BY DEF CacheInv, LlmTypeOK
<1>1. CASE handle[c] = "part"
  <2>1. PICK x \in contents[part[k]] : part' = [part EXCEPT ![k] = x]
    BY <1>1 DEF WriteInto
  <2>2. UNCHANGED cache
    BY <1>1 DEF WriteInto
  <2>3. x \in Contents
    BY <1>0
  <2> HIDE DEF k
  <2>4. part' \in [Keys -> Contents] /\ part'[k] = x /\ \A j \in Keys \ {k} : part'[j] = part[j]
    BY <1>0, <2>1, <2>3
  <2> QED BY <1>0, <2>2, <2>4 DEF k
<1>2. CASE handle[c] = "cache"
  <2>1. PICK x \in contents[cache[k]] : cache' = [cache EXCEPT ![k] = x]
    BY <1>2 DEF WriteInto
  <2>2. UNCHANGED part
    BY <1>2 DEF WriteInto
  <2>3. x \in Contents
    BY <1>0
  <2> HIDE DEF k
  <2>4. cache' \in [Keys -> Contents] /\ \A j \in Keys \ {k} : cache'[j] = cache[j]
    BY <1>0, <2>1, <2>3
  <2> QED BY <1>0, <1>2, <2>2, <2>4 DEF k
<1>3. CASE handle[c] \notin {"part", "cache"}
  <2>1. UNCHANGED <<cache, part>>
    BY <1>3 DEF WriteInto
  <2> QED BY <1>0, <1>3, <2>1
<1> QED BY <1>1, <1>2, <1>3

\* What a step of c that turns its call into `new` leaves alone: the files of all
\* keys but one, and who writes them.
OnlyTouches(c, key, new) ==
    /\ cache' \in [Keys -> Contents] /\ part' \in [Keys -> Contents]
    /\ \A k \in Keys \ {key} : cache'[k] = cache[k] /\ part'[k] = part[k]
    /\ handle' \in [Tasks -> Places]
    /\ handle'[c] # "closed" => new.stage = "writing"
    /\ \A d \in Tasks \ {c} : /\ handle'[d] # "closed" => handle[d] # "closed"
                              /\ call[d].key # key => handle'[d] = handle[d]
    /\ new.stage \notin {"writing", "publishing"} \/ new.key = key
    /\ new.stage \in Stored => new.reply \in Replies

LEMMA StoreFrame ==
    ASSUME CacheInv, CheckedNext, NEW c \in Tasks, NEW key \in Keys,
           NEW new \in Calls, call' = [call EXCEPT ![c] = new], OnlyTouches(c, key, new),
           key \notin shared' => Owned(key)'
    PROVE  CacheInv'
<1>1. /\ call' \in [Tasks -> Calls] /\ call'[c] = new
      /\ \A d \in Tasks \ {c} : call'[d] = call[d]
  BY CallTyped
<1>2. model' = model
  BY DEF CheckedNext, LlmNext
<1>3. LlmTypeOK'
  BY <1>1, <1>2 DEF CacheInv, LlmTypeOK, OnlyTouches
<1>4. CallsHold'
  <2> SUFFICES ASSUME NEW d \in Tasks
               PROVE  /\ call'[d].stage \in Stored => call'[d].reply \in Replies
                      /\ handle'[d] # "closed" => call'[d].stage = "writing"
    BY DEF CallsHold
  <2>1. CASE d = c
    BY <1>1, <2>1 DEF OnlyTouches
  <2>2. CASE d # c
    BY <1>1, <2>2 DEF CacheInv, CallsHold, OnlyTouches
  <2> QED BY <2>1, <2>2
<1>5. ASSUME NEW k \in Keys \ shared', k # key PROVE Owned(k)'
  <2>1. k \in Keys \ shared /\ \A d, e \in Storing(k)' : d = e
    BY SharedGrows
  <2>2. ASSUME NEW d \in Tasks, d \in Storing(k)' PROVE call'[d] = call[d] /\ handle'[d] = handle[d]
    <3>1. d # c
      BY <1>1, <1>5, <2>2 DEF Storing, OnlyTouches
    <3>2. call'[d] = call[d] /\ call[d].key = k
      BY <1>1, <2>2, <3>1 DEF Storing
    <3> QED BY <1>5, <3>1, <3>2 DEF OnlyTouches
  <2> QED BY <1>5, <2>1, <2>2, OwnedKept DEF CacheInv, OnlyTouches
<1> QED BY <1>3, <1>4, <1>5 DEF CacheInv

LEMMA OpenStep ==
    ASSUME CacheInv, CheckedNext, NEW c \in Tasks, Open(c)
    PROVE  CacheInv'
<1> DEFINE new == [call[c] EXCEPT !.stage = "writing"]
<1>1. call[c].stage = "opening" /\ Active(c)
  BY DEF Open, Proceed, Active
<1>2. call[c] \in Calls /\ call[c].key \in Keys /\ call[c].reply \in Replies
  BY <1>1, ActiveCall DEF Stored
<1> PICK key \in Keys : key = call[c].key
  BY <1>2
<1>3. new \in Calls /\ new.stage = "writing" /\ new.key = key /\ new.reply \in Replies
  BY <1>1, <1>2, Moved DEF CallStages
<1>4. call' = [call EXCEPT ![c] = new]
  BY DEF Open, Proceed
<1>5. /\ cache' = cache /\ part' = [part EXCEPT ![key] = "empty"]
      /\ handle' = [handle EXCEPT ![c] = "part"]
  BY DEF Open
<1> HIDE DEF new
<1>6. /\ cache' \in [Keys -> Contents] /\ part' \in [Keys -> Contents] /\ part'[key] = "empty"
      /\ \A k \in Keys \ {key} : cache'[k] = cache[k] /\ part'[k] = part[k]
  BY <1>2, <1>5 DEF CacheInv, LlmTypeOK, Contents, Unreadable
<1>7. /\ handle' \in [Tasks -> Places] /\ handle'[c] = "part"
      /\ \A d \in Tasks \ {c} : handle'[d] = handle[d]
  BY <1>5 DEF CacheInv, LlmTypeOK, Places
<1>8. call'[c] = new
  BY <1>3, <1>4, CallTyped
<1>9. ASSUME key \notin shared' PROVE Owned(key)'
  <2>1. key \in Keys \ shared /\ \A d, e \in Storing(key)' : d = e
    BY <1>2, <1>9, SharedGrows
  <2>2. c \in Storing(key)'
    BY <1>3, <1>8 DEF Storing
  <2>3. Storing(key)' = {c}
    BY <2>1, <2>2
  <2>4. cache'[key] \notin Unreadable
    BY <1>5, <2>1 DEF CacheInv, Owned
  <2> QED BY <1>3, <1>6, <1>7, <1>8, <2>1, <2>3, <2>4 DEF Owned
<1>10. OnlyTouches(c, key, new)
  BY <1>3, <1>6, <1>7 DEF OnlyTouches
<1> QED BY <1>3, <1>4, <1>9, <1>10, StoreFrame

LEMMA WriteStep ==
    ASSUME CacheInv, CheckedNext, NEW c \in Tasks, Write(c)
    PROVE  CacheInv'
<1> DEFINE new == [call[c] EXCEPT !.stage = "publishing"]
           contents == [old \in Contents |-> Over(old, call[c].reply)]
<1>1. call[c].stage = "writing" /\ Active(c)
  BY DEF Write, Proceed, Active
<1>2. call[c] \in Calls /\ call[c].key \in Keys /\ call[c].reply \in Replies
  BY <1>1, ActiveCall DEF Stored
<1> PICK key \in Keys : key = call[c].key
  BY <1>2
<1>3. new \in Calls /\ new.stage = "publishing" /\ new.key = key /\ new.reply \in Replies
  BY <1>1, <1>2, Moved DEF CallStages
<1>4. call' = [call EXCEPT ![c] = new]
  BY DEF Write, Proceed
<1>5. contents \in [Contents -> SUBSET Contents] /\ contents["empty"] = {call[c].reply}
  BY <1>2 DEF Over, Contents, Unreadable
<1>6. WriteInto(c, contents) /\ handle' = [handle EXCEPT ![c] = "closed"]
  BY DEF Write
<1> HIDE DEF contents
<1>7. /\ cache' \in [Keys -> Contents] /\ part' \in [Keys -> Contents]
      /\ \A k \in Keys \ {key} : cache'[k] = cache[k] /\ part'[k] = part[k]
      /\ handle[c] = "part" => UNCHANGED cache /\ part'[key] \in contents[part[key]]
  BY <1>2, <1>5, <1>6, WrittenInto
<1> HIDE DEF new
<1>8. /\ handle' \in [Tasks -> Places] /\ handle'[c] = "closed"
      /\ \A d \in Tasks \ {c} : handle'[d] = handle[d]
  BY <1>6 DEF CacheInv, LlmTypeOK, Places
<1>9. call'[c] = new
  BY <1>3, <1>4, CallTyped
<1>10. ASSUME key \notin shared' PROVE Owned(key)'
  <2>1. key \in Keys \ shared /\ \A d, e \in Storing(key)' : d = e
    BY <1>2, <1>10, SharedGrows
  <2>2. c \in Storing(key)' /\ c \in Storing(key)
    BY <1>1, <1>3, <1>9 DEF Storing
  <2>3. handle[c] = "part" /\ part[key] = "empty" /\ cache[key] \notin Unreadable
    BY <1>1, <2>1, <2>2 DEF CacheInv, Owned
  <2>4. part'[key] = call[c].reply /\ UNCHANGED cache
    BY <1>5, <1>7, <2>3
  <2>5. Storing(key)' = {c}
    BY <2>1, <2>2
  <2> QED BY <1>2, <1>3, <1>9, <2>1, <2>3, <2>4, <2>5 DEF Owned
<1>11. OnlyTouches(c, key, new)
  BY <1>3, <1>7, <1>8 DEF OnlyTouches
<1> QED BY <1>3, <1>4, <1>10, <1>11, StoreFrame

\* After c stops, nobody stores the answer it was storing, unless two did.
LEMMA NobodyStores ==
    ASSUME CacheInv, CheckedNext, NEW c \in Tasks, NEW key \in Keys \ shared', c \in Storing(key),
           NEW new, new.stage \in {"idle", "lookup"}, call'[c] = new,
           \A d \in Tasks \ {c} : call'[d] = call[d]
    PROVE  Storing(key)' = {} /\ Owned(key)
<1>1. key \in Keys \ shared
  BY SharedGrows
<1>2. Owned(key)
  BY <1>1 DEF CacheInv
<1>3. ASSUME NEW d \in Storing(key)' PROVE FALSE
  <2>1. d \in Tasks /\ d # c
    BY DEF Storing
  <2>2. d \in Storing(key)
    BY <2>1 DEF Storing
  <2> QED BY <1>2, <2>1, <2>2 DEF Owned
<1> QED BY <1>2, <1>3

LEMMA PublishStep ==
    ASSUME CacheInv, CheckedNext, NEW c \in Tasks, Publish(c)
    PROVE  CacheInv'
<1> DEFINE new == After(call[c].key, call[c].attempt, call[c].reply)
<1>1. call[c].stage = "publishing" /\ Active(c)
  BY DEF Publish, Active
<1>2. call[c].key \in Keys /\ call[c].attempt \in 0..1 /\ handle[c] = "closed"
  BY <1>1, ActiveCall
<1> PICK key \in Keys : key = call[c].key
  BY <1>2
<1>3. new \in Calls /\ new.stage \in {"idle", "lookup"}
  BY <1>2, AfterSafe
<1>4. /\ call' = [call EXCEPT ![c] = new] /\ handle' = Renamed(key)
      /\ cache' = [cache EXCEPT ![key] = part[key]] /\ part' = [part EXCEPT ![key] = "none"]
  BY DEF Publish
<1> HIDE DEF new
<1>5. /\ cache' \in [Keys -> Contents] /\ part' \in [Keys -> Contents] /\ cache'[key] = part[key]
      /\ \A k \in Keys \ {key} : cache'[k] = cache[k] /\ part'[k] = part[k]
  BY <1>4 DEF CacheInv, LlmTypeOK, Contents
<1>6. /\ handle' \in [Tasks -> Places] /\ handle'[c] = "closed"
      /\ \A d \in Tasks \ {c} : /\ handle'[d] # "closed" => handle[d] # "closed"
                                /\ call[d].key # key => handle'[d] = handle[d]
  BY <1>2, <1>4 DEF CacheInv, LlmTypeOK, Places, Renamed
<1>7. call'[c] = new /\ \A d \in Tasks \ {c} : call'[d] = call[d]
  BY <1>3, <1>4, CallTyped
<1>8. ASSUME key \notin shared' PROVE Owned(key)'
  <2>1. c \in Storing(key)
    BY <1>1 DEF Storing
  <2>2. Storing(key)' = {} /\ Owned(key)
    BY <1>3, <1>7, <1>8, <2>1, NobodyStores
  <2>3. part[key] \in Replies
    BY <1>1, <2>1, <2>2 DEF Owned
  <2>4. cache'[key] \notin Unreadable
    BY <1>5, <2>3 DEF Replies, Unreadable
  <2> QED BY <2>2, <2>4 DEF Owned
<1>9. OnlyTouches(c, key, new)
  BY <1>3, <1>5, <1>6 DEF OnlyTouches, Stored
<1> QED BY <1>3, <1>4, <1>8, <1>9, StoreFrame

LEMMA DieStep ==
    ASSUME CacheInv, CheckedNext, NEW c \in Tasks, Die(c)
    PROVE  CacheInv'
<1>1. Active(c) /\ NoCall \in Calls /\ NoCall.stage = "idle"
  BY DEF Die, NoCall, Calls
<1>2. call' = [call EXCEPT ![c] = NoCall] /\ handle' = [handle EXCEPT ![c] = "closed"]
  BY DEF Die
<1>3. CASE UNCHANGED <<cache, part>>
  BY <1>1, <1>2, <1>3, CalmStep
<1>4. CASE /\ call[c].stage = "writing"
           /\ WriteInto(c, [old \in Contents |-> {"mixed"}])
  <2>1. PICK key \in Keys : key = call[c].key
    BY <1>1, ActiveCall
  <2>2. [old \in Contents |-> {"mixed"}] \in [Contents -> SUBSET Contents]
    BY DEF Contents, Unreadable
  <2>3. /\ cache' \in [Keys -> Contents] /\ part' \in [Keys -> Contents]
        /\ \A k \in Keys \ {key} : cache'[k] = cache[k] /\ part'[k] = part[k]
        /\ handle[c] = "part" => UNCHANGED cache
    BY <1>4, <2>1, <2>2, WrittenInto
  <2>4. /\ handle' \in [Tasks -> Places] /\ handle'[c] = "closed"
        /\ \A d \in Tasks \ {c} : handle'[d] = handle[d]
    BY <1>2 DEF CacheInv, LlmTypeOK, Places
  <2>5. call'[c] = NoCall /\ \A d \in Tasks \ {c} : call'[d] = call[d]
    BY <1>1, <1>2, CallTyped
  <2>6. ASSUME key \notin shared' PROVE Owned(key)'
    <3>1. c \in Storing(key)
      BY <1>4, <2>1 DEF Storing
    <3>2. Storing(key)' = {} /\ Owned(key)
      BY <1>1, <2>5, <2>6, <3>1, NobodyStores
    <3>3. cache' = cache
      BY <1>4, <2>3, <3>1, <3>2 DEF Owned
    <3> QED BY <3>2, <3>3 DEF Owned
  <2>7. OnlyTouches(c, key, NoCall)
    BY <1>1, <2>3, <2>4 DEF OnlyTouches, Stored
  <2> QED BY <1>1, <1>2, <2>6, <2>7, StoreFrame
<1> QED BY <1>3, <1>4 DEF Die

LEMMA CacheInvInit == CheckedInit => CacheInv
<1> SUFFICES ASSUME CheckedInit PROVE CacheInv
  OBVIOUS
<1>1. LlmTypeOK
  BY DEF CheckedInit, LlmInit, LlmTypeOK, Calls, Contents, Places
<1>2. \A c \in Tasks : call[c].stage = "idle" /\ handle[c] = "closed"
  BY DEF CheckedInit, LlmInit, NoCall
<1>3. CallsHold
  BY <1>2 DEF CallsHold, Stored
<1>4. ASSUME NEW k \in Keys PROVE Owned(k)
  <2>1. Storing(k) = {}
    BY <1>2 DEF Storing
  <2>2. cache[k] = "none"
    BY DEF CheckedInit, LlmInit
  <2> QED BY <2>1, <2>2 DEF Owned, Unreadable
<1> QED BY <1>1, <1>3, <1>4 DEF CacheInv

LEMMA CacheInvNext == CacheInv /\ [CheckedNext]_checkedVars => CacheInv'
<1> SUFFICES ASSUME CacheInv, [CheckedNext]_checkedVars PROVE CacheInv'
  OBVIOUS
<1>1. CASE UNCHANGED checkedVars
  BY <1>1 DEF checkedVars, allVars, llmVars, CacheInv, LlmTypeOK, CallsHold, Owned, Storing
<1>2. CASE CheckedNext
  <2>1. PICK c \in Tasks : Call(c) \/ CallerStep(c) \/ Die(c) \/ LoseRedis(c)
    BY <1>2 DEF CheckedNext, LlmNext
  <2>2. CASE Call(c) \/ Hit(c)
    BY <1>2, <2>2, LookStep
  <2>3. CASE Ask(c)
    BY <1>2, <2>3, AskStep
  <2>4. CASE Open(c)
    BY <1>2, <2>4, OpenStep
  <2>5. CASE Write(c)
    BY <1>2, <2>5, WriteStep
  <2>6. CASE Publish(c)
    BY <1>2, <2>6, PublishStep
  <2>7. CASE PublishNothing(c) \/ LoseRedis(c)
    <3>1. Active(c) /\ Finish(c, "error") /\ UNCHANGED <<cache, part>>
      BY <2>7 DEF PublishNothing, LoseRedis, Active
    <3> QED BY <1>2, <3>1, FinishStep
  <2>8. CASE Die(c)
    BY <1>2, <2>8, DieStep
  <2> QED BY <2>1, <2>2, <2>3, <2>4, <2>5, <2>6, <2>7, <2>8 DEF CallerStep, Store
<1> QED BY <1>1, <1>2

\* A file of the cache that is no JSON is one whose answer two callers were storing at one
\* time, however many callers there are and whichever of them die (generate_json).
THEOREM CacheStaysReadable == CheckedSpec => []CacheTornOnlyWhenShared
<1>1. CheckedInit => CacheInv
  BY CacheInvInit
<1>2. CacheInv /\ [CheckedNext]_checkedVars => CacheInv'
  BY CacheInvNext
<1>3. CacheInv => CacheTornOnlyWhenShared
  BY DEF CacheInv, Owned, CacheTornOnlyWhenShared
<1> QED BY <1>1, <1>2, <1>3, PTL DEF CheckedSpec

-----------------------------------------------------------------------------
(***************************************************************************)
(* The tokens of the callers.  Only a caller that is waiting for the model *)
(* is a task of the semaphore, so the tokens that HeavySlot keeps with     *)
(* running tasks are with such callers.                                    *)
(***************************************************************************)
SlotForPost(c) == task[c] # "idle" => call[c].stage = "asking"
SlotsForPosts == \A c \in Tasks : SlotForPost(c)

\* A step of c ends with c asking, or with no task of it.
LEMMA CallerSlot ==
    ASSUME TypeOK, CacheInv, NEW c \in Tasks, SlotForPost(c),
           Call(c) \/ CallerStep(c) \/ Die(c) \/ LoseRedis(c)
    PROVE  SlotForPost(c)'
<1>0. /\ task \in [Tasks -> Stages] /\ call \in [Tasks -> Calls]
      /\ \A from, to : Go(c, from, to) => task'[c] = to
  BY DEF TypeOK, CacheInv, LlmTypeOK, Go
<1>1. CASE Call(c) \/ Hit(c) \/ Store(c)
  <2>1. task' = task /\ call[c].stage # "asking"
    BY <1>1 DEF Call, Hit, Store, Open, Write, Publish, PublishNothing, Proceed, vars
  <2> QED BY <2>1 DEF SlotForPost
<1>2. CASE Miss(c)
  <2>1. call' = [call EXCEPT ![c] = [call[c] EXCEPT !.stage = "asking"]]
        /\ call[c].stage = "lookup"
    BY <1>2 DEF Miss, Proceed
  <2>2. [call[c] EXCEPT !.stage = "asking"].stage = "asking"
    <3>1. call[c] \in Calls /\ call[c].stage # "idle"
      BY <1>0, <2>1
    <3> QED BY <3>1, Moved DEF CallStages
  <2> QED BY <1>0, <2>1, <2>2 DEF SlotForPost
<1>3. CASE Queue(c)
  BY <1>3 DEF Queue, llmVars, SlotForPost
<1>4. CASE Busy(c) \/ Answered(c) \/ Failed(c)
  BY <1>0, <1>4 DEF Busy, Answered, Failed, Replied, GiveUp, Return, EndUnlimited, SlotForPost
<1>5. CASE Die(c) \/ LoseRedis(c)
  BY <1>0, <1>5 DEF Die, LoseRedis, Break, SlotForPost, vars
<1> QED BY <1>1, <1>2, <1>3, <1>4, <1>5 DEF CallerStep, Ask

\* It leaves the others where they are.
LEMMA OtherSlots ==
    ASSUME TypeOK, CacheInv, NEW c \in Tasks, NEW d \in Tasks \ {c},
           Call(c) \/ CallerStep(c) \/ Die(c) \/ LoseRedis(c)
    PROVE  task'[d] = task[d] /\ call'[d] = call[d]
<1>1. /\ task \in [Tasks -> Stages] /\ call \in [Tasks -> Calls]
      /\ \A from, to : Go(c, from, to) => task'[d] = task[d]
      /\ \A outcome : Finish(c, outcome) => call'[d] = call[d]
      /\ \A from, to : Proceed(c, from, to) => call'[d] = call[d]
  BY DEF TypeOK, CacheInv, LlmTypeOK, Go, Finish, Proceed
<1>2. CASE Call(c) \/ Hit(c) \/ Store(c)
  BY <1>1, <1>2 DEF Call, Hit, Store, Open, Write, Publish, PublishNothing, vars
<1>3. CASE Miss(c) \/ Queue(c) \/ Busy(c)
  BY <1>1, <1>3 DEF Miss, PassUnlimited, Connect, Queue, Mark, Seed, Take, Busy, GiveUp, llmVars
<1>4. CASE Answered(c) \/ Failed(c)
  BY <1>1, <1>4 DEF Answered, Failed, Replied, Return, EndUnlimited
<1>5. CASE Die(c) \/ LoseRedis(c)
  BY <1>1, <1>5 DEF Die, LoseRedis, Break, vars
<1> QED BY <1>2, <1>3, <1>4, <1>5 DEF CallerStep, Ask

LEMMA SlotsForPostsNext ==
    TypeOK /\ CacheInv /\ SlotsForPosts /\ [CheckedNext]_checkedVars => SlotsForPosts'
<1> SUFFICES ASSUME TypeOK, CacheInv, SlotsForPosts, [CheckedNext]_checkedVars
             PROVE  SlotsForPosts'
  OBVIOUS
<1>1. CASE UNCHANGED checkedVars
  BY <1>1 DEF checkedVars, allVars, vars, llmVars, SlotsForPosts, SlotForPost
<1>2. CASE CheckedNext
  <2>1. PICK c \in Tasks : Call(c) \/ CallerStep(c) \/ Die(c) \/ LoseRedis(c)
    BY <1>2 DEF CheckedNext, LlmNext
  <2>2. SlotForPost(c)'
    BY <2>1, CallerSlot DEF SlotsForPosts
  <2>3. ASSUME NEW d \in Tasks \ {c} PROVE SlotForPost(d)'
    BY <2>1, OtherSlots DEF SlotsForPosts, SlotForPost
  <2> QED BY <2>2, <2>3 DEF SlotsForPosts
<1> QED BY <1>1, <1>2

\* Without faults each token is in the list or with a caller that waits for the model,
\* whatever became of the others' questions (generate_json's `with` around the POST).
THEOREM TokensAlwaysComeBack == CheckedSpec => []TokensComeBack
<1>1. CheckedSpec => []TypeOK /\ []NoTokenLost
  BY CallersUseSlots, SlotTypeCorrect, TokensAreKept, PTL
<1>2. CheckedInit => CacheInv /\ SlotsForPosts
  BY CacheInvInit DEF CheckedInit, LlmInit, Init, SlotsForPosts, SlotForPost
<1>3. TypeOK /\ CacheInv /\ SlotsForPosts /\ [CheckedNext]_checkedVars
          => (CacheInv /\ SlotsForPosts)'
  BY CacheInvNext, SlotsForPostsNext
<1>4. TypeOK /\ NoTokenLost /\ SlotsForPosts => TokensComeBack
  <2> SUFFICES ASSUME TypeOK, NoTokenLost, SlotsForPosts,
                      ~faulty, marker, At("seeding") = {}
               PROVE  tokens + Cardinality(Asking) = Slots
    BY DEF TokensComeBack
  <2>1. Asking = At("running")
    BY DEF Asking, At, SlotsForPosts, SlotForPost
  <2>2. Cardinality(At("running")) + tokens = Slots /\ Cardinality(At("running")) \in Nat
    <3>1. At("running") \subseteq Tasks
      BY DEF At
    <3> QED BY <3>1, TasksAssumption, FS_Subset, FS_CardinalityType DEF NoTokenLost
  <2> QED BY <2>1, <2>2 DEF TypeOK
<1> QED BY <1>1, <1>2, <1>3, <1>4, PTL DEF CheckedSpec

-----------------------------------------------------------------------------
(***************************************************************************)
(* Nothing is asked twice.  Once a file is in the cache some file stays    *)
(* there, so what a caller got an answer to is in the cache or about to    *)
(* be; if somebody else has moved the temporary file, it is there already. *)
(***************************************************************************)
Waiting(c) == call[c].stage \in {"writing", "publishing"} /\ cache[call[c].key] = "none"
Known(c, k) == cache[k] # "none" \/ (call[c].stage \in Stored /\ call[c].key = k)

AskInv == /\ CacheInv
          /\ \A c \in Tasks : Waiting(c) => part[call[c].key] # "none"
          /\ \A c \in Tasks : \A k \in answered[c] \cap Keys : Known(c, k)
          /\ NothingAskedTwice

\* The files after a step: none leaves the cache, and a temporary file goes only there.
FilesStay ==
    /\ \A k \in Keys : cache[k] # "none" => cache'[k] # "none"
    /\ \A k \in Keys : part[k] # "none" => part'[k] # "none" \/ cache'[k] # "none"

\* What a step of c does to its call.
Acts(c) ==
    \/ Die(c) /\ call'[c].stage = "idle"
    \/ /\ call[c].stage \notin Stored \/ cache'[call[c].key] # "none"
       /\ call'[c].stage \in {"idle", "lookup"}
    \/ /\ call[c].stage = "lookup" /\ cache[call[c].key] = "none"
       /\ call'[c].stage = "asking" /\ call'[c].key = call[c].key
    \/ call[c].stage = "asking" /\ call'[c] = call[c]
    \/ call[c].stage = "asking" /\ call'[c].stage = "opening" /\ call'[c].key = call[c].key
    \/ /\ call[c].stage = "opening" /\ call'[c].stage = "writing" /\ call'[c].key = call[c].key
       /\ part'[call[c].key] # "none"
    \/ call[c].stage = "writing" /\ call'[c].stage = "publishing" /\ call'[c].key = call[c].key

\* the first four of generate_json's steps, and those that end an attempt early
LEMMA EarlyActs ==
    ASSUME AskInv, NEW c \in Tasks,
           Call(c) \/ Hit(c) \/ Ask(c) \/ PublishNothing(c) \/ LoseRedis(c)
    PROVE  /\ UNCHANGED <<cache, part>> /\ Acts(c)
           /\ \A d \in Tasks \ {c} : call'[d] = call[d]
<1>0. CacheInv /\ call \in [Tasks -> Calls]
  BY DEF AskInv, CacheInv, LlmTypeOK
<1>1. CASE Call(c)
  <2>1. PICK key : call' = [call EXCEPT ![c] = Lookup(0, key)]
    BY <1>1 DEF Call
  <2>2. call'[c] = Lookup(0, key) /\ \A d \in Tasks \ {c} : call'[d] = call[d]
    BY <1>0, <2>1
  <2>3. call'[c].stage = "lookup"
    BY <2>2 DEF Lookup
  <2> QED BY <1>1, <2>2, <2>3 DEF Call, Acts, Stored
<1>2. ASSUME NEW outcome, Active(c), Finish(c, outcome),
             call[c].stage \notin Stored \/ cache[call[c].key] # "none", UNCHANGED <<cache, part>>
      PROVE  Acts(c) /\ \A d \in Tasks \ {c} : call'[d] = call[d]
  <2>1. call[c].key \in Keys /\ call[c].attempt \in 0..1
    BY <1>0, <1>2, ActiveCall
  <2>2. PICK new \in Calls : new.stage \in {"idle", "lookup"} /\ call' = [call EXCEPT ![c] = new]
    BY <1>2, <2>1, AfterSafe DEF Finish
  <2>3. call'[c] = new /\ \A d \in Tasks \ {c} : call'[d] = call[d]
    BY <1>0, <2>2
  <2> QED BY <1>2, <2>2, <2>3 DEF Acts
<1>3. CASE Hit(c)
  BY <1>2, <1>3 DEF Hit, Active, Stored
<1>4. CASE PublishNothing(c)
  <2>1. Active(c) /\ call[c].stage = "publishing" /\ part[call[c].key] = "none"
    BY <1>4 DEF PublishNothing, Active
  <2>2. cache[call[c].key] # "none"
    BY <2>1 DEF AskInv, Waiting
  <2> QED BY <1>2, <1>4, <2>1, <2>2 DEF PublishNothing
<1>5. CASE LoseRedis(c) \/ Busy(c) \/ Failed(c)
  BY <1>2, <1>5 DEF LoseRedis, Busy, Failed, Replied, Active, Stored
<1>6. CASE Miss(c)
  <2>1. Active(c) /\ call[c].stage = "lookup" /\ cache[call[c].key] = "none"
    BY <1>6 DEF Miss, Proceed, Active
  <2>2. PICK new : new = [call[c] EXCEPT !.stage = "asking"] /\ call' = [call EXCEPT ![c] = new]
    BY <1>6 DEF Miss, Proceed
  <2>3. new.stage = "asking" /\ new.key = call[c].key
    BY <1>0, <2>1, <2>2, Moved DEF Active, CallStages
  <2>4. call'[c] = new /\ \A d \in Tasks \ {c} : call'[d] = call[d]
    BY <1>0, <2>2
  <2> QED BY <1>6, <2>1, <2>3, <2>4 DEF Miss, Acts
<1>7. CASE Queue(c)
  BY <1>7 DEF Queue, llmVars, Acts
<1>8. CASE Answered(c)
  <2>1. Active(c) /\ call[c].stage = "asking" /\ UNCHANGED <<cache, part>>
    BY <1>8 DEF Answered, Replied, Active
  <2>0. PICK a \in model : call' = [call EXCEPT ![c] = [@ EXCEPT !.stage = "opening", !.reply = a]]
    BY <1>8 DEF Answered
  <2>2. PICK new : /\ new = [call[c] EXCEPT !.stage = "opening", !.reply = a]
                   /\ call' = [call EXCEPT ![c] = new]
    BY <2>0
  <2>3. call[c] \in [stage : CallStages \ {"idle"}, attempt : 0..1, key : Keys,
                     reply : Replies \union {"none"}]
    BY <1>0, <2>1 DEF Calls, NoCall
  <2>4. new.stage = "opening" /\ new.key = call[c].key
    BY <2>2, <2>3
  <2>5. call'[c] = new /\ \A d \in Tasks \ {c} : call'[d] = call[d]
    BY <1>0, <2>2
  <2> QED BY <2>1, <2>4, <2>5 DEF Acts
<1> QED BY <1>1, <1>3, <1>4, <1>5, <1>6, <1>7, <1>8
        DEF Call, Hit, Ask, PublishNothing, LoseRedis, Busy, Failed, Miss, Queue, Answered, llmVars

LEMMA WritingStays ==
    ASSUME CacheInv, NEW c \in Tasks, call[c].key \in Keys,
           NEW contents \in [Contents -> SUBSET (Contents \ {"none"})], WriteInto(c, contents)
    PROVE  FilesStay
<1>0. cache \in [Keys -> Contents] /\ part \in [Keys -> Contents]
  BY DEF CacheInv, LlmTypeOK
<1> PICK k \in Keys : k = call[c].key
  OBVIOUS
<1>1. CASE handle[c] = "part"
  <2>1. PICK x \in contents[part[k]] : part' = [part EXCEPT ![k] = x]
    BY <1>1 DEF WriteInto
  <2>2. x # "none" /\ UNCHANGED cache
    BY <1>0, <1>1, <2>1 DEF WriteInto
  <2> QED BY <1>0, <2>1, <2>2 DEF FilesStay
<1>2. CASE handle[c] = "cache"
  <2>1. PICK x \in contents[cache[k]] : cache' = [cache EXCEPT ![k] = x]
    BY <1>2 DEF WriteInto
  <2>2. x # "none" /\ UNCHANGED part
    BY <1>0, <1>2, <2>1 DEF WriteInto
  <2> QED BY <1>0, <2>1, <2>2 DEF FilesStay
<1>3. CASE handle[c] \notin {"part", "cache"}
  BY <1>3 DEF WriteInto, FilesStay
<1> QED BY <1>1, <1>2, <1>3

LEMMA StoringActs ==
    ASSUME AskInv, NEW c \in Tasks, Open(c) \/ Write(c) \/ Publish(c) \/ Die(c)
    PROVE  FilesStay /\ Acts(c) /\ \A d \in Tasks \ {c} : call'[d] = call[d]
<1>0. CacheInv /\ call \in [Tasks -> Calls]
      /\ cache \in [Keys -> Contents] /\ part \in [Keys -> Contents]
  BY DEF AskInv, CacheInv, LlmTypeOK
<1>1. Active(c)
  BY DEF Open, Write, Publish, Die, Active, Proceed
<1>2. call[c] \in Calls /\ call[c].key \in Keys /\ call[c].attempt \in 0..1
  BY <1>0, <1>1, ActiveCall
<1> PICK key \in Keys : key = call[c].key
  BY <1>2
<1>3. CASE Open(c)
  <2>1. PICK new : new = [call[c] EXCEPT !.stage = "writing"] /\ call' = [call EXCEPT ![c] = new]
    BY <1>3 DEF Open, Proceed
  <2>2. new.stage = "writing" /\ new.key = key
    BY <1>1, <1>2, <2>1, Moved DEF Active, CallStages
  <2>3. call[c].stage = "opening" /\ cache' = cache /\ part' = [part EXCEPT ![key] = "empty"]
    BY <1>3 DEF Open, Proceed
  <2>4. part'[key] # "none" /\ FilesStay
    BY <1>0, <2>3 DEF FilesStay
  <2>5. call'[c] = new /\ \A d \in Tasks \ {c} : call'[d] = call[d]
    BY <1>0, <2>1
  <2> QED BY <2>2, <2>3, <2>4, <2>5 DEF Acts
<1>4. CASE Write(c)
  <2>1. PICK new : new = [call[c] EXCEPT !.stage = "publishing"] /\ call' = [call EXCEPT ![c] = new]
    BY <1>4 DEF Write, Proceed
  <2>2. new.stage = "publishing" /\ new.key = key
    BY <1>1, <1>2, <2>1, Moved DEF Active, CallStages
  <2>3. call[c].stage = "writing" /\ call[c].reply \in Replies
    BY <1>0, <1>4 DEF Write, Proceed, CacheInv, CallsHold, Stored
  <2> DEFINE contents == [old \in Contents |-> Over(old, call[c].reply)]
  <2>4. contents \in [Contents -> SUBSET (Contents \ {"none"})]
    BY <2>3 DEF Over, Contents, Unreadable, Replies
  <2>5. WriteInto(c, contents)
    BY <1>4 DEF Write
  <2> HIDE DEF contents
  <2>6. FilesStay
    BY <1>0, <1>2, <2>4, <2>5, WritingStays
  <2>7. call'[c] = new /\ \A d \in Tasks \ {c} : call'[d] = call[d]
    BY <1>0, <2>1
  <2> QED BY <2>2, <2>3, <2>6, <2>7 DEF Acts
<1>5. CASE Publish(c)
  <2>1. PICK new \in Calls : new.stage \in {"idle", "lookup"} /\ call' = [call EXCEPT ![c] = new]
    BY <1>2, <1>5, AfterSafe DEF Publish
  <2>2. /\ part[key] # "none" /\ cache' = [cache EXCEPT ![key] = part[key]]
        /\ part' = [part EXCEPT ![key] = "none"]
    BY <1>5 DEF Publish
  <2>3. cache'[key] # "none" /\ FilesStay
    BY <1>0, <2>2 DEF FilesStay
  <2>4. call'[c] = new /\ \A d \in Tasks \ {c} : call'[d] = call[d]
    BY <1>0, <2>1
  <2> QED BY <2>1, <2>3, <2>4 DEF Acts
<1>6. CASE Die(c)
  <2>1. call' = [call EXCEPT ![c] = NoCall]
    BY <1>6 DEF Die
  <2>2. call'[c].stage = "idle" /\ \A d \in Tasks \ {c} : call'[d] = call[d]
    BY <1>0, <2>1 DEF NoCall
  <2>3. FilesStay
    <3>1. CASE UNCHANGED <<cache, part>>
      BY <3>1 DEF FilesStay
    <3>2. CASE WriteInto(c, [old \in Contents |-> {"mixed"}])
      <4>1. [old \in Contents |-> {"mixed"}] \in [Contents -> SUBSET (Contents \ {"none"})]
        BY DEF Contents, Unreadable
      <4> QED BY <1>0, <1>2, <3>2, <4>1, WritingStays
    <3> QED BY <1>6, <3>1, <3>2 DEF Die
  <2> QED BY <1>6, <2>2, <2>3 DEF Acts
<1> QED BY <1>3, <1>4, <1>5, <1>6

LEMMA AskInvNext == AskInv /\ [CheckedNext]_checkedVars => AskInv'
<1> SUFFICES ASSUME AskInv, [CheckedNext]_checkedVars PROVE AskInv'
  OBVIOUS
<1>0. CacheInv'
  BY CacheInvNext DEF AskInv
<1>1. CASE UNCHANGED checkedVars
  BY <1>0, <1>1 DEF checkedVars, allVars, llmVars, AskInv, Waiting, Known, NothingAskedTwice
<1>2. CASE CheckedNext
  <2>1. PICK c \in Tasks : Call(c) \/ CallerStep(c) \/ Die(c) \/ LoseRedis(c)
    BY <1>2 DEF CheckedNext, LlmNext
  <2>2. FilesStay /\ Acts(c) /\ \A d \in Tasks \ {c} : call'[d] = call[d]
    <3>1. CASE Call(c) \/ Hit(c) \/ Ask(c) \/ PublishNothing(c) \/ LoseRedis(c)
      BY <3>1, EarlyActs DEF FilesStay
    <3>2. CASE Open(c) \/ Write(c) \/ Publish(c) \/ Die(c)
      BY <3>2, StoringActs
    <3> QED BY <2>1, <3>1, <3>2 DEF CallerStep, Store
  <2>3. ASSUME NEW d \in Tasks
        PROVE  /\ Die(d) => answered'[d] = {}
               /\ answered'[d] \subseteq answered[d] \union
                      (IF call[d].stage = "asking" /\ call'[d].stage = "opening"
                       THEN {call[d].key} ELSE {})
    <3>1. Answered(d) => call[d].stage = "asking" /\ call'[d].stage = "opening"
      <4> SUFFICES ASSUME Answered(d) PROVE call'[d].stage = "opening" /\ call[d].stage = "asking"
        OBVIOUS
      <4>1. call[d].stage = "asking" /\ call[d] \in Calls /\ call \in [Tasks -> Calls]
        BY DEF Answered, Replied, AskInv, CacheInv, LlmTypeOK
      <4>2. call[d] \in [stage : CallStages \ {"idle"}, attempt : 0..1, key : Keys,
                         reply : Replies \union {"none"}]
        BY <4>1 DEF Calls, NoCall
      <4>0. PICK a \in model : call' = [call EXCEPT ![d] = [@ EXCEPT !.stage = "opening", !.reply = a]]
        BY DEF Answered
      <4>3. PICK new : /\ new = [call[d] EXCEPT !.stage = "opening", !.reply = a]
                       /\ call' = [call EXCEPT ![d] = new]
        BY <4>0
      <4>4. new.stage = "opening"
        BY <4>2, <4>3
      <4>5. call'[d] = new
        BY <4>1, <4>3
      <4> QED BY <4>1, <4>4, <4>5
    <3> QED BY <1>2, <3>1 DEF CheckedNext
  <2>4. ASSUME NEW d \in Tasks, Waiting(d)' PROVE part'[call'[d].key] # "none"
    <3>1. call'[d].key \in Keys
      BY <1>0, <2>4, Moved DEF Waiting, CacheInv, LlmTypeOK, CallStages
    <3>2. CASE d # c
      BY <2>2, <2>4, <3>1, <3>2 DEF AskInv, Waiting, FilesStay
    <3>3. CASE d = c
      BY <2>2, <2>4, <3>1, <3>3 DEF AskInv, Waiting, FilesStay, Acts
    <3> QED BY <3>2, <3>3
  <2>5. ASSUME NEW d \in Tasks, NEW k \in answered'[d] \cap Keys PROVE Known(d, k)'
    <3>1. CASE d # c
      BY <2>2, <2>3, <2>5, <3>1 DEF AskInv, Known, FilesStay
    <3>2. CASE d = c
      BY <2>2, <2>3, <2>5, <3>2 DEF AskInv, Known, FilesStay, Acts, Stored
    <3> QED BY <3>1, <3>2
  <2>6. ASSUME NEW d \in Tasks, call'[d].stage = "asking" PROVE call'[d].key \notin answered'[d]
    <3>1. call'[d].key \in Keys
      BY <1>0, <2>6, Moved DEF CacheInv, LlmTypeOK, CallStages
    <3>2. CASE d # c
      BY <2>2, <2>3, <2>6, <3>2 DEF AskInv, NothingAskedTwice
    <3>3. CASE d = c
      BY <2>2, <2>3, <2>6, <3>1, <3>3 DEF AskInv, NothingAskedTwice, Known, Acts, Stored
    <3> QED BY <3>2, <3>3
  <2> QED BY <1>0, <2>4, <2>5, <2>6 DEF AskInv, NothingAskedTwice
<1> QED BY <1>1, <1>2

\* No caller that lives on waits again for an answer it already had, for any number of
\* callers and questions (the cache of OllamaClient).
THEOREM NothingIsAskedTwice == CheckedSpec => []NothingAskedTwice
<1>1. CheckedInit => AskInv
  BY CacheInvInit
     DEF CheckedInit, LlmInit, AskInv, Waiting, Known, NothingAskedTwice, NoCall
<1>2. AskInv /\ [CheckedNext]_checkedVars => AskInv'
  BY AskInvNext
<1>3. AskInv => NothingAskedTwice
  BY DEF AskInv
<1> QED BY <1>1, <1>2, <1>3, PTL DEF CheckedSpec
=============================================================================
