---------------------------- MODULE LlmProperties ----------------------------
(***************************************************************************)
(* What callers of the language model can rely on.                         *)
(***************************************************************************)
EXTENDS LlmEnrich

VARIABLES
    shared,     \* the keys whose answer two callers were storing at one time
    answered    \* the questions each caller, since it was started, got an answer to
checkedVars == <<allVars, shared, answered>>

Storing(k) == {c \in Tasks : call[c].stage \in {"writing", "publishing"} /\ call[c].key = k}

CheckedInit == LlmInit /\ shared = {} /\ answered = [c \in Tasks |-> {}]
CheckedNext ==
    /\ LlmNext
    /\ shared' = shared \union {k \in Keys : \E c, d \in Storing(k)' : c # d}
    /\ answered' = [c \in Tasks |->
                       IF Die(c) THEN {}
                       ELSE IF Answered(c) THEN answered[c] \union {call[c].key}
                       ELSE answered[c]]
CheckedSpec == CheckedInit /\ [][CheckedNext]_checkedVars
CheckedFairSpec == CheckedSpec /\ \A c \in Tasks : WF_<<vars, llmVars>>(CallerStep(c))

-----------------------------------------------------------------------------
(***************************************************************************)
(* The file <key>.json can be read, whoever died while an answer was being *)
(* stored: only two callers that store the answer of one key at one time,  *)
(* through the one file <key>.json.part, can leave something there that is *)
(* no JSON.  (It then stays for good: see the README.)                     *)
(***************************************************************************)
CacheTornOnlyWhenShared ==
    \A k \in Keys : cache[k] \in Unreadable => k \in shared

(***************************************************************************)
(* A caller that lives on never waits again for an answer it already had:  *)
(* the answer is in the cache even if storing it failed because another    *)
(* caller had moved the file (OllamaClient: a restart "does not compute    *)
(* again" what was generated).                                             *)
(***************************************************************************)
NothingAskedTwice ==
    \A c \in Tasks : call[c].stage = "asking" => call[c].key \notin answered[c]

(***************************************************************************)
(* While nothing dies and Redis is there, each token is in the list or     *)
(* with a caller that is waiting for the model.  One who was refused or    *)
(* got an error, who stores an answer, finds it invalid or is about to ask *)
(* again has given its token back (generate_json's `with` ends before the  *)
(* answer is stored, and its caller's second attempt takes a new one).     *)
(***************************************************************************)
Asking == {c \in Tasks : call[c].stage = "asking" /\ task[c] = "running"}
TokensComeBack ==
    ~faulty /\ marker /\ At("seeding") = {} => tokens + Cardinality(Asking) = Slots

\* Every request ends, with a result, a fallback or an LLMOutputError: two
\* attempts, each bounded by the timeouts of BLPOP and of the POST, although a
\* dead process never returns its slot.
RequestEnds == \A c \in Tasks : Active(c) ~> ~Active(c)
=============================================================================
