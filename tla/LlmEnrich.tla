------------------------------ MODULE LlmEnrich ------------------------------
(***************************************************************************)
(* Asking the language model (ingest/llm_enrich.py): OllamaClient with its *)
(* file cache, and the two attempts that enrich_paragraph,                 *)
(* extract_paper_keywords, summarize_table and summarize_abstract make.    *)
(*                                                                         *)
(* A caller is a Celery worker or the API at one of those functions.  It   *)
(* shares with the others the heavy-task slots (module HeavySlot, whose    *)
(* Tasks are the callers) and the cache directory.  OCR runs compete for   *)
(* the slots as further callers would.  A file is what one reads from it:  *)
(*   an answer   written in one piece                                      *)
(*   "empty"     opened for writing, nothing written yet                   *)
(*   "mixed"     part of one answer, or parts of two: no JSON              *)
(* The stages of a caller:                                                 *)
(*   lookup    about to look for the cache file                            *)
(*   asking    in heavy_task_slot, or waiting for the POST                 *)
(*   opening, writing, publishing   the three steps that store an answer   *)
(* Answers that differ only in their words are one answer.                 *)
(***************************************************************************)
EXTENDS HeavySlot

CONSTANTS
    Kinds,     \* the functions called: "paragraph", "keywords" or "summary"
    Requests,  \* what they are called about
    Models,    \* what the model may reply: any of these sets
    Warm       \* settings.llm_temperature >= 0.2

ASSUME KindsAssumption == Kinds \subseteq {"paragraph", "keywords", "summary"}
\* JSON that is "good"; "chinese", with such characters in it; "short", too few
\* keywords or no summary; "list", no object
Replies == {"good", "chinese", "short", "list"}
ASSUME ModelsAssumption == Models \subseteq SUBSET Replies
ASSUME WarmAssumption == Warm \in BOOLEAN

VARIABLES
    call,     \* what each caller is doing
    cache,    \* the file <key>.json
    part,     \* the file <key>.json.part
    handle,   \* which of them a caller's open file is: it follows the renames
    model     \* what the model may reply in this behaviour; never changes
llmVars == <<call, cache, part, handle>>
allVars == <<vars, llmVars, model>>

-----------------------------------------------------------------------------
Unreadable == {"empty", "mixed"}
Contents == {"none"} \union Unreadable \union Replies

Prompts == {"plain", "strict"}
Temperatures == {"base", "raised"}
Keys == [kind : Kinds, about : Requests, prompt : Prompts, temperature : Temperatures]

Places == {"closed", "part", "cache", "gone"}   \* "gone": replaced by a newer file
CallStages == {"idle", "lookup", "asking", "opening", "writing", "publishing"}
NoCall == [stage |-> "idle"]
Calls == {NoCall} \union
         [stage : CallStages \ {"idle"}, attempt : 0..1, key : Keys, reply : Replies \union {"none"}]

\* _get_retry_temperature
TemperatureOf(attempt) == IF attempt = 0 \/ Warm THEN "base" ELSE "raised"

LlmTypeOK == /\ call \in [Tasks -> Calls]
             /\ cache \in [Keys -> Contents] /\ part \in [Keys -> Contents]
             /\ handle \in [Tasks -> Places]
             /\ model \in Models

LlmInit == /\ Init
           /\ call = [c \in Tasks |-> NoCall]
           /\ cache = [k \in Keys |-> "none"] /\ part = [k \in Keys |-> "none"]
           /\ handle = [c \in Tasks |-> "closed"]
           /\ model \in Models

Active(c) == call[c].stage # "idle"

-----------------------------------------------------------------------------
(* What an attempt makes of the outcome of generate_json *)

\* the check after it raises: _validate_korean_output, `.get` on a list,
\* and in enrich_paragraph the model that wants a summary
Raises(kind, outcome) ==
    \/ outcome \in {"error", "TypeError", "chinese", "list"}
    \/ kind = "paragraph" /\ outcome = "short"

Lookup(attempt, key) == [stage |-> "lookup", attempt |-> attempt, key |-> key, reply |-> "none"]

\* The first attempt is over without a result.  Only an exception changes the
\* prompt.
Again(key, outcome) ==
    Lookup(1, [key EXCEPT !.prompt = IF Raises(key.kind, outcome) THEN "strict" ELSE @,
                          !.temperature = TemperatureOf(1)])

\* Wrong on purpose: an attempt is repeated until it succeeds.
AfterUntilGood(key, attempt, outcome) ==
    IF outcome = "good" THEN NoCall ELSE Again(key, outcome)
\* A second attempt that raises a TypeError is made again without the
\* temperature (_generate_json_with_retry).  After it there is a result, a
\* fallback or an LLMOutputError.
After(key, attempt, outcome) ==
    IF outcome = "good" THEN NoCall
    ELSE IF attempt = 0 THEN Again(key, outcome)
    ELSE IF outcome = "TypeError" /\ key.temperature = "raised"
         THEN Lookup(1, [key EXCEPT !.temperature = "base"])
    ELSE NoCall

Finish(c, outcome) ==
    /\ call' = [call EXCEPT ![c] = After(call[c].key, call[c].attempt, outcome)]
    /\ handle' = [handle EXCEPT ![c] = "closed"]

Proceed(c, from, to) ==
    call[c].stage = from /\ call' = [call EXCEPT ![c] = [@ EXCEPT !.stage = to]]

-----------------------------------------------------------------------------
(* generate_json *)

Call(c) ==
    /\ call[c].stage = "idle" /\ task[c] = "idle"
    /\ \E kind \in Kinds, about \in Requests :
          call' = [call EXCEPT ![c] = Lookup(0, [kind |-> kind, about |-> about, prompt |-> "plain",
                                                 temperature |-> TemperatureOf(0)])]
    /\ UNCHANGED <<vars, cache, part, handle>>

\* a hit: json.loads and _coerce_json_dict
OutcomeOfHit(found) ==
    IF found \in Unreadable THEN "error" ELSE IF found = "list" THEN "TypeError" ELSE found

Hit(c) ==
    /\ call[c].stage = "lookup" /\ cache[call[c].key] # "none"
    /\ Finish(c, OutcomeOfHit(cache[call[c].key]))
    /\ UNCHANGED <<vars, cache, part>>

Miss(c) ==
    /\ Proceed(c, "lookup", "asking") /\ cache[call[c].key] = "none"
    /\ PassUnlimited(c) \/ Connect(c)
    /\ UNCHANGED <<cache, part, handle>>

Queue(c) ==
    /\ call[c].stage = "asking"
    /\ Mark(c) \/ Seed(c) \/ Take(c)
    /\ UNCHANGED llmVars

\* HeavyTaskBusyError
Busy(c) ==
    /\ call[c].stage = "asking" /\ GiveUp(c)
    /\ Finish(c, "error")
    /\ UNCHANGED <<cache, part>>

\* the slot is given back, whatever became of the POST
Replied(c) == call[c].stage = "asking" /\ (Return(c) \/ EndUnlimited(c))

Answered(c) ==
    /\ Replied(c)
    /\ \E a \in model :
          call' = [call EXCEPT ![c] = [@ EXCEPT !.stage = "opening", !.reply = a]]
    /\ UNCHANGED <<cache, part, handle>>
\* Wrong on purpose: an exception in the block leaves it without the RPUSH.
FailedKeepingSlot(c) ==
    /\ call[c].stage = "asking"
    /\ Go(c, "running", "idle") \/ Go(c, "unlimited", "idle")
    /\ Finish(c, "error")
    /\ UNCHANGED <<marker, tokens, cache, part>>
\* a timeout, an HTTP error, or content that is no JSON
Failed(c) ==
    /\ Replied(c)
    /\ Finish(c, "error")
    /\ UNCHANGED <<cache, part>>

-----------------------------------------------------------------------------
(* The answer is stored, checked or not *)

\* Wrong on purpose: the answer is written to the cache file itself.
OpenInPlace(c) ==
    /\ Proceed(c, "opening", "writing")
    /\ cache' = [cache EXCEPT ![call[c].key] = "empty"]
    /\ handle' = [handle EXCEPT ![c] = "cache"]
    /\ UNCHANGED <<vars, part>>
\* open(..., "w") creates the file or empties the one that is there
Open(c) ==
    /\ Proceed(c, "opening", "writing")
    /\ part' = [part EXCEPT ![call[c].key] = "empty"]
    /\ handle' = [handle EXCEPT ![c] = "part"]
    /\ UNCHANGED <<vars, cache>>

\* written over what is there: something longer shows its end
Over(old, new) == IF old = "empty" THEN {new} ELSE {new, "mixed"}

WriteInto(c, contents) ==
    LET k == call[c].key
    IN  CASE handle[c] = "part" -> /\ \E x \in contents[part[k]] : part' = [part EXCEPT ![k] = x]
                                   /\ UNCHANGED cache
          [] handle[c] = "cache" -> /\ \E x \in contents[cache[k]] : cache' = [cache EXCEPT ![k] = x]
                                    /\ UNCHANGED part
          [] OTHER -> UNCHANGED <<cache, part>>

\* written and closed
Write(c) ==
    /\ Proceed(c, "writing", "publishing")
    /\ WriteInto(c, [old \in Contents |-> Over(old, call[c].reply)])
    /\ handle' = [handle EXCEPT ![c] = "closed"]
    /\ UNCHANGED vars

\* os.replace: whoever has one of the two files open keeps it
Renamed(k) ==
    [d \in Tasks |-> IF handle[d] = "closed" THEN "closed"
                       ELSE IF call[d].key # k THEN handle[d]
                       ELSE IF handle[d] = "part" THEN "cache" ELSE "gone"]

\* Wrong on purpose: the temporary file is removed, not renamed.
RemovePart(c) ==
    LET k == call[c].key
    IN  /\ call[c].stage = "publishing" /\ part[k] # "none"
        /\ part' = [part EXCEPT ![k] = "none"]
        /\ Finish(c, call[c].reply)
        /\ UNCHANGED <<vars, cache>>
\* the answer is returned and judged
Publish(c) ==
    LET k == call[c].key
    IN  /\ call[c].stage = "publishing" /\ part[k] # "none"
        /\ cache' = [cache EXCEPT ![k] = part[k]]
        /\ part' = [part EXCEPT ![k] = "none"]
        /\ handle' = Renamed(k)
        /\ call' = [call EXCEPT ![c] = After(k, call[c].attempt, call[c].reply)]
        /\ UNCHANGED vars
\* somebody else has moved the file: FileNotFoundError
PublishNothing(c) ==
    /\ call[c].stage = "publishing" /\ part[call[c].key] = "none"
    /\ Finish(c, "error")
    /\ UNCHANGED <<vars, cache, part>>

-----------------------------------------------------------------------------
\* The process dies: nothing, all or a part of what was to be written is in the file.
Die(c) ==
    /\ faulty /\ Active(c)
    /\ call' = [call EXCEPT ![c] = NoCall]
    /\ handle' = [handle EXCEPT ![c] = "closed"]
    /\ IF task[c] = "idle" THEN UNCHANGED vars ELSE Break(c)
    /\ \/ UNCHANGED <<cache, part>>
       \/ /\ call[c].stage = "writing"
          /\ WriteInto(c, [old \in Contents |-> {"mixed"}])

\* Redis does not answer: an exception like any other
LoseRedis(c) ==
    /\ call[c].stage = "asking" /\ Break(c)
    /\ Finish(c, "error")
    /\ UNCHANGED <<cache, part>>

-----------------------------------------------------------------------------
Ask(c) == Miss(c) \/ Queue(c) \/ Busy(c) \/ Answered(c) \/ Failed(c)
Store(c) == Open(c) \/ Write(c) \/ Publish(c) \/ PublishNothing(c)
CallerStep(c) == Hit(c) \/ Ask(c) \/ Store(c)

LlmNext == /\ \E c \in Tasks : Call(c) \/ CallerStep(c) \/ Die(c) \/ LoseRedis(c)
           /\ UNCHANGED model

LlmSpec == LlmInit /\ [][LlmNext]_allVars

\* Every step of a caller returns: Redis answers, BLPOP and the POST have timeouts.
LlmFairSpec == /\ LlmSpec
               /\ \A c \in Tasks : WF_<<vars, llmVars>>(CallerStep(c))
=============================================================================
