----------------------------- MODULE SearchScreen -----------------------------
(***************************************************************************)
(* The search tab of one browser session (ui/app.py, _render_search to     *)
(* _set_suggestion; ui/client.py) and the suggestion session that the API  *)
(* keeps for it (search/sessions.py).                                      *)
(*                                                                         *)
(* Whether a query finds its keyword is the language model's choice, so    *)
(* the same query may be answered by a result one time and by suggestions  *)
(* the next.  Of the output options only their value as a whole matters.   *)
(* SearchCache has the server's side of a search.                          *)
(***************************************************************************)
CONSTANTS
    Queries,    \* what is typed; Blank is the empty query
    Blank,
    Options,    \* compositions of the output
    AllOfIt,    \* the one that every new search begins with
    Nothing

ASSUME QueriesAssumption == Blank \in Queries
ASSUME OptionsAssumption == AllOfIt \in Options
ASSUME NothingAssumption == Nothing \notin [query : Queries, options : Options]

VARIABLES
    form,        \* session_state: "query" and the options
    result,      \* the query and the options the result on the screen answers
    suggestion,  \* the suggestions on the screen answer these
    offer,       \* what the API's suggestion session holds
    failed       \* history: the last form sent got no answer
searchVars == <<form, result, suggestion, offer, failed>>

Question == [query : Queries, options : Options]
SearchTypeOK == /\ form \in Question
                /\ result \in Question \union {Nothing}
                /\ suggestion \in Question \union {Nothing}
                /\ offer \in Question \union {Nothing}
                /\ failed \in BOOLEAN

Ask(query, options) == [query |-> query, options |-> options]

SearchInit == /\ form = Ask(Blank, AllOfIt)
              /\ result = Nothing /\ suggestion = Nothing /\ offer = Nothing
              /\ failed = FALSE

-----------------------------------------------------------------------------
(* The answers to the question in the form, as it is after the step *)

SetResult(question) == result' = question /\ suggestion' = Nothing
SetSuggestion(question) == result' = Nothing /\ suggestion' = question

\* Wrong on purpose: the session stores the query alone.
OfferQuery(question) == offer' = Ask(question.query, AllOfIt)
\* SuggestionSessionStore.create
OfferFor(question) == offer' = question

RunSearch(question) ==
    \/ question.query # Blank /\ SetResult(question) /\ UNCHANGED offer /\ failed' = FALSE
    \/ question.query # Blank /\ SetSuggestion(question) /\ OfferFor(question) /\ failed' = FALSE
    \/ failed' = TRUE /\ UNCHANGED <<result, suggestion, offer>>

-----------------------------------------------------------------------------
\* The form of the query: the options go back to their defaults.
SubmitQuery(query) ==
    /\ form' = Ask(query, AllOfIt)
    /\ RunSearch(form')

\* _render_output_options: the same query once more
Rebuild(options) ==
    /\ result # Nothing
    /\ form' = [form EXCEPT !.options = options]
    /\ RunSearch(form')

\* POST /search/select
Select ==
    /\ suggestion # Nothing
    /\ IF offer = Nothing THEN UNCHANGED <<result, suggestion>> ELSE SetResult(offer)
    /\ UNCHANGED <<form, offer, failed>>

\* The session expires, or dies with the API process that has it.
SessionEnds == offer # Nothing /\ offer' = Nothing /\ UNCHANGED <<form, result, suggestion, failed>>

SearchNext == \/ \E q \in Queries : SubmitQuery(q)
              \/ \E o \in Options : Rebuild(o)
              \/ Select
=============================================================================
