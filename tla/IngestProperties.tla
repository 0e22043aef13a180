--------------------------- MODULE IngestProperties --------------------------
(***************************************************************************)
(* The properties of concurrent ingestion.                                 *)
(***************************************************************************)
EXTENDS IngestPipeline

VARIABLE overlapped   \* whether two papers have been under way at one time
checkedVars == <<vars, overlapped>>

Busy(r) == run[r].at \notin Ended /\ ~InStage(r, 1, "start")
OneBusy == \A q, r \in Runs : Busy(q) /\ Busy(r) => q = r

CheckedInit == Init /\ overlapped = FALSE
CheckedNext == Next /\ overlapped' = (overlapped \/ ~OneBusy')
CheckedSpec == CheckedInit /\ [][CheckedNext]_checkedVars
CheckedFairSpec == CheckedSpec /\ Fairness

-----------------------------------------------------------------------------

RowsOf(p) == {l[2] : l \in {x \in links : x[1] = p}}

\* A paper that has come through STEP 8 is stored completely and stays so, whatever
\* happens in STEP 9 and whichever other runs fail and are compensated (run).
CompletePaper == \A r \in Runs :
    run[r].stage = 9 => r \in papers /\ r \in embedded /\ r \in paragraphs
                        /\ {r} \X (run[r].related \cap papers) \subseteq relations

\* Keywords that no chain of similar ones connects are told apart.
Apart(S) == \A pair \in Similar : pair[1] \in S => pair[2] \in S
Kin(k, x) == \A S \in SUBSET Keywords : k \in S /\ Apart(S) => x \in S

\* For each keyword of a paper that has come through STEP 8 the paper is linked to a row
\* that a chain of similar keywords connects with it, however the lookups and writes of
\* other runs interleave and however the embeddings of rows drift (upsert_keyword).
KeywordsRepresented == \A r \in Runs :
    run[r].stage = 9 => \A k \in run[r].keywords : \E x \in RowsOf(r) : Kin(k, x)

\* find_keyword_exact: among the rows some paper is linked to, the one of that name
\* before those it is an alias of.
FoundByName(k) == LET found == {x \in SameName(k) : \E p \in papers : <<p, x>> \in links}
                  IN  IF k \in found THEN {k} ELSE found

\* As long as papers are ingested one after the other, a search for a keyword by name or
\* alias leads to rows the paper is linked to, for each keyword of each paper that has come
\* through STEP 8, also after later papers have merged theirs, failed halfway and been
\* compensated (upsert_keyword, find_keyword_exact).
KeywordsFindPaper == ~overlapped =>
    \A r \in Runs : run[r].stage = 9 =>
        \A k \in run[r].keywords : FoundByName(k) # {} /\ FoundByName(k) \subseteq RowsOf(r)

\* No failed run leaves half a paper (pipeline.py:6-9 and 114-118).
NoHalfPaper == \A r \in Runs :
    run[r].at = "failed" /\ r \in papers => run[r].stage = 9

\* A keyword's frequency counts at least the papers linked to it (upsert_keyword and
\* link_paper_keyword are two transactions, and compensation undoes only the second).
FrequencyCoversLinks == \A k \in Keywords :
    Cardinality({p \in papers : <<p, k>> \in links}) <= frequency[k]

\* Every run ends: completes, or fails and is compensated.
RunsEnd == \A r \in Runs : <>(run[r].at \in Ended)

\* Of a paper that has come through STEP 8, processing_jobs has a row "done" and none
\* "failed" for each stage in which the paper has a name; and it names no paper that is
\* gone, whichever deletes cascade meanwhile (repository.py:411-440, 0001_init.sql:70).
JobsTell ==
    /\ \A r \in Runs : run[r].stage = 9 =>
           /\ \A s \in 3..8 : \E j \in jobs : j.paper = r /\ j.stage = s /\ j.status = "done"
           /\ \A j \in jobs : j.paper = r /\ j.status = "failed" => j.stage = 9
    /\ \A j \in jobs : j.paper \in papers \union {NoPaper}
=============================================================================
