-------------------------- MODULE ReviewLifecycle ---------------------------
(***************************************************************************)
(* What the review workflow promises about one document, as the head of    *)
(* review/service.py and the comments of review/models.py describe it:     *)
(* which phases follow one another, that ingestion starts only from        *)
(* ready_to_ingest, that every attempt is settled, and that an ingested    *)
(* document keeps its one paper for ever.  Blocks, requests and copies are *)
(* not part of it.                                                         *)
(***************************************************************************)
CONSTANTS PaperIds, NoPaper

VARIABLES phase, status, paper
vars == <<phase, status, paper>>

Init == phase = "none" /\ status = "analyzed" /\ paper = NoPaper

Upload == /\ phase = "none"
          /\ phase' \in {"layout_review", "ready_to_ingest"}
          /\ UNCHANGED <<status, paper>>

Edge == {<<"layout_review", "ocr_review">>, <<"ocr_review", "ready_to_ingest">>,
         <<"ocr_review", "layout_review">>, <<"ready_to_ingest", "ocr_review">>}

ChangePhase == /\ <<phase, phase'>> \in Edge
               /\ UNCHANGED <<status, paper>>

StartIngest == /\ phase = "ready_to_ingest"
               /\ status \in {"analyzed", "failed"}
               /\ status' = "ingesting"
               /\ UNCHANGED <<phase, paper>>

Succeed == /\ status = "ingesting"
           /\ status' = "ingested"
           /\ paper' \in PaperIds
           /\ UNCHANGED phase

Fail == /\ status = "ingesting"
        /\ status' = "failed"
        /\ UNCHANGED <<phase, paper>>

Next == Upload \/ ChangePhase \/ StartIngest \/ Succeed \/ Fail

Spec == Init /\ [][Next]_vars /\ WF_vars(Succeed \/ Fail)
=============================================================================
