----------------------------- MODULE MCLlmEnrich -----------------------------
(***************************************************************************)
(* An instance of the language model's callers for TLC.  With faults the   *)
(* model always replies well (an attempt may fail all the same); that it   *)
(* replies something else is looked at without faults.                     *)
(***************************************************************************)
EXTENDS LlmProperties

MCInit == CheckedInit /\ (faulty => model = {"good"})
MCSpec == /\ MCInit /\ [][CheckedNext]_checkedVars
          /\ \A c \in Tasks : WF_<<vars, llmVars>>(CallerStep(c))
=============================================================================
