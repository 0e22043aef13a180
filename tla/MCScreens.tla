------------------------------ MODULE MCScreens ------------------------------
(***************************************************************************)
(* An instance of a browser session for TLC.  A bound: the queue delivers  *)
(* the message of the first job as often as it likes, of others once.      *)
(***************************************************************************)
EXTENDS Screens, TLC

MCNext == Next /\ \A j \in Jobs : j > 1 => message'[j] < 2
MCSpec == Init /\ [][MCNext]_sessionVars /\ Fairness
=============================================================================
