------------------------------- MODULE MCSpa -------------------------------
(***************************************************************************)
(* Instance of Spa for TLC: a run that is complete when the tab is opened  *)
(* and one that does not exist yet.                                        *)
(***************************************************************************)
EXTENDS Spa, TLC

CONSTANTS r1, r2

MCFirstStatus == (r1 :> "complete") @@ (r2 :> "absent")
=============================================================================
