--------------------------- MODULE MCAnalysisRuns ---------------------------
(***************************************************************************)
(* Instances of AnalysisRuns for TLC.                                      *)
(***************************************************************************)
EXTENDS AnalysisRuns, TLC

CONSTANTS u1, c1, r1, r2, m1, m2, w1, w2

(* Two runs of one user on one CV, one message each.                       *)
TwoRunsOwner == r1 :> u1 @@ r2 :> u1
TwoRunsCv    == r1 :> c1 @@ r2 :> c1
TwoRunsMsg   == m1 :> r1 @@ m2 :> r2

OneRunOneMsg == m1 :> r1

(* Workers are interchangeable, and so are the two runs together with      *)
(* their messages.                                                         *)
TwoRunsSymmetry ==
  Permutations(Workers) \cup {r1 :> r2 @@ r2 :> r1 @@ m1 :> m2 @@ m2 :> m1}

(* One run, two messages that name it.                                     *)
OneRunOwner == r1 :> u1
OneRunCv    == r1 :> c1
OneRunMsg   == m1 :> r1 @@ m2 :> r1

Listing == {"l1"}
=============================================================================
