--------------------------- MODULE MCRunExecution ---------------------------
(***************************************************************************)
(* Instances of RunExecution for TLC.                                      *)
(***************************************************************************)
EXTENDS ExecutionInRun

UrlsOfTwo   == {"a", "b"}
UrlsOfThree == {"a", "b", "c"}

(* A call that is not charged, and one that costs a token.                 *)
FreeOrPaid == {0, 1}
=============================================================================
