---------------------------- MODULE MCCvLibrary ----------------------------
(***************************************************************************)
(* Instance of CvLibrary for TLC.                                          *)
(***************************************************************************)
EXTENDS CvLibrary

MCScenarios == {sc \in ScenarioType : sc.backend = "memory" => sc.oneReplica}

(* The least in which an upload can hang: nothing dies, one replica.       *)
OneReplica == {[backend |-> "remote", oneReplica |-> TRUE, aborts |-> FALSE]}
=============================================================================
