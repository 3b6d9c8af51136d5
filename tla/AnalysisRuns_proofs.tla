------------------------- MODULE AnalysisRuns_proofs -------------------------
(***************************************************************************)
(* Theorems about AnalysisRuns, for every value of the constants.          *)
(***************************************************************************)
EXTENDS AnalysisRuns, TLAPS

(* TypeOK with what makes it inductive: only a message that may still be   *)
(* delivered is ready, a busy worker has a message, a request past its     *)
(* admission has a run.                                                    *)
TypeInv ==
  /\ TypeOK
  /\ \A m \in Messages :
       mstate[m] \in {"unsent", "ready"} => deliveries[m] < MaxDeliveryCount
  /\ \A m \in Messages : mstate[m] = "unsent" => deliveries[m] = 0
  /\ \A w \in Workers : wpc[w] # "idle" => wmsg[w] \in Messages
  /\ \A p \in Replicas : apiPc[p] # "idle" => apiRun[p] \in Runs

(* The empty system is well typed.                                         *)
LEMMA InitTypeInv == Init => TypeInv
  BY QueueAssumption
  DEF Init, QueueInit, TypeInv, TypeOK, QueueTypeOK, MessageStates, NoRow,
      CvStates, LoadedRow, ApiSteps, WorkerSteps, Handling

(* Every action of the API keeps the types.                                *)
LEMMA ApiTypeInv ==
  ASSUME TypeInv, NEW p \in Replicas, ApiStep(p)
  PROVE  TypeInv'
<1> USE DEF TypeInv, TypeOK, QueueTypeOK, dbVars, apiVars, localVars,
            workerVars, queueVars, ApiSteps, CvStates
<1>1. ASSUME NEW r \in Runs, Admit(p, r) PROVE TypeInv'
  BY <1>1 DEF Admit
<1>2. CASE Persist(p)
  BY <1>2 DEF Persist, AnalysisRunStatus
<1>3. CASE Publish(p)
  BY <1>3 DEF Publish, Send, EndRequest, MessageStates
<1>4. CASE AbortRequest(p)
  BY <1>4 DEF AbortRequest, EndRequest
<1> QED BY <1>1, <1>2, <1>3, <1>4 DEF ApiStep

(* The run a busy worker is about is one of Runs.                          *)
LEMMA RunAtType ==
  ASSUME TypeInv, NEW w \in Workers, wpc[w] # "idle"
  PROVE  RunAt(w) \in Runs
  BY RunsAssumption DEF TypeInv, RunAt

(* Every action of a worker keeps the types.                               *)
LEMMA WorkerTypeInv ==
  ASSUME TypeInv, NEW w \in Workers,
         WorkerStep(w) \/ UnexpectedError(w) \/ StopWorker(w)
  PROVE  TypeInv'
<1> USE DEF TypeInv, TypeOK, QueueTypeOK, dbVars, apiVars, localVars,
            workerVars, queueVars, LoadedRow, WorkerSteps, Handling
<1>1. ASSUME NEW m \in Messages, Receive(w, m) PROVE TypeInv'
  BY <1>1, QueueAssumption DEF Receive, ReceiveLocked, Goto, MessageStates
<1>2. CASE LoadRun(w)
  BY <1>2, RunAtType, RunsAssumption DEF LoadRun, LoadRow, Goto
<1>3. CASE ClaimRun(w)
  BY <1>3, RunAtType, RunsAssumption DEF ClaimRun, WriteStatus, Goto, AnalysisRunStatus
<1>4. CASE LoadCv(w)
  BY <1>4, RunAtType, RunsAssumption DEF LoadCv, LoadRow, Goto
<1>5. CASE Fetch(w)
  BY <1>5, RunAtType, RunsAssumption DEF Fetch, MergedListings, Successes, Goto
<1>6. CASE BeginScoring(w)
  BY <1>6, RunAtType, RunsAssumption DEF BeginScoring, WriteStatus, Goto, AnalysisRunStatus
<1>7. CASE Score(w)
  BY <1>7, RunAtType, RunsAssumption DEF Score, LoadRow, Goto
<1>8. CASE Finalize(w)
  BY <1>8, RunAtType, RunsAssumption DEF Finalize, WriteStatus, WriteSourceLog, ResolveTerminalStatus, Goto, AnalysisRunStatus
<1>9. CASE FinalizeRefused(w)
  BY <1>9, RunAtType, RunsAssumption DEF FinalizeRefused, Goto
<1>10. CASE Notify(w)
  <2>1. RunAt(w) \in Runs
    BY <1>10, RunAtType DEF Notify
  <2>2. emails' \in [Runs -> Nat]
    BY <1>10, <2>1 DEF Notify
  <2> QED BY <1>10, <2>2 DEF Notify, Goto
<1>11. CASE SettleMessage(w)
  BY <1>11 DEF SettleMessage, CompleteMessage, ForgetMessage, NoRow, Goto,
               HoldsLock, MessageStates
<1>12. CASE UnexpectedError(w)
  BY <1>12, RunAtType, RunsAssumption DEF UnexpectedError, Goto
<1>13. CASE StopWorker(w)
  BY <1>13, RunAtType, RunsAssumption DEF StopWorker, OrphanLocks, ForgetMessage, NoRow, Goto
<1> QED BY <1>1, <1>2, <1>3, <1>4, <1>5, <1>6, <1>7, <1>8, <1>9, <1>10, <1>11, <1>12, <1>13 DEF WorkerStep

(* The broker's and the user's actions keep the types.                     *)
LEMMA EnvironmentTypeInv ==
  ASSUME TypeInv,
         \/ \E m \in Messages : ExpireLock(m)
         \/ \E r \in Runs : LeaveWindow(r)
         \/ \E c \in Cvs : DeleteCv(c)
  PROVE  TypeInv'
<1> USE DEF TypeInv, TypeOK, QueueTypeOK, dbVars, apiVars, localVars,
            workerVars, queueVars
<1>1. ASSUME NEW m \in Messages, ExpireLock(m) PROVE TypeInv'
  BY <1>1 DEF ExpireLock, LockRunsOut, MessageStates
<1>2. ASSUME NEW r \in Runs, LeaveWindow(r) PROVE TypeInv'
  BY <1>2 DEF LeaveWindow
<1>3. ASSUME NEW c \in Cvs, DeleteCv(c) PROVE TypeInv'
  BY <1>3 DEF DeleteCv, CvStates
<1> QED BY <1>1, <1>2, <1>3

(* Every step keeps the types.                                             *)
LEMMA NextTypeInv == TypeInv /\ [Next]_vars => TypeInv'
<1> SUFFICES ASSUME TypeInv, [Next]_vars PROVE TypeInv'
  OBVIOUS
<1>1. CASE UNCHANGED vars
  BY <1>1 DEF vars, TypeInv, TypeOK, QueueTypeOK, dbVars, apiVars, localVars,
              workerVars, queueVars
<1>2. CASE Next
  BY <1>2, ApiTypeInv, WorkerTypeInv, EnvironmentTypeInv DEF Next
<1> QED BY <1>1, <1>2

(* The strengthened type invariant holds throughout.                       *)
LEMMA TypeInvariant == Spec => []TypeInv
<1>1. Init => TypeInv
  BY InitTypeInv
<1>2. TypeInv /\ [Next]_vars => TypeInv'
  BY NextTypeInv
<1> QED BY <1>1, <1>2, PTL DEF Spec

(* Type correctness of the API, database, queue and worker state, under    *)
(* every fault: in particular no message is delivered more than            *)
(* MaxDeliveryCount times.                                                 *)
THEOREM TypeCorrect == Spec => []TypeOK
<1>1. TypeInv => TypeOK
  BY DEF TypeInv
<1> QED BY <1>1, TypeInvariant, PTL
=============================================================================
