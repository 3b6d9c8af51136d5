-------------------------- MODULE RunFaults_proofs --------------------------
(***************************************************************************)
(* What holds of AnalysisRuns although runs may be executed twice: that    *)
(* nothing is hollow, the carrier of a queued run, the quota.              *)
(***************************************************************************)
EXTENDS AnalysisRuns_proofs, FiniteSetTheorems

-----------------------------------------------------------------------------
(* A worker's step and the promise that nothing is hollow.                 *)
LEMMA WorkerNotHollow ==
  ASSUME TypeInv, NothingHollow, NEW w \in Workers, WorkerStep(w)
  PROVE  NothingHollow'
<1> USE DEF TypeInv, TypeOK, dbVars, IsTerminal, TerminalStatuses
<1>1. CASE ClaimRun(w) \/ BeginScoring(w)
  <2>1. RunAt(w) \in Runs
    BY <1>1, RunAtType DEF ClaimRun, BeginScoring
  <2> QED BY <1>1, <2>1 DEF ClaimRun, BeginScoring, WriteStatus, NothingHollow
<1>2. CASE Finalize(w)
  <2>1. RunAt(w) \in Runs
    BY <1>2, RunAtType DEF Finalize
  <2> DEFINE q == RunAt(w)
  <2>2. /\ completed' = [completed EXCEPT ![q] = TRUE]
        /\ results' = [results EXCEPT ![q] = @ \cup rows[w]]
        /\ emails' = emails
    BY <1>2 DEF Finalize
  <2>3. \/ status' = status
        \/ status' = [status EXCEPT ![q] = IF rows[w] # {} THEN "complete" ELSE "failed"]
    BY <1>2 DEF Finalize, WriteStatus, ResolveTerminalStatus
  <2>4. ASSUME NEW r \in Runs, r # q
        PROVE  /\ status'[r] = status[r] /\ results'[r] = results[r]
               /\ completed'[r] = completed[r]
    BY <2>1, <2>2, <2>3, <2>4
  <2>5. completed'[q] /\ results'[q] = results[q] \cup rows[w]
    BY <2>1, <2>2
  <2>6. status'[q] = "complete" => results'[q] # {}
    BY <2>1, <2>3, <2>5 DEF NothingHollow
  <2>7. emails[q] > 0 => results'[q] # {}
    BY <2>1, <2>5 DEF NothingHollow
  <2> QED BY <2>2, <2>4, <2>5, <2>6, <2>7 DEF NothingHollow
<1>3. CASE Notify(w)
  <2>1. RunAt(w) \in Runs
    BY <1>3, RunAtType DEF Notify
  <2> QED BY <1>3, <2>1 DEF Notify, NothingHollow
<1>4. CASE UNCHANGED <<status, results, completed, emails>>
  BY <1>4 DEF NothingHollow
<1> QED
  BY <1>1, <1>2, <1>3, <1>4 DEF WorkerStep, Receive, LoadRun, LoadCv, Fetch,
     Score, FinalizeRefused, SettleMessage

(* Every step keeps the promise that nothing is hollow.                    *)
LEMMA NextNotHollow ==
  ASSUME TypeInv, NothingHollow, [Next]_vars
  PROVE  NothingHollow'
<1> USE DEF TypeInv, TypeOK, dbVars
<1>1. CASE UNCHANGED <<status, results, completed, emails>>
  BY <1>1 DEF NothingHollow
<1>2. ASSUME NEW p \in Replicas, Persist(p) PROVE NothingHollow'
  <2>1. apiRun[p] \in Runs
    BY <1>2 DEF Persist
  <2> QED BY <1>2, <2>1 DEF Persist, NothingHollow, IsTerminal, TerminalStatuses
<1>3. ASSUME NEW p \in Replicas, ApiStep(p), ~Persist(p) PROVE NothingHollow'
  BY <1>1, <1>3 DEF ApiStep, Admit, Publish, AbortRequest
<1>4. ASSUME NEW w \in Workers, UnexpectedError(w) \/ StopWorker(w)
      PROVE  NothingHollow'
  BY <1>1, <1>4 DEF UnexpectedError, StopWorker
<1>5. CASE \/ \E m \in Messages : ExpireLock(m)
           \/ \E r \in Runs : LeaveWindow(r)
           \/ \E c \in Cvs : DeleteCv(c)
  BY <1>1, <1>5 DEF ExpireLock, LeaveWindow, DeleteCv
<1>6. CASE UNCHANGED vars
  BY <1>1, <1>6 DEF vars
<1> QED BY <1>2, <1>3, <1>4, <1>5, <1>6, WorkerNotHollow DEF Next

(* Under every fault, a double execution included: a complete run and an   *)
(* announced run have results, and a run with results or a terminal status *)
(* has its completed_at.                                                   *)
THEOREM NothingHollowHolds == Spec => []NothingHollow
<1>1. Init => NothingHollow
  BY DEF Init, NothingHollow, IsTerminal, TerminalStatuses
<1>2. TypeInv /\ NothingHollow /\ [Next]_vars => NothingHollow'
  BY NextNotHollow
<1> QED BY <1>1, <1>2, TypeInvariant, PTL DEF Spec

-----------------------------------------------------------------------------
(* The carrier of a queued run.                                            *)

(* Neither a lost request nor an exception swallowed before the claim: the *)
(* two ways a queued run is left with nothing.                             *)
ClaimsAreReached == Faults \cap {"abort_request", "unexpected_error"} = {}

Claimed == {"loadCv", "fetch", "startScoring", "score", "finalize", "notify",
            "settle"}

(* A run is one request's until it is published, a sent message names a    *)
(* row that exists, and a worker past the claim has taken its run out of   *)
(* "queued".                                                               *)
CarrierInv ==
  /\ \A p \in Replicas : apiPc[p] = "admitted" => status[apiRun[p]] = "absent"
  /\ \A p \in Replicas : apiPc[p] = "persisted" => status[apiRun[p]] # "absent"
  /\ \A p, q \in Replicas :
       apiPc[p] # "idle" /\ apiPc[q] # "idle" /\ apiRun[p] = apiRun[q] => p = q
  /\ \A m \in Messages : mstate[m] # "unsent" => status[RunOf[m]] # "absent"
  /\ \A w \in Workers : wpc[w] # "idle" => mstate[wmsg[w]] # "unsent"
  /\ \A w \in Workers : wpc[w] = "claim" => seen[w].status = "queued"
  /\ \A w \in Workers :
       wpc[w] \in Claimed => status[RunAt(w)] \notin {"queued", "absent"}

(* A request hands its queued run over to a message before it ends.        *)
LEMMA ApiCarries ==
  ASSUME ClaimsAreReached, TypeInv, CarrierInv, QueuedRunHasCarrier,
         NEW p \in Replicas, ApiStep(p)
  PROVE  CarrierInv' /\ QueuedRunHasCarrier'
<1> USE DEF TypeInv, TypeOK, QueueTypeOK, dbVars, apiVars, workerVars, localVars,
            queueVars, CarrierInv, QueuedRunHasCarrier, Outstanding, RunAt
<1>1. ASSUME NEW r \in Runs, Admit(p, r)
      PROVE  CarrierInv' /\ QueuedRunHasCarrier'
  BY <1>1, RunsAssumption DEF Admit
<1>2. CASE Persist(p)
  <2>1. /\ apiRun[p] \in Runs
        /\ status' = [status EXCEPT ![apiRun[p]] = "queued"]
        /\ apiPc' = [apiPc EXCEPT ![p] = "persisted"]
        /\ UNCHANGED <<apiRun, mstate, wpc, wmsg, seen>>
        /\ status[apiRun[p]] = "absent"
    BY <1>2 DEF Persist
  <2>2. CarrierInv'
    <3>1. \A r \in Runs : r # apiRun[p] => status'[r] = status[r]
      BY <2>1
    <3>2. \A v \in Workers : wpc[v] \in Claimed => wmsg[v] \in Messages /\ RunAt(v) # apiRun[p]
      BY <2>1 DEF Claimed
    <3>3. \A v \in Workers :
            wpc'[v] \in Claimed => status'[RunAt(v)'] \notin {"queued", "absent"}
      BY <2>1, <3>1, <3>2, RunsAssumption
    <3>4. status'[apiRun[p]] = "queued"
      BY <2>1
    <3>5. \A q \in Replicas : apiPc'[q] # "idle" /\ q # p => apiRun[q] # apiRun[p]
      BY <1>2, <2>1 DEF Persist
    <3> QED BY <2>1, <3>1, <3>3, <3>4, <3>5, RunsAssumption
  <2>3. QueuedRunHasCarrier'
    BY <2>1
  <2> QED BY <2>2, <2>3
<1>3. CASE Publish(p)
  <2>1. PICK ms \in SUBSET {m \in Messages : RunOf[m] = apiRun[p]} :
          ms # {} /\ Send(ms)
    BY <1>3 DEF Publish
  <2>2. /\ mstate' = [m \in Messages |-> IF m \in ms THEN "ready" ELSE mstate[m]]
        /\ apiPc[p] = "persisted" /\ apiRun[p] \in Runs
        /\ apiPc' = [apiPc EXCEPT ![p] = "idle"]
        /\ apiRun' = [apiRun EXCEPT ![p] = NoRun]
        /\ UNCHANGED <<status, wpc, wmsg, seen>>
    BY <1>3, <2>1 DEF Publish, Send, EndRequest
  <2>3. CarrierInv'
    BY <2>1, <2>2, RunsAssumption
  <2>4. QueuedRunHasCarrier'
    <3> SUFFICES ASSUME NEW r \in Runs, status'[r] = "queued"
                 PROVE  \/ \E q \in Replicas : apiPc'[q] = "persisted" /\ apiRun'[q] = r
                        \/ \E m \in Messages : /\ RunOf[m] = r
                                               /\ mstate'[m] \in {"ready", "locked", "dead"}
      OBVIOUS
    <3>1. CASE apiRun[p] = r
      BY <2>1, <2>2, <3>1
    <3>2. CASE apiRun[p] # r
      BY <2>1, <2>2, <3>2
    <3> QED BY <3>1, <3>2
  <2> QED BY <2>3, <2>4
<1>4. CASE AbortRequest(p)
  BY <1>4 DEF AbortRequest, ClaimsAreReached
<1> QED BY <1>1, <1>2, <1>3, <1>4 DEF ApiStep

(* A worker acknowledges a message only when its run is no longer queued.  *)
LEMMA WorkerCarries ==
  ASSUME ClaimsAreReached, TypeInv, CarrierInv, QueuedRunHasCarrier,
         NEW w \in Workers, WorkerStep(w) \/ UnexpectedError(w) \/ StopWorker(w)
  PROVE  CarrierInv' /\ QueuedRunHasCarrier'
<1> USE DEF TypeInv, TypeOK, QueueTypeOK, dbVars, apiVars, workerVars, localVars,
            queueVars, CarrierInv, QueuedRunHasCarrier, Outstanding, Goto
<1>1. ASSUME NEW m \in Messages, Receive(w, m)
      PROVE  CarrierInv' /\ QueuedRunHasCarrier'
  BY <1>1, RunsAssumption DEF Receive, ReceiveLocked, RunAt, Claimed
<1>2. CASE LoadRun(w)
  <2>1. RunAt(w) \in Runs /\ status[RunAt(w)] # "absent"
    BY <1>2, RunAtType DEF LoadRun, RunAt
  <2> QED BY <1>2, <2>1, RunsAssumption DEF LoadRun, LoadRow, CanTransition,
             ValidTransitions, AnalysisRunStatus, RunAt, Claimed
<1>3. ASSUME NEW s \in AnalysisRunStatus \ {"queued"}, WriteStatus(w, s),
             wpc[w] # "idle", wpc[w] # "received",
             wpc[w] = "claim" => s = "scraping",
             NEW step \in Claimed, wpc' = [wpc EXCEPT ![w] = step],
             UNCHANGED <<queueVars, apiVars, wmsg, seen>>
      PROVE  CarrierInv' /\ QueuedRunHasCarrier'
  <2>1. RunAt(w) \in Runs
    BY <1>3, RunAtType
  <2>2. \/ status' = status /\ wpc[w] # "claim"
        \/ status' = [status EXCEPT ![RunAt(w)] = s]
    BY <1>3 DEF WriteStatus
  <2>3. status[RunAt(w)] # "absent"
    BY <1>3 DEF RunAt
  <2>4. \A r \in Runs : status'[r] \in {"queued", "absent"} => status'[r] = status[r]
    BY <1>3, <2>1, <2>2, <2>3 DEF AnalysisRunStatus
  <2>5. \A r \in Runs : status[r] = "absent" => status'[r] = "absent"
    BY <2>1, <2>2, <2>3
  <2>6. status'[RunAt(w)] \notin {"queued", "absent"}
    BY <1>3, <2>1, <2>2 DEF AnalysisRunStatus, WorkerSteps, Handling, Claimed
  <2>7. QueuedRunHasCarrier'
    BY <1>3, <2>4
  <2>8. \A v \in Workers : wpc'[v] # "idle" => RunAt(v)' = RunAt(v) /\ RunAt(v) \in Runs
    BY <1>3, RunAtType DEF RunAt
  <2>9. \A v \in Workers :
          wpc'[v] \in Claimed => status'[RunAt(v)'] \notin {"queued", "absent"}
    <3> SUFFICES ASSUME NEW v \in Workers, wpc'[v] \in Claimed
                 PROVE  status'[RunAt(v)] \notin {"queued", "absent"}
      BY <2>8 DEF Claimed
    <3>1. CASE v = w
      BY <2>6, <3>1
    <3>2. CASE v # w
      BY <1>3, <2>4, <2>8, <3>2 DEF Claimed
    <3> QED BY <3>1, <3>2
  <2>10. CarrierInv'
    BY <1>3, <2>4, <2>5, <2>9, RunsAssumption DEF Claimed
  <2> QED BY <2>7, <2>10
<1>4. CASE ClaimRun(w)
  BY <1>3, <1>4 DEF ClaimRun, AnalysisRunStatus, Claimed
<1>5. CASE BeginScoring(w)
  BY <1>3, <1>5 DEF BeginScoring, AnalysisRunStatus, Claimed
<1>6. CASE Finalize(w)
  BY <1>3, <1>6 DEF Finalize, AnalysisRunStatus, Claimed, ResolveTerminalStatus
<1>7. CASE LoadCv(w) \/ Score(w)
  <2>1. PICK step \in {"fetch", "finalize"} : wpc' = [wpc EXCEPT ![w] = step]
    BY <1>7 DEF LoadCv, Score
  <2>2. /\ wpc[w] \in {"loadCv", "score"}
        /\ \A v \in Workers : v # w => seen'[v] = seen[v]
        /\ UNCHANGED <<status, mstate, apiPc, apiRun, wmsg>>
    BY <1>7 DEF LoadCv, Score, LoadRow
  <2>3. QueuedRunHasCarrier'
    BY <2>2
  <2>4. CarrierInv'
    BY <2>1, <2>2 DEF RunAt, Claimed
  <2> QED BY <2>3, <2>4
<1>8. CASE Fetch(w) \/ FinalizeRefused(w) \/ Notify(w)
  BY <1>8, RunsAssumption DEF Fetch, FinalizeRefused, Notify, RunAt, Claimed
<1>9. CASE SettleMessage(w)
  <2>1. wmsg[w] \in Messages /\ status[RunOf[wmsg[w]]] # "queued"
    BY <1>9 DEF SettleMessage, RunAt, Claimed
  <2>2. /\ mstate' = mstate \/ mstate' = [mstate EXCEPT ![wmsg[w]] = "completed"]
        /\ wpc' = [wpc EXCEPT ![w] = "idle"]
        /\ wmsg' = [wmsg EXCEPT ![w] = NoMessage]
        /\ seen' = [seen EXCEPT ![w] = NoRow]
        /\ UNCHANGED <<status, apiPc, apiRun>>
    BY <1>9 DEF SettleMessage, CompleteMessage, ForgetMessage
  <2>3. QueuedRunHasCarrier'
    BY <2>1, <2>2
  <2>4. \A v \in Workers : wpc'[v] # "idle" =>
          v # w /\ wpc'[v] = wpc[v] /\ wmsg'[v] = wmsg[v] /\ seen'[v] = seen[v]
    BY <2>2
  <2>5. \A m \in Messages : mstate[m] = "unsent" <=> mstate'[m] = "unsent"
    BY <1>9, <2>1, <2>2 DEF SettleMessage
  <2>6. CarrierInv'
    BY <2>2, <2>4, <2>5 DEF RunAt, Claimed
  <2> QED BY <2>3, <2>6
<1>10. CASE UnexpectedError(w)
  BY <1>10, RunsAssumption DEF UnexpectedError, RunAt, Claimed, ClaimsAreReached
<1>11. CASE StopWorker(w)
  BY <1>11, RunsAssumption DEF StopWorker, OrphanLocks, ForgetMessage, RunAt, Claimed
<1> QED BY <1>1, <1>2, <1>4, <1>5, <1>6, <1>7, <1>8, <1>9, <1>10, <1>11 DEF WorkerStep

(* Every step keeps a carrier for each queued run.                         *)
LEMMA NextCarries ==
  ASSUME ClaimsAreReached, TypeInv, CarrierInv, QueuedRunHasCarrier, [Next]_vars
  PROVE  CarrierInv' /\ QueuedRunHasCarrier'
<1> USE DEF dbVars, apiVars, workerVars, localVars, queueVars
<1>1. CASE UNCHANGED vars
  BY <1>1 DEF vars, CarrierInv, QueuedRunHasCarrier, Outstanding, RunAt
<1>2. ASSUME NEW m \in Messages, ExpireLock(m)
      PROVE  CarrierInv' /\ QueuedRunHasCarrier'
  BY <1>2 DEF ExpireLock, LockRunsOut, CarrierInv, QueuedRunHasCarrier,
     Outstanding, RunAt, TypeInv, TypeOK, QueueTypeOK
<1>3. CASE (\E r \in Runs : LeaveWindow(r)) \/ (\E c \in Cvs : DeleteCv(c))
  BY <1>3 DEF LeaveWindow, DeleteCv, CarrierInv, QueuedRunHasCarrier,
     Outstanding, RunAt
<1> QED BY <1>1, <1>2, <1>3, ApiCarries, WorkerCarries DEF Next

(* Unless a request dies between commit and publish, or an exception is    *)
(* swallowed before the claim, a queued run is on its way to a worker or   *)
(* its message was dead-lettered, although workers stop, locks expire and  *)
(* messages are sent twice.                                                *)
THEOREM QueuedRunHasCarrierHolds ==
  ASSUME ClaimsAreReached
  PROVE  Spec => []QueuedRunHasCarrier
<1>1. Init => CarrierInv /\ QueuedRunHasCarrier
  BY DEF Init, QueueInit, CarrierInv, QueuedRunHasCarrier, Claimed
<1>2. TypeInv /\ CarrierInv /\ QueuedRunHasCarrier /\ [Next]_vars
      => CarrierInv' /\ QueuedRunHasCarrier'
  BY NextCarries
<1> QED BY <1>1, <1>2, TypeInvariant, PTL DEF Spec

-----------------------------------------------------------------------------
(* Requests between decision and insert.                                   *)

(* There are finitely many API replicas.                                   *)
FiniteReplicas == IsFiniteSet(Replicas)

(* Requests are decided one after another.                                 *)
SingleReplica == \A p, q \in Replicas : p = q

(* A single replica, counted.                                              *)
LEMMA SingleReplicaIsCounted ==
  ASSUME SingleReplica
  PROVE  FiniteReplicas /\ Cardinality(Replicas) \in {0, 1}
<1>1. CASE Replicas = {}
  BY <1>1, FS_EmptySet DEF FiniteReplicas
<1>2. ASSUME NEW p \in Replicas PROVE FiniteReplicas /\ Cardinality(Replicas) = 1
  <2>1. Replicas = {p}
    BY DEF SingleReplica
  <2> QED BY <2>1, FS_Singleton DEF FiniteReplicas
<1> QED BY <1>1, <1>2

(* The replicas that have admitted a run of the user and are about to      *)
(* insert it.                                                              *)
Admitted(u) == {p \in Replicas : apiPc[p] = "admitted" /\ OwnerOf[apiRun[p]] = u}

(* There are never more of them than replicas.                             *)
LEMMA AdmittedIsFinite ==
  ASSUME FiniteReplicas, NEW u
  PROVE  /\ IsFiniteSet(Admitted(u))
         /\ Cardinality(Admitted(u)) \in Nat
         /\ Cardinality(Admitted(u)) <= Cardinality(Replicas)
<1>1. Admitted(u) \subseteq Replicas
  BY DEF Admitted
<1> QED BY <1>1, FS_Subset, FS_CardinalityType DEF FiniteReplicas

(* An admission adds a replica that was idle, so there was room for it.    *)
LEMMA AdmitAdds ==
  ASSUME FiniteReplicas, TypeInv, NEW p \in Replicas, NEW r \in Runs, Admit(p, r)
  PROVE  /\ Cardinality(Admitted(OwnerOf[r])') = Cardinality(Admitted(OwnerOf[r])) + 1
         /\ Cardinality(Admitted(OwnerOf[r])') <= Cardinality(Replicas)
         /\ \A u : u # OwnerOf[r] => Admitted(u)' = Admitted(u)
<1> DEFINE o == OwnerOf[r]
<1>1. /\ apiPc[p] = "idle"
      /\ apiPc' = [apiPc EXCEPT ![p] = "admitted"]
      /\ apiRun' = [apiRun EXCEPT ![p] = r]
  BY DEF Admit
<1>2. Admitted(o)' = Admitted(o) \cup {p} /\ p \notin Admitted(o)
  BY <1>1 DEF Admitted, TypeInv, TypeOK
<1>3. Cardinality(Admitted(o)') = Cardinality(Admitted(o)) + 1
  BY <1>2, AdmittedIsFinite, FS_AddElement
<1>4. Cardinality(Admitted(o)') <= Cardinality(Replicas)
  <2>1. Admitted(o)' \subseteq Replicas
    BY DEF Admitted
  <2> QED BY <2>1, FS_Subset DEF FiniteReplicas
<1>5. ASSUME NEW u, u # o PROVE Admitted(u)' = Admitted(u)
  BY <1>1, <1>5 DEF Admitted, TypeInv, TypeOK
<1> QED BY <1>3, <1>4, <1>5

(* The insert takes the replica out again.                                 *)
LEMMA PersistRemoves ==
  ASSUME FiniteReplicas, TypeInv, NEW p \in Replicas, Persist(p), NEW u
  PROVE  /\ OwnerOf[apiRun[p]] = u =>
              /\ Cardinality(Admitted(u)') + 1 = Cardinality(Admitted(u))
              /\ Cardinality(Admitted(u)') \in Nat
         /\ OwnerOf[apiRun[p]] # u => Admitted(u)' = Admitted(u)
<1>1. /\ apiPc[p] = "admitted"
      /\ apiPc' = [apiPc EXCEPT ![p] = "persisted"]
      /\ apiRun' = apiRun
  BY DEF Persist
<1>2. CASE OwnerOf[apiRun[p]] = u
  <2>1. Admitted(u)' = Admitted(u) \ {p} /\ p \in Admitted(u)
    BY <1>1, <1>2 DEF Admitted, TypeInv, TypeOK
  <2>2. /\ Cardinality(Admitted(u)') = Cardinality(Admitted(u)) - 1
        /\ Cardinality(Admitted(u)') \in Nat
    BY <2>1, AdmittedIsFinite, FS_RemoveElement, FS_CardinalityType
  <2>3. Cardinality(Admitted(u)) \in Nat
    BY AdmittedIsFinite
  <2> QED BY <1>2, <2>2, <2>3
<1>3. CASE OwnerOf[apiRun[p]] # u
  BY <1>1, <1>3 DEF Admitted, TypeInv, TypeOK
<1> QED BY <1>2, <1>3

(* Steps of the workers and ends of requests admit nothing.                *)
LEMMA AdmittedShrinks ==
  ASSUME FiniteReplicas, NEW u,
         \A p \in Replicas :
           apiPc'[p] = "admitted" => apiPc[p] = "admitted" /\ apiRun'[p] = apiRun[p]
  PROVE  /\ Admitted(u)' \subseteq Admitted(u)
         /\ Cardinality(Admitted(u)') \in Nat
         /\ Cardinality(Admitted(u)') <= Cardinality(Admitted(u))
<1>1. Admitted(u)' \subseteq Admitted(u)
  BY DEF Admitted
<1> QED BY <1>1, AdmittedIsFinite, FS_Subset, FS_CardinalityType

-----------------------------------------------------------------------------
(* The rolling quota.                                                      *)

(* A user's runs whose created_at is still in the window.                  *)
Window(u) == {r \in Runs : OwnerOf[r] = u /\ inWindow[r]}

(* The window together with what is about to be added to it: every replica *)
(* but one may have decided on a window that others were about to fill.    *)
Filling(u) == Cardinality(Window(u)) + Cardinality(Admitted(u))

(* The window holds committed, never cancelled rows; it is finite; and it  *)
(* is filled to the limit at most, plus one run per further replica.       *)
QuotaInv ==
  /\ \A r \in Runs : status[r] # "cancelled"
  /\ \A r \in Runs : inWindow[r] => status[r] # "absent"
  /\ \A u \in Users \ Unlimited :
       /\ IsFiniteSet(Window(u))
       /\ Filling(u) = 0 \/ Filling(u) < DailyRunLimit + Cardinality(Replicas)

(* The numbers the invariant speaks of.                                    *)
LEMMA QuotaNumbers ==
  ASSUME FiniteReplicas, QuotaInv, NEW u \in Users \ Unlimited
  PROVE  /\ Cardinality(Window(u)) \in Nat
         /\ Cardinality(Admitted(u)) \in Nat
         /\ Cardinality(Replicas) \in Nat
         /\ DailyRunLimit \in Nat
  BY AdmittedIsFinite, FS_CardinalityType, RunsAssumption
  DEF QuotaInv, FiniteReplicas

(* Counting the snapshot's rows is counting the window.                    *)
LEMMA WindowIsCounted ==
  ASSUME QuotaInv, NEW u
  PROVE  RunsInWindow(u) = Cardinality(Window(u))
<1>1. {r \in RunsOfUser(u) : inWindow[r] /\ status[r] # "cancelled"} = Window(u)
  BY DEF QuotaInv, RunsOfUser, Window
<1> QED BY <1>1 DEF RunsInWindow

(* The inserted row takes the place its request had.                       *)
LEMMA PersistKeepsQuota ==
  ASSUME FiniteReplicas, TypeInv, QuotaInv, NEW p \in Replicas, Persist(p)
  PROVE  QuotaInv'
<1> USE DEF TypeInv, TypeOK
<1>1. /\ apiRun[p] \in Runs /\ apiPc[p] = "admitted"
      /\ status' = [status EXCEPT ![apiRun[p]] = "queued"]
      /\ inWindow' = [inWindow EXCEPT ![apiRun[p]] = TRUE]
  BY DEF Persist
<1>2. \A r \in Runs : /\ status'[r] # "cancelled"
                      /\ inWindow'[r] => status'[r] # "absent"
  BY <1>1 DEF QuotaInv
<1>3. ASSUME NEW u \in Users \ Unlimited
      PROVE  /\ IsFiniteSet(Window(u)')
             /\ \/ Filling(u)' = 0
                \/ Filling(u)' < DailyRunLimit + Cardinality(Replicas)
  <2>1. CASE OwnerOf[apiRun[p]] = u
    <3>1. Window(u)' = Window(u) \cup {apiRun[p]}
      BY <1>1, <2>1 DEF Window
    <3>2. IsFiniteSet(Window(u))
      BY DEF QuotaInv
    <3>3. /\ IsFiniteSet(Window(u)')
          /\ Cardinality(Window(u)') \in Nat
          /\ Cardinality(Window(u)') <= Cardinality(Window(u)) + 1
      <4>1. /\ IsFiniteSet(Window(u) \cup {apiRun[p]})
            /\ \/ Cardinality(Window(u) \cup {apiRun[p]}) = Cardinality(Window(u))
               \/ Cardinality(Window(u) \cup {apiRun[p]}) = Cardinality(Window(u)) + 1
        BY <3>2, FS_AddElement
      <4> QED BY <3>1, <3>2, <4>1, FS_CardinalityType
    <3>4. /\ Cardinality(Admitted(u)') + 1 = Cardinality(Admitted(u))
          /\ Cardinality(Admitted(u)') \in Nat
      BY <2>1, PersistRemoves
    <3>5. Filling(u) < DailyRunLimit + Cardinality(Replicas)
      BY <3>4, QuotaNumbers DEF QuotaInv, Filling
    <3> QED BY <3>3, <3>4, <3>5, QuotaNumbers DEF Filling
  <2>2. CASE OwnerOf[apiRun[p]] # u
    <3>1. Window(u)' = Window(u)
      BY <1>1, <2>2 DEF Window
    <3>2. Admitted(u)' = Admitted(u)
      BY <2>2, PersistRemoves
    <3> QED BY <3>1, <3>2 DEF QuotaInv, Filling
  <2> QED BY <2>1, <2>2
<1> QED BY <1>2, <1>3 DEF QuotaInv

(* The decision that admits a request finds the window below the limit;    *)
(* only the other replicas may have admitted requests besides.             *)
LEMMA AdmitKeepsQuota ==
  ASSUME FiniteReplicas, TypeInv, QuotaInv,
         NEW p \in Replicas, NEW r \in Runs, Admit(p, r)
  PROVE  QuotaInv'
<1>1. \A u : Window(u)' = Window(u)
  BY DEF Admit, dbVars, Window
<1>2. OwnerOf[r] \notin Unlimited => Cardinality(Window(OwnerOf[r])) < DailyRunLimit
  BY WindowIsCounted DEF Admit, MayStart, CanStart
<1>3. UNCHANGED <<status, inWindow>>
  BY DEF Admit, dbVars
<1>4. ASSUME NEW u \in Users \ Unlimited
      PROVE  \/ Filling(u)' = 0
             \/ Filling(u)' < DailyRunLimit + Cardinality(Replicas)
  <2>1. CASE u = OwnerOf[r]
    <3>1. Cardinality(Window(u)') < DailyRunLimit
      BY <1>1, <1>2, <2>1
    <3>2. /\ Cardinality(Admitted(u)') = Cardinality(Admitted(u)) + 1
          /\ Cardinality(Admitted(u)') <= Cardinality(Replicas)
      BY <2>1, AdmitAdds
    <3> QED BY <1>1, <3>1, <3>2, QuotaNumbers DEF Filling
  <2>2. CASE u # OwnerOf[r]
    <3>1. Admitted(u)' = Admitted(u)
      BY <2>2, AdmitAdds
    <3> QED BY <1>1, <3>1 DEF QuotaInv, Filling
  <2> QED BY <2>1, <2>2
<1> QED BY <1>1, <1>3, <1>4 DEF QuotaInv

(* Steps that admit nothing and add nothing to the window.                 *)
LEMMA OtherKeepsQuota ==
  ASSUME FiniteReplicas, QuotaInv,
         \A r \in Runs : inWindow'[r] => inWindow[r],
         \A p \in Replicas :
           apiPc'[p] = "admitted" => apiPc[p] = "admitted" /\ apiRun'[p] = apiRun[p],
         \A r \in Runs :
           status'[r] = status[r] \/ status'[r] \notin {"absent", "cancelled"}
  PROVE  QuotaInv'
<1>1. ASSUME NEW u \in Users \ Unlimited
      PROVE  /\ IsFiniteSet(Window(u)')
             /\ \/ Filling(u)' = 0
                \/ Filling(u)' < DailyRunLimit + Cardinality(Replicas)
  <2>1. Window(u)' \subseteq Window(u)
    BY DEF Window
  <2>2. /\ IsFiniteSet(Window(u)')
        /\ Cardinality(Window(u)') \in Nat
        /\ Cardinality(Window(u)') <= Cardinality(Window(u))
    BY <2>1, FS_Subset, FS_CardinalityType DEF QuotaInv
  <2>3. /\ Cardinality(Admitted(u)') \in Nat
        /\ Cardinality(Admitted(u)') <= Cardinality(Admitted(u))
    BY AdmittedShrinks
  <2>4. Filling(u) = 0 \/ Filling(u) < DailyRunLimit + Cardinality(Replicas)
    BY DEF QuotaInv
  <2> QED BY <2>2, <2>3, <2>4, QuotaNumbers DEF Filling
<1> QED BY <1>1 DEF QuotaInv

(* Every step keeps the quota.                                             *)
LEMMA NextKeepsQuota ==
  ASSUME FiniteReplicas, TypeInv, QuotaInv, [Next]_vars
  PROVE  QuotaInv'
<1> USE DEF dbVars, apiVars, workerVars
<1>1. CASE UNCHANGED vars
  BY <1>1, OtherKeepsQuota DEF vars
<1>2. ASSUME NEW p \in Replicas, ApiStep(p) PROVE QuotaInv'
  <2>1. CASE Publish(p) \/ AbortRequest(p)
    <3>1. /\ apiPc' = [apiPc EXCEPT ![p] = "idle"]
          /\ apiRun' = [apiRun EXCEPT ![p] = NoRun]
          /\ UNCHANGED <<status, inWindow>>
      BY <2>1 DEF Publish, AbortRequest, EndRequest
    <3> QED BY <3>1, OtherKeepsQuota DEF TypeInv, TypeOK
  <2> QED BY <1>2, <2>1, AdmitKeepsQuota, PersistKeepsQuota DEF ApiStep
<1>3. ASSUME NEW w \in Workers, NEW s \in AnalysisRunStatus \ {"cancelled"},
             WriteStatus(w, s), UNCHANGED <<inWindow, apiPc, apiRun>>
      PROVE  QuotaInv'
  BY <1>3, OtherKeepsQuota DEF WriteStatus, AnalysisRunStatus, TypeInv, TypeOK
<1>4. ASSUME NEW w \in Workers,
             WorkerStep(w) \/ UnexpectedError(w) \/ StopWorker(w)
      PROVE  QuotaInv'
  <2>1. CASE ClaimRun(w) \/ BeginScoring(w) \/ Finalize(w)
    BY <1>3, <2>1 DEF ClaimRun, BeginScoring, Finalize, ResolveTerminalStatus,
                      AnalysisRunStatus
  <2>2. CASE UNCHANGED <<status, inWindow, apiPc, apiRun>>
    BY <2>2, OtherKeepsQuota
  <2> QED BY <1>4, <2>1, <2>2 DEF WorkerStep, Receive, LoadRun, LoadCv, Fetch,
             Score, FinalizeRefused, Notify, SettleMessage, UnexpectedError,
             StopWorker
<1>5. CASE (\E m \in Messages : ExpireLock(m)) \/ (\E c \in Cvs : DeleteCv(c))
  BY <1>5, OtherKeepsQuota DEF ExpireLock, DeleteCv
<1>6. ASSUME NEW r \in Runs, LeaveWindow(r) PROVE QuotaInv'
  <2>1. /\ \A q \in Runs : inWindow'[q] => inWindow[q]
        /\ UNCHANGED <<status, apiPc, apiRun>>
    BY <1>6 DEF LeaveWindow, TypeInv, TypeOK
  <2> QED BY <2>1, OtherKeepsQuota
<1> QED BY <1>1, <1>2, <1>4, <1>5, <1>6 DEF Next

(* The quota's invariant holds in every reachable state.                   *)
LEMMA QuotaInvariant ==
  ASSUME FiniteReplicas
  PROVE  Spec => []QuotaInv
<1>1. Init => QuotaInv
  <2> SUFFICES ASSUME Init PROVE QuotaInv
    OBVIOUS
  <2>1. \A u : Window(u) = {} /\ Admitted(u) = {}
    BY DEF Init, Window, Admitted
  <2>2. \A u : IsFiniteSet(Window(u)) /\ Filling(u) = 0
    BY <2>1, FS_EmptySet DEF Filling
  <2>3. \A r \in Runs : status[r] = "absent" /\ ~inWindow[r]
    BY DEF Init
  <2> QED BY <2>2, <2>3 DEF QuotaInv
<1>2. TypeInv /\ QuotaInv /\ [Next]_vars => QuotaInv'
  BY NextKeepsQuota
<1> QED BY <1>1, <1>2, TypeInvariant, PTL DEF Spec

(* With one API replica the quota holds for any number of accounts, runs   *)
(* and workers and under every fault: aborted requests, stopped workers    *)
(* and runs executed twice never let a standard account exceed it.         *)
THEOREM QuotaRespectedHolds ==
  ASSUME SingleReplica
  PROVE  Spec => []QuotaRespected
<1>1. FiniteReplicas /\ Cardinality(Replicas) \in {0, 1}
  BY SingleReplicaIsCounted
<1>2. QuotaInv => QuotaRespected
  <2> SUFFICES ASSUME QuotaInv, NEW u \in Users \ Unlimited
               PROVE  RunsInWindow(u) <= DailyRunLimit
    BY DEF QuotaRespected
  <2> QED BY <1>1, WindowIsCounted, QuotaNumbers DEF QuotaInv, Filling
<1> QED BY <1>1, <1>2, QuotaInvariant, PTL

(* What several replicas, which decide on windows the others are about to  *)
(* fill, can do to the quota: one run too many for each further replica.   *)
QuotaExceededAtMost(n) ==
  \A u \in Users \ Unlimited : RunsInWindow(u) <= DailyRunLimit + n

(* The two replicas the API is scaled to never let a standard account have *)
(* more than one run above the limit, and n + 1 replicas at most n, again  *)
(* under every fault.                                                      *)
THEOREM QuotaOverrunIsBounded ==
  ASSUME FiniteReplicas, NEW n \in Nat, Cardinality(Replicas) = n + 1
  PROVE  Spec => []QuotaExceededAtMost(n)
<1>1. QuotaInv => QuotaExceededAtMost(n)
  <2> SUFFICES ASSUME QuotaInv, NEW u \in Users \ Unlimited
               PROVE  RunsInWindow(u) <= DailyRunLimit + n
    BY DEF QuotaExceededAtMost
  <2> QED BY WindowIsCounted, QuotaNumbers DEF QuotaInv, Filling
<1> QED BY <1>1, QuotaInvariant, PTL
=============================================================================
