-------------------------- MODULE Refinement_proofs --------------------------
(***************************************************************************)
(* AnalysisRuns implements RunLifecycle: every step of the API, the queue  *)
(* and the workers is a step of the lifecycle promised to the run's owner, *)
(* or leaves what the owner sees unchanged.  What follows of it: what is   *)
(* terminal stays so, every move of a status is one the rules allow, a run *)
(* is announced once; and with the quota's invariant, how many active runs *)
(* an account has.  The last part is the safety half of termination: no    *)
(* run is stranded, and each step due brings it nearer to its end.         *)
(***************************************************************************)
EXTENDS SingleExecution_proofs, RunFaults_proofs

LifecycleStep == [Lifecycle!LifecycleNext]_(Lifecycle!lifecycleVars)

(* What no owner sees of a step that is internal to the system.            *)
Stutter == UNCHANGED <<status, results, emails>>

(* An internal step is a stutter of the lifecycle.                         *)
LEMMA StutterIsLifecycleStep == Stutter => LifecycleStep
  BY DEF Stutter, LifecycleStep, Lifecycle!lifecycleVars

(* The committed INSERT is the lifecycle's Submit.                         *)
LEMMA PersistSubmits ==
  ASSUME ExecInv, NEW p \in Replicas, Persist(p)
  PROVE  LifecycleStep
<1>1. apiRun[p] \in Runs
  BY DEF ExecInv, TypeInv, Persist
<1>2. Lifecycle!Submit(apiRun[p])
  BY DEF ExecInv, RequestInv, Persist, Lifecycle!Submit, Lifecycle!Move
<1> QED BY <1>1, <1>2 DEF LifecycleStep, Lifecycle!LifecycleNext

(* The claim finds the run queued: it holds the lock of its only message.  *)
LEMMA ClaimStartsScraping ==
  ASSUME ExecInv, NEW w \in Workers, ClaimRun(w)
  PROVE  LifecycleStep
<1>1. RunAt(w) \in Runs
  BY RunAtType DEF ExecInv, ClaimRun
<1>2. Lifecycle!StartScraping(RunAt(w))
  BY DEF ExecInv, LockInv, ClaimRun, WriteStatus, Lifecycle!StartScraping,
         Lifecycle!Move
<1> QED BY <1>1, <1>2 DEF LifecycleStep, Lifecycle!LifecycleNext

(* The scoring commit finds the run where this worker left it.             *)
LEMMA BeginScoringStartsScoring ==
  ASSUME ExecInv, NEW w \in Workers, BeginScoring(w)
  PROVE  LifecycleStep
<1>1. RunAt(w) \in Runs
  BY RunAtType DEF ExecInv, BeginScoring
<1>2. Lifecycle!StartScoring(RunAt(w))
  BY DEF ExecInv, OwnerInv, BeginScoring, WriteStatus, Lifecycle!StartScoring,
         Lifecycle!Move
<1> QED BY <1>1, <1>2 DEF LifecycleStep, Lifecycle!LifecycleNext

(* The final commit ends the scoring phase with what was scored, or fails  *)
(* the run whose CV was deleted.                                           *)
LEMMA FinalizeFinishes ==
  ASSUME ExecInv, NEW w \in Workers, Finalize(w)
  PROVE  LifecycleStep
<1> DEFINE r == RunAt(w)
<1>1. r \in Runs
  BY RunAtType DEF ExecInv, Finalize
<1>2. status[r] = seen[w].status /\ wpc[w] = "finalize"
  BY DEF ExecInv, OwnerInv, Finalize
<1>3. results[r] = {}  /\ results \in [Runs -> SUBSET Rows]
      /\ rows[w] \in SUBSET Rows
  <2>1. status[r] \in {"scoring", "scraping"}
    BY <1>2 DEF ExecInv, OwnerInv
  <2> QED BY <1>1, <2>1 DEF ExecInv, RowInv, TypeInv, TypeOK
<1>4. CASE seen[w].status = "scoring"
  <2>1. status' = [status EXCEPT ![r] = ResolveTerminalStatus(rows[w] # {})]
    BY <1>4 DEF Finalize, WriteStatus, ResolveTerminalStatus
  <2>2. results' = [results EXCEPT ![r] = rows[w]]
    BY <1>3 DEF Finalize
  <2>3. Lifecycle!FinishScored(r)
    BY <1>2, <1>3, <1>4, <2>1, <2>2
    DEF Finalize, Lifecycle!FinishScored, Lifecycle!Move,
        Lifecycle!ResolveTerminalStatus, ResolveTerminalStatus
  <2> QED BY <1>1, <2>3 DEF LifecycleStep, Lifecycle!LifecycleNext
<1>5. CASE seen[w].status = "scraping" /\ rows[w] = {}
  <2>1. status' = [status EXCEPT ![r] = "failed"]
    BY <1>5 DEF Finalize, WriteStatus, ResolveTerminalStatus
  <2>2. results' = results
    BY <1>3, <1>5 DEF Finalize
  <2>3. Lifecycle!FinishWithoutCv(r)
    BY <1>2, <1>5, <2>1, <2>2
    DEF Finalize, Lifecycle!FinishWithoutCv, Lifecycle!Move
  <2> QED BY <1>1, <2>3 DEF LifecycleStep, Lifecycle!LifecycleNext
<1> QED BY <1>2, <1>4, <1>5 DEF ExecInv, OwnerInv

(* The e-mail is the first one for the run, and the run is complete.       *)
LEMMA NotifyAnnounces ==
  ASSUME ExecInv, NEW w \in Workers, Notify(w)
  PROVE  LifecycleStep
<1>1. RunAt(w) \in Runs
  BY RunAtType DEF ExecInv, Notify
<1>2. CASE UNCHANGED emails
  BY <1>2, StutterIsLifecycleStep DEF Notify, dbVars, Stutter
<1>3. CASE /\ status[RunAt(w)] = "complete"
           /\ emails' = [emails EXCEPT ![RunAt(w)] = @ + 1]
  <2>1. emails[RunAt(w)] = 0
    BY DEF ExecInv, OwnerInv, Notify
  <2>2. Lifecycle!Announce(RunAt(w))
    BY <1>3, <2>1 DEF Notify, dbVars, Lifecycle!Announce
  <2> QED BY <1>1, <2>2 DEF LifecycleStep, Lifecycle!LifecycleNext
<1> QED BY <1>2, <1>3 DEF Notify

(* Every step of the system is a step of the lifecycle.                    *)
LEMMA NextIsLifecycleStep ==
  ASSUME ExecInv, [Next]_vars
  PROVE  LifecycleStep
<1> USE DEF dbVars, Stutter
<1>1. CASE UNCHANGED vars
  BY <1>1, StutterIsLifecycleStep DEF vars
<1>2. ASSUME NEW p \in Replicas, ApiStep(p) PROVE LifecycleStep
  <2>1. ASSUME NEW r \in Runs, Admit(p, r) PROVE LifecycleStep
    BY <2>1, StutterIsLifecycleStep DEF Admit
  <2>2. CASE Persist(p)
    BY <2>2, PersistSubmits
  <2>3. CASE Publish(p)
    BY <2>3, StutterIsLifecycleStep DEF Publish
  <2>4. CASE AbortRequest(p)
    BY <2>4, StutterIsLifecycleStep DEF AbortRequest
  <2> QED BY <1>2, <2>1, <2>2, <2>3, <2>4 DEF ApiStep
<1>3. ASSUME NEW w \in Workers, WorkerStep(w) PROVE LifecycleStep
  <2>1. ASSUME NEW m \in Messages, Receive(w, m) PROVE LifecycleStep
    BY <2>1, StutterIsLifecycleStep DEF Receive
  <2>2. CASE LoadRun(w) \/ LoadCv(w)
    BY <2>2, StutterIsLifecycleStep DEF LoadRun, LoadCv
  <2>3. CASE Fetch(w) \/ Score(w)
    BY <2>3, StutterIsLifecycleStep DEF Fetch, Score
  <2>4. CASE FinalizeRefused(w) \/ SettleMessage(w)
    BY <2>4, StutterIsLifecycleStep DEF FinalizeRefused, SettleMessage
  <2> QED BY <1>3, <2>1, <2>2, <2>3, <2>4, ClaimStartsScraping,
             BeginScoringStartsScoring, FinalizeFinishes, NotifyAnnounces
          DEF WorkerStep
<1>4. ASSUME NEW w \in Workers, UnexpectedError(w) \/ StopWorker(w)
      PROVE  LifecycleStep
  BY <1>4, StutterIsLifecycleStep DEF UnexpectedError, StopWorker
<1>5. ASSUME NEW m \in Messages, ExpireLock(m) PROVE LifecycleStep
  BY <1>5, StutterIsLifecycleStep DEF ExpireLock
<1>6. ASSUME NEW r \in Runs, LeaveWindow(r) PROVE LifecycleStep
  BY <1>6, StutterIsLifecycleStep DEF LeaveWindow
<1>7. ASSUME NEW c \in Cvs, DeleteCv(c) PROVE LifecycleStep
  BY <1>7, StutterIsLifecycleStep DEF DeleteCv
<1> QED BY <1>1, <1>2, <1>3, <1>4, <1>5, <1>6, <1>7 DEF Next

(* With one message per run and its lock held up to the claim, the API,    *)
(* queue and workers together implement the lifecycle promised to the      *)
(* owner: forward only, results with the terminal status in one step, at   *)
(* most one e-mail and only for a complete run.                            *)
THEOREM ImplementsLifecycleHolds ==
  ASSUME OneMessagePerRun
  PROVE  Spec => ImplementsLifecycle
<1>1. Init => Lifecycle!LifecycleInit
  BY DEF Init, Lifecycle!LifecycleInit
<1>2. ExecInv /\ [Next]_vars => [Lifecycle!LifecycleNext]_(Lifecycle!lifecycleVars)
  BY NextIsLifecycleStep DEF LifecycleStep
<1> QED BY <1>1, <1>2, ExecInvariant, PTL
        DEF Spec, ImplementsLifecycle, Lifecycle!LifecycleSpec

-----------------------------------------------------------------------------
(* A lifecycle step leaves a terminal run's status alone.                  *)
LEMMA LifecycleKeepsTerminal ==
  ASSUME TypeInv, LifecycleStep, NEW r \in Runs, IsTerminal(status[r])
  PROVE  status'[r] = status[r]
<1>1. CASE UNCHANGED Lifecycle!lifecycleVars
  BY <1>1 DEF Lifecycle!lifecycleVars
<1>2. ASSUME NEW q \in Runs, NEW from \in {"absent", "queued", "scraping", "scoring"},
             NEW to, Lifecycle!Move(q, from, to)
      PROVE  status'[r] = status[r]
  BY <1>2 DEF Lifecycle!Move, IsTerminal, TerminalStatuses, TypeInv, TypeOK
<1>3. ASSUME NEW q \in Runs, Lifecycle!Announce(q) PROVE status'[r] = status[r]
  BY <1>3 DEF Lifecycle!Announce
<1> QED
  BY <1>1, <1>2, <1>3 DEF LifecycleStep, Lifecycle!LifecycleNext,
     Lifecycle!Submit, Lifecycle!StartScraping, Lifecycle!StartScoring,
     Lifecycle!FinishScored, Lifecycle!FinishWithoutCv

(* The claim of the test suite that complete and failed runs are final is  *)
(* true of the code exactly as far as a run has one message and its lock   *)
(* lasts from receive to claim; without that, TLC finds the counterexample *)
(* (run duplicate_message_reopens_run).                                    *)
THEOREM TerminalIsFinalHolds ==
  ASSUME OneMessagePerRun
  PROVE  Spec => TerminalIsFinal
<1>1. ExecInv /\ [Next]_vars =>
        [\A r \in Runs : IsTerminal(status[r]) => status'[r] = status[r]]_vars
  BY NextIsLifecycleStep, LifecycleKeepsTerminal DEF ExecInv
<1> QED BY <1>1, ExecInvariant, PTL DEF Spec, TerminalIsFinal

-----------------------------------------------------------------------------
(* The active runs of an account.                                          *)

(* A user's runs in an active status.                                      *)
ActiveOf(u) == {r \in Runs : OwnerOf[r] = u /\ IsActive(status[r])}

(* The active runs of a user and those about to be inserted are one per    *)
(* replica at most: a request is admitted on a snapshot without active     *)
(* runs, so whatever is counted besides is in the hands of other replicas. *)
ActiveInv ==
  \A u \in Users :
    /\ IsFiniteSet(ActiveOf(u))
    /\ Cardinality(ActiveOf(u)) + Cardinality(Admitted(u)) <= Cardinality(Replicas)

(* The numbers the invariant speaks of.                                    *)
LEMMA ActiveNumbers ==
  ASSUME FiniteReplicas, ActiveInv, NEW u \in Users
  PROVE  /\ Cardinality(ActiveOf(u)) \in Nat
         /\ Cardinality(Admitted(u)) \in Nat
         /\ Cardinality(Replicas) \in Nat
  BY AdmittedIsFinite, FS_CardinalityType DEF ActiveInv, FiniteReplicas

(* A worker never makes an inactive run active.                            *)
LEMMA WorkerActivatesNothing ==
  ASSUME ExecInv, NEW w \in Workers,
         WorkerStep(w) \/ UnexpectedError(w) \/ StopWorker(w),
         NEW r \in Runs, IsActive(status'[r])
  PROVE  IsActive(status[r])
<1>1. CASE ClaimRun(w) \/ BeginScoring(w) \/ Finalize(w)
  <2>1. RunAt(w) \in Runs
    BY <1>1, RunAtType DEF ExecInv, ClaimRun, BeginScoring, Finalize
  <2>2. IsActive(status[RunAt(w)])
    BY <1>1 DEF ExecInv, LockInv, OwnerInv, ClaimRun, BeginScoring, Finalize,
                IsActive, ActiveStatuses
  <2>3. r # RunAt(w) => status'[r] = status[r]
    BY <1>1, <2>1 DEF ClaimRun, BeginScoring, Finalize, WriteStatus, ExecInv,
                      TypeInv, TypeOK
  <2> QED BY <2>2, <2>3
<1>2. CASE UNCHANGED status
  BY <1>2
<1> QED BY <1>1, <1>2 DEF WorkerStep, Receive, LoadRun, LoadCv, Fetch, Score,
           FinalizeRefused, Notify, SettleMessage, UnexpectedError, StopWorker,
           dbVars

(* Steps that activate and admit nothing.                                  *)
LEMMA OtherKeepsActiveInv ==
  ASSUME FiniteReplicas, ActiveInv,
         \A r \in Runs : IsActive(status'[r]) => IsActive(status[r]),
         \A p \in Replicas :
           apiPc'[p] = "admitted" => apiPc[p] = "admitted" /\ apiRun'[p] = apiRun[p]
  PROVE  ActiveInv'
<1> SUFFICES ASSUME NEW u \in Users
             PROVE  /\ IsFiniteSet(ActiveOf(u)')
                    /\ Cardinality(ActiveOf(u)') + Cardinality(Admitted(u)')
                         <= Cardinality(Replicas)
  BY DEF ActiveInv
<1>1. ActiveOf(u)' \subseteq ActiveOf(u)
  BY DEF ActiveOf
<1>2. /\ IsFiniteSet(ActiveOf(u)')
      /\ Cardinality(ActiveOf(u)') \in Nat
      /\ Cardinality(ActiveOf(u)') <= Cardinality(ActiveOf(u))
  BY <1>1, FS_Subset, FS_CardinalityType DEF ActiveInv
<1>3. /\ Cardinality(Admitted(u)') \in Nat
      /\ Cardinality(Admitted(u)') <= Cardinality(Admitted(u))
  BY AdmittedShrinks
<1> QED BY <1>2, <1>3, ActiveNumbers DEF ActiveInv

(* The decision finds no active run.                                       *)
LEMMA AdmitKeepsActiveInv ==
  ASSUME FiniteReplicas, TypeInv, ActiveInv,
         NEW p \in Replicas, NEW r \in Runs, Admit(p, r)
  PROVE  ActiveInv'
<1>1. \A u : ActiveOf(u)' = ActiveOf(u)
  BY DEF Admit, dbVars, ActiveOf
<1>2. ActiveOf(OwnerOf[r]) = {}
  BY DEF Admit, MayStart, CanStart, HasActiveRun, RunsOfUser, ActiveOf, IsActive,
         ActiveStatuses
<1>3. Cardinality(ActiveOf(OwnerOf[r])) = 0
  BY <1>2, FS_EmptySet
<1>4. /\ Cardinality(Admitted(OwnerOf[r])') <= Cardinality(Replicas)
      /\ Cardinality(Admitted(OwnerOf[r])') \in Nat
  <2>1. OwnerOf[r] \in Users
    BY RunsAssumption
  <2> QED BY <2>1, AdmitAdds, ActiveNumbers
<1>5. \A u : u # OwnerOf[r] => Admitted(u)' = Admitted(u)
  BY AdmitAdds
<1>6. ASSUME NEW u \in Users
      PROVE  Cardinality(ActiveOf(u)') + Cardinality(Admitted(u)')
               <= Cardinality(Replicas)
  <2>1. CASE u = OwnerOf[r]
    BY <1>1, <1>3, <1>4, <2>1
  <2>2. CASE u # OwnerOf[r]
    BY <1>1, <1>5, <2>2 DEF ActiveInv
  <2> QED BY <2>1, <2>2
<1> QED BY <1>1, <1>6 DEF ActiveInv

(* The inserted run takes the place its request had.                       *)
LEMMA PersistKeepsActiveInv ==
  ASSUME FiniteReplicas, TypeInv, ActiveInv, NEW p \in Replicas, Persist(p)
  PROVE  ActiveInv'
<1> SUFFICES ASSUME NEW u \in Users
             PROVE  /\ IsFiniteSet(ActiveOf(u)')
                    /\ Cardinality(ActiveOf(u)') + Cardinality(Admitted(u)')
                         <= Cardinality(Replicas)
  BY DEF ActiveInv
<1>1. /\ apiRun[p] \in Runs
      /\ status' = [status EXCEPT ![apiRun[p]] = "queued"]
  BY DEF Persist, TypeInv
<1>2. CASE OwnerOf[apiRun[p]] = u
  <2>1. ActiveOf(u)' = ActiveOf(u) \cup {apiRun[p]}
    BY <1>1, <1>2 DEF ActiveOf, IsActive, ActiveStatuses, TypeInv, TypeOK
  <2>2. /\ IsFiniteSet(ActiveOf(u) \cup {apiRun[p]})
        /\ \/ Cardinality(ActiveOf(u) \cup {apiRun[p]}) = Cardinality(ActiveOf(u))
           \/ Cardinality(ActiveOf(u) \cup {apiRun[p]}) = Cardinality(ActiveOf(u)) + 1
    BY FS_AddElement DEF ActiveInv
  <2>3. /\ Cardinality(Admitted(u)') + 1 = Cardinality(Admitted(u))
        /\ Cardinality(Admitted(u)') \in Nat
    BY <1>2, PersistRemoves
  <2> QED BY <2>1, <2>2, <2>3, ActiveNumbers DEF ActiveInv
<1>3. CASE OwnerOf[apiRun[p]] # u
  <2>1. ActiveOf(u)' = ActiveOf(u)
    BY <1>1, <1>3 DEF ActiveOf, TypeInv, TypeOK
  <2>2. Admitted(u)' = Admitted(u)
    BY <1>3, PersistRemoves
  <2> QED BY <2>1, <2>2 DEF ActiveInv
<1> QED BY <1>2, <1>3

(* Every step keeps the active runs of a user within the replicas.         *)
LEMMA NextKeepsActiveInv ==
  ASSUME FiniteReplicas, ExecInv, ActiveInv, [Next]_vars
  PROVE  ActiveInv'
<1>1. CASE UNCHANGED vars
  BY <1>1, OtherKeepsActiveInv DEF vars, dbVars, apiVars
<1>2. ASSUME NEW p \in Replicas, ApiStep(p) PROVE ActiveInv'
  <2>1. CASE Publish(p) \/ AbortRequest(p)
    <3>1. /\ apiPc' = [apiPc EXCEPT ![p] = "idle"]
          /\ apiRun' = [apiRun EXCEPT ![p] = NoRun]
          /\ UNCHANGED status
      BY <2>1 DEF Publish, AbortRequest, EndRequest, dbVars
    <3> QED BY <3>1, OtherKeepsActiveInv DEF ExecInv, TypeInv, TypeOK
  <2> QED BY <1>2, <2>1, AdmitKeepsActiveInv, PersistKeepsActiveInv
          DEF ApiStep, ExecInv
<1>3. ASSUME NEW w \in Workers,
             WorkerStep(w) \/ UnexpectedError(w) \/ StopWorker(w)
      PROVE  ActiveInv'
  <2>1. UNCHANGED apiVars
    BY <1>3 DEF WorkerStep, Receive, LoadRun, ClaimRun, LoadCv, Fetch,
       BeginScoring, Score, Finalize, FinalizeRefused, Notify, SettleMessage,
       UnexpectedError, StopWorker
  <2> QED BY <1>3, <2>1, WorkerActivatesNothing, OtherKeepsActiveInv DEF apiVars
<1>4. CASE \/ \E m \in Messages : ExpireLock(m)
           \/ \E r \in Runs : LeaveWindow(r)
           \/ \E c \in Cvs : DeleteCv(c)
  BY <1>4, OtherKeepsActiveInv DEF ExpireLock, LeaveWindow, DeleteCv, dbVars, apiVars
<1> QED BY <1>1, <1>2, <1>3, <1>4 DEF Next

(* The count of active runs holds in every reachable state.                *)
LEMMA ActiveInvariant ==
  ASSUME FiniteReplicas, OneMessagePerRun
  PROVE  Spec => []ActiveInv
<1>1. Init => ActiveInv
  <2> SUFFICES ASSUME Init PROVE ActiveInv
    OBVIOUS
  <2>1. \A u : ActiveOf(u) = {} /\ Admitted(u) = {}
    BY DEF Init, ActiveOf, Admitted, IsActive, ActiveStatuses
  <2>2. Cardinality(Replicas) \in Nat
    BY FS_CardinalityType DEF FiniteReplicas
  <2>3. ASSUME NEW u \in Users
        PROVE  /\ IsFiniteSet(ActiveOf(u))
               /\ Cardinality(ActiveOf(u)) = 0 /\ Cardinality(Admitted(u)) = 0
    BY <2>1, FS_EmptySet
  <2> QED BY <2>2, <2>3 DEF ActiveInv
<1>2. ExecInv /\ ActiveInv /\ [Next]_vars => ActiveInv'
  BY NextKeepsActiveInv
<1> QED BY <1>1, <1>2, ExecInvariant, PTL DEF Spec

(* With a single API replica and one message per run, an account never has *)
(* two active runs, for any number of accounts, runs and workers and       *)
(* whatever the workers do between the decision and the insert.            *)
THEOREM OneActiveRunPerUserHolds ==
  ASSUME SingleReplica, OneMessagePerRun
  PROVE  Spec => []OneActiveRunPerUser
<1>1. FiniteReplicas /\ Cardinality(Replicas) \in {0, 1}
  BY SingleReplicaIsCounted
<1>2. ActiveInv => OneActiveRunPerUser
  <2> SUFFICES ASSUME ActiveInv, NEW r1 \in Runs, NEW r2 \in Runs,
                      OwnerOf[r1] = OwnerOf[r2],
                      IsActive(status[r1]), IsActive(status[r2])
               PROVE  r1 = r2
    BY DEF OneActiveRunPerUser
  <2> DEFINE A == ActiveOf(OwnerOf[r1])
  <2>1. r1 \in A /\ r2 \in A
    BY DEF ActiveOf
  <2>2. OwnerOf[r1] \in Users
    BY RunsAssumption
  <2>3. IsFiniteSet(A) /\ Cardinality(A) \in {0, 1}
    BY <1>1, <2>2, ActiveNumbers DEF ActiveInv
  <2> HIDE DEF A
  <2>4. CASE Cardinality(A) = 0
    <3>1. A = {}
      BY <2>3, <2>4, FS_EmptySet
    <3> QED BY <2>1, <3>1
  <2>5. CASE Cardinality(A) = 1
    <3>1. \E x : A = {x}
      BY <2>3, <2>5, FS_Singleton
    <3> QED BY <2>1, <3>1
  <2> QED BY <2>3, <2>4, <2>5
<1> QED BY <1>1, <1>2, ActiveInvariant, PTL

(* An account's active runs with several replicas.                         *)
ActiveRunsAtMost(n) == \A u \in Users : Cardinality(ActiveOf(u)) <= n

(* What is left of "one concurrent run" with several replicas, which is    *)
(* how the API is deployed: never more active runs of an account than      *)
(* there are replicas.                                                     *)
THEOREM ActiveRunsAreBounded ==
  ASSUME FiniteReplicas, OneMessagePerRun
  PROVE  Spec => []ActiveRunsAtMost(Cardinality(Replicas))
<1>1. ActiveInv => ActiveRunsAtMost(Cardinality(Replicas))
  BY ActiveNumbers DEF ActiveInv, ActiveRunsAtMost
<1> QED BY <1>1, ActiveInvariant, PTL

-----------------------------------------------------------------------------
(* What the unguarded assignments of the pipeline amount to.               *)

(* The one move of a status that _VALID_TRANSITIONS does not list, and the *)
(* insert.                                                                 *)
OtherMoves == { <<"absent", "queued">>, <<"scraping", "failed">> }

(* Only the first of the pipeline's three assignments to status is guarded *)
(* by can_transition; the others rely on where the handler stands.  Every  *)
(* move is nevertheless a pair of _VALID_TRANSITIONS, the insert, or the   *)
(* shortcut of a run whose CV cannot be read.                              *)
OnlyValidMoves ==
  [][\A r \in Runs :
       \/ status'[r] = status[r]
       \/ CanTransition(status[r], status'[r])
       \/ <<status[r], status'[r]>> \in OtherMoves]_vars

(* A step of the lifecycle moves a status along a listed pair.             *)
LEMMA LifecycleMoves ==
  ASSUME TypeInv, LifecycleStep, NEW q \in Runs
  PROVE  \/ status'[q] = status[q]
         \/ CanTransition(status[q], status'[q])
         \/ <<status[q], status'[q]>> \in OtherMoves
<1>1. CASE UNCHANGED Lifecycle!lifecycleVars
  BY <1>1 DEF Lifecycle!lifecycleVars
<1>2. CASE Lifecycle!LifecycleNext
  <2>1. PICK r \in Runs : \/ Lifecycle!Submit(r)
                          \/ Lifecycle!StartScraping(r)
                          \/ Lifecycle!StartScoring(r)
                          \/ Lifecycle!FinishScored(r)
                          \/ Lifecycle!FinishWithoutCv(r)
                          \/ Lifecycle!Announce(r)
    BY <1>2 DEF Lifecycle!LifecycleNext
  <2>2. CASE Lifecycle!Announce(r)
    BY <2>2 DEF Lifecycle!Announce
  <2>3. ASSUME NEW from, NEW to, Lifecycle!Move(r, from, to),
               <<from, to>> \in ValidTransitions \cup OtherMoves
        PROVE  \/ status'[q] = status[q]
               \/ CanTransition(status[q], status'[q])
               \/ <<status[q], status'[q]>> \in OtherMoves
    <3>1. status[r] = from /\ status' = [status EXCEPT ![r] = to]
      BY <2>3 DEF Lifecycle!Move
    <3>2. q # r => status'[q] = status[q]
      BY <3>1 DEF TypeInv, TypeOK
    <3>3. q = r => status'[q] = to
      BY <3>1 DEF TypeInv, TypeOK
    <3> QED BY <2>3, <3>1, <3>2, <3>3 DEF CanTransition
  <2>4. CASE Lifecycle!Submit(r) \/ Lifecycle!StartScraping(r)
    BY <2>3, <2>4 DEF Lifecycle!Submit, Lifecycle!StartScraping, OtherMoves,
                      ValidTransitions
  <2>5. CASE Lifecycle!StartScoring(r) \/ Lifecycle!FinishWithoutCv(r)
    BY <2>3, <2>5 DEF Lifecycle!StartScoring, Lifecycle!FinishWithoutCv,
                      OtherMoves, ValidTransitions
  <2>6. CASE Lifecycle!FinishScored(r)
    <3>1. PICK to \in {"complete", "failed"} : Lifecycle!Move(r, "scoring", to)
      BY <2>6 DEF Lifecycle!FinishScored, Lifecycle!ResolveTerminalStatus
    <3> QED BY <2>3, <3>1 DEF ValidTransitions
  <2> QED BY <2>1, <2>2, <2>4, <2>5, <2>6
<1> QED BY <1>1, <1>2 DEF LifecycleStep

(* The statuses of all runs move along the PRD's lifecycle, plus the one   *)
(* shortcut, whatever the queue redelivers and whenever a worker stops.    *)
THEOREM OnlyValidMovesHolds ==
  ASSUME OneMessagePerRun
  PROVE  Spec => OnlyValidMoves
<1>1. ExecInv /\ [Next]_vars
      => [\A r \in Runs :
            \/ status'[r] = status[r]
            \/ CanTransition(status[r], status'[r])
            \/ <<status[r], status'[r]>> \in OtherMoves]_vars
  BY NextIsLifecycleStep, LifecycleMoves DEF ExecInv
<1> QED BY <1>1, ExecInvariant, PTL DEF Spec, OnlyValidMoves

(* The owner hears of a run at most once, and then finds its results.      *)
AnnouncedOnce ==
  \A r \in Runs :
    /\ emails[r] <= 1
    /\ emails[r] = 1 => status[r] = "complete" /\ results[r] # {}

(* A redelivered message, a crash between the final commit and the e-mail, *)
(* or a lost lock never sends the e-mail of a run a second time.           *)
THEOREM AnnouncedOnceHolds ==
  ASSUME OneMessagePerRun
  PROVE  Spec => []AnnouncedOnce
<1>1. ExecInv => AnnouncedOnce
  BY DEF ExecInv, TypeInv, TypeOK, RowInv, AnnouncedOnce
<1> QED BY <1>1, ExecInvariant, PTL

-----------------------------------------------------------------------------
(* The safety half of EveryRunTerminates: no run is left to nobody, and    *)
(* none is set back.                                                       *)

(* Locks may be lost after the claim; nothing else goes wrong.  These are  *)
(* the faults EveryRunTerminates is checked under.                         *)
OnlyLocksExpire == Faults \subseteq {"lock_expiry"}

(* How many steps a worker that is there has to the commit that ends the   *)
(* run, its own included.                                                  *)
StepsAfter == [finalize |-> 1, score |-> 2, startScoring |-> 3, fetch |-> 4,
               loadCv |-> 5, claim |-> 6, received |-> 7]

(* A worker is going to end the run: it executes it, or is about to claim  *)
(* it under the lock of its message.  (A worker that was handed a message  *)
(* again while its run is being executed is not.)                          *)
Doing(w, r) ==
  /\ wpc[w] \in DOMAIN StepsAfter
  /\ RunAt(w) = r
  /\ Executing(w) \/ (HoldsLock(w, wmsg[w]) /\ status[r] = "queued")

(* The run has ended, or is n steps from its end at most, and each of them *)
(* is due from a worker, from any worker that receives the run's message,  *)
(* or from the request that publishes it.                                  *)
Within(n, r) ==
  \/ IsTerminal(status[r])
  \/ \E w \in Workers : Doing(w, r) /\ StepsAfter[wpc[w]] <= n
  \/ /\ status[r] = "queued"
     /\ n >= 8
     /\ \E m \in Messages : mstate[m] = "ready" /\ RunOf[m] = r
  \/ /\ status[r] = "queued"
     /\ n >= 9
     /\ \E p \in Replicas : apiPc[p] = "persisted" /\ apiRun[p] = r

(* No run is stranded: every row that was committed has ended or has       *)
(* somebody whose step it is; in particular no message of a queued run was *)
(* acknowledged, lost or dead-lettered.                                    *)
NoRunStranded == \A r \in Runs : status[r] # "absent" => Within(9, r)

(* No step sets a run back, the loss of a lock and a redelivery included,  *)
(* and every step of a worker on the run brings it closer to its end.      *)
RunsAdvance ==
  [][\A r \in Runs, n \in Nat :
       /\ Within(n, r) => Within(n, r)'
       /\ (\E w \in Workers :
             Doing(w, r) /\ WorkerStep(w) /\ StepsAfter[wpc[w]] = n + 1)
          => Within(n, r)']_vars

(* The numbers.                                                            *)
LEMMA StepNumbers ==
  /\ StepsAfter["finalize"] = 1 /\ StepsAfter["score"] = 2
  /\ StepsAfter["startScoring"] = 3 /\ StepsAfter["fetch"] = 4
  /\ StepsAfter["loadCv"] = 5 /\ StepsAfter["claim"] = 6
  /\ StepsAfter["received"] = 7
  /\ DOMAIN StepsAfter = {"finalize", "score", "startScoring", "fetch", "loadCv",
                          "claim", "received"}
  BY DEF StepsAfter

(* A worker's step on the run ends it or brings it closer to its end; the  *)
(* final commit is not refused.                                            *)
LEMMA DueStep ==
  ASSUME ExecInv, NEW w \in Workers, NEW r \in Runs, Doing(w, r), WorkerStep(w)
  PROVE  \/ IsTerminal(status'[r])
         \/ Doing(w, r)' /\ StepsAfter[wpc'[w]] < StepsAfter[wpc[w]]
<1> USE StepNumbers
    DEF ExecInv, TypeInv, TypeOK, QueueTypeOK, HoldsLock, RunAt, Executing, Goto,
        dbVars, queueVars, apiVars, localVars, IsTerminal, TerminalStatuses
<1>1. wpc[w] \in DOMAIN StepsAfter /\ RunAt(w) = r
  BY DEF Doing
<1>2. ASSUME NEW m \in Messages, Receive(w, m) PROVE FALSE
  BY <1>1, <1>2 DEF Receive
<1>3. CASE LoadRun(w)
  <2>1. /\ wpc[w] = "received" /\ status[RunAt(w)] = "queued"
        /\ HoldsLock(w, wmsg[w])
    BY <1>1, <1>3 DEF LoadRun, Doing
  <2>2. /\ wpc' = [wpc EXCEPT ![w] = "claim"]
        /\ UNCHANGED <<status, mstate, holder, wmsg>>
    BY <1>3, <2>1 DEF LoadRun, CanTransition, ValidTransitions
  <2>3. wpc'[w] = "claim"
    BY <2>2
  <2> QED BY <1>1, <2>1, <2>2, <2>3 DEF Doing
<1>4. ASSUME NEW step \in {"loadCv", "fetch", "startScoring", "score", "finalize"},
             wpc' = [wpc EXCEPT ![w] = step], wmsg' = wmsg,
             StepsAfter[step] < StepsAfter[wpc[w]]
      PROVE  Doing(w, r)' /\ StepsAfter[wpc'[w]] < StepsAfter[wpc[w]]
  <2>1. wpc'[w] = step
    BY <1>4
  <2> QED BY <1>1, <1>4, <2>1 DEF Doing
<1>5. CASE ClaimRun(w) \/ LoadCv(w) \/ Fetch(w)
  BY <1>4, <1>5 DEF ClaimRun, LoadCv, Fetch
<1>6. CASE BeginScoring(w) \/ Score(w)
  BY <1>4, <1>6 DEF BeginScoring, Score
<1>7. CASE Finalize(w)
  <2>1. PICK s \in {"complete", "failed"} :
          status' = [status EXCEPT ![RunAt(w)] = s]
    BY <1>7 DEF Finalize, WriteStatus, ResolveTerminalStatus, OwnerInv
  <2> QED BY <1>1, <2>1
<1>8. CASE FinalizeRefused(w)
  <2>1. results[RunAt(w)] = {}
    BY <1>1, <1>8 DEF FinalizeRefused, OwnerInv, RowInv
  <2> QED BY <1>8, <2>1 DEF FinalizeRefused
<1>9. CASE Notify(w) \/ SettleMessage(w)
  BY <1>1, <1>9 DEF Notify, SettleMessage
<1> QED BY <1>2, <1>3, <1>5, <1>6, <1>7, <1>8, <1>9 DEF WorkerStep

(* A worker that does not move stays where it is, and before its claim     *)
(* keeps its lock.                                                         *)
LEMMA WaitingWorkerStays ==
  ASSUME OnlyLocksExpire, TypeInv, [Next]_vars, NEW w \in Workers, ~WorkerStep(w),
         wpc[w] # "idle"
  PROVE  /\ wpc'[w] = wpc[w] /\ wmsg'[w] = wmsg[w]
         /\ wpc[w] \in {"received", "claim"} /\ HoldsLock(w, wmsg[w])
              => HoldsLock(w, wmsg[w])'
<1> USE DEF TypeInv, TypeOK, QueueTypeOK, HoldsLock, Goto, dbVars, queueVars, apiVars,
            localVars, workerVars
<1>1. CASE UNCHANGED vars
  BY <1>1 DEF vars
<1>2. ASSUME NEW p \in Replicas, ApiStep(p)
      PROVE  /\ UNCHANGED <<wpc, wmsg, holder>>
             /\ \A m \in Messages : mstate[m] = "locked" => mstate'[m] = "locked"
  BY <1>2 DEF ApiStep, Admit, Persist, Publish, AbortRequest, Send
<1>3. ASSUME NEW v \in Workers, v # w, WorkerStep(v)
      PROVE  /\ wpc'[w] = wpc[w] /\ wmsg'[w] = wmsg[w]
             /\ HoldsLock(w, wmsg[w]) => HoldsLock(w, wmsg[w])'
  <2>1. ASSUME NEW m \in Messages, Receive(v, m)
        PROVE  /\ wpc'[w] = wpc[w] /\ wmsg'[w] = wmsg[w]
               /\ HoldsLock(w, wmsg[w]) => HoldsLock(w, wmsg[w])'
    BY <1>3, <2>1 DEF Receive, ReceiveLocked
  <2>2. CASE SettleMessage(v)
    BY <1>3, <2>2 DEF SettleMessage, CompleteMessage, ForgetMessage
  <2>3. ASSUME NEW step \in WorkerSteps, wpc' = [wpc EXCEPT ![v] = step],
               UNCHANGED <<wmsg, mstate, holder>>
        PROVE  /\ wpc'[w] = wpc[w] /\ wmsg'[w] = wmsg[w]
               /\ HoldsLock(w, wmsg[w]) => HoldsLock(w, wmsg[w])'
    BY <1>3, <2>3
  <2> QED BY <1>3, <2>1, <2>2, <2>3 DEF WorkerStep, LoadRun, ClaimRun, LoadCv, Fetch,
             BeginScoring, Score, Finalize, FinalizeRefused, Notify, WorkerSteps,
             Handling
<1>4. ASSUME NEW v \in Workers, UnexpectedError(v) \/ StopWorker(v) PROVE FALSE
  BY <1>4 DEF UnexpectedError, StopWorker, OnlyLocksExpire
<1>5. ASSUME NEW m \in Messages, ExpireLock(m)
      PROVE  /\ UNCHANGED <<wpc, wmsg>>
             /\ wpc[w] \in {"received", "claim"} /\ HoldsLock(w, wmsg[w])
                  => HoldsLock(w, wmsg[w])'
  BY <1>5 DEF ExpireLock, LockRunsOut, OnlyLocksExpire
<1>6. CASE (\E r \in Runs : LeaveWindow(r)) \/ (\E c \in Cvs : DeleteCv(c))
  BY <1>6 DEF LeaveWindow, DeleteCv
<1> QED BY <1>1, <1>2, <1>3, <1>4, <1>5, <1>6 DEF Next

(* Only a claim takes a run out of "queued".                               *)
LEMMA QueuedUntilClaimed ==
  ASSUME ExecInv, [Next]_vars, NEW r \in Runs,
         status[r] = "queued", status'[r] # "queued"
  PROVE  \E w \in Workers : ClaimRun(w) /\ RunAt(w) = r
<1> USE DEF ExecInv, TypeInv, TypeOK, dbVars
<1>1. ASSUME NEW w \in Workers, BeginScoring(w) \/ Finalize(w) PROVE RunAt(w) # r
  BY <1>1 DEF OwnerInv, BeginScoring, Finalize
<1>2. ASSUME NEW w \in Workers, ClaimRun(w) \/ BeginScoring(w) \/ Finalize(w)
      PROVE  RunAt(w) = r
  BY <1>2, RunAtType DEF ClaimRun, BeginScoring, Finalize, WriteStatus
<1>3. CASE UNCHANGED status
  BY <1>3
<1>4. ASSUME NEW p \in Replicas, Persist(p) PROVE FALSE
  BY <1>4 DEF Persist
<1>5. \E w \in Workers : ClaimRun(w) \/ BeginScoring(w) \/ Finalize(w)
  BY <1>3, <1>4 DEF vars, Next, ApiStep, Admit, Publish, AbortRequest, WorkerStep,
     Receive, LoadRun, LoadCv, Fetch, Score, FinalizeRefused, Notify, SettleMessage,
     UnexpectedError, StopWorker, ExpireLock, LeaveWindow, DeleteCv
<1> QED BY <1>1, <1>2, <1>5

(* A ready message stays ready until a worker that waits for one receives  *)
(* it.                                                                     *)
LEMMA ReadyUntilReceived ==
  ASSUME TypeInv, [Next]_vars, NEW m \in Messages,
         mstate[m] = "ready", mstate'[m] # "ready"
  PROVE  \E w \in Workers : Receive(w, m)
<1> USE DEF TypeInv, TypeOK, QueueTypeOK, queueVars
<1>1. CASE UNCHANGED mstate
  BY <1>1
<1>2. ASSUME NEW p \in Replicas, Publish(p) PROVE FALSE
  BY <1>2 DEF Publish, Send
<1>3. ASSUME NEW w \in Workers, SettleMessage(w) PROVE FALSE
  BY <1>3 DEF SettleMessage, CompleteMessage, HoldsLock
<1>4. ASSUME NEW n \in Messages, ExpireLock(n) PROVE FALSE
  BY <1>4 DEF ExpireLock, LockRunsOut
<1>5. ASSUME NEW w \in Workers, NEW n \in Messages, Receive(w, n) PROVE n = m
  BY <1>5 DEF Receive, ReceiveLocked
<1> QED
  BY <1>1, <1>2, <1>3, <1>4, <1>5 DEF vars, Next, ApiStep, Admit, Persist,
     AbortRequest, WorkerStep, LoadRun, ClaimRun, LoadCv, Fetch, BeginScoring, Score,
     Finalize, FinalizeRefused, Notify, UnexpectedError, StopWorker, OrphanLocks,
     LeaveWindow, DeleteCv

(* A request that inserted its run stays about to publish it until it      *)
(* does.                                                                   *)
LEMMA PersistedUntilPublished ==
  ASSUME OnlyLocksExpire, TypeInv, [Next]_vars, NEW p \in Replicas,
         apiPc[p] = "persisted"
  PROVE  \/ apiPc'[p] = "persisted" /\ apiRun'[p] = apiRun[p]
         \/ \E m \in Messages : mstate'[m] = "ready" /\ RunOf[m] = apiRun[p]
<1> USE DEF TypeInv, TypeOK, QueueTypeOK, apiVars
<1>1. CASE UNCHANGED apiVars
  BY <1>1
<1>2. ASSUME NEW q \in Replicas, q # p, ApiStep(q)
      PROVE  apiPc'[p] = "persisted" /\ apiRun'[p] = apiRun[p]
  BY <1>2 DEF ApiStep, Admit, Persist, Publish, AbortRequest, EndRequest
<1>3. CASE Publish(p)
  <2>1. PICK ms \in SUBSET {m \in Messages : RunOf[m] = apiRun[p]} :
          ms # {} /\ Send(ms)
    BY <1>3 DEF Publish
  <2> QED BY <2>1 DEF Send
<1>4. ASSUME ApiStep(p), ~Publish(p) PROVE FALSE
  BY <1>4 DEF ApiStep, Admit, Persist, AbortRequest, OnlyLocksExpire
<1> QED
  BY <1>1, <1>2, <1>3, <1>4 DEF vars, Next, WorkerStep, Receive, LoadRun, ClaimRun,
     LoadCv, Fetch, BeginScoring, Score, Finalize, FinalizeRefused, Notify,
     SettleMessage, UnexpectedError, StopWorker, ExpireLock, LeaveWindow, DeleteCv

(* No step sets a run back.                                                *)
LEMMA NextKeepsWithin ==
  ASSUME OnlyLocksExpire, ExecInv, [Next]_vars, NEW r \in Runs, NEW n \in Nat,
         Within(n, r)
  PROVE  Within(n, r)'
<1>1. CASE IsTerminal(status[r])
  BY <1>1, NextIsLifecycleStep, LifecycleKeepsTerminal DEF ExecInv, Within
<1>2. ASSUME NEW w \in Workers, Doing(w, r), StepsAfter[wpc[w]] <= n, WorkerStep(w)
      PROVE  Within(n, r)'
  <2>1. CASE IsTerminal(status'[r])
    BY <2>1 DEF Within
  <2>2. CASE Doing(w, r)' /\ StepsAfter[wpc'[w]] < StepsAfter[wpc[w]]
    <3>1. wpc[w] \in DOMAIN StepsAfter /\ wpc'[w] \in DOMAIN StepsAfter
      BY <1>2, <2>2 DEF Doing
    <3>2. StepsAfter[wpc'[w]] <= n
      BY <1>2, <2>2, <3>1, StepNumbers
    <3> QED BY <2>2, <3>2 DEF Within
  <2> QED BY <1>2, <2>1, <2>2, DueStep
<1>3. ASSUME NEW w \in Workers, Executing(w), RunAt(w) = r,
             StepsAfter[wpc[w]] <= n, ~WorkerStep(w)
      PROVE  Within(n, r)'
  <2>1. wpc'[w] = wpc[w] /\ wmsg'[w] = wmsg[w]
    BY <1>3, WaitingWorkerStays DEF Executing, ExecInv
  <2>2. Doing(w, r)'
    BY <1>3, <2>1, StepNumbers DEF Doing, Executing, RunAt
  <2> QED BY <1>3, <2>1, <2>2 DEF Within
<1>4. CASE status[r] = "queued" /\ status'[r] = "queued"
  <2>1. ASSUME NEW w \in Workers, wpc[w] \in {"received", "claim"}, RunAt(w) = r,
               HoldsLock(w, wmsg[w]), StepsAfter[wpc[w]] <= n, ~WorkerStep(w)
        PROVE  Within(n, r)'
    <3>1. wpc'[w] = wpc[w] /\ wmsg'[w] = wmsg[w] /\ HoldsLock(w, wmsg[w])'
      BY <2>1, WaitingWorkerStays DEF ExecInv
    <3>2. Doing(w, r)'
      BY <1>4, <2>1, <3>1, StepNumbers DEF Doing, RunAt
    <3> QED BY <2>1, <3>1, <3>2 DEF Within
  <2>2. ASSUME NEW m \in Messages, mstate[m] = "ready", RunOf[m] = r, n >= 8
        PROVE  Within(n, r)'
    <3>1. CASE mstate'[m] = "ready"
      BY <1>4, <2>2, <3>1 DEF Within
    <3>2. ASSUME NEW w \in Workers, Receive(w, m) PROVE Within(n, r)'
      <4>1. /\ wpc'[w] = "received" /\ wmsg'[w] = m
            /\ mstate'[m] = "locked" /\ holder'[m] = w
        BY <3>2 DEF Receive, ReceiveLocked, Goto, ExecInv, TypeInv, TypeOK, QueueTypeOK
      <4>2. Doing(w, r)'
        BY <1>4, <2>2, <4>1, StepNumbers DEF Doing, RunAt, HoldsLock
      <4>3. StepsAfter[wpc'[w]] <= n
        BY <2>2, <4>1, StepNumbers
      <4> QED BY <4>2, <4>3 DEF Within
    <3> QED BY <2>2, <3>1, <3>2, ReadyUntilReceived DEF ExecInv
  <2>3. ASSUME NEW p \in Replicas, apiPc[p] = "persisted", apiRun[p] = r, n >= 9
        PROVE  Within(n, r)'
    BY <1>4, <2>3, PersistedUntilPublished DEF ExecInv, Within
  <2> QED BY <1>2, <1>3, <1>4, <2>1, <2>2, <2>3, StepNumbers
          DEF Within, Doing, IsTerminal, TerminalStatuses, Executing
<1>5. CASE status[r] = "queued" /\ status'[r] # "queued"
  <2>1. PICK w \in Workers : ClaimRun(w) /\ RunAt(w) = r
    BY <1>5, QueuedUntilClaimed
  <2>2. wpc'[w] = "loadCv" /\ wmsg'[w] = wmsg[w]
    BY <2>1 DEF ClaimRun, Goto, ExecInv, TypeInv, TypeOK
  <2>3. Doing(w, r)' /\ StepsAfter[wpc'[w]] = 5
    BY <2>1, <2>2, StepNumbers DEF Doing, Executing, RunAt
  <2>4. \A v \in Workers : Doing(v, r) => StepsAfter[wpc[v]] >= 6
    BY <1>5, StepNumbers DEF Doing, Executing, ExecInv, OwnerInv
  <2>5. n >= 5
    BY <1>5, <2>4, StepNumbers DEF Within, Doing, IsTerminal, TerminalStatuses
  <2> QED BY <2>3, <2>5 DEF Within
<1>6. CASE status[r] # "queued"
  BY <1>1, <1>2, <1>3, <1>6 DEF Within, Doing
<1> QED BY <1>4, <1>5, <1>6

(* A row is committed by a request that is about to publish its run.       *)
LEMMA NextStrandsNothing ==
  ASSUME OnlyLocksExpire, ExecInv, NoRunStranded, [Next]_vars
  PROVE  NoRunStranded'
<1> SUFFICES ASSUME NEW r \in Runs, status'[r] # "absent" PROVE Within(9, r)'
  BY DEF NoRunStranded
<1>1. CASE status[r] # "absent"
  BY <1>1, NextKeepsWithin DEF NoRunStranded
<1>2. CASE status[r] = "absent"
  <2>1. ASSUME NEW p \in Replicas, Persist(p)
        PROVE  /\ apiRun[p] = r /\ status'[r] = "queued"
               /\ apiPc'[p] = "persisted" /\ apiRun'[p] = r
    BY <1>2, <2>1 DEF Persist, ExecInv, TypeInv, TypeOK
  <2>2. ASSUME NEW w \in Workers, ClaimRun(w) \/ BeginScoring(w) \/ Finalize(w)
        PROVE  FALSE
    <3>1. status[RunAt(w)] # "absent" /\ RunAt(w) \in Runs
      BY <2>2, RunAtType DEF ExecInv, LockInv, OwnerInv, ClaimRun, BeginScoring,
                             Finalize
    <3> QED BY <1>2, <2>2, <3>1 DEF ClaimRun, BeginScoring, Finalize, WriteStatus,
               ExecInv, TypeInv, TypeOK
  <2>3. \E p \in Replicas : Persist(p)
    BY <1>2, <2>2 DEF vars, dbVars, Next, ApiStep, Admit, Publish, AbortRequest,
       WorkerStep, Receive, LoadRun, LoadCv, Fetch, Score, FinalizeRefused, Notify,
       SettleMessage, UnexpectedError, StopWorker, ExpireLock, LeaveWindow, DeleteCv
  <2> QED BY <2>1, <2>3 DEF Within
<1> QED BY <1>1, <1>2

(* As long as nothing but lost locks goes wrong, every run that was        *)
(* committed has ended or has somebody whose step it is, for any number of *)
(* runs, messages and workers.                                             *)
THEOREM NoRunStrandedHolds ==
  ASSUME OnlyLocksExpire
  PROVE  Spec => []NoRunStranded
<1>1. OneMessagePerRun
  BY DEF OnlyLocksExpire, OneMessagePerRun
<1>2. Init => NoRunStranded
  BY DEF Init, NoRunStranded
<1>3. ExecInv /\ NoRunStranded /\ [Next]_vars => NoRunStranded'
  BY NextStrandsNothing
<1> QED BY <1>1, <1>2, <1>3, ExecInvariant, PTL DEF Spec

(* Under the same assumption no run is set back, and a run ends at the     *)
(* latest with the ninth of the steps due for it: with the fairness of     *)
(* workers and requests, this is what EveryRunTerminates rests on.         *)
THEOREM RunsAdvanceHolds ==
  ASSUME OnlyLocksExpire
  PROVE  Spec => RunsAdvance
<1>1. OneMessagePerRun
  BY DEF OnlyLocksExpire, OneMessagePerRun
<1>2. ASSUME ExecInv, [Next]_vars, NEW r \in Runs, NEW n \in Nat,
             NEW w \in Workers, Doing(w, r), WorkerStep(w),
             StepsAfter[wpc[w]] = n + 1
      PROVE  Within(n, r)'
  <2>1. CASE IsTerminal(status'[r])
    BY <2>1 DEF Within
  <2>2. CASE Doing(w, r)' /\ StepsAfter[wpc'[w]] < StepsAfter[wpc[w]]
    <3>1. wpc'[w] \in DOMAIN StepsAfter
      BY <2>2 DEF Doing
    <3>2. StepsAfter[wpc'[w]] <= n
      BY <1>2, <2>2, <3>1, StepNumbers
    <3> QED BY <2>2, <3>2 DEF Within
  <2> QED BY <1>2, <2>1, <2>2, DueStep
<1>3. ExecInv /\ [Next]_vars
      => [\A r \in Runs, n \in Nat :
            /\ Within(n, r) => Within(n, r)'
            /\ (\E w \in Workers :
                  Doing(w, r) /\ WorkerStep(w) /\ StepsAfter[wpc[w]] = n + 1)
               => Within(n, r)']_vars
  BY <1>2, NextKeepsWithin
<1> QED BY <1>1, <1>3, ExecInvariant, PTL DEF Spec, RunsAdvance
=============================================================================
