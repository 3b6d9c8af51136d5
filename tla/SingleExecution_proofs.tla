----------------------- MODULE SingleExecution_proofs -----------------------
(***************************************************************************)
(* A run is executed once: the inductive invariant and what follows.       *)
(***************************************************************************)
EXTENDS AnalysisRuns_proofs

(* The inductive invariant behind single execution.  It needs that neither *)
(* a duplicated send nor a stall past the lock happens: one message per    *)
(* run, and its lock held from receive to claim.                           *)

OneMessagePerRun == Faults \cap {"duplicate_send", "stall"} = {}

(* Between the claim and the last thing done for the run.                  *)
Owning(w) == Executing(w) \/ wpc[w] = "notify"

(* A run id is in the hands of one request, until its message is sent.     *)
RequestInv ==
  /\ \A p \in Replicas : apiPc[p] = "admitted" => status[apiRun[p]] = "absent"
  /\ \A p \in Replicas : apiPc[p] = "persisted" => status[apiRun[p]] # "absent"
  /\ \A p, q \in Replicas :
       apiPc[p] # "idle" /\ apiPc[q] # "idle" /\ apiRun[p] = apiRun[q] => p = q
  /\ \A m \in Messages : mstate[m] # "unsent" =>
       /\ status[RunOf[m]] # "absent"
       /\ \A p \in Replicas : apiPc[p] = "persisted" => apiRun[p] # RunOf[m]
  /\ \A m, n \in Messages :
       mstate[m] # "unsent" /\ mstate[n] # "unsent" /\ RunOf[m] = RunOf[n] => m = n

(* The lock protects a worker up to its claim.                             *)
LockInv ==
  \A w \in Workers :
    /\ wpc[w] # "idle" => mstate[wmsg[w]] # "unsent"
    /\ wpc[w] \in {"received", "claim"} => HoldsLock(w, wmsg[w])
    /\ wpc[w] = "claim" => status[RunAt(w)] = "queued" /\ seen[w].status = "queued"

(* After the claim the status of the run is the claimer's alone.           *)
OwnerInv ==
  /\ \A v, w \in Workers : Owning(v) /\ Owning(w) /\ RunAt(v) = RunAt(w) => v = w
  /\ \A w \in Workers :
       /\ wpc[w] = "loadCv" => status[RunAt(w)] = "scraping"
       /\ wpc[w] \in {"fetch", "startScoring"} =>
            status[RunAt(w)] = "scraping" /\ seen[w].status = "scraping"
       /\ wpc[w] = "score" => status[RunAt(w)] = "scoring"
       /\ wpc[w] = "finalize" =>
            /\ status[RunAt(w)] = seen[w].status
            /\ seen[w].log = NoLog
            /\ \/ seen[w].status = "scoring"
               \/ seen[w].status = "scraping" /\ rows[w] = {}
       /\ wpc[w] = "notify" =>
            status[RunAt(w)] \in {"complete", "failed"} /\ emails[RunAt(w)] = 0

(* What a worker carries: listings only of sources that answered.          *)
CarryInv ==
  \A w \in Workers :
    /\ wpc[w] \in {"idle", "received", "claim", "loadCv", "fetch"} => rows[w] = {}
    /\ \A row \in rows[w] : answered[w] # NoLog /\ row[1] \in answered[w]

(* The columns of a row agree with its status.                             *)
RowInv ==
  \A r \in Runs :
    /\ status[r] # "cancelled"
    /\ status[r] = "complete" <=> results[r] # {}
    /\ IsTerminal(status[r]) <=> completed[r]
    /\ ~IsTerminal(status[r]) => sourceLog[r] = NoLog
    /\ \A row \in results[r] : sourceLog[r] # NoLog /\ row[1] \in sourceLog[r]
    /\ emails[r] # 0 => status[r] = "complete" /\ emails[r] = 1

ExecInv == TypeInv /\ RequestInv /\ LockInv /\ OwnerInv /\ CarryInv /\ RowInv

(* The invariant holds of the empty system. *)
LEMMA InitExecInv == Init => ExecInv
<1> SUFFICES ASSUME Init PROVE ExecInv
  OBVIOUS
<1>1. TypeInv
  BY InitTypeInv
<1> QED
  BY <1>1 DEF ExecInv, RequestInv, LockInv, OwnerInv, CarryInv, RowInv, Owning,
              Executing, Init, QueueInit, IsTerminal, TerminalStatuses

(* Admission reserves a run id that nobody else uses. *)
LEMMA AdmitExecInv ==
  ASSUME OneMessagePerRun, ExecInv, NEW p \in Replicas, NEW r \in Runs, Admit(p, r)
  PROVE  RequestInv' /\ LockInv' /\ OwnerInv' /\ CarryInv' /\ RowInv'
<1> USE RunsAssumption, QueueAssumption
    DEF ExecInv, TypeInv, TypeOK, QueueTypeOK, LoadedRow, dbVars, apiVars, localVars,
        workerVars, queueVars, RunAt, Admit
<1>1. RequestInv'
  BY DEF RequestInv
<1>2. LockInv'
  BY DEF LockInv, HoldsLock
<1>3. OwnerInv'
  BY DEF OwnerInv, Owning, Executing
<1>4. CarryInv'
  BY DEF CarryInv
<1>5. RowInv'
  BY DEF RowInv
<1> QED BY <1>1, <1>2, <1>3, <1>4, <1>5

(* The INSERT turns the admitted, still unused id into a queued run. *)
LEMMA PersistExecInv ==
  ASSUME OneMessagePerRun, ExecInv, NEW p \in Replicas, Persist(p)
  PROVE  RequestInv' /\ LockInv' /\ OwnerInv' /\ CarryInv' /\ RowInv'
<1> USE RunsAssumption, QueueAssumption
    DEF ExecInv, TypeInv, TypeOK, QueueTypeOK, LoadedRow, dbVars, apiVars, localVars,
        workerVars, queueVars, RunAt, Persist
<1>1. RequestInv'
  BY DEF RequestInv
<1>2. LockInv'
  BY DEF LockInv, HoldsLock
<1>3. OwnerInv'
  BY DEF OwnerInv, RequestInv, Owning, Executing
<1>4. CarryInv'
  BY DEF CarryInv
<1>5. RowInv'
  BY DEF RowInv, RequestInv, IsTerminal, TerminalStatuses
<1> QED BY <1>1, <1>2, <1>3, <1>4, <1>5

(* The one message of the run goes out. *)
LEMMA PublishExecInv ==
  ASSUME OneMessagePerRun, ExecInv, NEW p \in Replicas, Publish(p)
  PROVE  RequestInv' /\ LockInv' /\ OwnerInv' /\ CarryInv' /\ RowInv'
<1> USE RunsAssumption, QueueAssumption
    DEF ExecInv, TypeInv, TypeOK, QueueTypeOK, LoadedRow, dbVars, apiVars, localVars,
        workerVars, queueVars, RunAt, Publish, Send, EndRequest
<1>1. RequestInv'
  <2>1. PICK ms \in SUBSET {m \in Messages : RunOf[m] = apiRun[p]} :
          /\ \A m1, m2 \in ms : m1 = m2
          /\ \A m \in ms : mstate[m] = "unsent"
          /\ mstate' = [m \in Messages |-> IF m \in ms THEN "ready" ELSE mstate[m]]
    BY DEF OneMessagePerRun
  <2>2. \A m \in Messages : mstate'[m] # "unsent" => mstate[m] # "unsent" \/ m \in ms
    BY <2>1
  <2>3. status[apiRun[p]] # "absent"
    BY DEF RequestInv
  <2> QED BY <2>1, <2>2, <2>3 DEF RequestInv
<1>2. LockInv'
  BY DEF LockInv, HoldsLock
<1>3. OwnerInv'
  BY DEF OwnerInv, Owning, Executing
<1>4. CarryInv'
  BY DEF CarryInv
<1>5. RowInv'
  BY DEF RowInv
<1> QED BY <1>1, <1>2, <1>3, <1>4, <1>5

(* A dying request leaves the row as it is. *)
LEMMA AbortRequestExecInv ==
  ASSUME OneMessagePerRun, ExecInv, NEW p \in Replicas, AbortRequest(p)
  PROVE  RequestInv' /\ LockInv' /\ OwnerInv' /\ CarryInv' /\ RowInv'
<1> USE RunsAssumption, QueueAssumption
    DEF ExecInv, TypeInv, TypeOK, QueueTypeOK, LoadedRow, dbVars, apiVars, localVars,
        workerVars, queueVars, RunAt, AbortRequest, EndRequest
<1>1. RequestInv'
  BY DEF RequestInv
<1>2. LockInv'
  BY DEF LockInv, HoldsLock
<1>3. OwnerInv'
  BY DEF OwnerInv, Owning, Executing
<1>4. CarryInv'
  BY DEF CarryInv
<1>5. RowInv'
  BY DEF RowInv
<1> QED BY <1>1, <1>2, <1>3, <1>4, <1>5

(* A received message is locked for its receiver alone. *)
LEMMA ReceiveExecInv ==
  ASSUME OneMessagePerRun, ExecInv, NEW w \in Workers, NEW m \in Messages, Receive(w, m)
  PROVE  RequestInv' /\ LockInv' /\ OwnerInv' /\ CarryInv' /\ RowInv'
<1> USE RunsAssumption, QueueAssumption
    DEF ExecInv, TypeInv, TypeOK, QueueTypeOK, LoadedRow, dbVars, apiVars, localVars,
        workerVars, queueVars, RunAt, Receive, ReceiveLocked, Goto
<1>1. RequestInv'
  BY DEF RequestInv
<1>2. LockInv'
  BY DEF LockInv, HoldsLock
<1>3. OwnerInv'
  BY DEF OwnerInv, Owning, Executing
<1>4. CarryInv'
  BY DEF CarryInv
<1>5. RowInv'
  BY DEF RowInv
<1> QED BY <1>1, <1>2, <1>3, <1>4, <1>5

(* Only a queued run leads to a claim. *)
LEMMA LoadRunExecInv ==
  ASSUME OneMessagePerRun, ExecInv, NEW w \in Workers, LoadRun(w)
  PROVE  RequestInv' /\ LockInv' /\ OwnerInv' /\ CarryInv' /\ RowInv'
<1> USE RunsAssumption, QueueAssumption
    DEF ExecInv, TypeInv, TypeOK, QueueTypeOK, LoadedRow, dbVars, apiVars, localVars,
        workerVars, queueVars, RunAt, LoadRun, LoadRow, Goto, CanTransition, ValidTransitions
<1>1. RequestInv'
  BY DEF RequestInv
<1>2. LockInv'
  BY DEF LockInv, HoldsLock
<1>3. OwnerInv'
  BY DEF OwnerInv, Owning, Executing
<1>4. CarryInv'
  BY DEF CarryInv
<1>5. RowInv'
  BY DEF RowInv
<1> QED BY <1>1, <1>2, <1>3, <1>4, <1>5

(* The claim: nobody else owns a queued run, and afterwards nobody else
   can find it queued. *)
LEMMA ClaimRunExecInv ==
  ASSUME OneMessagePerRun, ExecInv, NEW w \in Workers, ClaimRun(w)
  PROVE  RequestInv' /\ LockInv' /\ OwnerInv' /\ CarryInv' /\ RowInv'
<1> USE RunsAssumption, QueueAssumption
    DEF ExecInv, TypeInv, TypeOK, QueueTypeOK, LoadedRow, dbVars, apiVars, localVars,
        workerVars, queueVars, RunAt, ClaimRun, WriteStatus, Goto
<1>1. RequestInv'
  BY DEF RequestInv, LockInv
<1>2. LockInv'
  BY DEF LockInv, RequestInv, HoldsLock
<1>3. OwnerInv'
  <2>1. status' = [status EXCEPT ![RunAt(w)] = "scraping"]
    BY DEF LockInv
  <2>2. \A v \in Workers : Owning(v) => RunAt(v) # RunAt(w)
    BY SMTT(20) DEF LockInv, OwnerInv, Owning, Executing
  <2> QED BY <2>1, <2>2 DEF OwnerInv, Owning, Executing
<1>4. CarryInv'
  BY DEF CarryInv
<1>5. RowInv'
  BY DEF RowInv, LockInv, IsTerminal, TerminalStatuses
<1> QED BY <1>1, <1>2, <1>3, <1>4, <1>5

(* The owner reads the row and the CV. *)
LEMMA LoadCvExecInv ==
  ASSUME OneMessagePerRun, ExecInv, NEW w \in Workers, LoadCv(w)
  PROVE  RequestInv' /\ LockInv' /\ OwnerInv' /\ CarryInv' /\ RowInv'
<1> USE RunsAssumption, QueueAssumption
    DEF ExecInv, TypeInv, TypeOK, QueueTypeOK, LoadedRow, dbVars, apiVars, localVars,
        workerVars, queueVars, RunAt, LoadCv, LoadRow, Goto
<1>1. RequestInv'
  BY DEF RequestInv
<1>2. LockInv'
  BY DEF LockInv, HoldsLock
<1>3. OwnerInv'
  BY DEF OwnerInv, CarryInv, RowInv, Owning, Executing, IsTerminal,
         TerminalStatuses
<1>4. CarryInv'
  BY DEF CarryInv
<1>5. RowInv'
  BY DEF RowInv
<1> QED BY <1>1, <1>2, <1>3, <1>4, <1>5

(* Listings come from sources that answered. *)
LEMMA FetchExecInv ==
  ASSUME OneMessagePerRun, ExecInv, NEW w \in Workers, Fetch(w)
  PROVE  RequestInv' /\ LockInv' /\ OwnerInv' /\ CarryInv' /\ RowInv'
<1> USE RunsAssumption, QueueAssumption
    DEF ExecInv, TypeInv, TypeOK, QueueTypeOK, LoadedRow, dbVars, apiVars, localVars,
        workerVars, queueVars, RunAt, Fetch, MergedListings, Successes, Goto
<1>1. RequestInv'
  BY DEF RequestInv
<1>2. LockInv'
  BY DEF LockInv, HoldsLock
<1>3. OwnerInv'
  BY DEF OwnerInv, Owning, Executing
<1>4. CarryInv'
  BY DEF CarryInv
<1>5. RowInv'
  BY DEF RowInv
<1> QED BY <1>1, <1>2, <1>3, <1>4, <1>5

(* The owner moves its run on. *)
LEMMA BeginScoringExecInv ==
  ASSUME OneMessagePerRun, ExecInv, NEW w \in Workers, BeginScoring(w)
  PROVE  RequestInv' /\ LockInv' /\ OwnerInv' /\ CarryInv' /\ RowInv'
<1> USE RunsAssumption, QueueAssumption
    DEF ExecInv, TypeInv, TypeOK, QueueTypeOK, LoadedRow, dbVars, apiVars, localVars,
        workerVars, queueVars, RunAt, BeginScoring, WriteStatus, Goto
<1>1. RequestInv'
  BY DEF RequestInv, OwnerInv
<1>2. LockInv'
  BY DEF LockInv, OwnerInv, HoldsLock
<1>3. OwnerInv'
  BY DEF OwnerInv, Owning, Executing
<1>4. CarryInv'
  BY DEF CarryInv
<1>5. RowInv'
  BY DEF RowInv, OwnerInv, IsTerminal, TerminalStatuses
<1> QED BY <1>1, <1>2, <1>3, <1>4, <1>5

(* Scoring keeps a part of the listings. *)
LEMMA ScoreExecInv ==
  ASSUME OneMessagePerRun, ExecInv, NEW w \in Workers, Score(w)
  PROVE  RequestInv' /\ LockInv' /\ OwnerInv' /\ CarryInv' /\ RowInv'
<1> USE RunsAssumption, QueueAssumption
    DEF ExecInv, TypeInv, TypeOK, QueueTypeOK, LoadedRow, dbVars, apiVars, localVars,
        workerVars, queueVars, RunAt, Score, LoadRow, Goto
<1>1. RequestInv'
  BY DEF RequestInv
<1>2. LockInv'
  BY DEF LockInv, HoldsLock
<1>3. OwnerInv'
  BY DEF OwnerInv, RowInv, Owning, Executing, IsTerminal, TerminalStatuses
<1>4. CarryInv'
  BY DEF CarryInv
<1>5. RowInv'
  BY DEF RowInv
<1> QED BY <1>1, <1>2, <1>3, <1>4, <1>5

(* The owner's only commit of results makes the row consistent. *)
LEMMA FinalizeExecInv ==
  ASSUME OneMessagePerRun, ExecInv, NEW w \in Workers, Finalize(w)
  PROVE  RequestInv' /\ LockInv' /\ OwnerInv' /\ CarryInv' /\ RowInv'
<1> USE RunsAssumption, QueueAssumption
    DEF ExecInv, TypeInv, TypeOK, QueueTypeOK, LoadedRow, dbVars, apiVars, localVars,
        workerVars, queueVars, RunAt, Finalize, WriteStatus, WriteSourceLog, ResolveTerminalStatus, Goto
<1>1. RequestInv'
  BY DEF RequestInv, LockInv
<1>2. LockInv'
  <2>1. ASSUME NEW v \in Workers, wpc[v] = "claim", RunAt(v) = RunAt(w)
        PROVE  FALSE
    <3>1. status[RunAt(v)] = "queued"
      BY <2>1 DEF LockInv
    <3>2. status[RunAt(w)] \in {"scoring", "scraping"}
      BY DEF OwnerInv
    <3> QED BY <2>1, <3>1, <3>2
  <2>2. \A r \in Runs : r # RunAt(w) => status'[r] = status[r]
    OBVIOUS
  <2> QED BY <2>1, <2>2 DEF LockInv, HoldsLock
<1>3. OwnerInv'
  BY DEF OwnerInv, RowInv, Owning, Executing
<1>4. CarryInv'
  BY DEF CarryInv
<1>5. RowInv'
  <2> DEFINE run == RunAt(w)
  <2>1. run \in Runs
    OBVIOUS
  <2>2. /\ status[run] \in {"scraping", "scoring"}
        /\ seen[w].status = status[run]
        /\ seen[w].log = NoLog
        /\ status[run] = "scraping" => rows[w] = {}
    BY DEF OwnerInv
  <2>3. /\ results[run] = {}
        /\ sourceLog[run] = NoLog
        /\ emails[run] = 0
    BY <2>1, <2>2 DEF RowInv, IsTerminal, TerminalStatuses
  <2>4. /\ status' = [status EXCEPT ![run] = IF rows[w] # {} THEN "complete" ELSE "failed"]
        /\ results' = [results EXCEPT ![run] = rows[w]]
        /\ completed' = [completed EXCEPT ![run] = TRUE]
    BY <2>1, <2>2, <2>3
  <2>5. sourceLog' = [sourceLog EXCEPT ![run] = IF NumSources = 0 THEN NoLog ELSE answered[w]]
    BY <2>1, <2>2, <2>3
  <2>6. \A row \in rows[w] : NumSources # 0 /\ answered[w] # NoLog /\ row[1] \in answered[w]
    BY DEF CarryInv, Rows, Sources
  <2> QED
    BY <2>1, <2>2, <2>3, <2>4, <2>5, <2>6 DEF RowInv, IsTerminal, TerminalStatuses
<1> QED BY <1>1, <1>2, <1>3, <1>4, <1>5

(* A refused commit changes nothing. *)
LEMMA FinalizeRefusedExecInv ==
  ASSUME OneMessagePerRun, ExecInv, NEW w \in Workers, FinalizeRefused(w)
  PROVE  RequestInv' /\ LockInv' /\ OwnerInv' /\ CarryInv' /\ RowInv'
<1> USE RunsAssumption, QueueAssumption
    DEF ExecInv, TypeInv, TypeOK, QueueTypeOK, LoadedRow, dbVars, apiVars, localVars,
        workerVars, queueVars, RunAt, FinalizeRefused, Goto
<1>1. RequestInv'
  BY DEF RequestInv
<1>2. LockInv'
  BY DEF LockInv, HoldsLock
<1>3. OwnerInv'
  BY DEF OwnerInv, Owning, Executing
<1>4. CarryInv'
  BY DEF CarryInv
<1>5. RowInv'
  BY DEF RowInv
<1> QED BY <1>1, <1>2, <1>3, <1>4, <1>5

(* The owner's only e-mail follows a complete run. *)
LEMMA NotifyExecInv ==
  ASSUME OneMessagePerRun, ExecInv, NEW w \in Workers, Notify(w)
  PROVE  RequestInv' /\ LockInv' /\ OwnerInv' /\ CarryInv' /\ RowInv'
<1> USE RunsAssumption, QueueAssumption
    DEF ExecInv, TypeInv, TypeOK, QueueTypeOK, LoadedRow, dbVars, apiVars, localVars,
        workerVars, queueVars, RunAt, Notify, Goto
<1>1. RequestInv'
  BY DEF RequestInv
<1>2. LockInv'
  BY DEF LockInv, HoldsLock
<1>3. OwnerInv'
  BY DEF OwnerInv, Owning, Executing
<1>4. CarryInv'
  BY DEF CarryInv
<1>5. RowInv'
  BY DEF RowInv, OwnerInv
<1> QED BY <1>1, <1>2, <1>3, <1>4, <1>5

(* Settling never makes a message unsent again. *)
LEMMA SettleMessageExecInv ==
  ASSUME OneMessagePerRun, ExecInv, NEW w \in Workers, SettleMessage(w)
  PROVE  RequestInv' /\ LockInv' /\ OwnerInv' /\ CarryInv' /\ RowInv'
<1> USE RunsAssumption, QueueAssumption
    DEF ExecInv, TypeInv, TypeOK, QueueTypeOK, LoadedRow, dbVars, apiVars, localVars,
        workerVars, queueVars, RunAt, SettleMessage, CompleteMessage, ForgetMessage, NoRow, Goto
<1>1. RequestInv'
  <2>1. \A m \in Messages : mstate'[m] = "unsent" <=> mstate[m] = "unsent"
    BY DEF LockInv, HoldsLock
  <2> QED BY <2>1 DEF RequestInv
<1>2. LockInv'
  BY DEF LockInv, HoldsLock
<1>3. OwnerInv'
  BY DEF OwnerInv, Owning, Executing
<1>4. CarryInv'
  BY DEF CarryInv
<1>5. RowInv'
  BY DEF RowInv
<1> QED BY <1>1, <1>2, <1>3, <1>4, <1>5

(* A swallowed exception ends ownership, not the row's status. *)
LEMMA UnexpectedErrorExecInv ==
  ASSUME OneMessagePerRun, ExecInv, NEW w \in Workers, UnexpectedError(w)
  PROVE  RequestInv' /\ LockInv' /\ OwnerInv' /\ CarryInv' /\ RowInv'
<1> USE RunsAssumption, QueueAssumption
    DEF ExecInv, TypeInv, TypeOK, QueueTypeOK, LoadedRow, dbVars, apiVars, localVars,
        workerVars, queueVars, RunAt, UnexpectedError, Goto, Handling
<1>1. RequestInv'
  BY DEF RequestInv
<1>2. LockInv'
  BY DEF LockInv, HoldsLock
<1>3. OwnerInv'
  BY DEF OwnerInv, Owning, Executing
<1>4. CarryInv'
  BY DEF CarryInv
<1>5. RowInv'
  BY DEF RowInv
<1> QED BY <1>1, <1>2, <1>3, <1>4, <1>5

(* A stopped worker owns nothing. *)
LEMMA StopWorkerExecInv ==
  ASSUME OneMessagePerRun, ExecInv, NEW w \in Workers, StopWorker(w)
  PROVE  RequestInv' /\ LockInv' /\ OwnerInv' /\ CarryInv' /\ RowInv'
<1> USE RunsAssumption, QueueAssumption
    DEF ExecInv, TypeInv, TypeOK, QueueTypeOK, LoadedRow, dbVars, apiVars, localVars,
        workerVars, queueVars, RunAt, StopWorker, OrphanLocks, ForgetMessage, NoRow, Goto
<1>1. RequestInv'
  BY DEF RequestInv
<1>2. LockInv'
  BY DEF LockInv, HoldsLock
<1>3. OwnerInv'
  BY DEF OwnerInv, Owning, Executing
<1>4. CarryInv'
  BY DEF CarryInv
<1>5. RowInv'
  BY DEF RowInv
<1> QED BY <1>1, <1>2, <1>3, <1>4, <1>5

(* No lock runs out between receive and claim. *)
LEMMA ExpireLockExecInv ==
  ASSUME OneMessagePerRun, ExecInv, NEW m \in Messages, ExpireLock(m)
  PROVE  RequestInv' /\ LockInv' /\ OwnerInv' /\ CarryInv' /\ RowInv'
<1> USE RunsAssumption, QueueAssumption
    DEF ExecInv, TypeInv, TypeOK, QueueTypeOK, LoadedRow, dbVars, apiVars, localVars,
        workerVars, queueVars, RunAt, ExpireLock, LockRunsOut
<1>1. RequestInv'
  BY DEF RequestInv
<1>2. LockInv'
  BY DEF LockInv, HoldsLock, OneMessagePerRun
<1>3. OwnerInv'
  BY DEF OwnerInv, Owning, Executing
<1>4. CarryInv'
  BY DEF CarryInv
<1>5. RowInv'
  BY DEF RowInv
<1> QED BY <1>1, <1>2, <1>3, <1>4, <1>5

(* Time leaves the run's processing alone. *)
LEMMA LeaveWindowExecInv ==
  ASSUME OneMessagePerRun, ExecInv, NEW r \in Runs, LeaveWindow(r)
  PROVE  RequestInv' /\ LockInv' /\ OwnerInv' /\ CarryInv' /\ RowInv'
<1> USE RunsAssumption, QueueAssumption
    DEF ExecInv, TypeInv, TypeOK, QueueTypeOK, LoadedRow, dbVars, apiVars, localVars,
        workerVars, queueVars, RunAt, LeaveWindow
<1>1. RequestInv'
  BY DEF RequestInv
<1>2. LockInv'
  BY DEF LockInv, HoldsLock
<1>3. OwnerInv'
  BY DEF OwnerInv, Owning, Executing
<1>4. CarryInv'
  BY DEF CarryInv
<1>5. RowInv'
  BY DEF RowInv
<1> QED BY <1>1, <1>2, <1>3, <1>4, <1>5

(* Deleting a CV leaves rows and messages alone. *)
LEMMA DeleteCvExecInv ==
  ASSUME OneMessagePerRun, ExecInv, NEW c \in Cvs, DeleteCv(c)
  PROVE  RequestInv' /\ LockInv' /\ OwnerInv' /\ CarryInv' /\ RowInv'
<1> USE RunsAssumption, QueueAssumption
    DEF ExecInv, TypeInv, TypeOK, QueueTypeOK, LoadedRow, dbVars, apiVars, localVars,
        workerVars, queueVars, RunAt, DeleteCv
<1>1. RequestInv'
  BY DEF RequestInv
<1>2. LockInv'
  BY DEF LockInv, HoldsLock
<1>3. OwnerInv'
  BY DEF OwnerInv, Owning, Executing
<1>4. CarryInv'
  BY DEF CarryInv
<1>5. RowInv'
  BY DEF RowInv
<1> QED BY <1>1, <1>2, <1>3, <1>4, <1>5

(* Every step keeps the invariant. *)
LEMMA NextExecInv ==
  ASSUME OneMessagePerRun, ExecInv, [Next]_vars
  PROVE  ExecInv'
<1>1. TypeInv'
  BY NextTypeInv DEF ExecInv
<1>2. RequestInv' /\ LockInv' /\ OwnerInv' /\ CarryInv' /\ RowInv'
  <2>1. CASE UNCHANGED vars
    BY <2>1 DEF vars, ExecInv, RequestInv, LockInv, OwnerInv, CarryInv, RowInv,
                Owning, Executing, HoldsLock, RunAt, dbVars, apiVars, localVars,
                workerVars, queueVars
  <2>2. ASSUME NEW p \in Replicas, ApiStep(p)
        PROVE  RequestInv' /\ LockInv' /\ OwnerInv' /\ CarryInv' /\ RowInv'
    BY <2>2, AdmitExecInv, PersistExecInv, PublishExecInv, AbortRequestExecInv
    DEF ApiStep
  <2>3. ASSUME NEW w \in Workers, WorkerStep(w)
        PROVE  RequestInv' /\ LockInv' /\ OwnerInv' /\ CarryInv' /\ RowInv'
    BY <2>3, ReceiveExecInv, LoadRunExecInv, ClaimRunExecInv, LoadCvExecInv,
       FetchExecInv, BeginScoringExecInv, ScoreExecInv, FinalizeExecInv,
       FinalizeRefusedExecInv, NotifyExecInv, SettleMessageExecInv
    DEF WorkerStep
  <2> QED
    BY <2>1, <2>2, <2>3, UnexpectedErrorExecInv, StopWorkerExecInv,
       ExpireLockExecInv, LeaveWindowExecInv, DeleteCvExecInv
    DEF Next
<1> QED BY <1>1, <1>2 DEF ExecInv

(* The inductive invariant holds throughout. *)
LEMMA ExecInvariant ==
  ASSUME OneMessagePerRun
  PROVE  Spec => []ExecInv
<1>1. Init => ExecInv
  BY InitExecInv
<1>2. ExecInv /\ [Next]_vars => ExecInv'
  BY NextExecInv
<1> QED BY <1>1, <1>2, PTL DEF Spec

(* With one message per run and its lock held up to the claim, no run is   *)
(* ever executed by two workers at a time, whatever crashes, redeliveries  *)
(* after the claim, swallowed errors and CV deletions happen.              *)
THEOREM SingleExecutionHolds ==
  ASSUME OneMessagePerRun
  PROVE  Spec => []SingleExecution
<1>1. ExecInv => SingleExecution
  BY DEF ExecInv, OwnerInv, SingleExecution, Owning
<1> QED BY <1>1, ExecInvariant, PTL

(* Under the same assumption a run's status, results, completed_at and     *)
(* source log always agree.                                                *)
THEOREM OutcomeConsistentHolds ==
  ASSUME OneMessagePerRun
  PROVE  Spec => []OutcomeConsistent
<1>1. ExecInv => OutcomeConsistent
  <2> SUFFICES ASSUME ExecInv, NEW r \in Runs, results[r] # {}
               PROVE  {row[1] : row \in results[r]} \subseteq sourceLog[r]
    BY DEF OutcomeConsistent, ExecInv, RowInv
  <2> QED BY DEF ExecInv, RowInv
<1> QED BY <1>1, ExecInvariant, PTL
-----------------------------------------------------------------------------
(* What the owner reads in a finished run.                                 *)

(* One row per listing, whichever sources returned it.                     *)
OncePerListing(S) == \A a, b \in S : a[2] = b[2] => a = b

DedupInv ==
  /\ \A w \in Workers : OncePerListing(rows[w])
  /\ \A r \in Runs : OncePerListing(results[r])

(* A listing returned by several sources is shown once in a run's results. *)
(* The database does not see to that: its constraint takes the same        *)
(* listing from two sources as two rows.                                   *)
ListingShownOnce == \A r \in Runs : OncePerListing(results[r])

(* The merge keeps a listing of the first source that returned it.         *)
LEMMA MergeIsOncePerListing ==
  ASSUME NEW outcome
  PROVE  OncePerListing(MergedListings(outcome))
<1> SUFFICES ASSUME NEW a \in MergedListings(outcome),
                    NEW b \in MergedListings(outcome), a[2] = b[2]
             PROVE  a = b
  BY DEF OncePerListing
<1>1. /\ a \in Rows /\ a[1] \in Successes(outcome) /\ a[2] \in outcome[a[1]]
      /\ \A s \in Successes(outcome) : s < a[1] => a[2] \notin outcome[s]
  BY DEF MergedListings
<1>2. /\ b \in Rows /\ b[1] \in Successes(outcome) /\ b[2] \in outcome[b[1]]
      /\ \A s \in Successes(outcome) : s < b[1] => b[2] \notin outcome[s]
  BY DEF MergedListings
<1>3. ~(a[1] < b[1]) /\ ~(b[1] < a[1])
  BY <1>1, <1>2
<1>4. a[1] \in Nat /\ b[1] \in Nat
  BY <1>1, <1>2 DEF Successes, Sources
<1>5. a[1] = b[1]
  BY <1>3, <1>4
<1> QED BY <1>1, <1>2, <1>5 DEF Rows

(* Fetching fills the listings with a merge, scoring keeps a part of them, *)
(* and the only commit of results finds none stored before.                *)
LEMMA NextKeepsDedup ==
  ASSUME ExecInv, DedupInv, [Next]_vars
  PROVE  DedupInv'
<1> USE DEF dbVars, apiVars, localVars, workerVars, queueVars
<1>1. CASE UNCHANGED <<rows, results>>
  BY <1>1 DEF DedupInv, OncePerListing
<1>2. ASSUME NEW w \in Workers, Fetch(w) PROVE DedupInv'
  <2>1. PICK outcome \in FetchOutcomes :
          rows' = [rows EXCEPT ![w] = MergedListings(outcome)]
    BY <1>2 DEF Fetch
  <2> DEFINE merged == MergedListings(outcome)
  <2>2. OncePerListing(merged)
    BY MergeIsOncePerListing
  <2>3. \A v \in Workers : rows'[v] = rows[v] \/ rows'[v] = merged
    BY <2>1 DEF ExecInv, TypeInv, TypeOK
  <2>4. results' = results
    BY <1>2 DEF Fetch
  <2> HIDE DEF merged
  <2> QED BY <2>2, <2>3, <2>4 DEF DedupInv, OncePerListing
<1>3. ASSUME NEW w \in Workers, Score(w) PROVE DedupInv'
  <2>1. \A v \in Workers : rows'[v] \subseteq rows[v]
    BY <1>3 DEF Score, ExecInv, TypeInv, TypeOK
  <2>2. results' = results
    BY <1>3 DEF Score
  <2> QED BY <2>1, <2>2 DEF DedupInv, OncePerListing
<1>4. ASSUME NEW w \in Workers, Finalize(w) PROVE DedupInv'
  <2>1. RunAt(w) \in Runs
    BY <1>4, RunAtType DEF ExecInv, Finalize
  <2>2. results[RunAt(w)] = {}
    BY <1>4, <2>1 DEF ExecInv, OwnerInv, RowInv, Finalize
  <2>3. \A r \in Runs : results'[r] = results[r] \/ results'[r] = rows[w]
    BY <1>4, <2>2 DEF Finalize, ExecInv, TypeInv, TypeOK
  <2>4. rows' = rows
    BY <1>4 DEF Finalize
  <2> QED BY <2>3, <2>4 DEF DedupInv, OncePerListing
<1>5. ASSUME NEW w \in Workers, SettleMessage(w) \/ StopWorker(w) PROVE DedupInv'
  <2>1. \A v \in Workers : rows'[v] \subseteq rows[v]
    BY <1>5 DEF SettleMessage, StopWorker, ForgetMessage, ExecInv, TypeInv, TypeOK
  <2>2. results' = results
    BY <1>5 DEF SettleMessage, StopWorker
  <2> QED BY <2>1, <2>2 DEF DedupInv, OncePerListing
<1>6. ASSUME NEW w \in Workers, WorkerStep(w) PROVE DedupInv'
  BY <1>1, <1>2, <1>3, <1>4, <1>5, <1>6
  DEF WorkerStep, Receive, LoadRun, ClaimRun, LoadCv, BeginScoring, FinalizeRefused,
      Notify
<1>7. ASSUME NEW p \in Replicas, ApiStep(p) PROVE DedupInv'
  BY <1>1, <1>7 DEF ApiStep, Admit, Persist, Publish, AbortRequest
<1> QED
  BY <1>1, <1>5, <1>6, <1>7
  DEF Next, UnexpectedError, ExpireLock, LeaveWindow, DeleteCv, vars

(* With one message per run no listing appears twice among the results of  *)
(* a run, although two boards may carry it and the unique constraint       *)
(* includes the source.  Two executions of one run can store it twice.     *)
THEOREM ListingShownOnceHolds ==
  ASSUME OneMessagePerRun
  PROVE  Spec => []ListingShownOnce
<1>1. Init => DedupInv
  BY DEF Init, DedupInv, OncePerListing
<1>2. ExecInv /\ DedupInv /\ [Next]_vars => DedupInv'
  BY NextKeepsDedup
<1>3. DedupInv => ListingShownOnce
  BY DEF DedupInv, ListingShownOnce
<1> QED BY <1>1, <1>2, <1>3, ExecInvariant, PTL DEF Spec

(* A finished run is closed: status, results, source outcomes and          *)
(* completed_at never change again, whatever is redelivered.               *)
FinishedIsFrozen ==
  [][\A r \in Runs : IsTerminal(status[r]) =>
       /\ status'[r] = status[r]
       /\ results'[r] = results[r]
       /\ sourceLog'[r] = sourceLog[r]
       /\ completed'[r] = completed[r]]_vars

(* Each write to a run's columns finds it in a status that is not final:   *)
(* the writer has claimed it and nobody else has.                          *)
LEMMA NextKeepsFinished ==
  ASSUME ExecInv, [Next]_vars, NEW r \in Runs, IsTerminal(status[r])
  PROVE  /\ status'[r] = status[r]
         /\ results'[r] = results[r]
         /\ sourceLog'[r] = sourceLog[r]
         /\ completed'[r] = completed[r]
<1> DEFINE Kept == /\ status'[r] = status[r]
                   /\ results'[r] = results[r]
                   /\ sourceLog'[r] = sourceLog[r]
                   /\ completed'[r] = completed[r]
<1> USE DEF dbVars, apiVars, localVars, workerVars, queueVars
<1>1. CASE UNCHANGED <<status, results, sourceLog, completed>>
  BY <1>1
<1>2. ASSUME NEW p \in Replicas, Persist(p) PROVE Kept
  <2>1. apiRun[p] # r
    BY <1>2 DEF ExecInv, RequestInv, Persist, IsTerminal, TerminalStatuses
  <2> QED BY <1>2, <2>1 DEF Persist, ExecInv, TypeInv, TypeOK
<1>3. ASSUME NEW w \in Workers, ClaimRun(w) \/ BeginScoring(w) PROVE Kept
  <2>1. RunAt(w) # r
    BY <1>3 DEF ExecInv, LockInv, OwnerInv, ClaimRun, BeginScoring, IsTerminal,
                TerminalStatuses
  <2> QED BY <1>3, <2>1
          DEF ClaimRun, BeginScoring, WriteStatus, ExecInv, TypeInv, TypeOK
<1>4. ASSUME NEW w \in Workers, Finalize(w) PROVE Kept
  <2>1. RunAt(w) # r
    BY <1>4 DEF ExecInv, OwnerInv, Finalize, IsTerminal, TerminalStatuses
  <2> QED BY <1>4, <2>1
          DEF Finalize, WriteStatus, WriteSourceLog, ExecInv, TypeInv, TypeOK
<1>5. ASSUME NEW w \in Workers, WorkerStep(w) PROVE Kept
  BY <1>1, <1>3, <1>4, <1>5
  DEF WorkerStep, Receive, LoadRun, LoadCv, Fetch, Score, FinalizeRefused, Notify,
      SettleMessage
<1>6. ASSUME NEW p \in Replicas, ApiStep(p) PROVE Kept
  BY <1>1, <1>2, <1>6 DEF ApiStep, Admit, Publish, AbortRequest
<1> QED
  BY <1>1, <1>5, <1>6
  DEF Next, UnexpectedError, StopWorker, ExpireLock, LeaveWindow, DeleteCv, vars

(* TerminalIsFinal is about the status; with one message per run nothing   *)
(* else that the owner reads changes after it either.                      *)
THEOREM FinishedIsFrozenHolds ==
  ASSUME OneMessagePerRun
  PROVE  Spec => FinishedIsFrozen
<1>1. ExecInv /\ [Next]_vars =>
        [\A r \in Runs : IsTerminal(status[r]) =>
           /\ status'[r] = status[r]
           /\ results'[r] = results[r]
           /\ sourceLog'[r] = sourceLog[r]
           /\ completed'[r] = completed[r]]_vars
  BY NextKeepsFinished
<1> QED BY <1>1, ExecInvariant, PTL DEF Spec, FinishedIsFrozen
=============================================================================
