------------------------------ MODULE JobQueue ------------------------------
(***************************************************************************)
(* The durable queue between the API and the workers as the Service Bus    *)
(* adapter uses it (app/adapters/azure/service_bus_queue.py, queue         *)
(* settings in infra/app/servicebus.tf): PEEK_LOCK receive of one message  *)
(* at a time, complete_message after the handler, redelivery when a lock   *)
(* runs out, dead-lettering after MaxDeliveryCount deliveries.  Delivery   *)
(* order is not promised by the broker and is left open.                   *)
(***************************************************************************)
EXTENDS Naturals

CONSTANTS
  Messages,          \* identities of the messages that may ever be sent
  Workers,           \* worker processes (0..2 container replicas)
  NoWorker,          \* "the lock belongs to nobody that is still running"
  MaxDeliveryCount   \* max_delivery_count = 3

ASSUME QueueAssumption ==
  /\ NoWorker \notin Workers
  /\ MaxDeliveryCount \in Nat \ {0}

VARIABLES
  mstate,       \* delivery state of each message
  holder,       \* the running worker that holds the message's lock
  deliveries    \* how often the broker has handed the message out

queueVars == <<mstate, holder, deliveries>>

MessageStates == {"unsent", "ready", "locked", "completed", "dead"}

QueueTypeOK ==
  /\ mstate \in [Messages -> MessageStates]
  /\ holder \in [Messages -> Workers \cup {NoWorker}]
  /\ deliveries \in [Messages -> 0..MaxDeliveryCount]

QueueInit ==
  /\ mstate = [m \in Messages |-> "unsent"]
  /\ holder = [m \in Messages |-> NoWorker]
  /\ deliveries = [m \in Messages |-> 0]

HoldsLock(w, m) == mstate[m] = "locked" /\ holder[m] = w

(* A message the broker still has to hand out or to see settled.           *)
Outstanding(m) == mstate[m] \in {"ready", "locked"}

(* publish: sender.send_messages; more than one message when the client's  *)
(* own retry repeats a send whose acknowledgement was lost.                *)
Send(ms) ==
  /\ \A m \in ms : mstate[m] = "unsent"
  /\ mstate' = [m \in Messages |-> IF m \in ms THEN "ready" ELSE mstate[m]]
  /\ UNCHANGED <<holder, deliveries>>

(* Fault for the checks: RECEIVE_AND_DELETE instead of PEEK_LOCK.          *)
BugReceiveAndDelete(w, m) ==
  /\ mstate[m] = "ready"
  /\ mstate' = [mstate EXCEPT ![m] = "completed"]
  /\ deliveries' = [deliveries EXCEPT ![m] = @ + 1]
  /\ UNCHANGED holder

(* receive_messages(max_message_count = 1).                                *)
ReceiveLocked(w, m) ==
  /\ mstate[m] = "ready"
  /\ mstate' = [mstate EXCEPT ![m] = "locked"]
  /\ holder' = [holder EXCEPT ![m] = w]
  /\ deliveries' = [deliveries EXCEPT ![m] = @ + 1]

(* complete_message.  With the lock lost the broker refuses: nothing       *)
(* happens to the message (the exception ends the consumer, see            *)
(* SettleMessage in AnalysisRuns).                                         *)
CompleteMessage(w, m) ==
  /\ IF HoldsLock(w, m)
       THEN /\ mstate' = [mstate EXCEPT ![m] = "completed"]
            /\ holder' = [holder EXCEPT ![m] = NoWorker]
       ELSE UNCHANGED <<mstate, holder>>
  /\ UNCHANGED deliveries

(* The consumer is gone without settling: the lock stays until it expires. *)
OrphanLocks(w) ==
  /\ holder' = [m \in Messages |-> IF holder[m] = w THEN NoWorker ELSE holder[m]]
  /\ UNCHANGED <<mstate, deliveries>>

(* Fault for the checks: redelivery without a limit.                       *)
BugLockRunsOut(m) ==
  /\ mstate[m] = "locked"
  /\ mstate' = [mstate EXCEPT ![m] = "ready"]
  /\ holder' = [holder EXCEPT ![m] = NoWorker]
  /\ UNCHANGED deliveries

(* The broker takes back an unsettled lock: the message is handed out      *)
(* again, or dead-lettered once it was delivered MaxDeliveryCount times.   *)
LockRunsOut(m) ==
  /\ mstate[m] = "locked"
  /\ mstate' = [mstate EXCEPT
       ![m] = IF deliveries[m] < MaxDeliveryCount THEN "ready" ELSE "dead"]
  /\ holder' = [holder EXCEPT ![m] = NoWorker]
  /\ UNCHANGED deliveries
=============================================================================
