----------------------------- MODULE RateLimit -----------------------------
(***************************************************************************)
(* rate_limit_counters and RateLimiter (app/auth/rate_limit.py): one       *)
(* counter per bucket and fixed window.  The upsert and the read of the    *)
(* new count are one transaction that holds the row, so replicas count one *)
(* after the other.  A refused request is counted too.                     *)
(***************************************************************************)
EXTENDS Integers

CONSTANTS
  Buckets,                     \* bucket_key: an address or a client IP
  Window,                      \* MAGIC_LINK_RATE_WINDOW, in ticks
  EmailLimit, IpLimit,         \* MAGIC_LINK_EMAIL_LIMIT, MAGIC_LINK_IP_LIMIT
  MaxClock, MaxCount           \* bounds of the checks

VARIABLE requestCount

WindowStart(now) == now \div Window

Windows == {WindowStart(t) : t \in 0..MaxClock}

ASSUME RateLimitAssumption ==
  /\ Window \in Nat \ {0}
  /\ EmailLimit \in Nat
  /\ IpLimit \in Nat
  /\ MaxClock \in Nat
  /\ MaxCount \in Nat

RateLimitTypeOK == requestCount \in [Buckets -> [Windows -> Nat]]

(* Fault for the checks: the limit is tested with >=, after the increment. *)
BugWithinLimit(count, limit) == count <= limit + 1

WithinLimit(count, limit) == count <= limit

(* _increment_counter.                                                     *)
Increment(bucket, now) ==
  /\ requestCount[bucket][WindowStart(now)] < MaxCount
  /\ requestCount' =
       [requestCount EXCEPT ![bucket][WindowStart(now)] = @ + 1]

(* The count an Increment of this state would return is within the limit.  *)
Allowed(bucket, limit, now) ==
  WithinLimit(requestCount[bucket][WindowStart(now)] + 1, limit)
=============================================================================
