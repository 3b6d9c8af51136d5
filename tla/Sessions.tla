------------------------------ MODULE Sessions ------------------------------
(***************************************************************************)
(* The session table and SessionService (app/auth/session.py).  Sessions   *)
(* are numbered in the order in which they are created; a deleted row's id *)
(* is not drawn again.  cleanup_expired has no caller in the program, so   *)
(* rows go only by sign-out, by rotation and by a call that finds them     *)
(* expired.                                                                *)
(***************************************************************************)
EXTENDS Integers

CONSTANTS
  SessionIds,                     \* possible rows, a set of numbers
  NoSession,                      \* no cookie, no row
  IdleTimeout, AbsoluteTimeout    \* 24 h and 7 d, in ticks of the clock

VARIABLES phase, owner, lastSeen, idleExpires, absoluteExpires

sessionVars == <<phase, owner, lastSeen, idleExpires, absoluteExpires>>

ASSUME SessionsAssumption ==
  /\ SessionIds \subseteq Nat
  /\ NoSession \notin SessionIds
  /\ IdleTimeout \in Nat \ {0}
  /\ AbsoluteTimeout \in Nat
  /\ IdleTimeout <= AbsoluteTimeout

Phases == {"unused", "open", "closed"}

SessionsTypeOK(accounts) ==
  /\ phase \in [SessionIds -> Phases]
  /\ owner \in [SessionIds -> accounts]
  /\ lastSeen \in [SessionIds -> Nat]
  /\ idleExpires \in [SessionIds -> Nat]
  /\ absoluteExpires \in [SessionIds -> Nat]

NextSession(s) ==
  /\ s \in SessionIds
  /\ phase[s] = "unused"
  /\ \A r \in SessionIds : phase[r] = "unused" => s <= r

CreateSession(s, a, now) ==
  /\ NextSession(s)
  /\ phase' = [phase EXCEPT ![s] = "open"]
  /\ owner' = [owner EXCEPT ![s] = a]
  /\ lastSeen' = [lastSeen EXCEPT ![s] = now]
  /\ idleExpires' = [idleExpires EXCEPT ![s] = now + IdleTimeout]
  /\ absoluteExpires' = [absoluteExpires EXCEPT ![s] = now + AbsoluteTimeout]

Expired(s, now) == now >= absoluteExpires[s] \/ now >= idleExpires[s]

(* Faults for the checks: the timeout is subtracted; the idle expiry is    *)
(* not capped.                                                             *)
BugRewoundIdle(s, now) == now - IdleTimeout

BugRefreshedIdle(s, now) == now + IdleTimeout

RefreshedIdle(s, now) ==
  IF now + IdleTimeout <= absoluteExpires[s]
  THEN now + IdleTimeout ELSE absoluteExpires[s]

(* The UPDATE of resolve_session; only on a row that still exists.         *)
RefreshSession(s, now) ==
  /\ phase[s] = "open"
  /\ lastSeen' = [lastSeen EXCEPT ![s] = now]
  /\ idleExpires' = [idleExpires EXCEPT ![s] = RefreshedIdle(s, now)]
  /\ UNCHANGED <<phase, owner, absoluteExpires>>

(* invalidate_session: get and delete.  No cookie, an unknown row or a row *)
(* deleted meanwhile is no error.                                          *)
InvalidateSession(s) ==
  /\ phase' = [r \in SessionIds |->
                 IF r = s /\ phase[r] = "open" THEN "closed" ELSE phase[r]]
  /\ UNCHANGED <<owner, lastSeen, idleExpires, absoluteExpires>>
=============================================================================
