-------------------------- MODULE SessionLifetime --------------------------
(***************************************************************************)
(* What a server-side session promises, without requests, cookies or       *)
(* replicas: it is opened once, for one account; it is used only at        *)
(* instants before its absolute expiry, which never moves; a use moves the *)
(* idle expiry to a day after the use but never past the absolute expiry;  *)
(* once closed it is never opened or used again.  Sessions, driven by the  *)
(* requests of SignIn, implements it.                                      *)
(***************************************************************************)
EXTENDS Integers

CONSTANTS
  SessionIds, AccountIds, NoAccount,
  Instants,                      \* a set of numbers
  IdleTimeout, AbsoluteTimeout

VARIABLES phase, owner, lastSeen, idleExpires, absoluteExpires

lifetimeVars == <<phase, owner, lastSeen, idleExpires, absoluteExpires>>

Least(m, n) == IF m <= n THEN m ELSE n

(* A session is still to be opened, or was opened before observation began. *)
LifetimeInit ==
  \A s \in SessionIds :
    \/ phase[s] = "unused"
    \/ /\ phase[s] = "open"
       /\ owner[s] \in AccountIds
       /\ idleExpires[s] = lastSeen[s] + IdleTimeout
       /\ absoluteExpires[s] = lastSeen[s] + AbsoluteTimeout

(* One account signs in at instant t.                                      *)
Open(s, a, t) ==
  /\ phase[s] = "unused"
  /\ phase' = [phase EXCEPT ![s] = "open"]
  /\ owner' = [owner EXCEPT ![s] = a]
  /\ lastSeen' = [lastSeen EXCEPT ![s] = t]
  /\ idleExpires' = [idleExpires EXCEPT ![s] = t + IdleTimeout]
  /\ absoluteExpires' = [absoluteExpires EXCEPT ![s] = t + AbsoluteTimeout]

(* A request of instant t presents the session.                            *)
Use(s, t) ==
  /\ phase[s] = "open"
  /\ t < absoluteExpires[s]
  /\ lastSeen' = [lastSeen EXCEPT ![s] = t]
  /\ idleExpires' =
       [idleExpires EXCEPT ![s] = Least(t + IdleTimeout, absoluteExpires[s])]
  /\ UNCHANGED <<phase, owner, absoluteExpires>>

Close(s) ==
  /\ phase[s] = "open"
  /\ phase' = [phase EXCEPT ![s] = "closed"]
  /\ UNCHANGED <<owner, lastSeen, idleExpires, absoluteExpires>>

LifetimeNext ==
  \E s \in SessionIds :
    \/ \E a \in AccountIds, t \in Instants : Open(s, a, t)
    \/ \E t \in Instants : Use(s, t)
    \/ Close(s)

LifetimeSpec == LifetimeInit /\ [][LifetimeNext]_lifetimeVars
=============================================================================
