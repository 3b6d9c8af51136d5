------------------------------ MODULE MCSignIn ------------------------------
(***************************************************************************)
(* Instance of SignIn for TLC: what people do is split into scenarios, so  *)
(* that each combination of requests that share tables is explored with    *)
(* two of them in progress.                                                *)
(***************************************************************************)
EXTENDS SignIn, TLC

Scenario(kinds, replicas, aborts, signedIn, browsers,
         addresses, ticks) ==
  [kinds : {kinds}, oneReplica : replicas, aborts : {aborts},
   signedIn : {signedIn}, browsers : {browsers},
   addresses : {addresses}, ticks : {ticks}]

CONSTANTS q1, q2

Both == {TRUE, FALSE}

MCScenarios ==
  UNION {
    \* links: counting, racing verifications, expiry, the script, Google
    Scenario({"ask"}, {FALSE}, TRUE, FALSE, {}, {"e1", "e2"}, 1),
    Scenario({"ask", "open"}, Both, TRUE, FALSE, {"b1"}, {"e1"}, 1),
    Scenario({"ask", "open"}, {TRUE}, FALSE, FALSE, {"b1"}, {"e1"}, 2),
    Scenario({"ask", "open"}, Both, FALSE, FALSE, {"b1"}, {"e1", "e2"}, 1),
    Scenario({"ask", "open"}, Both, TRUE, TRUE, {"b1"}, {"e2"}, 0),
    Scenario({"ask", "open", "seed"}, {FALSE}, FALSE, FALSE, {"b1"}, {"e1"}, 1),
    Scenario({"ask", "open", "google"}, Both, FALSE, FALSE, {"b1"}, {"e1"}, 0),
    \* Google: two browsers, two subjects with one address
    Scenario({"google"}, Both, TRUE, FALSE, {"b1", "b2"}, {}, 0),
    \* sessions: rotation, refresh, expiry and sign-out
    Scenario({"google", "call", "logout"}, Both, FALSE, TRUE, {"b1"}, {}, 1),
    Scenario({"call", "logout"}, Both, TRUE, TRUE, {"b1"}, {}, 3),
    \* the operator's console
    Scenario({"call", "admin"}, Both, FALSE, TRUE, {"b1"}, {}, 0),
    Scenario({"call", "admin", "seed"}, Both, TRUE, TRUE, {"b1"}, {"e1", "e2"}, 0) }

MCProfiles == {[sub |-> "g1", email |-> "e1"], [sub |-> "g2", email |-> "e1"]}

SlotSymmetry == Permutations(Slots)
=============================================================================
