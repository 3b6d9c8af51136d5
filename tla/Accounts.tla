------------------------------ MODULE Accounts ------------------------------
(***************************************************************************)
(* The user_account table and the statements that write it: sign-in by     *)
(* link or by Google, the operator's unlimited flag, scripts/seed_admin.py.*)
(* A row is one element of AccountIds; rows are numbered in the order in   *)
(* which they are inserted (the code draws a uuid4) and are never deleted. *)
(* The two unique columns are constraints of the database: a statement     *)
(* that would break one fails with IntegrityError and changes nothing.     *)
(***************************************************************************)
EXTENDS Integers

CONSTANTS
  AccountIds,          \* possible rows, a set of numbers
  Emails, Subs,        \* normalised addresses, Google subject identifiers
  NoEmail, NoSub       \* no row; google_sub is NULL

VARIABLES email, googleSub, isAdmin, isUnlimited

accountVars == <<email, googleSub, isAdmin, isUnlimited>>

ASSUME AccountsAssumption ==
  /\ AccountIds \subseteq Nat
  /\ NoEmail \notin Emails
  /\ NoSub \notin Subs

AccountsTypeOK ==
  /\ email \in [AccountIds -> Emails \cup {NoEmail}]
  /\ googleSub \in [AccountIds -> Subs \cup {NoSub}]
  /\ isAdmin \in [AccountIds -> BOOLEAN]
  /\ isUnlimited \in [AccountIds -> BOOLEAN]

Exists(a)  == email[a] # NoEmail

(* Fault for the checks: the address is not compared.                      *)
BugByEmail(e) == {a \in AccountIds : Exists(a)}

ByEmail(e) == {a \in AccountIds : email[a] = e}
BySub(s)   == {a \in AccountIds : googleSub[a] = s}

NextId(a) ==
  /\ a \in AccountIds
  /\ ~Exists(a)
  /\ \A b \in AccountIds : ~Exists(b) => a <= b

(* Fault for the checks: user_account.email without its unique constraint. *)
BugUniqueOk(e, s) == s = NoSub \/ BySub(s) = {}

(* A new row with this address and subject breaks no unique constraint.    *)
UniqueOk(e, s) == ByEmail(e) = {} /\ (s = NoSub \/ BySub(s) = {})

InsertAccount(a, e, s, admin) ==
  /\ NextId(a)
  /\ UniqueOk(e, s)
  /\ email' = [email EXCEPT ![a] = e]
  /\ googleSub' = [googleSub EXCEPT ![a] = s]
  /\ isAdmin' = [isAdmin EXCEPT ![a] = admin]
  /\ isUnlimited' = [isUnlimited EXCEPT ![a] = admin]

(* Fault for the checks: the subject is not stored.                        *)
BugSetGoogleSub(a, s) == BySub(s) \subseteq {a} /\ UNCHANGED accountVars

(* UPDATE google_sub of row a, whatever it holds by now.                   *)
SetGoogleSub(a, s) ==
  /\ BySub(s) \subseteq {a}
  /\ googleSub' = [googleSub EXCEPT ![a] = s]
  /\ UNCHANGED <<email, isAdmin, isUnlimited>>

(* UserRepository.set_unlimited.                                           *)
SetUnlimited(a, flag) ==
  /\ Exists(a)
  /\ isUnlimited' = [isUnlimited EXCEPT ![a] = flag]
  /\ UNCHANGED <<email, googleSub, isAdmin>>

(* seed_admin on a row that exists.                                        *)
PromoteAccount(a) ==
  /\ isAdmin' = [isAdmin EXCEPT ![a] = TRUE]
  /\ isUnlimited' = [isUnlimited EXCEPT ![a] = TRUE]
  /\ UNCHANGED <<email, googleSub>>
=============================================================================
