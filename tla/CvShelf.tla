------------------------------ MODULE CvShelf ------------------------------
(***************************************************************************)
(* What the CV library promises about each CV, without requests, replicas  *)
(* or a separate blob store: a CV is stored once, with its file; its text  *)
(* never changes; it is deleted once and for good, not before its file is  *)
(* gone, and its text goes in the same step.  A file that was removed is   *)
(* never back.  CvLibrary implements it.                                   *)
(***************************************************************************)
CONSTANTS Cvs

VARIABLES row, text, file

shelfVars == <<row, text, file>>

Texts == {"readable", "blank"}

ShelfInit ==
  /\ row = [c \in Cvs |-> "absent"]
  /\ text = [c \in Cvs |-> "none"]
  /\ file = [c \in Cvs |-> FALSE]

(* With the in-memory store no file outlives the request.                  *)
Store(c, t, kept) ==
  /\ row[c] = "absent"
  /\ row' = [row EXCEPT ![c] = "active"]
  /\ text' = [text EXCEPT ![c] = t]
  /\ file' = [file EXCEPT ![c] = kept]

DropFile(c) ==
  /\ row[c] = "active"
  /\ file[c]
  /\ file' = [file EXCEPT ![c] = FALSE]
  /\ UNCHANGED <<row, text>>

Remove(c) ==
  /\ row[c] = "active"
  /\ ~file[c]
  /\ row' = [row EXCEPT ![c] = "deleted"]
  /\ text' = [text EXCEPT ![c] = "none"]
  /\ UNCHANGED file

ShelfNext ==
  \E c \in Cvs :
    \/ \E t \in Texts, kept \in BOOLEAN : Store(c, t, kept)
    \/ DropFile(c)
    \/ Remove(c)

ShelfSpec == ShelfInit /\ [][ShelfNext]_shelfVars
=============================================================================
