------------------------- MODULE CvLibrary_proofs -------------------------
(***************************************************************************)
(* The CV library keeps what it promises, for any number of CVs, requests  *)
(* and replicas and whatever requests die: the inductive invariant, the    *)
(* safety properties of CvLibrary, and the refinement of CvShelf.          *)
(***************************************************************************)
EXTENDS CvLibrary, FiniteSetTheorems, TLAPS

Uploading(q) == pc[q] \in {"parse", "timedOut", "put", "insert"}

(* A CV id belongs to one upload until its row exists, and to no other     *)
(* request before.                                                         *)
RequestInv ==
  \A q \in Slots :
    /\ pc[q] # "idle" => cv[q] \in Cvs
    /\ Uploading(q) => row[cv[q]] = "absent"
    /\ pc[q] \in {"put", "insert"} => parser[q] \in Texts
    /\ pc[q] \in {"deleteBlob", "softDelete"} => row[cv[q]] # "absent"
    /\ pc[q] = "softDelete" => cv[q] \notin blob
    /\ \A p \in Slots : Uploading(p) /\ Uploading(q) /\ cv[p] = cv[q] => p = q

(* What has been deleted is gone.                                          *)
DeletedInv ==
  \A c \in Cvs :
    /\ c \in confirmed => row[c] = "deleted"
    /\ row[c] = "deleted" => c \notin blob /\ text[c] = "none"

LibraryInv == CvTypeOK /\ RequestInv /\ DeletedInv

(* The invariant holds of the empty library. *)
LEMMA InitLibraryInv == Init => LibraryInv
BY CvLibraryAssumption
   DEF Init, LibraryInv, CvTypeOK, RequestInv, DeletedInv, Uploading, Steps,
       LoopSteps, ParserStates, Texts

(* Every step of a request keeps every variable in its type. *)
LEMMA NextTypeOK == LibraryInv /\ [Next]_vars => CvTypeOK'
<1> SUFFICES ASSUME LibraryInv, [Next]_vars PROVE CvTypeOK'
  OBVIOUS
<1> USE CvLibraryAssumption
    DEF LibraryInv, CvTypeOK, RequestInv, Uploading, Steps, LoopSteps, ParserStates,
        Texts, Goto, Done, UploadUnchanged, SuggestUnchanged, tableVars, suggestVars
<1>1. ASSUME NEW q \in Slots, Upload(q) PROVE CvTypeOK'
  BY <1>1 DEF Upload, NextCv, Fresh
<1>2. ASSUME NEW q \in Slots, ParseTimeout(q) PROVE CvTypeOK'
  BY <1>2 DEF ParseTimeout
<1>3. ASSUME NEW q \in Slots, NEW c \in Cvs, Delete(q, c) PROVE CvTypeOK'
  BY <1>3 DEF Delete, DeleteOrder
<1>4. ASSUME NEW q \in Slots, NEW c \in Cvs, Suggest(q, c) PROVE CvTypeOK'
  BY <1>4 DEF Suggest
<1>5. ASSUME NEW q \in Slots, Proceed(q) PROVE CvTypeOK'
  <2>1. ASSUME NEW r \in Texts \cup {"error"}, ParserEnds(q, r) PROVE CvTypeOK'
    BY <2>1 DEF ParserEnds
  <2>2. CASE Parsed(q)
    BY <2>2 DEF Parsed
  <2>3. CASE RefuseUpload(q)
    BY <2>3 DEF RefuseUpload
  <2>4. CASE PutBlob(q)
    <3>1. blob' \subseteq Cvs
      BY ZenonT(40), <2>4 DEF PutBlob
    <3> QED
      BY <2>4, <3>1 DEF PutBlob
  <2>5. CASE InsertRow(q)
    BY <2>5 DEF InsertRow
  <2>6. CASE DeleteBlob(q)
    <3>1. blob' \subseteq Cvs /\ confirmed' = confirmed /\ cv' = cv
      BY <2>6 DEF DeleteBlob, BlobsWithout, DeleteStepDone, DeleteOrder
    <3> QED
      BY <2>6, <3>1 DEF DeleteBlob, DeleteStepDone, DeleteOrder
  <2>7. CASE SoftDelete(q)
    <3>1. confirmed' \in SUBSET Cvs
      <4>1. confirmed' = confirmed \cup {cv[q]} /\ cv[q] \in Cvs
        BY <2>7 DEF SoftDelete, DeleteStepDone, DeleteOrder
      <4> QED
        BY ZenonT(40), <4>1
    <3>2. Done(q)
      BY <2>7 DEF SoftDelete, DeleteStepDone, DeleteOrder
    <3>3. /\ row' \in [Cvs -> {"absent", "active", "deleted"}]
          /\ text' \in [Cvs -> Texts \cup {"none"}]
      BY <2>7 DEF SoftDelete, TextAfterDelete
    <3> QED
      BY <2>7, <3>1, <3>2, <3>3 DEF SoftDelete
  <2>8. CASE SuggestWithoutText(q)
    BY <2>8 DEF SuggestWithoutText
  <2>9. CASE AskForTitles(q)
    BY <2>9 DEF AskForTitles
  <2>10. CASE TitlesUnusable(q)
    BY <2>10 DEF TitlesUnusable
  <2>11. CASE TitlesReceived(q)
    BY <2>11 DEF TitlesReceived, AfterTitles
  <2>12. CASE AuditSuggestion(q)
    BY <2>12 DEF AuditSuggestion
  <2>13. CASE AnswerSuggestion(q)
    BY <2>13 DEF AnswerSuggestion
  <2> QED
    BY <1>5, <2>1, <2>2, <2>3, <2>4, <2>5, <2>6, <2>7, <2>8, <2>9, <2>10, <2>11,
       <2>12, <2>13 DEF Proceed, HandlerStep
<1>6. ASSUME NEW q \in Slots, Abort(q) PROVE CvTypeOK'
  BY <1>6 DEF Abort
<1>7. CASE UNCHANGED vars
  BY <1>7 DEF vars
<1> QED
  BY <1>1, <1>2, <1>3, <1>4, <1>5, <1>6, <1>7 DEF Next

(* The requests stay apart, and what is deleted stays gone: a step that    *)
(* ends a request, with or without its effect, disturbs no other.          *)
LEMMA NextRequestInv == LibraryInv /\ [Next]_vars => RequestInv' /\ DeletedInv'
<1> SUFFICES ASSUME LibraryInv, [Next]_vars PROVE RequestInv' /\ DeletedInv'
  OBVIOUS
<1> USE CvLibraryAssumption
    DEF LibraryInv, CvTypeOK, RequestInv, DeletedInv, Uploading, Steps, LoopSteps,
        ParserStates, Texts, Goto, Done, UploadUnchanged, SuggestUnchanged, tableVars,
        suggestVars
<1>1. ASSUME NEW q \in Slots, Upload(q) PROVE RequestInv' /\ DeletedInv'
  BY <1>1 DEF Upload, NextCv, Fresh
<1>2. ASSUME NEW q \in Slots, ParseTimeout(q) PROVE RequestInv' /\ DeletedInv'
  BY <1>2 DEF ParseTimeout
<1>3. ASSUME NEW q \in Slots, NEW c \in Cvs, Delete(q, c) PROVE RequestInv' /\ DeletedInv'
  BY <1>3 DEF Delete, DeleteOrder
<1>4. ASSUME NEW q \in Slots, NEW c \in Cvs, Suggest(q, c) PROVE RequestInv' /\ DeletedInv'
  BY <1>4 DEF Suggest
<1>5. ASSUME NEW q \in Slots, Proceed(q) PROVE RequestInv' /\ DeletedInv'
  <2>1. ASSUME NEW r \in Texts \cup {"error"}, ParserEnds(q, r)
        PROVE RequestInv' /\ DeletedInv'
    BY <2>1 DEF ParserEnds
  <2>2. CASE Parsed(q)
    BY <2>2 DEF Parsed, HasText
  <2>3. CASE RefuseUpload(q)
    BY <2>3 DEF RefuseUpload
  <2>4. CASE PutBlob(q)
    BY <2>4 DEF PutBlob
  <2>5. CASE InsertRow(q)
    BY <2>5 DEF InsertRow
  <2>6. CASE DeleteBlob(q)
    BY <2>6 DEF DeleteBlob, BlobsWithout, DeleteStepDone, DeleteOrder
  <2>7. CASE SoftDelete(q)
    BY <2>7 DEF SoftDelete, TextAfterDelete, DeleteStepDone, DeleteOrder
  <2>8. CASE SuggestWithoutText(q)
    BY <2>8 DEF SuggestWithoutText
  <2>9. CASE AskForTitles(q)
    BY <2>9 DEF AskForTitles
  <2>10. CASE TitlesUnusable(q)
    BY <2>10 DEF TitlesUnusable
  <2>11. CASE TitlesReceived(q)
    BY <2>11 DEF TitlesReceived, AfterTitles
  <2>12. CASE AuditSuggestion(q)
    BY <2>12 DEF AuditSuggestion
  <2>13. CASE AnswerSuggestion(q)
    BY <2>13 DEF AnswerSuggestion
  <2> QED
    BY <1>5, <2>1, <2>2, <2>3, <2>4, <2>5, <2>6, <2>7, <2>8, <2>9, <2>10, <2>11,
       <2>12, <2>13 DEF Proceed, HandlerStep
<1>6. ASSUME NEW q \in Slots, Abort(q) PROVE RequestInv' /\ DeletedInv'
  BY <1>6 DEF Abort
<1>7. CASE UNCHANGED vars
  BY <1>7 DEF vars
<1> QED
  BY <1>1, <1>2, <1>3, <1>4, <1>5, <1>6, <1>7 DEF Next

(* The inductive invariant of the library. *)
LEMMA LibraryInvariant == Spec => []LibraryInv
<1>1. LibraryInv /\ [Next]_vars => LibraryInv'
  BY NextTypeOK, NextRequestInv DEF LibraryInv
<1> QED
  BY <1>1, InitLibraryInv, PTL DEF Spec

(* Every reachable state is well typed. *)
THEOREM CvTypeCorrect == Spec => []CvTypeOK
<1>1. LibraryInv => CvTypeOK
  BY DEF LibraryInv
<1> QED BY <1>1, LibraryInvariant, PTL

(* Once a deletion is recorded or was confirmed, neither file nor text of  *)
(* the CV is left, although row and blob have no common transaction and    *)
(* any request may die between them.                                       *)
THEOREM DeletedStaysGone == Spec => []DeletedIsGone
<1>1. LibraryInv => DeletedIsGone
  BY DEF LibraryInv, DeletedInv, DeletedIsGone
<1> QED BY <1>1, LibraryInvariant, PTL

-----------------------------------------------------------------------------
(* Table and store, where no request dies half-way.                        *)

Busy(c) == \E q \in Slots : cv[q] = c /\ pc[q] \in {"insert", "deleteBlob", "softDelete"}

FilesInv ==
  ~scenario.aborts /\ scenario.backend = "remote" =>
    /\ \A q \in Slots : pc[q] = "insert" => cv[q] \in blob
    /\ \A c \in Cvs : (c \in blob <=> row[c] = "active") \/ Busy(c)

(* The three requests that touch row or blob keep them in agreement, every *)
(* other step leaves row, blob and the requests at work on a CV alone.     *)
LEMMA NextFilesInv == LibraryInv /\ FilesInv /\ [Next]_vars => FilesInv'
<1> SUFFICES ASSUME LibraryInv, FilesInv, [Next]_vars PROVE FilesInv'
  OBVIOUS
<1> USE CvLibraryAssumption
    DEF LibraryInv, CvTypeOK, RequestInv, DeletedInv, Uploading, Steps, LoopSteps,
        ParserStates, Texts, Goto, Done, UploadUnchanged, SuggestUnchanged, tableVars,
        suggestVars, FilesInv, Busy
<1>1. ASSUME NEW q \in Slots, Upload(q) PROVE FilesInv'
  BY <1>1 DEF Upload, NextCv, Fresh
<1>2. ASSUME NEW q \in Slots, ParseTimeout(q) PROVE FilesInv'
  BY <1>2 DEF ParseTimeout
<1>3. ASSUME NEW q \in Slots, NEW c \in Cvs, Delete(q, c) PROVE FilesInv'
  BY <1>3 DEF Delete, DeleteOrder
<1>4. ASSUME NEW q \in Slots, NEW c \in Cvs, Suggest(q, c) PROVE FilesInv'
  BY <1>4 DEF Suggest
<1>5. ASSUME NEW q \in Slots, Proceed(q) PROVE FilesInv'
  <2>1. ASSUME NEW r \in Texts \cup {"error"}, ParserEnds(q, r) PROVE FilesInv'
    BY <2>1 DEF ParserEnds
  <2>2. CASE Parsed(q)
    BY <2>2 DEF Parsed, HasText
  <2>3. CASE RefuseUpload(q)
    BY <2>3 DEF RefuseUpload, ParseFailed
  <2>4. CASE PutBlob(q)
    BY <2>4 DEF PutBlob
  <2>5. CASE InsertRow(q)
    BY <2>5 DEF InsertRow
  <2>6. CASE DeleteBlob(q)
    BY <2>6 DEF DeleteBlob, BlobsWithout, DeleteStepDone, DeleteOrder
  <2>7. CASE SoftDelete(q)
    BY <2>7 DEF SoftDelete, TextAfterDelete, DeleteStepDone, DeleteOrder
  <2>8. CASE SuggestWithoutText(q)
    BY <2>8 DEF SuggestWithoutText
  <2>9. CASE AskForTitles(q)
    BY <2>9 DEF AskForTitles
  <2>10. CASE TitlesUnusable(q)
    BY <2>10 DEF TitlesUnusable
  <2>11. CASE TitlesReceived(q)
    BY <2>11 DEF TitlesReceived, AfterTitles
  <2>12. CASE AuditSuggestion(q)
    BY <2>12 DEF AuditSuggestion
  <2>13. CASE AnswerSuggestion(q)
    BY <2>13 DEF AnswerSuggestion
  <2> QED
    BY <1>5, <2>1, <2>2, <2>3, <2>4, <2>5, <2>6, <2>7, <2>8, <2>9, <2>10, <2>11,
       <2>12, <2>13 DEF Proceed, HandlerStep
<1>6. ASSUME NEW q \in Slots, Abort(q) PROVE FilesInv'
  BY <1>6 DEF Abort
<1>7. CASE UNCHANGED vars
  BY <1>7 DEF vars
<1> QED
  BY <1>1, <1>2, <1>3, <1>4, <1>5, <1>6, <1>7 DEF Next

(* Where no request dies half-way and the store is remote, every active CV *)
(* has its file and every file its active CV, but for the CVs a request is *)
(* at work on.                                                             *)
THEOREM FilesMatch == Spec => []FilesMatchRows
<1>1. Init => FilesInv
  BY CvLibraryAssumption DEF Init, FilesInv, Busy
<1>2. LibraryInv /\ FilesInv /\ [Next]_vars => FilesInv'
  BY NextFilesInv
<1>3. FilesInv => FilesMatchRows
  BY DEF FilesInv, FilesMatchRows, Busy
<1> QED
  BY <1>1, <1>2, <1>3, LibraryInvariant, PTL DEF Spec

-----------------------------------------------------------------------------
(* Suggestions and their audit entries.                                    *)

(* Called and not yet audited, audited and not yet answered.               *)
Paid == {q \in Slots : pc[q] \in {"complete", "audit"}}
Audited == {q \in Slots : pc[q] = "answer"}

AuditInv ==
  /\ audited + Cardinality(Paid) <= calls
  /\ answered + Cardinality(Audited) <= audited

(* A set of requests is finite, and grows and shrinks by one.              *)
LEMMA SlotCounts ==
  ASSUME NEW S \in SUBSET Slots, NEW q \in Slots
  PROVE  /\ Cardinality(S) \in Nat
         /\ \A T \in SUBSET S : Cardinality(T) \in Nat /\ Cardinality(T) <= Cardinality(S)
         /\ q \notin S => Cardinality(S \cup {q}) = Cardinality(S) + 1
         /\ q \in S => Cardinality(S \ {q}) = Cardinality(S) - 1
<1>1. IsFiniteSet(S)
  BY CvLibraryAssumption, FS_Subset
<1>2. Cardinality(S) \in Nat
  BY <1>1, FS_CardinalityType
<1>3. ASSUME NEW T \in SUBSET S
      PROVE  Cardinality(T) \in Nat /\ Cardinality(T) <= Cardinality(S)
  <2>1. IsFiniteSet(T)
    BY <1>1, <1>3, FS_Subset
  <2> QED
    BY <1>1, <2>1, FS_Subset, FS_CardinalityType
<1>4. q \notin S => Cardinality(S \cup {q}) = Cardinality(S) + 1
  BY <1>1, FS_AddElement
<1>5. q \in S => Cardinality(S \ {q}) = Cardinality(S) - 1
  BY <1>1, FS_RemoveElement
<1> QED
  BY <1>2, <1>3, <1>4, <1>5

(* A step that adds no request to either set and counts nothing keeps the  *)
(* inequalities, also when a request of theirs dies.                       *)
LEMMA NothingCounted ==
  ASSUME CvTypeOK, AuditInv, UNCHANGED suggestVars,
         Paid' \subseteq Paid, Audited' \subseteq Audited
  PROVE  AuditInv'
<1>1. Paid \in SUBSET Slots /\ Audited \in SUBSET Slots
  BY DEF Paid, Audited
<1>2. ASSUME Slots # {} PROVE AuditInv'
  <2> PICK q \in Slots : TRUE
    BY <1>2
  <2>1. /\ Cardinality(Paid) \in Nat /\ Cardinality(Paid') \in Nat
        /\ Cardinality(Paid') <= Cardinality(Paid)
    BY <1>1, SlotCounts
  <2>2. /\ Cardinality(Audited) \in Nat /\ Cardinality(Audited') \in Nat
        /\ Cardinality(Audited') <= Cardinality(Audited)
    BY <1>1, SlotCounts
  <2> QED
    BY <2>1, <2>2 DEF AuditInv, CvTypeOK, suggestVars
<1>3. ASSUME Slots = {} PROVE AuditInv'
  <2>1. Paid' = Paid /\ Audited' = Audited
    BY <1>1, <1>3
  <2> QED
    BY <2>1 DEF AuditInv, suggestVars
<1> QED
  BY <1>2, <1>3

(* Calls, entries and answers are counted in that order.                   *)
LEMMA NextAuditInv == LibraryInv /\ AuditInv /\ [Next]_vars => AuditInv'
<1> SUFFICES ASSUME LibraryInv, AuditInv, [Next]_vars PROVE AuditInv'
  OBVIOUS
<1>0. CvTypeOK /\ pc \in [Slots -> Steps]
  BY DEF LibraryInv, CvTypeOK
<1> USE DEF Goto, Done, UploadUnchanged, SuggestUnchanged, tableVars, suggestVars, Paid, Audited
<1>1. ASSUME NEW q \in Slots, Upload(q) PROVE AuditInv'
  BY <1>0, <1>1, NothingCounted DEF Upload
<1>2. ASSUME NEW q \in Slots, ParseTimeout(q) PROVE AuditInv'
  BY <1>0, <1>2, NothingCounted DEF ParseTimeout
<1>3. ASSUME NEW q \in Slots, NEW c \in Cvs, Delete(q, c) PROVE AuditInv'
  BY <1>0, <1>3, NothingCounted DEF Delete, DeleteOrder
<1>4. ASSUME NEW q \in Slots, NEW c \in Cvs, Suggest(q, c) PROVE AuditInv'
  BY <1>0, <1>4, NothingCounted DEF Suggest
<1>5. ASSUME NEW q \in Slots, Proceed(q) PROVE AuditInv'
  <2>1. ASSUME NEW r \in Texts \cup {"error"}, ParserEnds(q, r) PROVE AuditInv'
    BY <1>0, <2>1, NothingCounted DEF ParserEnds
  <2>2. CASE Parsed(q)
    BY <1>0, <2>2, NothingCounted DEF Parsed
  <2>3. CASE RefuseUpload(q)
    BY <1>0, <2>3, NothingCounted DEF RefuseUpload
  <2>4. CASE PutBlob(q)
    BY <1>0, <2>4, NothingCounted DEF PutBlob
  <2>5. CASE InsertRow(q)
    BY <1>0, <2>5, NothingCounted DEF InsertRow
  <2>6. CASE DeleteBlob(q)
    BY <1>0, <2>6, NothingCounted DEF DeleteBlob, DeleteStepDone, DeleteOrder
  <2>7. CASE SoftDelete(q)
    BY <1>0, <2>7, NothingCounted DEF SoftDelete, DeleteStepDone, DeleteOrder
  <2>8. CASE SuggestWithoutText(q)
    BY <1>0, <2>8, NothingCounted DEF SuggestWithoutText
  <2>9. CASE AskForTitles(q)
    <3>1. Paid' = Paid \cup {q} /\ q \notin Paid /\ Audited' = Audited
      BY <1>0, <2>9 DEF AskForTitles
    <3>2. Cardinality(Paid') = Cardinality(Paid) + 1 /\ Cardinality(Paid) \in Nat
      BY <3>1, SlotCounts
    <3> HIDE DEF Paid, Audited
    <3> QED
      BY <1>0, <2>9, <3>1, <3>2 DEF AskForTitles, AuditInv, CvTypeOK
  <2>10. CASE TitlesUnusable(q)
    BY <1>0, <2>10, NothingCounted DEF TitlesUnusable
  <2>11. CASE TitlesReceived(q)
    BY <1>0, <2>11, NothingCounted DEF TitlesReceived, AfterTitles
  <2>12. CASE AuditSuggestion(q)
    <3>1. /\ Paid' = Paid \ {q} /\ q \in Paid
          /\ Audited' = Audited \cup {q} /\ q \notin Audited
      BY <1>0, <2>12 DEF AuditSuggestion
    <3>2. Cardinality(Paid') = Cardinality(Paid) - 1 /\ Cardinality(Paid) \in Nat
      BY <3>1, SlotCounts
    <3>3. /\ Cardinality(Audited') = Cardinality(Audited) + 1
          /\ Cardinality(Audited) \in Nat
      BY <3>1, SlotCounts
    <3> HIDE DEF Paid, Audited
    <3> QED
      BY <1>0, <2>12, <3>2, <3>3 DEF AuditSuggestion, AuditInv, CvTypeOK
  <2>13. CASE AnswerSuggestion(q)
    <3>1. Audited' = Audited \ {q} /\ q \in Audited /\ Paid' = Paid
      BY <1>0, <2>13 DEF AnswerSuggestion
    <3>2. /\ Cardinality(Audited') = Cardinality(Audited) - 1
          /\ Cardinality(Audited) \in Nat
      BY <3>1, SlotCounts
    <3> HIDE DEF Paid, Audited
    <3> QED
      BY <1>0, <2>13, <3>1, <3>2 DEF AnswerSuggestion, AuditInv, CvTypeOK
  <2> QED
    BY <1>5, <2>1, <2>2, <2>3, <2>4, <2>5, <2>6, <2>7, <2>8, <2>9, <2>10, <2>11,
       <2>12, <2>13 DEF Proceed, HandlerStep
<1>6. ASSUME NEW q \in Slots, Abort(q) PROVE AuditInv'
  BY <1>0, <1>6, NothingCounted DEF Abort
<1>7. CASE UNCHANGED vars
  BY <1>0, <1>7, NothingCounted DEF vars
<1> QED
  BY <1>1, <1>2, <1>3, <1>4, <1>5, <1>6, <1>7 DEF Next

(* No suggestion reaches the user without its audit entry, and no entry is *)
(* written without a call, whatever requests die in between.               *)
THEOREM SuggestionsAudited == Spec => []SuggestionAudited
<1>1. Init => AuditInv
  <2> SUFFICES ASSUME Init PROVE AuditInv
    OBVIOUS
  <2>1. Paid = {} /\ Audited = {}
    BY DEF Init, Paid, Audited
  <2> QED
    BY <2>1, FS_EmptySet DEF Init, AuditInv
<1>2. LibraryInv /\ AuditInv /\ [Next]_vars => AuditInv'
  BY NextAuditInv
<1>3. LibraryInv /\ AuditInv => SuggestionAudited
  <2> SUFFICES ASSUME LibraryInv, AuditInv PROVE SuggestionAudited
    OBVIOUS
  <2>1. ASSUME NEW S \in SUBSET Slots PROVE Cardinality(S) \in Nat
    BY <2>1, CvLibraryAssumption, FS_Subset, FS_CardinalityType
  <2>2. Cardinality(Paid) \in Nat /\ Cardinality(Audited) \in Nat
    BY <2>1 DEF Paid, Audited
  <2> QED
    BY <2>2 DEF LibraryInv, CvTypeOK, AuditInv, SuggestionAudited
<1> QED
  BY <1>1, <1>2, <1>3, LibraryInvariant, PTL DEF Spec

-----------------------------------------------------------------------------
(* The refinement.                                                         *)

(* The empty library is an empty shelf. *)
LEMMA InitShelf == Init => Shelf!ShelfInit
BY DEF Init, Shelf!ShelfInit

(* Only storing the row, removing the blob and clearing the row show on    *)
(* the shelf; everything else is a stutter.                                *)
LEMMA NextShelf == LibraryInv /\ [Next]_vars => [Shelf!ShelfNext]_Shelf!shelfVars
<1> SUFFICES ASSUME LibraryInv, [Next]_vars PROVE [Shelf!ShelfNext]_Shelf!shelfVars
  OBVIOUS
<1>0. /\ row \in [Cvs -> {"absent", "active", "deleted"}]
      /\ text \in [Cvs -> Texts \cup {"none"}]
      /\ cv \in [Slots -> Cvs \cup {NoCv}]
      /\ RequestInv /\ DeletedInv
  BY DEF LibraryInv, CvTypeOK
<1> DEFINE File == [c \in Cvs |-> c \in blob /\ row[c] # "absent"]
<1>1. ASSUME row' = row, text' = text, File' = File
      PROVE  [Shelf!ShelfNext]_Shelf!shelfVars
  BY <1>1 DEF Shelf!shelfVars
<1>2. ASSUME UNCHANGED <<row, text, blob>> PROVE [Shelf!ShelfNext]_Shelf!shelfVars
  BY <1>1, <1>2
<1>3. ASSUME NEW q \in Slots, PutBlob(q) PROVE [Shelf!ShelfNext]_Shelf!shelfVars
  <2>1. row[cv[q]] = "absent"
    BY <1>0, <1>3 DEF PutBlob, RequestInv, Uploading
  <2>2. row' = row /\ text' = text /\ blob' \subseteq blob \cup {cv[q]} /\ blob \subseteq blob'
    BY <1>3 DEF PutBlob, tableVars
  <2>3. File' = File
    BY <2>1, <2>2
  <2> QED
    BY <1>1, <2>2, <2>3
<1>4. ASSUME NEW q \in Slots, InsertRow(q) PROVE [Shelf!ShelfNext]_Shelf!shelfVars
  <2> DEFINE c == cv[q]
  <2>1. c \in Cvs /\ row[c] = "absent" /\ parser[q] \in Texts
    BY <1>0, <1>4 DEF InsertRow, RequestInv, Uploading
  <2>2. /\ row' = [row EXCEPT ![c] = "active"]
        /\ text' = [text EXCEPT ![c] = parser[q]]
        /\ blob' = blob
    BY <1>4 DEF InsertRow
  <2>3. CASE c \in blob
    <3>1. File' = [File EXCEPT ![c] = TRUE]
      BY <1>0, <2>1, <2>2, <2>3
    <3>2. Shelf!Store(c, parser[q], TRUE)
      BY <2>1, <2>2, <3>1 DEF Shelf!Store
    <3>3. Shelf!ShelfNext
      BY <2>1, <3>2 DEF Shelf!ShelfNext, Shelf!Texts, Texts
    <3> QED
      BY <3>3
  <2>4. CASE c \notin blob
    <3>1. File' = [File EXCEPT ![c] = FALSE]
      BY <1>0, <2>1, <2>2, <2>4
    <3>2. Shelf!Store(c, parser[q], FALSE)
      BY <2>1, <2>2, <3>1 DEF Shelf!Store
    <3>3. Shelf!ShelfNext
      BY <2>1, <3>2 DEF Shelf!ShelfNext, Shelf!Texts, Texts
    <3> QED
      BY <3>3
  <2> QED
    BY <2>3, <2>4
<1>5. ASSUME NEW q \in Slots, DeleteBlob(q) PROVE [Shelf!ShelfNext]_Shelf!shelfVars
  <2> DEFINE c == cv[q]
  <2>1. c \in Cvs /\ row[c] # "absent"
    BY <1>0, <1>5 DEF DeleteBlob, RequestInv
  <2>2. row' = row /\ text' = text /\ blob' = blob \ {c}
    BY <1>5 DEF DeleteBlob, BlobsWithout, tableVars
  <2>3. CASE c \in blob
    <3>1. row[c] = "active"
      BY <1>0, <2>1, <2>3 DEF DeletedInv
    <3>2. File[c] /\ File' = [File EXCEPT ![c] = FALSE]
      BY <2>1, <2>2, <2>3
    <3>3. Shelf!ShelfNext
      BY <2>1, <2>2, <3>1, <3>2 DEF Shelf!ShelfNext, Shelf!DropFile
    <3> QED
      BY <3>3
  <2>4. CASE c \notin blob
    <3>1. blob' = blob
      BY <2>2, <2>4
    <3> QED
      BY <1>2, <2>2, <3>1
  <2> QED
    BY <2>3, <2>4
<1>6. ASSUME NEW q \in Slots, SoftDelete(q) PROVE [Shelf!ShelfNext]_Shelf!shelfVars
  <2> DEFINE c == cv[q]
  <2>1. c \in Cvs /\ row[c] # "absent" /\ c \notin blob
    BY <1>0, <1>6 DEF SoftDelete, RequestInv
  <2>2. /\ row' = [row EXCEPT ![c] = "deleted"]
        /\ text' = [text EXCEPT ![c] = "none"]
        /\ blob' = blob
    BY <1>6 DEF SoftDelete, TextAfterDelete
  <2>3. ~File[c] /\ File' = File
    BY <1>0, <2>1, <2>2
  <2>4. CASE row[c] = "active"
    <3>1. Shelf!Remove(c)
      BY <2>2, <2>3, <2>4 DEF Shelf!Remove
    <3> QED
      BY <2>1, <3>1 DEF Shelf!ShelfNext
  <2>5. CASE row[c] = "deleted"
    <3>1. text[c] = "none"
      BY <1>0, <2>1, <2>5 DEF DeletedInv
    <3>2. row' = row /\ text' = text
      BY <1>0, <2>1, <2>2, <2>5, <3>1
    <3> QED
      BY <1>1, <2>3, <3>2
  <2> QED
    BY <1>0, <2>1, <2>4, <2>5
<1>7. ASSUME NEW q \in Slots, Proceed(q), ~PutBlob(q), ~InsertRow(q), ~DeleteBlob(q),
             ~SoftDelete(q)
      PROVE  UNCHANGED <<row, text, blob>>
  BY <1>7 DEF Proceed, HandlerStep, ParserEnds, Parsed, RefuseUpload,
     SuggestWithoutText, AskForTitles, TitlesUnusable, TitlesReceived, AuditSuggestion, AnswerSuggestion, UploadUnchanged,
     SuggestUnchanged, tableVars
<1>8. ASSUME NEW q \in Slots,
             \/ Upload(q) \/ ParseTimeout(q) \/ Abort(q)
             \/ \E c \in Cvs : Delete(q, c) \/ Suggest(q, c)
      PROVE  UNCHANGED <<row, text, blob>>
  BY <1>8 DEF Upload, ParseTimeout, Abort, Delete, Suggest, SuggestUnchanged, tableVars
<1>9. CASE UNCHANGED vars
  BY <1>2, <1>9 DEF vars, tableVars
<1> QED
  BY <1>2, <1>3, <1>4, <1>5, <1>6, <1>7, <1>8, <1>9 DEF Next

(* The library implements the shelf: a CV is stored once with its file,    *)
(* and removed once, the file no later than the row and its text.          *)
THEOREM LibraryImplementsShelf == Spec => ImplementsShelf
<1>1. LibraryInv /\ [Next]_vars => [Shelf!ShelfNext]_Shelf!shelfVars
  BY NextShelf
<1> QED
  BY <1>1, InitShelf, LibraryInvariant, PTL DEF Spec, ImplementsShelf, Shelf!ShelfSpec

-----------------------------------------------------------------------------
(* The safety half of RequestsEndIfParsersDo: no deadlock, and finitely    *)
(* many steps per request.                                                 *)

(* The most steps a request has left before it is answered.                *)
StepsLeft(q) ==
  CASE pc[q] = "idle" -> 0
    [] pc[q] = "parse" -> IF parser[q] = "running" THEN 5 ELSE 3
    [] pc[q] = "timedOut" -> IF parser[q] = "running" THEN 4 ELSE 1
    [] pc[q] = "put" -> 2
    [] pc[q] = "insert" -> 1
    [] pc[q] = "deleteBlob" -> 2
    [] pc[q] = "softDelete" -> 1
    [] pc[q] = "suggest" -> 4
    [] pc[q] = "complete" -> 3
    [] pc[q] = "audit" -> 2
    [] pc[q] = "answer" -> 1

(* A request waits for no other request; an upload may wait for its own    *)
(* parser thread, which was started.                                       *)
NotWaiting(q) ==
  /\ pc[q] \in {"parse", "timedOut"} => parser[q] # "none"
  /\ pc[q] = "suggest" => LoopFree(q)

(* No request waits for one that waits for a third: a request goes on now, *)
(* but for its parser thread, or waits for the handler that has its        *)
(* replica's event loop, and that one goes on now, but for its own thread. *)
NobodyStuck ==
  \A q \in Slots :
    \/ pc[q] = "idle"
    \/ NotWaiting(q)
    \/ \E p \in Slots \ {q} : pc[p] \in LoopSteps /\ NotWaiting(p)

(* Every step of a request, a timeout included, brings it closer to its    *)
(* answer, and no step of another request takes it back.                   *)
RequestsAdvance ==
  [][\A q \in Slots :
       pc[q] # "idle" =>
         \/ StepsLeft(q)' < StepsLeft(q)
         \/ UNCHANGED <<pc[q], parser[q]>>]_vars

(* A waiting upload has its parser, only uploads have one at work, and     *)
(* with one replica one handler at most has the event loop.                *)
WaitInv ==
  /\ \A q \in Slots : pc[q] \in {"parse", "timedOut"} => parser[q] # "none"
  /\ \A q \in Slots : parser[q] = "running" => pc[q] \in {"parse", "timedOut"}
  /\ scenario.oneReplica =>
       \A p, q \in Slots : pc[p] \in LoopSteps /\ pc[q] \in LoopSteps => p = q

(* One step of a request, seen from all of them: the one that moves has    *)
(* fewer steps left, the others are where they were.                       *)
LEMMA StepAdvances ==
  ASSUME LibraryInv, WaitInv, NEW q \in Slots, Proceed(q) \/ ParseTimeout(q)
  PROVE  /\ StepsLeft(q)' < StepsLeft(q)
         /\ \A p \in Slots \ {q} : UNCHANGED <<pc[p], parser[p]>>
         /\ WaitInv'
<1> USE DEF LibraryInv, CvTypeOK, WaitInv, LoopSteps, Texts, ParserStates, Steps,
            Goto, Done, UploadUnchanged, SuggestUnchanged, suggestVars, tableVars
<1>1. ASSUME NEW r \in Texts \cup {"error"}, ParserEnds(q, r)
      PROVE  /\ StepsLeft(q)' < StepsLeft(q)
             /\ \A p \in Slots \ {q} : UNCHANGED <<pc[p], parser[p]>>
             /\ WaitInv'
  BY <1>1 DEF ParserEnds, StepsLeft
<1>2. CASE Parsed(q) \/ ParseTimeout(q)
  BY <1>2 DEF Parsed, ParseTimeout, StepsLeft, HasText
<1>3. CASE RefuseUpload(q)
  BY <1>3 DEF RefuseUpload, ParseFailed, StepsLeft
<1>4. CASE PutBlob(q) \/ InsertRow(q)
  BY <1>4 DEF PutBlob, InsertRow, StepsLeft
<1>5. CASE DeleteBlob(q) \/ SoftDelete(q)
  BY <1>5 DEF DeleteBlob, SoftDelete, DeleteStepDone, DeleteOrder, StepsLeft
<1>6. CASE SuggestWithoutText(q) \/ AskForTitles(q)
  BY <1>6 DEF SuggestWithoutText, AskForTitles, LoopFree, StepsLeft
<1>7. CASE TitlesUnusable(q) \/ TitlesReceived(q)
  BY <1>7 DEF TitlesUnusable, TitlesReceived, AfterTitles, StepsLeft
<1>8. CASE AuditSuggestion(q) \/ AnswerSuggestion(q)
  BY <1>8 DEF AuditSuggestion, AnswerSuggestion, StepsLeft
<1> QED BY <1>1, <1>2, <1>3, <1>4, <1>5, <1>6, <1>7, <1>8 DEF Proceed, HandlerStep

(* A new request, or the end of one, does not touch the others.            *)
LEMMA ArrivalKeepsOthers ==
  ASSUME LibraryInv, WaitInv, NEW q \in Slots,
         \/ Upload(q)
         \/ \E c \in Cvs : Delete(q, c) \/ Suggest(q, c)
  PROVE  /\ pc[q] = "idle"
         /\ \A p \in Slots \ {q} : UNCHANGED <<pc[p], parser[p]>>
         /\ WaitInv'
<1> USE DEF LibraryInv, CvTypeOK, WaitInv, LoopSteps, LoopFree, Goto, UploadUnchanged,
            SuggestUnchanged
<1>1. CASE Upload(q)
  BY <1>1 DEF Upload
<1>2. ASSUME NEW c \in Cvs, Delete(q, c)
      PROVE  /\ pc[q] = "idle"
             /\ \A p \in Slots \ {q} : UNCHANGED <<pc[p], parser[p]>>
             /\ WaitInv'
  BY <1>2 DEF Delete, DeleteOrder
<1>3. ASSUME NEW c \in Cvs, Suggest(q, c)
      PROVE  /\ pc[q] = "idle"
             /\ \A p \in Slots \ {q} : UNCHANGED <<pc[p], parser[p]>>
             /\ WaitInv'
  BY <1>3 DEF Suggest
<1> QED BY <1>1, <1>2, <1>3

(* A death leaves no steps.                                                *)
LEMMA DeathAdvances ==
  ASSUME LibraryInv, WaitInv, NEW q \in Slots, Abort(q)
  PROVE  /\ StepsLeft(q)' < StepsLeft(q)
         /\ \A p \in Slots \ {q} : UNCHANGED <<pc[p], parser[p]>>
         /\ WaitInv'
  BY DEF Abort, Done, Goto, StepsLeft, LibraryInv, CvTypeOK, Steps, WaitInv, LoopSteps

(* Every step, seen from every request.                                    *)
LEMMA NextAdvances ==
  ASSUME LibraryInv, WaitInv, [Next]_vars
  PROVE  /\ WaitInv'
         /\ \A q \in Slots :
              pc[q] # "idle" =>
                StepsLeft(q)' < StepsLeft(q) \/ UNCHANGED <<pc[q], parser[q]>>
<1>1. CASE UNCHANGED vars
  BY <1>1 DEF vars, WaitInv
<1>2. ASSUME NEW q \in Slots,
             Upload(q) \/ (\E c \in Cvs : Delete(q, c) \/ Suggest(q, c))
      PROVE  /\ WaitInv'
             /\ \A p \in Slots : pc[p] # "idle" => UNCHANGED <<pc[p], parser[p]>>
  BY <1>2, ArrivalKeepsOthers
<1>3. ASSUME NEW q \in Slots, Proceed(q) \/ ParseTimeout(q) \/ Abort(q)
      PROVE  /\ WaitInv'
             /\ StepsLeft(q)' < StepsLeft(q)
             /\ \A p \in Slots \ {q} : UNCHANGED <<pc[p], parser[p]>>
  BY <1>3, StepAdvances, DeathAdvances
<1> QED BY <1>1, <1>2, <1>3 DEF Next

(* No request of any number is ever stuck but behind a parser thread, its  *)
(* own or that of the handler it waits for, and every request is answered  *)
(* after at most five steps of its own and its thread.  Whether the thread *)
(* ends is not for the code to say: with the fairness of the event loop    *)
(* and that premise this is RequestsEndIfParsersDo.                        *)
THEOREM RequestsAdvanceHolds == Spec => []NobodyStuck /\ RequestsAdvance
<1>1. Init => WaitInv
  BY DEF Init, WaitInv, LoopSteps
<1>2. LibraryInv /\ WaitInv /\ [Next]_vars => WaitInv'
  BY NextAdvances
<1>3. Spec => []WaitInv
  BY <1>1, <1>2, LibraryInvariant, PTL DEF Spec
<1>4. LibraryInv /\ WaitInv => NobodyStuck
  <2> SUFFICES ASSUME LibraryInv, WaitInv, NEW q \in Slots, pc[q] = "suggest", ~LoopFree(q)
               PROVE  \E p \in Slots \ {q} : pc[p] \in LoopSteps /\ NotWaiting(p)
    BY DEF NobodyStuck, NotWaiting, WaitInv
  <2>1. PICK p \in Slots \ {q} : pc[p] \in LoopSteps
    BY DEF LoopFree
  <2>2. NotWaiting(p)
    BY <2>1 DEF NotWaiting, WaitInv, LoopSteps
  <2> QED BY <2>1, <2>2
<1>5. LibraryInv /\ WaitInv /\ [Next]_vars
      => [\A q \in Slots :
            pc[q] # "idle" =>
              \/ StepsLeft(q)' < StepsLeft(q)
              \/ UNCHANGED <<pc[q], parser[q]>>]_vars
  BY NextAdvances
<1> QED BY <1>3, <1>4, <1>5, LibraryInvariant, PTL DEF Spec, RequestsAdvance
=============================================================================
