----------------------------- MODULE CvLibrary -----------------------------
(***************************************************************************)
(* The CVs of one account: upload, deletion and title suggestions          *)
(* (app/api/routes/cvs.py, app/services/cv_service.py,                     *)
(* app/services/pdf_parser.py, app/services/title_suggestion_service.py)   *)
(* over the cv table and the blob store, which share no transaction.       *)
(*                                                                         *)
(* One action stands for the code between two points at which another      *)
(* request can see or change a row or a blob, or at which a killed process *)
(* leaves something behind.  The handlers are async functions that call    *)
(* the parser, the blob store, the database and the LLM synchronously: in  *)
(* one replica they run one after the other and each blocks the event loop *)
(* while it waits; the dependency get_owned_cv runs in the thread pool.    *)
(* Requests that are refused without changing anything (a file that is no  *)
(* PDF, a CV of another account, deleting a deleted CV) are left out.      *)
(***************************************************************************)
EXTENDS Integers, FiniteSets

CONSTANTS
  Cvs,            \* CV ids, a set of numbers
  Slots,          \* requests in progress at a time
  Scenarios,      \* see ScenarioType
  MaxCalls,       \* bound of the checks: no suggestions after so many LLM calls
  NoCv

(* backend: the blob store is remote (Azurite, Azure), or a dictionary     *)
(* that create_blob_store builds anew for every request; oneReplica:       *)
(* whether one API container serves all requests or each its own; aborts:  *)
(* whether requests may die half-way (an exception, a killed container).   *)
ScenarioType ==
  [backend : {"remote", "memory"}, oneReplica : BOOLEAN, aborts : BOOLEAN]

ASSUME CvLibraryAssumption ==
  /\ Scenarios \subseteq ScenarioType
  /\ Cvs \subseteq Nat
  /\ IsFiniteSet(Slots)
  /\ NoCv \notin Cvs
  /\ MaxCalls \in Nat

VARIABLES
  scenario,
  row, text,        \* cv table: deleted_at and existence; parsed_text
  blob,             \* keys in the blob store
  confirmed,        \* history: CVs whose deletion was answered with 204
  calls,            \* history: LLM calls made
  audited,          \* audit_log: ai.title_suggestion entries
  answered,         \* history: suggestions answered with 200
  pc, cv, parser, seen

tableVars   == <<row, text>>
suggestVars == <<calls, audited, answered>>
vars == <<scenario, tableVars, blob, confirmed, suggestVars, pc, cv, parser, seen>>

Texts == {"readable", "blank"}

(* Steps that occupy the event loop of their replica.                      *)
LoopSteps == {"parse", "timedOut", "put", "insert", "deleteBlob", "softDelete",
              "complete", "audit"}

Steps == LoopSteps \cup {"idle", "suggest", "answer"}

(* The thread of the request's ThreadPoolExecutor.                         *)
ParserStates == {"none", "running", "error"} \cup Texts

CvTypeOK ==
  /\ scenario \in Scenarios
  /\ row \in [Cvs -> {"absent", "active", "deleted"}]
  /\ text \in [Cvs -> Texts \cup {"none"}]
  /\ blob \in SUBSET Cvs
  /\ confirmed \in SUBSET Cvs
  /\ calls \in Nat
  /\ audited \in Nat
  /\ answered \in Nat
  /\ pc \in [Slots -> Steps]
  /\ cv \in [Slots -> Cvs \cup {NoCv}]
  /\ parser \in [Slots -> ParserStates]
  /\ seen \in [Slots -> Texts \cup {"none"}]

Init ==
  /\ scenario \in Scenarios
  /\ row = [c \in Cvs |-> "absent"]
  /\ text = [c \in Cvs |-> "none"]
  /\ blob = {}
  /\ confirmed = {}
  /\ calls = 0 /\ audited = 0 /\ answered = 0
  /\ pc = [q \in Slots |-> "idle"]
  /\ cv = [q \in Slots |-> NoCv]
  /\ parser = [q \in Slots |-> "none"]
  /\ seen = [q \in Slots |-> "none"]

LoopFree(q) ==
  scenario.oneReplica => \A p \in Slots \ {q} : pc[p] \notin LoopSteps

Goto(q, step) == pc' = [pc EXCEPT ![q] = step]

Done(q) ==
  /\ Goto(q, "idle")
  /\ cv' = [cv EXCEPT ![q] = NoCv]
  /\ parser' = [parser EXCEPT ![q] = "none"]
  /\ seen' = [seen EXCEPT ![q] = "none"]

(* The request dies: an exception the route does not handle, or the end of *)
(* its process and of the parser thread with it.                           *)
Abort(q) ==
  /\ scenario.aborts
  /\ pc[q] # "idle"
  /\ Done(q)
  /\ UNCHANGED <<scenario, tableVars, blob, confirmed, suggestVars>>

-----------------------------------------------------------------------------
(* POST /cvs: upload_cv.                                                   *)

UploadUnchanged == UNCHANGED <<scenario, confirmed, suggestVars, seen>>

(* An id never drawn before; ids are numbered in the order of the uploads. *)
Fresh(c) == row[c] = "absent" /\ c \notin blob /\ \A p \in Slots : cv[p] # c

NextCv(c) == Fresh(c) /\ \A d \in Cvs : Fresh(d) => c <= d

(* Name, type, size and magic bytes are in order; the parser is started.   *)
(* (The uuid4 of the CV is drawn after parsing, which nobody can tell.)    *)
Upload(q) ==
  /\ pc[q] = "idle" /\ LoopFree(q)
  /\ \E c \in Cvs : NextCv(c) /\ cv' = [cv EXCEPT ![q] = c]
  /\ Goto(q, "parse")
  /\ parser' = [parser EXCEPT ![q] = "running"]
  /\ UNCHANGED <<tableVars, blob>>
  /\ UploadUnchanged

(* The thread ends: text, no text (a scan), or an error (not a readable    *)
(* PDF, more than 20 pages).                                               *)
ParserEnds(q, result) ==
  /\ parser[q] = "running"
  /\ parser' = [parser EXCEPT ![q] = result]
  /\ UNCHANGED <<tableVars, blob, pc, cv>>
  /\ UploadUnchanged

(* future.result after 30 s.  Leaving the `with` block shuts the executor  *)
(* down, which waits for the thread: the handler goes on waiting.          *)
ParseTimeout(q) ==
  /\ pc[q] = "parse"
  /\ parser[q] = "running"
  /\ Goto(q, "timedOut")
  /\ UNCHANGED <<tableVars, blob, cv, parser>>
  /\ UploadUnchanged

(* Fault for the checks: an error of the parser counts as text.            *)
BugHasText(q) == parser[q] \notin {"none", "running"}

HasText(q) == parser[q] \in Texts

Parsed(q) ==
  /\ pc[q] = "parse"
  /\ HasText(q)
  /\ Goto(q, "put")
  /\ UNCHANGED <<tableVars, blob, cv, parser>>
  /\ UploadUnchanged

(* Fault for the checks: a request that timed out is left hanging.         *)
BugParseFailed(q) == pc[q] = "parse" /\ parser[q] = "error"

ParseFailed(q) ==
  \/ pc[q] = "parse" /\ parser[q] = "error"
  \/ pc[q] = "timedOut" /\ parser[q] # "running"

(* PdfParseError: 400, nothing stored.                                     *)
RefuseUpload(q) ==
  /\ ParseFailed(q)
  /\ Done(q)
  /\ UNCHANGED <<scenario, tableVars, blob, confirmed, suggestVars>>

(* The key is the new CV's uuid4; a dictionary of this request only is     *)
(* nothing to anyone else.                                                 *)
PutBlob(q) ==
  /\ pc[q] = "put"
  /\ blob' = IF scenario.backend = "remote" THEN blob \cup {cv[q]} ELSE blob
  /\ Goto(q, "insert")
  /\ UNCHANGED <<tableVars, cv, parser>>
  /\ UploadUnchanged

InsertRow(q) ==
  /\ pc[q] = "insert"
  /\ row' = [row EXCEPT ![cv[q]] = "active"]
  /\ text' = [text EXCEPT ![cv[q]] = parser[q]]
  /\ Done(q)
  /\ UNCHANGED <<scenario, blob, confirmed, suggestVars>>

-----------------------------------------------------------------------------
(* DELETE /cvs/{cv_id}: delete_cv.                                         *)

(* Fault for the checks: the row first, the blob afterwards.               *)
BugDeleteOrder == <<"softDelete", "deleteBlob">>

DeleteOrder == <<"deleteBlob", "softDelete">>

Delete(q, c) ==
  /\ pc[q] = "idle" /\ LoopFree(q)
  /\ row[c] = "active"
  /\ Goto(q, DeleteOrder[1])
  /\ cv' = [cv EXCEPT ![q] = c]
  /\ UNCHANGED <<scenario, tableVars, blob, confirmed, suggestVars, parser, seen>>

(* After the last of the two steps the request is answered with 204.       *)
DeleteStepDone(q) ==
  IF pc[q] = DeleteOrder[1]
  THEN /\ Goto(q, DeleteOrder[2])
       /\ UNCHANGED <<confirmed, cv, parser, seen>>
  ELSE /\ confirmed' = confirmed \cup {cv[q]}
       /\ Done(q)

(* Fault for the checks: the key is not the one put was called with, and   *)
(* the BlobNotFoundError is ignored.                                       *)
BugBlobsWithout(c) == blob

(* The key of the row without the adapter's prefix is the key of put.  A   *)
(* blob that is gone already (BlobNotFoundError) is no error.              *)
BlobsWithout(c) == blob \ {c}

DeleteBlob(q) ==
  /\ pc[q] = "deleteBlob"
  /\ blob' = BlobsWithout(cv[q])
  /\ DeleteStepDone(q)
  /\ UNCHANGED <<scenario, tableVars, suggestVars>>

(* Fault for the checks: parsed_text is kept.                              *)
BugTextAfterDelete(c) == text[c]

TextAfterDelete(c) == "none"

(* soft_delete_for_user.                                                   *)
SoftDelete(q) ==
  /\ pc[q] = "softDelete"
  /\ row' = [row EXCEPT ![cv[q]] = "deleted"]
  /\ text' = [text EXCEPT ![cv[q]] = TextAfterDelete(cv[q])]
  /\ DeleteStepDone(q)
  /\ UNCHANGED <<scenario, blob, suggestVars>>

-----------------------------------------------------------------------------
(* POST /cvs/{cv_id}/suggest-titles: suggest_titles.                       *)

SuggestUnchanged == UNCHANGED <<scenario, tableVars, blob, confirmed, parser>>

(* get_owned_cv, in the thread pool: the row with its text is in memory    *)
(* from here on.                                                           *)
Suggest(q, c) ==
  /\ pc[q] = "idle"
  /\ calls < MaxCalls
  /\ row[c] = "active"
  /\ Goto(q, "suggest")
  /\ cv' = [cv EXCEPT ![q] = c]
  /\ seen' = [seen EXCEPT ![q] = text[c]]
  /\ UNCHANGED suggestVars
  /\ SuggestUnchanged

(* CvTextUnavailableError: 400.                                            *)
SuggestWithoutText(q) ==
  /\ pc[q] = "suggest" /\ LoopFree(q)
  /\ seen[q] # "readable"
  /\ Done(q)
  /\ UNCHANGED <<scenario, tableVars, blob, confirmed, suggestVars>>

(* The text read before is sent, although the CV may be deleted by now.    *)
AskForTitles(q) ==
  /\ pc[q] = "suggest" /\ LoopFree(q)
  /\ seen[q] = "readable"
  /\ calls' = calls + 1
  /\ Goto(q, "complete")
  /\ UNCHANGED <<audited, answered, cv, seen>>
  /\ SuggestUnchanged

(* An API error, a refusal, output that does not parse, missing usage, or  *)
(* a number of titles other than three to five: 502, and no audit entry    *)
(* for the call.                                                           *)
TitlesUnusable(q) ==
  /\ pc[q] = "complete"
  /\ Done(q)
  /\ UNCHANGED <<scenario, tableVars, blob, confirmed, suggestVars>>

(* Fault for the checks: the audit entry is left for later.                *)
BugAfterTitles == "answer"

AfterTitles == "audit"

TitlesReceived(q) ==
  /\ pc[q] = "complete"
  /\ Goto(q, AfterTitles)
  /\ UNCHANGED <<suggestVars, cv, seen>>
  /\ SuggestUnchanged

AuditSuggestion(q) ==
  /\ pc[q] = "audit"
  /\ audited' = audited + 1
  /\ Goto(q, "answer")
  /\ UNCHANGED <<calls, answered, cv, seen>>
  /\ SuggestUnchanged

AnswerSuggestion(q) ==
  /\ pc[q] = "answer"
  /\ answered' = answered + 1
  /\ Done(q)
  /\ UNCHANGED <<scenario, tableVars, blob, confirmed, calls, audited>>

-----------------------------------------------------------------------------
(* What the handler of a request does next, but for a timeout or its death. *)
HandlerStep(q) ==
  \/ Parsed(q)
  \/ RefuseUpload(q)
  \/ PutBlob(q)
  \/ InsertRow(q)
  \/ DeleteBlob(q)
  \/ SoftDelete(q)
  \/ SuggestWithoutText(q)
  \/ AskForTitles(q)
  \/ TitlesUnusable(q)
  \/ TitlesReceived(q)
  \/ AuditSuggestion(q)
  \/ AnswerSuggestion(q)

(* The same, and the end of its parser thread.                             *)
Proceed(q) ==
  \/ \E r \in Texts \cup {"error"} : ParserEnds(q, r)
  \/ HandlerStep(q)

Next ==
  \E q \in Slots :
    \/ Upload(q)
    \/ ParseTimeout(q)
    \/ \E c \in Cvs : Delete(q, c) \/ Suggest(q, c)
    \/ Proceed(q)
    \/ Abort(q)

Spec == Init /\ [][Next]_vars

(* A replica runs its ready handlers in turn, the calls they make to the   *)
(* store, the database and the LLM have timeouts of the clients, and the   *)
(* 30 s of future.result pass.  Nothing ends a parser thread but itself,   *)
(* so ParserEnds is not fair; nor are new requests and deaths required.    *)
Fairness == \A q \in Slots : SF_vars(HandlerStep(q)) /\ WF_vars(ParseTimeout(q))

FairSpec == Spec /\ Fairness
-----------------------------------------------------------------------------
(* Correctness.                                                            *)

(* Deleted is deleted, although row and blob are removed one after the     *)
(* other and a request may die in between: once deletion is recorded or    *)
(* was confirmed to the owner, neither file nor text is left, and nothing  *)
(* brings them back.                                                       *)
DeletedIsGone ==
  \A c \in Cvs :
    c \in confirmed \/ row[c] = "deleted" =>
      row[c] = "deleted" /\ c \notin blob /\ text[c] = "none"

(* Where no request dies half-way, table and store agree as soon as nobody *)
(* is working on the CV: every active CV has its file, every file its      *)
(* active CV.                                                              *)
FilesMatchRows ==
  ~scenario.aborts /\ scenario.backend = "remote" =>
    \A c \in Cvs :
      \/ c \in blob <=> row[c] = "active"
      \/ \E q \in Slots : cv[q] = c /\ pc[q] \in {"insert", "deleteBlob", "softDelete"}

(* FinOps: no suggestion reaches the user without its audit entry, and no  *)
(* entry is written without a call.  (Calls without an entry do happen.)   *)
SuggestionAudited ==
  /\ answered <= audited
  /\ audited <= calls

(* A request waits for the handlers of its own replica, and these for      *)
(* their parser threads, also after the timeout.  Where these threads end, *)
(* the request is answered; a thread that hangs on another replica does    *)
(* not matter.                                                             *)
SharesLoop(p, q) == p = q \/ scenario.oneReplica

RequestsEndIfParsersDo ==
  \A q \in Slots :
    (\A p \in Slots : SharesLoop(p, q) => []<>(parser[p] # "running"))
      => (pc[q] # "idle" ~> pc[q] = "idle")

(* CONTEXT.md:70 "Safe PDF parse: page limit, 30s timeout": an upload      *)
(* whose parsing timed out is answered, whatever becomes of the thread.    *)
(* The code breaks it: the thread is waited for after the timeout.         *)
TimeoutEndsUpload ==
  \A q \in Slots : pc[q] = "timedOut" ~> pc[q] = "idle"

(* The refinement mapping: a blob counts as the CV's file once the row     *)
(* exists.                                                                 *)
Shelf == INSTANCE CvShelf
  WITH Cvs <- Cvs, row <- row, text <- text,
       file <- [c \in Cvs |-> c \in blob /\ row[c] # "absent"]

(* The library implements the shelf, under aborts and on any number of     *)
(* replicas.                                                               *)
ImplementsShelf == Shelf!ShelfSpec
=============================================================================
