---------------------------- MODULE Attachments ----------------------------
(* The attachment operations of one transaction                              *)
(* (services/attachments/operations.ts): uploads and deletions that persons  *)
(* start, retry and reconcile, the recovery of abandoned ones, and the        *)
(* refresh from QuickBooks. An operation keeps a status of its own and one of *)
(* its file, the attachment a third, and they change in different             *)
(* transactions around each call to QuickBooks.                               *)
(* Receipts are attached through the same operations: see Receipts.           *)
EXTENDS Naturals, FiniteSets

CONSTANTS
  Calls,          \* requests and scheduler ticks that may run at the same time
  Mixes,          \* sets of the things that may happen in one behaviour
  RetainLocally,  \* whether content stays after its upload
  MaxOps,         \* bound: operations ever created
  MaxFiles,       \* bound: attachments ever created
  MaxUploads      \* bound: copies QuickBooks ever makes of one attachment

ASSUME BoundsAssumption ==
  /\ MaxOps \in Nat /\ MaxFiles \in Nat /\ MaxUploads \in Nat
  /\ RetainLocally \in BOOLEAN

VARIABLES
  op,      \* AttachmentOperation with its one file: kind, owner, row status, file status
  file,    \* TransactionAttachment: status, qboAttachableId, whether blobId is set
  copies,  \* the copies of each attachment QuickBooks holds
  made,    \* how many it has ever made
  wire,    \* requests QuickBooks has not handled
  call,    \* where each handler stands, and its locals
  mix      \* what may happen in this behaviour

attachmentVars == <<op, file, copies, made, wire, call, mix>>

----------------------------------------------------------------------------
Ops == 1..MaxOps
Files == 1..MaxFiles
Copies == 1..MaxUploads

RowStatus == {"PREPARED", "COMMITTING", "VERIFIED", "FAILED", "UNCERTAIN", "DELETING", "DELETED"}
FileStatus == {"STAGED", "UPLOADING", "ATTACHED", "FAILED", "UNCERTAIN", "DELETING", "DELETED"}
OpFileStatus == FileStatus \cup {"RECONCILING"}

Operation == [kind : {"attach", "delete"}, file : Files, receipt : BOOLEAN, key : Nat,
              row : RowStatus, status : OpFileStatus]
NoOp == [kind |-> "none"]
Attachment == [status : FileStatus \cup {"none", "QBO_MISSING"}, id : Copies \cup {0},
               blob : BOOLEAN]
NoFile == [status |-> "none", id |-> 0, blob |-> FALSE]

Request == [kind : {"upload", "delete"}, by : Calls, file : Files, id : Copies \cup {0}]

\* Where a handler can stand, and for whom it works.
AttachmentStops == {"dispatch", "send", "await", "landed", "aggregate", "delete",
                    "delAwait", "verify", "remove", "reconcile", "look", "record",
                    "refresh"}
ReceiptStops == {"prepare", "create", "reserve", "resume", "returned"}
Purposes == {"person", "recovery", "attach", "undo"}
Idle == [at |-> "idle"]
Results == RowStatus \cup {"none", "threw", "busy"}
Working == [at : AttachmentStops \cup ReceiptStops, for : Purposes, op : Ops \cup {0},
            file : Files \cup {0}, seen : SUBSET Copies, rev : Nat, result : Results]

AttachmentTypeOK ==
  /\ op \in [Ops -> Operation \cup {NoOp}]
  /\ file \in [Files -> Attachment]
  /\ copies \in [Files -> SUBSET Copies]
  /\ made \in [Files -> 0..MaxUploads]
  /\ wire \subseteq Request
  /\ call \in [Calls -> Working \cup {Idle}]
  /\ mix \in Mixes

AttachmentInit ==
  /\ op = [o \in Ops |-> NoOp]
  /\ file = [f \in Files |-> NoFile]
  /\ copies = [f \in Files |-> {}]
  /\ made = [f \in Files |-> 0]
  /\ wire = {}
  /\ call = [c \in Calls |-> Idle]
  /\ mix \in Mixes

----------------------------------------------------------------------------
\* deriveAttachmentOperationStatus, of an operation with one file.
Derived(status) ==
  CASE status = "STAGED" -> "PREPARED"
    [] status = "UPLOADING" -> "COMMITTING"
    [] status = "ATTACHED" -> "VERIFIED"
    [] status \in {"UNCERTAIN", "RECONCILING"} -> "UNCERTAIN"
    [] OTHER -> status

NextOp(o) == o \in Ops /\ op[o] = NoOp /\ \A p \in Ops : p < o => op[p] # NoOp
NextFile(f) == f \in Files /\ file[f] = NoFile /\ \A g \in Files : g < f => file[g] # NoFile
OpsOf(f) == {o \in Ops : op[o] # NoOp /\ op[o].file = f}

Go(c, at) == call' = [call EXCEPT ![c].at = at]
Begin(c, for, at, o, f, rev) ==
  call' = [call EXCEPT ![c] = [at |-> at, for |-> for, op |-> o, file |-> f, seen |-> {},
                               rev |-> rev, result |-> "none"]]

\* The operation is over: a receipt's handler goes on with its result.
Return(c, result) ==
  call' = [call EXCEPT ![c] =
    IF @.for \in {"attach", "undo"}
    THEN [@ EXCEPT !.at = "returned", !.result = result, !.seen = {}]
    ELSE Idle]

\* updateAggregate comes next; a failure is rethrown after it, or its status returned.
Aggregate(c, result) ==
  call' = [call EXCEPT ![c].at = "aggregate", ![c].result = result, ![c].seen = {}]

MyOp(c) == call[c].op
MyFile(c) == op[call[c].op].file
Waiting(c, at) == call[c].at = at

SetOp(o, status) == [op EXCEPT ![o].status = status]
SetFile(f, status) == [file EXCEPT ![f].status = status]

\* The rows of an operation and its attachment move together.
Both(o, row, status, fileStatus) ==
  /\ op' = [op EXCEPT ![o].row = row, ![o].status = status]
  /\ file' = SetFile(op[o].file, fileStatus)
BothFiles(o, status, fileStatus) ==
  /\ op' = SetOp(o, status)
  /\ file' = SetFile(op[o].file, fileStatus)

----------------------------------------------------------------------------
(* Uploads: attachTransactionFiles and dispatchAttach.                       *)

\* The transaction that creates an operation with its attachment.
Create(o, f, receipt, key) ==
  /\ NextOp(o) /\ NextFile(f)
  /\ op' = [op EXCEPT ![o] = [kind |-> "attach", file |-> f, receipt |-> receipt, key |-> key,
                              row |-> "PREPARED", status |-> "STAGED"]]
  /\ file' = [file EXCEPT ![f] = [status |-> "STAGED", id |-> 0, blob |-> TRUE]]

PersonAttach(c) ==
  /\ "upload" \in mix /\ call[c] = Idle
  /\ \E o \in Ops, f \in Files : Create(o, f, FALSE, 0) /\ Begin(c, "person", "dispatch", o, f, 0)
  /\ UNCHANGED <<copies, made, wire>>

\* Open to a new try, of an upload or of a deletion.
Ready(o) == op[o].row \in {"PREPARED", "FAILED"} /\ op[o].status \in {"STAGED", "FAILED"}

\* All three rows are claimed, or none.
Uploadable(o) == Ready(o) /\ file[op[o].file].status \in {"STAGED", "FAILED", "QBO_MISSING"}

ClaimUpload(o) == Uploadable(o) /\ Both(o, "COMMITTING", "UPLOADING", "UPLOADING")

Dispatch(c) ==
  /\ Waiting(c, "dispatch")
  /\ \/ ClaimUpload(MyOp(c)) /\ Go(c, "send")
     \/ ~Uploadable(MyOp(c)) /\ Return(c, "threw") /\ UNCHANGED <<op, file>>
  /\ UNCHANGED <<copies, made, wire>>

\* Mutant: the attachment is left as it is.
MarkFailureOfOperation(o, status) ==
  /\ op' = IF op[o].status = "UPLOADING" THEN SetOp(o, status) ELSE op
  /\ UNCHANGED file

\* markUploadFailure: only rows that are still UPLOADING.
MarkFailure(o, status) ==
  LET f == op[o].file IN
  /\ op' = IF op[o].status = "UPLOADING" THEN SetOp(o, status) ELSE op
  /\ file' = IF file[f].status = "UPLOADING" THEN SetFile(f, status) ELSE file

\* The content streams out, or is not to be had and nothing is sent.
Upload(c) ==
  /\ Waiting(c, "send")
  /\ \/ /\ file[MyFile(c)].blob
        /\ ~\E r \in wire : r.by = c
        /\ wire' = wire \cup {[kind |-> "upload", by |-> c, file |-> MyFile(c), id |-> 0]}
        /\ Go(c, "await")
        /\ UNCHANGED <<op, file>>
     \/ /\ MarkFailure(MyOp(c), "FAILED")
        /\ Aggregate(c, "threw")
        /\ UNCHANGED wire
  /\ UNCHANGED <<copies, made>>

\* No usable answer: the request may still be applied.
UploadTimesOut(c) ==
  /\ Waiting(c, "await")
  /\ MarkFailure(MyOp(c), "UNCERTAIN")
  /\ Aggregate(c, "none")
  /\ UNCHANGED <<copies, made, wire>>

\* QuickBooks refuses the request, or the file in it.
UploadRefused(c) ==
  /\ Waiting(c, "await")
  /\ \E r \in wire : r.by = c /\ wire' = wire \ {r}
  /\ MarkFailure(MyOp(c), "FAILED")
  /\ \E result \in {"none", "threw"} : Aggregate(c, result)
  /\ UNCHANGED <<copies, made>>

\* The copy is recorded and the content released if it is not retained; if the
\* transaction fails nobody knows any more.
RecordUpload(c) ==
  LET o == MyOp(c) f == MyFile(c) IN
  /\ Waiting(c, "landed")
  /\ \/ /\ op[o].status = "UPLOADING" /\ file[f].status = "UPLOADING"
        /\ op' = SetOp(o, "ATTACHED")
        /\ \E id \in call[c].seen :
             file' = [file EXCEPT ![f] = [status |-> "ATTACHED", id |-> id, blob |-> RetainLocally]]
     \/ MarkFailure(o, "UNCERTAIN")
  /\ Aggregate(c, "none")
  /\ UNCHANGED <<copies, made, wire>>

\* updateAggregate: the operation's own row follows its file.
UpdateAggregate(c) ==
  LET status == Derived(op[MyOp(c)].status) IN
  /\ Waiting(c, "aggregate")
  /\ op' = [op EXCEPT ![MyOp(c)].row = status]
  /\ Return(c, IF call[c].result = "threw" THEN "threw" ELSE status)
  /\ UNCHANGED <<file, copies, made, wire>>

----------------------------------------------------------------------------
(* Deletions everywhere: deleteTransactionAttachment and dispatchDelete.     *)

Deletable == {"ATTACHED", "FAILED", "QBO_MISSING"}

\* The attachment is reserved in the transaction that creates the operation.
Reserve(o, f, receipt, key) ==
  /\ NextOp(o) /\ file[f].status \in Deletable
  /\ op' = [op EXCEPT ![o] = [kind |-> "delete", file |-> f, receipt |-> receipt, key |-> key,
                              row |-> "DELETING", status |-> "DELETING"]]
  /\ file' = SetFile(f, "DELETING")

PersonDelete(c) ==
  /\ "delete" \in mix /\ call[c] = Idle
  /\ \E o \in Ops, f \in Files : Reserve(o, f, FALSE, 0) /\ Begin(c, "person", "delete", o, f, 0)
  /\ UNCHANGED <<copies, made, wire>>

\* claimDelete, of a retry.
ClaimDelete(o) ==
  /\ Ready(o) /\ file[op[o].file].status \in Deletable
  /\ Both(o, "DELETING", "DELETING", "DELETING")

\* An attachment QuickBooks has never named goes at once, one that is not there
\* is only verified, another is deleted there.
Delete(c) ==
  LET f == MyFile(c) id == file[f].id IN
  /\ Waiting(c, "delete")
  /\ \/ id = 0 /\ Go(c, "remove") /\ UNCHANGED wire
     \/ id # 0 /\ id \notin copies[f] /\ Go(c, "verify") /\ UNCHANGED wire
     \/ /\ id \in copies[f] /\ ~\E r \in wire : r.by = c
        /\ wire' = wire \cup {[kind |-> "delete", by |-> c, file |-> f, id |-> id]}
        /\ Go(c, "delAwait")
  /\ UNCHANGED <<op, file, copies, made>>

\* A failure of any call to QuickBooks; the updates are by id.
DeleteFails(c) ==
  LET o == MyOp(c) IN
  /\ \/ Waiting(c, "delete") /\ file[MyFile(c)].id # 0
     \/ Waiting(c, "delAwait") \/ Waiting(c, "verify")
  /\ \/ BothFiles(o, "UNCERTAIN", "UNCERTAIN") /\ Aggregate(c, "none")
     \/ BothFiles(o, "FAILED", "ATTACHED") /\ Aggregate(c, "threw")
  /\ UNCHANGED <<copies, made, wire>>

\* The deletion counts when the attachment cannot be read any more.
Verify(c) ==
  /\ Waiting(c, "verify")
  /\ IF file[MyFile(c)].id \in copies[MyFile(c)]
     THEN BothFiles(MyOp(c), "UNCERTAIN", "UNCERTAIN") /\ Aggregate(c, "none")
     ELSE Go(c, "remove") /\ UNCHANGED <<op, file>>
  /\ UNCHANGED <<copies, made, wire>>

\* finalizeProviderDelete: all three rows, and the content.
Removed(o) ==
  /\ op' = [op EXCEPT ![o].row = "DELETED", ![o].status = "DELETED"]
  /\ file' = [file EXCEPT ![op[o].file].status = "DELETED", ![op[o].file].blob = FALSE]

Remove(c) ==
  /\ Waiting(c, "remove")
  /\ Removed(MyOp(c))
  /\ Return(c, "DELETED")
  /\ UNCHANGED <<copies, made, wire>>

----------------------------------------------------------------------------
(* Retry, reconciliation, recovery and refresh.                              *)

\* retryAttachmentOperation, of an operation a person may retry.
Retry(c) ==
  /\ "retry" \in mix /\ call[c] = Idle
  /\ \E o \in Ops :
       /\ op[o] # NoOp /\ ~op[o].receipt
       /\ \/ op[o].kind = "attach" /\ ClaimUpload(o) /\ Begin(c, "person", "send", o, op[o].file, 0)
          \/ op[o].kind = "delete" /\ ClaimDelete(o)
             /\ Begin(c, "person", "delete", o, op[o].file, 0)
  /\ UNCHANGED <<copies, made, wire>>

\* The claim of a reconciliation leaves the attachment alone.
ClaimReconcile(o) ==
  /\ op[o].row = "UNCERTAIN" /\ op[o].status = "UNCERTAIN"
  /\ op' = [op EXCEPT ![o].row = "COMMITTING", ![o].status = "RECONCILING"]

PersonReconcile(c) ==
  /\ "reconcile" \in mix /\ call[c] = Idle
  /\ \E o \in Ops : /\ op[o] # NoOp /\ ~op[o].receipt
                    /\ ClaimReconcile(o) /\ Begin(c, "person", "look", o, op[o].file, 0)
  /\ UNCHANGED <<file, copies, made, wire>>

\* The same for the recovery and for a receipt: refused while another reconciles,
\* and of a file that is not uncertain the status is returned.
Reconcile(c) ==
  LET o == MyOp(c) IN
  /\ Waiting(c, "reconcile")
  /\ \/ ClaimReconcile(o) /\ Go(c, "look")
     \/ /\ ~(op[o].row = "UNCERTAIN" /\ op[o].status = "UNCERTAIN")
        /\ Return(c, IF op[o].status = "UNCERTAIN" THEN "busy" ELSE Derived(op[o].status))
        /\ UNCHANGED op
  /\ UNCHANGED <<file, copies, made, wire>>

\* QuickBooks is asked for the copies with the marker, or for the attachment, or fails.
Look(c) ==
  LET o == MyOp(c) f == MyFile(c)
      found == IF op[o].kind = "attach" THEN copies[f] ELSE copies[f] \cap {file[f].id} IN
  /\ Waiting(c, "look")
  /\ \/ call' = [call EXCEPT ![c].at = "record", ![c].seen = found] /\ UNCHANGED op
     \/ /\ op' = [op EXCEPT ![o].row = "UNCERTAIN",
                            ![o].status = IF @ = "RECONCILING" THEN "UNCERTAIN" ELSE @]
        /\ Return(c, "UNCERTAIN")
  /\ UNCHANGED <<file, copies, made, wire>>

\* What was found decides: of an upload one copy, none or more; of a deletion whether
\* the attachment is still there.
Record(c) ==
  LET o == MyOp(c) f == MyFile(c) found == call[c].seen IN
  /\ Waiting(c, "record")
  /\ \/ /\ op[o].kind = "attach"
        /\ CASE found = {} -> BothFiles(o, "FAILED", "FAILED")
             [] Cardinality(found) > 1 -> BothFiles(o, "UNCERTAIN", "UNCERTAIN")
             [] OTHER ->
                  /\ op' = SetOp(o, "ATTACHED")
                  /\ \E id \in found :
                       file' = [file EXCEPT ![f] = [status |-> "ATTACHED", id |-> id,
                                                    blob |-> RetainLocally /\ @.blob]]
     \/ /\ op[o].kind = "delete"
        /\ IF found = {} THEN Removed(o) ELSE BothFiles(o, "FAILED", "ATTACHED")
  /\ Aggregate(c, "none")
  /\ UNCHANGED <<copies, made, wire>>

\* recoverStuckAttachmentOperations takes an operation nobody has touched for five
\* minutes; a handler is over or dead before that (see the README).
Stuck(o) ==
  /\ op[o] # NoOp /\ ~op[o].receipt
  /\ op[o].row \in {"PREPARED", "COMMITTING", "DELETING"}
  /\ \A c \in Calls : call[c] # Idle => call[c].op # o

\* What was under way is uncertain from here on.
Doubt(o, underWay, from) ==
  LET f == op[o].file IN
  /\ op' = [op EXCEPT ![o].row = "UNCERTAIN",
                      ![o].status = IF @ \in underWay THEN "UNCERTAIN" ELSE @]
  /\ file' = IF file[f].status \in from THEN SetFile(f, "UNCERTAIN") ELSE file

\* It is reconciled, settled by its file, or sent.
Recover(c, o) ==
  /\ call[c] = Idle /\ Stuck(o)
  /\ \/ /\ op[o].row = "COMMITTING" /\ op[o].status \in {"UPLOADING", "RECONCILING"}
        /\ Doubt(o, {"UPLOADING", "RECONCILING"}, {"UPLOADING", "UNCERTAIN"})
        /\ Begin(c, "recovery", "reconcile", o, op[o].file, 0)
     \/ /\ op[o].row = "COMMITTING" /\ op[o].status \notin {"UPLOADING", "RECONCILING"}
        /\ op' = [op EXCEPT ![o].row = Derived(op[o].status)]
        /\ IF op[o].kind = "attach" /\ Ready(o)'
           THEN Begin(c, "recovery", "dispatch", o, op[o].file, 0)
           ELSE UNCHANGED call
        /\ UNCHANGED file
     \/ /\ op[o].row = "DELETING"
        /\ Doubt(o, {"DELETING"}, {"DELETING"})
        /\ Begin(c, "recovery", "reconcile", o, op[o].file, 0)
     \/ /\ op[o].row = "PREPARED" /\ op[o].kind = "attach"
        /\ ClaimUpload(o)
        /\ Begin(c, "recovery", "send", o, op[o].file, 0)
  /\ UNCHANGED <<copies, made, wire>>

\* refreshTransactionAttachments: the list is read first, then the settled rows follow.
RefreshRead(c) ==
  /\ "refresh" \in mix /\ call[c] = Idle
  /\ \E f \in Files :
       call' = [call EXCEPT ![c] = [at |-> "refresh", for |-> "person", op |-> 0, file |-> f,
                                    seen |-> copies[f], rev |-> 0, result |-> "none"]]
  /\ UNCHANGED <<op, file, copies, made, wire>>

RefreshWrite(c) ==
  LET f == call[c].file found == call[c].seen IN
  /\ Waiting(c, "refresh")
  /\ IF file[f].status \notin Deletable \/ (found = {} /\ file[f].id = 0)
     THEN UNCHANGED file
     ELSE IF found = {}
     THEN file' = SetFile(f, "QBO_MISSING")
     ELSE \E id \in found :
            file' = [file EXCEPT ![f].status = "ATTACHED", ![f].id = id]
  /\ Return(c, "none")
  /\ UNCHANGED <<op, copies, made, wire>>

----------------------------------------------------------------------------
(* QuickBooks and the surroundings.                                          *)

\* A request is applied; its answer reaches a handler that still waits for it.
Land(r) ==
  LET c == r.by f == r.file
      waits(at) == call[c].at = at /\ MyFile(c) = f IN
  /\ r \in wire /\ wire' = wire \ {r}
  /\ \/ /\ r.kind = "upload" /\ made[f] < MaxUploads
        /\ made' = [made EXCEPT ![f] = @ + 1]
        /\ copies' = [copies EXCEPT ![f] = @ \cup {made[f] + 1}]
        /\ call' = IF waits("await")
                   THEN [call EXCEPT ![c].at = "landed", ![c].seen = {made[f] + 1}] ELSE call
     \/ /\ r.kind = "delete"
        /\ copies' = [copies EXCEPT ![f] = @ \ {r.id}]
        /\ call' = IF waits("delAwait") THEN [call EXCEPT ![c].at = "verify"] ELSE call
        /\ UNCHANGED made
  /\ UNCHANGED <<op, file>>

Lose(r) ==
  /\ r \in wire /\ wire' = wire \ {r}
  /\ UNCHANGED <<op, file, copies, made, call>>

\* Somebody removes a copy in QuickBooks.
RemoveInQuickBooks ==
  /\ "outside" \in mix
  /\ \E f \in Files : \E id \in copies[f] : copies' = [copies EXCEPT ![f] = @ \ {id}]
  /\ UNCHANGED <<op, file, made, wire, call>>

Crash(c) ==
  /\ call[c] # Idle
  /\ call' = [call EXCEPT ![c] = Idle]
  /\ UNCHANGED <<op, file, copies, made, wire>>

AttachmentStep(c) ==
  \/ Dispatch(c) \/ Upload(c) \/ UploadTimesOut(c) \/ UploadRefused(c) \/ RecordUpload(c)
  \/ UpdateAggregate(c) \/ Delete(c) \/ DeleteFails(c) \/ Verify(c) \/ Remove(c)
  \/ Reconcile(c) \/ Look(c) \/ Record(c) \/ RefreshWrite(c)

AttachmentStart(c) ==
  \/ PersonAttach(c) \/ PersonDelete(c) \/ Retry(c) \/ PersonReconcile(c)
  \/ RefreshRead(c) \/ \E o \in Ops : Recover(c, o)

AttachmentNext ==
  /\ \/ \E c \in Calls : AttachmentStep(c) \/ AttachmentStart(c) \/ Crash(c)
     \/ \E r \in wire : Land(r) \/ Lose(r)
     \/ RemoveInQuickBooks
  /\ UNCHANGED mix

----------------------------------------------------------------------------
(* Properties.                                                               *)

\* No attachment is left busy without an operation that can still settle it: uploads,
\* deletions and doubts all belong to an unsettled operation whose own file is busy
\* too, wherever a handler dies between the transactions.
Busy == {"STAGED", "UPLOADING", "UNCERTAIN", "DELETING"}
Unsettled(o) ==
  /\ op[o].row \in {"PREPARED", "COMMITTING", "DELETING", "UNCERTAIN"}
  /\ op[o].status \in Busy \cup {"RECONCILING"}

BusyFileHasOperation ==
  \A f \in Files : file[f].status \in Busy => \E o \in OpsOf(f) : Unsettled(o)

\* Content that is not retained goes only once QuickBooks has the file or it was deleted.
ReleasedWasUploaded ==
  \A f \in Files : file[f].status \notin {"none", "DELETED"} /\ ~file[f].blob => file[f].id # 0
=============================================================================
