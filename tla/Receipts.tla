------------------------------ MODULE Receipts ------------------------------
(* A receipt and the transaction it is matched with                          *)
(* (services/receipts/matching.ts): the receipt's file is attached, and taken *)
(* back, through the operations of Attachments. A handler holds the lease of  *)
(* the entity, fences it in every transaction on the receipt, and leaves the  *)
(* receipt in ATTACHING while an operation is in doubt.                       *)
EXTENDS Attachments

CONSTANTS
  MaxRevision,  \* bound: the revision up to which work on the receipt begins
  None

ASSUME RevisionAssumption == MaxRevision \in Nat /\ None \notin Calls

VARIABLES
  receipt,  \* ReceiptDocument: status, revision, transactionAttachmentId (0: null),
            \* whether blobId is set, and the matched transaction: as it was matched,
            \* the same but posted or superseded since, or staged anew
  lease     \* who holds the lease of the entity

vars == <<attachmentVars, receipt, lease>>

----------------------------------------------------------------------------
ReceiptStatus == {"READY", "MATCHED", "ATTACHING", "ATTACHED"}

ReceiptTypeOK ==
  /\ receipt \in [status : ReceiptStatus, revision : Nat, file : Files \cup {0},
                  blob : BOOLEAN, txn : {"active", "inactive", "moved"}]
  /\ lease \in Calls \cup {None}

\* The type of every variable.
TypeOK == AttachmentTypeOK /\ ReceiptTypeOK

Init ==
  /\ AttachmentInit
  /\ receipt = [status |-> "MATCHED", revision |-> 0, file |-> 0, blob |-> TRUE, txn |-> "active"]
  /\ lease = None

----------------------------------------------------------------------------
\* A transaction of the handler: fenced, and only for the revision it works on.
Fenced(c) == lease = c

\* Each change of the receipt counts, but for one that leaves it in doubt.
Revise(r) == receipt' = [r EXCEPT !.revision = receipt.revision + 1]

\* The handler is over, and the lease is given back.
Over(c) ==
  /\ call' = [call EXCEPT ![c] = Idle]
  /\ lease' = IF lease = c THEN None ELSE lease

KeyedOp(kind, revision) ==
  {o \in Ops : op[o] # NoOp /\ op[o].receipt /\ op[o].kind = kind /\ op[o].key = revision}

\* attachMatchedReceipt and undoAttachedReceipt begin: the lease of the matched entity.
Enter(c, for) ==
  /\ "receipt" \in mix /\ call[c] = Idle /\ receipt.revision < MaxRevision
  /\ receipt.status # "READY" /\ lease = None
  /\ lease' = c
  /\ Begin(c, for, "prepare", 0, 0, receipt.revision)
  /\ UNCHANGED <<op, file, copies, made, wire, receipt>>

\* The fence or a check of the first transaction fails.
Refuse(c) == Over(c) /\ UNCHANGED receipt

\* The receipt's operation of this revision is resumed, or a new one begun.
Proceed(c, kind, at, revision) ==
  LET found == KeyedOp(kind, revision) IN
  call' = [call EXCEPT ![c].rev = revision, ![c].file = receipt.file,
             ![c].at = IF found = {} THEN at ELSE "resume",
             ![c].op = IF found = {} THEN 0 ELSE CHOOSE o \in found : TRUE]

\* clearStaleMatch: a match with what the transaction was is dropped, not the attachment.
ClearStale == Revise([receipt EXCEPT !.status = "READY"])

\* The first transaction of an attach.
PrepareAttach(c) ==
  /\ Waiting(c, "prepare") /\ call[c].for = "attach"
  /\ \/ /\ ~(Fenced(c) /\ receipt.revision = call[c].rev /\ receipt.status # "READY")
        /\ Refuse(c)
     \/ /\ Fenced(c) /\ receipt.revision = call[c].rev /\ receipt.status # "READY"
        /\ \/ receipt.txn # "active" /\ ClearStale /\ Over(c)
           \/ /\ receipt.txn = "active" /\ receipt.status = "ATTACHING"
              /\ IF KeyedOp("attach", receipt.revision) = {} /\ (receipt.file # 0 \/ ~receipt.blob)
                 THEN Over(c)
                 ELSE Proceed(c, "attach", "create", receipt.revision) /\ UNCHANGED lease
              /\ UNCHANGED receipt
           \/ /\ receipt.txn = "active" /\ receipt.status = "MATCHED"
              /\ IF receipt.file = 0 /\ receipt.blob
                 THEN /\ Revise([receipt EXCEPT !.status = "ATTACHING"])
                      /\ Proceed(c, "attach", "create", receipt.revision + 1)
                      /\ UNCHANGED lease
                 ELSE Refuse(c)
           \/ receipt.txn = "active" /\ receipt.status = "ATTACHED" /\ Refuse(c)
  /\ UNCHANGED <<op, file, copies, made, wire>>

\* The first transaction of an undo.
PrepareUndo(c) ==
  /\ Waiting(c, "prepare") /\ call[c].for = "undo"
  /\ IF /\ Fenced(c) /\ receipt.revision = call[c].rev
        /\ receipt.file # 0 /\ receipt.txn # "moved" /\ receipt.status \in {"ATTACHING", "ATTACHED"}
     THEN IF receipt.status = "ATTACHED"
          THEN /\ Revise([receipt EXCEPT !.status = "ATTACHING"])
               /\ Proceed(c, "delete", "reserve", receipt.revision + 1)
               /\ UNCHANGED lease
          ELSE /\ Proceed(c, "delete", "reserve", receipt.revision)
               /\ UNCHANGED <<receipt, lease>>
     ELSE Refuse(c)
  /\ UNCHANGED <<op, file, copies, made, wire>>

\* The operation is created if the receipt still waits for it, or the transaction
\* fails; one of the same revision that is there already is answered with.
CreateForReceipt(c) ==
  /\ Waiting(c, "create")
  /\ \/ /\ KeyedOp("attach", call[c].rev) = {}
        /\ receipt.status \in {"MATCHED", "ATTACHING"} /\ receipt.file = 0 /\ receipt.blob
        /\ \E o \in Ops, f \in Files :
             /\ Create(o, f, TRUE, call[c].rev)
             /\ call' = [call EXCEPT ![c].at = "dispatch", ![c].op = o, ![c].file = f]
     \/ /\ KeyedOp("attach", call[c].rev) = {}
        /\ Return(c, "threw")
        /\ UNCHANGED <<op, file>>
     \/ \E o \in KeyedOp("attach", call[c].rev) :
          /\ call' = [call EXCEPT ![c].at = "returned", ![c].op = o,
                        ![c].file = op[o].file, ![c].result = Derived(op[o].status)]
          /\ UNCHANGED <<op, file>>
  /\ UNCHANGED <<copies, made, wire, receipt, lease>>

\* The attachment is reserved if it is still the receipt's, and not busy; or it fails.
ReserveForReceipt(c) ==
  LET f == call[c].file IN
  /\ Waiting(c, "reserve")
  /\ \/ /\ KeyedOp("delete", call[c].rev) = {}
        /\ receipt.file = f /\ file[f].status \in Deletable
        /\ \E o \in Ops : /\ Reserve(o, f, TRUE, call[c].rev)
                          /\ call' = [call EXCEPT ![c].at = "delete", ![c].op = o]
     \/ /\ KeyedOp("delete", call[c].rev) = {}
        /\ Return(c, "threw")
        /\ UNCHANGED <<op, file>>
     \/ \E o \in KeyedOp("delete", call[c].rev) :
          /\ call' = [call EXCEPT ![c].at = "returned", ![c].op = o,
                        ![c].result = Derived(op[o].status)]
          /\ UNCHANGED <<op, file>>
  /\ UNCHANGED <<copies, made, wire, receipt, lease>>

\* A resumed operation is read, and reconciled if it is in doubt.
Resume(c) ==
  /\ Waiting(c, "resume")
  /\ IF op[MyOp(c)].status = "UNCERTAIN" THEN Go(c, "reconcile")
     ELSE Return(c, Derived(op[MyOp(c)].status))
  /\ UNCHANGED <<op, file, copies, made, wire, receipt, lease>>

\* Mutants: an operation in doubt counts as done.
AttachedInDoubt(result) ==
  CASE result \in {"VERIFIED", "UNCERTAIN"} -> "ATTACHED"
    [] result \in {"COMMITTING", "PREPARED"} -> "ATTACHING"
    [] OTHER -> "MATCHED"
UndoneInDoubt(result) ==
  CASE result \in {"DELETED", "UNCERTAIN"} -> "MATCHED"
    [] result = "DELETING" -> "ATTACHING"
    [] OTHER -> "ATTACHED"

\* What the receipt becomes of an operation's status.
Attached(result) ==
  CASE result = "VERIFIED" -> "ATTACHED"
    [] result \in {"UNCERTAIN", "COMMITTING", "PREPARED"} -> "ATTACHING"
    [] OTHER -> "MATCHED"
Undone(result) ==
  CASE result = "DELETED" -> "MATCHED"
    [] result \in {"UNCERTAIN", "DELETING"} -> "ATTACHING"
    [] OTHER -> "ATTACHED"

\* The receipt is still the one the handler left in ATTACHING.
StillMine(c) == Fenced(c) /\ receipt.revision = call[c].rev /\ receipt.status = "ATTACHING"

\* finalizeReceiptAttach.
FinalizeAttach(c) ==
  LET status == Attached(call[c].result)
      f == op[MyOp(c)].file
      r == [receipt EXCEPT !.status = status,
                           !.file = IF status = "MATCHED" THEN @ ELSE f,
                           !.blob = IF status = "ATTACHED" THEN RetainLocally /\ @ ELSE @] IN
  /\ Waiting(c, "returned") /\ call[c].for = "attach" /\ call[c].result \notin {"threw", "busy"}
  /\ IF StillMine(c) /\ receipt.txn = "active"
     THEN IF status = "ATTACHING" THEN receipt' = r ELSE Revise(r)
     ELSE UNCHANGED receipt
  /\ Over(c)
  /\ UNCHANGED <<op, file, copies, made, wire>>

\* finalizeReceiptUndo.
FinalizeUndo(c) ==
  LET status == Undone(call[c].result)
      r == [receipt EXCEPT !.status = status, !.file = IF status = "MATCHED" THEN 0 ELSE @] IN
  /\ Waiting(c, "returned") /\ call[c].for = "undo" /\ call[c].result \notin {"threw", "busy"}
  /\ IF StillMine(c) /\ receipt.txn # "moved" /\ receipt.file = call[c].file
     THEN IF status = "ATTACHING" THEN receipt' = r ELSE Revise(r)
     ELSE UNCHANGED receipt
  /\ Over(c)
  /\ UNCHANGED <<op, file, copies, made, wire>>

\* restoreReceiptStatus, after an error of a new operation; a resumed one just fails.
Restore(c) ==
  /\ Waiting(c, "returned") /\ call[c].result \in {"threw", "busy"}
  /\ IF StillMine(c) /\ call[c].result = "threw"
     THEN Revise([receipt EXCEPT !.status = IF call[c].for = "attach" THEN "MATCHED" ELSE "ATTACHED"])
     ELSE UNCHANGED receipt
  /\ Over(c)
  /\ UNCHANGED <<op, file, copies, made, wire>>

----------------------------------------------------------------------------
\* confirmReceiptMatch and rematchReceipt, while the receipt has no attachment.
Match ==
  /\ "receipt" \in mix /\ receipt.revision < MaxRevision
  /\ receipt.status \in {"READY", "MATCHED"} /\ receipt.file = 0
  /\ \E status \in {"READY", "MATCHED"} :
       Revise([receipt EXCEPT !.status = status, !.txn = IF status = "MATCHED" THEN "active" ELSE @])
  /\ UNCHANGED <<op, file, copies, made, wire, call, lease>>

\* The transaction is posted or superseded, undone, or staged again.
MoveTransaction ==
  /\ "move" \in mix /\ receipt.status # "READY" /\ receipt.txn # "moved"
  /\ \E txn \in {"active", "inactive", "moved"} \ {receipt.txn} : receipt' = [receipt EXCEPT !.txn = txn]
  /\ UNCHANGED <<op, file, copies, made, wire, call, lease>>

\* A lease runs out: its holder has died, or cannot renew it.
Expire ==
  /\ lease # None /\ lease' = None
  /\ UNCHANGED <<op, file, copies, made, wire, call, receipt>>

ReceiptStep(c) ==
  \/ PrepareAttach(c) \/ PrepareUndo(c) \/ CreateForReceipt(c) \/ ReserveForReceipt(c)
  \/ Resume(c) \/ FinalizeAttach(c) \/ FinalizeUndo(c) \/ Restore(c)

ReceiptNext ==
  \/ \E c \in Calls : ReceiptStep(c) \/ \E for \in {"attach", "undo"} : Enter(c, for)
  \/ Match \/ MoveTransaction \/ Expire

Next ==
  \/ AttachmentNext /\ UNCHANGED <<receipt, lease>>
  \/ ReceiptNext /\ UNCHANGED mix

Spec == Init /\ [][Next]_vars

----------------------------------------------------------------------------
(* Properties.                                                               *)

\* "releases a retention-off receipt blob only after verified attachment": the
\* receipt's content, and that of any attachment, is there until QuickBooks has named
\* the file, or the attachment was deleted.
ContentIsKept ==
  /\ ReleasedWasUploaded
  /\ ~receipt.blob => \E f \in Files : file[f].id # 0 /\ \E o \in OpsOf(f) : op[o].receipt

\* A receipt gives up its attachment only when it is deleted everywhere.
UndoneIsGone ==
  [][receipt.file # 0 /\ receipt'.file = 0 => file[receipt.file].status = "DELETED"]_vars

\* A receipt is shown as attached only after its upload was verified.
AttachedWasVerified ==
  receipt.status = "ATTACHED" => receipt.file # 0 /\ file[receipt.file].id # 0
=============================================================================
