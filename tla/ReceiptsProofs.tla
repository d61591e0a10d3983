--------------------------- MODULE ReceiptsProofs ---------------------------
(* Proofs about Receipts, and Attachments below it, for any number of         *)
(* requests, operations, attachments and copies, any retention and any mix of *)
(* the things that may happen.                                                *)
EXTENDS Receipts, TLAPS

----------------------------------------------------------------------------
(* The rows: operations and their attachments.                               *)

Used(o) == o \in Ops /\ op[o] # NoOp
BusyOp == Busy \cup {"RECONCILING"}
OpenRows == {"PREPARED", "COMMITTING", "DELETING", "UNCERTAIN"}

\* A busy operation and its attachment agree; a recovery may have put the attachment
\* of a deletion in doubt on behalf of an older operation.
Fits(s, t) ==
  \/ s \in Busy /\ t = s
  \/ s \in {"RECONCILING", "DELETING"} /\ t = "UNCERTAIN"

OpFits(o) ==
  /\ file[op[o].file].status # "none"
  /\ op[o].status \in BusyOp =>
       Fits(op[o].status, file[op[o].file].status) /\ op[o].row \in OpenRows
  /\ op[o].status \in {"STAGED", "UPLOADING"} => op[o].kind = "attach"
  /\ op[o].status = "ATTACHED" => file[op[o].file].id # 0
  /\ op[o].status = "DELETED" => file[op[o].file].status = "DELETED"

FileHeld(f) ==
  /\ file[f].status \in Busy =>
       \E o \in Ops : Used(o) /\ op[o].file = f /\ op[o].status \in BusyOp
  /\ file[f].status \notin {"none", "DELETED"} /\ ~file[f].blob => file[f].id # 0

\* An attachment is uploaded by one operation, and one at a time is busy with it.
Apart(o, p) ==
  op[o].file = op[p].file =>
    /\ ~(op[o].kind = "attach" /\ op[p].kind = "attach")
    /\ ~(op[o].status \in BusyOp /\ op[p].status \in BusyOp)

RowsTyped == op \in [Ops -> Operation \cup {NoOp}] /\ file \in [Files -> Attachment]
RowsInv ==
  /\ \A o \in Ops : Used(o) => OpFits(o)
  /\ \A f \in Files : FileHeld(f)
  /\ \A o, p \in Ops : Used(o) /\ Used(p) /\ o # p => Apart(o, p)

\* What every step leaves of the rows: who an operation is, an id once there, and a
\* deletion.
RowsStep ==
  /\ RowsTyped' /\ RowsInv'
  /\ \A o \in Ops : Used(o) =>
       /\ op'[o] # NoOp /\ op'[o].kind = op[o].kind /\ op'[o].file = op[o].file
       /\ op'[o].receipt = op[o].receipt /\ op'[o].key = op[o].key
  /\ \A f \in Files :
       /\ file[f].id # 0 => file'[f].id # 0
       /\ file[f].status = "DELETED" => file'[f].status = "DELETED"

LEMMA OpRow ==
  ASSUME RowsTyped, NEW o, Used(o)
  PROVE  /\ o \in Ops /\ op[o] \in Operation /\ op[o].file \in Files
         /\ op[o].kind \in {"attach", "delete"} /\ op[o].row \in RowStatus
         /\ op[o].status \in OpFileStatus
         /\ file[op[o].file] \in Attachment
<1>1. op[o] \in Operation
  BY DEF RowsTyped, Used
<1> QED
  BY <1>1 DEF Operation, Used, RowsTyped

LEMMA NoOpIsNone == NoOp \notin Operation
BY DEF NoOp, Operation

\* An operation and its attachment change together.
Changed(o, row, status, rec) ==
  /\ op' = [op EXCEPT ![o].row = row, ![o].status = status]
  /\ file' = [file EXCEPT ![op[o].file] = rec]

\* When they may: the operation is the busy one of the attachment, or there is none, or
\* the change leaves the operation aside and at most doubts a deletion.
Aside(o, status, rec) ==
  /\ status = op[o].status /\ status \notin BusyOp
  /\ \/ rec = file[op[o].file]
     \/ /\ file[op[o].file].status = "DELETING"
        /\ rec = [file[op[o].file] EXCEPT !.status = "UNCERTAIN"]
Takes(o, status, rec) ==
  /\ op[o].status \in BusyOp \/ file[op[o].file].status \notin Busy
  /\ rec.status \in Busy => status \in BusyOp

Allowed(o, row, status, rec) ==
  /\ Aside(o, status, rec) \/ Takes(o, status, rec)
  /\ rec.status # "none"
  /\ status \in BusyOp => Fits(status, rec.status) /\ row \in OpenRows
  /\ status \in {"STAGED", "UPLOADING"} => op[o].kind = "attach"
  /\ status = "ATTACHED" => rec.id # 0
  /\ status = "DELETED" => rec.status = "DELETED"
  /\ file[op[o].file].id # 0 => rec.id # 0
  /\ file[op[o].file].status = "DELETED" => rec.status = "DELETED"
  /\ rec.status # "DELETED" /\ ~rec.blob => rec.id # 0

LEMMA SameRows ==
  ASSUME RowsTyped, RowsInv, UNCHANGED <<op, file>>
  PROVE  RowsStep
BY DEF RowsTyped, RowsInv, RowsStep, Used, OpFits, FileHeld, Apart

LEMMA ChangedRow ==
  ASSUME RowsTyped, NEW o, Used(o), NEW row \in RowStatus, NEW status \in OpFileStatus,
         NEW rec \in Attachment, Changed(o, row, status, rec)
  PROVE  /\ op'[o] \in Operation /\ op'[o] # NoOp
         /\ op'[o].row = row /\ op'[o].status = status /\ op'[o].kind = op[o].kind
         /\ op'[o].file = op[o].file /\ op'[o].receipt = op[o].receipt /\ op'[o].key = op[o].key
         /\ \A p \in Ops : p # o => op'[p] = op[p]
         /\ file'[op[o].file] = rec
         /\ \A f \in Files : f # op[o].file => file'[f] = file[f]
         /\ RowsTyped'
<1>1. op[o] \in Operation /\ o \in Ops /\ op[o].file \in Files
  BY OpRow
<1>2. op' = [op EXCEPT ![o] = [op[o] EXCEPT !.row = row, !.status = status]]
  BY <1>1 DEF Changed, RowsTyped
<1> DEFINE x == [op[o] EXCEPT !.row = row, !.status = status]
<1>3. /\ x \in Operation /\ x.row = row /\ x.status = status /\ x.kind = op[o].kind
      /\ x.file = op[o].file /\ x.receipt = op[o].receipt /\ x.key = op[o].key
  BY <1>1 DEF Operation
<1> HIDE DEF x
<1>4. op' = [op EXCEPT ![o] = x]
  BY <1>2 DEF x
<1>5. op'[o] = x /\ \A p \in Ops : p # o => op'[p] = op[p]
  BY <1>1, <1>4 DEF RowsTyped
<1>6. file'[op[o].file] = rec /\ \A f \in Files : f # op[o].file => file'[f] = file[f]
  BY <1>1 DEF Changed, RowsTyped
<1>7. RowsTyped'
  BY <1>1, <1>3, <1>4 DEF Changed, RowsTyped
<1>8. op'[o] # NoOp
  BY <1>3, <1>5, NoOpIsNone
<1> QED
  BY <1>3, <1>5, <1>6, <1>7, <1>8

LEMMA ChangeStep ==
  ASSUME RowsTyped, RowsInv, NEW o, Used(o), NEW row \in RowStatus, NEW status \in OpFileStatus,
         NEW rec \in Attachment, Changed(o, row, status, rec), Allowed(o, row, status, rec)
  PROVE  RowsStep
<1> DEFINE f == op[o].file
<1>0. /\ o \in Ops /\ op[o] \in Operation /\ f \in Files
      /\ \A p \in Ops : Used(p) => op[p].file \in Files
  BY OpRow
<1>1. /\ op'[o].row = row /\ op'[o].status = status /\ op'[o].kind = op[o].kind
      /\ op'[o].file = f /\ op'[o].receipt = op[o].receipt /\ op'[o].key = op[o].key
      /\ op'[o] # NoOp
      /\ \A p \in Ops : p # o => op'[p] = op[p]
      /\ file'[f] = rec
      /\ \A g \in Files : g # f => file'[g] = file[g]
      /\ RowsTyped'
  BY ChangedRow
<1>2. \A p \in Ops : (op'[p] # NoOp) <=> Used(p)
  BY <1>0, <1>1 DEF Used
<1>3. OpFits(o) /\ FileHeld(f)
  BY <1>0 DEF RowsInv
\* Another operation of the attachment is not busy, or the change was aside.
<1>4. ASSUME NEW p \in Ops, Used(p), p # o, op[p].file = f, op[p].status \in BusyOp
      PROVE  Aside(o, status, rec)
  <2>1. op[o].status \notin BusyOp
    BY <1>0, <1>4 DEF RowsInv, Apart
  <2>2. Fits(op[p].status, file[f].status)
    BY <1>4 DEF RowsInv, OpFits
  <2>3. file[f].status \in Busy
    BY <2>2 DEF Fits, Busy
  <2> QED
    BY <2>1, <2>3 DEF Allowed, Takes
<1>5. ASSUME NEW p \in Ops, Used(p) PROVE OpFits(p)'
  <2>1. CASE p = o
    BY <1>0, <1>1, <2>1 DEF OpFits, Allowed
  <2>2. CASE p # o /\ op[p].file # f
    BY <1>0, <1>1, <1>5, <2>2 DEF OpFits, RowsInv
  <2>3. CASE p # o /\ op[p].file = f
    <3>1. OpFits(p)
      BY <1>5 DEF RowsInv
    <3>2. op[p].status \in BusyOp => Fits(op[p].status, rec.status)
      <4> SUFFICES ASSUME op[p].status \in BusyOp PROVE Fits(op[p].status, rec.status)
        OBVIOUS
      <4>1. Aside(o, status, rec) /\ Fits(op[p].status, file[f].status)
        BY <1>4, <1>5, <2>3, <3>1 DEF OpFits
      <4>2. CASE rec = file[f]
        BY <4>1, <4>2
      <4>3. CASE file[f].status = "DELETING" /\ rec = [file[f] EXCEPT !.status = "UNCERTAIN"]
        <5>1. file[f] \in Attachment
          BY <1>0 DEF RowsTyped
        <5>2. rec.status = "UNCERTAIN"
          BY <4>3, <5>1 DEF Attachment
        <5> QED
          BY <4>1, <4>3, <5>2 DEF Fits
      <4> QED
        BY <4>1, <4>2, <4>3 DEF Aside
    <3>3. op'[p] = op[p] /\ file'[op'[p].file] = rec
      BY <1>1, <2>3
    <3>4. /\ rec.status # "none" /\ (file[f].id # 0 => rec.id # 0)
          /\ (file[f].status = "DELETED" => rec.status = "DELETED")
      BY DEF Allowed
    <3> QED
      BY <2>3, <3>1, <3>2, <3>3, <3>4 DEF OpFits
  <2> QED
    BY <2>1, <2>2, <2>3
<1>6. ASSUME NEW g \in Files PROVE FileHeld(g)'
  <2>1. FileHeld(g)
    BY DEF RowsInv
  <2>2. CASE g # f
    <3>1. file'[g] = file[g]
      BY <1>1, <2>2
    <3>2. \A p \in Ops : Used(p) /\ op[p].file = g => op'[p] = op[p]
      BY <1>1, <2>2
    <3> QED
      BY <1>2, <2>1, <3>1, <3>2 DEF FileHeld, Used
  <2>3. CASE g = f
    <3>1. CASE Takes(o, status, rec)
      BY <1>0, <1>1, <1>2, <2>3, <3>1 DEF FileHeld, Takes, Allowed, Used
    <3>2. CASE Aside(o, status, rec)
      <4>1. file[f] \in Attachment
        BY <1>0 DEF RowsTyped
      <4>2. rec.status \in Busy => file[f].status \in Busy
        BY <3>2 DEF Aside, Busy
      <4>3. rec.status \in Busy =>
              \E p \in Ops : Used(p) /\ op[p].file = f /\ op[p].status \in BusyOp /\ p # o
        BY <1>3, <3>2, <4>2 DEF FileHeld, Aside
      <4> QED
        BY <1>1, <1>2, <2>3, <4>3 DEF FileHeld, Allowed, Used
    <3> QED
      BY <3>1, <3>2 DEF Allowed
  <2> QED
    BY <2>2, <2>3
<1>7. ASSUME NEW p \in Ops, NEW q \in Ops, Used(p), Used(q), p # q PROVE Apart(p, q)'
  <2>1. Apart(p, q)
    BY <1>7 DEF RowsInv
  <2>2. ASSUME NEW r \in Ops, Used(r), r # o, op[r].file = f, op[r].status \in BusyOp
        PROVE  status \notin BusyOp
    BY <1>4, <2>2 DEF Aside
  <2>3. CASE p # o /\ q # o
    BY <1>1, <2>1, <2>3 DEF Apart
  <2>4. CASE p = o
    BY <1>1, <1>7, <2>1, <2>2, <2>4 DEF Apart
  <2>5. CASE q = o
    BY <1>1, <1>7, <2>1, <2>2, <2>5 DEF Apart
  <2> QED
    BY <2>3, <2>4, <2>5
<1>8. RowsInv'
  BY <1>2, <1>5, <1>6, <1>7 DEF RowsInv, Used
<1>9. \A p \in Ops : Used(p) =>
        /\ op'[p] # NoOp /\ op'[p].kind = op[p].kind /\ op'[p].file = op[p].file
        /\ op'[p].receipt = op[p].receipt /\ op'[p].key = op[p].key
  BY <1>1, <1>2
<1>10. \A g \in Files : /\ file[g].id # 0 => file'[g].id # 0
                        /\ file[g].status = "DELETED" => file'[g].status = "DELETED"
  BY <1>1 DEF Allowed
<1> QED
  BY <1>1, <1>8, <1>9, <1>10 DEF RowsStep

\* A new operation, and what it finds.
NewOp(o, x) ==
  /\ ~Used(o) /\ o \in Ops /\ x \in Operation
  /\ op' = [op EXCEPT ![o] = x]

LEMMA NewRow ==
  ASSUME RowsTyped, NEW o, NEW x, NewOp(o, x)
  PROVE  /\ op'[o] = x /\ op'[o] # NoOp /\ \A p \in Ops : p # o => op'[p] = op[p]
         /\ op' \in [Ops -> Operation \cup {NoOp}]
         /\ \A p \in Ops : Used(p) => p # o
BY NoOpIsNone DEF NewOp, RowsTyped, Used

\* The attachment has no busy operation, and has one when it becomes busy.
LEMMA NewStep ==
  ASSUME RowsTyped, RowsInv, NEW o, NEW x, NewOp(o, x), NEW f \in Files, NEW rec \in Attachment,
         x.file = f, x.status = rec.status, rec.status \in {"STAGED", "DELETING"},
         x.row \in OpenRows, x.status = "STAGED" => x.kind = "attach",
         x.kind = "attach" => file[f].status = "none",
         file[f].status \notin Busy \cup {"DELETED"}, file[f].id # 0 => rec.id # 0,
         ~rec.blob => rec.id # 0, file' = [file EXCEPT ![f] = rec]
  PROVE  RowsStep
<1>0. /\ op'[o] = x /\ op'[o] # NoOp /\ \A p \in Ops : p # o => op'[p] = op[p]
      /\ op' \in [Ops -> Operation \cup {NoOp}]
      /\ \A p \in Ops : Used(p) => p # o
      /\ o \in Ops /\ x \in Operation
      /\ \A p \in Ops : Used(p) => op[p].file \in Files
      /\ file'[f] = rec /\ \A g \in Files : g # f => file'[g] = file[g]
  BY NewRow, OpRow DEF NewOp, RowsTyped
<1>1. RowsTyped'
  BY <1>0 DEF RowsTyped
<1>2. \A p \in Ops : (op'[p] # NoOp) <=> (Used(p) \/ p = o)
  BY <1>0 DEF Used
<1>3. ASSUME NEW p \in Ops, Used(p), op[p].file = f
      PROVE  op[p].status \notin BusyOp /\ file[f].status # "none"
  <2>1. OpFits(p)
    BY <1>3 DEF RowsInv
  <2> QED
    BY <1>3, <2>1 DEF OpFits, Fits, Busy
<1>4. ASSUME NEW p \in Ops, Used(p) PROVE OpFits(p)'
  <2>1. op'[p] = op[p] /\ OpFits(p) /\ op[p].file \in Files
    BY <1>0, <1>4 DEF RowsInv
  <2>2. CASE op[p].file # f
    BY <1>0, <2>1, <2>2 DEF OpFits
  <2>3. CASE op[p].file = f
    BY <1>0, <1>3, <1>4, <2>1, <2>3 DEF OpFits, Busy, BusyOp
  <2> QED
    BY <2>2, <2>3
<1>5. OpFits(o)'
  <2>1. /\ file'[op'[o].file] = rec /\ op'[o].status = rec.status /\ op'[o].row \in OpenRows
        /\ op'[o].status = "STAGED" => op'[o].kind = "attach"
    BY <1>0
  <2> QED
    BY <2>1 DEF OpFits, Fits, Busy
<1>6. ASSUME NEW g \in Files PROVE FileHeld(g)'
  <2>1. FileHeld(g)
    BY DEF RowsInv
  <2>2. CASE g # f
    <3>1. file'[g] = file[g] /\ \A p \in Ops : Used(p) => op'[p] = op[p]
      BY <1>0, <2>2
    <3> QED
      BY <1>2, <2>1, <3>1 DEF FileHeld, Used
  <2>3. CASE g = f
    BY <1>0, <2>3 DEF FileHeld, Used, BusyOp, Busy
  <2> QED
    BY <2>2, <2>3
<1>7. ASSUME NEW p \in Ops, NEW q \in Ops, Used(p) \/ p = o, Used(q) \/ q = o, p # q
      PROVE  Apart(p, q)'
  <2>1. CASE p # o /\ q # o
    BY <1>0, <1>7, <2>1 DEF RowsInv, Apart
  <2>2. CASE p = o
    BY <1>0, <1>3, <1>7, <2>2 DEF Apart
  <2>3. CASE q = o
    BY <1>0, <1>3, <1>7, <2>3 DEF Apart
  <2> QED
    BY <2>1, <2>2, <2>3
<1>8. RowsInv'
  BY <1>2, <1>4, <1>5, <1>6, <1>7 DEF RowsInv, Used
<1>9. \A p \in Ops : Used(p) => op'[p] = op[p] /\ op'[p] # NoOp
  BY <1>0 DEF Used
<1>10. \A g \in Files : /\ file[g].id # 0 => file'[g].id # 0
                        /\ file[g].status = "DELETED" => file'[g].status = "DELETED"
  BY <1>0
<1> QED
  BY <1>1, <1>8, <1>9, <1>10 DEF RowsStep

LEMMA CreateStep ==
  ASSUME RowsTyped, RowsInv, NEW o \in Ops, NEW f \in Files, NEW isReceipt \in BOOLEAN,
         NEW key \in Nat, Create(o, f, isReceipt, key)
  PROVE  /\ RowsStep /\ ~Used(o) /\ op'[o] # NoOp
         /\ op'[o].kind = "attach" /\ op'[o].file = f /\ op'[o].receipt = isReceipt
         /\ op'[o].key = key /\ op'[o].status = "STAGED"
         /\ \A p \in Ops : p # o => op'[p] = op[p]
<1> DEFINE x == [kind |-> "attach", file |-> f, receipt |-> isReceipt, key |-> key,
                 row |-> "PREPARED", status |-> "STAGED"]
           rec == [status |-> "STAGED", id |-> 0, blob |-> TRUE]
<1>1. x \in Operation /\ rec \in Attachment
  BY DEF Operation, Attachment, RowStatus, OpFileStatus, FileStatus
<1>2. NewOp(o, x) /\ file' = [file EXCEPT ![f] = rec] /\ file[f] = NoFile
  BY <1>1 DEF Create, NextOp, NextFile, NewOp, Used
<1>3. file[f].status = "none" /\ file[f].id = 0
  BY <1>2 DEF NoFile
<1>4. /\ x.file = f /\ x.status = "STAGED" /\ x.row = "PREPARED" /\ x.kind = "attach"
      /\ x.receipt = isReceipt /\ x.key = key /\ rec.status = "STAGED" /\ rec.blob = TRUE
  OBVIOUS
<1> HIDE DEF x, rec
<1>5. RowsStep
  BY <1>1, <1>2, <1>3, <1>4, NewStep DEF OpenRows, Busy
<1> QED
  BY <1>2, <1>4, <1>5, NewRow DEF NewOp

LEMMA ReserveStep ==
  ASSUME RowsTyped, RowsInv, NEW o \in Ops, NEW f \in Files, NEW isReceipt \in BOOLEAN,
         NEW key \in Nat, Reserve(o, f, isReceipt, key)
  PROVE  /\ RowsStep /\ ~Used(o) /\ op'[o] # NoOp
         /\ op'[o].kind = "delete" /\ op'[o].file = f /\ op'[o].receipt = isReceipt
         /\ op'[o].key = key /\ op'[o].status = "DELETING"
         /\ \A p \in Ops : p # o => op'[p] = op[p]
<1> DEFINE x == [kind |-> "delete", file |-> f, receipt |-> isReceipt, key |-> key,
                 row |-> "DELETING", status |-> "DELETING"]
           rec == [file[f] EXCEPT !.status = "DELETING"]
<1>0. file[f] \in Attachment
  BY DEF RowsTyped
<1>1. x \in Operation /\ rec \in Attachment
  BY <1>0 DEF Operation, Attachment, RowStatus, OpFileStatus, FileStatus
<1>2. NewOp(o, x) /\ file' = [file EXCEPT ![f] = rec] /\ file[f].status \in Deletable
  BY <1>1 DEF Reserve, NextOp, NewOp, Used, SetFile
<1>3. FileHeld(f)
  BY DEF RowsInv
<1>4. /\ x.file = f /\ x.status = "DELETING" /\ x.row = "DELETING" /\ x.kind = "delete"
      /\ x.receipt = isReceipt /\ x.key = key /\ rec.status = "DELETING"
      /\ rec.blob = file[f].blob /\ rec.id = file[f].id
  BY <1>0 DEF Attachment
<1> HIDE DEF x, rec
<1>5. /\ file[f].status \notin Busy \cup {"none", "DELETED"}
      /\ x.status = rec.status /\ x.row \in OpenRows
      /\ file[f].id # 0 => rec.id # 0
      /\ ~rec.blob => rec.id # 0
  BY <1>2, <1>3, <1>4 DEF OpenRows, Busy, Deletable, FileHeld
<1>6. RowsStep
  BY <1>1, <1>2, <1>4, <1>5, NewStep
<1> QED
  BY <1>2, <1>4, <1>6, NewRow DEF NewOp

\* The refresh changes an attachment nobody is busy with.
LEMMA FileStep ==
  ASSUME RowsTyped, RowsInv, NEW f \in Files, NEW rec \in Attachment, UNCHANGED op,
         file' = [file EXCEPT ![f] = rec], file[f].status \in Deletable,
         rec.status \in {"ATTACHED", "QBO_MISSING"}, rec.id # 0
  PROVE  RowsStep
<1>0. /\ file'[f] = rec /\ \A g \in Files : g # f => file'[g] = file[g]
      /\ RowsTyped' /\ \A p \in Ops : Used(p) => op[p].file \in Files
  BY OpRow DEF RowsTyped
<1>1. ASSUME NEW p \in Ops, Used(p), op[p].file = f
      PROVE  op[p].status \notin BusyOp \cup {"DELETED"}
  <2>1. OpFits(p)
    BY <1>1 DEF RowsInv
  <2> QED
    BY <1>1, <2>1 DEF OpFits, Fits, Busy, Deletable
<1>2. ASSUME NEW p \in Ops, Used(p) PROVE OpFits(p)'
  <2>1. OpFits(p) /\ op' = op
    BY <1>2 DEF RowsInv
  <2>2. CASE op[p].file # f
    BY <1>0, <1>2, <2>1, <2>2 DEF OpFits
  <2>3. CASE op[p].file = f
    BY <1>0, <1>1, <1>2, <2>1, <2>3 DEF OpFits, Busy, BusyOp
  <2> QED
    BY <2>2, <2>3
<1>3. ASSUME NEW g \in Files PROVE FileHeld(g)'
  BY <1>0 DEF RowsInv, FileHeld, Used, Busy
<1>4. RowsInv'
  BY <1>2, <1>3 DEF RowsInv, Used, Apart
<1>5. file[f].status # "DELETED"
  BY DEF Deletable
<1> QED
  BY <1>0, <1>4, <1>5 DEF RowsStep, Used

----------------------------------------------------------------------------
(* The handlers: what each knows of its operation where it stands.           *)

UploadStops == {"dispatch", "send", "await", "landed"}
DeleteStops == {"delete", "delAwait", "verify", "remove"}
ReconcileStops == {"look", "record"}
GuardStops == DeleteStops \cup ReconcileStops
OpStops == UploadStops \cup GuardStops \cup {"aggregate", "reconcile", "resume"}
Stops == AttachmentStops \cup ReceiptStops
KindFor(for) == IF for = "attach" THEN "attach" ELSE "delete"

CallTyped == call \in [Calls -> Working \cup {Idle}]

\* The result of an operation that is over is true of its attachment.
ResultHolds(c) ==
  call[c].result \notin {"threw", "busy"} =>
    /\ Used(call[c].op)
    /\ call[c].result = "VERIFIED" => file[op[call[c].op].file].id # 0
    /\ call[c].result = "DELETED" => file[op[call[c].op].file].status = "DELETED"

\* The operation a receipt's handler works on is the one of its revision.
KeyHolds(c) ==
  call[c].for \in {"attach", "undo"} /\ call[c].op # 0 =>
    /\ Used(call[c].op) /\ op[call[c].op].receipt
    /\ op[call[c].op].key = call[c].rev /\ op[call[c].op].kind = KindFor(call[c].for)

CallFits(c) ==
  call[c] # Idle =>
    /\ call[c].at \in OpStops => Used(call[c].op)
    /\ call[c].at \in UploadStops => op[call[c].op].kind = "attach"
    /\ call[c].at \in DeleteStops => op[call[c].op].status = "DELETING"
    /\ call[c].at \in ReconcileStops => op[call[c].op].status = "RECONCILING"
    /\ call[c].at \in {"reserve", "refresh"} => call[c].file \in Files
    /\ call[c].at = "refresh" => call[c].for = "person"
    /\ call[c].at = "create" => call[c].for = "attach"
    /\ call[c].at = "reserve" => call[c].for = "undo"
    /\ call[c].at = "returned" => call[c].for \in {"attach", "undo"} /\ ResultHolds(c)
    /\ KeyHolds(c)

Guards(c, o) == call[c].at \in GuardStops /\ call[c].op = o
CallInv ==
  /\ \A c \in Calls : CallFits(c)
  /\ \A c, d \in Calls, o \in Ops : Guards(c, o) /\ Guards(d, o) => c = d

\* A step of one handler: it settles no operation that another deletes or reconciles,
\* and takes none of these.
Moves(c) == CallTyped' /\ \A d \in Calls : d # c => call'[d] = call[d]
Spares(c) ==
  \A o \in Ops : \A d \in Calls : Used(o) /\ d # c /\ Guards(d, o) =>
    op'[o].status = op[o].status /\ ~(call'[c].at \in GuardStops /\ call'[c].op = o)
Turn(c) == RowsStep /\ Moves(c) /\ CallFits(c)' /\ Spares(c)

\* A step on an attachment leaves what belongs to a receipt alone.
Plain(c) ==
  /\ \A o \in Ops : ~Used(o) /\ op'[o] # NoOp => ~op'[o].receipt
  /\ call'[c] # Idle /\ call'[c].for \in {"attach", "undo"} =>
       call[c] # Idle /\ call'[c].for = call[c].for /\ call'[c].rev = call[c].rev

LEMMA IdleIsNotWorking == Idle \notin Working /\ Idle.at = "idle"
BY DEF Idle, Working

LEMMA CallRow ==
  ASSUME CallTyped, NEW c \in Calls, call[c].at # "idle"
  PROVE  /\ call[c] \in Working /\ call[c] # Idle /\ call[c].at \in Stops
         /\ call[c].for \in Purposes /\ call[c].op \in Ops \cup {0}
         /\ call[c].file \in Files \cup {0} /\ call[c].seen \subseteq Copies
         /\ call[c].rev \in Nat /\ call[c].result \in Results
<1>1. call[c] \in Working /\ call[c] # Idle
  BY IdleIsNotWorking DEF CallTyped
<1> QED
  BY <1>1 DEF Working, Stops

LEMMA TurnKeeps ==
  ASSUME RowsTyped, CallTyped, CallInv, NEW c \in Calls, Turn(c)
  PROVE  RowsTyped' /\ RowsInv' /\ CallTyped' /\ CallInv'
<1>1. RowsTyped' /\ RowsInv' /\ CallTyped'
  BY DEF Turn, RowsStep, Moves
<1>2. ASSUME NEW d \in Calls PROVE CallFits(d)'
  <2>1. CASE d = c
    BY <2>1 DEF Turn
  <2>2. CASE d # c /\ call[d] # Idle
    <3>0. call'[d] = call[d] /\ CallFits(d)
      BY <2>2 DEF Turn, Moves, CallInv
    <3>1. \A o \in Ops : Used(o) =>
            /\ op'[o] # NoOp /\ op'[o].kind = op[o].kind /\ op'[o].file = op[o].file
            /\ op'[o].receipt = op[o].receipt /\ op'[o].key = op[o].key
            /\ op[o].file \in Files
      BY OpRow DEF Turn, RowsStep
    <3>2. \A f \in Files : /\ file[f].id # 0 => file'[f].id # 0
                           /\ file[f].status = "DELETED" => file'[f].status = "DELETED"
      BY DEF Turn, RowsStep
    <3>3. call[d].at \in GuardStops => op'[call[d].op].status = op[call[d].op].status
      BY <2>2, <3>0 DEF Turn, Spares, Guards, CallFits, OpStops, Used
    <3>4. ResultHolds(d) => ResultHolds(d)'
      BY <3>0, <3>1, <3>2 DEF ResultHolds, Used
    <3>5. KeyHolds(d) => KeyHolds(d)'
      BY <3>0, <3>1 DEF KeyHolds, Used, KindFor
    <3> QED
      BY <2>2, <3>0, <3>1, <3>3, <3>4, <3>5 DEF CallFits, Used, OpStops, GuardStops
  <2>3. CASE d # c /\ call[d] = Idle
    BY <2>3 DEF Turn, Moves, CallFits
  <2> QED
    BY <2>1, <2>2, <2>3
<1>3. ASSUME NEW d \in Calls, NEW e \in Calls, NEW o \in Ops, Guards(d, o)', Guards(e, o)'
      PROVE  d = e
  <2>1. \A b \in Calls : b # c => call'[b] = call[b]
    BY DEF Turn, Moves
  <2>2. \A b \in Calls : Guards(b, o) => Used(o)
    BY IdleIsNotWorking DEF CallInv, CallFits, Guards, OpStops, GuardStops, DeleteStops, ReconcileStops
  <2>3. CASE d # c /\ e # c
    BY <1>3, <2>1, <2>3 DEF CallInv, Guards
  <2>4. ASSUME NEW b \in Calls, b # c, Guards(b, o)', Guards(c, o)' PROVE FALSE
    BY <2>1, <2>2, <2>4 DEF Turn, Spares, Guards
  <2> QED
    BY <1>3, <2>3, <2>4
<1> QED
  BY <1>1, <1>2, <1>3 DEF CallInv

\* How the handler moves.
LEMMA Moving ==
  ASSUME CallTyped, NEW c \in Calls, NEW k \in Working \cup {Idle}, call' = [call EXCEPT ![c] = k]
  PROVE  Moves(c) /\ call'[c] = k
BY DEF CallTyped, Moves

LEMMA MovesOn ==
  ASSUME CallTyped, NEW c \in Calls, call[c].at # "idle", NEW at \in Stops, Go(c, at)
  PROVE  /\ Moves(c) /\ call'[c] # Idle /\ call'[c].at = at /\ call'[c].op = call[c].op
         /\ call'[c].for = call[c].for /\ call'[c].file = call[c].file
         /\ call'[c].rev = call[c].rev /\ call'[c].result = call[c].result
<1> DEFINE k == [call[c] EXCEPT !.at = at]
<1>1. call[c] \in Working
  BY CallRow
<1>2. k \in Working /\ k.at = at /\ k.op = call[c].op /\ k.for = call[c].for
      /\ k.file = call[c].file /\ k.rev = call[c].rev /\ k.result = call[c].result
  BY <1>1 DEF Working, Stops
<1>3. call' = [call EXCEPT ![c] = k]
  BY DEF Go
<1> HIDE DEF k
<1> QED
  BY <1>2, <1>3, Moving, IdleIsNotWorking

LEMMA MovesToAggregate ==
  ASSUME CallTyped, NEW c \in Calls, call[c].at # "idle", NEW result \in Results,
         Aggregate(c, result)
  PROVE  /\ Moves(c) /\ call'[c] # Idle /\ call'[c].at = "aggregate" /\ call'[c].op = call[c].op
         /\ call'[c].for = call[c].for /\ call'[c].rev = call[c].rev
<1> DEFINE k == [call[c] EXCEPT !.at = "aggregate", !.result = result, !.seen = {}]
<1>1. call[c] \in Working
  BY CallRow
<1>2. k \in Working /\ k.at = "aggregate" /\ k.op = call[c].op /\ k.for = call[c].for
      /\ k.rev = call[c].rev
  BY <1>1 DEF Working, AttachmentStops
<1>3. call' = [call EXCEPT ![c] = k]
  BY <1>1 DEF Aggregate, CallTyped
<1> HIDE DEF k
<1> QED
  BY <1>2, <1>3, Moving, IdleIsNotWorking

LEMMA MovesBack ==
  ASSUME CallTyped, NEW c \in Calls, call[c].at # "idle", NEW result \in Results,
         Return(c, result)
  PROVE  /\ Moves(c)
         /\ \/ call[c].for \notin {"attach", "undo"} /\ call'[c] = Idle
            \/ /\ call[c].for \in {"attach", "undo"}
               /\ call'[c] # Idle /\ call'[c].at = "returned" /\ call'[c].op = call[c].op
               /\ call'[c].for = call[c].for /\ call'[c].rev = call[c].rev
               /\ call'[c].result = result
<1> DEFINE k == [call[c] EXCEPT !.at = "returned", !.result = result, !.seen = {}]
<1>1. call[c] \in Working
  BY CallRow
<1>2. k \in Working /\ k.at = "returned" /\ k.op = call[c].op /\ k.for = call[c].for
      /\ k.rev = call[c].rev /\ k.result = result
  BY <1>1 DEF Working, ReceiptStops
<1>3. call' = [call EXCEPT ![c] = IF call[c].for \in {"attach", "undo"} THEN k ELSE Idle]
  BY DEF Return
<1> HIDE DEF k
<1>4. CASE call[c].for \in {"attach", "undo"}
  <2>1. call' = [call EXCEPT ![c] = k]
    BY <1>3, <1>4
  <2> QED
    BY <1>2, <1>4, <2>1, Moving, IdleIsNotWorking
<1>5. CASE call[c].for \notin {"attach", "undo"}
  <2>1. call' = [call EXCEPT ![c] = Idle]
    BY <1>3, <1>5
  <2> QED
    BY <1>5, <2>1, Moving
<1> QED
  BY <1>4, <1>5

LEMMA Begins ==
  ASSUME CallTyped, NEW c \in Calls, NEW for \in Purposes, NEW at \in Stops, NEW o \in Ops \cup {0},
         NEW f \in Files \cup {0}, NEW rev \in Nat, Begin(c, for, at, o, f, rev)
  PROVE  /\ Moves(c) /\ call'[c] # Idle /\ call'[c].at = at /\ call'[c].op = o
         /\ call'[c].for = for /\ call'[c].file = f /\ call'[c].rev = rev
<1> DEFINE k == [at |-> at, for |-> for, op |-> o, file |-> f, seen |-> {}, rev |-> rev,
                 result |-> "none"]
<1>1. k \in Working
  BY DEF Working, Stops, Results
<1>2. call' = [call EXCEPT ![c] = k]
  BY DEF Begin
<1>3. k.at = at /\ k.op = o /\ k.for = for /\ k.file = f /\ k.rev = rev
  OBVIOUS
<1> HIDE DEF k
<1> QED
  BY <1>1, <1>2, <1>3, Moving, IdleIsNotWorking

LEMMA Ends ==
  ASSUME CallTyped, NEW c \in Calls, call' = [call EXCEPT ![c] = Idle]
  PROVE  Moves(c) /\ CallFits(c)' /\ call'[c] = Idle /\ call'[c].at \notin GuardStops
<1>1. Moves(c) /\ call'[c] = Idle
  BY Moving
<1> QED
  BY <1>1, IdleIsNotWorking DEF CallFits, GuardStops, DeleteStops, ReconcileStops

\* A handler that reconciles or deletes is the only one to do it.
LEMMA AloneAtWork ==
  ASSUME CallInv, NEW c \in Calls, call[c].at \in GuardStops, NEW d \in Calls, d # c
  PROVE  ~Guards(d, call[c].op)
<1>1. call[c].op \in Ops
  BY IdleIsNotWorking
  DEF CallInv, CallFits, OpStops, GuardStops, DeleteStops, ReconcileStops, Used
<1> QED
  BY <1>1 DEF CallInv, Guards

LEMMA GuardedIsBusy ==
  ASSUME CallInv, NEW d \in Calls, NEW o, Guards(d, o)
  PROVE  Used(o) /\ op[o].status \in {"DELETING", "RECONCILING"}
BY IdleIsNotWorking
DEF CallInv, CallFits, Guards, OpStops, GuardStops, DeleteStops, ReconcileStops

----------------------------------------------------------------------------
(* What the handlers do with the rows.                                       *)

\* The forms a change of an operation and its attachment takes.
LEMMA StatusForm ==
  ASSUME RowsTyped, NEW o, Used(o), NEW status, NEW rec, op' = SetOp(o, status),
         file' = [file EXCEPT ![op[o].file] = rec]
  PROVE  Changed(o, op[o].row, status, rec)
<1>1. op[o] \in Operation /\ o \in Ops
  BY OpRow
<1>2. [op[o] EXCEPT !.status = status] = [op[o] EXCEPT !.row = op[o].row, !.status = status]
  BY <1>1 DEF Operation
<1> QED
  BY <1>1, <1>2 DEF Changed, SetOp, RowsTyped

LEMMA RowForm ==
  ASSUME RowsTyped, NEW o, Used(o), NEW row, op' = [op EXCEPT ![o].row = row], UNCHANGED file
  PROVE  Changed(o, row, op[o].status, file[op[o].file])
<1>1. op[o] \in Operation /\ o \in Ops /\ op[o].file \in Files
  BY OpRow
<1>2. [op[o] EXCEPT !.row = row] = [op[o] EXCEPT !.row = row, !.status = op[o].status]
  BY <1>1 DEF Operation
<1> QED
  BY <1>1, <1>2 DEF Changed, RowsTyped

\* The attachment's row, with another status.
LEMMA FileRow ==
  ASSUME RowsTyped, NEW f \in Files, NEW status \in FileStatus \cup {"QBO_MISSING"}
  PROVE  /\ [file[f] EXCEPT !.status = status] \in Attachment
         /\ [file[f] EXCEPT !.status = status].status = status
         /\ [file[f] EXCEPT !.status = status].id = file[f].id
         /\ [file[f] EXCEPT !.status = status].blob = file[f].blob
         /\ file[f] \in Attachment
         /\ SetFile(f, status) = [file EXCEPT ![f] = [file[f] EXCEPT !.status = status]]
<1>1. file[f] \in Attachment
  BY DEF RowsTyped
<1> QED
  BY <1>1 DEF Attachment, SetFile

\* What the change of one operation leaves of the others.
Touches(o) == \A p \in Ops : p # o => op'[p] = op[p]

\* The operation at work settles its busy file, or stays in doubt.
LEMMA SettleStep ==
  ASSUME RowsTyped, RowsInv, NEW o, Used(o), NEW status \in {"FAILED", "UNCERTAIN"},
         NEW fileStatus \in {"FAILED", "UNCERTAIN", "ATTACHED"},
         op' = SetOp(o, status), file' = SetFile(op[o].file, fileStatus),
         op[o].status \in BusyOp, status = "UNCERTAIN" <=> fileStatus = "UNCERTAIN"
  PROVE  RowsStep /\ Touches(o) /\ op'[o].status = status
<1> DEFINE f == op[o].file
           rec == [file[f] EXCEPT !.status = fileStatus]
<1>1. f \in Files /\ op[o] \in Operation /\ o \in Ops
  BY OpRow
<1>2. rec \in Attachment /\ rec.status = fileStatus /\ rec.id = file[f].id
      /\ rec.blob = file[f].blob /\ file' = [file EXCEPT ![f] = rec]
  BY <1>1, FileRow DEF FileStatus
<1> HIDE DEF rec
<1>3. Changed(o, op[o].row, status, rec)
  BY <1>2, StatusForm
<1>4. OpFits(o) /\ FileHeld(f)
  BY <1>1 DEF RowsInv
<1>5. file[f].status \in Busy /\ op[o].row \in OpenRows /\ op[o].row \in RowStatus
  BY <1>1, <1>4 DEF OpFits, Fits, Busy, Operation
<1>6. Takes(o, status, rec)
  BY <1>2 DEF Takes, Busy, BusyOp
<1>7. Allowed(o, op[o].row, status, rec)
  BY <1>2, <1>4, <1>5, <1>6 DEF Allowed, FileHeld, Fits, Busy, BusyOp
<1>8. status \in OpFileStatus
  BY DEF OpFileStatus, FileStatus
<1> QED
  BY <1>2, <1>3, <1>5, <1>7, <1>8, ChangeStep, ChangedRow DEF Touches

\* Rows that fall back to where nothing is open.
LEMMA MarkFailureStep ==
  ASSUME RowsTyped, RowsInv, NEW o, Used(o), op[o].kind = "attach",
         NEW status \in {"FAILED", "UNCERTAIN"}, MarkFailure(o, status)
  PROVE  /\ RowsStep /\ Touches(o)
         /\ op'[o].status # op[o].status => op[o].status = "UPLOADING"
<1> DEFINE f == op[o].file
<1>1. f \in Files /\ op[o] \in Operation /\ o \in Ops
  BY OpRow
<1>2. OpFits(o) /\ FileHeld(f)
  BY <1>1 DEF RowsInv
<1>3. CASE op[o].status = "UPLOADING"
  <2>1. file[f].status = "UPLOADING"
    BY <1>2, <1>3 DEF OpFits, Fits, Busy, BusyOp
  <2>2. op' = SetOp(o, status) /\ file' = SetFile(f, status)
    BY <1>3, <2>1 DEF MarkFailure
  <2>3. op[o].status \in BusyOp
    BY <1>3 DEF Busy, BusyOp
  <2> QED
    BY <1>3, <2>2, <2>3, SettleStep
<1>4. CASE op[o].status # "UPLOADING"
  <2>1. ASSUME file[f].status = "UPLOADING" PROVE FALSE
    <3>1. PICK p \in Ops : Used(p) /\ op[p].file = f /\ op[p].status \in BusyOp
      BY <1>2, <2>1 DEF FileHeld, Busy
    <3>2. OpFits(p)
      BY <3>1 DEF RowsInv
    <3>3. op[p].status = "UPLOADING" /\ op[p].kind = "attach"
      BY <2>1, <3>1, <3>2 DEF OpFits, Fits
    <3> QED
      BY <1>1, <1>4, <3>1, <3>3 DEF RowsInv, Apart
  <2>2. UNCHANGED <<op, file>>
    BY <1>4, <2>1 DEF MarkFailure
  <2> QED
    BY <2>2, SameRows DEF Touches
<1> QED
  BY <1>3, <1>4

\* An operation is claimed anew only when it is the one its attachment waits for.
LEMMA ClaimUploadStep ==
  ASSUME RowsTyped, RowsInv, NEW o, Used(o), op[o].kind = "attach", ClaimUpload(o)
  PROVE  /\ RowsStep /\ Touches(o) /\ op[o].status \in {"STAGED", "FAILED"}
<1> DEFINE f == op[o].file
           rec == [file[f] EXCEPT !.status = "UPLOADING"]
<1>1. f \in Files /\ op[o] \in Operation /\ o \in Ops
  BY OpRow
<1>2. rec \in Attachment /\ rec.status = "UPLOADING" /\ rec.id = file[f].id
      /\ rec.blob = file[f].blob /\ SetFile(f, "UPLOADING") = [file EXCEPT ![f] = rec]
  BY <1>1, FileRow DEF FileStatus
<1> HIDE DEF rec
<1>3. Changed(o, "COMMITTING", "UPLOADING", rec)
  BY <1>2 DEF Changed, ClaimUpload, Both
<1>4. OpFits(o) /\ FileHeld(f)
  BY <1>1 DEF RowsInv
<1>5. /\ op[o].status \in {"STAGED", "FAILED"}
      /\ file[f].status \in {"STAGED", "FAILED", "QBO_MISSING"}
  BY DEF ClaimUpload, Uploadable, Ready
<1>6. op[o].status \in BusyOp \/ file[f].status \notin Busy
  <2> SUFFICES ASSUME op[o].status = "FAILED", file[f].status = "STAGED" PROVE FALSE
    BY <1>5 DEF Busy, BusyOp
  <2>1. PICK p \in Ops : Used(p) /\ op[p].file = f /\ op[p].status \in BusyOp
    BY <1>4 DEF FileHeld, Busy
  <2>2. OpFits(p)
    BY <2>1 DEF RowsInv
  <2>3. op[p].status = "STAGED" /\ op[p].kind = "attach"
    BY <2>1, <2>2 DEF OpFits, Fits
  <2> QED
    BY <1>1, <2>1, <2>3 DEF RowsInv, Apart
<1>7. Allowed(o, "COMMITTING", "UPLOADING", rec)
  BY <1>2, <1>4, <1>5, <1>6 DEF Allowed, Takes, FileHeld, Fits, Busy, BusyOp, OpenRows
<1> QED
  BY <1>2, <1>3, <1>5, <1>7, ChangeStep, ChangedRow
  DEF Touches, OpFileStatus, FileStatus, RowStatus

LEMMA ClaimDeleteStep ==
  ASSUME RowsTyped, RowsInv, NEW o, Used(o), ClaimDelete(o)
  PROVE  /\ RowsStep /\ Touches(o) /\ op[o].status \in {"STAGED", "FAILED"}
         /\ op'[o].status = "DELETING"
<1> DEFINE f == op[o].file
           rec == [file[f] EXCEPT !.status = "DELETING"]
<1>1. f \in Files /\ op[o] \in Operation /\ o \in Ops
  BY OpRow
<1>2. rec \in Attachment /\ rec.status = "DELETING" /\ rec.id = file[f].id
      /\ rec.blob = file[f].blob /\ SetFile(f, "DELETING") = [file EXCEPT ![f] = rec]
  BY <1>1, FileRow DEF FileStatus
<1> HIDE DEF rec
<1>3. Changed(o, "DELETING", "DELETING", rec)
  BY <1>2 DEF Changed, ClaimDelete, Both
<1>4. FileHeld(f)
  BY <1>1 DEF RowsInv
<1>5. op[o].status \in {"STAGED", "FAILED"} /\ file[f].status \in Deletable
  BY DEF ClaimDelete, Ready
<1>6. Allowed(o, "DELETING", "DELETING", rec)
  BY <1>2, <1>4, <1>5
  DEF Allowed, Takes, FileHeld, Fits, Busy, BusyOp, OpenRows, Deletable
<1>7. "DELETING" \in RowStatus /\ "DELETING" \in OpFileStatus
  BY DEF RowStatus, OpFileStatus, FileStatus
<1>8. RowsStep
  BY <1>2, <1>3, <1>6, <1>7, ChangeStep
<1> QED
  BY <1>2, <1>3, <1>5, <1>7, <1>8, ChangedRow DEF Touches

\* A copy is recorded, of a busy operation.
LEMMA AttachedStep ==
  ASSUME RowsTyped, RowsInv, NEW o, Used(o), op[o].status \in BusyOp, NEW id \in Copies,
         NEW blob \in BOOLEAN, op' = SetOp(o, "ATTACHED"),
         file' = [file EXCEPT ![op[o].file] = [status |-> "ATTACHED", id |-> id, blob |-> blob]]
  PROVE  RowsStep /\ Touches(o)
<1> DEFINE f == op[o].file
           rec == [status |-> "ATTACHED", id |-> id, blob |-> blob]
<1>1. f \in Files /\ op[o] \in Operation /\ o \in Ops /\ op[o].row \in RowStatus
  BY OpRow
<1>2. rec \in Attachment /\ rec.status = "ATTACHED" /\ rec.id # 0
  BY DEF Attachment, FileStatus, Copies
<1> HIDE DEF rec
<1>3. Changed(o, op[o].row, "ATTACHED", rec)
  BY StatusForm DEF rec
<1>4. OpFits(o)
  BY <1>1 DEF RowsInv
<1>5. Allowed(o, op[o].row, "ATTACHED", rec)
  BY <1>2, <1>4 DEF Allowed, Takes, OpFits, Fits, Busy, BusyOp
<1> QED
  BY <1>1, <1>2, <1>3, <1>5, ChangeStep, ChangedRow DEF Touches, OpFileStatus, FileStatus

\* The row follows its file, whatever became of that.
LEMMA DerivedStep ==
  ASSUME RowsTyped, RowsInv, NEW o, Used(o), UNCHANGED file,
         op' = [op EXCEPT ![o].row = Derived(op[o].status)]
  PROVE  /\ RowsStep /\ Touches(o) /\ op'[o].status = op[o].status
         /\ Derived(op[o].status) \in RowStatus
<1> DEFINE f == op[o].file
           row == Derived(op[o].status)
<1>1. f \in Files /\ op[o] \in Operation /\ o \in Ops /\ op[o].status \in OpFileStatus
      /\ file[f] \in Attachment
  BY OpRow
<1>2. row \in RowStatus /\ (op[o].status \in BusyOp => row \in OpenRows)
  BY <1>1 DEF Derived, RowStatus, OpFileStatus, FileStatus, Busy, BusyOp, OpenRows
<1> HIDE DEF row
<1>3. Changed(o, row, op[o].status, file[f])
  BY RowForm DEF row
<1>4. OpFits(o) /\ FileHeld(f)
  BY <1>1 DEF RowsInv
<1>5. Allowed(o, row, op[o].status, file[f])
  BY <1>2, <1>4 DEF Allowed, Aside, Takes, OpFits, FileHeld, Busy
<1>6. RowsStep /\ Touches(o) /\ op'[o].status = op[o].status
  BY <1>1, <1>2, <1>3, <1>5, ChangeStep, ChangedRow DEF Touches
<1> QED
  BY <1>2, <1>6 DEF row

\* finalizeProviderDelete, of the operation that deletes, or did.
LEMMA RemovedStep ==
  ASSUME RowsTyped, RowsInv, NEW o, Used(o), op[o].status \in BusyOp, Removed(o)
  PROVE  /\ RowsStep /\ Touches(o) /\ file'[op[o].file].status = "DELETED"
         /\ op'[o].file = op[o].file
<1> DEFINE f == op[o].file
           rec == [file[f] EXCEPT !.status = "DELETED", !.blob = FALSE]
<1>1. f \in Files /\ op[o] \in Operation /\ o \in Ops /\ file[f] \in Attachment
  BY OpRow
<1>2. rec \in Attachment /\ rec.status = "DELETED" /\ rec.id = file[f].id
  BY <1>1 DEF Attachment, FileStatus
<1>3. file' = [file EXCEPT ![f] = rec]
  BY <1>1 DEF Removed, RowsTyped
<1> HIDE DEF rec
<1>4. Changed(o, "DELETED", "DELETED", rec)
  BY <1>3 DEF Changed, Removed
<1>5. Allowed(o, "DELETED", "DELETED", rec)
  BY <1>2 DEF Allowed, Takes, Busy, BusyOp
<1>6. "DELETED" \in RowStatus /\ "DELETED" \in OpFileStatus
  BY DEF RowStatus, OpFileStatus, FileStatus
<1>7. RowsStep
  BY <1>2, <1>4, <1>5, <1>6, ChangeStep
<1> QED
  BY <1>1, <1>2, <1>4, <1>6, <1>7, ChangedRow DEF Touches

LEMMA ClaimReconcileStep ==
  ASSUME RowsTyped, RowsInv, NEW o, Used(o), ClaimReconcile(o), UNCHANGED file
  PROVE  /\ RowsStep /\ Touches(o) /\ op[o].status = "UNCERTAIN"
         /\ op'[o].status = "RECONCILING"
<1> DEFINE f == op[o].file
<1>1. f \in Files /\ op[o] \in Operation /\ o \in Ops /\ file[f] \in Attachment
  BY OpRow
<1>2. op[o].status = "UNCERTAIN" /\ op[o].row = "UNCERTAIN"
  BY DEF ClaimReconcile
<1>3. Changed(o, "COMMITTING", "RECONCILING", file[f])
  BY <1>1 DEF Changed, ClaimReconcile, RowsTyped
<1>4. OpFits(o) /\ FileHeld(f)
  BY <1>1 DEF RowsInv
<1>5. file[f].status = "UNCERTAIN"
  BY <1>2, <1>4 DEF OpFits, Fits, Busy, BusyOp
<1>6. Allowed(o, "COMMITTING", "RECONCILING", file[f])
  BY <1>2, <1>4, <1>5 DEF Allowed, Takes, FileHeld, Fits, Busy, BusyOp, OpenRows
<1> QED
  BY <1>1, <1>2, <1>3, <1>6, ChangeStep, ChangedRow DEF Touches, OpFileStatus, RowStatus

\* A reconciliation that learns nothing gives its claim back.
LEMMA GiveBackStep ==
  ASSUME RowsTyped, RowsInv, NEW o, Used(o), op[o].status = "RECONCILING", UNCHANGED file,
         op' = [op EXCEPT ![o].row = "UNCERTAIN",
                          ![o].status = IF @ = "RECONCILING" THEN "UNCERTAIN" ELSE @]
  PROVE  RowsStep /\ Touches(o)
<1> DEFINE f == op[o].file
<1>1. f \in Files /\ op[o] \in Operation /\ o \in Ops /\ file[f] \in Attachment
  BY OpRow
<1>2. Changed(o, "UNCERTAIN", "UNCERTAIN", file[f])
  BY <1>1 DEF Changed, RowsTyped, Operation
<1>3. OpFits(o) /\ FileHeld(f)
  BY <1>1 DEF RowsInv
<1>4. file[f].status = "UNCERTAIN"
  BY <1>3 DEF OpFits, Fits, Busy, BusyOp
<1>5. Allowed(o, "UNCERTAIN", "UNCERTAIN", file[f])
  BY <1>3, <1>4 DEF Allowed, Takes, FileHeld, Fits, Busy, BusyOp, OpenRows
<1>6. "UNCERTAIN" \in RowStatus /\ "UNCERTAIN" \in OpFileStatus
  BY DEF RowStatus, OpFileStatus, FileStatus
<1>7. RowsStep
  BY <1>1, <1>2, <1>5, <1>6, ChangeStep
<1> QED
  BY <1>1, <1>2, <1>6, <1>7, ChangedRow DEF Touches

\* The recovery doubts what was under way; of a settled operation at most the
\* attachment of a deletion.
LEMMA DoubtStep ==
  ASSUME RowsTyped, RowsInv, NEW o, Used(o), NEW underWay, NEW from, Doubt(o, underWay, from),
         \/ /\ underWay = {"UPLOADING", "RECONCILING"} /\ from = {"UPLOADING", "UNCERTAIN"}
            /\ op[o].status \in underWay
         \/ underWay = {"DELETING"} /\ from = {"DELETING"}
  PROVE  RowsStep /\ Touches(o)
<1> DEFINE f == op[o].file
           doubt == [file[f] EXCEPT !.status = "UNCERTAIN"]
           rec == IF file[f].status \in from THEN doubt ELSE file[f]
           status == IF op[o].status \in underWay THEN "UNCERTAIN" ELSE op[o].status
<1>1. f \in Files /\ op[o] \in Operation /\ o \in Ops /\ file[f] \in Attachment
      /\ op[o].status \in OpFileStatus
  BY OpRow
<1>2. doubt \in Attachment /\ doubt.status = "UNCERTAIN" /\ doubt.id = file[f].id
      /\ doubt.blob = file[f].blob /\ SetFile(f, "UNCERTAIN") = [file EXCEPT ![f] = doubt]
  BY <1>1, FileRow DEF FileStatus
<1>3. file = [file EXCEPT ![f] = file[f]]
  BY <1>1 DEF RowsTyped
<1>4. file' = [file EXCEPT ![f] = rec] /\ rec \in Attachment
  BY <1>1, <1>2, <1>3 DEF Doubt
<1>5. op' = [op EXCEPT ![o].row = "UNCERTAIN", ![o].status = status]
  BY <1>1 DEF Doubt, RowsTyped, Operation
<1>6. Changed(o, "UNCERTAIN", status, rec)
  BY <1>4, <1>5 DEF Changed
<1>7. OpFits(o) /\ FileHeld(f)
  BY <1>1 DEF RowsInv
<1>8. status \in OpFileStatus
  BY <1>1 DEF OpFileStatus, FileStatus
<1>9. Allowed(o, "UNCERTAIN", status, rec)
  <2>1. CASE op[o].status \in underWay
    <3>1. op[o].status \in BusyOp /\ file[f].status \in from \cup {"UNCERTAIN"}
      BY <1>7, <2>1 DEF OpFits, Fits, Busy, BusyOp
    <3>2. rec.status = "UNCERTAIN" /\ rec.id = file[f].id /\ rec.blob = file[f].blob
      BY <1>2, <3>1
    <3>3. status = "UNCERTAIN"
      BY <2>1
    <3> HIDE DEF rec, status
    <3> QED
      BY <1>7, <3>1, <3>2, <3>3 DEF Allowed, Takes, FileHeld, Fits, Busy, BusyOp, OpenRows
  <2>2. CASE op[o].status \notin underWay /\ op[o].status \in BusyOp
    <3>1. from = {"DELETING"} /\ underWay = {"DELETING"}
      BY <2>2
    <3>2. file[f].status \notin from /\ Fits(op[o].status, file[f].status)
      BY <1>7, <2>2, <3>1 DEF OpFits, Fits
    <3>3. rec = file[f] /\ status = op[o].status
      BY <2>2, <3>2
    <3> HIDE DEF rec, status
    <3> QED
      BY <1>7, <2>2, <3>2, <3>3 DEF Allowed, Takes, OpFits, FileHeld, Fits, Busy, OpenRows
  <2>3. CASE op[o].status \notin underWay /\ op[o].status \notin BusyOp
    <3>1. from = {"DELETING"} /\ status = op[o].status
      BY <2>3
    <3>2. Aside(o, status, rec)
      BY <2>3, <3>1 DEF Aside
    <3>3. /\ rec.id = file[f].id /\ rec.blob = file[f].blob
          /\ rec.status = file[f].status \/ (file[f].status = "DELETING" /\ rec.status = "UNCERTAIN")
      BY <1>2, <3>1
    <3> HIDE DEF rec, status
    <3> QED
      BY <1>7, <2>3, <3>1, <3>2, <3>3 DEF Allowed, OpFits, FileHeld, Busy, BusyOp
  <2> QED
    BY <2>1, <2>2, <2>3
<1> HIDE DEF rec, status
<1> QED
  BY <1>4, <1>6, <1>8, <1>9, ChangeStep, ChangedRow DEF Touches, RowStatus

----------------------------------------------------------------------------
(* The steps of the handlers on attachments.                                 *)

LEMMA SparesOthers ==
  ASSUME CallInv, NEW c \in Calls, NEW o, Touches(o),
         \/ op'[o].status = op[o].status
         \/ op[o].status \notin {"DELETING", "RECONCILING"}
         \/ \A d \in Calls : d # c => ~Guards(d, o),
         call'[c].at \in GuardStops =>
           \/ Guards(c, call'[c].op)
           \/ ~Used(call'[c].op)
           \/ op[call'[c].op].status \notin {"DELETING", "RECONCILING"}
  PROVE  Spares(c)
<1> SUFFICES ASSUME NEW p \in Ops, NEW d \in Calls, Used(p), d # c, Guards(d, p)
             PROVE  op'[p].status = op[p].status /\ ~(call'[c].at \in GuardStops /\ call'[c].op = p)
  BY DEF Spares
<1>1. op[p].status \in {"DELETING", "RECONCILING"}
  BY GuardedIsBusy
<1>2. ~Guards(c, p)
  BY DEF CallInv
<1> QED
  BY <1>1, <1>2 DEF Touches

LEMMA NothingNew ==
  ASSUME NEW o, Used(o), Touches(o)
  PROVE  \A p \in Ops : ~Used(p) /\ op'[p] # NoOp => ~op'[p].receipt
BY DEF Touches, Used

LEMMA Waits ==
  ASSUME RowsTyped, CallTyped, CallInv, NEW c \in Calls, NEW at, Waiting(c, at), at # "idle"
  PROVE  /\ call[c].at = at /\ call[c] # Idle /\ call[c].at # "idle"
         /\ call[c].for \in Purposes /\ call[c].seen \subseteq Copies
         /\ call[c].file \in Files \cup {0} /\ call[c].rev \in Nat
         /\ CallFits(c)
         /\ at \in OpStops => /\ Used(MyOp(c)) /\ call[c].op \in Ops
                              /\ op[MyOp(c)].status \in OpFileStatus
         /\ at \in UploadStops => op[MyOp(c)].kind = "attach"
         /\ at \in DeleteStops => op[MyOp(c)].status = "DELETING"
         /\ at \in ReconcileStops => op[MyOp(c)].status = "RECONCILING"
         /\ at \in GuardStops => \A d \in Calls : d # c => ~Guards(d, MyOp(c))
<1>1. call[c].at = at /\ CallFits(c)
  BY DEF Waiting, CallInv
<1>2. /\ call[c] # Idle /\ call[c].for \in Purposes /\ call[c].seen \subseteq Copies
      /\ call[c].file \in Files \cup {0} /\ call[c].rev \in Nat
  BY <1>1, CallRow
<1>3. /\ at \in OpStops => Used(MyOp(c))
      /\ at \in UploadStops => op[MyOp(c)].kind = "attach"
      /\ at \in DeleteStops => op[MyOp(c)].status = "DELETING"
      /\ at \in ReconcileStops => op[MyOp(c)].status = "RECONCILING"
  BY <1>1, <1>2 DEF CallFits, MyOp
<1>4. at \in OpStops => call[c].op \in Ops /\ op[MyOp(c)].status \in OpFileStatus
  BY <1>3, OpRow DEF MyOp
<1>5. at \in GuardStops => \A d \in Calls : d # c => ~Guards(d, MyOp(c))
  BY <1>1, AloneAtWork DEF MyOp
<1> QED
  BY <1>1, <1>2, <1>3, <1>4, <1>5

\* A handler that is back, or over.
LEMMA BackFits ==
  ASSUME RowsTyped, CallTyped, NEW c \in Calls, call[c].at # "idle", CallFits(c),
         NEW result \in Results, Return(c, result), RowsStep,
         result \notin {"threw", "busy"} =>
           /\ Used(call[c].op)
           /\ result = "VERIFIED" => file'[op'[call[c].op].file].id # 0
           /\ result = "DELETED" => file'[op'[call[c].op].file].status = "DELETED"
  PROVE  Moves(c) /\ CallFits(c)' /\ call'[c].at \notin GuardStops
<1>1. CASE call[c].for \notin {"attach", "undo"}
  <2>1. Moves(c) /\ call'[c] = Idle
    BY <1>1, MovesBack
  <2> QED
    BY <2>1, IdleIsNotWorking DEF CallFits, GuardStops, DeleteStops, ReconcileStops
<1>2. CASE call[c].for \in {"attach", "undo"}
  <2>1. /\ Moves(c) /\ call'[c] # Idle /\ call'[c].at = "returned" /\ call'[c].op = call[c].op
        /\ call'[c].for = call[c].for /\ call'[c].rev = call[c].rev /\ call'[c].result = result
    BY <1>2, MovesBack
  <2>2. \A o \in Ops : Used(o) =>
          /\ op'[o] # NoOp /\ op'[o].kind = op[o].kind
          /\ op'[o].receipt = op[o].receipt /\ op'[o].key = op[o].key
    BY DEF RowsStep
  <2>3. KeyHolds(c)'
    BY <1>2, <2>1, <2>2, CallRow DEF CallFits, KeyHolds, KindFor, Used
  <2>4. ResultHolds(c)'
    BY <2>1, <2>2 DEF ResultHolds, Used
  <2> QED
    BY <1>2, <2>1, <2>3, <2>4
    DEF CallFits, OpStops, UploadStops, GuardStops, DeleteStops, ReconcileStops
<1> QED
  BY <1>1, <1>2

LEMMA BackIsPlain ==
  ASSUME CallTyped, NEW c \in Calls, call[c].at # "idle", NEW result \in Results, Return(c, result),
         \A o \in Ops : ~Used(o) /\ op'[o] # NoOp => ~op'[o].receipt
  PROVE  Plain(c)
BY MovesBack, CallRow DEF Plain

\* A handler that goes on with its operation.
LEMMA OnFits ==
  ASSUME RowsStep, NEW c \in Calls, call[c] # Idle, CallFits(c), Used(call[c].op),
         call'[c] # Idle, call'[c].op = call[c].op, call'[c].for = call[c].for,
         call'[c].rev = call[c].rev, call'[c].at \in OpStops,
         call'[c].at \in UploadStops => op[call[c].op].kind = "attach",
         call'[c].at \in DeleteStops => op'[call[c].op].status = "DELETING",
         call'[c].at \in ReconcileStops => op'[call[c].op].status = "RECONCILING"
  PROVE  CallFits(c)'
<1>1. \A o \in Ops : Used(o) =>
        /\ op'[o] # NoOp /\ op'[o].kind = op[o].kind
        /\ op'[o].receipt = op[o].receipt /\ op'[o].key = op[o].key
  BY DEF RowsStep
<1>2. KeyHolds(c)'
  BY <1>1 DEF CallFits, KeyHolds, KindFor, Used
<1> QED
  BY <1>1, <1>2 DEF CallFits, Used, OpStops, UploadStops, GuardStops, DeleteStops, ReconcileStops

\* A handler of a person, or the recovery, that begins.
LEMMA FreshFits ==
  ASSUME NEW c \in Calls, call'[c] # Idle, call'[c].for \in {"person", "recovery"},
         NEW o \in Ops, op'[o] # NoOp, call'[c].op = o, call'[c].at \in OpStops,
         call'[c].at \in UploadStops => op'[o].kind = "attach",
         call'[c].at \in DeleteStops => op'[o].status = "DELETING",
         call'[c].at \in ReconcileStops => op'[o].status = "RECONCILING"
  PROVE  CallFits(c)'
<1>1. KeyHolds(c)'
  BY DEF KeyHolds
<1> QED
  BY <1>1 DEF CallFits, Used, OpStops, UploadStops, GuardStops, DeleteStops, ReconcileStops

LEMMA PersonAttachTurn ==
  ASSUME RowsTyped, RowsInv, CallTyped, CallInv, NEW c \in Calls, PersonAttach(c)
  PROVE  Turn(c) /\ Plain(c)
<1>1. PICK o \in Ops, f \in Files :
        Create(o, f, FALSE, 0) /\ Begin(c, "person", "dispatch", o, f, 0)
  BY DEF PersonAttach
<1>2. /\ RowsStep /\ ~Used(o) /\ op'[o] # NoOp /\ op'[o].kind = "attach"
      /\ ~op'[o].receipt /\ \A p \in Ops : p # o => op'[p] = op[p]
  BY <1>1, CreateStep
<1>3. /\ Moves(c) /\ call'[c] # Idle /\ call'[c].at = "dispatch" /\ call'[c].op = o
      /\ call'[c].for = "person"
  BY <1>1, Begins DEF Purposes, Stops, AttachmentStops
<1>4. CallFits(c)'
  BY <1>2, <1>3, FreshFits
  DEF OpStops, UploadStops, GuardStops, DeleteStops, ReconcileStops
<1>5. Spares(c)
  BY <1>2, <1>3 DEF Spares, Used, GuardStops, DeleteStops, ReconcileStops
<1> QED
  BY <1>2, <1>3, <1>4, <1>5 DEF Turn, Plain, Used

LEMMA PersonDeleteTurn ==
  ASSUME RowsTyped, RowsInv, CallTyped, CallInv, NEW c \in Calls, PersonDelete(c)
  PROVE  Turn(c) /\ Plain(c)
<1>1. PICK o \in Ops, f \in Files :
        Reserve(o, f, FALSE, 0) /\ Begin(c, "person", "delete", o, f, 0)
  BY DEF PersonDelete
<1>2. /\ RowsStep /\ ~Used(o) /\ op'[o] # NoOp /\ op'[o].status = "DELETING"
      /\ ~op'[o].receipt /\ \A p \in Ops : p # o => op'[p] = op[p]
  BY <1>1, ReserveStep
<1>3. /\ Moves(c) /\ call'[c] # Idle /\ call'[c].at = "delete" /\ call'[c].op = o
      /\ call'[c].for = "person"
  BY <1>1, Begins DEF Purposes, Stops, AttachmentStops
<1>4. CallFits(c)'
  BY <1>2, <1>3, FreshFits
  DEF OpStops, UploadStops, GuardStops, DeleteStops, ReconcileStops
<1>5. Spares(c)
  BY <1>2, <1>3 DEF Spares, Used
<1> QED
  BY <1>2, <1>3, <1>4, <1>5 DEF Turn, Plain, Used

\* A handler that fails an upload, and goes to its aggregate.
LEMMA FailureTurn ==
  ASSUME RowsTyped, RowsInv, CallTyped, CallInv, NEW c \in Calls, NEW at \in UploadStops,
         Waiting(c, at), NEW status \in {"FAILED", "UNCERTAIN"}, MarkFailure(MyOp(c), status),
         NEW result \in {"none", "threw"}, Aggregate(c, result)
  PROVE  Turn(c) /\ Plain(c)
<1> DEFINE o == MyOp(c)
<1>1. /\ call[c].at = at /\ call[c] # Idle /\ call[c].at # "idle" /\ CallFits(c)
      /\ Used(o) /\ o \in Ops /\ op[o].kind = "attach"
  BY Waits DEF UploadStops, OpStops, MyOp
<1>2. RowsStep /\ Touches(o) /\ (op'[o].status # op[o].status => op[o].status = "UPLOADING")
  BY <1>1, MarkFailureStep
<1>3. /\ Moves(c) /\ call'[c] # Idle /\ call'[c].at = "aggregate" /\ call'[c].op = call[c].op
      /\ call'[c].for = call[c].for /\ call'[c].rev = call[c].rev
  BY <1>1, MovesToAggregate DEF Results
<1>4. CallFits(c)'
  BY <1>1, <1>2, <1>3, OnFits
  DEF MyOp, OpStops, UploadStops, GuardStops, DeleteStops, ReconcileStops
<1>5. Spares(c)
  <2>1. call'[c].at \notin GuardStops
    BY <1>3 DEF GuardStops, DeleteStops, ReconcileStops
  <2>2. op'[o].status = op[o].status \/ op[o].status \notin {"DELETING", "RECONCILING"}
    BY <1>2
  <2> QED
    BY <1>2, <2>1, <2>2, SparesOthers
<1>6. \A p \in Ops : ~Used(p) /\ op'[p] # NoOp => ~op'[p].receipt
  BY <1>1, <1>2, NothingNew
<1> QED
  BY <1>1, <1>2, <1>3, <1>4, <1>5, <1>6 DEF Turn, Plain

LEMMA DispatchTurn ==
  ASSUME RowsTyped, RowsInv, CallTyped, CallInv, NEW c \in Calls, Dispatch(c)
  PROVE  Turn(c) /\ Plain(c)
<1> DEFINE o == MyOp(c)
<1>0. Waiting(c, "dispatch")
  BY DEF Dispatch
<1>1. /\ call[c].at = "dispatch" /\ call[c] # Idle /\ call[c].at # "idle" /\ CallFits(c)
      /\ Used(o) /\ o \in Ops /\ op[o].kind = "attach"
  BY <1>0, Waits DEF UploadStops, OpStops, MyOp
<1>2. CASE ClaimUpload(o) /\ Go(c, "send")
  <2>1. RowsStep /\ Touches(o) /\ op[o].status \in {"STAGED", "FAILED"}
    BY <1>1, <1>2, ClaimUploadStep
  <2>2. /\ Moves(c) /\ call'[c] # Idle /\ call'[c].at = "send" /\ call'[c].op = call[c].op
        /\ call'[c].for = call[c].for /\ call'[c].rev = call[c].rev
    BY <1>1, <1>2, MovesOn DEF Stops, AttachmentStops
  <2>3. CallFits(c)'
    BY <1>1, <2>1, <2>2, OnFits
    DEF MyOp, OpStops, UploadStops, GuardStops, DeleteStops, ReconcileStops
  <2>4. Spares(c)
    BY <2>1, <2>2, SparesOthers DEF GuardStops, DeleteStops, ReconcileStops
  <2>5. \A p \in Ops : ~Used(p) /\ op'[p] # NoOp => ~op'[p].receipt
    BY <1>1, <2>1, NothingNew
  <2> QED
    BY <1>1, <2>1, <2>2, <2>3, <2>4, <2>5 DEF Turn, Plain
<1>3. CASE Return(c, "threw") /\ UNCHANGED <<op, file>>
  <2>1. RowsStep /\ Touches(o)
    BY <1>3, SameRows DEF Touches
  <2>2. Moves(c) /\ CallFits(c)' /\ call'[c].at \notin GuardStops
    BY <1>1, <1>3, <2>1, BackFits DEF Results
  <2>3. Spares(c)
    BY <1>3, <2>1, <2>2, SparesOthers
  <2>4. Plain(c)
    BY <1>1, <1>3, <2>1, NothingNew, BackIsPlain DEF Results
  <2> QED
    BY <2>1, <2>2, <2>3, <2>4 DEF Turn
<1> QED
  BY <1>2, <1>3 DEF Dispatch

LEMMA UploadTurn ==
  ASSUME RowsTyped, RowsInv, CallTyped, CallInv, NEW c \in Calls, Upload(c)
  PROVE  Turn(c) /\ Plain(c)
<1> DEFINE o == MyOp(c)
<1>0. Waiting(c, "send")
  BY DEF Upload
<1>1. /\ call[c].at = "send" /\ call[c] # Idle /\ call[c].at # "idle" /\ CallFits(c)
      /\ Used(o) /\ o \in Ops /\ op[o].kind = "attach"
  BY <1>0, Waits DEF UploadStops, OpStops, MyOp
<1>2. CASE Go(c, "await") /\ UNCHANGED <<op, file>>
  <2>1. RowsStep /\ Touches(o)
    BY <1>2, SameRows DEF Touches
  <2>2. /\ Moves(c) /\ call'[c] # Idle /\ call'[c].at = "await" /\ call'[c].op = call[c].op
        /\ call'[c].for = call[c].for /\ call'[c].rev = call[c].rev
    BY <1>1, <1>2, MovesOn DEF Stops, AttachmentStops
  <2>3. CallFits(c)'
    BY <1>1, <2>1, <2>2, OnFits
    DEF MyOp, OpStops, UploadStops, GuardStops, DeleteStops, ReconcileStops
  <2>4. Spares(c)
    BY <1>2, <2>1, <2>2, SparesOthers DEF GuardStops, DeleteStops, ReconcileStops
  <2>5. \A p \in Ops : ~Used(p) /\ op'[p] # NoOp => ~op'[p].receipt
    BY <1>1, <2>1, NothingNew
  <2> QED
    BY <1>1, <2>1, <2>2, <2>3, <2>4, <2>5 DEF Turn, Plain
<1>3. CASE MarkFailure(o, "FAILED") /\ Aggregate(c, "threw")
  BY <1>0, <1>3, FailureTurn DEF UploadStops
<1> QED
  BY <1>2, <1>3 DEF Upload

LEMMA UploadTimesOutTurn ==
  ASSUME RowsTyped, RowsInv, CallTyped, CallInv, NEW c \in Calls, UploadTimesOut(c)
  PROVE  Turn(c) /\ Plain(c)
BY FailureTurn DEF UploadTimesOut, UploadStops

LEMMA UploadRefusedTurn ==
  ASSUME RowsTyped, RowsInv, CallTyped, CallInv, NEW c \in Calls, UploadRefused(c)
  PROVE  Turn(c) /\ Plain(c)
BY FailureTurn DEF UploadRefused, UploadStops

LEMMA RecordUploadTurn ==
  ASSUME RowsTyped, RowsInv, CallTyped, CallInv, NEW c \in Calls, RecordUpload(c)
  PROVE  Turn(c) /\ Plain(c)
<1> DEFINE o == MyOp(c)
<1>0. Waiting(c, "landed") /\ Aggregate(c, "none")
  BY DEF RecordUpload
<1>1. /\ call[c].at = "landed" /\ call[c] # Idle /\ call[c].at # "idle" /\ CallFits(c)
      /\ Used(o) /\ o \in Ops /\ op[o].kind = "attach" /\ call[c].seen \subseteq Copies
  BY <1>0, Waits DEF UploadStops, OpStops, MyOp
<1>2. CASE MarkFailure(o, "UNCERTAIN")
  BY <1>0, <1>2, FailureTurn DEF UploadStops
<1>3. CASE ~MarkFailure(o, "UNCERTAIN")
  <2>1. /\ op[o].status = "UPLOADING" /\ op' = SetOp(o, "ATTACHED")
        /\ \E id \in call[c].seen :
             file' = [file EXCEPT ![op[o].file] =
                        [status |-> "ATTACHED", id |-> id, blob |-> RetainLocally]]
    BY <1>3 DEF RecordUpload, MyFile, MyOp
  <2>2. RowsStep /\ Touches(o)
    BY <1>1, <2>1, AttachedStep, BoundsAssumption DEF Busy, BusyOp
  <2>3. /\ Moves(c) /\ call'[c] # Idle /\ call'[c].at = "aggregate" /\ call'[c].op = call[c].op
        /\ call'[c].for = call[c].for /\ call'[c].rev = call[c].rev
    BY <1>0, <1>1, MovesToAggregate DEF Results
  <2>4. CallFits(c)'
    BY <1>1, <2>2, <2>3, OnFits
    DEF MyOp, OpStops, UploadStops, GuardStops, DeleteStops, ReconcileStops
  <2>5. Spares(c)
    BY <2>1, <2>2, <2>3, SparesOthers DEF GuardStops, DeleteStops, ReconcileStops
  <2>6. \A p \in Ops : ~Used(p) /\ op'[p] # NoOp => ~op'[p].receipt
    BY <1>1, <2>2, NothingNew
  <2> QED
    BY <1>1, <2>2, <2>3, <2>4, <2>5, <2>6 DEF Turn, Plain
<1> QED
  BY <1>2, <1>3

\* A handler that goes on with its own operation, or comes back with its result.
LEMMA OnTurn ==
  ASSUME RowsTyped, CallTyped, CallInv, NEW c \in Calls, NEW at \in OpStops,
         NEW next \in OpStops, Waiting(c, at), RowsStep, Touches(MyOp(c)),
         Moves(c), call'[c] # Idle, call'[c].at = next, call'[c].op = call[c].op,
         call'[c].for = call[c].for, call'[c].rev = call[c].rev,
         next \notin UploadStops,
         next \in DeleteStops => op'[MyOp(c)].status = "DELETING",
         next \in ReconcileStops => op'[MyOp(c)].status = "RECONCILING",
         \/ at \in GuardStops
         \/ op[MyOp(c)].status \notin {"DELETING", "RECONCILING"}
         \/ op'[MyOp(c)].status = op[MyOp(c)].status /\ next \notin GuardStops
  PROVE  Turn(c) /\ Plain(c)
<1> DEFINE o == MyOp(c)
<1>0. at # "idle"
  BY DEF OpStops, UploadStops, GuardStops, DeleteStops, ReconcileStops
<1>1. /\ call[c].at = at /\ call[c] # Idle /\ call[c].at # "idle" /\ CallFits(c)
      /\ Used(o) /\ o \in Ops
  BY <1>0, Waits DEF MyOp
<1>2. CallFits(c)'
  BY <1>1, OnFits DEF MyOp
<1>3. at \in GuardStops => (\A d \in Calls : d # c => ~Guards(d, o)) /\ Guards(c, o)
  BY <1>1, AloneAtWork DEF MyOp, Guards
<1>4. Spares(c)
  BY <1>3, SparesOthers DEF MyOp
<1>5. \A p \in Ops : ~Used(p) /\ op'[p] # NoOp => ~op'[p].receipt
  BY <1>1, NothingNew
<1> QED
  BY <1>1, <1>2, <1>4, <1>5 DEF Turn, Plain

LEMMA BackTurn ==
  ASSUME RowsTyped, CallTyped, CallInv, NEW c \in Calls, NEW at \in OpStops, Waiting(c, at),
         RowsStep, Touches(MyOp(c)), NEW result \in Results, Return(c, result),
         result \notin {"threw", "busy"} =>
           /\ result = "VERIFIED" => file'[op'[MyOp(c)].file].id # 0
           /\ result = "DELETED" => file'[op'[MyOp(c)].file].status = "DELETED",
         \/ at \in GuardStops
         \/ op'[MyOp(c)].status = op[MyOp(c)].status
  PROVE  Turn(c) /\ Plain(c)
<1> DEFINE o == MyOp(c)
<1>0. at # "idle"
  BY DEF OpStops, UploadStops, GuardStops, DeleteStops, ReconcileStops
<1>1. /\ call[c].at = at /\ call[c] # Idle /\ call[c].at # "idle" /\ CallFits(c)
      /\ Used(o) /\ o \in Ops
  BY <1>0, Waits DEF MyOp
<1>2. Moves(c) /\ CallFits(c)' /\ call'[c].at \notin GuardStops
  BY <1>1, BackFits DEF MyOp
<1>3. at \in GuardStops => \A d \in Calls : d # c => ~Guards(d, o)
  BY <1>1, AloneAtWork DEF MyOp
<1>4. Spares(c)
  BY <1>2, <1>3, SparesOthers
<1>5. Plain(c)
  BY <1>1, NothingNew, BackIsPlain
<1> QED
  BY <1>2, <1>4, <1>5 DEF Turn

LEMMA UpdateAggregateTurn ==
  ASSUME RowsTyped, RowsInv, CallTyped, CallInv, NEW c \in Calls, UpdateAggregate(c)
  PROVE  Turn(c) /\ Plain(c)
<1> DEFINE o == MyOp(c)
           result == IF call[c].result = "threw" THEN "threw" ELSE Derived(op[o].status)
<1>0. /\ Waiting(c, "aggregate") /\ "aggregate" \in OpStops
      /\ op' = [op EXCEPT ![o].row = Derived(op[o].status)] /\ Return(c, result) /\ UNCHANGED file
  BY DEF UpdateAggregate, OpStops
<1>1. Used(o) /\ op[o].status \in OpFileStatus
  BY <1>0, Waits
<1>2. /\ RowsStep /\ Touches(o) /\ op'[o].status = op[o].status
      /\ Derived(op[o].status) \in RowStatus
  BY <1>0, <1>1, DerivedStep
<1>3. OpFits(o) /\ op'[o].file = op[o].file
  BY <1>1, <1>2 DEF RowsInv, RowsStep, Used
<1>4. /\ result = "VERIFIED" => op[o].status = "ATTACHED"
      /\ result = "DELETED" => op[o].status = "DELETED"
  BY <1>1 DEF Derived, OpFileStatus, FileStatus
<1>5. /\ result = "VERIFIED" => file'[op'[o].file].id # 0
      /\ result = "DELETED" => file'[op'[o].file].status = "DELETED"
  BY <1>0, <1>3, <1>4 DEF OpFits
<1>6. result \in Results
  BY <1>2 DEF Results
<1> HIDE DEF result
<1> QED
  BY <1>0, <1>2, <1>5, <1>6, BackTurn

LEMMA DeleteTurn ==
  ASSUME RowsTyped, RowsInv, CallTyped, CallInv, NEW c \in Calls, Delete(c)
  PROVE  Turn(c) /\ Plain(c)
<1>0. Waiting(c, "delete") /\ UNCHANGED <<op, file>> /\ "delete" \in DeleteStops
  BY DEF Delete, DeleteStops
<1>1. PICK next \in {"remove", "verify", "delAwait"} : Go(c, next)
  BY DEF Delete
<1>2. /\ call[c].at # "idle" /\ op[MyOp(c)].status = "DELETING"
      /\ next \in DeleteStops /\ next \in OpStops /\ "delete" \in OpStops /\ "delete" \in GuardStops
      /\ next \notin UploadStops /\ next \notin ReconcileStops /\ next \in Stops
  BY <1>0, Waits
  DEF DeleteStops, GuardStops, OpStops, UploadStops, ReconcileStops, Stops, AttachmentStops
<1>3. RowsStep /\ Touches(MyOp(c))
  BY <1>0, SameRows DEF Touches
<1>4. /\ Moves(c) /\ call'[c] # Idle /\ call'[c].at = next /\ call'[c].op = call[c].op
      /\ call'[c].for = call[c].for /\ call'[c].rev = call[c].rev
  BY <1>1, <1>2, MovesOn
<1> QED
  BY <1>0, <1>2, <1>3, <1>4, OnTurn

\* A handler that settles its operation and goes to its aggregate.
LEMMA SettleTurn ==
  ASSUME RowsTyped, RowsInv, CallTyped, CallInv, NEW c \in Calls, NEW at \in GuardStops,
         Waiting(c, at), RowsStep, Touches(MyOp(c)),
         NEW result \in {"none", "threw"}, Aggregate(c, result)
  PROVE  Turn(c) /\ Plain(c)
<1>1. at # "idle" /\ at \in OpStops /\ "aggregate" \in OpStops
      /\ "aggregate" \notin UploadStops \cup GuardStops
  BY DEF OpStops, UploadStops, GuardStops, DeleteStops, ReconcileStops
<1>2. call[c].at # "idle" /\ result \in Results
  BY <1>1 DEF Waiting, Results
<1>3. /\ Moves(c) /\ call'[c] # Idle /\ call'[c].at = "aggregate" /\ call'[c].op = call[c].op
      /\ call'[c].for = call[c].for /\ call'[c].rev = call[c].rev
  BY <1>2, MovesToAggregate
<1> QED
  BY <1>1, <1>3, OnTurn DEF GuardStops

LEMMA DeleteFailsTurn ==
  ASSUME RowsTyped, RowsInv, CallTyped, CallInv, NEW c \in Calls, DeleteFails(c)
  PROVE  Turn(c) /\ Plain(c)
<1> DEFINE o == MyOp(c)
<1>0. PICK at \in {"delete", "delAwait", "verify"} : Waiting(c, at)
  BY DEF DeleteFails
<1>1. Used(o) /\ op[o].status = "DELETING"
  BY <1>0, Waits DEF OpStops, GuardStops, DeleteStops
<1>2. RowsStep /\ Touches(o) /\ \E result \in {"none", "threw"} : Aggregate(c, result)
  BY <1>1, SettleStep DEF DeleteFails, BothFiles, Busy, BusyOp
<1> QED
  BY <1>0, <1>2, SettleTurn DEF GuardStops, DeleteStops

LEMMA VerifyTurn ==
  ASSUME RowsTyped, RowsInv, CallTyped, CallInv, NEW c \in Calls, Verify(c)
  PROVE  Turn(c) /\ Plain(c)
<1> DEFINE o == MyOp(c)
<1>0. Waiting(c, "verify") /\ "verify" \in DeleteStops
  BY DEF Verify, DeleteStops
<1>1. Used(o) /\ op[o].status = "DELETING" /\ call[c].at # "idle"
  BY <1>0, Waits DEF OpStops, GuardStops
<1>2. CASE BothFiles(o, "UNCERTAIN", "UNCERTAIN") /\ Aggregate(c, "none")
  <2>1. RowsStep /\ Touches(o)
    BY <1>1, <1>2, SettleStep DEF BothFiles, Busy, BusyOp
  <2> QED
    BY <1>0, <1>2, <2>1, SettleTurn DEF GuardStops
<1>3. CASE Go(c, "remove") /\ UNCHANGED <<op, file>>
  <2>1. RowsStep /\ Touches(o)
    BY <1>3, SameRows DEF Touches
  <2>2. /\ Moves(c) /\ call'[c] # Idle /\ call'[c].at = "remove" /\ call'[c].op = call[c].op
        /\ call'[c].for = call[c].for /\ call'[c].rev = call[c].rev
    BY <1>1, <1>3, MovesOn DEF Stops, AttachmentStops
  <2>3. /\ "remove" \in OpStops /\ "verify" \in OpStops /\ "verify" \in GuardStops
        /\ "remove" \notin UploadStops /\ "remove" \notin ReconcileStops
    BY DEF OpStops, UploadStops, GuardStops, DeleteStops, ReconcileStops
  <2>4. op'[o].status = "DELETING"
    BY <1>1, <1>3
  <2> QED
    BY <1>0, <2>1, <2>2, <2>3, <2>4, OnTurn
<1> QED
  BY <1>2, <1>3 DEF Verify

LEMMA RemoveTurn ==
  ASSUME RowsTyped, RowsInv, CallTyped, CallInv, NEW c \in Calls, Remove(c)
  PROVE  Turn(c) /\ Plain(c)
<1> DEFINE o == MyOp(c)
<1>0. Waiting(c, "remove") /\ "remove" \in DeleteStops /\ Removed(o) /\ Return(c, "DELETED")
  BY DEF Remove, DeleteStops
<1>1. Used(o) /\ op[o].status = "DELETING" /\ "remove" \in GuardStops /\ "remove" \in OpStops
  BY <1>0, Waits DEF OpStops, GuardStops
<1>2. /\ RowsStep /\ Touches(o) /\ file'[op[o].file].status = "DELETED"
      /\ op'[o].file = op[o].file
  BY <1>0, <1>1, RemovedStep DEF Busy, BusyOp
<1>3. file'[op'[o].file].status = "DELETED" /\ "DELETED" \in Results
  BY <1>2 DEF Results, RowStatus
<1> QED
  BY <1>0, <1>1, <1>2, <1>3, BackTurn

LEMMA RetryTurn ==
  ASSUME RowsTyped, RowsInv, CallTyped, CallInv, NEW c \in Calls, Retry(c)
  PROVE  Turn(c) /\ Plain(c)
<1>1. PICK o \in Ops :
        /\ op[o] # NoOp
        /\ \/ op[o].kind = "attach" /\ ClaimUpload(o) /\ Begin(c, "person", "send", o, op[o].file, 0)
           \/ op[o].kind = "delete" /\ ClaimDelete(o)
              /\ Begin(c, "person", "delete", o, op[o].file, 0)
  BY DEF Retry
<1>2. Used(o) /\ op[o].file \in Files
  BY <1>1, OpRow DEF Used
<1>3. PICK at \in {"send", "delete"} :
        /\ Begin(c, "person", at, o, op[o].file, 0)
        /\ RowsStep /\ Touches(o) /\ op[o].status \in {"STAGED", "FAILED"}
        /\ at = "delete" => op'[o].status = "DELETING"
        /\ at = "send" => op'[o].kind = "attach"
  <2>1. CASE op[o].kind = "attach" /\ ClaimUpload(o) /\ Begin(c, "person", "send", o, op[o].file, 0)
    <3>1. RowsStep /\ Touches(o) /\ op[o].status \in {"STAGED", "FAILED"}
      BY <1>2, <2>1, ClaimUploadStep
    <3>2. op'[o].kind = "attach"
      BY <1>2, <2>1, <3>1 DEF RowsStep
    <3> QED
      BY <2>1, <3>1, <3>2
  <2>2. CASE ClaimDelete(o) /\ Begin(c, "person", "delete", o, op[o].file, 0)
    BY <1>2, <2>2, ClaimDeleteStep
  <2> QED
    BY <1>1, <2>1, <2>2
<1>4. /\ Moves(c) /\ call'[c] # Idle /\ call'[c].at = at /\ call'[c].op = o
      /\ call'[c].for = "person"
  BY <1>2, <1>3, Begins DEF Purposes, Stops, AttachmentStops
<1>5. op'[o] # NoOp
  BY <1>2, <1>3 DEF RowsStep
<1>6. CallFits(c)'
  BY <1>3, <1>4, <1>5, FreshFits
  DEF OpStops, UploadStops, GuardStops, DeleteStops, ReconcileStops
<1>7. Spares(c)
  BY <1>3, <1>4, SparesOthers
<1>8. \A p \in Ops : ~Used(p) /\ op'[p] # NoOp => ~op'[p].receipt
  BY <1>2, <1>3, NothingNew
<1> QED
  BY <1>3, <1>4, <1>6, <1>7, <1>8 DEF Turn, Plain

LEMMA PersonReconcileTurn ==
  ASSUME RowsTyped, RowsInv, CallTyped, CallInv, NEW c \in Calls, PersonReconcile(c)
  PROVE  Turn(c) /\ Plain(c)
<1>1. PICK o \in Ops :
        op[o] # NoOp /\ ClaimReconcile(o) /\ Begin(c, "person", "look", o, op[o].file, 0)
  BY DEF PersonReconcile
<1>2. Used(o) /\ op[o].file \in Files /\ UNCHANGED file
  BY <1>1, OpRow DEF Used, PersonReconcile
<1>3. /\ RowsStep /\ Touches(o) /\ op[o].status = "UNCERTAIN" /\ op'[o].status = "RECONCILING"
  BY <1>1, <1>2, ClaimReconcileStep
<1>4. /\ Moves(c) /\ call'[c] # Idle /\ call'[c].at = "look" /\ call'[c].op = o
      /\ call'[c].for = "person"
  BY <1>1, <1>2, Begins DEF Purposes, Stops, AttachmentStops
<1>5. op'[o] # NoOp
  BY <1>2, <1>3 DEF RowsStep
<1>6. CallFits(c)'
  BY <1>3, <1>4, <1>5, FreshFits
  DEF OpStops, UploadStops, GuardStops, DeleteStops, ReconcileStops
<1>7. Spares(c)
  BY <1>3, <1>4, SparesOthers
<1>8. \A p \in Ops : ~Used(p) /\ op'[p] # NoOp => ~op'[p].receipt
  BY <1>2, <1>3, NothingNew
<1> QED
  BY <1>3, <1>4, <1>6, <1>7, <1>8 DEF Turn, Plain

LEMMA ReconcileTurn ==
  ASSUME RowsTyped, RowsInv, CallTyped, CallInv, NEW c \in Calls, Reconcile(c)
  PROVE  Turn(c) /\ Plain(c)
<1> DEFINE o == MyOp(c)
<1>0. Waiting(c, "reconcile") /\ "reconcile" \in OpStops /\ UNCHANGED file
  BY DEF Reconcile, OpStops
<1>1. Used(o) /\ call[c].at # "idle" /\ op[o].status \in OpFileStatus
  BY <1>0, Waits
<1>2. CASE ClaimReconcile(o) /\ Go(c, "look")
  <2>1. /\ RowsStep /\ Touches(o) /\ op[o].status = "UNCERTAIN" /\ op'[o].status = "RECONCILING"
    BY <1>0, <1>1, <1>2, ClaimReconcileStep
  <2>2. /\ Moves(c) /\ call'[c] # Idle /\ call'[c].at = "look" /\ call'[c].op = call[c].op
        /\ call'[c].for = call[c].for /\ call'[c].rev = call[c].rev
    BY <1>1, <1>2, MovesOn DEF Stops, AttachmentStops
  <2>3. "look" \in OpStops /\ "look" \notin UploadStops /\ "look" \notin DeleteStops
    BY DEF OpStops, UploadStops, GuardStops, DeleteStops, ReconcileStops
  <2> QED
    BY <1>0, <2>1, <2>2, <2>3, OnTurn
<1>3. CASE /\ Return(c, IF op[o].status = "UNCERTAIN" THEN "busy" ELSE Derived(op[o].status))
           /\ UNCHANGED op
  <2> DEFINE result == IF op[o].status = "UNCERTAIN" THEN "busy" ELSE Derived(op[o].status)
  <2>1. RowsStep /\ Touches(o) /\ OpFits(o)
    BY <1>0, <1>1, <1>3, SameRows DEF Touches, RowsInv, Used
  <2>2. result \in Results
    BY <1>1 DEF Derived, OpFileStatus, FileStatus, Results, RowStatus
  <2>3. /\ result = "VERIFIED" => op[o].status = "ATTACHED"
        /\ result = "DELETED" => op[o].status = "DELETED"
    BY <1>1 DEF Derived, OpFileStatus, FileStatus
  <2>4. /\ result = "VERIFIED" => file'[op'[o].file].id # 0
        /\ result = "DELETED" => file'[op'[o].file].status = "DELETED"
    BY <1>0, <1>3, <2>1, <2>3 DEF OpFits
  <2>5. Return(c, result) /\ op'[o].status = op[o].status
    BY <1>3
  <2> HIDE DEF result
  <2> QED
    BY <1>0, <2>1, <2>2, <2>4, <2>5, BackTurn
<1> QED
  BY <1>2, <1>3 DEF Reconcile

LEMMA LookTurn ==
  ASSUME RowsTyped, RowsInv, CallTyped, CallInv, copies \in [Files -> SUBSET Copies],
         NEW c \in Calls, Look(c)
  PROVE  Turn(c) /\ Plain(c)
<1> DEFINE o == MyOp(c)
           f == MyFile(c)
           found == IF op[o].kind = "attach" THEN copies[f] ELSE copies[f] \cap {file[f].id}
<1>0. Waiting(c, "look") /\ "look" \in ReconcileStops /\ UNCHANGED file
  BY DEF Look, ReconcileStops
<1>1. /\ Used(o) /\ call[c].at # "idle" /\ op[o].status = "RECONCILING"
      /\ "look" \in GuardStops /\ "look" \in OpStops
  BY <1>0, Waits DEF GuardStops, OpStops
<1>2. CASE call' = [call EXCEPT ![c].at = "record", ![c].seen = found] /\ UNCHANGED op
  <2> DEFINE k == [call[c] EXCEPT !.at = "record", !.seen = found]
  <2>1. call[c] \in Working /\ found \subseteq Copies
    <3>1. f \in Files
      BY <1>1, OpRow DEF MyFile, MyOp
    <3>2. found \subseteq copies[f]
      OBVIOUS
    <3> QED
      BY <1>1, <3>1, <3>2, CallRow
  <2>2. call' = [call EXCEPT ![c] = k]
    BY <1>2, <2>1 DEF CallTyped
  <2> HIDE DEF found
  <2>3. /\ k \in Working /\ k.at = "record" /\ k.op = call[c].op /\ k.for = call[c].for
        /\ k.rev = call[c].rev
    BY <2>1 DEF Working, AttachmentStops
  <2> HIDE DEF k
  <2>4. Moves(c) /\ call'[c] = k /\ k # Idle
    BY <2>2, <2>3, Moving, IdleIsNotWorking
  <2>5. RowsStep /\ Touches(o) /\ op'[o].status = "RECONCILING"
    BY <1>0, <1>1, <1>2, SameRows DEF Touches
  <2>6. "record" \in OpStops /\ "record" \notin UploadStops /\ "record" \notin DeleteStops
    BY DEF OpStops, UploadStops, GuardStops, DeleteStops, ReconcileStops
  <2> QED
    BY <1>0, <1>1, <2>3, <2>4, <2>5, <2>6, OnTurn
<1>3. CASE /\ op' = [op EXCEPT ![o].row = "UNCERTAIN",
                               ![o].status = IF @ = "RECONCILING" THEN "UNCERTAIN" ELSE @]
           /\ Return(c, "UNCERTAIN")
  <2>1. RowsStep /\ Touches(o)
    BY <1>0, <1>1, <1>3, GiveBackStep
  <2>2. "UNCERTAIN" \in Results
    BY DEF Results, RowStatus
  <2> QED
    BY <1>0, <1>1, <1>3, <2>1, <2>2, BackTurn
<1> QED
  BY <1>2, <1>3 DEF Look

LEMMA RecordTurn ==
  ASSUME RowsTyped, RowsInv, CallTyped, CallInv, NEW c \in Calls, Record(c)
  PROVE  Turn(c) /\ Plain(c)
<1> DEFINE o == MyOp(c)
           f == MyFile(c)
           found == call[c].seen
<1>0. Waiting(c, "record") /\ "record" \in ReconcileStops /\ Aggregate(c, "none")
  BY DEF Record, ReconcileStops
<1>1. /\ Used(o) /\ op[o].status = "RECONCILING" /\ found \subseteq Copies
      /\ "record" \in GuardStops /\ op[o].status \in BusyOp
  BY <1>0, Waits DEF GuardStops, OpStops, BusyOp
<1>2. f = op[o].file /\ f \in Files
  BY <1>1, OpRow DEF MyFile, MyOp
<1>3. RowsStep /\ Touches(o)
  <2>1. CASE BothFiles(o, "FAILED", "FAILED") \/ BothFiles(o, "UNCERTAIN", "UNCERTAIN")
                 \/ BothFiles(o, "FAILED", "ATTACHED")
    BY <1>1, <2>1, SettleStep DEF BothFiles
  <2>2. ASSUME op' = SetOp(o, "ATTACHED"), NEW id \in found,
               file' = [file EXCEPT ![f] = [status |-> "ATTACHED", id |-> id,
                                            blob |-> RetainLocally /\ @.blob]]
        PROVE  RowsStep /\ Touches(o)
    <3>1. file[f].blob \in BOOLEAN
      BY <1>2 DEF RowsTyped, Attachment
    <3> DEFINE blob == RetainLocally /\ file[f].blob
    <3>2. blob \in BOOLEAN
      BY <3>1, BoundsAssumption
    <3>3. file' = [file EXCEPT ![op[o].file] = [status |-> "ATTACHED", id |-> id, blob |-> blob]]
      BY <1>2, <2>2
    <3> HIDE DEF blob
    <3> QED
      BY <1>1, <2>2, <3>2, <3>3, AttachedStep
  <2>3. CASE Removed(o)
    BY <1>1, <2>3, RemovedStep
  <2>4. CASE op[o].kind = "attach"
    BY <2>1, <2>2, <2>4 DEF Record
  <2>5. CASE op[o].kind # "attach"
    BY <2>1, <2>3, <2>5 DEF Record
  <2> QED
    BY <2>4, <2>5
<1> QED
  BY <1>0, <1>1, <1>3, SettleTurn

LEMMA RecoverTurn ==
  ASSUME RowsTyped, RowsInv, CallTyped, CallInv, NEW c \in Calls, NEW o \in Ops, Recover(c, o)
  PROVE  Turn(c) /\ Plain(c)
<1>1. /\ Used(o) /\ op[o].file \in Files /\ call[c] = Idle
      /\ \A d \in Calls : ~Guards(d, o)
  BY OpRow, IdleIsNotWorking
  DEF Recover, Stuck, Used, Guards, GuardStops, DeleteStops, ReconcileStops
<1>2. RowsStep /\ Touches(o)
  <2>1. CASE /\ op[o].status \in {"UPLOADING", "RECONCILING"}
             /\ Doubt(o, {"UPLOADING", "RECONCILING"}, {"UPLOADING", "UNCERTAIN"})
    BY <1>1, <2>1, DoubtStep
  <2>2. CASE op' = [op EXCEPT ![o].row = Derived(op[o].status)] /\ UNCHANGED file
    BY <1>1, <2>2, DerivedStep
  <2>3. CASE Doubt(o, {"DELETING"}, {"DELETING"})
    BY <1>1, <2>3, DoubtStep
  <2>4. CASE op[o].kind = "attach" /\ ClaimUpload(o)
    BY <1>1, <2>4, ClaimUploadStep
  <2> QED
    BY <2>1, <2>2, <2>3, <2>4 DEF Recover
<1>3. \/ \E at \in {"reconcile", "dispatch", "send"} :
           /\ Begin(c, "recovery", at, o, op[o].file, 0)
           /\ at \in {"dispatch", "send"} => op[o].kind = "attach"
      \/ UNCHANGED call
  BY DEF Recover
<1>4. \A p \in Ops : ~Used(p) /\ op'[p] # NoOp => ~op'[p].receipt
  BY <1>1, <1>2, NothingNew
<1>5. op'[o] # NoOp /\ op'[o].kind = op[o].kind
  BY <1>1, <1>2 DEF RowsStep
<1>6. CASE UNCHANGED call
  <2>1. Moves(c) /\ CallFits(c)' /\ call'[c] = Idle
    BY <1>1, <1>6 DEF Moves, CallTyped, CallFits
  <2>2. Spares(c)
    BY <1>1, <1>2, <2>1, IdleIsNotWorking, SparesOthers
    DEF GuardStops, DeleteStops, ReconcileStops
  <2> QED
    BY <1>2, <1>4, <2>1, <2>2 DEF Turn, Plain
<1>7. ASSUME NEW at \in {"reconcile", "dispatch", "send"},
             Begin(c, "recovery", at, o, op[o].file, 0),
             at \in {"dispatch", "send"} => op[o].kind = "attach"
      PROVE  Turn(c) /\ Plain(c)
  <2>1. /\ Moves(c) /\ call'[c] # Idle /\ call'[c].at = at /\ call'[c].op = o
        /\ call'[c].for = "recovery"
    BY <1>1, <1>7, Begins DEF Purposes, Stops, AttachmentStops
  <2>2. CallFits(c)'
    BY <1>5, <1>7, <2>1, FreshFits
    DEF OpStops, UploadStops, GuardStops, DeleteStops, ReconcileStops
  <2>3. Spares(c)
    BY <1>1, <1>2, <2>1, SparesOthers DEF GuardStops, DeleteStops, ReconcileStops
  <2> QED
    BY <1>2, <1>4, <2>1, <2>2, <2>3 DEF Turn, Plain
<1> QED
  BY <1>3, <1>6, <1>7

\* A step that changes no operation and takes none up.
LEMMA LightTurn ==
  ASSUME CallInv, NEW c \in Calls, RowsStep, UNCHANGED op, Moves(c), CallFits(c)',
         call'[c].at \notin GuardStops
  PROVE  Turn(c) /\ \A o \in Ops : ~Used(o) /\ op'[o] # NoOp => ~op'[o].receipt
<1>1. Touches(0) /\ op'[0].status = op[0].status
  BY DEF Touches
<1>2. Spares(c)
  BY <1>1, SparesOthers
<1> QED
  BY <1>2 DEF Turn, Used

LEMMA RefreshReadTurn ==
  ASSUME RowsTyped, RowsInv, CallTyped, CallInv, copies \in [Files -> SUBSET Copies],
         NEW c \in Calls, RefreshRead(c)
  PROVE  Turn(c) /\ Plain(c)
<1>1. PICK f \in Files :
        call' = [call EXCEPT ![c] = [at |-> "refresh", for |-> "person", op |-> 0, file |-> f,
                                     seen |-> copies[f], rev |-> 0, result |-> "none"]]
  BY DEF RefreshRead
<1> DEFINE k == [at |-> "refresh", for |-> "person", op |-> 0, file |-> f,
                 seen |-> copies[f], rev |-> 0, result |-> "none"]
<1>2. k \in Working /\ k.at = "refresh" /\ k.for = "person" /\ k.file = f
  BY DEF Working, AttachmentStops, Purposes, Results
<1>3. Moves(c) /\ call'[c] = k
  BY <1>1, <1>2, Moving
<1> HIDE DEF k
<1>4. CallFits(c)' /\ call'[c].at \notin GuardStops /\ call'[c].for = "person"
  BY <1>2, <1>3
  DEF CallFits, KeyHolds, OpStops, UploadStops, GuardStops, DeleteStops, ReconcileStops
<1>5. RowsStep /\ UNCHANGED op
  BY SameRows DEF RefreshRead
<1> QED
  BY <1>3, <1>4, <1>5, LightTurn DEF Plain

LEMMA RefreshWriteTurn ==
  ASSUME RowsTyped, RowsInv, CallTyped, CallInv, NEW c \in Calls, RefreshWrite(c)
  PROVE  Turn(c) /\ Plain(c)
<1> DEFINE f == call[c].file
           found == call[c].seen
<1>0. Waiting(c, "refresh") /\ Return(c, "none") /\ UNCHANGED op
  BY DEF RefreshWrite
<1>1. /\ call[c].at = "refresh" /\ call[c] # Idle /\ call[c].at # "idle" /\ CallFits(c)
      /\ found \subseteq Copies
  BY <1>0, Waits
<1>2. f \in Files /\ call[c].for = "person"
  BY <1>1 DEF CallFits
<1>3. RowsStep
  <2>1. CASE UNCHANGED file
    BY <1>0, <2>1, SameRows
  <2>2. CASE file[f].status \in Deletable /\ found = {} /\ file[f].id # 0
             /\ file' = SetFile(f, "QBO_MISSING")
    <3> DEFINE rec == [file[f] EXCEPT !.status = "QBO_MISSING"]
    <3>1. /\ rec \in Attachment /\ rec.status = "QBO_MISSING" /\ rec.id # 0
          /\ file' = [file EXCEPT ![f] = rec]
      BY <1>2, <2>2, FileRow
    <3> HIDE DEF rec
    <3> QED
      BY <1>0, <1>2, <2>2, <3>1, FileStep
  <2>3. ASSUME file[f].status \in Deletable, NEW id \in found,
               file' = [file EXCEPT ![f].status = "ATTACHED", ![f].id = id]
        PROVE  RowsStep
    <3> DEFINE rec == [file[f] EXCEPT !.status = "ATTACHED", !.id = id]
    <3>1. file[f] \in Attachment /\ id \in Copies /\ id # 0
      BY <1>1, <1>2 DEF RowsTyped, Copies
    <3>2. rec \in Attachment /\ rec.status = "ATTACHED" /\ rec.id # 0
      BY <3>1 DEF Attachment, FileStatus
    <3>3. file' = [file EXCEPT ![f] = rec]
      BY <1>2, <2>3 DEF RowsTyped
    <3> HIDE DEF rec
    <3> QED
      BY <1>0, <1>2, <2>3, <3>2, <3>3, FileStep
  <2> QED
    BY <2>1, <2>2, <2>3 DEF RefreshWrite
<1>4. Moves(c) /\ call'[c] = Idle
  BY <1>0, <1>1, <1>2, MovesBack DEF Results
<1>5. CallFits(c)' /\ call'[c].at \notin GuardStops
  BY <1>4, IdleIsNotWorking DEF CallFits, GuardStops, DeleteStops, ReconcileStops
<1> QED
  BY <1>0, <1>3, <1>4, <1>5, LightTurn DEF Plain

LEMMA CrashTurn ==
  ASSUME RowsTyped, RowsInv, CallTyped, CallInv, NEW c \in Calls, Crash(c)
  PROVE  Turn(c) /\ Plain(c)
<1>1. call' = [call EXCEPT ![c] = Idle] /\ UNCHANGED <<op, file>>
  BY DEF Crash
<1>2. RowsStep
  BY <1>1, SameRows
<1> QED
  BY <1>1, <1>2, Ends, LightTurn DEF Plain

\* The types of what QuickBooks holds and has been sent.
QuickBooksTyped ==
  copies \in [Files -> SUBSET Copies] /\ made \in [Files -> 0..MaxUploads] /\ wire \subseteq Request

LEMMA RequestRow ==
  ASSUME QuickBooksTyped, NEW r \in wire
  PROVE  r \in Request /\ r.by \in Calls /\ r.file \in Files /\ r.kind \in {"upload", "delete"}
BY DEF QuickBooksTyped, Request

LEMMA NextCopy ==
  ASSUME QuickBooksTyped, NEW f \in Files, made[f] < MaxUploads
  PROVE  made[f] + 1 \in Copies /\ made[f] + 1 \in 0..MaxUploads
BY BoundsAssumption DEF QuickBooksTyped, Copies

LEMMA LandTurn ==
  ASSUME RowsTyped, RowsInv, CallTyped, CallInv, QuickBooksTyped, NEW r \in wire, Land(r)
  PROVE  Turn(r.by) /\ Plain(r.by)
<1> DEFINE c == r.by
           f == r.file
<1>0. c \in Calls /\ f \in Files /\ UNCHANGED <<op, file>>
  BY RequestRow DEF Land
<1>1. RowsStep /\ UNCHANGED op
  BY <1>0, SameRows
<1>2. CASE UNCHANGED call
  <2>1. Moves(c) /\ CallFits(c)'
    BY <1>0, <1>2 DEF Moves, CallTyped, CallInv, CallFits, ResultHolds, KeyHolds, Used
  <2>2. Spares(c)
    BY <1>0, <1>2 DEF Spares, CallInv, Guards
  <2> QED
    BY <1>0, <1>1, <1>2, <2>1, <2>2 DEF Turn, Plain, Used
<1>3. ASSUME call[c].at = "await", made[f] < MaxUploads,
             call' = [call EXCEPT ![c].at = "landed", ![c].seen = {made[f] + 1}]
      PROVE  Turn(c) /\ Plain(c)
  <2> DEFINE k == [call[c] EXCEPT !.at = "landed", !.seen = {made[f] + 1}]
  <2>1. call[c] \in Working /\ made[f] + 1 \in Copies
    BY <1>0, <1>3, CallRow, NextCopy
  <2>2. call' = [call EXCEPT ![c] = k]
    BY <1>0, <1>3, <2>1 DEF CallTyped
  <2>3. /\ k \in Working /\ k.at = "landed" /\ k.op = call[c].op /\ k.for = call[c].for
        /\ k.rev = call[c].rev
    BY <2>1 DEF Working, AttachmentStops
  <2> HIDE DEF k
  <2>4. Moves(c) /\ call'[c] = k /\ k # Idle
    BY <1>0, <2>2, <2>3, Moving, IdleIsNotWorking
  <2>5. call[c] # Idle /\ CallFits(c) /\ Used(call[c].op) /\ op[call[c].op].kind = "attach"
    BY <1>0, <1>3, IdleIsNotWorking DEF CallInv, CallFits, OpStops, UploadStops
  <2>6. CallFits(c)' /\ call'[c].at \notin GuardStops
    BY <1>0, <1>1, <2>3, <2>4, <2>5, OnFits
    DEF OpStops, UploadStops, GuardStops, DeleteStops, ReconcileStops
  <2> QED
    BY <1>0, <1>1, <2>3, <2>4, <2>5, <2>6, LightTurn DEF Plain
<1>4. ASSUME call[c].at = "delAwait", call' = [call EXCEPT ![c].at = "verify"]
      PROVE  Turn(c) /\ Plain(c)
  <2>1. /\ Moves(c) /\ call'[c] # Idle /\ call'[c].at = "verify" /\ call'[c].op = call[c].op
        /\ call'[c].for = call[c].for /\ call'[c].rev = call[c].rev
    BY <1>0, <1>4, MovesOn DEF Go, Stops, AttachmentStops
  <2>2. /\ "verify" \in OpStops /\ "delAwait" \in OpStops /\ "delAwait" \in GuardStops
        /\ "delAwait" \in DeleteStops /\ "verify" \notin UploadStops /\ "verify" \notin ReconcileStops
    BY DEF OpStops, UploadStops, GuardStops, DeleteStops, ReconcileStops
  <2>3. Waiting(c, "delAwait") /\ Touches(MyOp(c))
    BY <1>0, <1>4 DEF Waiting, Touches
  <2>4. op'[MyOp(c)].status = "DELETING"
    BY <1>0, <2>2, <2>3, Waits
  <2> QED
    BY <1>0, <1>1, <2>1, <2>2, <2>3, <2>4, OnTurn
<1> QED
  BY <1>2, <1>3, <1>4 DEF Land

----------------------------------------------------------------------------
(* The steps of a receipt's handlers.                                        *)

\* A handler whose lease goes back.
LEMMA OverTurn ==
  ASSUME RowsTyped, RowsInv, CallTyped, CallInv, NEW c \in Calls,
         call' = [call EXCEPT ![c] = Idle], UNCHANGED <<op, file>>
  PROVE  Turn(c)
<1>1. RowsStep
  BY SameRows
<1> QED
  BY <1>1, Ends, LightTurn

LEMMA EnterTurn ==
  ASSUME RowsTyped, RowsInv, CallTyped, CallInv, ReceiptTypeOK, NEW c \in Calls,
         NEW for \in {"attach", "undo"}, Enter(c, for)
  PROVE  /\ Turn(c) /\ call'[c] # Idle /\ call'[c].rev = receipt.revision
<1>1. receipt.revision \in Nat
  BY DEF ReceiptTypeOK
<1>2. /\ Moves(c) /\ call'[c] # Idle /\ call'[c].at = "prepare" /\ call'[c].op = 0
      /\ call'[c].for = for /\ call'[c].rev = receipt.revision
  <2>1. for \in Purposes /\ "prepare" \in Stops
    BY DEF Purposes, Stops, ReceiptStops
  <2>2. Begin(c, for, "prepare", 0, 0, receipt.revision)
    BY DEF Enter
  <2> QED
    BY <1>1, <2>1, <2>2, Begins
<1>3. CallFits(c)' /\ call'[c].at \notin GuardStops
  BY <1>2
  DEF CallFits, KeyHolds, OpStops, UploadStops, GuardStops, DeleteStops, ReconcileStops
<1>4. RowsStep /\ UNCHANGED op
  BY SameRows DEF Enter
<1> QED
  BY <1>2, <1>3, <1>4, LightTurn

\* The operation of a revision, if there is one.
LEMMA KeyedRow ==
  ASSUME NEW kind, NEW revision, KeyedOp(kind, revision) # {}
  PROVE  LET o == CHOOSE o \in KeyedOp(kind, revision) : TRUE IN
         /\ o \in Ops /\ Used(o) /\ op[o].receipt /\ op[o].kind = kind /\ op[o].key = revision
<1>1. (CHOOSE o \in KeyedOp(kind, revision) : TRUE) \in KeyedOp(kind, revision)
  OBVIOUS
<1> QED
  BY <1>1 DEF KeyedOp, Used

LEMMA ProceedTurn ==
  ASSUME RowsTyped, RowsInv, CallTyped, CallInv, ReceiptTypeOK, NEW c \in Calls,
         Waiting(c, "prepare"), UNCHANGED <<op, file>>, NEW revision \in Nat,
         NEW kind, NEW at, Proceed(c, kind, at, revision),
         \/ call[c].for = "attach" /\ kind = "attach" /\ at = "create"
         \/ call[c].for = "undo" /\ kind = "delete" /\ at = "reserve" /\ receipt.file # 0
  PROVE  Turn(c) /\ call'[c] # Idle /\ call'[c].rev = revision
<1>1. call[c].at = "prepare" /\ call[c].at # "idle" /\ call[c] \in Working
  BY CallRow DEF Waiting
<1>2. PICK o \in Ops \cup {0}, stop \in {"create", "reserve", "resume"} :
        /\ call' = [call EXCEPT ![c].rev = revision, ![c].file = receipt.file, ![c].at = stop,
                               ![c].op = o]
        /\ \/ o = 0 /\ stop = at
           \/ /\ stop = "resume" /\ Used(o)
              /\ op[o].receipt /\ op[o].kind = kind /\ op[o].key = revision
  <2>1. CASE KeyedOp(kind, revision) = {}
    BY <2>1 DEF Proceed
  <2>2. CASE KeyedOp(kind, revision) # {}
    <3> DEFINE q == CHOOSE o \in KeyedOp(kind, revision) : TRUE
    <3>1. /\ q \in Ops /\ Used(q) /\ op[q].receipt /\ op[q].kind = kind
          /\ op[q].key = revision
      BY <2>2, KeyedRow
    <3>2. call' = [call EXCEPT ![c].rev = revision, ![c].file = receipt.file,
                               ![c].at = "resume", ![c].op = q]
      BY <2>2 DEF Proceed
    <3> HIDE DEF q
    <3> QED
      BY <3>1, <3>2
  <2> QED
    BY <2>1, <2>2
<1> DEFINE k == [call[c] EXCEPT !.rev = revision, !.file = receipt.file, !.at = stop, !.op = o]
<1>3. call' = [call EXCEPT ![c] = k]
  BY <1>1, <1>2 DEF CallTyped
<1>4. receipt.file \in Files \cup {0}
  BY DEF ReceiptTypeOK
<1>5. /\ k \in Working /\ k.at = stop /\ k.op = o /\ k.for = call[c].for
      /\ k.rev = revision /\ k.file = receipt.file
  BY <1>1, <1>4 DEF Working, ReceiptStops
<1> HIDE DEF k
<1>6. Moves(c) /\ call'[c] = k /\ k # Idle
  BY <1>3, <1>5, Moving, IdleIsNotWorking
<1>7. KeyHolds(c)'
  BY <1>2, <1>5, <1>6 DEF KeyHolds, KindFor, Used
<1>8. stop = "resume" => op'[o] # NoOp /\ o \in Ops
  BY <1>2 DEF Used
<1>9. CallFits(c)' /\ call'[c].at \notin GuardStops
  BY <1>2, <1>4, <1>5, <1>6, <1>7, <1>8
  DEF CallFits, Used, OpStops, UploadStops, GuardStops, DeleteStops, ReconcileStops
<1>10. RowsStep
  BY SameRows
<1> QED
  BY <1>5, <1>6, <1>9, <1>10, LightTurn

LEMMA PrepareTurn ==
  ASSUME RowsTyped, RowsInv, CallTyped, CallInv, ReceiptTypeOK, NEW c \in Calls,
         PrepareAttach(c) \/ PrepareUndo(c)
  PROVE  /\ Turn(c)
         /\ call'[c] = Idle \/ call'[c].rev = receipt'.revision
<1>1. Waiting(c, "prepare") /\ UNCHANGED <<op, file>>
  BY DEF PrepareAttach, PrepareUndo
<1>2. receipt.revision \in Nat /\ receipt.revision + 1 \in Nat
  BY DEF ReceiptTypeOK
<1>3. ASSUME NEW status, receipt' = [[receipt EXCEPT !.status = status] EXCEPT !.revision = receipt.revision + 1]
      PROVE  receipt'.revision = receipt.revision + 1
  BY <1>3 DEF ReceiptTypeOK
<1>4. CASE call' = [call EXCEPT ![c] = Idle]
  BY <1>1, <1>4, OverTurn, Ends
<1>5. CASE call' # [call EXCEPT ![c] = Idle]
  <2>1. \/ /\ call[c].for = "attach" /\ UNCHANGED receipt
           /\ Proceed(c, "attach", "create", receipt.revision)
        \/ /\ call[c].for = "attach" /\ receipt'.revision = receipt.revision + 1
           /\ Proceed(c, "attach", "create", receipt.revision + 1)
        \/ /\ call[c].for = "undo" /\ receipt.file # 0 /\ UNCHANGED receipt
           /\ Proceed(c, "delete", "reserve", receipt.revision)
        \/ /\ call[c].for = "undo" /\ receipt.file # 0 /\ receipt'.revision = receipt.revision + 1
           /\ Proceed(c, "delete", "reserve", receipt.revision + 1)
    BY <1>3, <1>5 DEF PrepareAttach, PrepareUndo, Refuse, Over, Revise
  <2> QED
    BY <1>1, <1>2, <2>1, ProceedTurn
<1> QED
  BY <1>4, <1>5

\* A handler keeps what it works for, and the revision.
Keeps(c) == call'[c] # Idle => call'[c].rev = call[c].rev /\ call'[c].for = call[c].for

LEMMA ReceiptBack ==
  ASSUME CallTyped, NEW c \in Calls, call[c].at # "idle", NEW result \in Results,
         Return(c, result)
  PROVE  Keeps(c)
BY MovesBack DEF Keeps

LEMMA CreateForReceiptTurn ==
  ASSUME RowsTyped, RowsInv, CallTyped, CallInv, NEW c \in Calls, CreateForReceipt(c)
  PROVE  Turn(c) /\ Keeps(c)
<1>1. /\ call[c].at = "create" /\ call[c] # Idle /\ call[c].at # "idle" /\ CallFits(c)
      /\ call[c].rev \in Nat /\ call[c].for = "attach" /\ call[c] \in Working
  BY Waits, CallRow DEF CreateForReceipt, CallFits
<1>2. ASSUME NEW o \in Ops, NEW f \in Files, Create(o, f, TRUE, call[c].rev),
             call' = [call EXCEPT ![c].at = "dispatch", ![c].op = o, ![c].file = f]
      PROVE  Turn(c) /\ Keeps(c)
  <2>0. TRUE \in BOOLEAN /\ call[c].rev \in Nat
    BY <1>1
  <2>1. /\ RowsStep /\ ~Used(o) /\ op'[o] # NoOp
        /\ op'[o].kind = "attach" /\ op'[o].file = f /\ op'[o].receipt = TRUE
        /\ op'[o].key = call[c].rev /\ op'[o].status = "STAGED"
        /\ \A p \in Ops : p # o => op'[p] = op[p]
    BY <2>0, <1>2, CreateStep, Zenon
  <2> DEFINE k == [call[c] EXCEPT !.at = "dispatch", !.op = o, !.file = f]
  <2>2. call' = [call EXCEPT ![c] = k]
    BY <1>1, <1>2 DEF CallTyped
  <2>3. /\ k \in Working /\ k.at = "dispatch" /\ k.op = o /\ k.for = call[c].for
        /\ k.rev = call[c].rev
    BY <1>1 DEF Working, AttachmentStops
  <2> HIDE DEF k
  <2>4. Moves(c) /\ call'[c] = k /\ k # Idle
    BY <2>2, <2>3, Moving, IdleIsNotWorking
  <2>5. CallFits(c)'
    BY <1>1, <2>1, <2>3, <2>4
    DEF CallFits, KeyHolds, KindFor, Used, OpStops, UploadStops, GuardStops, DeleteStops,
        ReconcileStops
  <2>6. Spares(c)
    BY <2>1, <2>3, <2>4 DEF Spares, GuardStops, DeleteStops, ReconcileStops
  <2> QED
    BY <2>1, <2>3, <2>4, <2>5, <2>6 DEF Turn, Keeps
<1>3. CASE Return(c, "threw") /\ UNCHANGED <<op, file>>
  <2>1. RowsStep
    BY <1>3, SameRows
  <2>2. Moves(c) /\ CallFits(c)' /\ call'[c].at \notin GuardStops
    BY <1>1, <1>3, <2>1, BackFits DEF Results
  <2> QED
    BY <1>1, <1>3, <2>1, <2>2, LightTurn, ReceiptBack DEF Results
<1>4. ASSUME NEW o \in KeyedOp("attach", call[c].rev), UNCHANGED <<op, file>>,
             call' = [call EXCEPT ![c].at = "returned", ![c].op = o, ![c].file = op[o].file,
                                  ![c].result = Derived(op[o].status)]
      PROVE  Turn(c) /\ Keeps(c)
  <2> DEFINE result == Derived(op[o].status)
  <2>1. /\ o \in Ops /\ Used(o) /\ op[o].receipt /\ op[o].kind = "attach" /\ op[o].key = call[c].rev
        /\ op[o].status \in OpFileStatus /\ op[o].file \in Files /\ OpFits(o)
    BY OpRow DEF KeyedOp, Used, RowsInv
  <2>2. /\ result \in Results
        /\ result = "VERIFIED" => op[o].status = "ATTACHED"
        /\ result = "DELETED" => op[o].status = "DELETED"
    BY <2>1 DEF Derived, OpFileStatus, FileStatus, Results, RowStatus
  <2> HIDE DEF result
  <2> DEFINE k == [call[c] EXCEPT !.at = "returned", !.op = o, !.file = op[o].file,
                                  !.result = result]
  <2>3. call' = [call EXCEPT ![c] = k]
    BY <1>1, <1>4 DEF CallTyped, result
  <2>4. /\ k \in Working /\ k.at = "returned" /\ k.op = o /\ k.for = call[c].for
        /\ k.rev = call[c].rev /\ k.result = result
    BY <1>1, <2>1, <2>2 DEF Working, ReceiptStops
  <2> HIDE DEF k
  <2>5. Moves(c) /\ call'[c] = k /\ k # Idle
    BY <2>3, <2>4, Moving, IdleIsNotWorking
  <2>6. ResultHolds(c)'
    BY <1>4, <2>1, <2>2, <2>4, <2>5 DEF ResultHolds, Used, OpFits
  <2>7. KeyHolds(c)'
    BY <1>1, <1>4, <2>1, <2>4, <2>5 DEF KeyHolds, KindFor, Used
  <2>8. CallFits(c)' /\ call'[c].at \notin GuardStops
    BY <1>1, <2>4, <2>5, <2>6, <2>7
    DEF CallFits, OpStops, UploadStops, GuardStops, DeleteStops, ReconcileStops
  <2>9. RowsStep
    BY <1>4, SameRows
  <2> QED
    BY <1>4, <2>4, <2>5, <2>8, <2>9, LightTurn DEF Keeps
<1> QED
  BY <1>2, <1>3, <1>4 DEF CreateForReceipt

LEMMA ReserveForReceiptTurn ==
  ASSUME RowsTyped, RowsInv, CallTyped, CallInv, NEW c \in Calls, ReserveForReceipt(c)
  PROVE  Turn(c) /\ Keeps(c)
<1>1. /\ call[c].at = "reserve" /\ call[c] # Idle /\ call[c].at # "idle" /\ CallFits(c)
      /\ call[c].rev \in Nat /\ call[c].for = "undo" /\ call[c] \in Working /\ call[c].file \in Files
  BY Waits, CallRow DEF ReserveForReceipt, CallFits
<1>2. ASSUME NEW o \in Ops, Reserve(o, call[c].file, TRUE, call[c].rev),
             call' = [call EXCEPT ![c].at = "delete", ![c].op = o]
      PROVE  Turn(c) /\ Keeps(c)
  <2>0. TRUE \in BOOLEAN /\ call[c].rev \in Nat /\ call[c].file \in Files
    BY <1>1
  <2>1. /\ RowsStep /\ ~Used(o) /\ op'[o] # NoOp
        /\ op'[o].kind = "delete" /\ op'[o].file = call[c].file /\ op'[o].receipt = TRUE
        /\ op'[o].key = call[c].rev /\ op'[o].status = "DELETING"
        /\ \A p \in Ops : p # o => op'[p] = op[p]
    BY <2>0, <1>2, ReserveStep, Zenon
  <2> DEFINE k == [call[c] EXCEPT !.at = "delete", !.op = o]
  <2>2. call' = [call EXCEPT ![c] = k]
    BY <1>1, <1>2 DEF CallTyped
  <2>3. /\ k \in Working /\ k.at = "delete" /\ k.op = o /\ k.for = call[c].for
        /\ k.rev = call[c].rev
    BY <1>1 DEF Working, AttachmentStops
  <2> HIDE DEF k
  <2>4. Moves(c) /\ call'[c] = k /\ k # Idle
    BY <2>2, <2>3, Moving, IdleIsNotWorking
  <2>5. CallFits(c)'
    BY <1>1, <2>1, <2>3, <2>4
    DEF CallFits, KeyHolds, KindFor, Used, OpStops, UploadStops, GuardStops, DeleteStops,
        ReconcileStops
  <2>6. Spares(c)
    BY <2>1, <2>3, <2>4 DEF Spares
  <2> QED
    BY <2>1, <2>3, <2>4, <2>5, <2>6 DEF Turn, Keeps
<1>3. CASE Return(c, "threw") /\ UNCHANGED <<op, file>>
  <2>1. RowsStep
    BY <1>3, SameRows
  <2>2. Moves(c) /\ CallFits(c)' /\ call'[c].at \notin GuardStops
    BY <1>1, <1>3, <2>1, BackFits DEF Results
  <2> QED
    BY <1>1, <1>3, <2>1, <2>2, LightTurn, ReceiptBack DEF Results
<1>4. ASSUME NEW o \in KeyedOp("delete", call[c].rev), UNCHANGED <<op, file>>,
             call' = [call EXCEPT ![c].at = "returned", ![c].op = o,
                                  ![c].result = Derived(op[o].status)]
      PROVE  Turn(c) /\ Keeps(c)
  <2> DEFINE result == Derived(op[o].status)
  <2>1. /\ o \in Ops /\ Used(o) /\ op[o].receipt /\ op[o].kind = "delete" /\ op[o].key = call[c].rev
        /\ op[o].status \in OpFileStatus /\ OpFits(o)
    BY OpRow DEF KeyedOp, Used, RowsInv
  <2>2. /\ result \in Results
        /\ result = "VERIFIED" => op[o].status = "ATTACHED"
        /\ result = "DELETED" => op[o].status = "DELETED"
    BY <2>1 DEF Derived, OpFileStatus, FileStatus, Results, RowStatus
  <2> HIDE DEF result
  <2> DEFINE k == [call[c] EXCEPT !.at = "returned", !.op = o, !.result = result]
  <2>3. call' = [call EXCEPT ![c] = k]
    BY <1>1, <1>4 DEF CallTyped, result
  <2>4. /\ k \in Working /\ k.at = "returned" /\ k.op = o /\ k.for = call[c].for
        /\ k.rev = call[c].rev /\ k.result = result
    BY <1>1, <2>1, <2>2 DEF Working, ReceiptStops
  <2> HIDE DEF k
  <2>5. Moves(c) /\ call'[c] = k /\ k # Idle
    BY <2>3, <2>4, Moving, IdleIsNotWorking
  <2>6. ResultHolds(c)'
    BY <1>4, <2>1, <2>2, <2>4, <2>5 DEF ResultHolds, Used, OpFits
  <2>7. KeyHolds(c)'
    BY <1>1, <1>4, <2>1, <2>4, <2>5 DEF KeyHolds, KindFor, Used
  <2>8. CallFits(c)' /\ call'[c].at \notin GuardStops
    BY <1>1, <2>4, <2>5, <2>6, <2>7
    DEF CallFits, OpStops, UploadStops, GuardStops, DeleteStops, ReconcileStops
  <2>9. RowsStep
    BY <1>4, SameRows
  <2> QED
    BY <1>4, <2>4, <2>5, <2>8, <2>9, LightTurn DEF Keeps
<1> QED
  BY <1>2, <1>3, <1>4 DEF ReserveForReceipt

LEMMA ResumeTurn ==
  ASSUME RowsTyped, RowsInv, CallTyped, CallInv, NEW c \in Calls, Resume(c)
  PROVE  Turn(c) /\ Keeps(c)
<1> DEFINE o == MyOp(c)
<1>0. Waiting(c, "resume") /\ "resume" \in OpStops /\ UNCHANGED <<op, file>>
  BY DEF Resume, OpStops
<1>1. /\ Used(o) /\ call[c].at # "idle" /\ op[o].status \in OpFileStatus
  BY <1>0, Waits
<1>2. RowsStep /\ Touches(o) /\ OpFits(o)
  BY <1>0, <1>1, SameRows DEF Touches, RowsInv, Used
<1>3. CASE op[o].status = "UNCERTAIN" /\ Go(c, "reconcile")
  <2>1. /\ Moves(c) /\ call'[c] # Idle /\ call'[c].at = "reconcile" /\ call'[c].op = call[c].op
        /\ call'[c].for = call[c].for /\ call'[c].rev = call[c].rev
    BY <1>1, <1>3, MovesOn DEF Stops, AttachmentStops
  <2>2. "reconcile" \in OpStops /\ "reconcile" \notin UploadStops \cup DeleteStops \cup ReconcileStops
    BY DEF OpStops, UploadStops, DeleteStops, ReconcileStops
  <2> QED
    BY <1>0, <1>2, <1>3, <2>1, <2>2, OnTurn DEF Keeps
<1>4. CASE op[o].status # "UNCERTAIN" /\ Return(c, Derived(op[o].status))
  <2> DEFINE result == Derived(op[o].status)
  <2>1. /\ result \in Results
        /\ result = "VERIFIED" => op[o].status = "ATTACHED"
        /\ result = "DELETED" => op[o].status = "DELETED"
    BY <1>1 DEF Derived, OpFileStatus, FileStatus, Results, RowStatus
  <2>2. /\ result = "VERIFIED" => file'[op'[o].file].id # 0
        /\ result = "DELETED" => file'[op'[o].file].status = "DELETED"
    BY <1>0, <1>2, <2>1 DEF OpFits
  <2>3. Return(c, result) /\ op'[o].status = op[o].status
    BY <1>0, <1>4
  <2> HIDE DEF result
  <2>4. Turn(c)
    BY <1>0, <1>2, <2>1, <2>2, <2>3, BackTurn
  <2>5. Keeps(c)
    BY <1>1, <2>1, <2>3, ReceiptBack
  <2> QED
    BY <2>4, <2>5
<1> QED
  BY <1>3, <1>4 DEF Resume

LEMMA FinalTurn ==
  ASSUME RowsTyped, RowsInv, CallTyped, CallInv, NEW c \in Calls,
         FinalizeAttach(c) \/ FinalizeUndo(c) \/ Restore(c)
  PROVE  Turn(c) /\ call'[c] = Idle
<1>1. call' = [call EXCEPT ![c] = Idle] /\ UNCHANGED <<op, file>>
  BY DEF FinalizeAttach, FinalizeUndo, Restore, Over
<1> QED
  BY <1>1, OverTurn, Ends

\* What the steps of an attachment's handlers have in common.
LEMMA AttachmentTurn ==
  ASSUME RowsTyped, RowsInv, CallTyped, CallInv, QuickBooksTyped, NEW c \in Calls,
         AttachmentStep(c) \/ AttachmentStart(c) \/ Crash(c)
  PROVE  Turn(c) /\ Plain(c)
<1>1. copies \in [Files -> SUBSET Copies]
  BY DEF QuickBooksTyped
<1>2. CASE AttachmentStep(c)
  BY <1>1, <1>2, DispatchTurn, UploadTurn, UploadTimesOutTurn, UploadRefusedTurn,
     RecordUploadTurn, UpdateAggregateTurn, DeleteTurn, DeleteFailsTurn, VerifyTurn, RemoveTurn,
     ReconcileTurn, LookTurn, RecordTurn, RefreshWriteTurn
  DEF AttachmentStep
<1>3. CASE AttachmentStart(c)
  BY <1>1, <1>3, PersonAttachTurn, PersonDeleteTurn, RetryTurn, PersonReconcileTurn,
     RefreshReadTurn, RecoverTurn
  DEF AttachmentStart
<1>4. CASE Crash(c)
  BY <1>4, CrashTurn
<1> QED
  BY <1>2, <1>3, <1>4

\* The steps of no handler.
LEMMA OutsideKeeps ==
  ASSUME RowsTyped, RowsInv, CallTyped, CallInv, UNCHANGED <<op, file, call>>
  PROVE  RowsTyped' /\ RowsInv' /\ CallTyped' /\ CallInv' /\ RowsStep
<1>1. RowsStep
  BY SameRows
<1>2. CallInv'
  BY DEF CallInv, CallFits, ResultHolds, KeyHolds, Guards, Used
<1> QED
  BY <1>1, <1>2 DEF RowsStep, CallTyped

----------------------------------------------------------------------------
(* The receipt and its operations.                                           *)

ReceiptRows ==
  [status : ReceiptStatus, revision : Nat, file : Files \cup {0}, blob : BOOLEAN,
   txn : {"active", "inactive", "moved"}]

\* Operations and handlers belong to revisions the receipt has had.
KeysPast == \A o \in Ops : Used(o) /\ op[o].receipt => op[o].key <= receipt.revision
RevsPast ==
  \A c \in Calls : call[c] # Idle /\ call[c].for \in {"attach", "undo"} =>
    call[c].rev <= receipt.revision

\* A revision has one upload and one deletion.
OnePerKey ==
  \A o, p \in Ops : Used(o) /\ Used(p) /\ op[o].receipt /\ op[p].receipt
      /\ op[o].kind = op[p].kind /\ op[o].key = op[p].key => o = p

\* Those of the revision it has are about its own attachment.
OfThisRevision ==
  \A o \in Ops : Used(o) /\ op[o].receipt /\ op[o].key = receipt.revision =>
    /\ op[o].kind = "attach" => receipt.file \in {0, op[o].file}
    /\ op[o].kind = "delete" => receipt.file = op[o].file

\* Its content goes when QuickBooks has named an attachment of its own.
ContentKnown ==
  ~receipt.blob => \E o \in Ops : Used(o) /\ op[o].receipt /\ file[op[o].file].id # 0

ReceiptInv == KeysPast /\ RevsPast /\ OnePerKey /\ OfThisRevision /\ ContentKnown

\* An attachment is given up when it is deleted.
GivenUp == receipt.file # 0 /\ receipt'.file = 0 => file[receipt.file].status = "DELETED"

LEMMA ContentStays ==
  ASSUME RowsTyped, RowsStep, ContentKnown, receipt'.blob = receipt.blob
  PROVE  ContentKnown'
<1>1. \A o \in Ops : Used(o) =>
        /\ op'[o] # NoOp /\ op'[o].file = op[o].file /\ op'[o].receipt = op[o].receipt
        /\ op[o].file \in Files
  BY OpRow DEF RowsStep
<1>2. \A f \in Files : file[f].id # 0 => file'[f].id # 0
  BY DEF RowsStep
<1> QED
  BY <1>1, <1>2 DEF ContentKnown, Used

\* The steps that leave the receipt alone and begin nothing for it.
LEMMA PlainKeeps ==
  ASSUME RowsTyped, RowsStep, ReceiptInv, UNCHANGED receipt,
         \A o \in Ops : ~Used(o) /\ op'[o] # NoOp => ~op'[o].receipt,
         RevsPast'
  PROVE  ReceiptInv'
<1>1. ContentKnown'
  BY ContentStays DEF ReceiptInv
<1>2. \A o \in Ops : Used(o)' /\ op'[o].receipt =>
        /\ Used(o) /\ op[o].receipt /\ op'[o].key = op[o].key /\ op'[o].kind = op[o].kind
        /\ op'[o].file = op[o].file
  BY DEF RowsStep, Used
<1>3. KeysPast'
  BY <1>2 DEF ReceiptInv, KeysPast
<1>4. OnePerKey'
  BY <1>2 DEF ReceiptInv, OnePerKey
<1>5. OfThisRevision'
  BY <1>2 DEF ReceiptInv, OfThisRevision
<1> QED
  BY <1>1, <1>3, <1>4, <1>5 DEF ReceiptInv

\* The steps that change the receipt and no row.
LEMMA ReceiptKeeps ==
  ASSUME RowsTyped, ReceiptTypeOK, ReceiptInv, UNCHANGED <<op, file>>,
         RevsPast', ContentKnown',
         \/ receipt'.revision = receipt.revision + 1
         \/ receipt'.revision = receipt.revision /\ OfThisRevision'
  PROVE  ReceiptInv'
<1>1. receipt.revision \in Nat
  BY DEF ReceiptTypeOK
<1>2. \A o \in Ops : Used(o) /\ op[o].receipt => op[o].key \in Nat /\ op[o].key <= receipt.revision
  BY OpRow DEF ReceiptInv, KeysPast, Operation
<1>3. KeysPast'
  BY <1>1, <1>2 DEF KeysPast, Used
<1>4. OnePerKey'
  BY DEF ReceiptInv, OnePerKey, Used
<1>5. CASE receipt'.revision = receipt.revision + 1
  <2>1. OfThisRevision'
    BY <1>1, <1>2, <1>5 DEF OfThisRevision, Used
  <2> QED
    BY <1>3, <1>4, <2>1 DEF ReceiptInv
<1>6. CASE OfThisRevision'
  BY <1>3, <1>4, <1>6 DEF ReceiptInv
<1> QED
  BY <1>5, <1>6

\* A new operation of the receipt.
LEMMA NewKeeps ==
  ASSUME RowsTyped, RowsStep, ReceiptTypeOK, ReceiptInv, UNCHANGED receipt, RevsPast',
         NEW o \in Ops, NEW kind \in {"attach", "delete"}, NEW rev \in Nat, rev <= receipt.revision,
         KeyedOp(kind, rev) = {}, \A p \in Ops : p # o => op'[p] = op[p],
         op'[o].kind = kind, op'[o].key = rev,
         rev = receipt.revision =>
           /\ kind = "attach" => receipt.file = 0
           /\ kind = "delete" => receipt.file = op'[o].file
  PROVE  ReceiptInv'
<1>1. ContentKnown'
  BY ContentStays DEF ReceiptInv
<1>2. \A p \in Ops : p # o => (Used(p)' <=> Used(p))
  BY DEF Used
<1>3. KeysPast'
  BY <1>2 DEF ReceiptInv, KeysPast
<1>4. \A p \in Ops : Used(p) /\ op[p].receipt => ~(op[p].kind = kind /\ op[p].key = rev)
  BY DEF KeyedOp, Used
<1>5. OnePerKey'
  BY <1>2, <1>4 DEF ReceiptInv, OnePerKey
<1>6. OfThisRevision'
  BY <1>2 DEF ReceiptInv, OfThisRevision
<1> QED
  BY <1>1, <1>3, <1>5, <1>6 DEF ReceiptInv

LEMMA Revised ==
  ASSUME ReceiptTypeOK, NEW r \in ReceiptRows, Revise(r)
  PROVE  /\ receipt' \in ReceiptRows /\ receipt'.revision = receipt.revision + 1
         /\ receipt'.file = r.file /\ receipt'.blob = r.blob
BY DEF ReceiptTypeOK, ReceiptRows, Revise

LEMMA StatusRow ==
  ASSUME ReceiptTypeOK, NEW status \in ReceiptStatus
  PROVE  /\ [receipt EXCEPT !.status = status] \in ReceiptRows
         /\ [receipt EXCEPT !.status = status].file = receipt.file
         /\ [receipt EXCEPT !.status = status].blob = receipt.blob
BY DEF ReceiptTypeOK, ReceiptRows

\* The receipt's status changes, or nothing does, with the revision or without it.
LEMMA StatusKeeps ==
  ASSUME RowsTyped, RowsInv, ReceiptTypeOK, ReceiptInv, UNCHANGED <<op, file>>,
         lease' \in Calls \cup {None}, RevsPast',
         \/ UNCHANGED receipt
         \/ \E status \in ReceiptStatus : Revise([receipt EXCEPT !.status = status])
  PROVE  ReceiptTypeOK' /\ ReceiptInv' /\ GivenUp
<1>1. RowsStep
  BY SameRows
<1>2. CASE UNCHANGED receipt
  <2>1. ReceiptTypeOK'
    BY <1>2 DEF ReceiptTypeOK
  <2>2. ReceiptInv'
    BY <1>1, <1>2, PlainKeeps DEF Used
  <2> QED
    BY <1>2, <2>1, <2>2 DEF GivenUp
<1>3. ASSUME NEW status \in ReceiptStatus, Revise([receipt EXCEPT !.status = status])
      PROVE  ReceiptTypeOK' /\ ReceiptInv' /\ GivenUp
  <2> DEFINE r == [receipt EXCEPT !.status = status]
  <2>1. r \in ReceiptRows /\ r.file = receipt.file /\ r.blob = receipt.blob
    BY StatusRow
  <2>2. Revise(r)
    BY <1>3
  <2> HIDE DEF r
  <2>3. /\ receipt' \in ReceiptRows /\ receipt'.revision = receipt.revision + 1
        /\ receipt'.file = receipt.file /\ receipt'.blob = receipt.blob
    BY <2>1, <2>2, Revised
  <2>4. ReceiptTypeOK'
    BY <2>3 DEF ReceiptTypeOK, ReceiptRows
  <2>5. ContentKnown'
    BY <1>1, <2>3, ContentStays DEF ReceiptInv
  <2>6. ReceiptInv'
    BY <2>3, <2>5, ReceiptKeeps
  <2> QED
    BY <2>3, <2>4, <2>6 DEF GivenUp
<1> QED
  BY <1>2, <1>3

LEMMA LeaseTyped ==
  ASSUME ReceiptTypeOK, NEW c \in Calls, Over(c)
  PROVE  lease' \in Calls \cup {None}
BY DEF Over, ReceiptTypeOK

\* What a step keeps of the receipt.
ReceiptKept == ReceiptTypeOK' /\ ReceiptInv' /\ GivenUp

\* The revision a step of a handler leaves is the one it works on, or an older one.
RevisionGrows == receipt'.revision \in Nat /\ receipt'.revision >= receipt.revision
LEMMA RevsPastGrow ==
  ASSUME NEW c \in Calls, Turn(c), ReceiptInv, CallTyped, ReceiptTypeOK, RevisionGrows,
         \/ call'[c] = Idle
         \/ call'[c].rev = receipt'.revision
         \/ call[c] # Idle /\ Keeps(c)
         \/ Plain(c)
  PROVE  RevsPast'
<1>1. receipt.revision \in Nat /\ receipt'.revision \in Nat /\ Moves(c) /\ CallTyped'
  BY DEF ReceiptTypeOK, RevisionGrows, Turn, Moves
<1>2. ASSUME NEW d \in Calls, call'[d] # Idle, call'[d].for \in {"attach", "undo"}
      PROVE  call'[d].rev <= receipt'.revision
  <2>1. call'[d].rev \in Nat
    BY <1>1, <1>2 DEF CallTyped, Working
  <2>2. CASE d = c /\ call'[c].rev = receipt'.revision
    BY <1>1, <2>2
  <2>3. CASE call[d] # Idle /\ call[d].for \in {"attach", "undo"} /\ call'[d].rev = call[d].rev
    <3>1. call[d].rev <= receipt.revision
      BY <2>3 DEF ReceiptInv, RevsPast
    <3> QED
      BY <1>1, <2>1, <2>3, <3>1 DEF RevisionGrows
  <2> QED
    BY <1>1, <1>2, <2>2, <2>3 DEF Moves, Keeps, Plain
<1> QED
  BY <1>2 DEF RevsPast

LEMMA SameRevision ==
  ASSUME ReceiptTypeOK, UNCHANGED receipt
  PROVE  RevisionGrows
BY DEF ReceiptTypeOK, RevisionGrows

LEMMA StatusGrows ==
  ASSUME ReceiptTypeOK,
         \/ UNCHANGED receipt
         \/ \E status \in ReceiptStatus : Revise([receipt EXCEPT !.status = status])
  PROVE  RevisionGrows
<1>1. CASE UNCHANGED receipt
  BY <1>1, SameRevision
<1>2. ASSUME NEW status \in ReceiptStatus, Revise([receipt EXCEPT !.status = status])
      PROVE  RevisionGrows
  <2>1. receipt'.revision = receipt.revision + 1
    BY <1>2, StatusRow, Revised
  <2> QED
    BY <2>1 DEF ReceiptTypeOK, RevisionGrows
<1> QED
  BY <1>1, <1>2

LEMMA EnterKept ==
  ASSUME RowsTyped, RowsInv, CallTyped, CallInv, ReceiptTypeOK, ReceiptInv, NEW c \in Calls,
         NEW for \in {"attach", "undo"}, Enter(c, for)
  PROVE  Turn(c) /\ ReceiptKept
<1>1. Turn(c) /\ call'[c].rev = receipt.revision
  BY EnterTurn
<1>2. UNCHANGED receipt /\ UNCHANGED <<op, file>> /\ lease' \in Calls \cup {None}
  BY DEF Enter
<1>3. RevsPast'
  BY <1>1, <1>2, SameRevision, RevsPastGrow
<1> QED
  BY <1>1, <1>2, <1>3, StatusKeeps DEF ReceiptKept

LEMMA PrepareKept ==
  ASSUME RowsTyped, RowsInv, CallTyped, CallInv, ReceiptTypeOK, ReceiptInv, NEW c \in Calls,
         PrepareAttach(c) \/ PrepareUndo(c)
  PROVE  Turn(c) /\ ReceiptKept
<1>1. Turn(c) /\ (call'[c] = Idle \/ call'[c].rev = receipt'.revision)
  BY PrepareTurn
<1>2. /\ UNCHANGED <<op, file>>
      /\ lease' \in Calls \cup {None}
  BY LeaseTyped DEF PrepareAttach, PrepareUndo, Refuse, ReceiptTypeOK
<1>3. \/ UNCHANGED receipt
      \/ \E status \in ReceiptStatus : Revise([receipt EXCEPT !.status = status])
  BY DEF PrepareAttach, PrepareUndo, Refuse, ClearStale, ReceiptStatus
<1>4. RevisionGrows
  BY <1>3, StatusGrows
<1>5. RevsPast'
  BY <1>1, <1>4, RevsPastGrow
<1> QED
  BY <1>1, <1>2, <1>3, <1>5, StatusKeeps DEF ReceiptKept

LEMMA RestoreKept ==
  ASSUME RowsTyped, RowsInv, CallTyped, CallInv, ReceiptTypeOK, ReceiptInv, NEW c \in Calls,
         Restore(c)
  PROVE  Turn(c) /\ ReceiptKept
<1>1. Turn(c) /\ call'[c] = Idle
  BY FinalTurn
<1>2. UNCHANGED <<op, file>> /\ lease' \in Calls \cup {None}
  BY LeaseTyped DEF Restore
<1>3. \/ UNCHANGED receipt
      \/ \E status \in ReceiptStatus : Revise([receipt EXCEPT !.status = status])
  <2>1. (IF call[c].for = "attach" THEN "MATCHED" ELSE "ATTACHED") \in ReceiptStatus
    BY DEF ReceiptStatus
  <2> QED
    BY <2>1 DEF Restore
<1>4. RevisionGrows
  BY <1>3, StatusGrows
<1>5. RevsPast'
  BY <1>1, <1>4, RevsPastGrow
<1> QED
  BY <1>1, <1>2, <1>3, <1>5, StatusKeeps DEF ReceiptKept

LEMMA ResumeKept ==
  ASSUME RowsTyped, RowsInv, CallTyped, CallInv, ReceiptTypeOK, ReceiptInv, NEW c \in Calls,
         Resume(c)
  PROVE  Turn(c) /\ ReceiptKept
<1>1. Turn(c) /\ Keeps(c) /\ call[c] # Idle
  BY ResumeTurn, Waits DEF Resume
<1>2. UNCHANGED receipt /\ UNCHANGED <<op, file>> /\ lease' \in Calls \cup {None}
  BY DEF Resume, ReceiptTypeOK
<1>3. RevsPast'
  BY <1>1, <1>2, SameRevision, RevsPastGrow
<1> QED
  BY <1>1, <1>2, <1>3, StatusKeeps DEF ReceiptKept

\* The steps of attachments, on the receipt.
LEMMA AttachmentKept ==
  ASSUME RowsTyped, RowsInv, CallTyped, CallInv, ReceiptTypeOK, ReceiptInv, NEW c \in Calls,
         Turn(c), Plain(c), UNCHANGED <<receipt, lease>>
  PROVE  ReceiptKept
<1>1. RevsPast'
  BY SameRevision, RevsPastGrow
<1>2. ReceiptInv'
  BY <1>1, PlainKeeps DEF Turn, Plain
<1>3. ReceiptTypeOK'
  BY DEF ReceiptTypeOK
<1> QED
  BY <1>2, <1>3 DEF ReceiptKept, GivenUp

LEMMA CreateForReceiptKept ==
  ASSUME RowsTyped, RowsInv, CallTyped, CallInv, ReceiptTypeOK, ReceiptInv, NEW c \in Calls,
         CreateForReceipt(c)
  PROVE  Turn(c) /\ ReceiptKept
<1>1. Turn(c) /\ Keeps(c)
  BY CreateForReceiptTurn
<1>2. /\ call[c] # Idle /\ call[c].rev \in Nat /\ call[c].for = "attach"
      /\ call[c].rev <= receipt.revision
  BY Waits DEF CreateForReceipt, CallFits, ReceiptInv, RevsPast
<1>3. UNCHANGED <<receipt, lease>>
  BY DEF CreateForReceipt
<1>4. RevsPast'
  BY <1>1, <1>2, <1>3, SameRevision, RevsPastGrow
<1>5. RowsStep
  BY <1>1 DEF Turn
<1>6. ReceiptInv'
  <2>1. ASSUME KeyedOp("attach", call[c].rev) = {}, receipt.file = 0,
               NEW o \in Ops, NEW f \in Files, Create(o, f, TRUE, call[c].rev)
        PROVE  ReceiptInv'
    <3>0. TRUE \in BOOLEAN /\ call[c].rev \in Nat
      BY <1>2
    <3>1. /\ RowsStep /\ ~Used(o) /\ op'[o] # NoOp
          /\ op'[o].kind = "attach" /\ op'[o].file = f /\ op'[o].receipt = TRUE
          /\ op'[o].key = call[c].rev /\ op'[o].status = "STAGED"
          /\ \A p \in Ops : p # o => op'[p] = op[p]
      BY <3>0, <2>1, CreateStep, Zenon
    <3> QED
      BY <1>2, <1>3, <1>4, <1>5, <2>1, <3>1, NewKeeps
  <2>2. CASE UNCHANGED op
    BY <1>3, <1>4, <1>5, <2>2, PlainKeeps DEF Used
  <2> QED
    BY <2>1, <2>2 DEF CreateForReceipt
<1>7. ReceiptTypeOK'
  BY <1>3 DEF ReceiptTypeOK
<1> QED
  BY <1>1, <1>3, <1>6, <1>7 DEF ReceiptKept, GivenUp

LEMMA ReserveForReceiptKept ==
  ASSUME RowsTyped, RowsInv, CallTyped, CallInv, ReceiptTypeOK, ReceiptInv, NEW c \in Calls,
         ReserveForReceipt(c)
  PROVE  Turn(c) /\ ReceiptKept
<1>1. Turn(c) /\ Keeps(c)
  BY ReserveForReceiptTurn
<1>2. /\ call[c] # Idle /\ call[c].rev \in Nat /\ call[c].for = "undo"
      /\ call[c].rev <= receipt.revision /\ call[c].file \in Files
  BY Waits DEF ReserveForReceipt, Waiting, CallFits, ReceiptInv, RevsPast
<1>3. UNCHANGED <<receipt, lease>>
  BY DEF ReserveForReceipt
<1>4. RevsPast'
  BY <1>1, <1>2, <1>3, SameRevision, RevsPastGrow
<1>5. RowsStep
  BY <1>1 DEF Turn
<1>6. ReceiptInv'
  <2>1. ASSUME KeyedOp("delete", call[c].rev) = {}, receipt.file = call[c].file,
               NEW o \in Ops, Reserve(o, call[c].file, TRUE, call[c].rev)
        PROVE  ReceiptInv'
    <3>0. TRUE \in BOOLEAN /\ call[c].rev \in Nat /\ call[c].file \in Files
      BY <1>2
    <3>1. /\ RowsStep /\ ~Used(o) /\ op'[o] # NoOp
          /\ op'[o].kind = "delete" /\ op'[o].file = call[c].file /\ op'[o].receipt = TRUE
          /\ op'[o].key = call[c].rev /\ op'[o].status = "DELETING"
          /\ \A p \in Ops : p # o => op'[p] = op[p]
      BY <3>0, <2>1, ReserveStep, Zenon
    <3> QED
      BY <1>2, <1>3, <1>4, <1>5, <2>1, <3>1, NewKeeps
  <2>2. CASE UNCHANGED op
    BY <1>3, <1>4, <1>5, <2>2, PlainKeeps DEF Used
  <2> QED
    BY <2>1, <2>2 DEF ReserveForReceipt
<1>7. ReceiptTypeOK'
  BY <1>3 DEF ReceiptTypeOK
<1> QED
  BY <1>1, <1>3, <1>6, <1>7 DEF ReceiptKept, GivenUp

LEMMA FinalizeAttachKept ==
  ASSUME RowsTyped, RowsInv, CallTyped, CallInv, ReceiptTypeOK, ReceiptInv, NEW c \in Calls,
         FinalizeAttach(c)
  PROVE  Turn(c) /\ ReceiptKept
<1> DEFINE o == MyOp(c)
           f == op[o].file
           status == Attached(call[c].result)
           r == [receipt EXCEPT !.status = status, !.file = IF status = "MATCHED" THEN @ ELSE f,
                                !.blob = IF status = "ATTACHED" THEN RetainLocally /\ @ ELSE @]
<1>1. Turn(c) /\ call'[c] = Idle
  BY FinalTurn
<1>2. /\ Waiting(c, "returned") /\ call[c].for = "attach" /\ call[c].result \notin {"threw", "busy"}
      /\ UNCHANGED <<op, file>> /\ lease' \in Calls \cup {None}
  BY LeaseTyped DEF FinalizeAttach
<1>3. /\ call[c] # Idle /\ CallFits(c) /\ call[c].at = "returned"
  BY <1>2, Waits
<1>4. /\ Used(o) /\ o \in Ops /\ op[o].receipt /\ op[o].key = call[c].rev /\ op[o].kind = "attach"
      /\ call[c].result = "VERIFIED" => file[f].id # 0
  <2>1. Used(o) /\ (call[c].result = "VERIFIED" => file[f].id # 0)
    BY <1>2, <1>3 DEF CallFits, ResultHolds, MyOp
  <2>2. call[c].op # 0
    BY <2>1 DEF Used, Ops, MyOp
  <2>3. KeyHolds(c)
    BY <1>3 DEF CallFits
  <2> QED
    BY <1>2, <2>1, <2>2, <2>3 DEF KeyHolds, KindFor, MyOp, Used
<1>5. f \in Files /\ f # 0
  BY <1>4, OpRow DEF Files
<1>6. /\ status \in ReceiptStatus
      /\ status = "ATTACHED" => call[c].result = "VERIFIED"
  BY DEF Attached, ReceiptStatus
<1>7. receipt \in ReceiptRows
  BY DEF ReceiptTypeOK, ReceiptRows
<1> HIDE DEF status, f, o
<1>8. /\ r \in ReceiptRows /\ r.status = status
      /\ r.file = IF status = "MATCHED" THEN receipt.file ELSE f
      /\ r.blob = receipt.blob \/ status = "ATTACHED"
      /\ r.revision = receipt.revision
  BY <1>5, <1>6, <1>7, BoundsAssumption DEF ReceiptRows
<1> HIDE DEF r
<1>9. CASE UNCHANGED receipt
  BY <1>1, <1>2, <1>9, SameRevision, RevsPastGrow, StatusKeeps DEF ReceiptKept
<1>10. CASE StillMine(c) /\ ((receipt' = r /\ status = "ATTACHING") \/ Revise(r))
  <2>1. /\ receipt' \in ReceiptRows /\ receipt'.file = r.file /\ receipt'.blob = r.blob
        /\ \/ receipt'.revision = receipt.revision + 1
           \/ receipt'.revision = receipt.revision /\ status = "ATTACHING"
    BY <1>8, <1>10, Revised
  <2>2. ReceiptTypeOK' /\ RevisionGrows
    BY <1>2, <2>1 DEF ReceiptTypeOK, ReceiptRows, RevisionGrows
  <2>3. RevsPast'
    BY <1>1, <2>2, RevsPastGrow
  <2>4. ContentKnown'
    <3>1. CASE receipt'.blob = receipt.blob
      BY <1>1, <3>1, ContentStays DEF ReceiptInv, Turn
    <3>2. CASE status = "ATTACHED"
      <4>1. op' = op /\ file' = file /\ file[op[o].file].id # 0
        BY <1>2, <1>4, <1>6, <3>2 DEF f
      <4> QED
        BY <1>4, <4>1 DEF ContentKnown, Used
    <3> QED
      BY <1>8, <2>1, <3>1, <3>2
  <2>5. receipt'.revision = receipt.revision => OfThisRevision'
    <3> SUFFICES ASSUME receipt'.revision = receipt.revision PROVE OfThisRevision'
      OBVIOUS
    <3>1. receipt'.file = f /\ op[o].key = receipt.revision
      <4>1. receipt.revision \in Nat
        BY DEF ReceiptTypeOK
      <4> QED
        BY <1>4, <1>8, <1>10, <2>1, <4>1 DEF StillMine
    <3>2. receipt.file \in {0, f}
      BY <1>4, <3>1 DEF ReceiptInv, OfThisRevision, f
    <3>3. ASSUME NEW p \in Ops, Used(p), op[p].receipt, op[p].key = receipt.revision
          PROVE  op[p].file = f
      <4>1. op[p].kind \in {"attach", "delete"} /\ op[p].file \in Files /\ op[p].file # 0
        BY <3>3, OpRow DEF Files
      <4>2. CASE op[p].kind = "attach"
        <5>1. p = o
          BY <1>4, <3>1, <3>3, <4>2 DEF ReceiptInv, OnePerKey
        <5> QED
          BY <5>1 DEF f
      <4>3. CASE op[p].kind = "delete"
        BY <3>2, <3>3, <4>1, <4>3 DEF ReceiptInv, OfThisRevision
      <4> QED
        BY <4>1, <4>2, <4>3
    <3> QED
      BY <1>2, <3>1, <3>3 DEF OfThisRevision, Used
  <2>6. ReceiptInv'
    BY <1>2, <2>1, <2>3, <2>4, <2>5, ReceiptKeeps
  <2>7. GivenUp
    BY <1>5, <1>8, <2>1 DEF GivenUp
  <2> QED
    BY <1>1, <2>2, <2>6, <2>7 DEF ReceiptKept
<1> QED
  BY <1>9, <1>10 DEF FinalizeAttach, r, status, f, o

LEMMA FinalizeUndoKept ==
  ASSUME RowsTyped, RowsInv, CallTyped, CallInv, ReceiptTypeOK, ReceiptInv, NEW c \in Calls,
         FinalizeUndo(c)
  PROVE  Turn(c) /\ ReceiptKept
<1> DEFINE o == MyOp(c)
           status == Undone(call[c].result)
           r == [receipt EXCEPT !.status = status, !.file = IF status = "MATCHED" THEN 0 ELSE @]
<1>1. Turn(c) /\ call'[c] = Idle
  BY FinalTurn
<1>2. /\ Waiting(c, "returned") /\ call[c].for = "undo" /\ call[c].result \notin {"threw", "busy"}
      /\ UNCHANGED <<op, file>> /\ lease' \in Calls \cup {None}
  BY LeaseTyped DEF FinalizeUndo
<1>3. /\ call[c] # Idle /\ CallFits(c) /\ call[c].at = "returned"
  BY <1>2, Waits
<1>4. /\ Used(o) /\ o \in Ops /\ op[o].receipt /\ op[o].key = call[c].rev /\ op[o].kind = "delete"
      /\ call[c].result = "DELETED" => file[op[o].file].status = "DELETED"
  <2>1. Used(o) /\ (call[c].result = "DELETED" => file[op[o].file].status = "DELETED")
    BY <1>2, <1>3 DEF CallFits, ResultHolds, MyOp
  <2>2. call[c].op # 0
    BY <2>1 DEF Used, Ops, MyOp
  <2>3. KeyHolds(c)
    BY <1>3 DEF CallFits
  <2> QED
    BY <1>2, <2>1, <2>2, <2>3 DEF KeyHolds, KindFor, MyOp, Used
<1>5. /\ status \in ReceiptStatus
      /\ status = "MATCHED" => call[c].result = "DELETED"
  BY DEF Undone, ReceiptStatus
<1>6. receipt \in ReceiptRows
  BY DEF ReceiptTypeOK, ReceiptRows
<1> HIDE DEF status, o
<1>7. /\ r \in ReceiptRows /\ r.status = status
      /\ r.file = IF status = "MATCHED" THEN 0 ELSE receipt.file
      /\ r.blob = receipt.blob /\ r.revision = receipt.revision
  BY <1>5, <1>6 DEF ReceiptRows
<1> HIDE DEF r
<1>8. CASE UNCHANGED receipt
  BY <1>1, <1>2, <1>8, SameRevision, RevsPastGrow, StatusKeeps DEF ReceiptKept
<1>9. CASE StillMine(c) /\ ((receipt' = r /\ status = "ATTACHING") \/ Revise(r))
  <2>1. /\ receipt' \in ReceiptRows /\ receipt'.file = r.file /\ receipt'.blob = r.blob
        /\ \/ receipt'.revision = receipt.revision + 1
           \/ receipt'.revision = receipt.revision /\ status = "ATTACHING"
    BY <1>7, <1>9, Revised
  <2>2. ReceiptTypeOK' /\ RevisionGrows
    BY <1>2, <2>1 DEF ReceiptTypeOK, ReceiptRows, RevisionGrows
  <2>3. RevsPast'
    BY <1>1, <2>2, RevsPastGrow
  <2>4. ContentKnown'
    BY <1>1, <1>7, <2>1, ContentStays DEF ReceiptInv, Turn
  <2>5. receipt'.revision = receipt.revision => OfThisRevision'
    <3> SUFFICES ASSUME receipt'.revision = receipt.revision PROVE OfThisRevision'
      OBVIOUS
    <3>1. receipt.revision \in Nat
      BY DEF ReceiptTypeOK
    <3>2. receipt'.file = receipt.file
      BY <1>7, <2>1, <3>1
    <3> QED
      BY <1>2, <3>2 DEF ReceiptInv, OfThisRevision, Used
  <2>6. ReceiptInv'
    BY <1>2, <2>1, <2>3, <2>4, <2>5, ReceiptKeeps
  <2>7. GivenUp
    <3> SUFFICES ASSUME receipt.file # 0, receipt'.file = 0
                 PROVE  file[receipt.file].status = "DELETED"
      BY DEF GivenUp
    <3>1. call[c].result = "DELETED"
      BY <1>5, <1>7, <2>1
    <3>2. receipt.file = op[o].file
      BY <1>4, <1>9 DEF StillMine, ReceiptInv, OfThisRevision
    <3> QED
      BY <1>4, <3>1, <3>2
  <2> QED
    BY <1>1, <2>2, <2>6, <2>7 DEF ReceiptKept
<1> QED
  BY <1>8, <1>9 DEF FinalizeUndo, r, status, o

\* Matches, and the transaction of the receipt.
LEMMA MatchKept ==
  ASSUME RowsTyped, RowsInv, CallTyped, CallInv, ReceiptTypeOK, ReceiptInv, Match
  PROVE  ReceiptKept
<1>1. UNCHANGED <<op, file, call, lease>> /\ receipt.file = 0
  BY DEF Match
<1>2. PICK status \in {"READY", "MATCHED"} :
        Revise([receipt EXCEPT !.status = status,
                               !.txn = IF status = "MATCHED" THEN "active" ELSE @])
  BY DEF Match
<1> DEFINE r == [receipt EXCEPT !.status = status,
                                !.txn = IF status = "MATCHED" THEN "active" ELSE @]
<1>3. r \in ReceiptRows /\ r.file = receipt.file /\ r.blob = receipt.blob
  BY DEF ReceiptTypeOK, ReceiptRows, ReceiptStatus
<1>4. Revise(r)
  BY <1>2
<1> HIDE DEF r
<1>5. /\ receipt' \in ReceiptRows /\ receipt'.revision = receipt.revision + 1
      /\ receipt'.file = receipt.file /\ receipt'.blob = receipt.blob
  BY <1>3, <1>4, Revised
<1>6. ReceiptTypeOK' /\ receipt.revision \in Nat
  BY <1>1, <1>5 DEF ReceiptTypeOK, ReceiptRows
<1>7. RevsPast'
  <2>1. \A d \in Calls : call[d] # Idle => call[d].rev \in Nat
    BY DEF CallTyped, Working
  <2> QED
    BY <1>1, <1>5, <1>6, <2>1 DEF ReceiptInv, RevsPast
<1>8. ContentKnown'
  BY <1>1, <1>5, SameRows, ContentStays DEF ReceiptInv
<1>9. ReceiptInv'
  BY <1>1, <1>5, <1>7, <1>8, ReceiptKeeps
<1> QED
  BY <1>1, <1>6, <1>9 DEF ReceiptKept, GivenUp

LEMMA MoveTransactionKept ==
  ASSUME RowsTyped, RowsInv, CallTyped, CallInv, ReceiptTypeOK, ReceiptInv, MoveTransaction
  PROVE  ReceiptKept
<1>1. /\ UNCHANGED <<op, file, call, lease>>
      /\ \E txn \in {"active", "inactive", "moved"} : receipt' = [receipt EXCEPT !.txn = txn]
  BY DEF MoveTransaction
<1>2. /\ ReceiptTypeOK' /\ receipt'.revision = receipt.revision /\ receipt'.file = receipt.file
      /\ receipt'.blob = receipt.blob
  BY <1>1 DEF ReceiptTypeOK
<1>3. RevsPast'
  BY <1>1, <1>2 DEF ReceiptInv, RevsPast
<1>4. ContentKnown'
  BY <1>1, <1>2, SameRows, ContentStays DEF ReceiptInv
<1>5. OfThisRevision'
  BY <1>1, <1>2 DEF ReceiptInv, OfThisRevision, Used
<1>6. ReceiptInv'
  BY <1>1, <1>2, <1>3, <1>4, <1>5, ReceiptKeeps
<1> QED
  BY <1>2, <1>6 DEF ReceiptKept, GivenUp

\* Where neither the receipt nor its handlers change.
LEMMA AsideKept ==
  ASSUME RowsTyped, RowsInv, ReceiptTypeOK, ReceiptInv, UNCHANGED <<op, file, call, receipt>>,
         lease' \in Calls \cup {None}
  PROVE  ReceiptKept
<1>1. RevsPast'
  BY DEF ReceiptInv, RevsPast
<1> QED
  BY <1>1, StatusKeeps DEF ReceiptKept

\* What QuickBooks holds and has been sent.
LEMMA QuickBooksKept ==
  ASSUME RowsTyped, CallTyped, CallInv, QuickBooksTyped, AttachmentNext
  PROVE  QuickBooksTyped'
<1>1. ASSUME NEW c \in Calls, Upload(c) PROVE QuickBooksTyped'
  <2>1. Waiting(c, "send") /\ UNCHANGED <<copies, made>>
    BY <1>1 DEF Upload
  <2>2. MyFile(c) \in Files
    BY <2>1, Waits, OpRow DEF UploadStops, OpStops, MyFile, MyOp
  <2>3. [kind |-> "upload", by |-> c, file |-> MyFile(c), id |-> 0] \in Request
    BY <2>2 DEF Request
  <2> QED
    BY <1>1, <2>1, <2>3 DEF Upload, QuickBooksTyped
<1>2. ASSUME NEW c \in Calls, Delete(c) PROVE QuickBooksTyped'
  <2>1. Waiting(c, "delete") /\ UNCHANGED <<copies, made>>
    BY <1>2 DEF Delete
  <2>2. MyFile(c) \in Files
    BY <2>1, Waits, OpRow DEF DeleteStops, GuardStops, OpStops, MyFile, MyOp
  <2>3. file[MyFile(c)].id \in copies[MyFile(c)] =>
          [kind |-> "delete", by |-> c, file |-> MyFile(c), id |-> file[MyFile(c)].id] \in Request
    BY <2>2 DEF Request, QuickBooksTyped
  <2> QED
    BY <1>2, <2>1, <2>3 DEF Delete, QuickBooksTyped
<1>3. ASSUME NEW c \in Calls, UploadRefused(c) PROVE QuickBooksTyped'
  BY <1>3 DEF UploadRefused, QuickBooksTyped
<1>4. ASSUME NEW r \in wire, Land(r) PROVE QuickBooksTyped'
  <2>1. r.file \in Files
    BY RequestRow
  <2>2. made[r.file] < MaxUploads => made[r.file] + 1 \in Copies /\ made[r.file] + 1 \in 0..MaxUploads
    BY <2>1, NextCopy
  <2>3. wire' \subseteq Request
    BY <1>4 DEF Land, QuickBooksTyped
  <2>4. made' \in [Files -> 0..MaxUploads]
    BY <1>4, <2>1, <2>2 DEF Land, QuickBooksTyped
  <2>5. copies' \in [Files -> SUBSET Copies]
    BY <1>4, <2>1, <2>2 DEF Land, QuickBooksTyped
  <2> QED
    BY <2>3, <2>4, <2>5 DEF QuickBooksTyped
<1>5. ASSUME NEW r \in wire, Lose(r) PROVE QuickBooksTyped'
  BY <1>5 DEF Lose, QuickBooksTyped
<1>6. ASSUME RemoveInQuickBooks PROVE QuickBooksTyped'
  BY <1>6 DEF RemoveInQuickBooks, QuickBooksTyped
<1>7. ASSUME UNCHANGED <<copies, made, wire>> PROVE QuickBooksTyped'
  BY <1>7 DEF QuickBooksTyped
<1>8. ASSUME NEW c \in Calls, AttachmentStep(c) PROVE QuickBooksTyped'
  BY <1>1, <1>2, <1>3, <1>7, <1>8
  DEF AttachmentStep, Dispatch, UploadTimesOut, RecordUpload, UpdateAggregate, DeleteFails, Verify,
      Remove, Reconcile, Look, Record, RefreshWrite
<1>9. ASSUME NEW c \in Calls, AttachmentStart(c) PROVE QuickBooksTyped'
  BY <1>7, <1>9
  DEF AttachmentStart, PersonAttach, PersonDelete, Retry, PersonReconcile, RefreshRead, Recover
<1>10. ASSUME NEW c \in Calls, Crash(c) PROVE QuickBooksTyped'
  BY <1>7, <1>10 DEF Crash
<1> QED
  BY <1>4, <1>5, <1>6, <1>8, <1>9, <1>10 DEF AttachmentNext

----------------------------------------------------------------------------
(* The invariant, and the theorems.                                          *)

Inv == TypeOK /\ RowsInv /\ CallInv /\ ReceiptInv

LEMMA InvParts ==
  ASSUME TypeOK
  PROVE  RowsTyped /\ CallTyped /\ QuickBooksTyped /\ ReceiptTypeOK
BY DEF TypeOK, AttachmentTypeOK, RowsTyped, CallTyped, QuickBooksTyped

LEMMA NextKeeps ==
  ASSUME Inv, Next
  PROVE  Inv' /\ GivenUp
<1>1. /\ RowsTyped /\ RowsInv /\ CallTyped /\ CallInv /\ QuickBooksTyped /\ ReceiptTypeOK
      /\ ReceiptInv /\ mix \in Mixes
  BY InvParts DEF Inv, TypeOK, AttachmentTypeOK
<1>2. mix' \in Mixes
  BY <1>1 DEF Next, AttachmentNext
<1>3. QuickBooksTyped'
  <2>1. CASE AttachmentNext
    BY <1>1, <2>1, QuickBooksKept
  <2>2. CASE ReceiptNext
    BY <1>1, <2>2
    DEF ReceiptNext, ReceiptStep, PrepareAttach, PrepareUndo, CreateForReceipt, ReserveForReceipt,
        Resume, FinalizeAttach, FinalizeUndo, Restore, Enter, Match, MoveTransaction, Expire,
        QuickBooksTyped
  <2> QED
    BY <2>1, <2>2 DEF Next
<1>4. RowsTyped' /\ RowsInv' /\ CallTyped' /\ CallInv' /\ ReceiptKept
  <2>1. ASSUME NEW c \in Calls, Turn(c), ReceiptKept
        PROVE  RowsTyped' /\ RowsInv' /\ CallTyped' /\ CallInv' /\ ReceiptKept
    BY <1>1, <2>1, TurnKeeps
  <2>2. ASSUME UNCHANGED <<op, file, call>>, ReceiptKept
        PROVE  RowsTyped' /\ RowsInv' /\ CallTyped' /\ CallInv' /\ ReceiptKept
    BY <1>1, <2>2, OutsideKeeps
  <2>3. CASE AttachmentNext /\ UNCHANGED <<receipt, lease>>
    <3>1. ASSUME NEW c \in Calls, AttachmentStep(c) \/ AttachmentStart(c) \/ Crash(c)
          PROVE  Turn(c) /\ ReceiptKept
      BY <1>1, <2>3, <3>1, AttachmentTurn, AttachmentKept
    <3>2. ASSUME NEW r \in wire, Land(r)
          PROVE  r.by \in Calls /\ Turn(r.by) /\ ReceiptKept
      <4>1. r.by \in Calls /\ Turn(r.by) /\ Plain(r.by)
        BY <1>1, <3>2, LandTurn, RequestRow
      <4> QED
        BY <1>1, <2>3, <4>1, AttachmentKept
    <3>3. CASE RemoveInQuickBooks \/ \E r \in wire : Lose(r)
      <4>1. UNCHANGED <<op, file, call, receipt>> /\ lease' \in Calls \cup {None}
        BY <1>1, <2>3, <3>3 DEF RemoveInQuickBooks, Lose, ReceiptTypeOK
      <4> QED
        BY <1>1, <2>2, <4>1, AsideKept
    <3> QED
      BY <2>1, <2>3, <3>1, <3>2, <3>3 DEF AttachmentNext
  <2>4. CASE ReceiptNext
    <3>1. ASSUME NEW c \in Calls, ReceiptStep(c) PROVE Turn(c) /\ ReceiptKept
      BY <1>1, <3>1, PrepareKept, CreateForReceiptKept, ReserveForReceiptKept, ResumeKept,
         FinalizeAttachKept, FinalizeUndoKept, RestoreKept
      DEF ReceiptStep
    <3>2. ASSUME NEW c \in Calls, NEW for \in {"attach", "undo"}, Enter(c, for)
          PROVE  Turn(c) /\ ReceiptKept
      BY <1>1, <3>2, EnterKept
    <3>3. CASE Match
      BY <1>1, <2>2, <3>3, MatchKept DEF Match
    <3>4. CASE MoveTransaction
      BY <1>1, <2>2, <3>4, MoveTransactionKept DEF MoveTransaction
    <3>5. CASE Expire
      BY <1>1, <2>2, <3>5, AsideKept DEF Expire
    <3> QED
      BY <2>1, <2>4, <3>1, <3>2, <3>3, <3>4, <3>5 DEF ReceiptNext
  <2> QED
    BY <2>3, <2>4 DEF Next
<1> QED
  BY <1>2, <1>3, <1>4
  DEF Inv, TypeOK, AttachmentTypeOK, RowsTyped, CallTyped, QuickBooksTyped, ReceiptKept

LEMMA StutterKeeps ==
  ASSUME Inv, UNCHANGED vars
  PROVE  Inv' /\ GivenUp
<1>1. /\ RowsTyped /\ RowsInv /\ CallTyped /\ CallInv /\ ReceiptTypeOK /\ ReceiptInv
  BY InvParts DEF Inv
<1>2. /\ UNCHANGED <<op, file, call, receipt>> /\ lease' \in Calls \cup {None}
      /\ UNCHANGED <<copies, made, wire, mix>>
  BY <1>1 DEF vars, attachmentVars, ReceiptTypeOK
<1>3. RowsInv' /\ CallInv' /\ ReceiptKept
  BY <1>1, <1>2, OutsideKeeps, AsideKept
<1>4. AttachmentTypeOK'
  BY <1>2 DEF Inv, TypeOK, AttachmentTypeOK
<1> QED
  BY <1>3, <1>4 DEF Inv, TypeOK, ReceiptKept

LEMMA InitHolds == Init => Inv
<1> SUFFICES ASSUME Init PROVE Inv
  OBVIOUS
<1>1. \A o \in Ops : op[o] = NoOp
  BY DEF Init, AttachmentInit
<1>2. \A f \in Files : file[f] = NoFile
  BY DEF Init, AttachmentInit
<1>3. \A c \in Calls : call[c] = Idle
  BY DEF Init, AttachmentInit
<1>4. NoFile \in Attachment /\ NoFile.status = "none"
  BY DEF NoFile, Attachment
<1>5. AttachmentTypeOK
  BY <1>4, BoundsAssumption DEF Init, AttachmentInit, AttachmentTypeOK
<1>6. ReceiptTypeOK
  BY DEF Init, ReceiptTypeOK, ReceiptStatus
<1>7. RowsInv
  BY <1>1, <1>2, <1>4 DEF RowsInv, Used, FileHeld, Busy
<1>8. CallInv
  BY <1>3, IdleIsNotWorking
  DEF CallInv, CallFits, Guards, GuardStops, DeleteStops, ReconcileStops
<1>9. ReceiptInv
  <2>1. receipt.blob
    BY DEF Init
  <2> QED
    BY <1>1, <1>3, <2>1
    DEF ReceiptInv, KeysPast, RevsPast, OnePerKey, OfThisRevision, ContentKnown, Used
<1> QED
  BY <1>5, <1>6, <1>7, <1>8, <1>9 DEF Inv, TypeOK

LEMMA Inductive == Spec => []Inv
<1>1. Inv /\ [Next]_vars => Inv'
  BY NextKeeps, StutterKeeps
<1> QED
  BY <1>1, InitHolds, PTL DEF Spec

\* Every variable keeps its type, the bounds included.
THEOREM TypeCorrect == Spec => []TypeOK
<1>1. Inv => TypeOK
  BY DEF Inv
<1> QED
  BY <1>1, Inductive, PTL

\* However its handlers interleave and die, an attachment that is busy has an operation
\* that is busy with it and can be retried, reconciled or recovered.
THEOREM BusyFilesHaveOperations == Spec => []BusyFileHasOperation
<1>1. Inv => BusyFileHasOperation
  <2> SUFFICES ASSUME Inv, NEW f \in Files, file[f].status \in Busy
               PROVE  \E o \in OpsOf(f) : Unsettled(o)
    BY DEF BusyFileHasOperation
  <2>1. PICK o \in Ops : Used(o) /\ op[o].file = f /\ op[o].status \in BusyOp
    BY DEF Inv, RowsInv, FileHeld
  <2>2. OpFits(o)
    BY <2>1 DEF Inv, RowsInv
  <2> QED
    BY <2>1, <2>2 DEF OpFits, OpsOf, Unsettled, Used, OpenRows, BusyOp
<1> QED
  BY <1>1, Inductive, PTL

\* Content goes only when QuickBooks has named the file or the attachment was deleted,
\* and a receipt's own only when QuickBooks has named an attachment made for it.
THEOREM ContentStaysUntilUploaded == Spec => []ContentIsKept
<1>1. Inv => ContentIsKept
  <2> SUFFICES ASSUME Inv PROVE ContentIsKept
    OBVIOUS
  <2>1. ReleasedWasUploaded
    BY DEF Inv, RowsInv, FileHeld, ReleasedWasUploaded
  <2>2. ASSUME ~receipt.blob
        PROVE  \E f \in Files : file[f].id # 0 /\ \E o \in OpsOf(f) : op[o].receipt
    <3>1. PICK o \in Ops : Used(o) /\ op[o].receipt /\ file[op[o].file].id # 0
      BY <2>2 DEF Inv, ReceiptInv, ContentKnown
    <3>2. op[o].file \in Files
      BY <3>1, OpRow, InvParts DEF Inv
    <3> QED
      BY <3>1, <3>2 DEF OpsOf, Used
  <2> QED
    BY <2>1, <2>2 DEF ContentIsKept
<1> QED
  BY <1>1, Inductive, PTL

\* A receipt gives its attachment up only when that is deleted.
THEOREM UndoneReceiptsAreGone == Spec => UndoneIsGone
<1>1. Inv /\ [Next]_vars =>
        (receipt.file # 0 /\ receipt'.file = 0 => file[receipt.file].status = "DELETED")
  BY NextKeeps, StutterKeeps DEF GivenUp
<1> QED
  BY <1>1, Inductive, PTL DEF Spec, UndoneIsGone
=============================================================================
