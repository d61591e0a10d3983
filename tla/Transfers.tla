----------------------------- MODULE Transfers -----------------------------
(* A transfer between two bank accounts recategorizes two QuickBooks entities *)
(* (its legs): server/src/services/transferOperations.ts prepares it,         *)
(* transferExecution.ts commits it leg by leg, reconciles a leg whose request *)
(* may have left, and retries a transfer that stopped half-way.               *)
(*                                                                            *)
(* A call runs under the leases of both entities (EntityLease, reduced here   *)
(* to one row).  Every transaction of the code starts with a fence on them    *)
(* and is one step; every request to QuickBooks is a step of its own.  While  *)
(* a call waits for QuickBooks a heartbeat renews the leases and touches the  *)
(* attempt.                                                                   *)
(*                                                                            *)
(* Time: `quiet` holds the attempts last touched at least the quiescence      *)
(* period ago (60 s).  The code relies on a request leaving the server and    *)
(* being applied within that period of the last touch in front of it, "a      *)
(* quiet window for a timed-out or lease-orphaned request to land".           *)
EXTENDS Integers, FiniteSets

CONSTANTS
  Calls,        \* invocations that may overlap
  Ops,          \* operation ids; a retry is an operation with a parent
  None,         \* no operation, no holder
  Kinds,        \* the operations that occur
  MaxRevision,  \* bound: how often a row is staged
  MaxToken,     \* bound: QuickBooks edits stop at this SyncToken
  Switch,       \* bound: the positions the dry-run switch takes
  LongStalls    \* whether a call may miss its heartbeats for two leases on end

AllKinds == {"prepare", "commit", "retry"}

ASSUME NoneAssumption == None \notin Calls \cup Ops
ASSUME KindsAssumption == Kinds \subseteq AllKinds
ASSUME BoundsAssumption ==
  /\ MaxRevision \in Nat \ {0} /\ MaxToken \in Nat \ {0}
  /\ Switch \subseteq BOOLEAN /\ LongStalls \in BOOLEAN

Legs == {1, 2}
Requests == Ops \X Legs      \* the request id of a leg is that of its attempt

VARIABLES
  row,      \* row[i]: status, revision and SyncToken of the transaction of leg i
  op,       \* op[o]: whether it exists, its parent, whether it has expired
  attempt,  \* attempt[<<o, i>>]: the attempt that o created for leg i
  qbo,      \* qbo[i]: content and SyncToken of the entity of leg i
  wire,     \* requests sent and not yet processed
  landed,   \* requests QuickBooks has applied
  sends,    \* sends[r]: how often r was sent
  quiet,    \* attempts not touched during the quiescence period
  lease,    \* both lease rows: holder, and whether they have time left
  dryRun,   \* company.dryRun || envDryRun
  pc,       \* pc[c]: the step call c takes next
  job,      \* job[c]: what it is about, and what it has loaded
  lost      \* the calls whose heartbeat has failed

dbVars == <<row, op, attempt, quiet>>
qboVars == <<qbo, wire, landed, sends>>
vars == <<row, op, attempt, qbo, wire, landed, sends, quiet, lease, dryRun, pc, job, lost>>

RowStatus == {"PENDING", "POSTED", "ERROR", "DRY_RUN"}
AttemptStatus == {"NONE", "PREPARED", "COMMITTING", "UNCERTAIN", "VERIFIED",
                  "UNCHANGED", "RETRYABLE", "DRY_RUN"}
Active == {"PREPARED", "COMMITTING", "UNCERTAIN"}
Unresolved == {"COMMITTING", "UNCERTAIN"}
Finished == {"VERIFIED", "DRY_RUN"}
Steps == {"idle", "acquire", "release", "check", "prepare", "insert",
          "begin", "expire", "dryBoth", "leg", "park", "dry", "read", "claim", "refresh",
          "recheck", "reprove", "strict", "undry", "unclaim", "send", "sent", "accept",
          "readback", "verify", "uncertain", "next",
          "rload", "rread", "rverify", "runchanged"}
\* Where the heartbeat of a sender, of a reconciliation runs.
Sending == {"recheck", "reprove", "strict", "send", "sent", "accept", "readback", "verify"}
Recovering == {"rread", "rverify", "runchanged"}

NoAttempt == [status |-> "NONE", rev |-> 0, token |-> 0, new |-> 0, response |-> FALSE]
NoOp == [made |-> FALSE, parent |-> None, expired |-> FALSE]
NoSight == [i \in Legs |-> [status |-> "NONE", row |-> "PENDING", rev |-> 0, token |-> 0]]
NoJob == [kind |-> "commit", o |-> None, parent |-> None, i |-> 1,
          quiet |-> FALSE, response |-> FALSE, status |-> "NONE", token |-> 0, seen |-> NoSight]

TypeOK ==
  /\ row \in [Legs -> [status : RowStatus, rev : 1 .. MaxRevision, token : Nat]]
  /\ op \in [Ops -> [made : BOOLEAN, parent : Ops \cup {None}, expired : BOOLEAN]]
  /\ attempt \in [Requests -> [status : AttemptStatus, rev : 0 .. MaxRevision, token : Nat,
                                new : Nat, response : BOOLEAN]]
  /\ qbo \in [Legs -> [content : {"held", "moved", "elsewhere"}, token : Nat]]
  /\ wire \subseteq Requests /\ landed \subseteq Requests /\ quiet \subseteq Requests
  /\ sends \in [Requests -> 0 .. 1]
  /\ lease \in [holder : Calls \cup {None}, live : BOOLEAN]
  /\ dryRun \in BOOLEAN
  /\ pc \in [Calls -> Steps]
  /\ job \in [Calls -> [kind : AllKinds, o : Ops \cup {None}, parent : Ops \cup {None},
                        i : Legs, quiet : BOOLEAN, response : BOOLEAN, status : AttemptStatus,
                        token : Nat,
                        seen : [Legs -> [status : AttemptStatus, row : RowStatus,
                                         rev : 0 .. MaxRevision, token : Nat]]]]
  /\ lost \subseteq Calls

\* Two rows of opposite amounts wait on the holding account.
Init ==
  /\ row = [i \in Legs |-> [status |-> "PENDING", rev |-> 1, token |-> 1]]
  /\ op = [o \in Ops |-> NoOp]
  /\ attempt = [r \in Requests |-> NoAttempt]
  /\ qbo = [i \in Legs |-> [content |-> "held", token |-> 1]]
  /\ wire = {} /\ landed = {} /\ quiet = {}
  /\ sends = [r \in Requests |-> 0]
  /\ lease = [holder |-> None, live |-> FALSE]
  /\ dryRun = FALSE
  /\ pc = [c \in Calls |-> "idle"]
  /\ job = [c \in Calls |-> NoJob]
  /\ lost = {}

----------------------------------------------------------------------------
(* Shared pieces.                                                            *)

Go(c, p) == pc' = [pc EXCEPT ![c] = p]

\* c returns or throws: its heartbeat stops, the release of the leases is left.
Leave(c) ==
  /\ Go(c, "release")
  /\ job' = [job EXCEPT ![c] = NoJob]
  /\ lost' = lost \ {c}

\* c goes on with what it has loaded.
Continue(c, p) == Go(c, p) /\ UNCHANGED <<job, lost>>

\* An operation created its attempts itself, but for the legs it inherits.
Request(o, i) ==
  IF op[o].parent # None /\ attempt[<<o, i>>].status = "NONE"
  THEN <<op[o].parent, i>> ELSE <<o, i>>

Status(o, i) == attempt[Request(o, i)].status
MyRequest(c) == Request(job[c].o, job[c].i)
MyStatus(c) == attempt[MyRequest(c)].status

NoneActive(i) == \A o \in Ops : attempt[<<o, i>>].status \notin Active

\* The requests of rs, where they have status from, move to status to.
Moved(rs, from, to) ==
  [r \in Requests |-> IF r \in rs /\ attempt[r].status \in from
                      THEN [attempt[r] EXCEPT !.status = to] ELSE attempt[r]]

Own(o) == {Request(o, i) : i \in Legs}

\* fenceEntityLeaseOwnerships at the head of every transaction.
Fenced(c) == lease.holder = c /\ lease.live

\* renewEntityLeases also revives leases that have run out.
Renewable(c) == lease.holder # None /\ (lease.holder = c \/ ~lease.live)
Renewal(c) == lease' = IF Renewable(c) THEN [holder |-> c, live |-> TRUE] ELSE lease

\* LeaseHeartbeat.guard: a heartbeat out of turn, which renews, fences and touches.
Guards(c, status) == c \notin lost /\ Renewable(c) /\ MyStatus(c) \in status
Guard(c, status) ==
  /\ lease' = IF c \notin lost /\ Renewable(c) THEN [holder |-> c, live |-> TRUE] ELSE lease
  /\ quiet' = IF Guards(c, status) THEN quiet \ {MyRequest(c)} ELSE quiet

\* allowedLocalStatuses.
Allowed(status) ==
  CASE status = "VERIFIED" -> {"POSTED"}
    [] status = "DRY_RUN" -> {"DRY_RUN"}
    [] status = "UNCERTAIN" -> {"PENDING", "ERROR"}
    [] OTHER -> {"PENDING"}

\* loadLocalState, validateLocalTransaction: both rows are what o expects.
Valid(o) == \A i \in Legs :
  LET a == attempt[Request(o, i)] IN
  /\ row[i].rev = a.rev
  /\ row[i].token = IF a.status = "VERIFIED" THEN a.new ELSE a.token
  /\ row[i].status \in Allowed(a.status)

\* Mutant: any new SyncToken passes for the result of the request.
IsTargetByToken(r) == qbo[r[2]].token # attempt[r].token

\* The entity is exactly as it was when the leg was prepared, or as it was to be.
IsBefore(r) == qbo[r[2]].content = "held" /\ qbo[r[2]].token = attempt[r].token
IsTarget(r) == qbo[r[2]].content = "moved" /\ qbo[r[2]].token # attempt[r].token

----------------------------------------------------------------------------
(* Entering and leaving a call.                                              *)

\* A caller prepares an operation (its idempotency key names it), commits one,
\* or retries one that is no retry itself and has none yet.
Start(c) ==
  /\ pc[c] = "idle"
  /\ \E k \in Kinds, o \in Ops, p \in Ops \cup {None} :
       /\ k = "commit" => op[o].made /\ p = None
       /\ k = "prepare" => p = None /\ ~op[o].made
       /\ k = "retry" => /\ p # None /\ p # o /\ op[p].made /\ op[p].parent = None
                         /\ ~op[o].made
                         /\ \A q \in Ops : op[q].parent # p
       /\ job' = [job EXCEPT ![c] = [NoJob EXCEPT !.kind = k, !.o = o, !.parent = p]]
  /\ Go(c, "acquire")
  /\ UNCHANGED <<dbVars, qboVars, lease, dryRun, lost>>

Acquire(c) ==
  /\ pc[c] = "acquire"
  /\ IF lease.holder = None \/ ~lease.live
     THEN /\ lease' = [holder |-> c, live |-> TRUE]
          /\ Continue(c, IF job[c].kind = "commit" THEN "begin" ELSE "check")
     ELSE /\ Leave(c)
          /\ UNCHANGED lease
  /\ UNCHANGED <<dbVars, qboVars, dryRun>>

ReleaseLease(c) ==
  /\ pc[c] = "release"
  /\ lease' = IF lease.holder = c THEN [holder |-> None, live |-> FALSE] ELSE lease
  /\ Continue(c, "idle")
  /\ UNCHANGED <<dbVars, qboVars, dryRun>>

Crash(c) ==
  /\ pc[c] # "idle"
  /\ Go(c, "idle")
  /\ job' = [job EXCEPT ![c] = NoJob]
  /\ lost' = lost \ {c}
  /\ UNCHANGED <<dbVars, qboVars, lease, dryRun>>

----------------------------------------------------------------------------
(* Preparation, of a new operation and of a retry.                           *)

RetryableParent == {"RETRYABLE", "UNCHANGED"}

\* assertRetryParentStatuses: something to retry, nothing unsettled.
Retryable(p) ==
  /\ \E i \in Legs : Status(p, i) \in RetryableParent
  /\ \A i \in Legs : Status(p, i) \in RetryableParent \cup {"VERIFIED"}

\* What a retry loads of its parent and compares again before it inserts.
Sight(p) == [i \in Legs |-> [status |-> Status(p, i), row |-> row[i].status,
                             rev |-> row[i].rev, token |-> row[i].token]]

\* validatePair and assertNoActiveAttempts.
Preparable == \A i \in Legs : row[i].status = "PENDING" /\ NoneActive(i)

\* The fenced preflight.
Check(c) ==
  /\ pc[c] = "check"
  /\ LET j == job[c] IN
     IF /\ Fenced(c)
        /\ IF j.kind = "retry" THEN Retryable(j.parent) ELSE Preparable
     THEN /\ Go(c, "prepare")
          /\ job' = [job EXCEPT ![c].seen =
               IF j.kind = "retry" THEN Sight(j.parent)
               ELSE [i \in Legs |-> [status |-> "NONE", row |-> row[i].status,
                                     rev |-> row[i].rev, token |-> row[i].token]]]
          /\ UNCHANGED lost
     ELSE Leave(c)
  /\ UNCHANGED <<dbVars, qboVars, lease, dryRun>>

\* prepareLegs, prepareRetryLegs: each entity is read and must be the one of the
\* row, on the holding account or, for a leg already verified, as it was written.
ReadLegs(c) ==
  /\ pc[c] = "prepare"
  /\ LET seen == job[c].seen IN
     IF \A i \in Legs :
          /\ qbo[i].token = seen[i].token
          /\ IF seen[i].status = "VERIFIED"
             THEN /\ qbo[i].content = "moved"
                  /\ seen[i].row = "POSTED"
                  /\ seen[i].rev = attempt[<<job[c].parent, i>>].rev
                  /\ seen[i].token = attempt[<<job[c].parent, i>>].new
             ELSE qbo[i].content = "held" /\ seen[i].row = "PENDING"
     THEN Continue(c, "insert")
     ELSE Leave(c)
  /\ UNCHANGED <<dbVars, qboVars, lease, dryRun>>

\* The fenced insertion of the operation with the attempts it does not inherit.
Insert(c) ==
  /\ pc[c] = "insert"
  /\ LET j == job[c]
         new == {i \in Legs : j.seen[i].status # "VERIFIED"}
     IN IF /\ Fenced(c)
           /\ ~op[j.o].made
           /\ IF j.kind = "retry"
              THEN /\ Sight(j.parent) = j.seen
                   /\ \A q \in Ops : op[q].parent # j.parent
              ELSE /\ Preparable
                   /\ \A i \in Legs : row[i].rev = j.seen[i].rev /\ row[i].token = j.seen[i].token
           /\ \A i \in new : NoneActive(i)
        THEN /\ op' = [op EXCEPT ![j.o] =
                  [made |-> TRUE, parent |-> j.parent, expired |-> FALSE]]
             /\ attempt' = [r \in Requests |->
                  IF r[1] = j.o /\ r[2] \in new
                  THEN [NoAttempt EXCEPT !.status = "PREPARED", !.rev = j.seen[r[2]].rev,
                                         !.token = j.seen[r[2]].token]
                  ELSE attempt[r]]
        ELSE UNCHANGED <<op, attempt>>
  /\ Leave(c)
  /\ UNCHANGED <<row, quiet, qboVars, lease, dryRun>>

----------------------------------------------------------------------------
(* commitTransfer: the operation, then leg by leg.                           *)

\* c gives every PREPARED attempt of its operation up, under the fence.
GiveUp(c, from) ==
  /\ attempt' = IF Fenced(c) THEN Moved(Own(job[c].o), from, "RETRYABLE") ELSE attempt
  /\ UNCHANGED <<row, op, quiet, qboVars, lease, dryRun>>

Begin(c) ==
  /\ pc[c] = "begin"
  /\ LET o == job[c].o
         statuses == {Status(o, i) : i \in Legs}
     IN IF op[o].expired /\ "PREPARED" \in statuses THEN Continue(c, "expire")
        ELSE IF statuses \cap Active = {} THEN Leave(c)
        ELSE Continue(c, IF statuses # {"PREPARED"} THEN "leg"
                         ELSE IF ~Valid(o) THEN "park"
                         ELSE IF dryRun THEN "dryBoth" ELSE "leg")
  /\ UNCHANGED <<dbVars, qboVars, lease, dryRun>>

\* expirePreparedAttempts, after which the operation is loaded again.
ExpirePrepared(c) ==
  /\ pc[c] = "expire"
  /\ IF Fenced(c) THEN Continue(c, "begin") ELSE Leave(c)
  /\ GiveUp(c, {"PREPARED"})

\* A finished leg is passed over.
Forward(c) ==
  IF job[c].i = 1
  THEN Go(c, "leg") /\ job' = [job EXCEPT ![c].i = 2] /\ UNCHANGED lost
  ELSE Leave(c)

\* Mutant: an uncertain leg is passed over too.
LegPastUncertain(c) ==
  /\ pc[c] = "leg"
  /\ LET s == MyStatus(c) IN
     CASE s \in Finished \cup {"UNCERTAIN"} -> Forward(c)
       [] s = "COMMITTING" -> Continue(c, "rload")
       [] s = "PREPARED" ->
            Continue(c, IF ~Valid(job[c].o) THEN "park" ELSE IF dryRun THEN "dry" ELSE "read")
       [] OTHER -> Leave(c)
  /\ UNCHANGED <<dbVars, qboVars, lease, dryRun>>

Leg(c) ==
  /\ pc[c] = "leg"
  /\ LET s == MyStatus(c) IN
     CASE s \in Finished -> Forward(c)
       [] s \in Unresolved -> Continue(c, "rload")
       [] s = "PREPARED" ->
            Continue(c, IF ~Valid(job[c].o) THEN "park" ELSE IF dryRun THEN "dry" ELSE "read")
       [] OTHER -> Leave(c)
  /\ UNCHANGED <<dbVars, qboVars, lease, dryRun>>

\* The leg is loaded again after it was handled.
AfterLeg(c) ==
  /\ pc[c] = "next"
  /\ IF MyStatus(c) \in Finished THEN Forward(c) ELSE Leave(c)
  /\ UNCHANGED <<dbVars, qboVars, lease, dryRun>>

\* markPreparedRetryable: the operation stops before its leg i was claimed.
Park(c) ==
  /\ pc[c] = "park"
  /\ Leave(c)
  /\ GiveUp(c, IF MyStatus(c) = "PREPARED" THEN {"PREPARED"} ELSE {})

\* finalizeDryRun: of both legs at the outset, of one in its turn, or of the
\* claimed leg and those after it when the switch was found on before the send.
FinalizeDryRun(c) ==
  /\ pc[c] \in {"dryBoth", "dry", "undry"}
  /\ LET o == job[c].o
         i == job[c].i
         legs == CASE pc[c] = "dryBoth" -> Legs [] pc[c] = "dry" -> {i} [] OTHER -> i .. 2
         rs == {Request(o, j) : j \in legs}
         open == {"PREPARED"} \cup (IF pc[c] = "undry" THEN {"COMMITTING"} ELSE {})
         ok == /\ Fenced(c)
               /\ Valid(o)
               /\ \A j \in legs : Status(o, j) = "PREPARED" \/ (j = i /\ Status(o, j) \in open)
         done == ok /\ (op[o].expired \/ dryRun)
     IN /\ quiet' = IF done THEN quiet \ rs ELSE quiet
        /\ CASE ~ok -> Leave(c) /\ UNCHANGED <<row, attempt>>
             [] ok /\ op[o].expired ->
                  Leave(c) /\ attempt' = Moved(rs, open, "RETRYABLE") /\ UNCHANGED row
             [] ok /\ ~op[o].expired /\ dryRun ->
                  /\ attempt' = Moved(rs, open, "DRY_RUN")
                  /\ row' = [j \in Legs |-> IF j \in legs THEN [row[j] EXCEPT !.status = "DRY_RUN"]
                                            ELSE row[j]]
                  /\ IF pc[c] = "dry" THEN Continue(c, "next") ELSE Leave(c)
             [] OTHER ->
                  /\ Continue(c, CASE pc[c] = "dryBoth" -> "leg" [] pc[c] = "dry" -> "read"
                                   [] OTHER -> "unclaim")
                  /\ UNCHANGED <<row, attempt>>
  /\ UNCHANGED <<op, qboVars, lease, dryRun>>

----------------------------------------------------------------------------
(* executePreparedLeg: claim, prove, send, read back.                        *)

\* A read that fails counts as drift.
Read(c) ==
  /\ pc[c] = "read"
  /\ Renewal(c)
  /\ IF Renewable(c)
     THEN (IsBefore(MyRequest(c)) /\ Continue(c, "claim")) \/ Continue(c, "park")
     ELSE Leave(c)
  /\ UNCHANGED <<dbVars, qboVars, dryRun>>

\* Mutant: the transition to COMMITTING does not compare the status.
ClaimAgain(c) ==
  /\ pc[c] = "claim"
  /\ LET r == MyRequest(c) IN
     IF Fenced(c) /\ Valid(job[c].o) /\ ~op[job[c].o].expired
     THEN /\ attempt' = [attempt EXCEPT ![r].status = "COMMITTING"]
          /\ quiet' = quiet \ {r}
          /\ Continue(c, "refresh")
     ELSE Leave(c) /\ UNCHANGED <<attempt, quiet>>
  /\ UNCHANGED <<row, op, qboVars, lease, dryRun>>

\* enterCommitting.
Claim(c) ==
  /\ pc[c] = "claim"
  /\ LET o == job[c].o
         r == MyRequest(c)
     IN IF Fenced(c) /\ Valid(o) /\ attempt[r].status = "PREPARED" /\ ~op[o].expired
        THEN /\ attempt' = [attempt EXCEPT ![r].status = "COMMITTING"]
             /\ quiet' = quiet \ {r}
             /\ Continue(c, "refresh")
        ELSE /\ IF Fenced(c) /\ (Valid(o) => attempt[r].status = "PREPARED")
                THEN Continue(c, "park") ELSE Leave(c)
             /\ UNCHANGED <<attempt, quiet>>
  /\ UNCHANGED <<row, op, qboVars, lease, dryRun>>

\* refreshCommittingAuthority, which the first guard of the heartbeat repeats.
Refresh(c) ==
  /\ pc[c] = "refresh"
  /\ Guard(c, {"COMMITTING"})
  /\ IF Guards(c, {"COMMITTING"}) THEN Continue(c, "recheck") ELSE Leave(c)
  /\ UNCHANGED <<row, op, attempt, qboVars, dryRun>>

\* A proof before the send fails: the claim is given back, unless the read failed
\* after the heartbeat did.
Disproved(c, p, holds) ==
  \/ holds /\ Continue(c, p)
  \/ ~holds /\ Continue(c, "unclaim")
  \/ IF c \in lost THEN Leave(c) ELSE Continue(c, "unclaim")

\* The entity is read once more.
Recheck(c) ==
  /\ pc[c] = "recheck"
  /\ Disproved(c, IF op[job[c].o].parent = None THEN "strict" ELSE "reprove",
               IsBefore(MyRequest(c)))
  /\ UNCHANGED <<dbVars, qboVars, lease, dryRun>>

\* reproveInheritedVerifiedLegs: what the parent wrote is still in place.
Reprove(c) ==
  /\ pc[c] = "reprove"
  /\ LET s == Request(job[c].o, 3 - job[c].i) IN
     Disproved(c, "strict",
       attempt[s].status = "VERIFIED" =>
         qbo[s[2]] = [content |-> "moved", token |-> attempt[s].new])
  /\ UNCHANGED <<dbVars, qboVars, lease, dryRun>>

\* The last guard, strict about the rows, the expiry and the dry-run switch.
Strict(c) ==
  /\ pc[c] = "strict"
  /\ LET o == job[c].o
         fit == Valid(o) /\ ~op[o].expired /\ ~dryRun
     IN /\ lease' = IF c \notin lost /\ Renewable(c) THEN [holder |-> c, live |-> TRUE] ELSE lease
        /\ IF c \in lost \/ ~Renewable(c) \/ (Valid(o) /\ MyStatus(c) # "COMMITTING")
           THEN Leave(c)
           ELSE Continue(c, IF fit THEN "send"
                            ELSE IF Valid(o) /\ ~op[o].expired THEN "undry" ELSE "unclaim")
        /\ quiet' = IF Guards(c, {"COMMITTING"}) /\ fit THEN quiet \ {MyRequest(c)} ELSE quiet
  /\ UNCHANGED <<row, op, attempt, qboVars, dryRun>>

\* Mutant: only the claimed leg is given back.
UnclaimOne(c) ==
  /\ pc[c] = "unclaim"
  /\ attempt' = IF Fenced(c) THEN Moved({MyRequest(c)}, {"COMMITTING"}, "RETRYABLE") ELSE attempt
  /\ Leave(c)
  /\ UNCHANGED <<row, op, quiet, qboVars, lease, dryRun>>

\* markClaimedAndPreparedRetryable: nothing was sent.
Unclaim(c) ==
  /\ pc[c] = "unclaim"
  /\ LET r == MyRequest(c)
         rs == {q \in Own(job[c].o) : attempt[q].status = "PREPARED" \/ q = r}
     IN attempt' = IF Fenced(c) THEN Moved(rs, {"PREPARED", "COMMITTING"}, "RETRYABLE")
                   ELSE attempt
  /\ quiet' = IF Fenced(c) THEN quiet \ {MyRequest(c)} ELSE quiet
  /\ Leave(c)
  /\ UNCHANGED <<row, op, qboVars, lease, dryRun>>

\* The request leaves, or fails to.
Send(c) ==
  /\ pc[c] = "send"
  /\ \/ /\ wire' = wire \cup {MyRequest(c)}
        /\ sends' = [sends EXCEPT ![MyRequest(c)] = @ + 1]
        /\ Continue(c, "sent")
     \/ Continue(c, "uncertain") /\ UNCHANGED <<wire, sends>>
  /\ UNCHANGED <<dbVars, qbo, landed, lease, dryRun>>

\* The answer arrives, or none does within 30 seconds.
Answer(c) ==
  /\ pc[c] = "sent"
  /\ (MyRequest(c) \in landed /\ Continue(c, "accept")) \/ Continue(c, "uncertain")
  /\ UNCHANGED <<dbVars, qboVars, lease, dryRun>>

\* persistAcceptedResponse.
Accept(c) ==
  /\ pc[c] = "accept"
  /\ LET r == MyRequest(c)
         ok == Fenced(c) /\ attempt[r].status = "COMMITTING"
     IN /\ attempt' = IF ok THEN [attempt EXCEPT ![r].response = TRUE] ELSE attempt
        /\ quiet' = IF ok THEN quiet \ {r} ELSE quiet
        /\ Go(c, IF ok THEN "readback" ELSE "uncertain")
  /\ job' = [job EXCEPT ![c].response = TRUE]
  /\ UNCHANGED <<row, op, qboVars, lease, dryRun, lost>>

\* A guard, then the entity is read.
ReadBack(c) ==
  /\ pc[c] = "readback"
  /\ Guard(c, {"COMMITTING"})
  /\ \/ /\ Guards(c, {"COMMITTING"}) /\ IsTarget(MyRequest(c))
        /\ Go(c, "verify")
        /\ job' = [job EXCEPT ![c].token = qbo[job[c].i].token]
        /\ UNCHANGED lost
     \/ Continue(c, "uncertain")
  /\ UNCHANGED <<row, op, attempt, qboVars, dryRun>>

\* finalizeVerified: attempt and row together, the row whatever its status.
Finalized(c) ==
  /\ attempt' = [attempt EXCEPT ![MyRequest(c)] =
                   [@ EXCEPT !.status = "VERIFIED", !.new = job[c].token, !.response = TRUE]]
  /\ row' = [row EXCEPT ![job[c].i] = [@ EXCEPT !.status = "POSTED", !.token = job[c].token]]

\* A guard, then the readback is made durable.
Verify(c) ==
  /\ pc[c] = "verify"
  /\ Guard(c, {"COMMITTING"})
  /\ IF Guards(c, {"COMMITTING"})
     THEN Finalized(c) /\ Continue(c, "next")
     ELSE UNCHANGED <<attempt, row>> /\ Continue(c, "uncertain")
  /\ UNCHANGED <<op, qboVars, dryRun>>

\* markUncertain, which swallows its own failure.
MarkUncertain(c) ==
  /\ pc[c] = "uncertain"
  /\ LET r == MyRequest(c) IN
     IF Fenced(c) /\ job[c].status # "UNCERTAIN" /\ attempt[r].status = "COMMITTING"
     THEN /\ attempt' = [attempt EXCEPT ![r] =
               [@ EXCEPT !.status = "UNCERTAIN",
                         !.response = attempt[r].response \/ job[c].response]]
          /\ row' = [row EXCEPT ![job[c].i].status = "ERROR"]
          /\ quiet' = quiet \ {r}
     ELSE UNCHANGED <<attempt, row, quiet>>
  /\ Leave(c)
  /\ UNCHANGED <<op, qboVars, lease, dryRun>>

----------------------------------------------------------------------------
(* reconcileLeg: what became of a request that may have left.                *)

\* fencedReconciliationState; how long the attempt has been quiet is measured
\* before the first guard touches it.
RLoad(c) ==
  /\ pc[c] = "rload"
  /\ Renewal(c)
  /\ LET r == MyRequest(c) IN
     IF ~Renewable(c) THEN Leave(c)
     ELSE IF attempt[r].status \notin Unresolved THEN Continue(c, "next")
     ELSE /\ Go(c, "rread")
          /\ job' = [job EXCEPT ![c] = [@ EXCEPT !.quiet = r \in quiet, !.status = attempt[r].status,
                                                 !.response = attempt[r].response]]
          /\ UNCHANGED lost
  /\ UNCHANGED <<dbVars, qboVars, dryRun>>

\* Mutant: one read that shows the original entity is taken for proof.
RReadAtOnce(c) ==
  /\ pc[c] = "rread"
  /\ Guard(c, Unresolved)
  /\ LET r == MyRequest(c) IN
     IF ~Guards(c, Unresolved) THEN Leave(c)
     ELSE \/ IsBefore(r) /\ ~job[c].response /\ Continue(c, "runchanged")
          \/ ~IsBefore(r) /\ Continue(c, "uncertain")
  /\ UNCHANGED <<row, op, attempt, qboVars, dryRun>>

\* A guard, then the entity is read and compared with both snapshots.
RRead(c) ==
  /\ pc[c] = "rread"
  /\ Guard(c, Unresolved)
  /\ LET r == MyRequest(c) IN
     IF ~Guards(c, Unresolved) THEN Leave(c)
     ELSE \/ Continue(c, "uncertain")       \* the read failed, or proved nothing
          \/ /\ IsTarget(r)
             /\ Go(c, "rverify")
             /\ job' = [job EXCEPT ![c].token = qbo[job[c].i].token]
             /\ UNCHANGED lost
          \/ /\ IsBefore(r) /\ ~job[c].response
             /\ IF job[c].quiet THEN Continue(c, "runchanged") ELSE Leave(c)
  /\ UNCHANGED <<row, op, attempt, qboVars, dryRun>>

RVerify(c) ==
  /\ pc[c] = "rverify"
  /\ Guard(c, Unresolved)
  /\ IF Guards(c, Unresolved)
     THEN Finalized(c) /\ Continue(c, "next")
     ELSE UNCHANGED <<attempt, row>> /\ Leave(c)
  /\ UNCHANGED <<op, qboVars, dryRun>>

\* Mutant: the row is left in the state the uncertain write gave it.
RUnchangedAttemptOnly(c) ==
  /\ pc[c] = "runchanged"
  /\ Guard(c, Unresolved)
  /\ IF Guards(c, Unresolved)
     THEN /\ attempt' = [Moved(Own(job[c].o), {"PREPARED"}, "RETRYABLE")
                          EXCEPT ![MyRequest(c)].status = "UNCHANGED"]
          /\ Continue(c, "next")
     ELSE UNCHANGED attempt /\ Leave(c)
  /\ UNCHANGED <<row, op, qboVars, dryRun>>

\* finalizeUnchanged: the other leg is given up with this one.
RUnchanged(c) ==
  /\ pc[c] = "runchanged"
  /\ Guard(c, Unresolved)
  /\ IF Guards(c, Unresolved)
     THEN /\ attempt' = [Moved(Own(job[c].o), {"PREPARED"}, "RETRYABLE")
                          EXCEPT ![MyRequest(c)].status = "UNCHANGED"]
          /\ row' = [row EXCEPT ![job[c].i].status = "PENDING"]
          /\ Continue(c, "next")
     ELSE UNCHANGED <<attempt, row>> /\ Leave(c)
  /\ UNCHANGED <<op, qboVars, dryRun>>

\* While c waits for QuickBooks: renew, fence, touch.  A failure is final.
Heartbeat(c) ==
  /\ pc[c] \in Sending \cup Recovering
  /\ c \notin lost
  /\ LET status == IF pc[c] \in Sending THEN {"COMMITTING"} ELSE Unresolved IN
     /\ Guard(c, status)
     /\ lost' = IF Guards(c, status) THEN lost ELSE lost \cup {c}
  /\ UNCHANGED <<row, op, attempt, qboVars, dryRun, pc, job>>

----------------------------------------------------------------------------
(* QuickBooks, time and everybody else.                                      *)

\* A sparse update is applied if its SyncToken is current, else refused.
Land(r) ==
  /\ r \in wire
  /\ wire' = wire \ {r}
  /\ IF qbo[r[2]].token = attempt[r].token
     THEN /\ qbo' = [qbo EXCEPT ![r[2]] = [content |-> "moved", token |-> @.token + 1]]
          /\ landed' = landed \cup {r}
     ELSE UNCHANGED <<qbo, landed>>
  /\ UNCHANGED <<dbVars, sends, lease, dryRun, pc, job, lost>>

Lose(r) ==
  /\ r \in wire
  /\ wire' = wire \ {r}
  /\ UNCHANGED <<dbVars, qbo, landed, sends, lease, dryRun, pc, job, lost>>

\* A bookkeeper saves the entity, categorizing it or not.
EditInQuickBooks(i) ==
  /\ qbo[i].token < MaxToken
  /\ \E content \in {qbo[i].content, "elsewhere"} :
       qbo' = [qbo EXCEPT ![i] = [content |-> content, token |-> @.token + 1]]
  /\ UNCHANGED <<dbVars, wire, landed, sends, lease, dryRun, pc, job, lost>>

\* A lease lasts three heartbeats: unless it stalls for long, a call that has lost
\* the leases knows by the time those of its successor run out.
LeaseExpires ==
  /\ lease.live
  /\ LongStalls \/ \A c \in Calls \ {lease.holder} :
                     pc[c] \in Sending \cup Recovering => c \in lost
  /\ lease' = [lease EXCEPT !.live = FALSE]
  /\ UNCHANGED <<dbVars, qboVars, dryRun, pc, job, lost>>

ToggleDryRun ==
  /\ \E on \in Switch : on # dryRun /\ dryRun' = on
  /\ UNCHANGED <<dbVars, qboVars, lease, pc, job, lost>>

\* 15 minutes after its creation; nobody looks once the attempts are beyond it.
Expire(o) ==
  /\ op[o].made /\ ~op[o].expired
  /\ \E i \in Legs : attempt[<<o, i>>].status \in {"PREPARED", "COMMITTING"}
  /\ op' = [op EXCEPT ![o].expired = TRUE]
  /\ UNCHANGED <<row, attempt, quiet, qboVars, lease, dryRun, pc, job, lost>>

\* A minute passes without a touch.  The assumption about the network: a request
\* between its last guard and QuickBooks does not take that long.
BecomeQuiet(r) ==
  /\ attempt[r].status \in Unresolved
  /\ r \notin wire \cup quiet
  /\ \A c \in Calls : pc[c] = "send" => MyRequest(c) # r
  /\ quiet' = quiet \cup {r}
  /\ UNCHANGED <<row, op, attempt, qboVars, lease, dryRun, pc, job, lost>>

\* Somebody stages row i anew, or sync mirrors its entity, under its lease.
Others(i) ==
  /\ lease.holder = None \/ ~lease.live
  /\ NoneActive(i)
  /\ \/ /\ row[i].status = "PENDING" /\ row[i].rev < MaxRevision
        /\ row' = [row EXCEPT ![i].rev = @ + 1]
     \/ /\ qbo[i].content = "held"
        /\ row' = [row EXCEPT ![i].token = qbo[i].token]
  /\ lease' = [holder |-> None, live |-> FALSE]
  /\ UNCHANGED <<op, attempt, quiet, qboVars, dryRun, pc, job, lost>>

----------------------------------------------------------------------------

CallStep(c) ==
  \/ Start(c) \/ Acquire(c) \/ ReleaseLease(c) \/ Crash(c)
  \/ Check(c) \/ ReadLegs(c) \/ Insert(c)
  \/ Begin(c) \/ ExpirePrepared(c) \/ Leg(c) \/ AfterLeg(c) \/ Park(c) \/ FinalizeDryRun(c)
  \/ Read(c) \/ Claim(c) \/ Refresh(c) \/ Recheck(c) \/ Reprove(c) \/ Strict(c) \/ Unclaim(c)
  \/ Send(c) \/ Answer(c) \/ Accept(c) \/ ReadBack(c) \/ Verify(c) \/ MarkUncertain(c)
  \/ RLoad(c) \/ RRead(c) \/ RVerify(c) \/ RUnchanged(c) \/ Heartbeat(c)

Environment ==
  \/ \E r \in Requests : Land(r) \/ Lose(r) \/ BecomeQuiet(r)
  \/ \E i \in Legs : EditInQuickBooks(i) \/ Others(i)
  \/ \E o \in Ops : Expire(o)
  \/ LeaseExpires \/ ToggleDryRun

Next == (\E c \in Calls : CallStep(c)) \/ Environment

Spec == Init /\ [][Next]_vars

----------------------------------------------------------------------------
(* Properties.                                                               *)

\* commitTransfer works "per leg": leg 2 is not sent before leg 1 is settled well,
\* by this operation or by the one it retries.
SecondAfterFirst ==
  \A o \in Ops : sends[<<o, 2>>] > 0 => Status(o, 1) \in Finished

\* An attempt given up, found unchanged or finished as a dry run never reaches
\* QuickBooks, not even late.
UnsentIsUntouched ==
  \A r \in Requests :
    attempt[r].status \in {"RETRYABLE", "UNCHANGED", "DRY_RUN"} => r \notin wire \cup landed

\* finalizeVerified: what is recorded as verified is what QuickBooks applied.
VerifiedWasApplied ==
  \A r \in Requests : attempt[r].status = "VERIFIED" => r \in landed

\* The row of a leg and the attempts made for it tell the same story.
RowTellsOutcome ==
  \A i \in Legs :
    LET statuses == {attempt[<<o, i>>].status : o \in Ops} IN
    /\ row[i].status = "POSTED" <=> "VERIFIED" \in statuses
    /\ row[i].status = "DRY_RUN" <=> "DRY_RUN" \in statuses
    /\ row[i].status = "ERROR" <=> "UNCERTAIN" \in statuses

\* markPreparedRetryable and its kin: an operation whose first leg was given up
\* does not keep its second one waiting, unless it has expired and the next
\* commit gives that up too.
NothingLeftBehind ==
  \A o \in Ops :
    (op[o].made /\ Status(o, 1) \in RetryableParent) =>
      Status(o, 2) \notin Active \/ (Status(o, 2) = "PREPARED" /\ op[o].expired)

\* What docs/decisions.md says of transfers and the code does not keep.

\* "leg A's QBO write + status + audit commit atomically before leg B starts".
FirstWrittenBeforeSecond ==
  \A o \in Ops : sends[<<o, 2>>] > 0 => Status(o, 1) = "VERIFIED"
=============================================================================
