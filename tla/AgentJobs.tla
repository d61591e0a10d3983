------------------------------ MODULE AgentJobs ------------------------------
(***************************************************************************)
(* The autopilot of one company: the job queue (agent/jobs.ts), the shadow *)
(* worker (agent/worker.ts), the live worker and its recovery              *)
(* (agent/liveWorker.ts), the authority a live write needs                 *)
(* (agent/liveMutationAuthority.ts, liveWriteLimit.ts), the live switch    *)
(* (liveGates.ts, livePause.ts, settings.ts) and automatic reconciliation  *)
(* (liveReconciliation.ts).  One action is one database transaction or one *)
(* step between two of them; a worker stands for one claimed job in one    *)
(* server process and may stop at any step.  The commit itself is the      *)
(* subject of DurableWriteback and is reduced here to what jobs depend on. *)
(***************************************************************************)
EXTENDS Integers, FiniteSets

CONSTANTS
  Txns,         \* transactions of the company
  Workers,      \* claims that may be worked on at the same time
  None,
  MaxTries,     \* MAX_ATTEMPTS (3 in the code)
  Capacity,     \* MAX_CLAIM_LIMIT (4 in the code)
  Concurrency,  \* companyConcurrency
  WriteLimit,   \* the largest dailyLiveWriteLimit of any day
  Configs,      \* configuration versions, hashes of the settings
  PersonOps,    \* bound: the rows persons write to QuickBooks themselves, and how
  MaxRevision,  \* bound: revisions for which jobs are discovered
  MaxGeneration \* bound: scheduling generations

ASSUME BoundsAssumption ==
  /\ MaxTries \in Nat \ {0} /\ Capacity \in Nat \ {0} /\ Concurrency \in Nat \ {0}
  /\ WriteLimit \in Nat \ {0} /\ MaxRevision \in Nat /\ MaxGeneration \in Nat
  /\ IsFiniteSet(Txns) /\ IsFiniteSet(Workers) /\ None \notin Workers
  /\ IsFiniteSet(Configs) /\ Configs # {}
  /\ PersonOps \subseteq Txns \X {"recategorize", "restore"}

\* The unique index of AgentJob.
Bindings == [config : Configs, generation : 0..MaxGeneration]
Jobs == [txn : Txns, rev : 0..MaxRevision, binding : Bindings]
Tries == 1..MaxTries
Claims == [job : Jobs, n : Tries]

JobStatus == {"none", "queued", "retry", "running",
              "completed", "terminal", "cancelled", "cancelledByAdmin"}
Waiting == {"queued", "retry"}
Pending == Waiting \cup {"running"}
AttemptStatus == {"NONE", "PREPARED", "RETRYABLE", "COMMITTING", "UNCERTAIN",
                  "VERIFIED", "UNCHANGED", "FAILED"}
\* Mutant: a write that is being sent protects nothing.
UnresolvedButSending == {"PREPARED", "UNCERTAIN"}
Unresolved == {"PREPARED", "COMMITTING", "UNCERTAIN"}
\* A durable attempt of a person for a row, and how it stands; one that was given up
\* or closed as unchanged counts as none.
Operations == {"recategorize", "restore"}
PersonStatus == {"NONE", "PREPARED", "COMMITTING", "UNCERTAIN", "VERIFIED"}
RowStatus == {"PENDING", "POSTED", "ERROR", "REVERTED"}
RunStatus == {"none", "running", "closed", "uncertain", "posted_verified", "unchanged"}
Outcomes == {"abstain", "failed", "transient", "retryable", "posted", "uncertain", "required"}
Steps == {"idle", "claimed", "dispatch", "prepareShadow", "prepareLive", "confirm", "complete",
          "lease", "decide", "checkpoint", "stage", "preCommit", "persist", "enter", "send",
          "recoverLease", "recoverCommit", "finish"}

ASSUME NoneAssumption == None \notin Outcomes

VARIABLES
  txn,      \* Transaction: status and revision, and the attempt of a person for it
  job,      \* AgentJob: status, attemptCount, whether its lease is unexpired
  run,      \* AgentRun of a job and attemptCount: status, checkpoint, errorCode
  attempt,  \* QboMutationAttempt.status of the request named after the job
  permit,   \* LiveWritePermit of the request: none, of today, of an earlier day
  live,     \* AgentCompanyConfig: live writes requested, enabled and not paused
  binding,  \* AgentCompanyConfig: configVersion and schedulingGeneration
  shadow,   \* mode = 'shadow' and the company connected
  lease,    \* the company's live lease and the entity lease taken with it
  pc,       \* where a worker is
  claim,    \* the claim it works on
  out       \* the completion it is about to store

dbVars == <<txn, job, run, attempt, permit>>
configVars == <<live, binding, shadow>>
workerVars == <<pc, claim, out>>
vars == <<dbVars, configVars, lease, workerVars>>

----------------------------------------------------------------------------
NoJob == [status |-> "none", tries |-> 0, live |-> FALSE]
NewRow == [status |-> "PENDING", rev |-> 0, op |-> "recategorize", write |-> "NONE"]
NoRun == [status |-> "none", check |-> FALSE, code |-> None]

Init ==
  /\ txn = [t \in Txns |-> NewRow]
  /\ job = [j \in Jobs |-> NoJob]
  /\ run = [j \in Jobs |-> [n \in Tries |-> NoRun]]
  /\ attempt = [j \in Jobs |-> "NONE"]
  /\ permit = [j \in Jobs |-> "none"]
  /\ live = TRUE /\ shadow = TRUE
  /\ binding \in {b \in Bindings : b.generation = 0}
  /\ lease = [holder |-> None, live |-> FALSE]
  /\ pc = [w \in Workers |-> "idle"]
  /\ claim = [w \in Workers |-> None]
  /\ out = [w \in Workers |-> None]

\* Mutant: the owner and the lease are compared, the attempt count is not.
HoldsByOwner(w) ==
  LET j == claim[w].job IN job[j].status = "running" /\ job[j].live

\* A claim that is still its job's: running, same attemptCount, lease unexpired.
Holds(w) ==
  LET j == claim[w].job IN
  job[j].status = "running" /\ job[j].tries = claim[w].n /\ job[j].live

RowOf(j) == txn[j.txn]
Unstaged(j) == RowOf(j).status = "PENDING" /\ RowOf(j).rev = j.rev

\* The job's own write, at the revision the job staged.
Recoverable(j) ==
  /\ RowOf(j).rev = j.rev + 1
  /\ \/ attempt[j] \in {"PREPARED", "RETRYABLE", "COMMITTING"} /\ RowOf(j).status = "PENDING"
     \/ attempt[j] = "UNCERTAIN" /\ RowOf(j).status = "ERROR"
     \/ attempt[j] = "VERIFIED" /\ RowOf(j).status = "POSTED"

Current(j) == shadow /\ binding = j.binding
Fresh(j) == Unstaged(j) /\ Current(j)
LiveNow(j) == Current(j) /\ live

Leased(w) == lease.holder = claim[w] /\ lease.live
\* Attempts of persons count like those of other jobs.
PersonUnresolved == \E t \in Txns : txn[t].write \in Unresolved
UnresolvedElsewhere(j) ==
  PersonUnresolved \/ \E k \in Jobs \ {j} : attempt[k] \in Unresolved
\* isClaimedLiveJobAuthorized: an unresolved write of another job closes the gate.
Authorized(j) ==
  LiveNow(j) /\ ~UnresolvedElsewhere(j) /\ attempt[j] \notin {"COMMITTING", "UNCERTAIN"}
UnresolvedOf(t) ==
  txn[t].write \in Unresolved \/ \E k \in Jobs : k.txn = t /\ attempt[k] \in Unresolved
AnyUnresolved == PersonUnresolved \/ \E k \in Jobs : attempt[k] \in Unresolved
BusyEntity(t) == lease.live /\ lease.holder # None /\ lease.holder.job.txn = t

Alive == {j \in Jobs : job[j].status = "running" /\ job[j].live}
PermitsOfToday == {j \in Jobs : permit[j] = "today"}

Go(w, step) == pc' = [pc EXCEPT ![w] = step]
Ending(w, o) == Go(w, "finish") /\ out' = [out EXCEPT ![w] = o]
Away(w) ==
  /\ pc' = [pc EXCEPT ![w] = "idle"]
  /\ claim' = [claim EXCEPT ![w] = None]
  /\ out' = [out EXCEPT ![w] = None]
Over(j, status) == [job EXCEPT ![j].status = status, ![j].live = FALSE]
Closing(r, S) == [j \in Jobs |-> [n \in Tries |->
  IF <<j, n>> \in S /\ r[j][n].status = "running" THEN [r[j][n] EXCEPT !.status = "closed"]
  ELSE r[j][n]]]
\* Mutant: the run is looked up after the claim has counted itself.
CurrentRunLate(j) == <<j, job[j].tries + 1>>
CurrentRun(j) == <<j, job[j].tries>>

----------------------------------------------------------------------------
(* The queue: jobs.ts                                                       *)

\* Nothing staged and no attempt at this revision or later.  Every staging raises the
\* revision and stores lines and a tax calculation, which no route takes away.
Unattempted(j) ==
  /\ j.rev = 0
  /\ txn[j.txn].write = "NONE"
  /\ \A k \in Jobs : k.txn = j.txn /\ k.rev + 1 >= j.rev => attempt[k] = "NONE"

\* What one call of discoverShadowJobs may insert.
Discoverable ==
  {j \in Jobs :
     /\ job[j].status = "none"
     /\ Unstaged(j) /\ Current(j)
     /\ j.binding.generation > 0 =>
          /\ Unattempted(j)
          /\ \A k \in Jobs : k.txn = j.txn /\ k.rev = j.rev =>
                 job[k].status \notin {"terminal", "cancelledByAdmin"}}

\* Rows somebody has put a category or tags on without staging are passed over too.
Discover ==
  \E touched \in SUBSET Txns :
    LET new == {j \in Discoverable : j.binding.generation > 0 => j.txn \notin touched} IN
    /\ new # {}
    /\ job' = [j \in Jobs |-> IF j \in new THEN [NoJob EXCEPT !.status = "queued"]
                              ELSE job[j]]
  /\ UNCHANGED <<txn, run, attempt, permit, configVars, lease, workerVars>>

\* Mutant: a job that is no longer fresh is cancelled with the write it owns.
ObsoleteWithWrite == {j \in Jobs : job[j].status \in Pending /\ ~Fresh(j)}

\* What a claim cancels first: neither fresh nor the holder of a write to resume.
Obsolete ==
  {j \in Jobs : job[j].status \in Pending /\ ~Fresh(j) /\ ~Recoverable(j)}

\* Mutant: only waiting jobs are due.
CandidatesWaiting ==
  {j \in Jobs \ Obsolete : job[j].status \in Waiting /\ job[j].tries < MaxTries}

\* Due jobs and lapsed claims; the order of dueAt is left open.
Candidates ==
  {j \in Jobs \ Obsolete :
     /\ \/ job[j].status \in Waiting /\ job[j].tries < MaxTries
        \/ job[j].status = "running" /\ ~job[j].live}

Least(a, b) == IF a < b THEN a ELSE b
\* Mutant: the limit over all companies is forgotten.
FreeOfCompany == Concurrency - Cardinality(Alive \ Obsolete)

Free == Least(Capacity, Concurrency) - Cardinality(Alive \ Obsolete)

\* A lapsed claim that was the last one, and the writes it takes with it.
\* Mutant: a write that is being sent is retired as well.
Exhausted(j) == job[j].status = "running" /\ job[j].tries >= MaxTries
RetirableSent == {"PREPARED", "RETRYABLE", "COMMITTING"}
Retirable == {"PREPARED", "RETRYABLE"}

\* One claim transaction, under the capacity lock and the company's scope.
ClaimJobs(chosen, who) ==
  LET exhausted == {j \in chosen : Exhausted(j)}
      lapsed == {j \in chosen : job[j].status = "running"}
      closed == {CurrentRun(j) : j \in Obsolete \cup lapsed}
  IN /\ job' = [j \in Jobs |->
          IF j \in Obsolete THEN [job[j] EXCEPT !.status = "cancelled", !.live = FALSE]
          ELSE IF j \in exhausted THEN [job[j] EXCEPT !.status = "terminal"]
          ELSE IF j \in chosen
               THEN [status |-> "running", tries |-> job[j].tries + 1, live |-> TRUE]
          ELSE job[j]]
     /\ run' = Closing(run, closed)
     /\ attempt' = [j \in Jobs |->
          IF j \in exhausted /\ Recoverable(j) /\ attempt[j] \in Retirable
          THEN "FAILED" ELSE attempt[j]]
     /\ pc' = [w \in Workers |-> IF w \in DOMAIN who THEN "claimed" ELSE pc[w]]
     /\ claim' = [w \in Workers |->
          IF w \in DOMAIN who THEN [job |-> who[w], n |-> job[who[w]].tries + 1]
          ELSE claim[w]]

Assignments(chosen) ==
  LET fresh == {j \in chosen : ~Exhausted(j)} IN
  UNION {{f \in [S -> fresh] : \A j \in fresh : \E w \in S : f[w] = j} :
           S \in {S \in SUBSET {w \in Workers : pc[w] = "idle"} :
                    Cardinality(S) = Cardinality(fresh)}}

Claim ==
  /\ \E chosen \in SUBSET Candidates :
       /\ Cardinality(chosen) <= Free
       /\ chosen # {} \/ Obsolete # {}
       /\ \E who \in Assignments(chosen) : ClaimJobs(chosen, who)
  /\ UNCHANGED <<txn, permit, configVars, lease, out>>

\* Time: a lease that was not renewed for its whole term runs out.
ExpireJob(j) ==
  /\ job[j].status = "running" /\ job[j].live
  /\ job' = [job EXCEPT ![j].live = FALSE]
  /\ UNCHANGED <<txn, run, attempt, permit, configVars, lease, workerVars>>

ExpireLease ==
  /\ lease.live
  /\ lease' = [holder |-> None, live |-> FALSE]
  /\ UNCHANGED <<dbVars, configVars, workerVars>>

\* cancelQueuedAgentJobs: the administrator's cancel keeps owners of a write.
AdminCancel ==
  LET gone == {j \in Jobs : /\ job[j].status \in Waiting
                            /\ attempt[j] \notin Unresolved \cup {"RETRYABLE"}}
  IN /\ gone # {}
     /\ job' = [j \in Jobs |-> IF j \in gone
                               THEN [job[j] EXCEPT !.status = "cancelledByAdmin"] ELSE job[j]]
     /\ UNCHANGED <<txn, run, attempt, permit, configVars, lease, workerVars>>

----------------------------------------------------------------------------
(* A claimed job: recovery first, then live or shadow.                      *)

\* The process stops; rows and leases stay as they are.
Crash(w) ==
  /\ pc[w] # "idle"
  /\ Away(w)
  /\ UNCHANGED <<dbVars, configVars, lease>>

\* beginProductionLiveRecovery
BeginRecovery(w) ==
  LET j == claim[w].job
      n == claim[w].n
      found == /\ Holds(w) /\ Recoverable(j) /\ run[j][n].status = "none"
               /\ \E m \in Tries : m < n /\ run[j][m].check
  IN /\ pc[w] = "claimed"
     /\ IF ~found THEN Go(w, "dispatch") /\ UNCHANGED <<run, out>>
        ELSE /\ run' = [run EXCEPT ![j][n] = [status |-> "running", check |-> TRUE, code |-> None]]
             /\ IF attempt[j] \in {"COMMITTING", "UNCERTAIN"} THEN Ending(w, "required")
                ELSE IF attempt[j] = "VERIFIED" THEN Ending(w, "posted")
                ELSE Go(w, "recoverLease") /\ UNCHANGED out
     /\ UNCHANGED <<txn, job, attempt, permit, configVars, lease, claim>>

\* runScheduledShadowJob: live if the switch allows it now, else shadow.
Dispatch(w) ==
  /\ pc[w] = "dispatch"
  /\ \/ Go(w, "prepareShadow")
     \/ Authorized(claim[w].job) /\ Go(w, "prepareLive")
  /\ UNCHANGED <<dbVars, configVars, lease, claim, out>>

\* prepareRun: a stale claim is cancelled, an unusable one ended, older runs closed.
Prepare(w) ==
  LET j == claim[w].job
      n == claim[w].n
  IN /\ pc[w] \in {"prepareShadow", "prepareLive"}
     /\ \/ ~Holds(w) /\ Away(w) /\ UNCHANGED <<job, run>>
        \/ Holds(w) /\ ~Fresh(j) /\ Away(w) /\ job' = Over(j, "cancelled") /\ UNCHANGED run
        \/ Holds(w) /\ Fresh(j) /\ Away(w) /\ job' = Over(j, "terminal") /\ UNCHANGED run
        \/ /\ Holds(w) /\ Fresh(j) /\ run[j][n].status = "none"
           /\ run' = [Closing(run, {<<j, m>> : m \in 1..(n - 1)}) EXCEPT ![j][n].status = "running"]
           /\ Go(w, IF pc[w] = "prepareLive" THEN "lease" ELSE "confirm")
           /\ UNCHANGED <<job, claim, out>>
     /\ UNCHANGED <<txn, attempt, permit, configVars, lease>>

\* confirmInferenceFence, and the end of completeRunAndJob.
Fenced(w, ok) ==
  LET j == claim[w].job
      closed == Closing(run, {<<j, claim[w].n>>})
  IN \/ ~Holds(w) /\ Away(w) /\ run' = closed /\ UNCHANGED job
     \/ Holds(w) /\ ~Fresh(j) /\ Away(w) /\ run' = closed /\ job' = Over(j, "cancelled")
     \/ Holds(w) /\ Fresh(j) /\ ok

Confirm(w) ==
  /\ pc[w] = "confirm"
  /\ Fenced(w, Go(w, "complete") /\ UNCHANGED <<run, job, claim, out>>)
  /\ UNCHANGED <<txn, attempt, permit, configVars, lease>>

Complete(w) ==
  LET j == claim[w].job
      failed == IF claim[w].n < MaxTries THEN {"retry", "terminal"} ELSE {"terminal"}
  IN /\ pc[w] = "complete"
     /\ Fenced(w, /\ \E status \in {"completed"} \cup failed : job' = Over(j, status)
                  /\ run' = Closing(run, {<<j, claim[w].n>>})
                  /\ Away(w))
     /\ UNCHANGED <<txn, attempt, permit, configVars, lease>>

----------------------------------------------------------------------------
(* runClaimedLiveJob                                                        *)

\* withCompanyLease and withEntityLease: busy means ENTITY_BUSY, an abstention
\* (the entity may also be leased by a person).
TakeLease(w) ==
  LET step == IF pc[w] = "lease" THEN "decide" ELSE "recoverCommit" IN
  /\ pc[w] \in {"lease", "recoverLease"}
  /\ \/ /\ ~lease.live \/ Leased(w)
        /\ lease' = [holder |-> claim[w], live |-> TRUE]
        /\ Go(w, step) /\ UNCHANGED out
     \/ Ending(w, "abstain") /\ UNCHANGED lease
  /\ UNCHANGED <<dbVars, configVars, claim>>

\* renewAuthority and assertLiveAuthority: the renewal keeps an unexpired lease.
Renewed(w) == Holds(w) /\ Authorized(claim[w].job) /\ Leased(w)

\* Inference and verification, then the renewal before the checkpoint.
Decide(w) ==
  /\ pc[w] = "decide"
  /\ \/ Renewed(w) /\ Go(w, "checkpoint") /\ UNCHANGED out
     \/ \E o \in {"abstain", "failed", "transient"} : Ending(w, o)
  /\ UNCHANGED <<dbVars, configVars, lease, claim>>

Checkpoint(w) ==
  LET j == claim[w].job IN
  /\ pc[w] = "checkpoint"
  /\ IF Holds(w) /\ run[j][claim[w].n].status = "running"
     THEN run' = [run EXCEPT ![j][claim[w].n].check = TRUE] /\ Go(w, "stage") /\ UNCHANGED out
     ELSE Ending(w, "failed") /\ UNCHANGED run
  /\ UNCHANGED <<txn, job, attempt, permit, configVars, lease, claim>>

\* assertLiveStageAuthority and the staging it fences; a lost authority is transient.
StageRow(w) ==
  LET j == claim[w].job IN
  /\ pc[w] = "stage"
  /\ IF /\ Holds(w) /\ LiveNow(j) /\ Leased(w) /\ Unstaged(j)
        /\ ~AnyUnresolved
     THEN txn' = [txn EXCEPT ![j.txn].rev = j.rev + 1] /\ Go(w, "preCommit") /\ UNCHANGED out
     ELSE Ending(w, "transient") /\ UNCHANGED txn
  /\ UNCHANGED <<job, run, attempt, permit, configVars, lease, claim>>

\* The renewal before the commit, whose first reads find the staged row.
PreCommit(w) ==
  LET j == claim[w].job IN
  /\ pc[w] = "preCommit"
  /\ \/ /\ Renewed(w) /\ RowOf(j).rev = j.rev + 1 /\ RowOf(j).status = "PENDING"
        /\ Go(w, "persist") /\ UNCHANGED out
     \/ Ending(w, "abstain")
  /\ UNCHANGED <<dbVars, configVars, lease, claim>>

\* persistPrepared: only the unique keys of the attempts are checked.
Persist(w) ==
  LET j == claim[w].job IN
  /\ pc[w] = "persist"
  /\ IF attempt[j] = "NONE" /\ ~UnresolvedOf(j.txn)
     THEN attempt' = [attempt EXCEPT ![j] = "PREPARED"] /\ Go(w, "enter") /\ UNCHANGED out
     ELSE Ending(w, "abstain") /\ UNCHANGED attempt
  /\ UNCHANGED <<txn, job, run, permit, configVars, lease, claim>>

\* assertLiveCommitAuthority and assertLiveRetryAuthority, without the permit.
CommitAuthority(w) ==
  LET j == claim[w].job IN
  /\ Holds(w) /\ LiveNow(j) /\ Leased(w)
  /\ RowOf(j).rev = j.rev + 1 /\ RowOf(j).status = "PENDING"
  /\ ~UnresolvedElsewhere(j)

\* issueLiveWritePermit: one permit for a request, never more on a day than the limit it
\* reads, which the settings set anywhere up to WriteLimit and may have lowered.
\* Mutant: the limit is compared after the permit would be issued.
PermitLeftOneMore(j) == permit[j] # "none" \/ Cardinality(PermitsOfToday) <= WriteLimit
PermitLeft(j) ==
  permit[j] # "none" \/ \E limit \in 1..WriteLimit : Cardinality(PermitsOfToday) < limit
PermitRefused(j) ==
  permit[j] = "none" /\ \E limit \in 1..WriteLimit : Cardinality(PermitsOfToday) >= limit
Permitted(j) == [permit EXCEPT ![j] = IF @ = "none" THEN "today" ELSE @]

\* markRetryable: an attempt that was not sent is given up for this claim, on
\* the last claim for good.
GiveUp(w) ==
  LET j == claim[w].job IN
  attempt' = [attempt EXCEPT ![j] = IF claim[w].n >= MaxTries THEN "FAILED" ELSE "RETRYABLE"]

\* recordedAttemptResult: what a call answers for an attempt it may not send.
Recorded(j) ==
  CASE attempt[j] = "VERIFIED" -> "posted"
    [] attempt[j] = "UNCHANGED" -> "abstain"
    [] attempt[j] = "UNCERTAIN" -> "uncertain"
    [] attempt[j] = "FAILED" -> "failed"
    [] OTHER -> "retryable"

\* enterCommitting: the last proofs, then the transition under the authority.
Enter(w) ==
  LET j == claim[w].job
      last == claim[w].n >= MaxTries
  IN /\ pc[w] = "enter"
     /\ \/ /\ attempt[j] = "PREPARED" /\ CommitAuthority(w) /\ PermitLeft(j)
           /\ attempt' = [attempt EXCEPT ![j] = "COMMITTING"] /\ permit' = Permitted(j)
           /\ Go(w, "send") /\ UNCHANGED out
        \/ /\ attempt[j] = "PREPARED" /\ CommitAuthority(w) /\ PermitRefused(j)
           /\ attempt' = [attempt EXCEPT ![j] = "FAILED"]
           /\ Ending(w, "abstain") /\ UNCHANGED permit
        \/ /\ attempt[j] = "PREPARED"      \* no authority, or a proof before it failed
           /\ GiveUp(w) /\ UNCHANGED permit
           /\ \E o \in IF last THEN {"failed"} ELSE {"transient", "abstain"} : Ending(w, o)
        \/ /\ attempt[j] # "PREPARED"      \* another claim has moved it
           /\ Ending(w, Recorded(j)) /\ UNCHANGED <<attempt, permit>>
     /\ UNCHANGED <<txn, job, run, configVars, lease, claim>>

\* Mutant: a verified answer is stored whatever has become of the attempt.
SendUnguarded(w) ==
  LET j == claim[w].job IN
  /\ pc[w] = "send"
  /\ attempt' = [attempt EXCEPT ![j] = "VERIFIED"]
  /\ txn' = [txn EXCEPT ![j.txn].status = "POSTED"]
  /\ Ending(w, "posted")
  /\ UNCHANGED <<job, run, permit, configVars, lease, claim>>

\* sendAndVerifyPrepared: verified, uncertain, or an answer nobody could store.
Send(w) ==
  LET j == claim[w].job IN
  /\ pc[w] = "send"
  /\ \/ /\ attempt[j] \in {"COMMITTING", "UNCERTAIN"}
        /\ attempt' = [attempt EXCEPT ![j] = "VERIFIED"]
        /\ txn' = [txn EXCEPT ![j.txn].status = "POSTED"]
        /\ Ending(w, "posted") /\ UNCHANGED live
     \/ /\ attempt[j] = "COMMITTING"
        /\ attempt' = [attempt EXCEPT ![j] = "UNCERTAIN"]
        /\ txn' = [txn EXCEPT ![j.txn].status = "ERROR"]
        /\ live' = FALSE
        /\ Ending(w, "uncertain")
     \/ attempt[j] = "VERIFIED" /\ Ending(w, "posted") /\ UNCHANGED <<attempt, txn, live>>
     \/ Ending(w, "uncertain") /\ UNCHANGED <<attempt, txn, live>>
  /\ UNCHANGED <<job, run, permit, binding, shadow, lease, claim>>

\* The recovery's commit: a parked attempt is re-armed under the authority.
RecoverCommit(w) ==
  LET j == claim[w].job IN
  /\ pc[w] = "recoverCommit"
  /\ \/ ~Holds(w) /\ Ending(w, "failed") /\ UNCHANGED <<attempt, permit>>
     \/ ~Leased(w) /\ Ending(w, "abstain") /\ UNCHANGED <<attempt, permit>>
     \/ /\ attempt[j] = "RETRYABLE" /\ claim[w].n >= MaxTries
        /\ attempt' = [attempt EXCEPT ![j] = "FAILED"]
        /\ Ending(w, "failed") /\ UNCHANGED permit
     \/ /\ attempt[j] = "RETRYABLE" /\ claim[w].n < MaxTries
        /\ \/ /\ CommitAuthority(w) /\ PermitLeft(j)
              /\ attempt' = [attempt EXCEPT ![j] = "PREPARED"] /\ permit' = Permitted(j)
              /\ Go(w, "enter") /\ UNCHANGED out
           \/ /\ ~CommitAuthority(w) \/ PermitRefused(j)
              /\ Ending(w, IF CommitAuthority(w) THEN "abstain" ELSE "transient")
              /\ UNCHANGED <<attempt, permit>>
     \/ attempt[j] = "PREPARED" /\ Go(w, "enter") /\ UNCHANGED <<attempt, permit, out>>
     \/ /\ attempt[j] \notin {"PREPARED", "RETRYABLE"}
        /\ Ending(w, Recorded(j)) /\ UNCHANGED <<attempt, permit>>
  /\ UNCHANGED <<txn, job, run, configVars, lease, claim>>

\* finishProductionLiveRun: everything or nothing, by the claim's own lease; the
\* leases of the company and the entity are released afterwards.
Finish(w) ==
  LET j == claim[w].job
      n == claim[w].n
      o == out[w]
      ended == CASE o \in {"uncertain", "required"} -> "uncertain"
                 [] o = "posted" -> "posted_verified"
                 [] OTHER -> "closed"
      next == IF o \in {"transient", "retryable"} /\ n < MaxTries THEN "retry"
              ELSE IF o \in {"abstain", "posted"} THEN "completed"
              ELSE "terminal"
  IN /\ pc[w] = "finish"
     /\ IF Holds(w) /\ run[j][n].status = "running"
        THEN /\ run' = [run EXCEPT ![j][n].status = ended,
                                   ![j][n].code = IF o = "required" THEN o ELSE None]
             /\ job' = Over(j, next)
             /\ live' = (live /\ ended # "uncertain")
        ELSE UNCHANGED <<run, job, live>>
     /\ lease' = IF lease.holder = claim[w] THEN [holder |-> None, live |-> FALSE] ELSE lease
     /\ Away(w)
     /\ UNCHANGED <<txn, attempt, permit, binding, shadow>>

----------------------------------------------------------------------------
(* Reconciliation by the scheduler or an administrator.                     *)

\* The binding every reconciliation loads: the job has ended and its last
\* uncertain run asks for reconciliation.
Reconcilable(j) ==
  /\ job[j].status = "terminal" /\ RowOf(j).rev = j.rev + 1
  /\ \/ attempt[j] = "COMMITTING" /\ RowOf(j).status = "PENDING"
     \/ attempt[j] = "UNCERTAIN" /\ RowOf(j).status = "ERROR"
  /\ \E n \in Tries : run[j][n].status = "uncertain" /\ run[j][n].code = "required"

Reconcile(j) ==
  LET settle(status, row, ended) ==
        /\ attempt' = [attempt EXCEPT ![j] = status]
        /\ txn' = [txn EXCEPT ![j.txn].status = row]
        /\ run' = [run EXCEPT ![j] = [n \in Tries |->
              IF @[n].status = "uncertain" /\ @[n].code = "required"
              THEN [@[n] EXCEPT !.status = ended, !.code = None] ELSE @[n]]]
  IN /\ Reconcilable(j) /\ ~BusyEntity(j.txn)
     /\ \/ settle("VERIFIED", "POSTED", "posted_verified")
        \/ settle("UNCHANGED", "PENDING", "unchanged")
     /\ job' = [job EXCEPT ![j].status = "completed"]
     /\ UNCHANGED <<permit, configVars, lease, workerVars>>

----------------------------------------------------------------------------
(* Persons, settings and the switch.                                        *)

\* A person stages the row, posts what is staged and undoes what is posted, whoever
\* posted it.  A call leases the entity where it begins and renews before it sends.
PersonStage(t) ==
  /\ ~BusyEntity(t) /\ ~UnresolvedOf(t)
  /\ txn[t].status = "PENDING" /\ txn[t].rev <= MaxRevision
  /\ txn' = [txn EXCEPT ![t].rev = @ + 1]
  /\ UNCHANGED <<job, run, attempt, permit, configVars, lease, workerVars>>

\* The status an operation is allowed on, and the one it leaves when it is verified.
Before(op) == IF op = "restore" THEN "POSTED" ELSE "PENDING"
After(op) == IF op = "restore" THEN "REVERTED" ELSE "POSTED"

PersonWrites(t, row) ==
  /\ txn' = [txn EXCEPT ![t] = row]
  /\ UNCHANGED <<job, run, attempt, permit, configVars, lease, workerVars>>

\* commitStagedCategorization and undoCategorization up to persistPrepared.
PersonPrepare(t) ==
  \E op \in Operations :
    /\ <<t, op>> \in PersonOps
    /\ ~BusyEntity(t) /\ ~UnresolvedOf(t)
    /\ txn[t].status = Before(op) /\ txn[t].rev > 0
    /\ PersonWrites(t, [txn[t] EXCEPT !.op = op, !.write = "PREPARED"])

\* enterCommitting by the same call or by one that resumes the request.
PersonEnter(t) ==
  /\ ~BusyEntity(t) /\ txn[t].write = "PREPARED" /\ txn[t].status = Before(txn[t].op)
  /\ PersonWrites(t, [txn[t] EXCEPT !.write = "COMMITTING"])

\* markRetryable: a proof before the send failed.
PersonGiveUp(t) ==
  /\ txn[t].write = "PREPARED"
  /\ PersonWrites(t, [txn[t] EXCEPT !.op = "recategorize", !.write = "NONE"])

\* The answer of QuickBooks is stored, verified or in doubt; it may also be lost, which
\* leaves the attempt to reconciliation.  No doubt about a person's write pauses live mode.
PersonAnswer(t) ==
  /\ txn[t].write = "COMMITTING"
  /\ \/ PersonWrites(t, [txn[t] EXCEPT !.write = "VERIFIED", !.status = After(txn[t].op)])
     \/ PersonWrites(t, [txn[t] EXCEPT !.write = "UNCERTAIN", !.status = "ERROR"])

\* reconcileMutationAttempt, which leases the entity.
PersonReconcile(t) ==
  /\ ~BusyEntity(t) /\ txn[t].write \in {"COMMITTING", "UNCERTAIN"}
  /\ \/ PersonWrites(t, [txn[t] EXCEPT !.write = "VERIFIED", !.status = After(txn[t].op)])
     \/ PersonWrites(t, [txn[t] EXCEPT !.op = "recategorize", !.write = "NONE",
                                       !.status = Before(txn[t].op)])

PersonStep(t) ==
  \/ PersonStage(t) \/ PersonPrepare(t) \/ PersonEnter(t) \/ PersonGiveUp(t)
  \/ PersonAnswer(t) \/ PersonReconcile(t)

\* pauseLiveModeManually, evaluateCircuitBreakers, disconnect, dry run.
PauseLive ==
  /\ live /\ live' = FALSE
  /\ UNCHANGED <<dbVars, binding, shadow, lease, workerVars>>

\* Mutant: the unresolved writes are not counted.
EnableLiveUngated ==
  /\ ~live /\ shadow /\ binding.generation < MaxGeneration
  /\ live' = TRUE /\ binding' = [binding EXCEPT !.generation = @ + 1]
  /\ UNCHANGED <<dbVars, shadow, lease, workerVars>>

\* enableLiveMode: no unresolved write in the company, and a new scheduling intent.
EnableLive ==
  /\ ~live /\ shadow /\ binding.generation < MaxGeneration
  /\ ~AnyUnresolved
  /\ live' = TRUE /\ binding' = [binding EXCEPT !.generation = @ + 1]
  /\ UNCHANGED <<dbVars, shadow, lease, workerVars>>

\* updateShadowSettings, disconnect and reconnect.  The version is a hash of the settings
\* and returns with them; shadow mode, switched on anew, is a new scheduling intent; the
\* acceptance of another version no longer counts.
ChangeSettings ==
  \E c \in Configs, s \in BOOLEAN, again \in {0, 1} :
    /\ c # binding.config \/ s # shadow
    /\ again = 1 => s /\ ~shadow
    /\ binding.generation + again <= MaxGeneration
    /\ binding' = [config |-> c, generation |-> binding.generation + again]
    /\ live' = FALSE /\ shadow' = s
    /\ UNCHANGED <<dbVars, lease, workerVars>>

NewDay ==
  /\ PermitsOfToday # {}
  /\ permit' = [j \in Jobs |-> IF permit[j] = "today" THEN "earlier" ELSE permit[j]]
  /\ UNCHANGED <<txn, job, run, attempt, configVars, lease, workerVars>>

----------------------------------------------------------------------------
WorkerStep(w) ==
  \/ BeginRecovery(w) \/ Dispatch(w) \/ Prepare(w) \/ Confirm(w) \/ Complete(w)
  \/ TakeLease(w) \/ Decide(w) \/ Checkpoint(w) \/ StageRow(w) \/ PreCommit(w)
  \/ Persist(w) \/ Enter(w) \/ Send(w) \/ RecoverCommit(w) \/ Finish(w)

Next ==
  \/ Discover \/ Claim \/ AdminCancel \/ ExpireLease \/ NewDay
  \/ PauseLive \/ EnableLive \/ ChangeSettings
  \/ \E j \in Jobs : ExpireJob(j) \/ Reconcile(j)
  \/ \E t \in Txns : PersonStep(t)
  \/ \E w \in Workers : WorkerStep(w) \/ Crash(w)

\* The scheduler ticks for ever and an await of a worker ends; a lease that is
\* not renewed runs out.  Nobody is obliged to stage, post, pause or crash.
Fairness ==
  /\ WF_vars(Claim)
  /\ \A w \in Workers : WF_vars(WorkerStep(w))
  /\ \A j \in Jobs : WF_vars(ExpireJob(j))

Spec == Init /\ [][Next]_vars
FairSpec == Spec /\ Fairness

----------------------------------------------------------------------------
TypeOK ==
  /\ txn \in [Txns -> [status : RowStatus, rev : 0..(MaxRevision + 1),
                       op : Operations, write : PersonStatus]]
  /\ job \in [Jobs -> [status : JobStatus, tries : 0..MaxTries, live : BOOLEAN]]
  /\ run \in [Jobs -> [Tries ->
       [status : RunStatus, check : BOOLEAN, code : {None, "required"}]]]
  /\ attempt \in [Jobs -> AttemptStatus]
  /\ permit \in [Jobs -> {"none", "today", "earlier"}]
  /\ live \in BOOLEAN /\ binding \in Bindings /\ shadow \in BOOLEAN
  /\ lease \in [holder : Claims \cup {None}, live : BOOLEAN]
  /\ pc \in [Workers -> Steps]
  /\ claim \in [Workers -> Claims \cup {None}]
  /\ out \in [Workers -> Outcomes \cup {None}]

\* Claims of several processes, lapsed leases and late workers together never
\* hold more leases than the company's concurrency or the global limit
\* (claimShadowJobs counts under the capacity lock, renewJobLease revives none).
CapacityRespected == Cardinality(Alive) <= Least(Capacity, Concurrency)

\* A run is open only for the claim its job is on now: whoever takes, cancels or
\* ends a job closes the run the claim before it left open.
OpenRunIsCurrent ==
  \A j \in Jobs : \A n \in Tries :
    run[j][n].status = "running" => job[j].status = "running" /\ job[j].tries = n

\* While an autopilot write may have reached QuickBooks without an answer, live
\* mode is off, whoever enables it or changes the settings (markUncertain pauses
\* in its own transaction, enableLiveMode counts unresolved mutations).
UnsettledWriteStopsLive ==
  (\E j \in Jobs : attempt[j] = "UNCERTAIN") => ~live

\* A company never has two autopilot writes of unknown outcome: the authority
\* of a commit looks at every transaction of the company.
OneUnsettledWrite ==
  Cardinality({j \in Jobs : attempt[j] \in {"COMMITTING", "UNCERTAIN"}}) <= 1

\* Every write that may have been sent holds a permit, and a day never has more
\* permits than its limit, across retries, recoveries and midnight.
WritesArePermitted ==
  /\ Cardinality(PermitsOfToday) <= WriteLimit
  /\ \A j \in Jobs : attempt[j] \in {"COMMITTING", "UNCERTAIN", "VERIFIED"} => permit[j] # "none"

\* What the row says of a write that was verified, once a person undoes it.
Shown(t) ==
  CASE txn[t].write = "UNCERTAIN" -> "ERROR"
    [] txn[t].write = "VERIFIED" -> "REVERTED"
    [] OTHER -> "POSTED"

\* While an autopilot write may have reached QuickBooks, its row is the one it was staged
\* on, says how the write stands and bears no attempt of a person.  Once the write is
\* verified the row keeps its revision and is never categorised again: only an undo moves
\* it, to REVERTED when the restore is verified and to ERROR while that is in doubt.  Only
\* the run of a verified write is posted.  Against persons, late workers, expired leases
\* and reconciliation; the retry of an errored row, the legacy undo and sync's superseding
\* step, which update a row without an attempt, are not among the actions.
SentWriteOwnsRow ==
  \A j \in Jobs :
    /\ attempt[j] \in {"COMMITTING", "UNCERTAIN"} =>
         /\ RowOf(j).rev = j.rev + 1 /\ RowOf(j).write \notin Unresolved
         /\ RowOf(j).status = IF attempt[j] = "UNCERTAIN" THEN "ERROR" ELSE "PENDING"
    /\ attempt[j] = "VERIFIED" =>
         /\ RowOf(j).rev = j.rev + 1
         /\ RowOf(j).write # "NONE" => RowOf(j).op = "restore"
         /\ RowOf(j).status = Shown(j.txn)
    /\ \A n \in Tries : run[j][n].status = "posted_verified" => attempt[j] = "VERIFIED"

\* A write that may have been sent is never prepared, parked or failed again:
\* nothing but an answer or a reconciliation settles it.
SentIsNeverRearmed ==
  [][\A j \in Jobs : attempt[j] \in {"COMMITTING", "UNCERTAIN"} =>
       attempt'[j] \in {"COMMITTING", "UNCERTAIN", "VERIFIED", "UNCHANGED"}]_vars

\* A worker whose claim is no longer its job's stores no outcome, posts no run
\* and starts no write, wherever the lease was lost.
LateClaimChangesNothing ==
  [][\A w \in Workers :
       /\ claim[w] # None
       /\ job[claim[w].job] # [status |-> "running", tries |-> claim[w].n, live |-> TRUE]
       /\ pc'[w] # pc[w] /\ claim'[w] \in {claim[w], None}
       =>
         /\ job' = job
         /\ \A j \in Jobs : attempt'[j] = "COMMITTING" => attempt[j] = "COMMITTING"
         /\ \A j \in Jobs : \A n \in Tries :
              run'[j][n].status = "posted_verified" => run[j][n].status = "posted_verified"]_vars

\* A job that owns a prepared write the company's row still stands for leaves the
\* queue only when a worker holding it ends it: a claim, its cancellations, the
\* last lapsed claim and the administrator's cancel all keep or retire the write.
PreparedKeepsItsJob ==
  [][\A j \in Jobs :
       /\ attempt[j] = "PREPARED" /\ attempt'[j] = "PREPARED"
       /\ Recoverable(j)
       /\ job[j].status \in Pending /\ job'[j].status \notin Pending
       => \E w \in Workers : pc[w] = "finish" /\ claim[w].job = j /\ Holds(w)]_vars

\* A job that waits or runs ends or is cancelled, whatever crashes and lapses.
JobsSettle ==
  \A j \in Jobs : job[j].status \in Pending ~> job[j].status \notin Pending

\* jobs.ts: a job's retry "is the only thing that resumes or reconciles its
\* attempt", so a job that has completed never leaves a prepared write behind.
CompletedOwesNoWrite ==
  \A j \in Jobs : job[j].status = "completed" => attempt[j] # "PREPARED"

\* livePause.ts: the company is paused because "a live mutation requires
\* reconciliation", so once nobody works on the job, reconciliation finds it.
UncertainIsReconcilable ==
  \A j \in Jobs : attempt[j] = "UNCERTAIN" =>
    \/ job[j].status \in Pending
    \/ \E w \in Workers : claim[w] # None /\ claim[w].job = j
    \/ Reconcilable(j)

=============================================================================
