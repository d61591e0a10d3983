# Recat: a verification project

Recat takes bank transactions that QuickBooks Online (QBO) holds on a holding account, lets
people, MCP clients and an autopilot categorize them, and writes the result back. The modules
beside this file model how it writes: what serialises writers, what happens to a write whose
answer is lost, how a transfer of two entities is written leg by leg, what the queue, sync
and retries may do to a row meanwhile, how the autopilot's jobs are claimed, sent and recovered,
how files are attached to a transaction and a receipt to its match, how the reads of a realm queue
at its gate, and how the tokens of a connection are rotated, taken away and revoked. All paths below
are relative to the repository root; `services/` stands for `server/src/services/`.

## 1. The system

### Parts, state, operations, interactions

| Part | State it keeps | Operations | Touches |
| --- | --- | --- | --- |
| Entity lease (`services/entityLease.ts`) | `QboEntityLease`: owner and expiry per entity | acquire, renew, fence, nest, release | every writer runs under it |
| Durable writeback (`services/writeback.ts`) | `QboMutationAttempt`, the row's status, revision and SyncToken | commit, resume, guarded live commit, undo, reconcile, retryError | lease, company mutation scope, QBO client, audit |
| Direct posting (same file) | the row (`PENDING`, `POSTING`, `POSTED`, `ERROR`) | post, undoPost, bulkPost, retryError | QBO client |
| Staging (`services/categorization.ts`) | revision, lines and tags of a row | stage with compare-and-swap | lease, attempts |
| Sync (`services/sync.ts`) | rows mirrored from QBO, sync cursors | mirror, supersede | lease, attempts |
| Transfers (`services/transferOperations.ts`, `transferExecution.ts`) | `QboTransferOperation`, one attempt per leg | prepare, commit, reconcile, retry | two leases, QBO client |
| Company mutation scope, live authority | advisory locks, `company.liveEnabled...` | lock, revoke | attempts, jobs |
| Autopilot (`services/agent/*`) | jobs, runs, permits, breakers, pauses | discover, claim, renew, finish, cancel, issue permit, pause | guarded live commit |
| MCP operations (`services/mcp/`) | operations with idempotency keys | prepare, commit, read | writeback, transfers |
| Attachments (`services/attachments/operations.ts`) | operation, its file and the attachment, each with a status; stored content | attach, delete, retry, reconcile, recover, refresh | QBO client |
| Receipts (`services/receipts/`) | receipt, job queue | extract, match, attach, undo | attachments, lease, extractor |
| QBO client and gate (`server/src/lib/qbo/*`) | one queue of requests and two deadlines per realm | read, prepare, send, wait | QuickBooks |
| Connection (`factory.ts`, `routes/qboOauth.ts`, `qboTokenRevocation.ts`, `companyLiveAuthority.ts`) | the tokens of the company, `QboTokenRevocation` | rotate, connect, disconnect, quarantine, revoke | Intuit |
| Scheduler (`server/src/jobs/scheduler.ts`) | once-a-day claims | nightly run, sweep of stuck posts | sync, posting |
| Rules, suggestions, reports, web client | statistics, projections | read, approve | - |

The parts meet in the database. There are no messages between them and no shared memory; two
invocations interact when one changes a row, an attempt or a lease between two awaits of the
other. QuickBooks is the one remote party: a request may be refused, lost, applied late, or
applied with its answer lost, and people edit the same entities there.

### What is hard, and what correct means

* **Lease.** Statements of several transactions wait for each other's row locks and compare with
  the time their transaction began. Correct: no takeover of a lease with time left, a fenced row
  keeps its owner until the fencing transaction ends, rows come all or none, no ring of waiters.
* **Durable writeback.** Crash, timeout or expired lease between claiming an attempt and hearing
  the answer. Correct: a request leaves the server at most once, what leaves is what is staged, and
  what the row says afterwards is true of QuickBooks.
* **Staging and sync.** They change the same row. Correct: never while a write is unresolved.
* **Transfers.** Two entities, no transaction spans them. Correct: the second leg follows a settled
  first one; a leg that was given up never lands; nothing is left waiting behind a failed leg.
* **Direct posting.** No attempt, no lease: a status claim and a sweep after five minutes.
  Correct: whatever overlaps, no total is rewritten and nobody's edit is taken back.
* **Autopilot.** Claims under a capacity lock, leases of jobs, cancellation, daily limit. Correct:
  never over capacity, a late worker changes nothing, no prepared write strands a row.
* **Attachments and receipts.** Three rows that change in different transactions around a request
  whose answer may be lost. Correct: nothing stays busy without an operation that can settle it, the
  content is there until QuickBooks has the file, a receipt lets go of its file only once it is gone.
* **Gate.** One request at a time per realm in order of arrival, also when waiters abort; every call
  ends.
* **Connection.** Every client rotates the tokens on its own while the company is disconnected and
  connected anew. Correct: no rotation outlives the connection it began in, a client uses only what
  was stored, a revocation never hits the tokens of a later connection.

`PROJECT.json` lists every component and every hazard with its line.

## 2. Modules

| Module | Models | Uses |
| --- | --- | --- |
| `EntityLease` | the lease table, statement by statement | - |
| `EntityLeaseProofs` | its theorems | `EntityLease` |
| `AtMostOnceWrite` | the contract of the attempts of one entity, abstractly | - |
| `DurableWriteback` | calls of `writeback.ts` on one entity, with staging, sync, retryError, QBO | instance of `AtMostOnceWrite` |
| `DurableWritebackProofs` | its theorems, the refinement among them | `DurableWriteback` |
| `Transfers` | preparation, commit, reconciliation and retry of a pair | - |
| `TransfersProofs` | its theorems | `Transfers` |
| `AgentJobs` | the autopilot of a company: queue, claims, shadow and live runs, authority, permits, recovery, reconciliation, switch | - |
| `AgentJobsProofs` | its theorems | `AgentJobs` |
| `DirectPosting` | posts, undos, retries, sync and sweep of a row without attempts | - |
| `DirectPostingProofs` | its theorems | `DirectPosting` |
| `Attachments` | the attachment operations of one transaction | - |
| `Receipts` | a receipt that is attached and undone through them | extends `Attachments` |
| `ReceiptsProofs` | theorems of both | `Receipts` |
| `RequestGate` | the gate of a realm and the GETs that pass it | - |
| `RequestGateProofs` | its theorems | `RequestGate` |
| `Connection` | clients, callbacks, disconnects and revocations of one company | - |
| `ConnectionProofs` | its theorems | `Connection` |
| `MCDurableWriteback`, `MCTransfers`, `MCAgentJobs`, `MCDirectPosting`, `MCReceipts`, `MCConnection` | the kinds of operations and the symmetry used by the runs | |

### EntityLease

`owner[k]` and `ttl[k]` are a row of `QboEntityLease` (the expiry as time left), `lock[k]` is the
PostgreSQL row lock, `op`, `todo`, `done`, `age` describe the open transaction of an operation.
`Visit` is one statement on one key; it waits while another open transaction holds the row
(`RowFree`) and is evaluated on the committed row (READ COMMITTED). `Start`, `Renew`, `RenewAll`,
`Fence`, `FenceAll` open a transaction, `Commit` and `Abort` end it, `Nest`/`Unnest` are re-entrant
calls, `Release` and `ReleaseFails` the cleanup, `Crash` the death of the process, `Tick` time.
An interactive transaction does not stay open longer than `TxTimeout` (Prisma's timeout).

### DurableWriteback

One row, one entity, overlapping `Calls`, attempts by request id. `pc[c]` names the next step of a
call; a step is one database transaction or one request to QuickBooks, so every await another call
can slip into is a step boundary. `txn`, `attempt` are the two tables; `qbo`, `wire`, `landed`,
`sends` are QuickBooks and the network; `lease` is the lease of the entity, reduced to its holder
and whether it is live (what `EntityLease` establishes of one row: nobody else gets it while it is
live, and a fence keeps it). Main steps and their code:

| Step | Code |
| --- | --- |
| `FindCommit`, `FindUndo`, `LoadRow` | `findRequestOrConflict`, `loadAuthorizedStage`, `loadVerifiedSource` |
| `Prepare`, `Persist` | fresh read and preparation, `persistPrepared` |
| `Renew`, `Reload`, `Prove`, `RenewStage` | the proofs before the transition |
| `Transition`, `TransitionFails`, `GiveUp` | `enterCommitting`, `markRetryable` |
| `SendPrepared`, `Answered`, `Readback` | `sendAndVerifyPrepared` |
| `FinalizeVerified`, `FinalizeUnchanged`, `MarkUncertain`, `MarkMismatch`, `SettleFails` | the finalizations |
| `ReconcileLoad`, `ReconcileReload`, `ReconcileRead` | reconciliation |
| `StageCas`, `StageCommit` / `Mirror`, `Supersede` | `stageWithOwner` / `runSyncCompany` |
| `RetryRead` ... `RetryWrite` | `retryError` |

A categorization is named by the revision it was staged at; QuickBooks holds that number, `Held`
(still on the holding account) or `Elsewhere`.

### Transfers

Two rows, two entities, operations with an attempt per leg; a retry is an operation with a parent
and inherits the parent's verified legs (`Request`). Both leases are one (`lease`): every call here
takes both in one transaction, and the other writers appear only as `Others`, which acts when the
lease is free. Steps follow the functions of `transferExecution.ts` (`enterCommitting` is `Claim`,
`refreshCommittingAuthority` is `Refresh`, `Strict` with `strictLocalState`, `finalizeDryRun` is
`FinalizeDryRun`, `reconcileLeg` is `RLoad`, `RRead`, `RVerify`, `RUnchanged`, ...).

* A heartbeat guard that stands next to a read is one step with it: a guard looks only at the
  database and a read only at QuickBooks, so their order cannot be told. `Heartbeat` is the timer's
  tick in between; once it has failed (`lost`) every later guard fails.
* The two reads of a preparation (`ReadLegs`) are one step; each leg is read again before it is
  claimed and before it is sent.
* `quiet` holds the attempts whose `updatedAt` is older than the quiescence of 60 s.

Two assumptions about time are explicit:

1. `BecomeQuiet`: a request takes less than the quiescence from its last guard to QuickBooks. It is
   what the comment at `transferExecution.ts:286-289` says the period is for.
2. `LongStalls = FALSE` (in `LeaseExpires`): a call that has lost its leases notices before those of
   its successor run out; heartbeats come every 10 s, a lease lasts 30 s. With `LongStalls = TRUE`,
   TLC refutes `UnsentIsUntouched`: B computes that an attempt is quiet and reads the original
   entity (`transferExecution.ts:1948`), B stalls until its lease has run out, the sender A revives
   its own lease in its last guard and sends, A's lease runs out too, B resumes, renews, finds the
   attempt still `COMMITTING` and closes it as `UNCHANGED`; then the request lands. Comparing
   `updatedAt` in the update of `finalizeUnchanged` would close this window.

### AgentJobs

A job is named by its transaction, the revision and the binding (configuration version and
scheduling generation) it was discovered for, as its unique index is; `run[j][n]` is the run of its
n-th claim, `attempt[j]` the attempt whose request id is derived from the job, `permit[j]` its daily
permit. A worker is one claimed job in one process: `pc`, `claim` (job and claim number), `out`. What
a worker does between two steps (inference, verification, reading QuickBooks) is a step boundary. The
configuration version is a hash of the settings and returns with them (`settings.ts:269`), so it is one of
`Configs`; only the scheduling generation grows.

`txn[t]` is the row and, in `op` and `write`, the durable attempt a person has for it: the commit of what is
staged or the restore of what was posted, whoever posted it.

| Steps | Code |
| --- | --- |
| `Discover`, `Claim`, `ExpireJob`, `AdminCancel` | `agent/jobs.ts` |
| `Dispatch`, `Prepare`, `Confirm`, `Complete` | `agent/worker.ts`: shadow runs; a claim whose job is not fresh is cancelled |
| `TakeLease` ... `PreCommit`, `Finish` | `agent/liveWorker.ts`: live runs |
| `Persist`, `Enter`, `Send` | the guarded live commit of `writeback.ts`, with `liveMutationAuthority.ts`, `liveWriteLimit.ts` |
| `BeginRecovery`, `RecoverCommit` | `beginProductionLiveRecovery` and the retry of a parked attempt |
| `Reconcile` | `agent/liveReconciliation.ts` |
| `PauseLive`, `EnableLive`, `ChangeSettings`, `NewDay` | `livePause.ts`, `liveGates.ts`, `settings.ts`, the UTC day |
| `PersonStage`, `PersonPrepare`, `PersonEnter`, `PersonGiveUp`, `PersonAnswer`, `PersonReconcile` | `stageWithOwner`, and `commitStagedCategorization`, `undoCategorization` and `reconcileMutationAttempt` of a person up to each of their transactions |

The company's live lease and the entity lease a live run takes together are one variable. Which job
a claim prefers, back-off and what trips a breaker are left open: any due job may be taken and live
mode paused at any time.

A person's call leases the entity where it begins, stages or enters `COMMITTING`; its lease may run out
between two steps, so it is not kept. Undoing a verified write of the autopilot sets the row to `REVERTED`, or to
`ERROR` while the restore is in doubt, and leaves the attempt of the job `VERIFIED` (`writeback.ts:2862-2874`);
a restore closed as unchanged gives the row back as `POSTED`. `SentWriteOwnsRow` says exactly that and no more.
Left out are the writers that update a row without an attempt for it: `retryError`, which may offer a row again
that a restore in doubt left at `ERROR`, the legacy `undoPost`, and sync's superseding step; the clause of that
property on verified writes does not speak of rows they have touched. Left out as well are dry runs of persons
and the legs of transfers. `DurableWriteback` has retry and sync on the same row.

The daily limit may be lowered after permits were issued: a permit is refused at any number of permits between
one and `WriteLimit`, the largest limit ever set. The limit, the day and the count are read in one transaction
under the lock of the company, so they are one step; that midnight passes between requests is `NewDay`.

### DirectPosting

One row, one entity, overlapping handlers; `seen[c]` is what a handler has read and holds across its
awaits, `Settled` the update by id it ends with. QuickBooks compares the SyncToken of a request (`Land`)
and a request that was sent may land after its handler has given up or died. `Age` and `Sweep` are the
five minutes of `sweepStuckPosting`; the mirror of sync sets `updatedAt` and so starts them anew.

### Attachments and Receipts

`op[o]` is an operation with its one file, `file[f]` the attachment; the three statuses are kept apart
because the code changes them in different transactions. `copies[f]` is what QuickBooks holds under the
attachment's marker: more than one when a request that was given up lands after a retry. In `Receipts`
the handler takes the entity's lease, fences it in each transaction, and works on the receipt through
the operations of `Attachments`, in which it stands as one more kind of caller (`for`). Abstractions:

* One file per operation, so an aggregate never is `PARTIAL`. Deletion is deletion everywhere; local
  deletion, saving an external file and the retention sweeps are left out.
* Loading an operation and claiming it (`dispatchAttach`) are one step: the claim compares the statuses.
* `mix` is the set of things that may happen in a behaviour. The runs need no deletion by a person
  together with a reconciliation of a person and a receipt: each set of `Mixes` is a family of
  races over the same rows, and the run takes all of them.
* `Stuck`: recovery acts only on operations whose handler is over. It looks for operations that are
  five minutes old and acts on them without comparing the age again (`operations.ts:1718-1746`); when a
  listing and its action stretch over a slow reconciliation, that reconciliation writes `FAILED` over
  `DELETED` with its updates by id. Left out by this assumption, not excluded by the code.

### RequestGate

`turn[r]` is the number of a request's promise in the chain of `getGate.ts` and `released` the promises that
are resolved; `state.tail` waits for all the turns before its own, so a waiter that aborts early
resolves its turn without letting anybody pass. `spacing` and `cooldown` are `nextStartAt` and `notBefore` as time
left, `sleep[r]` the timer of the loop, which reads both deadlines again when it fires. `Unauthorized` is the
first 401: the request leaves the gate, refreshes the token and takes a second turn. `PostRateLimited` is a
POST: it takes no turn, but its 429 extends the cooldown of the same realm. The parsing of `Retry-After`
and a restart of the process, with which the gate of a realm is new, are left out.

### Connection

A token stands for a token set. `Open` ... `PersistRefused` are a client (`factory.ts`, `real.ts`): it is made
of the row's tokens, rotates them, stores the new ones if the row still has the tokens it held, and only then
uses them. `Exchange` ... `Publish` are the OAuth callback, `Disconnect` is the serializable transaction
that quarantines the token it takes away, `Load` ... `Delete` a worker of `qboTokenRevocation.ts` with its
lease of a minute. What Intuit does with an older token of a connection that was not revoked is left open:
it may rotate it or refuse. Several companies, which share nothing here, and the demo connection are left out.

## 3. Runs

| Run | Instance | What it shows |
| --- | --- | --- |
| `entity_lease` | 2 operations, 2 entities, lease of 2 ticks, transactions of up to 2 ticks, 1 nested call | all safety properties of the lease, and that every transaction ends |
| `writeback_person` | 2 calls, 2 request ids, 2 stagings, edits up to token 2 | commit, resume, undo, reconcile and stage of people interleaved: `SentAsStaged`, `PostedIsCategorized`, `VerifiedWasWritten`, `PostedHasOneSource`, the refinement of `AtMostOnceWrite` |
| `writeback_live` | 2 calls: live commits, reconciliation, `retryError`, both halves of sync; the dry-run switch moves | `PendingIsHeld`: a row that is offered again is on the holding account |
| `transfers_commit` | 2 calls on one pair, edits in QuickBooks | `TypeOK` (each request leaves at most once), `UnsentIsUntouched`, `VerifiedWasApplied` |
| `transfers_retry` | 1 call at a time with crashes, an operation and its retry, dry-run switch, restaging | `SecondAfterFirst`, `NothingLeftBehind`, `RowTellsOutcome` |
| `agent_jobs` | 1 transaction, 2 workers, 2 claims a job, 2 scheduling generations; persons stage the row and undo the autopilot's write | jobs, runs, attempt and row agree whatever is late or undone; the switch; no write is re-armed; a prepared write keeps its job |
| `agent_company` | 2 transactions, a worker that crashes while the leases it left run out, 1 claim a job, global limit 1, 1 write a day; persons post one row and undo the other; fairness | `CapacityRespected`, `OneUnsettledWrite`, `WritesArePermitted`, and that every job ends: `JobsSettle` |
| `direct_posting` | 2 handlers of every kind, 2 amounts, 3 versions | `PostKeepsTheTotal`, `UndoSparesEdits` |
| `receipts` | 2 handlers, 3 operations on 1 file, 2 uploads, 3 mixes | `BusyFileHasOperation`, `ContentIsKept`, `UndoneIsGone` |
| `receipt_undo` | attach and undo alone | violated: `AttachedWasVerified` |
| `request_gate` | 3 GETs, each with a retry after a 401, cooldowns of 1 and 2 ticks, 1 rejected POST, fairness | `OneGetAtATime`, `StartsInOrder`, `EveryCallEnds` |
| `connection` | 2 clients, 2 callbacks, 1 worker, 4 token sets, 1 lost or stalled revocation | `StoredIsThisSession`, `UsesOnlyStored`, `RevokedIsNotCurrent`, `RotationReplacesItsParent` |

Type invariants are proved (section 4) and not run again, except the one of the transfers, which also
counts the times each request leaves.

Bounds. Two calls are enough for every race of the code, which is between a call and the one that
took over its lease; `Crash` makes one model call stand for many, one after the other. Two request
ids allow a write and its undo, or an attempt and its successor; two operations allow a transfer and
its retry, and the code admits no second retry. `MaxRevision = 2` lets a row be staged once more than
at the beginning, `MaxToken` lets somebody edit the entity before or between the writes (tokens that
requests produce are not bounded by it). `Switch` is the set of positions of the dry-run switch.
`MaxDepth = 1` is one re-entrant call. In `entity_lease` a lease of two ticks can be taken, half used,
renewed and expire within one transaction. Calls, requests and operations are symmetric; the liveness
property is checked without symmetry.

Of the autopilot, two workers and two claims give a late worker, its successor and the last claim
(`agent_jobs`); two transactions under a limit of one are the least in which a limit can be exceeded. In
`agent_company` one worker is enough for that: a job it left by a crash holds its claim until its
lease runs out, while the worker claims the other. Nobody enables live mode again there and a job has one claim,
so `JobsSettle` covers no retry of a job and `OneUnsettledWrite` no second write let through by a new
enabling (`SingleWrite`, section 4, does). Retries of one job, restaging and enabling are left to `agent_jobs`,
where `MaxGeneration = 1` is one new scheduling intent. `PersonOps` bounds what persons write themselves:
in `agent_jobs` they undo the row, since what is new for a job of the autopilot is that its verified write is
taken back; in `agent_company` they post one row and undo the other, which counts against the authority of
the other transaction either way. The theorems have no such bound. In both runs there is one configuration
version, as a change of it and a change of the switch cancel the same jobs.

`writeback_person` has no undo after an undo: a row that was reverted is committed again only after
`retryError`, which that run leaves out (below). `transfers_retry` has one call at a time, so a retry there
never meets a parent that somebody still commits; the theorems on `SecondAfterFirst` and `RowTellsOutcome` do. Two
amounts and three versions of the entity let somebody edit it before, between and after a post and its
undo. Three operations on one attachment are an upload, a deletion and its successor; two uploads are
the second one of a retry; revisions bound where work on the receipt begins, not where it ends.
Three GETs let one abort between one that runs and one that waits. Four token sets are two connections with
a rotation each, or one connection that two clients rotate at once.

Deadlock is checked for `entity_lease` and the transfers. In `DurableWriteback` every request id is
used once, so when all are settled and nothing is left to edit or stage the model rightly stops; so
do `AgentJobs` when every job has ended, `DirectPosting` at the last version, `Attachments` at the last
operation, `RequestGate` when every GET has ended and `Connection` when no token set is left to issue.

Fairness. `EntityLease`, `AgentJobs` and `RequestGate` have a liveness property. `SF` on the statements of a transaction is
PostgreSQL's queue of waiters on a row lock (a lock that is free again and again is granted in the
end), `WF` on `Commit` is that a transaction whose statements have passed commits. No fairness is
assumed of `Tick`, `Finish` or `Release`: the property holds without any timeout's help.
`JobsSettle` rests on `WF` of `Claim` (the scheduler ticks for ever, `agent/scheduler.ts`), of a worker's
steps (an await ends; `Crash` may still stop it at any of them) and of `ExpireJob` (time passes). Nobody
is obliged to stage, post, cancel, pause or enable. That the number of claims of a job is bounded
makes it true; a job that is pending when nothing changes is claimed, ended, exhausted or cancelled.
`EveryCallEnds` rests on `WF` of the steps of each request (every request of the client has a timeout, and a
timer fires) and of `Tick`; nobody is obliged to call or to abort, and 429s may come at any answer.
For writeback, transfers and attachments the code promises no progress: an `UNCERTAIN` attempt whose entity
somebody edited waits for a person for ever.

### Where code and statement part

`receipt_undo` is a run that is meant to fail. An attach that times out leaves the receipt `ATTACHING` with its
file uncertain. An undo then passes its first transaction, its deletion is refused since the attachment is
busy, and the error handler restores `ATTACHED` (`matching.ts:938`): the receipt says it is attached though
nobody knows whether QuickBooks has the file, and neither attach nor reconciliation of the receipt can be
entered again. The tests state the contrary for the attach ("keeps an uncertain upload attaching with its
local blob", `matching.pg.test.ts:700`).

Other statements of comments and documents were found broken on the way. Their definitions stay in the
modules; put one in place of the properties of the run named to see the schedule.

* `UnchangedNeverLands` (`writeback_person`): an attempt closed as "unchanged" can still be applied;
  `finalizeUnchanged` of `writeback.ts` waits for no quiescence, while the transfers' own does.
* `SupersededHasLeft` (`writeback_person` with retry and supersede among its kinds): sync supersedes a row whose
  entity is on the holding account. The restore of an undo ends uncertain; `retryError` reads the row in
  `ERROR`; a reconciliation closes the restore as "unchanged"; sync lists the holding account; the restore
  lands; the retry finds the entity there and sets `PENDING`; sync, whose fence meets no unresolved attempt,
  drops the row that is not on its list (`sync.ts:396`).
* `NoGetDuringCooldown` (`request_gate`): a GET leaves for QuickBooks during a cooldown. The loop of the gate
  compares the deadlines before it runs the operation, which then may refresh the access token
  (`real.ts:1108`); a 429 of a POST meanwhile extends the cooldown (`real.ts:1344`), and nobody looks again.
* `RetryOnlyFromError` (`writeback_live`): `retryError` is described as ERROR to PENDING, but updates by
  id; a reconciliation that settles the attempt in between is overwritten.
* `NoRestoreInDryRun` (`writeback_person`, with both positions in `Switch`): with the switch on, an undo still
  writes to QuickBooks, which the README's "never write to QuickBooks" excludes.
* `FirstWrittenBeforeSecond` (`transfers_retry`): the switch goes on and off during a commit; leg A is finished
  as a dry run and leg B is written, against "leg A's QBO write ... before leg B starts". The pair can then
  neither be committed further nor retried.
* `OnePostAtATime` (`direct_posting`): a post slower than five minutes is swept to `ERROR`; a retry queues the
  row, a second post claims it and both are on their way, against "two racing posts cannot both reach
  QuickBooks". `PostKeepsTheTotal` is what is left of the promise, by the SyncToken.
* `CompletedOwesNoWrite` (`agent_jobs`): a recovery that finds the entity busy ends with "abstain" and completes
  the job over its prepared attempt, against the comment that a retry of the job "is the only thing that
  resumes" it (`jobs.ts:547-555`). The attempt blocks its row and, by `enableLiveMode`, the switch.
* `UncertainIsReconcilable` (`agent_jobs`): a live write that ends uncertain stores the code of the write
  (`QBO_WRITE_UNCERTAIN`) on its run; every reconciliation looks for `LIVE_RECONCILIATION_REQUIRED`, which only
  recovery stores (`liveWorker.ts:989`, `liveReconciliation.ts:230`). Live mode then stays paused.

Two properties of `writeback_person` do not survive the other writers of the row, which is why the
theorems about them have a hypothesis and that run has persons only:

* `PostedIsCategorized` with `mirror`: a restore that was closed as "unchanged" lands late; sync mirrors the
  entity and stores its new SyncToken on the row, which still says `POSTED`.
* `PostedHasOneSource` with `retry`: the restore of an undo ends uncertain and the row is `ERROR`. `retryError` reads
  it; a reconciliation closes the restore as unchanged and the row is `POSTED` again; the restore lands; the retry
  finds the entity on the holding account and sets `PENDING`; it is categorized once more. Now two attempts are
  verified categorizations of the row, and an undo cannot tell which to take back.

Seen in the code and in the models without a property of their own:

* `undoPost` has no claim: the undo of a dry run that races another undo and a real post sets `PENDING` over
  `POSTED`; the categorize route updates by id while the row is `POSTING`.
* A receipt whose attach was uncertain and found nothing on resuming is `MATCHED` with its attachment id
  still set: no attach, match or undo accepts it. The same happens when the transaction is staged anew
  while the receipt is `ATTACHING`. A crash during the upload of a receipt's operation leaves it
  `COMMITTING` for ever, because recovery skips operations of receipts.
* An operation whose file failed while the row says `DELETING` (a crash before `updateAggregate`) is set to
  `UNCERTAIN` by recovery and refused by retry and reconciliation alike.
* A reconciliation that finds no copy while the upload is still on its way lets a retry upload again.
* A receipt without retention that is undone has lost its content everywhere.

A smaller thing met on the way: `finalizeDryRun` of a single leg that finds the operation expired
gives only that leg up; the other stays `PREPARED`, and blocks its row, until somebody commits the
operation again. `NothingLeftBehind` has the exception for it.

## 4. Proofs

TLC checks the instances above; the theorems hold for every value of the constants.

`EntityLeaseProofs` (assumptions: `KeysAssumption`, `NoneAssumption`, `TimeAssumption`,
`DepthAssumption`). The invariant `IInv` joins to `TypeOK`: a row lock is held by an operation that has
the key in `done` of its open transaction and the other way round (`LocksMatch`), only open
transactions have statements left (`OnlyOpenTransactions`), keys are visited in canonical order
(`InOrder`), what is wanted is visited or still to do (`Covers`), what a statement saw of its
row still holds (`SeenHolds`), depths fit (`NestFits`). None of the properties is inductive alone: `FencedRowKept`, for
one, needs that nobody else's statement can pass on a locked row. From it: `TypeCorrect`, `FenceSafe`,
`NoEarlyTakeover`, `AllOrNone`, `RowsGoWithTheirOwner` (a row disappears only by the release of the operation it
names) and `DeadlockFree`. The last argues that in a ring of waiters the one that waits for the last key in
order waits for somebody who has passed it and therefore waits for none.

`DurableWritebackProofs` (assumptions: `NoneAssumption`, `LiveAssumption`, `KindsAssumption`,
`BoundsAssumption`). `IInv` is `TypeOK`, `CallsOK` (what a call may rely on at each step: its request, its
kind), `StageSafe` (between the last reload and the transition the attempt is `PREPARED`, so the row
cannot be staged anew), `NotRestaged` (the row of an unresolved attempt shows its revision and no
stager has it locked) and `SentByOne` (at most one call is about to send a request, and only one not
yet sent). There is one lemma per action. From it: `TypeCorrect`, `StagedAsSent` (`SentAsStaged`) and
`RefinesAtMostOnceWrite`: initial states map to initial states, every step to a step of
`AtMostOnceWrite` or a stutter.

Three more invariants, each proved on top of the ones before it, say what the row and the attempts tell of
QuickBooks:

* `VersionInv`: tokens grow with every change of the entity, so what somebody knows of a version stays
  true as long as that version is the present one. It says what that is, for the row in each status and for a
  call at each step. From it `PendingRowsAreHeld`, for every kind of call, and `PostedRowsAreCategorized`,
  for `"mirror" \notin Kinds`.
* `WrittenInv`: no content appears in QuickBooks that was not applied. An entity that holds a categorization
  has had a request with it applied; one that is back on the holding account after something was written has
  had a restore applied; a call about to settle an attempt as verified has seen one or the other. From it
  `VerifiedIsWritten`, for every kind of call.
* `StoryInv`: how the status of the row follows from its attempts. A `POSTED` row has one verified
  categorization, of the staged revision, and no verified restore of it; a row that can be committed has
  none that is not restored; an undo that was prepared restores the one there is. From it
  `PostedRowsHaveOneSource`, for `"retry" \notin Kinds`.

Both hypotheses are needed: the schedules that violate the properties without them are in section 3. They
exclude a kind of call, not a state, and the run of persons checks the properties under the same ones.

`DirectPostingProofs` (assumption: `BoundsAssumption`). Versions of the entity never come back, so a request
that still names the present version was built from the entity as it is: `Known` says of every version a
handler or a request holds that it is no later than the present one, `Posts` that a handler about to send a
post, and a post on the wire, agree with the entity on place and total as long as their version is the
present one, and `Undoes` that an undo whose version is the present one takes back what a post wrote. The
last needs what the row and the handlers may claim of a version somebody posted. From it: `Typing`,
`TotalsKept`, `EditsSpared`.

`AgentJobsProofs` (assumptions: `BoundsAssumption`, `NoneAssumption`). Most of the work is to say, for the
whole of `Next`, who changes what and how: an attempt is sent, settled or changes below the send
(`AttemptSteps`); a run begins, is closed, ended or cleared (`RunSteps`); a worker moves by its own step or is
given a claim (`Mover`); a claim numbers its jobs and gives each to one worker (`ClaimSteps`); a row is staged,
posted or undone (`RowSteps`, `UndoSteps`). `IInv` has then five parts: types with "busy workers have a claim"; the bound on unexpired claims, kept by counting in
`ClaimKeepsBound`; at most one write sent and unsettled, its permit, the switch and the row with the attempt of a person
(`WriteInv`: by `PersonRows` the attempt of a person tells the status of its row, so none but a restore can be at
the row of a verified write);
outcomes and runs that say posted belong to verified attempts; and `RunInv`: open runs are current, no run
exists beyond the job's count, no two workers share a claim, claims do not exceed the count, and a worker
that has not prepared yet has no run. `OpenRunIsCurrent` alone is not inductive: a worker that prepares must
not find the open run of somebody else with the same number. The theorems: `Typing`, `Capacities`,
`SingleWrite`, `PermittedWrites`, `UncertaintyStops`, `WriteOwnsRow`, `RunsAreCurrent`, `SentStaysSent`,
`LateWorkersAreHarmless`. `PreparedWritesKeepTheirJobs` needs one invariant more, `PreparedInv`: a transaction has
one unresolved attempt at most, of a job or a person, an attempt is prepared by a worker that has stored its checkpoint, and the
holder of a job with a write to resume never gets past the recovery without resuming it.

`TransfersProofs` (assumptions: `NoneAssumption`, `KindsAssumption`, `BoundsAssumption`) works in two layers.
`IInv` needs no lease and no clock: a leg has at most one attempt that is not given up (`OneLive`), every step
moves an attempt forward only (`Evolves`), a call at leg 2 has seen leg 1 finished, and finished legs stay so
(`Ordered`), and of the calls that are about to send a request one has claimed it (`OneClaimer`). From it:
`TypesHold`, `SecondLegWaits`, `RowsTellOutcome`, `NothingStaysBehind`. None of these depends on the leases: the
compare-and-set of the attempts carries them. `WireInv` says what has left the server, and does depend on them,
so it is proved under `~LongStalls`: a waiting call that has not noticed losing the leases still has them, or
nobody's have run out since (`Heeds`); an attempt that a reconciliation found quiet has no sender that can
still move (`Recovers`); a request that was sent belongs to an attempt in `COMMITTING`, `UNCERTAIN` or
`VERIFIED`; and whoever sees another SyncToken than the prepared one, with the target in place, sees a request
of that leg that landed. From it: `UnsentStaysUntouched`, `VerifiedWasSentAndApplied`.

`ReceiptsProofs` (assumptions: `BoundsAssumption`, `RevisionAssumption`) proves both `Attachments` and `Receipts`,
since a receipt works through the operations of the other. It has three layers.

* `RowsInv` relates the three rows. A busy operation and its attachment fit (`Fits`), an attachment is uploaded
  by one operation and busy with one at a time (`Apart`), and an attachment that is busy has a busy operation
  (`FileHeld`). A step keeps them when it works for the busy operation of the attachment or there is none
  (`Takes`). One step does not: recovery that meets an operation left at `DELETING` whose file has ended sets
  the attachment to `UNCERTAIN` by id, though a newer deletion may be at it (`Aside`); `Fits` allows for that.
* `CallInv` says what a handler knows where it stands: its operation is of the kind it works on, one it deletes
  or reconciles is still in that status, and no two handlers delete or reconcile one operation. What each
  handler's step keeps of it is `Turn(c)`, shown once per step.
* `ReceiptInv` is about the receipt: keys of operations do not exceed its revision, a revision has one upload
  and one deletion, those of the present revision are about the receipt's own attachment, and its content goes
  only when QuickBooks has named an attachment that was made for it.

From them: `TypeCorrect`, `BusyFilesHaveOperations`, `ContentStaysUntilUploaded`, `UndoneReceiptsAreGone`. The theorems
hold for every set of `Mixes`: all callers together, not only the families of the run.

`RequestGateProofs` (assumption: `GateAssumption`). Of two requests in the gate the later one's turn is reached only
when the earlier one's is released (`AheadIsReleased`), and a request in the gate has not released its own
(`HoldsItsTurn`, `TurnsDiffer`). From it: `TypeCorrect`, `GateIsExclusive`, `GateIsFair`.

`ConnectionProofs` (assumptions: `NoneAssumption`, `ActorsAssumption`, `TokensAssumption`). Token sets are issued in
order and never twice, so a token that left the row does not come back: a fresh one is nowhere else
(`FreshIsNew`) and descends from the token it was made with (`FreshDescends`), and what is quarantined, worked on
or revoked was stored and is not the present one (`PastIsPast`). From it: `TypeCorrect`, `ConnectionsDoNotMix`,
`TokensAreStoredFirst`, `RevocationSparesTheConnection`, `RotationsDoNotOverwrite`. `QuarantineIsKept` rests on
`QuarantineInv` as well: connecting takes the whole quarantine back, so a worker that saw the company connected
has nothing left to drop, even when it has been disconnected again by then.

Every safety property that a passing run checks is thus a theorem. Only model-checked, because fairness and
`ENABLED` are out of the prover's reach: `EveryTransactionEnds`, `JobsSettle` and `EveryCallEnds`. The broken
statements of section 3 are TLC's alone, and so is the need for the hypotheses above.

## 5. Not modelled, and the plan

Not modelled because it is data that no property tells apart, or I/O: validation of categories, taxes
and splits, hashes and digests of stored payloads, authorization (each transaction reloads it; losing
it ends a call like a crash), formatting, HTTP, the decision model, text extraction,
reports, the web client. The audit rows are written in the transactions that are modelled.

The queue of receipt extractions follows the protocol of the autopilot's queue, which `AgentJobs` models with
more to lose. The once-a-day claim is one conditional update. The MCP operations are rows with an
idempotency key around the operations modelled here.

What is left of the plan:

1. Recovery of attachments with overlapping passes, once listing and acting are tied together in the code.
2. Algorithms as operators against a reference definition: rounding of split lines and of taxes.
