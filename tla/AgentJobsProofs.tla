--------------------------- MODULE AgentJobsProofs ---------------------------
(* Proofs about AgentJobs for any number of transactions, workers and         *)
(* configuration versions, any limits, any operations of persons and any      *)
(* bounds on revisions and scheduling generations.                            *)
EXTENDS AgentJobs, FiniteSetTheorems, FunctionTheorems, TLAPS

----------------------------------------------------------------------------
(* Types.                                                                    *)

\* A worker has a claim unless it is idle.
BusyHasClaim ==
  \A w \in Workers : IF pc[w] = "idle" THEN claim[w] = None ELSE claim[w] \in Claims

Typed == TypeOK /\ BusyHasClaim

JobRows == [status : JobStatus, tries : 0..MaxTries, live : BOOLEAN]
RunRows == [status : RunStatus, check : BOOLEAN, code : {None, "required"}]
TxnRows == [status : RowStatus, rev : 0..(MaxRevision + 1), op : Operations, write : PersonStatus]

LEMMA ClaimOf ==
  ASSUME Typed, NEW w \in Workers, pc[w] # "idle"
  PROVE  /\ claim[w] \in Claims
         /\ claim[w].job \in Jobs /\ claim[w].n \in Tries
         /\ claim[w].job.txn \in Txns
         /\ claim[w].job.rev \in 0..MaxRevision /\ claim[w].job.binding \in Bindings
<1>1. claim[w] \in Claims
  BY DEF Typed, BusyHasClaim
<1>2. claim[w].job \in Jobs /\ claim[w].n \in Tries
  BY <1>1 DEF Claims
<1> QED
  BY <1>1, <1>2 DEF Jobs

\* The ways a worker moves on.
WorkersTyped ==
  /\ pc \in [Workers -> Steps] /\ claim \in [Workers -> Claims \cup {None}]
  /\ out \in [Workers -> Outcomes \cup {None}]
  /\ BusyHasClaim

LEMMA AwayType == ASSUME Typed, NEW w \in Workers, Away(w) PROVE WorkersTyped'
<1>1. "idle" \in Steps
  BY DEF Steps
<1> QED
  BY <1>1 DEF Typed, TypeOK, Away, BusyHasClaim, WorkersTyped

LEMMA GoType ==
  ASSUME Typed, NEW w \in Workers, pc[w] # "idle", NEW step \in Steps \ {"idle"}, Go(w, step),
         UNCHANGED <<claim, out>>
  PROVE  WorkersTyped'
BY DEF Typed, TypeOK, Go, BusyHasClaim, WorkersTyped

LEMMA EndingType ==
  ASSUME Typed, NEW w \in Workers, pc[w] # "idle", NEW o \in Outcomes, Ending(w, o),
         UNCHANGED claim
  PROVE  WorkersTyped'
<1>1. "finish" \in Steps
  BY DEF Steps
<1> QED
  BY <1>1 DEF Typed, TypeOK, Ending, Go, BusyHasClaim, WorkersTyped

\* What the steps do to jobs and runs.
LEMMA OverType ==
  ASSUME Typed, NEW j \in Jobs, NEW status \in JobStatus
  PROVE  Over(j, status) \in [Jobs -> JobRows]
<1>1. job \in [Jobs -> JobRows]
  BY DEF Typed, TypeOK, JobRows
<1>2. [job[j] EXCEPT !.status = status, !.live = FALSE] \in JobRows
  BY <1>1 DEF JobRows
<1>3. Over(j, status) = [job EXCEPT ![j] = [job[j] EXCEPT !.status = status, !.live = FALSE]]
  BY <1>1 DEF Over, JobRows
<1> QED
  BY <1>1, <1>2, <1>3

LEMMA ClosingType ==
  ASSUME NEW r \in [Jobs -> [Tries -> RunRows]], NEW S
  PROVE  Closing(r, S) \in [Jobs -> [Tries -> RunRows]]
<1>1. ASSUME NEW j \in Jobs, NEW n \in Tries PROVE r[j][n] \in RunRows
  OBVIOUS
<1>2. ASSUME NEW x \in RunRows PROVE [x EXCEPT !.status = "closed"] \in RunRows
  BY DEF RunRows, RunStatus
<1> QED
  BY <1>1, <1>2 DEF Closing

WithRun(r, j, n, x) == [r EXCEPT ![j][n] = x]

LEMMA RunUpdate ==
  ASSUME NEW r \in [Jobs -> [Tries -> RunRows]], NEW j \in Jobs, NEW n \in Tries,
         NEW x \in RunRows
  PROVE  WithRun(r, j, n, x) \in [Jobs -> [Tries -> RunRows]]
<1>1. [r[j] EXCEPT ![n] = x] \in [Tries -> RunRows]
  OBVIOUS
<1>2. WithRun(r, j, n, x) = [r EXCEPT ![j] = [r[j] EXCEPT ![n] = x]]
  BY DEF WithRun
<1> QED
  BY <1>1, <1>2

\* The configuration and lease stay as they are in the steps below.
DbTyped ==
  /\ txn \in [Txns -> TxnRows]
  /\ job \in [Jobs -> JobRows]
  /\ run \in [Jobs -> [Tries -> RunRows]]
  /\ attempt \in [Jobs -> AttemptStatus]
  /\ permit \in [Jobs -> {"none", "today", "earlier"}]
SwitchTyped ==
  /\ live \in BOOLEAN /\ binding \in Bindings /\ shadow \in BOOLEAN
  /\ lease \in [holder : Claims \cup {None}, live : BOOLEAN]

LEMMA Parts ==
  /\ Typed <=> DbTyped /\ SwitchTyped /\ WorkersTyped
  /\ Typed' <=> DbTyped' /\ SwitchTyped' /\ WorkersTyped'
BY DEF Typed, TypeOK, DbTyped, SwitchTyped, WorkersTyped, JobRows, RunRows, TxnRows

LEMMA DbKept == DbTyped /\ UNCHANGED dbVars => DbTyped'
BY DEF DbTyped, dbVars

LEMMA SwitchKept == SwitchTyped /\ UNCHANGED <<configVars, lease>> => SwitchTyped'
BY DEF SwitchTyped, configVars

LEMMA WorkersKept == WorkersTyped /\ UNCHANGED workerVars => WorkersTyped'
BY DEF WorkersTyped, BusyHasClaim, workerVars

\* Steps of persons touch one row and nothing else.
LEMMA PersonLeaves ==
  ASSUME NEW t \in Txns, PersonStep(t)
  PROVE  /\ job' = job /\ run' = run /\ attempt' = attempt /\ permit' = permit
         /\ live' = live /\ binding' = binding /\ shadow' = shadow /\ lease' = lease
         /\ pc' = pc /\ claim' = claim /\ out' = out
BY DEF PersonStep, PersonStage, PersonPrepare, PersonEnter, PersonGiveUp, PersonAnswer,
   PersonReconcile, PersonWrites, configVars, workerVars

\* A person starts an operation or stages where nothing is unresolved, and continues
\* an operation of his own.
LEMMA PersonRow ==
  ASSUME Typed, NEW t \in Txns, PersonStep(t)
  PROVE  /\ txn' = [txn EXCEPT ![t] = txn'[t]] /\ txn'[t] \in TxnRows
         /\ txn'[t].rev >= txn[t].rev
         /\ txn[t].write \in Unresolved \/ ~UnresolvedOf(t)
<1>0. /\ txn \in [Txns -> TxnRows] /\ txn[t] \in TxnRows
      /\ txn[t].rev \in Nat /\ txn[t].rev \in 0..(MaxRevision + 1)
      /\ MaxRevision \in Nat
  BY BoundsAssumption DEF Typed, TypeOK, TxnRows
<1>1. ASSUME NEW row \in TxnRows, row.rev >= txn[t].rev, txn' = [txn EXCEPT ![t] = row]
      PROVE  /\ txn' = [txn EXCEPT ![t] = txn'[t]] /\ txn'[t] \in TxnRows
             /\ txn'[t].rev >= txn[t].rev
  BY <1>0, <1>1
<1>2. CASE PersonStage(t)
  <2>1. txn' = [txn EXCEPT ![t] = [txn[t] EXCEPT !.rev = @ + 1]]
    BY <1>0, <1>2 DEF PersonStage, TxnRows
  <2>2. /\ [txn[t] EXCEPT !.rev = @ + 1] \in TxnRows
        /\ [txn[t] EXCEPT !.rev = @ + 1].rev >= txn[t].rev
    BY <1>0, <1>2 DEF PersonStage, TxnRows
  <2> QED
    BY <1>1, <1>2, <2>1, <2>2 DEF PersonStage
<1>3. ASSUME NEW row \in TxnRows, row.rev = txn[t].rev, PersonWrites(t, row)
      PROVE  /\ txn' = [txn EXCEPT ![t] = txn'[t]] /\ txn'[t] \in TxnRows
             /\ txn'[t].rev >= txn[t].rev
  BY <1>0, <1>1, <1>3 DEF PersonWrites
<1>4. CASE PersonPrepare(t)
  <2>1. PICK op \in Operations :
          /\ ~UnresolvedOf(t) /\ PersonWrites(t, [txn[t] EXCEPT !.op = op, !.write = "PREPARED"])
    BY <1>4 DEF PersonPrepare
  <2>2. /\ [txn[t] EXCEPT !.op = op, !.write = "PREPARED"] \in TxnRows
        /\ [txn[t] EXCEPT !.op = op, !.write = "PREPARED"].rev = txn[t].rev
    BY <1>0 DEF TxnRows, PersonStatus
  <2> QED
    BY <1>3, <2>1, <2>2
<1>5. CASE PersonEnter(t)
  <2>1. /\ [txn[t] EXCEPT !.write = "COMMITTING"] \in TxnRows
        /\ [txn[t] EXCEPT !.write = "COMMITTING"].rev = txn[t].rev
    BY <1>0 DEF TxnRows, PersonStatus
  <2> QED
    BY <1>3, <1>5, <2>1 DEF PersonEnter, Unresolved
<1>6. CASE PersonGiveUp(t)
  <2>1. /\ [txn[t] EXCEPT !.op = "recategorize", !.write = "NONE"] \in TxnRows
        /\ [txn[t] EXCEPT !.op = "recategorize", !.write = "NONE"].rev = txn[t].rev
    BY <1>0 DEF TxnRows, PersonStatus, Operations
  <2> QED
    BY <1>3, <1>6, <2>1 DEF PersonGiveUp, Unresolved
<1>7. CASE PersonAnswer(t) \/ PersonReconcile(t)
  <2>1. ASSUME NEW write \in PersonStatus, NEW status \in RowStatus
        PROVE  /\ [txn[t] EXCEPT !.write = write, !.status = status] \in TxnRows
               /\ [txn[t] EXCEPT !.write = write, !.status = status].rev = txn[t].rev
    BY <1>0 DEF TxnRows
  <2>2. ASSUME NEW status \in RowStatus
        PROVE  LET row == [txn[t] EXCEPT !.op = "recategorize", !.write = "NONE",
                                         !.status = status]
               IN  row \in TxnRows /\ row.rev = txn[t].rev
    BY <1>0 DEF TxnRows, PersonStatus, Operations
  <2>3. /\ "VERIFIED" \in PersonStatus /\ "UNCERTAIN" \in PersonStatus /\ "ERROR" \in RowStatus
        /\ Before(txn[t].op) \in RowStatus /\ After(txn[t].op) \in RowStatus
    BY DEF PersonStatus, RowStatus, Before, After
  <2>4. CASE PersonAnswer(t)
    BY <1>3, <2>1, <2>3, <2>4 DEF PersonAnswer, Unresolved
  <2>5. CASE PersonReconcile(t)
    BY <1>3, <2>1, <2>2, <2>3, <2>5 DEF PersonReconcile, Unresolved
  <2> QED
    BY <1>7, <2>4, <2>5
<1> QED
  BY <1>2, <1>4, <1>5, <1>6, <1>7 DEF PersonStep

LEMMA PermittedType ==
  ASSUME Typed, NEW j \in Jobs
  PROVE  Permitted(j) \in [Jobs -> {"none", "today", "earlier"}]
BY DEF Typed, TypeOK, Permitted

LEMMA QueueTypes ==
  ASSUME Typed, Discover \/ AdminCancel \/ ExpireLease \/ NewDay \/ PauseLive \/ EnableLive
                \/ ChangeSettings
  PROVE  Typed'
<1>1. /\ DbTyped /\ SwitchTyped /\ WorkersTyped
      /\ {"queued", "cancelledByAdmin"} \subseteq JobStatus
  BY Parts DEF JobStatus
<1>2. CASE Discover
  <2>1. [NoJob EXCEPT !.status = "queued"] \in JobRows
    <3>1. 0 \in 0..MaxTries
      BY BoundsAssumption
    <3> QED
      BY <3>1 DEF NoJob, JobRows, JobStatus
  <2>2. DbTyped'
    BY <1>1, <1>2, <2>1 DEF Discover, DbTyped
  <2> QED
    BY <1>1, <1>2, <2>2, Parts, SwitchKept, WorkersKept DEF Discover
<1>3. CASE AdminCancel
  <2>1. \A j \in Jobs : [job[j] EXCEPT !.status = "cancelledByAdmin"] \in JobRows
    BY <1>1 DEF DbTyped, JobRows
  <2>2. job' \in [Jobs -> JobRows]
    BY <1>1, <1>3, <2>1 DEF AdminCancel, DbTyped
  <2>3. DbTyped'
    BY <1>1, <1>3, <2>2 DEF AdminCancel, DbTyped
  <2> QED
    BY <1>1, <1>3, <2>3, Parts, SwitchKept, WorkersKept DEF AdminCancel
<1>4. CASE ExpireLease
  <2>1. SwitchTyped'
    BY <1>1, <1>4 DEF ExpireLease, SwitchTyped, configVars
  <2> QED
    BY <1>1, <1>4, <2>1, Parts, DbKept, WorkersKept DEF ExpireLease
<1>5. CASE NewDay
  <2>1. DbTyped'
    BY <1>1, <1>5 DEF NewDay, DbTyped
  <2> QED
    BY <1>1, <1>5, <2>1, Parts, SwitchKept, WorkersKept DEF NewDay
<1>6. CASE PauseLive \/ EnableLive \/ ChangeSettings
  <2>1. binding' \in Bindings /\ live' \in BOOLEAN /\ shadow' \in BOOLEAN
    <3>1. binding \in Bindings /\ binding.generation \in Nat /\ MaxGeneration \in Nat
      BY <1>1, BoundsAssumption DEF SwitchTyped, Bindings
    <3>2. CASE PauseLive
      BY <1>1, <3>2 DEF PauseLive, SwitchTyped
    <3>3. CASE EnableLive
      BY <1>1, <3>1, <3>3 DEF EnableLive, SwitchTyped, Bindings
    <3>4. CASE ChangeSettings
      <4>1. PICK c \in Configs, again \in {0, 1} :
              /\ binding.generation + again <= MaxGeneration
              /\ binding' = [config |-> c, generation |-> binding.generation + again]
        BY <3>4 DEF ChangeSettings
      <4>2. binding' \in Bindings
        BY <3>1, <4>1 DEF Bindings
      <4> QED
        BY <3>4, <4>2 DEF ChangeSettings
    <3> QED
      BY <1>6, <3>2, <3>3, <3>4
  <2>2. SwitchTyped'
    BY <1>1, <1>6, <2>1 DEF PauseLive, EnableLive, ChangeSettings, SwitchTyped
  <2> QED
    BY <1>1, <1>6, <2>2, Parts, DbKept, WorkersKept DEF PauseLive, EnableLive, ChangeSettings
<1> QED
  BY <1>2, <1>3, <1>4, <1>5, <1>6

LEMMA RowTypes ==
  ASSUME Typed,
         \/ \E j \in Jobs : ExpireJob(j) \/ Reconcile(j)
         \/ \E t \in Txns : PersonStep(t)
  PROVE  Typed'
<1>1. /\ DbTyped /\ SwitchTyped /\ WorkersTyped
  BY Parts
<1>2. ASSUME NEW j \in Jobs, ExpireJob(j) PROVE Typed'
  <2>1. [job[j] EXCEPT !.live = FALSE] \in JobRows
    BY <1>1 DEF DbTyped, JobRows
  <2>2. DbTyped'
    BY <1>1, <1>2, <2>1 DEF ExpireJob, DbTyped
  <2> QED
    BY <1>1, <1>2, <2>2, Parts, SwitchKept, WorkersKept DEF ExpireJob
<1>3. ASSUME NEW j \in Jobs, Reconcile(j) PROVE Typed'
  <2>1. PICK status \in {"VERIFIED", "UNCHANGED"}, row \in {"POSTED", "PENDING"},
             ended \in {"posted_verified", "unchanged"} :
          /\ attempt' = [attempt EXCEPT ![j] = status]
          /\ txn' = [txn EXCEPT ![j.txn].status = row]
          /\ run' = [run EXCEPT ![j] = [n \in Tries |->
               IF @[n].status = "uncertain" /\ @[n].code = "required"
               THEN [@[n] EXCEPT !.status = ended, !.code = None] ELSE @[n]]]
    BY <1>3 DEF Reconcile
  <2>2. attempt' \in [Jobs -> AttemptStatus]
    BY <1>1, <2>1 DEF DbTyped, AttemptStatus
  <2>3. txn' \in [Txns -> TxnRows]
    <3>1. j.txn \in Txns /\ txn \in [Txns -> TxnRows] /\ txn[j.txn] \in TxnRows
      BY <1>1 DEF DbTyped, Jobs
    <3>2. [txn[j.txn] EXCEPT !.status = row] \in TxnRows
      BY <3>1 DEF TxnRows, RowStatus
    <3>3. txn' = [txn EXCEPT ![j.txn] = [txn[j.txn] EXCEPT !.status = row]]
      BY <2>1, <3>1
    <3> QED
      BY <3>1, <3>2, <3>3
  <2>4. ASSUME NEW x \in RunRows PROVE [x EXCEPT !.status = ended, !.code = None] \in RunRows
    BY DEF RunRows, RunStatus
  <2>5. \A n \in Tries : run[j][n] \in RunRows
    BY <1>1 DEF DbTyped
  <2>6. [n \in Tries |-> IF run[j][n].status = "uncertain" /\ run[j][n].code = "required"
                         THEN [run[j][n] EXCEPT !.status = ended, !.code = None]
                         ELSE run[j][n]] \in [Tries -> RunRows]
    BY <2>4, <2>5
  <2>7. run' \in [Jobs -> [Tries -> RunRows]]
    BY <1>1, <2>1, <2>6 DEF DbTyped
  <2>8. [job[j] EXCEPT !.status = "completed"] \in JobRows
    BY <1>1 DEF DbTyped, JobRows, JobStatus
  <2>9. DbTyped'
    BY <1>1, <1>3, <2>2, <2>3, <2>7, <2>8 DEF Reconcile, DbTyped
  <2> QED
    BY <1>1, <1>3, <2>9, Parts, SwitchKept, WorkersKept DEF Reconcile
<1>4. ASSUME NEW t \in Txns, PersonStep(t) PROVE Typed'
  <2>1. txn' \in [Txns -> TxnRows]
    BY <1>1, <1>4, PersonRow DEF DbTyped
  <2>2. DbTyped'
    BY <1>1, <1>4, <2>1, PersonLeaves DEF DbTyped
  <2> QED
    BY <1>1, <1>4, <2>2, Parts, SwitchKept, WorkersKept, PersonLeaves DEF configVars, workerVars
<1> QED
  BY <1>2, <1>3, <1>4

\* A claim transaction: what a job it has chosen was.
LEMMA Chosen ==
  ASSUME Typed, NEW j \in Candidates, ~Exhausted(j)
  PROVE  j \in Jobs /\ job[j].tries + 1 \in Tries
BY BoundsAssumption DEF Candidates, Exhausted, Typed, TypeOK, Tries, Waiting

LEMMA ClaimTypes == ASSUME Typed, Claim PROVE Typed'
<1>1. /\ DbTyped /\ SwitchTyped /\ WorkersTyped
  BY Parts
<1>2. PICK chosen \in SUBSET Candidates :
        \E f \in Assignments(chosen) : ClaimJobs(chosen, f)
  BY DEF Claim
<1>3. PICK who \in Assignments(chosen) : ClaimJobs(chosen, who)
  BY <1>2
<1>4. /\ DOMAIN who \subseteq {w \in Workers : pc[w] = "idle"}
      /\ \A w \in DOMAIN who : who[w] \in chosen /\ ~Exhausted(who[w])
  BY <1>3 DEF Assignments
<1>5. job' \in [Jobs -> JobRows]
  <2>1. \A j \in Jobs : /\ [job[j] EXCEPT !.status = "cancelled", !.live = FALSE] \in JobRows
                        /\ [job[j] EXCEPT !.status = "terminal"] \in JobRows
                        /\ job[j] \in JobRows
    BY <1>1 DEF DbTyped, JobRows, JobStatus
  <2>2. \A j \in chosen : ~Exhausted(j) =>
          [status |-> "running", tries |-> job[j].tries + 1, live |-> TRUE] \in JobRows
    BY Chosen DEF JobRows, JobStatus, Tries
  <2>3. \A j \in Jobs : job'[j] =
          IF j \in Obsolete THEN [job[j] EXCEPT !.status = "cancelled", !.live = FALSE]
          ELSE IF j \in {k \in chosen : Exhausted(k)} THEN [job[j] EXCEPT !.status = "terminal"]
          ELSE IF j \in chosen
               THEN [status |-> "running", tries |-> job[j].tries + 1, live |-> TRUE]
          ELSE job[j]
    BY <1>3 DEF ClaimJobs
  <2>4. \A j \in Jobs : job'[j] \in JobRows
    BY <2>1, <2>2, <2>3
  <2>5. job' = [j \in Jobs |-> job'[j]]
    BY <1>3 DEF ClaimJobs
  <2> QED
    BY <2>4, <2>5
<1>6. run' \in [Jobs -> [Tries -> RunRows]]
  BY <1>1, <1>3, ClosingType DEF ClaimJobs, DbTyped
<1>7. attempt' \in [Jobs -> AttemptStatus]
  <2>1. attempt' = [j \in Jobs |->
          IF j \in {k \in chosen : Exhausted(k)} /\ Recoverable(j) /\ attempt[j] \in Retirable
          THEN "FAILED" ELSE attempt[j]]
    BY <1>3 DEF ClaimJobs
  <2> QED
    BY <1>1, <2>1 DEF DbTyped, AttemptStatus
<1>8. DbTyped'
  BY <1>1, <1>5, <1>6, <1>7 DEF Claim, DbTyped
<1>9. WorkersTyped'
  <2>1. \A w \in DOMAIN who : [job |-> who[w], n |-> job[who[w]].tries + 1] \in Claims
    BY <1>4, Chosen DEF Claims
  <2>2. /\ pc' = [w \in Workers |-> IF w \in DOMAIN who THEN "claimed" ELSE pc[w]]
        /\ claim' = [w \in Workers |->
             IF w \in DOMAIN who THEN [job |-> who[w], n |-> job[who[w]].tries + 1]
             ELSE claim[w]]
    BY <1>3 DEF ClaimJobs
  <2> QED
    BY <1>1, <2>1, <2>2 DEF Claim, WorkersTyped, BusyHasClaim, Steps
<1> QED
  BY <1>1, <1>8, <1>9, Parts, SwitchKept DEF Claim

\* The steps of a worker: first those that leave the configuration and lease alone.
LEMMA ShadowTypes ==
  ASSUME Typed, NEW w \in Workers,
         BeginRecovery(w) \/ Dispatch(w) \/ Prepare(w) \/ Confirm(w) \/ Complete(w) \/ Crash(w)
  PROVE  Typed'
<1>1. /\ DbTyped /\ SwitchTyped /\ WorkersTyped /\ pc[w] # "idle"
      /\ claim[w].job \in Jobs /\ claim[w].n \in Tries
      /\ {"dispatch", "recoverLease", "prepareShadow", "prepareLive", "lease", "confirm",
          "complete"} \subseteq Steps \ {"idle"}
      /\ {"required", "posted"} \subseteq Outcomes
      /\ {"cancelled", "terminal", "completed", "retry"} \subseteq JobStatus
  BY Parts, ClaimOf DEF Steps, Outcomes, JobStatus, BeginRecovery, Dispatch, Prepare, Confirm,
     Complete, Crash
<1> DEFINE j == claim[w].job  n == claim[w].n
<1>2. \A S : Closing(run, S) \in [Jobs -> [Tries -> RunRows]]
  BY <1>1, ClosingType DEF DbTyped
<1>3. \A status \in {"cancelled", "terminal", "completed", "retry"} :
        Over(j, status) \in [Jobs -> JobRows]
  BY <1>1, OverType
<1>4. CASE BeginRecovery(w)
  <2>1. [status |-> "running", check |-> TRUE, code |-> None] \in RunRows
    BY DEF RunRows, RunStatus
  <2>2. run' \in [Jobs -> [Tries -> RunRows]]
    <3>1. run' = run \/ run' = WithRun(run, j, n, [status |-> "running", check |-> TRUE,
                                                   code |-> None])
      BY <1>4 DEF BeginRecovery, WithRun
    <3>2. run \in [Jobs -> [Tries -> RunRows]]
      BY <1>1 DEF DbTyped
    <3> QED
      BY <1>1, <2>1, <3>1, <3>2, RunUpdate
  <2>3. WorkersTyped'
    <3>1. CASE Go(w, "dispatch") /\ UNCHANGED <<claim, out>>
      BY <1>1, <3>1, GoType
    <3>2. CASE Go(w, "recoverLease") /\ UNCHANGED <<claim, out>>
      BY <1>1, <3>2, GoType
    <3>3. CASE Ending(w, "required") /\ UNCHANGED claim
      BY <1>1, <3>3, EndingType
    <3>4. CASE Ending(w, "posted") /\ UNCHANGED claim
      BY <1>1, <3>4, EndingType
    <3> QED
      BY <1>4, <3>1, <3>2, <3>3, <3>4 DEF BeginRecovery
  <2>4. DbTyped'
    BY <1>1, <1>4, <2>2 DEF BeginRecovery, DbTyped
  <2> QED
    BY <1>1, <1>4, <2>3, <2>4, Parts, SwitchKept DEF BeginRecovery
<1>5. CASE Dispatch(w)
  <2>1. WorkersTyped'
    BY <1>1, <1>5, GoType DEF Dispatch
  <2> QED
    BY <1>1, <1>5, <2>1, Parts, DbKept, SwitchKept DEF Dispatch
<1>6. CASE Prepare(w)
  <2>1. ASSUME NEW x \in RunRows PROVE [x EXCEPT !.status = "running"] \in RunRows
    BY DEF RunRows, RunStatus
  <2>2. run' \in [Jobs -> [Tries -> RunRows]] /\ job' \in [Jobs -> JobRows]
    <3> DEFINE r == Closing(run, {<<j, m>> : m \in 1..(n - 1)})
    <3>1. run' = run \/ run' = WithRun(r, j, n, [r[j][n] EXCEPT !.status = "running"])
      <4>1. r \in [Jobs -> [Tries -> RunRows]]
        BY <1>2
      <4>2. [r EXCEPT ![j][n].status = "running"]
              = WithRun(r, j, n, [r[j][n] EXCEPT !.status = "running"])
        BY <1>1, <4>1 DEF WithRun
      <4> HIDE DEF r
      <4>3. run' = run \/ run' = [r EXCEPT ![j][n].status = "running"]
        BY <1>6 DEF Prepare, r
      <4> QED
        BY <4>2, <4>3
    <3>2. job' = job \/ job' = Over(j, "cancelled") \/ job' = Over(j, "terminal")
      BY <1>6 DEF Prepare
    <3>3. run \in [Jobs -> [Tries -> RunRows]] /\ job \in [Jobs -> JobRows]
      BY <1>1 DEF DbTyped
    <3>4. run' \in [Jobs -> [Tries -> RunRows]]
      <4>1. r \in [Jobs -> [Tries -> RunRows]]
        BY <1>2
      <4>2. r[j][n] \in RunRows
        BY <1>1, <4>1
      <4> HIDE DEF r
      <4>3. [r[j][n] EXCEPT !.status = "running"] \in RunRows
        BY <2>1, <4>2
      <4>4. WithRun(r, j, n, [r[j][n] EXCEPT !.status = "running"]) \in [Jobs -> [Tries -> RunRows]]
        BY <1>1, <4>1, <4>3, RunUpdate
      <4> QED
        BY <3>1, <3>3, <4>4
    <3> QED
      BY <1>3, <3>2, <3>3, <3>4
  <2>3. WorkersTyped'
    <3>1. \/ Away(w)
          \/ /\ Go(w, "lease") \/ Go(w, "confirm")
             /\ UNCHANGED <<claim, out>>
      BY <1>6 DEF Prepare
    <3> QED
      BY <1>1, <3>1, AwayType, GoType
  <2>4. DbTyped'
    BY <1>1, <1>6, <2>2 DEF Prepare, DbTyped
  <2> QED
    BY <1>1, <1>6, <2>3, <2>4, Parts, SwitchKept DEF Prepare
<1>7. CASE Confirm(w) \/ Complete(w)
  <2>1. run' = run \/ \E S : run' = Closing(run, S)
    BY <1>7 DEF Confirm, Complete, Fenced
  <2>2. job' = job \/ \E status \in {"cancelled", "terminal", "completed", "retry"} :
                        job' = Over(j, status)
    BY <1>7 DEF Confirm, Complete, Fenced
  <2>3. Away(w) \/ (Go(w, "complete") /\ UNCHANGED <<claim, out>>)
    BY <1>7 DEF Confirm, Complete, Fenced
  <2>4. WorkersTyped'
    BY <1>1, <2>3, AwayType, GoType
  <2>5. job' \in [Jobs -> JobRows] /\ run' \in [Jobs -> [Tries -> RunRows]]
    BY <1>1, <1>2, <1>3, <2>1, <2>2 DEF DbTyped
  <2>6. DbTyped'
    BY <1>1, <1>7, <2>5 DEF Confirm, Complete, DbTyped
  <2> QED
    BY <1>1, <1>7, <2>4, <2>6, Parts, SwitchKept DEF Confirm, Complete
<1>8. CASE Crash(w)
  BY <1>1, <1>8, AwayType, Parts, DbKept, SwitchKept DEF Crash
<1> QED
  BY <1>4, <1>5, <1>6, <1>7, <1>8

LEMMA LiveTypes ==
  ASSUME Typed, NEW w \in Workers,
         TakeLease(w) \/ Decide(w) \/ Checkpoint(w) \/ StageRow(w) \/ PreCommit(w) \/ Persist(w)
  PROVE  Typed'
<1>1. /\ DbTyped /\ SwitchTyped /\ WorkersTyped /\ pc[w] # "idle"
      /\ claim[w] \in Claims /\ claim[w].job \in Jobs /\ claim[w].n \in Tries
      /\ claim[w].job.txn \in Txns /\ claim[w].job.rev \in 0..MaxRevision
      /\ {"decide", "recoverCommit", "checkpoint", "stage", "preCommit", "persist", "enter"}
            \subseteq Steps \ {"idle"}
      /\ {"abstain", "failed", "transient"} \subseteq Outcomes
  BY Parts, ClaimOf DEF Steps, Outcomes, TakeLease, Decide, Checkpoint, StageRow, PreCommit,
     Persist
<1> DEFINE j == claim[w].job  n == claim[w].n
<1>2. WorkersTyped'
  <2>1. \/ \E step \in {"decide", "recoverCommit", "checkpoint", "stage", "preCommit", "persist",
                        "enter"} : Go(w, step) /\ UNCHANGED <<claim, out>>
        \/ \E o \in {"abstain", "failed", "transient"} : Ending(w, o) /\ UNCHANGED claim
    <3>1. CASE TakeLease(w) \/ Decide(w)
      BY <3>1 DEF TakeLease, Decide
    <3>2. CASE Checkpoint(w) \/ StageRow(w)
      BY <3>2 DEF Checkpoint, StageRow
    <3>3. CASE PreCommit(w) \/ Persist(w)
      BY <3>3 DEF PreCommit, Persist
    <3> QED
      BY <3>1, <3>2, <3>3
  <2>2. ASSUME NEW o \in {"abstain", "failed", "transient"}, Ending(w, o), UNCHANGED claim
        PROVE  WorkersTyped'
    BY <1>1, <2>2, EndingType
  <2>3. ASSUME NEW step \in Steps \ {"idle"}, Go(w, step), UNCHANGED <<claim, out>>
        PROVE  WorkersTyped'
    BY <1>1, <2>3, GoType
  <2> QED
    BY <1>1, <2>1, <2>2, <2>3
<1>3. CASE TakeLease(w)
  <2>1. lease' = lease \/ lease' = [holder |-> claim[w], live |-> TRUE]
    BY <1>3 DEF TakeLease
  <2>2. UNCHANGED configVars
    BY <1>3 DEF TakeLease
  <2>3. SwitchTyped'
    <3>1. [holder |-> claim[w], live |-> TRUE] \in [holder : Claims \cup {None}, live : BOOLEAN]
      BY <1>1
    <3>2. lease' \in [holder : Claims \cup {None}, live : BOOLEAN]
      BY <1>1, <2>1, <3>1 DEF SwitchTyped
    <3> QED
      BY <1>1, <2>2, <3>2 DEF SwitchTyped, configVars
  <2> QED
    BY <1>1, <1>2, <1>3, <2>3, Parts, DbKept DEF TakeLease
<1>4. CASE Decide(w)
  BY <1>1, <1>2, <1>4, Parts, DbKept, SwitchKept DEF Decide
<1>5. CASE Checkpoint(w)
  <2>1. [run[j][n] EXCEPT !.check = TRUE] \in RunRows
    <3>1. run[j][n] \in RunRows
      BY <1>1 DEF DbTyped
    <3> QED
      BY <3>1 DEF RunRows
  <2>2. run \in [Jobs -> [Tries -> RunRows]]
    BY <1>1 DEF DbTyped
  <2>3. [run EXCEPT ![j][n].check = TRUE]
          = WithRun(run, j, n, [run[j][n] EXCEPT !.check = TRUE])
    BY <1>1, <2>2 DEF WithRun
  <2>4. run' = run \/ run' = [run EXCEPT ![j][n].check = TRUE]
    BY <1>5 DEF Checkpoint
  <2>5. run' \in [Jobs -> [Tries -> RunRows]]
    <3>1. WithRun(run, j, n, [run[j][n] EXCEPT !.check = TRUE]) \in [Jobs -> [Tries -> RunRows]]
      BY <1>1, <2>1, <2>2, RunUpdate
    <3> QED
      BY <2>2, <2>3, <2>4, <3>1
  <2>6. DbTyped'
    BY <1>1, <1>5, <2>5 DEF Checkpoint, DbTyped
  <2> QED
    BY <1>1, <1>2, <1>5, <2>6, Parts, SwitchKept DEF Checkpoint
<1>6. CASE StageRow(w)
  <2>1. j.rev + 1 \in 0..(MaxRevision + 1)
    BY <1>1, BoundsAssumption
  <2>2. txn \in [Txns -> TxnRows]
    BY <1>1 DEF DbTyped
  <2>3. [txn[j.txn] EXCEPT !.rev = j.rev + 1] \in TxnRows
    BY <1>1, <2>1, <2>2 DEF TxnRows
  <2>4. txn' = txn \/ txn' = [txn EXCEPT ![j.txn] = [txn[j.txn] EXCEPT !.rev = j.rev + 1]]
    BY <1>1, <1>6, <2>2 DEF StageRow, TxnRows
  <2>5. txn' \in [Txns -> TxnRows]
    BY <1>1, <2>2, <2>3, <2>4
  <2>6. DbTyped'
    BY <1>1, <1>6, <2>5 DEF StageRow, DbTyped
  <2> QED
    BY <1>1, <1>2, <1>6, <2>6, Parts, SwitchKept DEF StageRow
<1>7. CASE PreCommit(w)
  BY <1>1, <1>2, <1>7, Parts, DbKept, SwitchKept DEF PreCommit
<1>8. CASE Persist(w)
  <2>1. DbTyped'
    BY <1>1, <1>8 DEF Persist, DbTyped, AttemptStatus
  <2> QED
    BY <1>1, <1>2, <1>8, <2>1, Parts, SwitchKept DEF Persist
<1> QED
  BY <1>3, <1>4, <1>5, <1>6, <1>7, <1>8

LEMMA CommitTypes ==
  ASSUME Typed, NEW w \in Workers, Enter(w) \/ Send(w) \/ RecoverCommit(w) \/ Finish(w)
  PROVE  Typed'
<1>1. /\ DbTyped /\ SwitchTyped /\ WorkersTyped /\ pc[w] # "idle"
      /\ claim[w] \in Claims /\ claim[w].job \in Jobs /\ claim[w].n \in Tries
      /\ claim[w].job.txn \in Txns
      /\ {"send", "enter"} \subseteq Steps \ {"idle"}
      /\ {"abstain", "failed", "transient", "uncertain", "posted"} \subseteq Outcomes
  BY Parts, ClaimOf DEF Steps, Outcomes, Enter, Send, RecoverCommit, Finish
<1> DEFINE j == claim[w].job  n == claim[w].n
<1>2. Recorded(j) \in Outcomes /\ Permitted(j) \in [Jobs -> {"none", "today", "earlier"}]
  BY <1>1, PermittedType DEF Recorded, Outcomes
<1>3. \A status \in {"FAILED", "RETRYABLE", "COMMITTING", "PREPARED", "VERIFIED", "UNCERTAIN"} :
        [attempt EXCEPT ![j] = status] \in [Jobs -> AttemptStatus]
  BY <1>1 DEF DbTyped, AttemptStatus
<1>4. \A status \in {"POSTED", "ERROR"} : [txn EXCEPT ![j.txn].status = status]
        \in [Txns -> TxnRows]
  <2>1. ASSUME NEW status \in {"POSTED", "ERROR"}
        PROVE  [txn[j.txn] EXCEPT !.status = status] \in TxnRows
    BY <1>1 DEF DbTyped, TxnRows, RowStatus
  <2>2. \A status : [txn EXCEPT ![j.txn].status = status]
                      = [txn EXCEPT ![j.txn] = [txn[j.txn] EXCEPT !.status = status]]
    BY <1>1 DEF DbTyped, TxnRows
  <2> QED
    BY <1>1, <2>1, <2>2 DEF DbTyped
<1>5. CASE Enter(w)
  <2>1. WorkersTyped'
    <3>1. \/ Go(w, "send") /\ UNCHANGED <<claim, out>>
          \/ \E o \in {"abstain", "failed", "transient", Recorded(j)} :
                Ending(w, o) /\ UNCHANGED claim
      BY <1>5 DEF Enter
    <3> QED
      BY <1>1, <1>2, <3>1, GoType, EndingType
  <2>2. attempt' \in [Jobs -> AttemptStatus]
    <3>1. attempt' = attempt
            \/ \E status \in {"FAILED", "RETRYABLE", "COMMITTING"} :
                 attempt' = [attempt EXCEPT ![j] = status]
      BY <1>5 DEF Enter, GiveUp
    <3> QED
      BY <1>1, <1>3, <3>1 DEF DbTyped
  <2>3. permit' = permit \/ permit' = Permitted(j)
    BY <1>5 DEF Enter
  <2>4. DbTyped'
    BY <1>1, <1>2, <1>5, <2>2, <2>3 DEF Enter, DbTyped
  <2> QED
    BY <1>1, <1>5, <2>1, <2>4, Parts, SwitchKept DEF Enter
<1>6. CASE Send(w)
  <2>1. WorkersTyped'
    BY <1>1, <1>6, EndingType DEF Send
  <2>2. /\ attempt' \in [Jobs -> AttemptStatus]
        /\ txn' \in [Txns -> TxnRows]
        /\ live' \in BOOLEAN
    BY <1>1, <1>3, <1>4, <1>6 DEF Send, DbTyped, SwitchTyped
  <2>3. DbTyped' /\ SwitchTyped'
    BY <1>1, <1>6, <2>2 DEF Send, DbTyped, SwitchTyped
  <2> QED
    BY <2>1, <2>3, Parts
<1>7. CASE RecoverCommit(w)
  <2>1. WorkersTyped'
    <3>1. \/ Go(w, "enter") /\ UNCHANGED <<claim, out>>
          \/ \E o \in {"abstain", "failed", "transient", Recorded(j)} :
                Ending(w, o) /\ UNCHANGED claim
      BY <1>7 DEF RecoverCommit
    <3> QED
      BY <1>1, <1>2, <3>1, GoType, EndingType
  <2>2. attempt' \in [Jobs -> AttemptStatus]
    <3>1. attempt' = attempt
            \/ \E status \in {"FAILED", "PREPARED"} : attempt' = [attempt EXCEPT ![j] = status]
      BY <1>7 DEF RecoverCommit
    <3> QED
      BY <1>1, <1>3, <3>1 DEF DbTyped
  <2>3. permit' = permit \/ permit' = Permitted(j)
    BY <1>7 DEF RecoverCommit
  <2>4. DbTyped'
    BY <1>1, <1>2, <1>7, <2>2, <2>3 DEF RecoverCommit, DbTyped
  <2> QED
    BY <1>1, <1>7, <2>1, <2>4, Parts, SwitchKept DEF RecoverCommit
<1>8. CASE Finish(w)
  <2>1. WorkersTyped'
    BY <1>1, <1>8, AwayType DEF Finish
  <2>2. PICK status \in {"uncertain", "posted_verified", "closed"}, code \in {None, "required"},
             next \in {"retry", "completed", "terminal"} :
          \/ /\ run' = [run EXCEPT ![j][n].status = status, ![j][n].code = code]
             /\ job' = Over(j, next)
          \/ run' = run /\ job' = job
    BY <1>8 DEF Finish
  <2>3. run' \in [Jobs -> [Tries -> RunRows]]
    <3>1. run \in [Jobs -> [Tries -> RunRows]] /\ run[j][n] \in RunRows
      BY <1>1 DEF DbTyped
    <3>2. [run[j][n] EXCEPT !.status = status, !.code = code] \in RunRows
      BY <3>1 DEF RunRows, RunStatus
    <3>3. [run EXCEPT ![j][n].status = status, ![j][n].code = code]
            = WithRun(run, j, n, [run[j][n] EXCEPT !.status = status, !.code = code])
      BY <1>1, <3>1 DEF RunRows, WithRun
    <3>4. WithRun(run, j, n, [run[j][n] EXCEPT !.status = status, !.code = code])
            \in [Jobs -> [Tries -> RunRows]]
      BY <1>1, <3>1, <3>2, RunUpdate
    <3> QED
      BY <2>2, <3>1, <3>3, <3>4
  <2>4. job' \in [Jobs -> JobRows]
    <3>1. Over(j, next) \in [Jobs -> JobRows]
      BY <1>1, OverType DEF JobStatus
    <3> QED
      BY <1>1, <2>2, <3>1 DEF DbTyped
  <2>5. live' \in BOOLEAN /\ lease' \in [holder : Claims \cup {None}, live : BOOLEAN]
    BY <1>1, <1>8 DEF Finish, SwitchTyped
  <2>6. DbTyped' /\ SwitchTyped'
    BY <1>1, <1>8, <2>3, <2>4, <2>5 DEF Finish, DbTyped, SwitchTyped
  <2> QED
    BY <2>1, <2>6, Parts
<1> QED
  BY <1>5, <1>6, <1>7, <1>8

LEMMA InitTyped == Init => Typed
<1> SUFFICES ASSUME Init PROVE DbTyped /\ SwitchTyped /\ WorkersTyped
  BY Parts
<1>1. /\ 0 \in 0..MaxTries /\ 0 \in 0..(MaxRevision + 1)
  BY BoundsAssumption
<1>2. NoJob \in JobRows /\ NoRun \in RunRows
  BY <1>1 DEF NoJob, NoRun, JobRows, RunRows, JobStatus, RunStatus
<1>3. DbTyped
  <2>1. NewRow \in TxnRows
    BY <1>1 DEF NewRow, TxnRows, RowStatus, Operations, PersonStatus
  <2> QED
    BY <1>1, <1>2, <2>1 DEF Init, DbTyped, AttemptStatus
<1>4. SwitchTyped /\ WorkersTyped
  BY <1>1 DEF Init, SwitchTyped, WorkersTyped, BusyHasClaim, Steps
<1> QED
  BY <1>3, <1>4

LEMMA NextTyped == Typed /\ [Next]_vars => Typed'
<1> SUFFICES ASSUME Typed, [Next]_vars PROVE Typed'
  OBVIOUS
<1>1. CASE UNCHANGED vars
  BY <1>1, Parts, DbKept, SwitchKept, WorkersKept DEF vars
<1>2. CASE Next
  BY <1>2, QueueTypes, RowTypes, ClaimTypes, ShadowTypes, LiveTypes, CommitTypes
     DEF Next, WorkerStep
<1> QED
  BY <1>1, <1>2

----------------------------------------------------------------------------
(* Who changes what.                                                         *)

LEMMA AttemptWriters ==
  ASSUME Next, attempt' # attempt
  PROVE  \/ Claim
         \/ \E w \in Workers : Persist(w) \/ Enter(w) \/ Send(w) \/ RecoverCommit(w)
         \/ \E j \in Jobs : Reconcile(j)
<1>1. Discover \/ AdminCancel \/ ExpireLease \/ NewDay \/ PauseLive \/ EnableLive
        \/ ChangeSettings => attempt' = attempt
  BY DEF Discover, AdminCancel, ExpireLease, NewDay, PauseLive, EnableLive, ChangeSettings, dbVars
<1>2. ASSUME NEW j \in Jobs, ExpireJob(j) PROVE attempt' = attempt
  BY <1>2 DEF ExpireJob
<1>3. ASSUME NEW t \in Txns, PersonStep(t) PROVE attempt' = attempt
  BY <1>3, PersonLeaves
<1>4. ASSUME NEW w \in Workers,
             BeginRecovery(w) \/ Dispatch(w) \/ Prepare(w) \/ Confirm(w) \/ Complete(w)
             \/ TakeLease(w) \/ Decide(w) \/ Checkpoint(w) \/ StageRow(w) \/ PreCommit(w)
             \/ Finish(w) \/ Crash(w)
      PROVE  attempt' = attempt
  BY <1>4 DEF BeginRecovery, Dispatch, Prepare, Confirm, Complete, TakeLease, Decide, Checkpoint,
     StageRow, PreCommit, Finish, Crash, dbVars
<1> QED
  BY <1>1, <1>2, <1>3, <1>4 DEF Next, WorkerStep

LEMMA PermitWriters ==
  ASSUME Next, permit' # permit
  PROVE  NewDay \/ \E w \in Workers : Enter(w) \/ RecoverCommit(w)
<1>1. Discover \/ AdminCancel \/ ExpireLease \/ Claim \/ PauseLive \/ EnableLive
        \/ ChangeSettings => permit' = permit
  BY DEF Discover, AdminCancel, ExpireLease, Claim, PauseLive, EnableLive, ChangeSettings, dbVars
<1>2. ASSUME NEW j \in Jobs, ExpireJob(j) \/ Reconcile(j) PROVE permit' = permit
  BY <1>2 DEF ExpireJob, Reconcile
<1>3. ASSUME NEW t \in Txns, PersonStep(t) PROVE permit' = permit
  BY <1>3, PersonLeaves
<1>4. ASSUME NEW w \in Workers,
             BeginRecovery(w) \/ Dispatch(w) \/ Prepare(w) \/ Confirm(w) \/ Complete(w)
             \/ TakeLease(w) \/ Decide(w) \/ Checkpoint(w) \/ StageRow(w) \/ PreCommit(w)
             \/ Persist(w) \/ Send(w) \/ Finish(w) \/ Crash(w)
      PROVE  permit' = permit
  BY <1>4 DEF BeginRecovery, Dispatch, Prepare, Confirm, Complete, TakeLease, Decide, Checkpoint,
     StageRow, PreCommit, Persist, Send, Finish, Crash, dbVars
<1> QED
  BY <1>1, <1>2, <1>3, <1>4 DEF Next, WorkerStep

LEMMA RowWriters ==
  ASSUME Next, txn' # txn
  PROVE  \/ \E w \in Workers : StageRow(w) \/ Send(w)
         \/ \E j \in Jobs : Reconcile(j)
         \/ \E t \in Txns : PersonStep(t)
<1>1. Discover \/ AdminCancel \/ ExpireLease \/ Claim \/ NewDay \/ PauseLive \/ EnableLive
        \/ ChangeSettings => txn' = txn
  BY DEF Discover, AdminCancel, ExpireLease, Claim, NewDay, PauseLive, EnableLive,
     ChangeSettings, dbVars
<1>2. ASSUME NEW j \in Jobs, ExpireJob(j) PROVE txn' = txn
  BY <1>2 DEF ExpireJob
<1>3. ASSUME NEW w \in Workers,
             BeginRecovery(w) \/ Dispatch(w) \/ Prepare(w) \/ Confirm(w) \/ Complete(w)
             \/ TakeLease(w) \/ Decide(w) \/ Checkpoint(w) \/ PreCommit(w) \/ Persist(w)
             \/ Enter(w) \/ RecoverCommit(w) \/ Finish(w) \/ Crash(w)
      PROVE  txn' = txn
  BY <1>3 DEF BeginRecovery, Dispatch, Prepare, Confirm, Complete, TakeLease, Decide, Checkpoint,
     PreCommit, Persist, Enter, RecoverCommit, Finish, Crash, dbVars
<1> QED
  BY <1>1, <1>2, <1>3 DEF Next, WorkerStep

LEMMA SwitchWriters ==
  ASSUME Typed, Next, live', ~live
  PROVE  EnableLive
<1>1. Discover \/ AdminCancel \/ ExpireLease \/ Claim \/ NewDay => live' = live
  BY DEF Discover, AdminCancel, ExpireLease, Claim, NewDay, configVars
<1>2. ~PauseLive /\ ~ChangeSettings
  BY DEF PauseLive, ChangeSettings
<1>3. ASSUME NEW j \in Jobs, ExpireJob(j) \/ Reconcile(j) PROVE live' = live
  BY <1>3 DEF ExpireJob, Reconcile, configVars
<1>4. ASSUME NEW t \in Txns, PersonStep(t) PROVE live' = live
  BY <1>4, PersonLeaves
<1>5. ASSUME NEW w \in Workers,
             BeginRecovery(w) \/ Dispatch(w) \/ Prepare(w) \/ Confirm(w) \/ Complete(w)
             \/ TakeLease(w) \/ Decide(w) \/ Checkpoint(w) \/ StageRow(w) \/ PreCommit(w)
             \/ Persist(w) \/ Enter(w) \/ RecoverCommit(w) \/ Crash(w)
      PROVE  live' = live
  BY <1>5 DEF BeginRecovery, Dispatch, Prepare, Confirm, Complete, TakeLease, Decide, Checkpoint,
     StageRow, PreCommit, Persist, Enter, RecoverCommit, Crash, configVars
<1>6. ASSUME NEW w \in Workers, Send(w) PROVE FALSE
  BY <1>6 DEF Send
<1>7. ASSUME NEW w \in Workers, Finish(w) PROVE FALSE
  BY <1>7 DEF Finish
<1> QED
  BY <1>1, <1>2, <1>3, <1>4, <1>5, <1>6, <1>7 DEF Next, WorkerStep

\* What may become of a write: it is still unsent, it is sent under an authority and
\* a permit, or it is settled.
Sent == {"COMMITTING", "UNCERTAIN"}

SendsNow(j) ==
  /\ attempt[j] = "PREPARED" /\ attempt'[j] = "COMMITTING"
  /\ PermitLeft(j) /\ permit' = Permitted(j) /\ txn' = txn /\ run' = run
  /\ \A k \in Jobs \ {j} : attempt'[k] = attempt[k]
  /\ \E w \in Workers : claim[w].job = j /\ CommitAuthority(w)
Settles(j) ==
  /\ attempt[j] \in Sent /\ attempt'[j] \in {"UNCERTAIN", "VERIFIED", "UNCHANGED"}
  /\ permit' = permit
  /\ attempt'[j] = "UNCERTAIN" => attempt[j] = "COMMITTING" /\ ~live'
  /\ attempt' = [attempt EXCEPT ![j] = attempt'[j]]
  /\ txn' = [txn EXCEPT ![j.txn].status =
               CASE attempt'[j] = "VERIFIED" -> "POSTED"
                 [] attempt'[j] = "UNCERTAIN" -> "ERROR"
                 [] OTHER -> "PENDING"]
Rests(j) ==
  /\ attempt[j] \notin Sent \cup {"VERIFIED", "UNCHANGED"}
  /\ attempt'[j] \notin Sent \cup {"VERIFIED", "UNCHANGED"}

LEMMA AttemptSteps ==
  ASSUME Typed, [Next]_vars, NEW j \in Jobs, attempt'[j] # attempt[j]
  PROVE  SendsNow(j) \/ Settles(j) \/ Rests(j)
<1>1. /\ attempt \in [Jobs -> AttemptStatus] /\ Next /\ attempt' # attempt
      /\ live \in BOOLEAN
  BY DEF Typed, TypeOK, vars, dbVars
<1>2. CASE Claim
  <2>1. PICK chosen \in SUBSET Candidates :
          attempt' = [k \in Jobs |->
            IF k \in {l \in chosen : Exhausted(l)} /\ Recoverable(k) /\ attempt[k] \in Retirable
            THEN "FAILED" ELSE attempt[k]]
    BY <1>2 DEF Claim, ClaimJobs
  <2>2. attempt[j] \in Retirable /\ attempt'[j] = "FAILED"
    BY <2>1
  <2> QED
    BY <2>2 DEF Retirable, Rests, Sent
<1>3. ASSUME NEW w \in Workers, Persist(w) PROVE Rests(j)
  BY <1>1, <1>3 DEF Persist, Rests, Sent
<1>4. ASSUME NEW w \in Workers, Enter(w) PROVE SendsNow(j) \/ Rests(j)
  <2>1. claim[w].job = j /\ attempt[j] = "PREPARED"
    BY <1>1, <1>4 DEF Enter, GiveUp
  <2>2. attempt'[j] \in {"COMMITTING", "FAILED", "RETRYABLE"}
    BY <1>1, <1>4, <2>1 DEF Enter, GiveUp
  <2>3. CASE attempt'[j] = "COMMITTING"
    BY <1>1, <1>4, <2>1, <2>3 DEF Enter, GiveUp, SendsNow
  <2>4. CASE attempt'[j] # "COMMITTING"
    BY <2>1, <2>2, <2>4 DEF Rests, Sent
  <2> QED
    BY <2>3, <2>4
<1>5. ASSUME NEW w \in Workers, Send(w) PROVE Settles(j)
  <2>1. claim[w].job = j
    BY <1>1, <1>5 DEF Send
  <2>2. permit' = permit
    BY <1>5 DEF Send
  <2>3. CASE /\ attempt[j] \in {"COMMITTING", "UNCERTAIN"}
             /\ attempt' = [attempt EXCEPT ![j] = "VERIFIED"]
             /\ txn' = [txn EXCEPT ![j.txn].status = "POSTED"]
    BY <1>1, <2>2, <2>3 DEF Settles, Sent
  <2>4. CASE /\ attempt[j] = "COMMITTING"
             /\ attempt' = [attempt EXCEPT ![j] = "UNCERTAIN"]
             /\ txn' = [txn EXCEPT ![j.txn].status = "ERROR"]
             /\ live' = FALSE
    BY <1>1, <2>2, <2>4 DEF Settles, Sent
  <2> QED
    BY <1>5, <2>1, <2>3, <2>4 DEF Send
<1>6. ASSUME NEW w \in Workers, RecoverCommit(w) PROVE Rests(j)
  BY <1>1, <1>6 DEF RecoverCommit, Rests, Sent
<1>7. ASSUME NEW k \in Jobs, Reconcile(k) PROVE Settles(j)
  <2>1. PICK status \in {"VERIFIED", "UNCHANGED"} :
          /\ attempt' = [attempt EXCEPT ![k] = status]
          /\ txn' = [txn EXCEPT ![k.txn].status =
                       IF status = "VERIFIED" THEN "POSTED" ELSE "PENDING"]
    BY <1>7 DEF Reconcile
  <2>2. k = j /\ attempt'[j] = status
    BY <1>1, <2>1
  <2>3. attempt[j] \in Sent /\ permit' = permit
    BY <1>7, <2>2 DEF Reconcile, Reconcilable, Sent
  <2> QED
    BY <1>1, <2>1, <2>2, <2>3 DEF Settles
<1> QED
  BY <1>1, <1>2, <1>3, <1>4, <1>5, <1>6, <1>7, AttemptWriters

----------------------------------------------------------------------------
(* Counting.                                                                 *)

LEMMA BindingsFinite == IsFiniteSet(Bindings)
<1> DEFINE G == 0..MaxGeneration
           f == [p \in Configs \X G |-> [config |-> p[1], generation |-> p[2]]]
<1>1. IsFiniteSet(Configs \X G)
  <2>1. IsFiniteSet(G)
    BY FS_Interval, BoundsAssumption
  <2> QED
    BY <2>1, FS_Product, BoundsAssumption
<1>2. f \in Surjection(Configs \X G, Bindings)
  <2>1. f \in [Configs \X G -> Bindings]
    BY DEF Bindings
  <2>2. ASSUME NEW b \in Bindings PROVE \E p \in Configs \X G : f[p] = b
    <3>1. <<b.config, b.generation>> \in Configs \X G
      BY DEF Bindings
    <3>2. f[<<b.config, b.generation>>] = b
      BY <3>1 DEF Bindings
    <3> QED
      BY <3>1, <3>2
  <2> QED
    BY <2>1, <2>2 DEF Surjection
<1> QED
  BY <1>1, <1>2, FS_Surjection

LEMMA JobsFinite == IsFiniteSet(Jobs)
<1> DEFINE R == 0..MaxRevision
           f == [p \in (Txns \X R) \X Bindings |->
                   [txn |-> p[1][1], rev |-> p[1][2], binding |-> p[2]]]
<1>1. IsFiniteSet(R) /\ IsFiniteSet(Bindings)
  BY FS_Interval, BindingsFinite, BoundsAssumption
<1>2. IsFiniteSet((Txns \X R) \X Bindings)
  BY <1>1, FS_Product, BoundsAssumption
<1>3. f \in Surjection((Txns \X R) \X Bindings, Jobs)
  <2>1. f \in [(Txns \X R) \X Bindings -> Jobs]
    BY DEF Jobs
  <2>2. ASSUME NEW j \in Jobs PROVE \E p \in (Txns \X R) \X Bindings : f[p] = j
    <3>1. j.txn \in Txns /\ j.rev \in R /\ j.binding \in Bindings
      BY DEF Jobs
    <3>2. <<<<j.txn, j.rev>>, j.binding>> \in (Txns \X R) \X Bindings
      BY <3>1
    <3>3. f[<<<<j.txn, j.rev>>, j.binding>>] = j
      BY <3>2 DEF Jobs
    <3> QED
      BY <3>2, <3>3
  <2> QED
    BY <2>1, <2>2 DEF Surjection
<1> QED
  BY <1>2, <1>3, FS_Surjection

LEMMA FewJobs ==
  ASSUME NEW S \in SUBSET Jobs
  PROVE  IsFiniteSet(S) /\ Cardinality(S) \in Nat
BY JobsFinite, FS_Subset, FS_CardinalityType

\* A set without two different members has at most one.
LEMMA AtMostOne ==
  ASSUME NEW S \in SUBSET Jobs, \A j, k \in S : j = k
  PROVE  Cardinality(S) <= 1
<1>1. CASE S = {}
  BY <1>1, FS_EmptySet
<1>2. CASE S # {}
  <2>1. PICK j \in S : TRUE
    BY <1>2
  <2>2. S = {j}
    BY <2>1
  <2> QED
    BY <2>2, FS_Singleton
<1> QED
  BY <1>1, <1>2

----------------------------------------------------------------------------
(* Writes that may have been sent.                                           *)

OneSent == \A j, k \in Jobs : attempt[j] \in Sent /\ attempt[k] \in Sent => j = k
Permits ==
  /\ Cardinality(PermitsOfToday) <= WriteLimit
  /\ \A j \in Jobs : attempt[j] \in Sent \cup {"VERIFIED"} => permit[j] # "none"
UncertainStops == \A j \in Jobs : attempt[j] = "UNCERTAIN" => ~live

LEMMA OneSentNext ==
  ASSUME Typed, OneSent, [Next]_vars
  PROVE  OneSent'
<1> SUFFICES ASSUME NEW j \in Jobs, NEW k \in Jobs, attempt'[j] \in Sent, attempt'[k] \in Sent,
                    j # k
             PROVE  FALSE
  BY DEF OneSent
<1>1. ASSUME NEW l \in Jobs, NEW m \in Jobs, l # m, SendsNow(l), attempt'[m] \in Sent PROVE FALSE
  <2>1. attempt[m] \in Sent
    BY <1>1 DEF SendsNow
  <2>2. PICK w \in Workers : claim[w].job = l /\ CommitAuthority(w)
    BY <1>1 DEF SendsNow
  <2>3. attempt[m] \notin Unresolved
    BY <1>1, <2>2 DEF CommitAuthority, UnresolvedElsewhere
  <2> QED
    BY <2>1, <2>3 DEF Sent, Unresolved
<1>2. attempt[j] \in Sent /\ attempt[k] \in Sent
  <2>1. ASSUME NEW l \in Jobs, attempt'[l] \in Sent, ~SendsNow(l) PROVE attempt[l] \in Sent
    BY <2>1, AttemptSteps DEF Settles, Rests
  <2> QED
    BY <1>1, <2>1
<1> QED
  BY <1>2 DEF OneSent

LEMMA PermitsNext ==
  ASSUME Typed, Permits, [Next]_vars
  PROVE  Permits'
<1>1. permit \in [Jobs -> {"none", "today", "earlier"}] /\ PermitsOfToday \in SUBSET Jobs
  BY DEF Typed, TypeOK, PermitsOfToday
<1>2. /\ IsFiniteSet(PermitsOfToday) /\ Cardinality(PermitsOfToday) \in Nat
      /\ WriteLimit \in Nat
  BY <1>1, FewJobs, BoundsAssumption
<1>3. ASSUME NEW j \in Jobs, PermitLeft(j), permit' = Permitted(j)
      PROVE  /\ Cardinality(PermitsOfToday') <= WriteLimit
             /\ \A k \in Jobs : permit[k] # "none" => permit'[k] # "none"
             /\ permit'[j] # "none"
  <2>1. CASE permit[j] # "none"
    <3>1. permit' = permit
      BY <1>1, <1>3, <2>1 DEF Permitted
    <3> QED
      BY <2>1, <3>1 DEF Permits, PermitsOfToday
  <2>2. CASE permit[j] = "none"
    <3>1. PermitsOfToday' = PermitsOfToday \cup {j}
      BY <1>1, <1>3, <2>2 DEF Permitted, PermitsOfToday
    <3>2. Cardinality(PermitsOfToday) < WriteLimit
      <4>1. PICK limit \in 1..WriteLimit : Cardinality(PermitsOfToday) < limit
        BY <1>3, <2>2 DEF PermitLeft
      <4> QED
        BY <1>2, <4>1
    <3>3. Cardinality(PermitsOfToday') <= Cardinality(PermitsOfToday) + 1
      <4>1. Cardinality(PermitsOfToday \cup {j}) =
              IF j \in PermitsOfToday THEN Cardinality(PermitsOfToday)
              ELSE Cardinality(PermitsOfToday) + 1
        BY <1>2, FS_AddElement
      <4> QED
        BY <1>2, <3>1, <4>1
    <3>4. Cardinality(PermitsOfToday') \in Nat
      BY <1>2, <3>1, FS_AddElement
    <3> QED
      BY <1>1, <1>2, <1>3, <2>2, <3>2, <3>3, <3>4 DEF Permitted
  <2> QED
    BY <2>1, <2>2
<1>4. /\ Cardinality(PermitsOfToday') <= WriteLimit
      /\ \A k \in Jobs : permit[k] # "none" => permit'[k] # "none"
  <2>1. CASE permit' = permit
    BY <2>1 DEF Permits, PermitsOfToday
  <2>2. CASE NewDay
    <3>1. PermitsOfToday' = {}
      BY <1>1, <2>2 DEF NewDay, PermitsOfToday
    <3>2. \A k \in Jobs : permit[k] # "none" => permit'[k] # "none"
      BY <1>1, <2>2 DEF NewDay
    <3> QED
      BY <1>2, <3>1, <3>2, FS_EmptySet
  <2>3. ASSUME NEW w \in Workers, Enter(w) \/ RecoverCommit(w), permit' # permit
        PROVE  \E j \in Jobs : PermitLeft(j) /\ permit' = Permitted(j)
    <3>1. claim[w].job \in Jobs
      BY <2>3, ClaimOf DEF Enter, RecoverCommit
    <3> QED
      BY <2>3, <3>1 DEF Enter, RecoverCommit
  <2>4. CASE Next /\ permit' # permit
    BY <1>3, <2>2, <2>3, <2>4, PermitWriters
  <2> QED
    BY <2>1, <2>4 DEF vars, dbVars
<1>5. ASSUME NEW j \in Jobs, attempt'[j] \in Sent \cup {"VERIFIED"} PROVE permit'[j] # "none"
  <2>1. CASE attempt[j] \in Sent \cup {"VERIFIED"}
    BY <1>4, <2>1 DEF Permits
  <2>2. CASE SendsNow(j)
    BY <1>3, <2>2 DEF SendsNow
  <2> QED
    BY <1>5, <2>1, <2>2, AttemptSteps DEF Settles, Rests
<1> QED
  BY <1>4, <1>5 DEF Permits

LEMMA UncertainStopsNext ==
  ASSUME Typed, UncertainStops, [Next]_vars
  PROVE  UncertainStops'
<1> SUFFICES ASSUME NEW j \in Jobs, attempt'[j] = "UNCERTAIN", live' PROVE FALSE
  BY DEF UncertainStops
<1>1. attempt[j] = "UNCERTAIN"
  BY AttemptSteps DEF SendsNow, Settles, Rests, Sent
<1>2. ~live
  BY <1>1 DEF UncertainStops
<1>3. EnableLive
  BY <1>2, SwitchWriters DEF vars, configVars
<1> QED
  BY <1>1, <1>3 DEF EnableLive, AnyUnresolved, Unresolved

----------------------------------------------------------------------------
(* Capacity.                                                                 *)

AliveBound == Cardinality(Alive) <= Least(Capacity, Concurrency)

\* Only a claim brings a lease to life.
LEMMA AliveShrinks ==
  ASSUME Typed, Next, ~Claim
  PROVE  Alive' \subseteq Alive
<1>1. job \in [Jobs -> JobRows]
  BY Parts DEF DbTyped
<1>2. job' = job => Alive' \subseteq Alive
  BY DEF Alive
<1>3. ASSUME NEW j \in Jobs, NEW status, job' = Over(j, status) PROVE Alive' \subseteq Alive
  BY <1>1, <1>3 DEF Alive, Over, JobRows
<1>4. CASE Discover
  BY <1>1, <1>4 DEF Discover, Discoverable, Alive, NoJob
<1>5. CASE AdminCancel
  BY <1>1, <1>5 DEF AdminCancel, Alive, JobRows
<1>6. CASE ExpireLease \/ NewDay \/ PauseLive \/ EnableLive \/ ChangeSettings
  BY <1>2, <1>6 DEF ExpireLease, NewDay, PauseLive, EnableLive, ChangeSettings, dbVars
<1>7. ASSUME NEW j \in Jobs, ExpireJob(j) \/ Reconcile(j) PROVE Alive' \subseteq Alive
  <2>1. \/ job' = [job EXCEPT ![j].live = FALSE]
        \/ job' = [job EXCEPT ![j].status = "completed"]
    BY <1>7 DEF ExpireJob, Reconcile
  <2>2. job[j] \in JobRows
    BY <1>1
  <2>3. CASE job' = [job EXCEPT ![j].live = FALSE]
    BY <1>1, <2>2, <2>3 DEF Alive, JobRows
  <2>4. CASE job' = [job EXCEPT ![j].status = "completed"]
    BY <1>1, <2>2, <2>4 DEF Alive, JobRows
  <2> QED
    BY <2>1, <2>3, <2>4
<1>8. ASSUME NEW t \in Txns, PersonStep(t) PROVE Alive' \subseteq Alive
  BY <1>2, <1>8, PersonLeaves
<1>9. ASSUME NEW w \in Workers, Prepare(w) \/ Confirm(w) \/ Complete(w) \/ Finish(w)
      PROVE  Alive' \subseteq Alive
  <2>1. claim[w].job \in Jobs
    BY <1>9, ClaimOf DEF Prepare, Confirm, Complete, Finish
  <2>2. job' = job \/ \E status : job' = Over(claim[w].job, status)
    BY <1>9 DEF Prepare, Confirm, Complete, Fenced, Finish
  <2> QED
    BY <1>2, <1>3, <2>1, <2>2
<1>10. ASSUME NEW w \in Workers,
              BeginRecovery(w) \/ Dispatch(w) \/ TakeLease(w) \/ Decide(w) \/ Checkpoint(w)
              \/ StageRow(w) \/ PreCommit(w) \/ Persist(w) \/ Enter(w) \/ Send(w)
              \/ RecoverCommit(w) \/ Crash(w)
       PROVE  Alive' \subseteq Alive
  <2>1. job' = job
    BY <1>10 DEF BeginRecovery, Dispatch, TakeLease, Decide, Checkpoint, StageRow, PreCommit,
       Persist, Enter, Send, RecoverCommit, Crash, dbVars
  <2> QED
    BY <1>2, <2>1
<1> QED
  BY <1>4, <1>5, <1>6, <1>7, <1>8, <1>9, <1>10 DEF Next, WorkerStep

\* A claim fills what the limits leave.
LEMMA ClaimKeepsBound ==
  ASSUME Typed, AliveBound, Claim
  PROVE  AliveBound'
<1> DEFINE kept == Alive \ Obsolete  limit == Least(Capacity, Concurrency)
<1>1. PICK chosen \in SUBSET Candidates :
        /\ Cardinality(chosen) <= Free
        /\ \E f \in Assignments(chosen) : ClaimJobs(chosen, f)
  BY DEF Claim
<1>2. chosen \in SUBSET Jobs /\ kept \in SUBSET Jobs
  BY <1>1 DEF Candidates, Alive
<1>3. /\ IsFiniteSet(chosen) /\ Cardinality(chosen) \in Nat
      /\ IsFiniteSet(kept) /\ Cardinality(kept) \in Nat
  BY <1>2, FewJobs
<1>4. Alive' \subseteq kept \cup chosen
  <2>1. \A j \in Jobs : job'[j] =
          IF j \in Obsolete THEN [job[j] EXCEPT !.status = "cancelled", !.live = FALSE]
          ELSE IF j \in {k \in chosen : Exhausted(k)} THEN [job[j] EXCEPT !.status = "terminal"]
          ELSE IF j \in chosen
               THEN [status |-> "running", tries |-> job[j].tries + 1, live |-> TRUE]
          ELSE job[j]
    BY <1>1 DEF ClaimJobs
  <2>2. job \in [Jobs -> JobRows]
    BY Parts DEF DbTyped
  <2>3. ASSUME NEW j \in Jobs, j \in Obsolete PROVE job'[j].live = FALSE
    BY <2>1, <2>2, <2>3 DEF JobRows
  <2>4. ASSUME NEW j \in Jobs, j \notin Obsolete, j \notin chosen PROVE job'[j] = job[j]
    BY <2>1, <2>4
  <2> QED
    BY <2>3, <2>4 DEF Alive
<1>5. Cardinality(kept \cup chosen) <= Cardinality(kept) + Cardinality(chosen)
  <2>1. Cardinality(kept \cup chosen)
          = Cardinality(kept) + Cardinality(chosen) - Cardinality(kept \cap chosen)
    BY <1>3, FS_Union
  <2>2. Cardinality(kept \cap chosen) \in Nat
    BY <1>2, FewJobs
  <2> QED
    BY <1>3, <2>1, <2>2
<1>6. IsFiniteSet(kept \cup chosen) /\ Cardinality(kept \cup chosen) \in Nat
  BY <1>3, FS_Union, FS_CardinalityType
<1>7. /\ IsFiniteSet(Alive') /\ Cardinality(Alive') \in Nat
      /\ Cardinality(Alive') <= Cardinality(kept \cup chosen)
  BY <1>4, <1>6, FS_Subset, FS_CardinalityType
<1>8. limit \in Nat
  BY BoundsAssumption DEF Least
<1>9. Cardinality(chosen) <= limit - Cardinality(kept)
  BY <1>1 DEF Free
<1> HIDE DEF kept, limit
<1>10. Cardinality(Alive') <= limit
  BY <1>3, <1>5, <1>6, <1>7, <1>8, <1>9
<1> QED
  BY <1>10 DEF AliveBound, limit, Least

LEMMA AliveBoundNext ==
  ASSUME Typed, AliveBound, [Next]_vars
  PROVE  AliveBound'
<1>1. Alive \in SUBSET Jobs /\ Alive' \in SUBSET Jobs
  BY DEF Alive
<1>2. CASE Next /\ ~Claim
  <2>1. Cardinality(Alive') <= Cardinality(Alive)
    BY <1>1, <1>2, FewJobs, AliveShrinks, FS_Subset
  <2>2. Cardinality(Alive') \in Nat /\ Cardinality(Alive) \in Nat
    BY <1>1, FewJobs
  <2>3. Least(Capacity, Concurrency) \in Nat
    BY BoundsAssumption DEF Least
  <2> QED
    BY <2>1, <2>2, <2>3 DEF AliveBound, Least
<1>3. CASE UNCHANGED vars
  BY <1>3 DEF vars, dbVars, AliveBound, Alive, Least
<1> QED
  BY <1>2, <1>3, ClaimKeepsBound

----------------------------------------------------------------------------
(* Workers move by themselves.                                               *)

Moved(w) == pc'[w] # pc[w] \/ claim'[w] # claim[w] \/ out'[w] # out[w]

LEMMA OneMoves ==
  ASSUME Typed, NEW v \in Workers, NEW w \in Workers, v # w,
         Away(v) \/ (\E step : Go(v, step) /\ UNCHANGED <<claim, out>>)
         \/ (\E o : Ending(v, o) /\ UNCHANGED claim)
  PROVE  ~Moved(w)
<1>1. /\ pc \in [Workers -> Steps] /\ claim \in [Workers -> Claims \cup {None}]
      /\ out \in [Workers -> Outcomes \cup {None}]
  BY DEF Typed, TypeOK
<1> QED
  BY <1>1 DEF Away, Go, Ending, Moved

LEMMA StepMoves ==
  ASSUME NEW v \in Workers, WorkerStep(v) \/ Crash(v)
  PROVE  \/ Away(v)
         \/ \E step : Go(v, step) /\ UNCHANGED <<claim, out>>
         \/ \E o : Ending(v, o) /\ UNCHANGED claim
<1>1. CASE BeginRecovery(v) \/ Dispatch(v) \/ Prepare(v)
  BY <1>1 DEF BeginRecovery, Dispatch, Prepare
<1>2. CASE Confirm(v) \/ Complete(v) \/ Crash(v)
  BY <1>2 DEF Confirm, Complete, Fenced, Crash
<1>3. CASE TakeLease(v)
  BY <1>3 DEF TakeLease
<1>4. CASE Decide(v) \/ Checkpoint(v)
  BY <1>4 DEF Decide, Checkpoint
<1>5. CASE StageRow(v) \/ PreCommit(v) \/ Persist(v)
  BY <1>5 DEF StageRow, PreCommit, Persist
<1>6. CASE Enter(v)
  BY <1>6 DEF Enter
<1>7. CASE Send(v)
  BY <1>7 DEF Send
<1>8. CASE RecoverCommit(v)
  BY <1>8 DEF RecoverCommit
<1>9. CASE Finish(v)
  BY <1>9 DEF Finish
<1> QED
  BY <1>1, <1>2, <1>3, <1>4, <1>5, <1>6, <1>7, <1>8, <1>9 DEF WorkerStep

\* A worker is moved by a step of its own, or it was idle and a claim is given to it.
GivenClaim(w) == pc[w] = "idle" /\ pc'[w] = "claimed" /\ out'[w] = out[w]

LEMMA Mover ==
  ASSUME Typed, Next, NEW w \in Workers, Moved(w)
  PROVE  WorkerStep(w) \/ Crash(w) \/ (Claim /\ GivenClaim(w))
<1>1. ~(Discover \/ AdminCancel \/ ExpireLease \/ NewDay \/ PauseLive \/ EnableLive
        \/ ChangeSettings)
  BY DEF Discover, AdminCancel, ExpireLease, NewDay, PauseLive, EnableLive, ChangeSettings,
     workerVars, Moved
<1>2. ASSUME NEW j \in Jobs, ExpireJob(j) \/ Reconcile(j) PROVE FALSE
  BY <1>2 DEF ExpireJob, Reconcile, workerVars, Moved
<1>3. ASSUME NEW t \in Txns, PersonStep(t) PROVE FALSE
  BY <1>3, PersonLeaves DEF Moved
<1>4. ASSUME NEW v \in Workers, WorkerStep(v) \/ Crash(v) PROVE v = w
  BY <1>4, StepMoves, OneMoves
<1>5. CASE Claim
  <2>1. PICK chosen \in SUBSET Candidates :
          \E f \in Assignments(chosen) : ClaimJobs(chosen, f)
    BY <1>5 DEF Claim
  <2>2. PICK who \in Assignments(chosen) : ClaimJobs(chosen, who)
    BY <2>1
  <2>3. DOMAIN who \subseteq {v \in Workers : pc[v] = "idle"}
    BY <2>2 DEF Assignments
  <2>4. w \in DOMAIN who => GivenClaim(w)
    BY <1>5, <2>2, <2>3 DEF ClaimJobs, Claim, GivenClaim
  <2>5. w \notin DOMAIN who => ~Moved(w)
    BY <1>5, <2>2 DEF ClaimJobs, Claim, Moved
  <2> QED
    BY <1>5, <2>4, <2>5
<1> QED
  BY <1>1, <1>2, <1>3, <1>4, <1>5 DEF Next

----------------------------------------------------------------------------
(* A write and its row.                                                      *)

RowStands ==
  \A j \in Jobs :
    /\ attempt[j] \in Sent \cup {"VERIFIED"} => RowOf(j).rev = j.rev + 1
    /\ attempt[j] \in Sent => RowOf(j).write \notin Unresolved
    /\ attempt[j] = "COMMITTING" => RowOf(j).status = "PENDING"
    /\ attempt[j] = "UNCERTAIN" => RowOf(j).status = "ERROR"
    /\ attempt[j] = "VERIFIED" => /\ RowOf(j).write # "NONE" => RowOf(j).op = "restore"
                                 /\ RowOf(j).status = Shown(j.txn)

\* What a row says of a person's write.
ShownOf(row) ==
  CASE row.write = "UNCERTAIN" -> "ERROR"
    [] row.write = "VERIFIED" -> After(row.op)
    [] OTHER -> Before(row.op)
PersonRows == \A t \in Txns : txn[t].write # "NONE" => txn[t].status = ShownOf(txn[t])

PostedOutcome ==
  \A w \in Workers : out[w] = "posted" => pc[w] = "finish" /\ attempt[claim[w].job] = "VERIFIED"
PostedRuns ==
  \A j \in Jobs : \A n \in Tries : run[j][n].status = "posted_verified" => attempt[j] = "VERIFIED"

LEMMA VerifiedStays ==
  ASSUME Typed, [Next]_vars, NEW j \in Jobs, attempt[j] = "VERIFIED"
  PROVE  attempt'[j] = "VERIFIED"
BY AttemptSteps DEF SendsNow, Settles, Rests, Sent

\* A row a job's write is on its way to bears no attempt of a person.
LEMMA SentRowIsFree ==
  ASSUME Typed, RowStands, PersonRows, NEW j \in Jobs, attempt[j] \in Sent
  PROVE  j.txn \in Txns /\ RowOf(j).write = "NONE"
<1>1. j.txn \in Txns /\ txn[j.txn] \in TxnRows
  BY DEF Jobs, Typed, TypeOK, TxnRows
<1>2. /\ RowOf(j).write \notin Unresolved
      /\ RowOf(j).status \in {"PENDING", "ERROR"}
  BY DEF RowStands, Sent
<1>3. RowOf(j).write # "VERIFIED"
  BY <1>1, <1>2 DEF PersonRows, ShownOf, After, RowOf
<1> QED
  BY <1>1, <1>2, <1>3 DEF TxnRows, PersonStatus, Unresolved, RowOf

\* What a step of a person makes of its row.
LEMMA PersonShows ==
  ASSUME Typed, PersonRows, NEW t \in Txns, PersonStep(t)
  PROVE  txn'[t].write # "NONE" => txn'[t].status = ShownOf(txn'[t])
<1>0. /\ txn \in [Txns -> TxnRows] /\ txn[t] \in TxnRows
      /\ txn[t].write # "NONE" => txn[t].status = ShownOf(txn[t])
  BY DEF Typed, TypeOK, TxnRows, PersonRows
<1>1. CASE PersonStage(t)
  <2>1. txn'[t] = [txn[t] EXCEPT !.rev = txn[t].rev + 1]
    BY <1>0, <1>1 DEF PersonStage
  <2>2. /\ txn'[t].write = txn[t].write /\ txn'[t].status = txn[t].status
        /\ txn'[t].op = txn[t].op
    BY <1>0, <2>1 DEF TxnRows
  <2> QED
    BY <1>0, <2>2 DEF ShownOf
<1>2. CASE PersonPrepare(t)
  <2>1. PICK op \in Operations :
          /\ txn[t].status = Before(op)
          /\ txn'[t] = [txn[t] EXCEPT !.op = op, !.write = "PREPARED"]
    BY <1>0, <1>2 DEF PersonPrepare, PersonWrites
  <2> QED
    BY <1>0, <2>1 DEF ShownOf, TxnRows
<1>3. CASE PersonEnter(t)
  <2>1. /\ txn[t].status = Before(txn[t].op)
        /\ txn'[t] = [txn[t] EXCEPT !.write = "COMMITTING"]
    BY <1>0, <1>3 DEF PersonEnter, PersonWrites
  <2> QED
    BY <1>0, <2>1 DEF ShownOf, TxnRows
<1>4. CASE PersonGiveUp(t)
  BY <1>0, <1>4 DEF PersonGiveUp, PersonWrites, TxnRows
<1>5. CASE PersonAnswer(t) \/ PersonReconcile(t)
  <2>1. \/ txn'[t] = [txn[t] EXCEPT !.write = "VERIFIED", !.status = After(txn[t].op)]
        \/ txn'[t] = [txn[t] EXCEPT !.write = "UNCERTAIN", !.status = "ERROR"]
        \/ txn'[t] = [txn[t] EXCEPT !.op = "recategorize", !.write = "NONE",
                                    !.status = Before(txn[t].op)]
    BY <1>0, <1>5 DEF PersonAnswer, PersonReconcile, PersonWrites
  <2>2. \/ /\ txn'[t].write = "VERIFIED" /\ txn'[t].op = txn[t].op
           /\ txn'[t].status = After(txn[t].op)
        \/ txn'[t].write = "UNCERTAIN" /\ txn'[t].status = "ERROR"
        \/ txn'[t].write = "NONE"
    BY <1>0, <2>1 DEF TxnRows
  <2> QED
    BY <2>2 DEF ShownOf
<1> QED
  BY <1>1, <1>2, <1>3, <1>4, <1>5 DEF PersonStep

\* Steps that give a row another status settle a job's write or are a person's.
LEMMA RowSteps ==
  ASSUME Typed, [Next]_vars, txn' # txn
  PROVE  \/ \E k \in Jobs : Settles(k)
         \/ \E w \in Workers : StageRow(w)
         \/ \E t \in Txns : PersonStep(t)
<1>0. attempt \in [Jobs -> AttemptStatus] /\ Next
  BY DEF Typed, TypeOK, vars, dbVars
<1>1. ASSUME NEW w \in Workers, Send(w) PROVE \E k \in Jobs : Settles(k)
  <2>1. claim[w].job \in Jobs
    BY <1>1, ClaimOf DEF Send
  <2>2. /\ attempt[claim[w].job] \in Sent
        /\ \/ attempt[claim[w].job] = "COMMITTING" /\ attempt'[claim[w].job] = "UNCERTAIN"
           \/ attempt'[claim[w].job] = "VERIFIED"
    BY <1>0, <1>1, <2>1 DEF Send, Sent
  <2>3. attempt'[claim[w].job] # attempt[claim[w].job]
    BY <2>2 DEF Sent
  <2> QED
    BY <2>1, <2>2, <2>3, AttemptSteps DEF SendsNow, Rests, Sent
<1>2. ASSUME NEW k \in Jobs, Reconcile(k) PROVE Settles(k)
  <2>1. attempt[k] \in Sent /\ attempt'[k] \in {"VERIFIED", "UNCHANGED"}
    BY <1>0, <1>2 DEF Reconcile, Reconcilable, Sent
  <2>2. attempt'[k] # attempt[k]
    BY <2>1 DEF Sent
  <2> QED
    BY <2>1, <2>2, AttemptSteps DEF SendsNow, Rests, Sent
<1> QED
  BY <1>0, <1>1, <1>2, RowWriters

LEMMA PersonRowsNext ==
  ASSUME Typed, RowStands, PersonRows, [Next]_vars
  PROVE  PersonRows'
<1> SUFFICES ASSUME NEW t \in Txns, txn'[t].write # "NONE"
             PROVE  txn'[t].status = ShownOf(txn'[t])
  BY DEF PersonRows, ShownOf
<1>0. txn \in [Txns -> TxnRows] /\ txn[t] \in TxnRows
  BY DEF Typed, TypeOK, TxnRows
<1>1. CASE txn'[t] = txn[t]
  BY <1>1 DEF PersonRows
<1>2. ASSUME NEW k \in Jobs, Settles(k), txn'[t] # txn[t] PROVE FALSE
  <2>1. k.txn = t
    BY <1>0, <1>2 DEF Settles
  <2>2. txn[t].write = "NONE"
    BY <1>2, <2>1, SentRowIsFree DEF Settles, RowOf
  <2>3. txn'[t].write = txn[t].write
    BY <1>0, <1>2, <2>1 DEF Settles, TxnRows
  <2> QED
    BY <2>2, <2>3
<1>3. ASSUME NEW w \in Workers, StageRow(w), txn'[t] # txn[t]
      PROVE  txn'[t].status = ShownOf(txn'[t])
  <2>1. txn'[t] = [txn[t] EXCEPT !.rev = claim[w].job.rev + 1]
    BY <1>0, <1>3 DEF StageRow
  <2>2. /\ txn'[t].write = txn[t].write /\ txn'[t].status = txn[t].status
        /\ txn'[t].op = txn[t].op
    BY <1>0, <2>1 DEF TxnRows
  <2> QED
    BY <2>2 DEF PersonRows, ShownOf
<1>4. ASSUME NEW u \in Txns, PersonStep(u), txn'[t] # txn[t]
      PROVE  txn'[t].status = ShownOf(txn'[t])
  <2>1. u = t
    BY <1>0, <1>4, PersonRow
  <2> QED
    BY <1>4, <2>1, PersonShows
<1> QED
  BY <1>1, <1>2, <1>3, <1>4, RowSteps

\* An undo of the verified write, seen from its row.
LEMMA UndoSteps ==
  ASSUME Typed, PersonRows, NEW t \in Txns, PersonStep(t), ~PersonStage(t),
         txn[t].write # "NONE" => txn[t].op = "restore",
         txn[t].status = Shown(t)
  PROVE  /\ txn'[t].rev = txn[t].rev
         /\ txn'[t].write # "NONE" => txn'[t].op = "restore"
         /\ txn'[t].status = Shown(t)'
<1>0. /\ txn \in [Txns -> TxnRows] /\ txn[t] \in TxnRows
      /\ txn[t].status # "PENDING"
  BY DEF Typed, TypeOK, TxnRows, Shown
<1>1. CASE PersonPrepare(t)
  <2>1. PICK op \in Operations :
          /\ txn[t].status = Before(op) /\ txn[t].write \notin Unresolved
          /\ txn'[t] = [txn[t] EXCEPT !.op = op, !.write = "PREPARED"]
    BY <1>0, <1>1 DEF PersonPrepare, PersonWrites, UnresolvedOf
  <2>2. op = "restore" /\ txn[t].status = "POSTED"
    BY <1>0, <2>1 DEF Before, Operations
  <2>3. /\ txn'[t].rev = txn[t].rev /\ txn'[t].op = "restore" /\ txn'[t].write = "PREPARED"
        /\ txn'[t].status = "POSTED"
    BY <1>0, <2>1, <2>2 DEF TxnRows
  <2> QED
    BY <2>3 DEF Shown
<1>2. CASE PersonEnter(t)
  <2>1. /\ txn[t].op = "restore" /\ txn[t].status = "POSTED"
        /\ txn'[t] = [txn[t] EXCEPT !.write = "COMMITTING"]
    BY <1>0, <1>2 DEF PersonEnter, PersonWrites, Before
  <2>2. /\ txn'[t].rev = txn[t].rev /\ txn'[t].op = "restore" /\ txn'[t].write = "COMMITTING"
        /\ txn'[t].status = "POSTED"
    BY <1>0, <2>1 DEF TxnRows
  <2> QED
    BY <2>2 DEF Shown
<1>3. CASE PersonGiveUp(t)
  <2>1. /\ txn[t].status = "POSTED"
        /\ txn'[t] = [txn[t] EXCEPT !.op = "recategorize", !.write = "NONE"]
    BY <1>0, <1>3 DEF PersonGiveUp, PersonWrites, Shown
  <2>2. txn'[t].rev = txn[t].rev /\ txn'[t].write = "NONE" /\ txn'[t].status = "POSTED"
    BY <1>0, <2>1 DEF TxnRows
  <2> QED
    BY <2>2 DEF Shown
<1>4. CASE PersonAnswer(t) \/ PersonReconcile(t)
  <2>1. txn[t].op = "restore"
    BY <1>4 DEF PersonAnswer, PersonReconcile
  <2>2. \/ txn'[t] = [txn[t] EXCEPT !.write = "VERIFIED", !.status = "REVERTED"]
        \/ txn'[t] = [txn[t] EXCEPT !.write = "UNCERTAIN", !.status = "ERROR"]
        \/ txn'[t] = [txn[t] EXCEPT !.op = "recategorize", !.write = "NONE", !.status = "POSTED"]
    BY <1>0, <1>4, <2>1 DEF PersonAnswer, PersonReconcile, PersonWrites, After, Before
  <2>3. /\ txn'[t].rev = txn[t].rev
        /\ txn'[t].write # "NONE" => txn'[t].op = "restore"
        /\ \/ txn'[t].write = "VERIFIED" /\ txn'[t].status = "REVERTED"
           \/ txn'[t].write = "UNCERTAIN" /\ txn'[t].status = "ERROR"
           \/ txn'[t].write = "NONE" /\ txn'[t].status = "POSTED"
    BY <1>0, <2>1, <2>2 DEF TxnRows
  <2> QED
    BY <2>3 DEF Shown
<1> QED
  BY <1>1, <1>2, <1>3, <1>4 DEF PersonStep

LEMMA RowStandsNext ==
  ASSUME Typed, OneSent, RowStands, PersonRows, [Next]_vars
  PROVE  RowStands'
<1> SUFFICES ASSUME NEW j \in Jobs, attempt'[j] \in Sent \cup {"VERIFIED"}
             PROVE  /\ RowOf(j)'.rev = j.rev + 1
                    /\ attempt'[j] \in Sent => RowOf(j)'.write \notin Unresolved
                    /\ attempt'[j] = "COMMITTING" => RowOf(j)'.status = "PENDING"
                    /\ attempt'[j] = "UNCERTAIN" => RowOf(j)'.status = "ERROR"
                    /\ attempt'[j] = "VERIFIED" =>
                         /\ RowOf(j)'.write # "NONE" => RowOf(j)'.op = "restore"
                         /\ RowOf(j)'.status = Shown(j.txn)'
  BY DEF RowStands, Sent
<1>0. /\ j.txn \in Txns /\ j.rev \in Nat /\ attempt \in [Jobs -> AttemptStatus]
      /\ txn \in [Txns -> TxnRows] /\ txn[j.txn] \in TxnRows
  BY BoundsAssumption DEF Jobs, Typed, TypeOK, TxnRows
<1>1. CASE SendsNow(j)
  <2>1. /\ txn'[j.txn] = txn[j.txn] /\ attempt'[j] = "COMMITTING"
        /\ txn[j.txn].rev = j.rev + 1 /\ txn[j.txn].status = "PENDING"
    BY <1>0, <1>1 DEF SendsNow, CommitAuthority, RowOf
  <2>2. txn[j.txn].write \notin Unresolved
    BY <1>0, <1>1 DEF SendsNow, CommitAuthority, UnresolvedElsewhere, PersonUnresolved
  <2> QED
    BY <2>1, <2>2 DEF RowOf, Sent
<1>2. CASE Settles(j)
  <2>1. RowOf(j).rev = j.rev + 1 /\ RowOf(j).write = "NONE"
    BY <1>2, SentRowIsFree DEF Settles, RowStands
  <2>2. RowOf(j)'.rev = RowOf(j).rev /\ RowOf(j)'.write = RowOf(j).write
    BY <1>0, <1>2 DEF Settles, RowOf, TxnRows
  <2>3. RowOf(j)'.status = CASE attempt'[j] = "VERIFIED" -> "POSTED"
                             [] attempt'[j] = "UNCERTAIN" -> "ERROR"
                             [] OTHER -> "PENDING"
    BY <1>0, <1>2 DEF Settles, RowOf, TxnRows
  <2>4. attempt'[j] \in {"VERIFIED", "UNCERTAIN"}
    BY <1>2 DEF Settles, Sent
  <2>5. txn'[j.txn].write = "NONE"
    BY <2>1, <2>2 DEF RowOf
  <2>6. Shown(j.txn)' = "POSTED"
    BY <2>5 DEF Shown
  <2> QED
    BY <2>1, <2>2, <2>3, <2>4, <2>6 DEF Unresolved, Sent
<1>3. CASE attempt'[j] = attempt[j]
  <2>1. /\ RowOf(j).rev = j.rev + 1
        /\ attempt[j] \in Sent => RowOf(j).write \notin Unresolved
        /\ attempt[j] = "COMMITTING" => RowOf(j).status = "PENDING"
        /\ attempt[j] = "UNCERTAIN" => RowOf(j).status = "ERROR"
        /\ attempt[j] = "VERIFIED" => /\ RowOf(j).write # "NONE" => RowOf(j).op = "restore"
                                      /\ RowOf(j).status = Shown(j.txn)
    BY <1>3 DEF RowStands
  <2>2. attempt[j] = "VERIFIED" =>
          /\ txn[j.txn].status # "PENDING"
          /\ txn[j.txn].status = "ERROR" => txn[j.txn].write \in Unresolved
    BY <2>1 DEF RowOf, Shown, Unresolved
  <2>3. CASE txn'[j.txn] = txn[j.txn]
    <3>1. Shown(j.txn)' = Shown(j.txn)
      BY <2>3 DEF Shown
    <3> QED
      BY <1>3, <2>1, <2>3, <3>1 DEF RowOf
  <2>4. ASSUME NEW k \in Jobs, Settles(k) PROVE txn'[j.txn] = txn[j.txn]
    <3>1. k # j
      BY <1>3, <2>4 DEF Settles, Sent
    <3>2. attempt[j] \notin Sent
      BY <2>4, <3>1 DEF OneSent, Settles
    <3>3. attempt[j] = "VERIFIED"
      BY <1>3, <3>2
    <3>4. RowOf(k).status \in {"PENDING", "ERROR"} /\ RowOf(k).write \notin Unresolved
      BY <2>4 DEF Settles, RowStands, Sent
    <3>5. k.txn # j.txn
      BY <2>2, <3>3, <3>4 DEF RowOf
    <3> QED
      BY <1>0, <2>4, <3>5 DEF Settles
  <2>5. ASSUME NEW w \in Workers, StageRow(w) PROVE txn'[j.txn] = txn[j.txn]
    <3>1. CASE txn' = txn
      BY <3>1
    <3>2. CASE /\ Unstaged(claim[w].job) /\ ~AnyUnresolved
               /\ txn' = [txn EXCEPT ![claim[w].job.txn].rev = claim[w].job.rev + 1]
      <4>1. attempt[j] = "VERIFIED"
        BY <1>3, <3>2 DEF Sent, Unresolved, AnyUnresolved
      <4>2. claim[w].job.txn # j.txn
        BY <2>2, <3>2, <4>1 DEF Unstaged, RowOf
      <4> QED
        BY <1>0, <3>2, <4>2
    <3> QED
      BY <2>5, <3>1, <3>2 DEF StageRow
  <2>6. ASSUME NEW t \in Txns, PersonStep(t), t # j.txn PROVE txn'[j.txn] = txn[j.txn]
    BY <1>0, <2>6, PersonRow
  <2>7. CASE PersonStep(j.txn)
    <3>1. attempt[j] = "VERIFIED"
      <4>1. attempt[j] \notin Sent
        <5>1. attempt[j] \in Sent => UnresolvedOf(j.txn) /\ txn[j.txn].write \notin Unresolved
          BY <2>1 DEF UnresolvedOf, Unresolved, Sent, RowOf
        <5> QED
          BY <1>0, <2>7, <5>1, PersonRow
      <4> QED
        BY <1>3, <4>1
    <3>2. ~PersonStage(j.txn)
      BY <2>2, <3>1 DEF PersonStage
    <3>3. /\ txn'[j.txn].rev = txn[j.txn].rev
          /\ txn'[j.txn].write # "NONE" => txn'[j.txn].op = "restore"
          /\ txn'[j.txn].status = Shown(j.txn)'
      BY <1>0, <2>1, <2>7, <3>1, <3>2, UndoSteps DEF RowOf
    <3> QED
      BY <1>3, <2>1, <3>1, <3>3 DEF RowOf, Sent
  <2> QED
    BY <2>3, <2>4, <2>5, <2>6, <2>7, RowSteps
<1> QED
  BY <1>1, <1>2, <1>3, AttemptSteps DEF Rests

\* Where a worker has not begun its run yet.
Early == {"claimed", "dispatch", "prepareShadow", "prepareLive"}

\* What may become of a run: it begins, is closed, ends with its claim's outcome, or
\* its doubt is settled.
Begins(j, n) ==
  /\ run[j][n].status = "none" /\ run'[j][n].status = "running" /\ job' = job
  /\ \E w \in Workers : /\ claim[w] \in Claims /\ claim[w].job = j /\ claim[w].n = n /\ Holds(w)
                        /\ pc[w] # "idle" /\ pc'[w] \notin Early
Closes(j, n) == run[j][n].status = "running" /\ run'[j][n].status = "closed"
Ends(j, n) ==
  /\ run[j][n].status = "running"
  /\ \E w \in Workers : /\ claim[w] \in Claims /\ claim[w].job = j /\ claim[w].n = n
                        /\ pc[w] = "finish"
                        /\ run'[j][n].status = CASE out[w] \in {"uncertain", "required"} -> "uncertain"
                                                 [] out[w] = "posted" -> "posted_verified"
                                                 [] OTHER -> "closed"
Clears(j, n) ==
  /\ run[j][n].status = "uncertain"
  /\ \/ run'[j][n].status = "posted_verified" /\ attempt'[j] = "VERIFIED"
     \/ run'[j][n].status = "unchanged"

LEMMA ClosingSteps ==
  ASSUME Typed, NEW S, NEW j \in Jobs, NEW n \in Tries
  PROVE  /\ <<j, n>> \in S /\ run[j][n].status = "running" => Closing(run, S)[j][n].status = "closed"
         /\ ~(<<j, n>> \in S /\ run[j][n].status = "running") => Closing(run, S)[j][n] = run[j][n]
<1>1. run[j][n] \in RunRows
  BY Parts DEF DbTyped
<1> QED
  BY <1>1 DEF Closing, RunRows

LEMMA RunWriters ==
  ASSUME Next, run' # run
  PROVE  \/ Claim
         \/ \E w \in Workers : BeginRecovery(w) \/ Prepare(w) \/ Confirm(w) \/ Complete(w)
                               \/ Checkpoint(w) \/ Finish(w)
         \/ \E j \in Jobs : Reconcile(j)
<1>1. Discover \/ AdminCancel \/ ExpireLease \/ NewDay \/ PauseLive \/ EnableLive
        \/ ChangeSettings => run' = run
  BY DEF Discover, AdminCancel, ExpireLease, NewDay, PauseLive, EnableLive, ChangeSettings, dbVars
<1>2. ASSUME NEW j \in Jobs, ExpireJob(j) PROVE run' = run
  BY <1>2 DEF ExpireJob
<1>3. ASSUME NEW t \in Txns, PersonStep(t) PROVE run' = run
  BY <1>3, PersonLeaves
<1>4. ASSUME NEW w \in Workers,
             Dispatch(w) \/ TakeLease(w) \/ Decide(w) \/ StageRow(w) \/ PreCommit(w)
             \/ Persist(w) \/ Enter(w) \/ Send(w) \/ RecoverCommit(w) \/ Crash(w)
      PROVE  run' = run
  BY <1>4 DEF Dispatch, TakeLease, Decide, StageRow, PreCommit, Persist, Enter, Send,
     RecoverCommit, Crash, dbVars
<1> QED
  BY <1>1, <1>2, <1>3, <1>4 DEF Next, WorkerStep

LEMMA RunSteps ==
  ASSUME Typed, [Next]_vars, NEW j \in Jobs, NEW n \in Tries,
         run'[j][n].status # run[j][n].status
  PROVE  Begins(j, n) \/ Closes(j, n) \/ Ends(j, n) \/ Clears(j, n)
<1>0. /\ run \in [Jobs -> [Tries -> RunRows]] /\ run[j] \in [Tries -> RunRows]
      /\ run[j][n] \in RunRows
      /\ pc \in [Workers -> Steps] /\ attempt \in [Jobs -> AttemptStatus]
      /\ Next /\ run' # run
  BY Parts DEF DbTyped, WorkersTyped, vars, dbVars
<1>1. ASSUME NEW S, run' = Closing(run, S) PROVE Closes(j, n)
  BY <1>1, ClosingSteps DEF Closes
<1>2. CASE Claim
  <2>1. \E S : run' = Closing(run, S)
    BY <1>2 DEF Claim, ClaimJobs
  <2> QED
    BY <1>1, <2>1
<1>3. ASSUME NEW w \in Workers, BeginRecovery(w) PROVE Begins(j, n)
  <2>1. claim[w] \in Claims /\ claim[w].job \in Jobs /\ claim[w].n \in Tries
    BY <1>3, ClaimOf DEF BeginRecovery
  <2>2. /\ Holds(w) /\ run[claim[w].job][claim[w].n].status = "none" /\ job' = job
        /\ run' = [run EXCEPT ![claim[w].job][claim[w].n] =
                     [status |-> "running", check |-> TRUE, code |-> None]]
    BY <1>0, <1>3 DEF BeginRecovery
  <2>3. pc'[w] \in {"finish", "recoverLease"} /\ pc[w] # "idle"
    BY <1>0, <1>3, <2>2 DEF BeginRecovery, Ending, Go
  <2>4. claim[w].job = j /\ claim[w].n = n /\ run'[j][n].status = "running"
    BY <1>0, <2>1, <2>2
  <2> QED
    BY <2>1, <2>2, <2>3, <2>4 DEF Begins, Early
<1>4. ASSUME NEW w \in Workers, Prepare(w) PROVE Begins(j, n) \/ Closes(j, n)
  <2>1. claim[w] \in Claims /\ claim[w].job \in Jobs /\ claim[w].n \in Tries
    BY <1>4, ClaimOf DEF Prepare
  <2> DEFINE r == Closing(run, {<<claim[w].job, m>> : m \in 1..(claim[w].n - 1)})
  <2>2. /\ Holds(w) /\ run[claim[w].job][claim[w].n].status = "none" /\ job' = job
        /\ run' = [r EXCEPT ![claim[w].job][claim[w].n].status = "running"]
        /\ Go(w, "lease") \/ Go(w, "confirm")
    BY <1>0, <1>4 DEF Prepare
  <2>3. pc'[w] \in {"lease", "confirm"} /\ pc[w] # "idle"
    BY <1>0, <1>4, <2>2 DEF Prepare, Go
  <2>4. r \in [Jobs -> [Tries -> RunRows]]
    BY <1>0, ClosingType
  <2>5. r[j][n] \in RunRows
    BY <2>4
  <2>6. r[j][n].status = run[j][n].status \/ (run[j][n].status = "running" /\ r[j][n].status = "closed")
    BY ClosingSteps
  <2> HIDE DEF r
  <2>7. CASE claim[w].job = j /\ claim[w].n = n
    <3>1. run'[j][n].status = "running"
      BY <2>1, <2>2, <2>4, <2>5, <2>7 DEF RunRows
    <3> QED
      BY <2>1, <2>2, <2>3, <2>7, <3>1 DEF Begins, Early
  <2>8. CASE ~(claim[w].job = j /\ claim[w].n = n)
    <3>1. run'[j][n] = r[j][n]
      BY <2>1, <2>2, <2>4, <2>8
    <3> QED
      BY <2>6, <3>1 DEF Closes
  <2> QED
    BY <2>7, <2>8
<1>5. ASSUME NEW w \in Workers, Confirm(w) \/ Complete(w) PROVE Closes(j, n)
  <2>1. \E S : run' = Closing(run, S)
    BY <1>0, <1>5 DEF Confirm, Complete, Fenced
  <2> QED
    BY <1>1, <2>1
<1>6. ASSUME NEW w \in Workers, Checkpoint(w) PROVE FALSE
  <2>1. claim[w].job \in Jobs /\ claim[w].n \in Tries
    BY <1>6, ClaimOf DEF Checkpoint
  <2>2. run' = [run EXCEPT ![claim[w].job][claim[w].n].check = TRUE]
    BY <1>0, <1>6 DEF Checkpoint
  <2> QED
    BY <1>0, <2>1, <2>2 DEF RunRows
<1>7. ASSUME NEW w \in Workers, Finish(w) PROVE Ends(j, n)
  <2>1. claim[w] \in Claims /\ claim[w].job \in Jobs /\ claim[w].n \in Tries /\ pc[w] = "finish"
    BY <1>7, ClaimOf DEF Finish
  <2> DEFINE ended == CASE out[w] \in {"uncertain", "required"} -> "uncertain"
                        [] out[w] = "posted" -> "posted_verified"
                        [] OTHER -> "closed"
  <2>2. /\ run[claim[w].job][claim[w].n].status = "running"
        /\ \E code : run' = [run EXCEPT ![claim[w].job][claim[w].n].status = ended,
                                        ![claim[w].job][claim[w].n].code = code]
    BY <1>0, <1>7 DEF Finish
  <2> HIDE DEF ended
  <2>3. claim[w].job = j /\ claim[w].n = n /\ run'[j][n].status = ended
    <3> DEFINE k == claim[w].job  m == claim[w].n
    <3>1. PICK code : run' = [run EXCEPT ![k][m].status = ended, ![k][m].code = code]
      BY <2>2
    <3>2. run[k][m] \in RunRows
      BY <1>0, <2>1
    <3> DEFINE y == [run[k][m] EXCEPT !.status = ended, !.code = code]
    <3>3. run' = WithRun(run, k, m, y) /\ y.status = ended
      BY <1>0, <2>1, <3>1, <3>2 DEF RunRows, WithRun
    <3> HIDE DEF k, m, y
    <3>4. k \in Jobs /\ m \in Tries
      BY <2>1 DEF k, m
    <3>5. run'[j][n] = IF j = k /\ n = m THEN y ELSE run[j][n]
      BY <1>0, <3>3, <3>4 DEF WithRun
    <3> QED
      BY <1>0, <3>3, <3>5 DEF k, m
  <2> QED
    BY <2>1, <2>2, <2>3 DEF Ends, ended
<1>8. ASSUME NEW k \in Jobs, Reconcile(k) PROVE Clears(j, n)
  <2>1. PICK status \in {"VERIFIED", "UNCHANGED"}, ended \in {"posted_verified", "unchanged"} :
          /\ attempt' = [attempt EXCEPT ![k] = status]
          /\ ended = "posted_verified" => status = "VERIFIED"
          /\ run' = [run EXCEPT ![k] = [m \in Tries |->
               IF run[k][m].status = "uncertain" /\ run[k][m].code = "required"
               THEN [run[k][m] EXCEPT !.status = ended, !.code = None] ELSE run[k][m]]]
    BY <1>0, <1>8 DEF Reconcile
  <2>2. k = j
    BY <1>0, <2>1
  <2>3. run'[j][n] = IF run[j][n].status = "uncertain" /\ run[j][n].code = "required"
                     THEN [run[j][n] EXCEPT !.status = ended, !.code = None] ELSE run[j][n]
    BY <1>0, <2>1, <2>2
  <2>4. run[j][n].status = "uncertain" /\ run'[j][n].status = ended
    BY <1>0, <2>3 DEF RunRows
  <2> QED
    BY <1>0, <2>1, <2>2, <2>4 DEF Clears
<1> QED
  BY <1>0, <1>2, <1>3, <1>4, <1>5, <1>6, <1>7, <1>8, RunWriters

LEMMA PostedOutcomeNext ==
  ASSUME Typed, PostedOutcome, [Next]_vars
  PROVE  PostedOutcome'
<1> SUFFICES ASSUME NEW w \in Workers, out'[w] = "posted"
             PROVE  pc'[w] = "finish" /\ attempt'[claim'[w].job] = "VERIFIED"
  BY DEF PostedOutcome
<1>0. /\ pc \in [Workers -> Steps] /\ out \in [Workers -> Outcomes \cup {None}]
      /\ attempt \in [Jobs -> AttemptStatus] /\ "finish" \in Steps
  BY DEF Typed, TypeOK, Steps
<1>1. CASE ~Moved(w)
  <2>1. pc[w] = "finish" /\ attempt[claim[w].job] = "VERIFIED" /\ claim'[w] = claim[w]
        /\ pc'[w] = pc[w]
    BY <1>1 DEF Moved, PostedOutcome
  <2>2. claim[w].job \in Jobs
    BY <2>1, ClaimOf
  <2> QED
    BY <2>1, <2>2, VerifiedStays
<1>2. CASE Moved(w)
  <2>1. Next
    BY <1>2 DEF Moved, vars, workerVars
  <2>2. ~Away(w)
    BY <1>0, NoneAssumption DEF Away, Outcomes
  <2>3. ~(Claim /\ GivenClaim(w))
    BY DEF GivenClaim, PostedOutcome
  <2>4. ASSUME NEW step, Go(w, step), UNCHANGED <<claim, out>>, pc[w] # "finish" PROVE FALSE
    BY <2>4 DEF PostedOutcome
  <2>5. WorkerStep(w) /\ ~Crash(w)
    BY <1>2, <2>1, <2>2, <2>3, Mover DEF Crash
  <2>6. pc[w] # "finish"
    BY <2>2, <2>5 DEF WorkerStep, BeginRecovery, Dispatch, Prepare, Confirm, Complete, TakeLease,
       Decide, Checkpoint, StageRow, PreCommit, Persist, Enter, Send, RecoverCommit, Finish
  <2>7. PICK o : Ending(w, o) /\ UNCHANGED claim
    BY <2>2, <2>4, <2>5, <2>6, StepMoves
  <2>8. o = "posted" /\ pc'[w] = "finish" /\ pc[w] # "idle"
    BY <1>0, <2>5, <2>7 DEF Ending, Go, WorkerStep, BeginRecovery, Dispatch, Prepare, Confirm,
       Complete, TakeLease, Decide, Checkpoint, StageRow, PreCommit, Persist, Enter, Send,
       RecoverCommit, Finish
  <2>9. claim[w].job \in Jobs
    BY <2>8, ClaimOf
  <2>10. attempt'[claim[w].job] = "VERIFIED"
    <3>1. CASE BeginRecovery(w)
      <4>1. attempt[claim[w].job] = "VERIFIED" /\ attempt' = attempt
        BY <1>0, <2>2, <2>6, <3>1, <2>7, <2>8, <2>4 DEF BeginRecovery, Ending, Go
      <4> QED
        BY <4>1
    <3>2. CASE Enter(w) \/ RecoverCommit(w)
      <4>1. Recorded(claim[w].job) = "posted" /\ attempt' = attempt
        BY <1>0, <2>4, <2>6, <2>7, <2>8, <3>2 DEF Enter, RecoverCommit, Ending, Go, GiveUp
      <4> QED
        BY <4>1 DEF Recorded
    <3>3. CASE Send(w)
      BY <1>0, <2>8, <2>9, <2>7, <3>3 DEF Send, Ending, Go
    <3>4. CASE TakeLease(w) \/ Decide(w) \/ Checkpoint(w) \/ StageRow(w) \/ PreCommit(w)
               \/ Persist(w)
      BY <1>0, <2>4, <2>6, <2>7, <2>8, <3>4
         DEF TakeLease, Decide, Checkpoint, StageRow, PreCommit, Persist, Ending, Go
    <3>5. CASE Dispatch(w) \/ Prepare(w) \/ Confirm(w) \/ Complete(w) \/ Finish(w)
      BY <2>2, <2>4, <2>6, <3>5 DEF Dispatch, Prepare, Confirm, Complete, Fenced, Finish
    <3> QED
      BY <2>5, <3>1, <3>2, <3>3, <3>4, <3>5 DEF WorkerStep
  <2> QED
    BY <2>7, <2>8, <2>10
<1> QED
  BY <1>1, <1>2

LEMMA PostedRunsNext ==
  ASSUME Typed, PostedOutcome, PostedRuns, [Next]_vars
  PROVE  PostedRuns'
<1> SUFFICES ASSUME NEW j \in Jobs, NEW n \in Tries, run'[j][n].status = "posted_verified"
             PROVE  attempt'[j] = "VERIFIED"
  BY DEF PostedRuns
<1>1. CASE run'[j][n].status = run[j][n].status
  BY <1>1, VerifiedStays DEF PostedRuns
<1>2. CASE Ends(j, n)
  <2>1. PICK w \in Workers : claim[w].job = j /\ out[w] = "posted"
    BY <1>2 DEF Ends
  <2> QED
    BY <2>1, VerifiedStays DEF PostedOutcome
<1> QED
  BY <1>1, <1>2, RunSteps DEF Begins, Closes, Clears

----------------------------------------------------------------------------
(* Runs and claims.                                                          *)

RunsAhead == \A j \in Jobs : \A n \in Tries : n > job[j].tries => run[j][n].status = "none"
NewJobs == \A j \in Jobs : job[j].status = "none" => job[j].tries = 0
ClaimsCounted ==
  \A w \in Workers : pc[w] # "idle" => claim[w].n <= job[claim[w].job].tries
OwnClaims ==
  \A v, w \in Workers : v # w /\ pc[v] # "idle" /\ pc[w] # "idle" => claim[v] # claim[w]
NotBegun ==
  \A w \in Workers : pc[w] \in Early => run[claim[w].job][claim[w].n].status = "none"

RunInv == OpenRunIsCurrent /\ RunsAhead /\ NewJobs /\ ClaimsCounted /\ OwnClaims /\ NotBegun

LEMMA JobWriters ==
  ASSUME Next, job' # job
  PROVE  \/ Discover \/ Claim \/ AdminCancel
         \/ \E w \in Workers : Prepare(w) \/ Confirm(w) \/ Complete(w) \/ Finish(w)
         \/ \E j \in Jobs : ExpireJob(j) \/ Reconcile(j)
<1>1. ExpireLease \/ NewDay \/ PauseLive \/ EnableLive \/ ChangeSettings => job' = job
  BY DEF ExpireLease, NewDay, PauseLive, EnableLive, ChangeSettings, dbVars
<1>2. ASSUME NEW t \in Txns, PersonStep(t) PROVE job' = job
  BY <1>2, PersonLeaves
<1>3. ASSUME NEW w \in Workers,
             BeginRecovery(w) \/ Dispatch(w) \/ TakeLease(w) \/ Decide(w) \/ Checkpoint(w)
             \/ StageRow(w) \/ PreCommit(w) \/ Persist(w) \/ Enter(w) \/ Send(w)
             \/ RecoverCommit(w) \/ Crash(w)
      PROVE  job' = job
  BY <1>3 DEF BeginRecovery, Dispatch, TakeLease, Decide, Checkpoint, StageRow, PreCommit,
     Persist, Enter, Send, RecoverCommit, Crash, dbVars
<1> QED
  BY <1>1, <1>2, <1>3 DEF Next, WorkerStep

\* What a claim makes of each job and worker.
ClaimedBy(chosen, who) ==
  /\ \A j \in Jobs : job'[j] =
       IF j \in Obsolete THEN [job[j] EXCEPT !.status = "cancelled", !.live = FALSE]
       ELSE IF j \in {k \in chosen : Exhausted(k)} THEN [job[j] EXCEPT !.status = "terminal"]
       ELSE IF j \in chosen
            THEN [status |-> "running", tries |-> job[j].tries + 1, live |-> TRUE]
       ELSE job[j]
  /\ run' = Closing(run, {CurrentRun(j) : j \in Obsolete \cup {k \in chosen : job[k].status = "running"}})
  /\ \A w \in Workers : pc'[w] = IF w \in DOMAIN who THEN "claimed" ELSE pc[w]
  /\ \A w \in Workers : claim'[w] =
       IF w \in DOMAIN who THEN [job |-> who[w], n |-> job[who[w]].tries + 1] ELSE claim[w]
  /\ \A w \in DOMAIN who : /\ w \in Workers /\ pc[w] = "idle"
                           /\ who[w] \in chosen /\ ~Exhausted(who[w])
  /\ \A v, w \in DOMAIN who : v # w => who[v] # who[w]

LEMMA ClaimSteps ==
  ASSUME Typed, Claim
  PROVE  \E chosen \in SUBSET Candidates : \E who : ClaimedBy(chosen, who)
<1>1. PICK chosen \in SUBSET Candidates :
        \E f \in Assignments(chosen) : ClaimJobs(chosen, f)
  BY DEF Claim
<1>2. PICK who \in Assignments(chosen) : ClaimJobs(chosen, who)
  BY <1>1
<1> DEFINE fresh == {j \in chosen : ~Exhausted(j)}
<1>3. PICK S \in SUBSET {w \in Workers : pc[w] = "idle"} :
        /\ Cardinality(S) = Cardinality(fresh)
        /\ who \in [S -> fresh] /\ \A j \in fresh : \E w \in S : who[w] = j
  BY <1>2 DEF Assignments
<1>4. IsFiniteSet(S)
  <2>1. S \subseteq Workers
    BY <1>3
  <2> QED
    BY <2>1, FS_Subset, BoundsAssumption
<1>5. who \in Injection(S, fresh)
  <2>1. who \in Surjection(S, fresh)
    BY <1>3 DEF Surjection
  <2> QED
    BY <1>3, <1>4, <2>1, FS_SurjSameCardinalityImpliesInj
<1>6. \A v, w \in DOMAIN who : v # w => who[v] # who[w]
  BY <1>3, <1>5 DEF Injection, IsInjective
<1>7. \A w \in DOMAIN who : /\ w \in Workers /\ pc[w] = "idle"
                            /\ who[w] \in chosen /\ ~Exhausted(who[w])
  BY <1>3
<1>8. ClaimedBy(chosen, who)
  BY <1>2, <1>6, <1>7 DEF ClaimJobs, ClaimedBy
<1> QED
  BY <1>8

\* Attempts are counted up, and a job that leaves its claim leaves no open run.
LEMMA TriesGrow ==
  ASSUME Typed, NewJobs, [Next]_vars, NEW j \in Jobs
  PROVE  job'[j].tries \in 0..MaxTries /\ job'[j].tries >= job[j].tries
<1>0. job \in [Jobs -> JobRows] /\ job' \in [Jobs -> JobRows] /\ job[j] \in JobRows
  BY Parts, NextTyped DEF DbTyped
<1>1. job[j].tries \in Nat /\ job'[j].tries \in 0..MaxTries
  BY <1>0, BoundsAssumption DEF JobRows
<1>2. ASSUME NEW k \in Jobs, NEW status, job' = Over(k, status)
      PROVE  job'[j].tries = job[j].tries
  BY <1>0, <1>2 DEF Over, JobRows
<1>3. CASE Discover
  BY <1>0, <1>1, <1>3 DEF Discover, Discoverable, NewJobs, NoJob
<1>4. CASE Claim
  <2>1. PICK chosen \in SUBSET Candidates : \E who : ClaimedBy(chosen, who)
    BY <1>4, ClaimSteps
  <2>2. job'[j].tries \in {job[j].tries, job[j].tries + 1}
    <3>1. \/ job'[j] = [job[j] EXCEPT !.status = "cancelled", !.live = FALSE]
          \/ job'[j] = [job[j] EXCEPT !.status = "terminal"]
          \/ job'[j] = [status |-> "running", tries |-> job[j].tries + 1, live |-> TRUE]
          \/ job'[j] = job[j]
      BY <2>1 DEF ClaimedBy
    <3>2. CASE job'[j] = [job[j] EXCEPT !.status = "cancelled", !.live = FALSE]
      BY <1>0, <3>2 DEF JobRows
    <3>3. CASE job'[j] = [job[j] EXCEPT !.status = "terminal"]
      BY <1>0, <3>3 DEF JobRows
    <3>4. CASE job'[j] = [status |-> "running", tries |-> job[j].tries + 1, live |-> TRUE]
      BY <3>4
    <3> QED
      BY <3>1, <3>2, <3>3, <3>4
  <2> QED
    BY <1>1, <2>2
<1>5. CASE AdminCancel
  BY <1>0, <1>1, <1>5 DEF AdminCancel, JobRows
<1>6. ASSUME NEW w \in Workers, Prepare(w) \/ Confirm(w) \/ Complete(w) \/ Finish(w)
      PROVE  job'[j].tries = job[j].tries
  <2>1. claim[w].job \in Jobs
    BY <1>6, ClaimOf DEF Prepare, Confirm, Complete, Finish
  <2>2. job' = job \/ \E status : job' = Over(claim[w].job, status)
    BY <1>6 DEF Prepare, Confirm, Complete, Fenced, Finish
  <2> QED
    BY <1>2, <2>1, <2>2
<1>7. ASSUME NEW k \in Jobs, ExpireJob(k) \/ Reconcile(k) PROVE job'[j].tries = job[j].tries
  <2>1. \/ job' = [job EXCEPT ![k].live = FALSE]
        \/ job' = [job EXCEPT ![k].status = "completed"]
    BY <1>7 DEF ExpireJob, Reconcile
  <2>2. job[k] \in JobRows
    BY <1>0
  <2> QED
    BY <1>0, <2>1, <2>2 DEF JobRows
<1>8. CASE job' = job
  BY <1>1, <1>8
<1> QED
  BY <1>1, <1>3, <1>4, <1>5, <1>6, <1>7, <1>8, JobWriters DEF vars, dbVars

LEMMA OpenRunsNext ==
  ASSUME Typed, RunInv, [Next]_vars
  PROVE  OpenRunIsCurrent'
<1> SUFFICES ASSUME NEW j \in Jobs, NEW n \in Tries, run'[j][n].status = "running"
             PROVE  job'[j].status = "running" /\ job'[j].tries = n
  BY DEF OpenRunIsCurrent
<1>0. /\ job \in [Jobs -> JobRows] /\ job[j] \in JobRows
      /\ run \in [Jobs -> [Tries -> RunRows]] /\ run[j][n] \in RunRows
  BY Parts DEF DbTyped
<1>1. CASE Begins(j, n)
  BY <1>1 DEF Begins, Holds
<1>2. CASE run[j][n].status = "running"
  <2>1. job[j].status = "running" /\ job[j].tries = n
    BY <1>2 DEF RunInv, OpenRunIsCurrent
  <2>2. ASSUME NEW w \in Workers, claim[w].job = j, claim[w].n = n, run' = Closing(run, {<<j, n>>})
        PROVE  FALSE
    BY <1>2, <2>2, ClosingSteps
  <2>3. CASE Discover
    BY <1>0, <2>1, <2>3 DEF Discover, Discoverable
  <2>4. CASE Claim
    <3>1. PICK chosen \in SUBSET Candidates : \E who : ClaimedBy(chosen, who)
      BY <2>4, ClaimSteps
    <3>2. <<j, n>> = CurrentRun(j)
      BY <2>1 DEF CurrentRun
    <3>3. j \notin Obsolete /\ j \notin chosen
      <4>1. CASE j \in Obsolete \cup {k \in chosen : job[k].status = "running"}
        <5> DEFINE S == {CurrentRun(k) : k \in Obsolete \cup {k \in chosen : job[k].status = "running"}}
        <5>1. run' = Closing(run, S)
          BY <3>1 DEF ClaimedBy
        <5>2. <<j, n>> \in S
          BY <3>2, <4>1
        <5> HIDE DEF S
        <5>3. run'[j][n].status = "closed"
          BY <1>2, <5>1, <5>2, ClosingSteps
        <5> QED
          BY <5>3
      <4> QED
        BY <2>1, <4>1
    <3>4. job'[j] = job[j]
      BY <3>1, <3>3 DEF ClaimedBy
    <3> QED
      BY <2>1, <3>4
  <2>5. CASE AdminCancel
    BY <1>0, <2>1, <2>5 DEF AdminCancel, Waiting
  <2>6. ASSUME NEW w \in Workers, Prepare(w) \/ Confirm(w) \/ Complete(w) \/ Finish(w)
        PROVE  job'[j] = job[j]
    <3>1. claim[w].job \in Jobs /\ claim[w].n \in Tries
      BY <2>6, ClaimOf DEF Prepare, Confirm, Complete, Finish
    <3>2. ASSUME job' # job PROVE Holds(w) /\ \E status : job' = Over(claim[w].job, status)
      BY <2>6, <3>2 DEF Prepare, Confirm, Complete, Fenced, Finish
    <3>3. CASE job' = job
      BY <3>3
    <3>4. CASE job' # job /\ claim[w].job # j
      BY <1>0, <3>1, <3>2, <3>4 DEF Over
    <3>5. CASE job' # job /\ claim[w].job = j
      <4>1. claim[w].n = n
        BY <2>1, <3>2, <3>5 DEF Holds
      <4>2. CASE Prepare(w)
        BY <1>2, <3>5, <4>1, <4>2 DEF Prepare, RunInv, NotBegun, Early
      <4>3. CASE Confirm(w) \/ Complete(w)
        <5>1. run' = Closing(run, {<<j, n>>})
          BY <3>5, <4>1, <4>3, <3>2 DEF Confirm, Complete, Fenced
        <5> QED
          BY <2>2, <3>5, <4>1, <5>1
      <4>4. CASE Finish(w)
        <5>1. run'[j][n].status # run[j][n].status
          <6> DEFINE ended == CASE out[w] \in {"uncertain", "required"} -> "uncertain"
                                [] out[w] = "posted" -> "posted_verified"
                                [] OTHER -> "closed"
          <6>1. \E code : run' = [run EXCEPT ![j][n].status = ended, ![j][n].code = code]
            BY <3>5, <4>1, <4>4 DEF Finish
          <6>2. ended # "running"
            OBVIOUS
          <6> HIDE DEF ended
          <6>3. PICK code : run' = [run EXCEPT ![j][n].status = ended, ![j][n].code = code]
            BY <6>1
          <6> DEFINE y == [run[j][n] EXCEPT !.status = ended, !.code = code]
          <6>4. run' = WithRun(run, j, n, y) /\ y.status = ended
            BY <1>0, <6>3 DEF RunRows, WithRun
          <6> HIDE DEF y
          <6>5. run'[j][n] = y
            BY <1>0, <6>4 DEF WithRun
          <6> QED
            BY <1>2, <6>2, <6>4, <6>5
        <5> QED
          BY <1>2, <5>1
      <4> QED
        BY <2>6, <4>2, <4>3, <4>4
    <3> QED
      BY <3>3, <3>4, <3>5
  <2>7. ASSUME NEW k \in Jobs, ExpireJob(k) PROVE job'[j].status = "running" /\ job'[j].tries = n
    BY <1>0, <2>1, <2>7 DEF ExpireJob, JobRows
  <2>8. ASSUME NEW k \in Jobs, Reconcile(k) PROVE job'[j] = job[j]
    BY <1>0, <2>1, <2>8 DEF Reconcile, Reconcilable
  <2>9. CASE job' = job
    BY <2>1, <2>9
  <2> QED
    BY <2>1, <2>3, <2>4, <2>5, <2>6, <2>7, <2>8, <2>9, JobWriters DEF vars, dbVars
<1> QED
  BY <1>1, <1>2, RunSteps DEF Closes, Ends, Clears

LEMMA NewJobsNext ==
  ASSUME Typed, NewJobs, [Next]_vars
  PROVE  NewJobs'
<1> SUFFICES ASSUME NEW j \in Jobs, job'[j].status = "none"
             PROVE  job'[j] = job[j]
  BY DEF NewJobs
<1>0. job \in [Jobs -> JobRows] /\ job[j] \in JobRows
  BY Parts DEF DbTyped
<1>1. ASSUME NEW k \in Jobs, NEW status, status # "none", job' = Over(k, status)
      PROVE  job'[j] = job[j]
  BY <1>0, <1>1 DEF Over, JobRows
<1>2. CASE Discover
  BY <1>0, <1>2 DEF Discover, NoJob
<1>3. CASE Claim
  <2>1. PICK chosen \in SUBSET Candidates : \E who : ClaimedBy(chosen, who)
    BY <1>3, ClaimSteps
  <2>2. \/ job'[j] = [job[j] EXCEPT !.status = "cancelled", !.live = FALSE]
        \/ job'[j] = [job[j] EXCEPT !.status = "terminal"]
        \/ job'[j] = [status |-> "running", tries |-> job[j].tries + 1, live |-> TRUE]
        \/ job'[j] = job[j]
    BY <2>1 DEF ClaimedBy
  <2>3. job'[j] # [job[j] EXCEPT !.status = "cancelled", !.live = FALSE]
    BY <1>0 DEF JobRows
  <2>4. job'[j] # [job[j] EXCEPT !.status = "terminal"]
    BY <1>0 DEF JobRows
  <2> QED
    BY <2>2, <2>3, <2>4
<1>4. CASE AdminCancel
  BY <1>0, <1>4 DEF AdminCancel, JobRows
<1>5. ASSUME NEW w \in Workers, Prepare(w) \/ Confirm(w) \/ Complete(w) \/ Finish(w)
      PROVE  job'[j] = job[j]
  <2>1. claim[w].job \in Jobs
    BY <1>5, ClaimOf DEF Prepare, Confirm, Complete, Finish
  <2>2. job' = job \/ \E status : status # "none" /\ job' = Over(claim[w].job, status)
    <3>1. CASE Prepare(w) \/ Confirm(w) \/ Finish(w)
      BY <3>1 DEF Prepare, Confirm, Fenced, Finish
    <3>2. CASE Complete(w)
      BY <3>2 DEF Complete, Fenced
    <3> QED
      BY <1>5, <3>1, <3>2
  <2> QED
    BY <1>1, <2>1, <2>2
<1>6. ASSUME NEW k \in Jobs, ExpireJob(k) \/ Reconcile(k) PROVE job'[j] = job[j]
  <2>1. \/ job[k].status = "running" /\ job' = [job EXCEPT ![k].live = FALSE]
        \/ job' = [job EXCEPT ![k].status = "completed"]
    BY <1>6 DEF ExpireJob, Reconcile
  <2>2. job[k] \in JobRows
    BY <1>0
  <2> QED
    BY <1>0, <2>1, <2>2 DEF JobRows
<1> QED
  BY <1>2, <1>3, <1>4, <1>5, <1>6, JobWriters DEF vars, dbVars

LEMMA RunsAheadNext ==
  ASSUME Typed, RunInv, [Next]_vars
  PROVE  RunsAhead'
<1> SUFFICES ASSUME NEW j \in Jobs, NEW n \in Tries, n > job'[j].tries
             PROVE  run'[j][n].status = "none"
  BY DEF RunsAhead
<1>1. job[j].tries \in Nat /\ job'[j].tries \in Nat /\ n \in Nat
  <2>1. job[j] \in JobRows /\ job'[j] \in JobRows
    BY Parts, NextTyped DEF DbTyped
  <2> QED
    BY <2>1, BoundsAssumption DEF JobRows, Tries
<1>2. n > job[j].tries
  BY <1>1, TriesGrow DEF RunInv
<1>3. run[j][n].status = "none"
  BY <1>2 DEF RunInv, RunsAhead
<1>4. ~Begins(j, n)
  <2>1. ASSUME NEW w \in Workers, claim[w].job = j, claim[w].n = n, Holds(w) PROVE FALSE
    BY <1>1, <1>2, <2>1 DEF Holds
  <2> QED
    BY <2>1 DEF Begins
<1> QED
  BY <1>3, <1>4, RunSteps DEF Closes, Ends, Clears

\* A worker that is busy after a step keeps its claim or has just been given one.
Given(w, k) ==
  /\ k \in Jobs /\ Claim
  /\ pc[w] = "idle" /\ pc'[w] = "claimed"
  /\ claim'[w] = [job |-> k, n |-> job[k].tries + 1]
  /\ job'[k].tries = job[k].tries + 1

LEMMA GivenByClaim ==
  ASSUME NEW chosen \in SUBSET Candidates, NEW who, ClaimedBy(chosen, who), Claim,
         NEW w \in Workers, pc[w] = "idle", pc'[w] = "claimed"
  PROVE  w \in DOMAIN who /\ Given(w, who[w])
<1>1. w \in DOMAIN who
  BY DEF ClaimedBy
<1>2. who[w] \in Jobs \ Obsolete /\ who[w] \in chosen /\ ~Exhausted(who[w])
  BY <1>1 DEF ClaimedBy, Candidates
<1>3. job'[who[w]] = [status |-> "running", tries |-> job[who[w]].tries + 1, live |-> TRUE]
  BY <1>2 DEF ClaimedBy
<1>4. claim'[w] = [job |-> who[w], n |-> job[who[w]].tries + 1]
  BY <1>1 DEF ClaimedBy
<1> QED
  BY <1>1, <1>2, <1>3, <1>4 DEF Given

LEMMA BusyMoves ==
  ASSUME Typed, [Next]_vars, NEW w \in Workers, pc'[w] # "idle"
  PROVE  \/ pc[w] # "idle" /\ claim'[w] = claim[w]
         \/ \E k \in Jobs : Given(w, k)
<1>0. pc \in [Workers -> Steps]
  BY DEF Typed, TypeOK
<1>1. CASE ~Moved(w)
  BY <1>1 DEF Moved
<1>2. CASE Moved(w) /\ Next
  <2>1. CASE WorkerStep(w) \/ Crash(w)
    <3>1. pc[w] # "idle"
      BY <2>1 DEF WorkerStep, Crash, BeginRecovery, Dispatch, Prepare, Confirm, Complete,
         TakeLease, Decide, Checkpoint, StageRow, PreCommit, Persist, Enter, Send,
         RecoverCommit, Finish
    <3>2. ~Away(w)
      BY <1>0 DEF Away
    <3> QED
      BY <2>1, <3>1, <3>2, StepMoves DEF Ending
  <2>2. CASE Claim /\ GivenClaim(w)
    <3>1. PICK chosen \in SUBSET Candidates : \E who : ClaimedBy(chosen, who)
      BY <2>2, ClaimSteps
    <3>2. PICK who : ClaimedBy(chosen, who)
      BY <3>1
    <3>3. Given(w, who[w])
      BY <2>2, <3>2, GivenByClaim DEF GivenClaim
    <3> QED
      BY <3>3 DEF Given
  <2> QED
    BY <1>2, <2>1, <2>2, Mover
<1>3. CASE UNCHANGED vars
  BY <1>3 DEF vars, workerVars
<1> QED
  BY <1>1, <1>2, <1>3

LEMMA JobTries ==
  ASSUME Typed, [Next]_vars, NEW j \in Jobs
  PROVE  job[j].tries \in Nat /\ job'[j].tries \in Nat
<1>1. job[j] \in JobRows /\ job'[j] \in JobRows
  BY Parts, NextTyped DEF DbTyped
<1> QED
  BY <1>1, BoundsAssumption DEF JobRows

LEMMA ClaimsCountedNext ==
  ASSUME Typed, RunInv, [Next]_vars
  PROVE  ClaimsCounted'
<1> SUFFICES ASSUME NEW w \in Workers, pc'[w] # "idle"
             PROVE  claim'[w].n <= job'[claim'[w].job].tries
  BY DEF ClaimsCounted
<1>1. CASE pc[w] # "idle" /\ claim'[w] = claim[w]
  <2> DEFINE j == claim[w].job
  <2>1. j \in Jobs /\ claim[w].n \in Nat
    BY <1>1, ClaimOf DEF Tries
  <2>2. claim[w].n <= job[j].tries
    BY <1>1 DEF RunInv, ClaimsCounted
  <2>3. job'[j].tries >= job[j].tries
    BY <2>1, TriesGrow DEF RunInv
  <2>4. job[j].tries \in Nat /\ job'[j].tries \in Nat
    BY <2>1, JobTries
  <2> HIDE DEF j
  <2>5. claim[w].n <= job'[j].tries
    BY <2>1, <2>2, <2>3, <2>4
  <2> QED
    BY <1>1, <2>5 DEF j
<1>2. ASSUME NEW k \in Jobs, Given(w, k) PROVE claim'[w].n <= job'[claim'[w].job].tries
  BY <1>2, JobTries DEF Given
<1> QED
  BY <1>1, <1>2, BusyMoves

LEMMA OwnClaimsNext ==
  ASSUME Typed, RunInv, [Next]_vars
  PROVE  OwnClaims'
<1> SUFFICES ASSUME NEW v \in Workers, NEW w \in Workers, v # w,
                    pc'[v] # "idle", pc'[w] # "idle", claim'[v] = claim'[w]
             PROVE  FALSE
  BY DEF OwnClaims
<1>1. ASSUME NEW a \in Workers, NEW b \in Workers, claim'[a] = claim'[b],
             NEW k \in Jobs, Given(a, k), pc[b] # "idle", claim'[b] = claim[b]
      PROVE  FALSE
  <2> DEFINE m == job[k].tries + 1
  <2>0. claim[b] = [job |-> k, n |-> m]
    BY <1>1 DEF Given
  <2> HIDE DEF m
  <2>1. claim[b].job = k /\ claim[b].n = m
    BY <2>0
  <2>2. claim[b].n <= job[k].tries
    BY <1>1, <2>1 DEF RunInv, ClaimsCounted
  <2> QED
    BY <2>1, <2>2, JobTries DEF m
<1>2. CASE pc[v] # "idle" /\ claim'[v] = claim[v] /\ pc[w] # "idle" /\ claim'[w] = claim[w]
  BY <1>2 DEF RunInv, OwnClaims
<1>3. ASSUME NEW k \in Jobs, NEW l \in Jobs, Given(v, k), Given(w, l) PROVE FALSE
  <2>1. PICK chosen \in SUBSET Candidates : \E who : ClaimedBy(chosen, who)
    BY <1>3, ClaimSteps DEF Given
  <2>2. PICK who : ClaimedBy(chosen, who)
    BY <2>1
  <2>3. /\ v \in DOMAIN who /\ Given(v, who[v])
        /\ w \in DOMAIN who /\ Given(w, who[w])
    BY <1>3, <2>2, GivenByClaim DEF Given
  <2>4. who[v] # who[w]
    BY <2>2, <2>3 DEF ClaimedBy
  <2>5. ASSUME NEW a \in Workers, NEW i \in Jobs, Given(a, i) PROVE claim'[a].job = i
    BY <2>5 DEF Given
  <2>6. who[v] \in Jobs /\ who[w] \in Jobs
    BY <2>3 DEF Given
  <2> QED
    BY <2>3, <2>4, <2>5, <2>6
<1> QED
  BY <1>1, <1>2, <1>3, BusyMoves

LEMMA StillEarly ==
  ASSUME Typed, [Next]_vars, NEW w \in Workers, pc[w] # "idle", pc'[w] \in Early
  PROVE  pc[w] \in Early
<1>0. pc \in [Workers -> Steps]
  BY DEF Typed, TypeOK
<1>1. CASE ~Moved(w)
  BY <1>1 DEF Moved
<1>2. CASE WorkerStep(w)
  <2>1. CASE BeginRecovery(w) \/ Dispatch(w) \/ Prepare(w)
    BY <2>1 DEF BeginRecovery, Dispatch, Prepare, Early
  <2>2. CASE Confirm(w) \/ Complete(w) \/ Finish(w)
    BY <1>0, <2>2 DEF Confirm, Complete, Finish, Fenced, Away, Go, Early
  <2>3. CASE TakeLease(w) \/ Decide(w) \/ Checkpoint(w) \/ StageRow(w)
    BY <1>0, <2>3 DEF TakeLease, Decide, Checkpoint, StageRow, Ending, Go, Early
  <2>4. CASE PreCommit(w) \/ Persist(w) \/ Enter(w)
    BY <1>0, <2>4 DEF PreCommit, Persist, Enter, Ending, Go, Early
  <2>5. CASE Send(w) \/ RecoverCommit(w)
    BY <1>0, <2>5 DEF Send, RecoverCommit, Ending, Go, Early
  <2> QED
    BY <1>2, <2>1, <2>2, <2>3, <2>4, <2>5 DEF WorkerStep
<1>3. CASE Crash(w)
  BY <1>0, <1>3 DEF Crash, Away, Early
<1> QED
  BY <1>1, <1>2, <1>3, Mover DEF GivenClaim, Moved, vars, workerVars

LEMMA NotBegunNext ==
  ASSUME Typed, RunInv, [Next]_vars
  PROVE  NotBegun'
<1> SUFFICES ASSUME NEW w \in Workers, pc'[w] \in Early
             PROVE  run'[claim'[w].job][claim'[w].n].status = "none"
  BY DEF NotBegun
<1>1. pc'[w] # "idle"
  BY DEF Early
<1>2. CASE pc[w] # "idle" /\ claim'[w] = claim[w]
  <2> DEFINE j == claim[w].job  n == claim[w].n
  <2>1. claim[w] \in Claims /\ j \in Jobs /\ n \in Tries
    BY <1>2, ClaimOf
  <2>2. run[j][n].status = "none"
    BY <1>2, StillEarly DEF RunInv, NotBegun
  <2>3. ~Begins(j, n)
    <3>1. ASSUME NEW v \in Workers, claim[v] \in Claims, claim[v].job = j, claim[v].n = n,
                 pc[v] # "idle", pc'[v] \notin Early
          PROVE  FALSE
      <4>1. claim[v] = claim[w]
        BY <2>1, <3>1 DEF Claims
      <4> QED
        BY <1>2, <3>1, <4>1 DEF RunInv, OwnClaims
    <3> QED
      BY <3>1 DEF Begins
  <2> HIDE DEF j, n
  <2>4. run'[j][n].status = "none"
    BY <2>1, <2>2, <2>3, RunSteps DEF Closes, Ends, Clears
  <2> QED
    BY <1>2, <2>4 DEF j, n
<1>3. ASSUME NEW k \in Jobs, Given(w, k)
      PROVE  run'[claim'[w].job][claim'[w].n].status = "none"
  <2> DEFINE n == job[k].tries + 1
  <2>1. claim'[w] = [job |-> k, n |-> n]
    BY <1>3 DEF Given
  <2>2. n \in Tries
    <3>1. claim'[w] \in Claims
      BY <1>1, NextTyped DEF Typed, BusyHasClaim
    <3> QED
      BY <2>1, <3>1 DEF Claims
  <2>3. n > job[k].tries
    BY JobTries
  <2>4. run[k][n].status = "none"
    BY <2>2, <2>3 DEF RunInv, RunsAhead
  <2>5. ~Begins(k, n)
    BY <2>3, JobTries DEF Begins, Holds
  <2> HIDE DEF n
  <2>6. run'[k][n].status = "none"
    BY <2>2, <2>4, <2>5, RunSteps DEF Closes, Ends, Clears
  <2> QED
    BY <2>1, <2>6
<1> QED
  BY <1>1, <1>2, <1>3, BusyMoves

LEMMA RunInvNext ==
  ASSUME Typed, RunInv, [Next]_vars
  PROVE  RunInv'
BY OpenRunsNext, RunsAheadNext, NewJobsNext, ClaimsCountedNext, OwnClaimsNext, NotBegunNext
   DEF RunInv

----------------------------------------------------------------------------
(* The inductive invariant.                                                  *)

WriteInv == OneSent /\ Permits /\ UncertainStops /\ RowStands /\ PersonRows
OutcomeInv == PostedOutcome /\ PostedRuns
IInv == Typed /\ AliveBound /\ WriteInv /\ OutcomeInv /\ RunInv

LEMMA InitInv == Init => IInv
<1> SUFFICES ASSUME Init PROVE IInv
  OBVIOUS
<1>1. Typed
  BY InitTyped
<1>2. /\ Alive = {} /\ PermitsOfToday = {}
      /\ \A j \in Jobs : attempt[j] = "NONE"
      /\ \A j \in Jobs : job[j].status = "none" /\ job[j].tries = 0
      /\ \A j \in Jobs : \A n \in Tries : run[j][n].status = "none"
      /\ \A w \in Workers : pc[w] = "idle" /\ out[w] = None
  BY DEF Init, Alive, PermitsOfToday, NoJob, NoRun
<1>3. Cardinality({}) = 0
  BY FS_EmptySet
<1>4. AliveBound
  BY <1>2, <1>3, BoundsAssumption DEF AliveBound, Least
<1>5. WriteInv
  <2>1. Permits
    BY <1>2, <1>3, BoundsAssumption DEF Permits, Sent
  <2> QED
    <3>1. \A t \in Txns : txn[t].write = "NONE"
      BY DEF Init, NewRow
    <3> QED
      BY <1>2, <2>1, <3>1 DEF WriteInv, OneSent, UncertainStops, RowStands, PersonRows, Sent
<1>6. OutcomeInv
  <2>1. None # "posted"
    BY NoneAssumption DEF Outcomes
  <2> QED
    BY <1>2, <2>1 DEF OutcomeInv, PostedOutcome, PostedRuns
<1>7. RunInv
  BY <1>2 DEF RunInv, OpenRunIsCurrent, RunsAhead, NewJobs, ClaimsCounted, OwnClaims, NotBegun,
     Early
<1> QED
  BY <1>1, <1>4, <1>5, <1>6, <1>7 DEF IInv

LEMMA NextInv == IInv /\ [Next]_vars => IInv'
<1> SUFFICES ASSUME IInv, [Next]_vars PROVE IInv'
  OBVIOUS
<1>1. /\ Typed /\ AliveBound /\ OneSent /\ Permits /\ UncertainStops /\ RowStands
      /\ PersonRows /\ PostedOutcome /\ PostedRuns /\ RunInv
  BY DEF IInv, WriteInv, OutcomeInv
<1>2. Typed' /\ AliveBound' /\ RunInv'
  BY <1>1, NextTyped, AliveBoundNext, RunInvNext
<1>3. OneSent' /\ Permits' /\ UncertainStops' /\ RowStands' /\ PersonRows'
  BY <1>1, OneSentNext, PermitsNext, UncertainStopsNext, RowStandsNext, PersonRowsNext
<1>4. PostedOutcome' /\ PostedRuns'
  BY <1>1, PostedOutcomeNext, PostedRunsNext
<1> QED
  BY <1>2, <1>3, <1>4 DEF IInv, WriteInv, OutcomeInv

LEMMA Inductive == Spec => []IInv
<1>1. Init => IInv
  BY InitInv
<1>2. IInv /\ [Next]_vars => IInv'
  BY NextInv
<1> QED
  BY <1>1, <1>2, PTL DEF Spec

----------------------------------------------------------------------------
(* What the autopilot guarantees, for any number of jobs and workers.        *)

\* Jobs, runs, attempts, permits, leases and workers keep their types.
THEOREM Typing == Spec => []TypeOK
<1>1. IInv => TypeOK
  BY DEF IInv, Typed
<1> QED
  BY <1>1, Inductive, PTL

\* However many processes claim, renew and lose leases, the unexpired claims never
\* exceed the limits that claimShadowJobs counts against.
THEOREM Capacities == Spec => []CapacityRespected
<1>1. IInv => CapacityRespected
  BY DEF IInv, AliveBound, CapacityRespected
<1> QED
  BY <1>1, Inductive, PTL

\* Of all the writes of a company at most one is on its way or unanswered.
THEOREM SingleWrite == Spec => []OneUnsettledWrite
<1>1. IInv => OneUnsettledWrite
  <2> SUFFICES ASSUME IInv PROVE OneUnsettledWrite
    OBVIOUS
  <2> DEFINE S == {j \in Jobs : attempt[j] \in {"COMMITTING", "UNCERTAIN"}}
  <2>1. \A j, k \in S : j = k
    BY DEF IInv, WriteInv, OneSent, Sent
  <2>2. Cardinality(S) <= 1
    BY <2>1, AtMostOne
  <2> QED
    BY <2>2 DEF OneUnsettledWrite
<1> QED
  BY <1>1, Inductive, PTL

\* No write is sent without a permit, and no day issues more permits than its limit.
THEOREM PermittedWrites == Spec => []WritesArePermitted
<1>1. IInv => WritesArePermitted
  BY DEF IInv, WriteInv, Permits, WritesArePermitted, Sent
<1> QED
  BY <1>1, Inductive, PTL

\* The live switch stays off as long as the outcome of a write is unknown.
THEOREM UncertaintyStops == Spec => []UnsettledWriteStopsLive
<1>1. IInv => UnsettledWriteStopsLive
  BY DEF IInv, WriteInv, UncertainStops, UnsettledWriteStopsLive
<1> QED
  BY <1>1, Inductive, PTL

\* From the send on, the row keeps the revision the write was staged on and tells how it
\* stands; a verified write is only ever undone, by a person's restore that the row tells
\* as well, and only the run of a verified write is posted.
THEOREM WriteOwnsRow == Spec => []SentWriteOwnsRow
<1>1. IInv => SentWriteOwnsRow
  BY DEF IInv, WriteInv, OutcomeInv, RowStands, PostedRuns, SentWriteOwnsRow, Sent
<1> QED
  BY <1>1, Inductive, PTL

\* An open run belongs to the claim its job is running for.
THEOREM RunsAreCurrent == Spec => []OpenRunIsCurrent
<1>1. IInv => OpenRunIsCurrent
  BY DEF IInv, RunInv
<1> QED
  BY <1>1, Inductive, PTL

\* A write that was sent is settled by an answer or by reconciliation, never armed,
\* parked or failed again.
THEOREM SentStaysSent == Spec => SentIsNeverRearmed
<1>1. IInv /\ [Next]_vars =>
        [\A j \in Jobs : attempt[j] \in {"COMMITTING", "UNCERTAIN"} =>
           attempt'[j] \in {"COMMITTING", "UNCERTAIN", "VERIFIED", "UNCHANGED"}]_vars
  <2> SUFFICES ASSUME IInv, [Next]_vars, NEW j \in Jobs, attempt[j] \in {"COMMITTING", "UNCERTAIN"}
               PROVE  attempt'[j] \in {"COMMITTING", "UNCERTAIN", "VERIFIED", "UNCHANGED"}
    OBVIOUS
  <2> QED
    BY AttemptSteps DEF IInv, SendsNow, Settles, Rests, Sent
<1> QED
  BY <1>1, Inductive, PTL DEF Spec, SentIsNeverRearmed

\* What a worker's own steps do when its claim is not its job's any more.
LEMMA LateStep ==
  ASSUME Typed, NEW w \in Workers, WorkerStep(w) \/ Crash(w), ~Holds(w)
  PROVE  /\ job' = job
         /\ \A j \in Jobs : attempt'[j] = "COMMITTING" => attempt[j] = "COMMITTING"
         /\ run' = run \/ \E S : run' = Closing(run, S)
<1>0. attempt \in [Jobs -> AttemptStatus]
  BY DEF Typed, TypeOK
<1>1. CASE BeginRecovery(w) \/ Dispatch(w) \/ Prepare(w)
  BY <1>1 DEF BeginRecovery, Dispatch, Prepare, dbVars
<1>2. CASE Confirm(w) \/ Complete(w)
  BY <1>2 DEF Confirm, Complete, Fenced
<1>3. CASE TakeLease(w) \/ Decide(w) \/ Checkpoint(w) \/ StageRow(w) \/ PreCommit(w)
  BY <1>3 DEF TakeLease, Decide, Checkpoint, StageRow, PreCommit, dbVars
<1>4. CASE Persist(w)
  BY <1>0, <1>4 DEF Persist
<1>5. CASE Enter(w)
  <2>1. ~CommitAuthority(w)
    BY DEF CommitAuthority
  <2>2. \/ attempt' = attempt
        \/ \E status \in {"FAILED", "RETRYABLE"} : attempt' = [attempt EXCEPT ![claim[w].job] = status]
    BY <1>5, <2>1 DEF Enter, GiveUp
  <2> QED
    BY <1>0, <1>5, <2>2 DEF Enter
<1>6. CASE Send(w)
  <2>1. \/ attempt' = attempt
        \/ \E status \in {"VERIFIED", "UNCERTAIN"} : attempt' = [attempt EXCEPT ![claim[w].job] = status]
    BY <1>6 DEF Send
  <2> QED
    BY <1>0, <1>6, <2>1 DEF Send
<1>7. CASE RecoverCommit(w)
  <2>1. \/ attempt' = attempt
        \/ \E status \in {"FAILED", "PREPARED"} : attempt' = [attempt EXCEPT ![claim[w].job] = status]
    BY <1>7 DEF RecoverCommit
  <2> QED
    BY <1>0, <1>7, <2>1 DEF RecoverCommit
<1>8. CASE Finish(w)
  BY <1>8 DEF Finish
<1>9. CASE Crash(w)
  BY <1>9 DEF Crash, dbVars
<1> QED
  BY <1>1, <1>2, <1>3, <1>4, <1>5, <1>6, <1>7, <1>8, <1>9 DEF WorkerStep

\* A worker that has lost its claim, to time, to another worker or to a cancellation,
\* stores no outcome, posts no run and sends no write.
THEOREM LateWorkersAreHarmless == Spec => LateClaimChangesNothing
<1> DEFINE Late(w) ==
      /\ claim[w] # None
      /\ job[claim[w].job] # [status |-> "running", tries |-> claim[w].n, live |-> TRUE]
      /\ pc'[w] # pc[w] /\ claim'[w] \in {claim[w], None}
    Harmless ==
      /\ job' = job
      /\ \A j \in Jobs : attempt'[j] = "COMMITTING" => attempt[j] = "COMMITTING"
      /\ \A j \in Jobs : \A n \in Tries :
           run'[j][n].status = "posted_verified" => run[j][n].status = "posted_verified"
<1>1. IInv /\ [Next]_vars => [\A w \in Workers : Late(w) => Harmless]_vars
  <2> SUFFICES ASSUME IInv, Next, NEW w \in Workers, Late(w) PROVE Harmless
    BY DEF Late
  <2>0. Typed /\ Moved(w)
    BY DEF IInv, Moved
  <2>1. pc[w] # "idle"
    BY <2>0 DEF Typed, BusyHasClaim
  <2>2. WorkerStep(w) \/ Crash(w)
    BY <2>0, <2>1, Mover DEF GivenClaim
  <2>3. ~Holds(w)
    <3> DEFINE j == claim[w].job
    <3>1. job[j] \in JobRows
      BY <2>0, <2>1, ClaimOf, Parts DEF DbTyped
    <3>2. job[j] # [status |-> "running", tries |-> claim[w].n, live |-> TRUE]
      OBVIOUS
    <3>3. ~(job[j].status = "running" /\ job[j].tries = claim[w].n /\ job[j].live = TRUE)
      BY <3>1, <3>2 DEF JobRows
    <3>4. job[j].live \in BOOLEAN
      BY <3>1 DEF JobRows
    <3> HIDE DEF j
    <3>5. ~(job[j].status = "running" /\ job[j].tries = claim[w].n /\ job[j].live)
      BY <3>3, <3>4
    <3> QED
      BY <3>5 DEF Holds, j
  <2>4. /\ job' = job
        /\ \A j \in Jobs : attempt'[j] = "COMMITTING" => attempt[j] = "COMMITTING"
        /\ run' = run \/ \E S : run' = Closing(run, S)
    BY <2>0, <2>2, <2>3, LateStep
  <2>5. ASSUME NEW j \in Jobs, NEW n \in Tries, run'[j][n].status = "posted_verified"
        PROVE  run[j][n].status = "posted_verified"
    <3>1. CASE run' = run
      BY <2>5, <3>1
    <3>2. ASSUME NEW S, run' = Closing(run, S) PROVE run[j][n].status = "posted_verified"
      BY <2>0, <2>5, <3>2, ClosingSteps
    <3> QED
      BY <2>4, <3>1, <3>2
  <2> QED
    BY <2>4, <2>5
<1>2. LateClaimChangesNothing <=> [][\A w \in Workers : Late(w) => Harmless]_vars
  BY DEF LateClaimChangesNothing, Late, Harmless
<1> QED
  BY <1>1, <1>2, Inductive, PTL DEF Spec

----------------------------------------------------------------------------
(* Prepared writes and their jobs.                                           *)

\* Where a worker stands from its claim to the end of a shadow run.
Starting == {"claimed", "dispatch", "prepareShadow", "prepareLive", "confirm", "complete"}

\* A worker about to stage or to prepare a write has its checkpoint, and from the
\* staging on the row is past the revision of its job.
StagedRows ==
  \A w \in Workers :
    /\ pc[w] \in {"stage", "preCommit", "persist"} => run[claim[w].job][claim[w].n].check
    /\ pc[w] \in {"preCommit", "persist"} => RowOf(claim[w].job).rev > claim[w].job.rev

\* A job with a write has staged its row, after the checkpoint of one of its claims.
WrittenWasChecked ==
  \A j \in Jobs : attempt[j] # "NONE" =>
    /\ RowOf(j).rev > j.rev
    /\ \E m \in Tries : m <= job[j].tries /\ run[j][m].check

\* A transaction has one unresolved write, of a job or of a person.
OneUnresolved ==
  \A j \in Jobs : attempt[j] \in Unresolved =>
    /\ RowOf(j).write \notin Unresolved
    /\ \A k \in Jobs : k.txn = j.txn /\ attempt[k] \in Unresolved => k = j

\* The write PreparedKeepsItsJob is about.
Armed(j) == attempt[j] = "PREPARED" /\ Recoverable(j)

\* A worker that holds a job and has not passed the recovery finds the checkpoint of
\* the job's write; one that has is not working past a write it could have resumed,
\* and nobody can prepare one behind its back.
StartsUnarmed ==
  \A w \in Workers : pc[w] \in Starting /\ Holds(w) =>
    /\ attempt[claim[w].job] = "NONE" =>
         \A v \in Workers : ~(pc[v] = "persist" /\ claim[v].job = claim[w].job)
    /\ pc[w] = "claimed" /\ attempt[claim[w].job] # "NONE" =>
         \E m \in Tries : m < claim[w].n /\ run[claim[w].job][m].check
    /\ pc[w] # "claimed" => ~Armed(claim[w].job)

PreparedInv == StagedRows /\ WrittenWasChecked /\ OneUnresolved /\ StartsUnarmed

\* Revisions only grow.
LEMMA RevisionsGrow ==
  ASSUME Typed, [Next]_vars, NEW j \in Jobs
  PROVE  /\ RowOf(j).rev \in Nat /\ RowOf(j)'.rev \in Nat
         /\ RowOf(j)'.rev >= RowOf(j).rev
<1>0. /\ j.txn \in Txns /\ attempt \in [Jobs -> AttemptStatus]
      /\ txn \in [Txns -> TxnRows]
      /\ txn' \in [Txns -> TxnRows]
  BY Parts, NextTyped DEF Jobs, Typed, TypeOK, DbTyped, TxnRows
<1>1. RowOf(j).rev \in Nat /\ RowOf(j)'.rev \in Nat
  BY <1>0, BoundsAssumption DEF RowOf, TxnRows
<1>2. CASE txn' = txn
  BY <1>1, <1>2 DEF RowOf
<1>3. ASSUME NEW w \in Workers, StageRow(w) PROVE RowOf(j)'.rev >= RowOf(j).rev
  <2>1. claim[w].job \in Jobs /\ claim[w].job.rev \in Nat
    BY <1>3, ClaimOf, BoundsAssumption DEF StageRow
  <2>2. CASE txn' = txn
    BY <1>1, <2>2 DEF RowOf
  <2>3. CASE /\ Unstaged(claim[w].job)
             /\ txn' = [txn EXCEPT ![claim[w].job.txn].rev = claim[w].job.rev + 1]
    BY <1>0, <1>1, <2>1, <2>3 DEF Unstaged, RowOf
  <2> QED
    BY <1>3, <2>2, <2>3 DEF StageRow
<1>4. ASSUME NEW t \in Txns, NEW status, txn' = [txn EXCEPT ![t].status = status]
      PROVE  RowOf(j)'.rev >= RowOf(j).rev
  BY <1>0, <1>1, <1>4 DEF RowOf
<1>5. ASSUME NEW w \in Workers, Send(w) PROVE RowOf(j)'.rev >= RowOf(j).rev
  <2>1. claim[w].job.txn \in Txns
    BY <1>5, ClaimOf DEF Send
  <2>2. txn' = txn \/ \E status : txn' = [txn EXCEPT ![claim[w].job.txn].status = status]
    BY <1>5 DEF Send
  <2> QED
    BY <1>2, <1>4, <2>1, <2>2
<1>6. ASSUME NEW k \in Jobs, Reconcile(k) PROVE RowOf(j)'.rev >= RowOf(j).rev
  <2>1. k.txn \in Txns /\ \E status : txn' = [txn EXCEPT ![k.txn].status = status]
    BY <1>6 DEF Reconcile, Jobs
  <2> QED
    BY <1>4, <2>1
<1>7. ASSUME NEW t \in Txns, PersonStep(t) PROVE RowOf(j)'.rev >= RowOf(j).rev
  <2>1. txn' = [txn EXCEPT ![t] = txn'[t]] /\ txn'[t].rev >= txn[t].rev
    BY <1>7, PersonRow
  <2>2. t = j.txn \/ txn'[j.txn] = txn[j.txn]
    BY <1>0, <2>1
  <2> QED
    BY <1>1, <2>1, <2>2 DEF RowOf
<1> QED
  BY <1>1, <1>2, <1>3, <1>5, <1>6, <1>7, RowWriters DEF vars, dbVars

LEMMA StillPast ==
  ASSUME Typed, [Next]_vars, NEW j \in Jobs, RowOf(j).rev > j.rev
  PROVE  txn'[j.txn].rev > j.rev
<1>1. j.rev \in Nat
  BY BoundsAssumption DEF Jobs
<1> QED
  BY <1>1, RevisionsGrow DEF RowOf

\* A checkpoint stays on its run.
LEMMA ChecksStay ==
  ASSUME Typed, [Next]_vars, NEW j \in Jobs, NEW n \in Tries, run[j][n].check
  PROVE  run'[j][n].check
<1>0. /\ run \in [Jobs -> [Tries -> RunRows]] /\ run[j] \in [Tries -> RunRows]
      /\ run[j][n] \in RunRows
  BY Parts DEF DbTyped
<1>1. ASSUME NEW S, run' = Closing(run, S) PROVE run'[j][n].check
  <2>1. run'[j][n] = run[j][n] \/ run'[j][n] = [run[j][n] EXCEPT !.status = "closed"]
    BY <1>1 DEF Closing
  <2> QED
    BY <1>0, <2>1 DEF RunRows
<1>2. CASE Claim
  <2>1. \E S : run' = Closing(run, S)
    BY <1>2 DEF Claim, ClaimJobs
  <2> QED
    BY <1>1, <2>1
<1>3. ASSUME NEW w \in Workers, BeginRecovery(w) PROVE run'[j][n].check
  <2>1. claim[w].job \in Jobs /\ claim[w].n \in Tries
    BY <1>3, ClaimOf DEF BeginRecovery
  <2>2. \/ run' = run
        \/ run' = [run EXCEPT ![claim[w].job][claim[w].n] =
                     [status |-> "running", check |-> TRUE, code |-> None]]
    BY <1>3 DEF BeginRecovery
  <2> QED
    BY <1>0, <2>1, <2>2
<1>4. ASSUME NEW w \in Workers, Prepare(w) PROVE run'[j][n].check
  <2>1. claim[w].job \in Jobs /\ claim[w].n \in Tries
    BY <1>4, ClaimOf DEF Prepare
  <2> DEFINE r == Closing(run, {<<claim[w].job, m>> : m \in 1..(claim[w].n - 1)})
  <2>2. run' = run \/ run' = [r EXCEPT ![claim[w].job][claim[w].n].status = "running"]
    BY <1>4 DEF Prepare
  <2>3. r \in [Jobs -> [Tries -> RunRows]] /\ r[j][n] \in RunRows
    BY <1>0, ClosingType
  <2>4. r[j][n].check
    <3>1. r[j][n] = run[j][n] \/ r[j][n] = [run[j][n] EXCEPT !.status = "closed"]
      BY DEF Closing
    <3> QED
      BY <1>0, <3>1 DEF RunRows
  <2> HIDE DEF r
  <2>5. CASE run' = [r EXCEPT ![claim[w].job][claim[w].n].status = "running"]
    <3> DEFINE k == claim[w].job  m == claim[w].n
               y == [r[k][m] EXCEPT !.status = "running"]
    <3>1. r[k][m] \in RunRows
      BY <2>1, <2>3
    <3>2. y.check = r[k][m].check
      BY <3>1 DEF RunRows
    <3>3. run' = WithRun(r, k, m, y)
      BY <2>5 DEF WithRun
    <3> HIDE DEF k, m, y
    <3>4. k \in Jobs /\ m \in Tries
      BY <2>1 DEF k, m
    <3>5. run'[j][n] = IF j = k /\ n = m THEN y ELSE r[j][n]
      BY <2>3, <3>3, <3>4 DEF WithRun
    <3> QED
      BY <2>4, <3>2, <3>5
  <2> QED
    BY <2>2, <2>5
<1>5. ASSUME NEW w \in Workers, Confirm(w) \/ Complete(w) PROVE run'[j][n].check
  <2>1. run' = run \/ \E S : run' = Closing(run, S)
    BY <1>5 DEF Confirm, Complete, Fenced
  <2> QED
    BY <1>1, <2>1
<1>6. ASSUME NEW w \in Workers, Checkpoint(w) PROVE run'[j][n].check
  <2>1. claim[w].job \in Jobs /\ claim[w].n \in Tries
    BY <1>6, ClaimOf DEF Checkpoint
  <2>2. run' = run \/ run' = [run EXCEPT ![claim[w].job][claim[w].n].check = TRUE]
    BY <1>6 DEF Checkpoint
  <2> QED
    BY <1>0, <2>1, <2>2 DEF RunRows
<1>7. ASSUME NEW w \in Workers, Finish(w) PROVE run'[j][n].check
  <2>1. claim[w].job \in Jobs /\ claim[w].n \in Tries
    BY <1>7, ClaimOf DEF Finish
  <2> DEFINE k == claim[w].job  m == claim[w].n
             ended == CASE out[w] \in {"uncertain", "required"} -> "uncertain"
                        [] out[w] = "posted" -> "posted_verified"
                        [] OTHER -> "closed"
             code == IF out[w] = "required" THEN out[w] ELSE None
             y == [run[k][m] EXCEPT !.status = ended, !.code = code]
  <2>2. run' = run \/ run' = [run EXCEPT ![k][m].status = ended, ![k][m].code = code]
    BY <1>7 DEF Finish
  <2>3. run[k][m] \in RunRows
    BY <1>0, <2>1
  <2> HIDE DEF ended, code
  <2>4. y.check = run[k][m].check
    BY <2>3 DEF RunRows
  <2>5. run' = run \/ run' = WithRun(run, k, m, y)
    BY <1>0, <2>1, <2>2, <2>3 DEF RunRows, WithRun
  <2> HIDE DEF k, m, y
  <2>6. k \in Jobs /\ m \in Tries
    BY <2>1 DEF k, m
  <2>7. WithRun(run, k, m, y)[j][n] = IF j = k /\ n = m THEN y ELSE run[j][n]
    BY <1>0, <2>6 DEF WithRun
  <2> QED
    BY <2>4, <2>5, <2>7
<1>8. ASSUME NEW k \in Jobs, Reconcile(k) PROVE run'[j][n].check
  <2>1. PICK ended :
          run' = [run EXCEPT ![k] = [m \in Tries |->
               IF run[k][m].status = "uncertain" /\ run[k][m].code = "required"
               THEN [run[k][m] EXCEPT !.status = ended, !.code = None] ELSE run[k][m]]]
    BY <1>0, <1>8 DEF Reconcile
  <2>2. CASE k = j
    <3>1. run'[j][n] = IF run[j][n].status = "uncertain" /\ run[j][n].code = "required"
                       THEN [run[j][n] EXCEPT !.status = ended, !.code = None] ELSE run[j][n]
      BY <1>0, <2>1, <2>2
    <3> QED
      BY <1>0, <3>1 DEF RunRows
  <2>3. CASE k # j
    BY <1>0, <2>1, <2>3
  <2> QED
    BY <2>2, <2>3
<1> QED
  BY <1>2, <1>3, <1>4, <1>5, <1>6, <1>7, <1>8, RunWriters DEF vars, dbVars

\* How an attempt comes to be, and how it is armed again.
LEMMA Arming ==
  ASSUME Typed, [Next]_vars, NEW j \in Jobs, attempt'[j] # attempt[j]
  PROVE  /\ attempt'[j] # "NONE"
         /\ attempt[j] = "NONE" \/ attempt'[j] = "PREPARED" =>
              \E w \in Workers :
                /\ claim[w].job = j /\ attempt'[j] = "PREPARED"
                /\ \/ Persist(w) /\ attempt[j] = "NONE" /\ ~UnresolvedOf(j.txn)
                   \/ RecoverCommit(w) /\ attempt[j] # "NONE" /\ CommitAuthority(w)
<1>1. attempt \in [Jobs -> AttemptStatus] /\ Next /\ attempt' # attempt
  BY DEF Typed, TypeOK, vars, dbVars
<1>2. CASE Claim
  <2>1. PICK chosen \in SUBSET Candidates :
          attempt' = [k \in Jobs |->
            IF k \in {l \in chosen : Exhausted(l)} /\ Recoverable(k) /\ attempt[k] \in Retirable
            THEN "FAILED" ELSE attempt[k]]
    BY <1>2 DEF Claim, ClaimJobs
  <2> QED
    BY <2>1 DEF Retirable
<1>3. ASSUME NEW w \in Workers, Persist(w)
      PROVE  /\ claim[w].job = j /\ attempt'[j] = "PREPARED" /\ attempt[j] = "NONE"
             /\ ~UnresolvedOf(j.txn)
  BY <1>1, <1>3 DEF Persist
<1>4. ASSUME NEW w \in Workers, Enter(w) \/ Send(w)
      PROVE  attempt[j] # "NONE" /\ attempt'[j] \notin {"NONE", "PREPARED"}
  <2>1. CASE Enter(w)
    BY <1>1, <2>1 DEF Enter, GiveUp
  <2>2. CASE Send(w)
    BY <1>1, <2>2 DEF Send
  <2> QED
    BY <1>4, <2>1, <2>2
<1>5. ASSUME NEW w \in Workers, RecoverCommit(w)
      PROVE  /\ attempt[j] # "NONE" /\ attempt'[j] # "NONE"
             /\ attempt'[j] = "PREPARED" => claim[w].job = j /\ CommitAuthority(w)
  BY <1>1, <1>5 DEF RecoverCommit
<1>6. ASSUME NEW k \in Jobs, Reconcile(k)
      PROVE  attempt[j] # "NONE" /\ attempt'[j] \notin {"NONE", "PREPARED"}
  BY <1>1, <1>6 DEF Reconcile, Reconcilable
<1> QED
  BY <1>1, <1>2, <1>3, <1>4, <1>5, <1>6, AttemptWriters

LEMMA OneUnresolvedNext ==
  ASSUME Typed, OneUnresolved, [Next]_vars
  PROVE  OneUnresolved'
<1>0. attempt \in [Jobs -> AttemptStatus] /\ txn \in [Txns -> TxnRows]
  BY DEF Typed, TypeOK, TxnRows
<1>1. ASSUME NEW j \in Jobs, attempt'[j] \in Unresolved, attempt[j] \notin Unresolved
      PROVE  /\ ~UnresolvedOf(j.txn) /\ txn' = txn
             /\ \A k \in Jobs \ {j} : attempt'[k] = attempt[k]
  <2>1. attempt'[j] = "PREPARED" /\ attempt'[j] # attempt[j]
    BY <1>1, AttemptSteps DEF SendsNow, Settles, Rests, Sent, Unresolved
  <2>2. PICK w \in Workers : /\ claim[w].job = j
                             /\ \/ Persist(w) /\ ~UnresolvedOf(j.txn)
                                \/ RecoverCommit(w) /\ CommitAuthority(w)
    BY <2>1, Arming
  <2>3. ~UnresolvedOf(j.txn)
    <3>1. CommitAuthority(w) => ~UnresolvedElsewhere(j)
      BY <2>2 DEF CommitAuthority
    <3>2. j.txn \in Txns
      BY DEF Jobs
    <3> QED
      BY <1>1, <2>2, <3>1, <3>2 DEF UnresolvedOf, UnresolvedElsewhere, PersonUnresolved
  <2>4. txn' = txn /\ \A k \in Jobs \ {j} : attempt'[k] = attempt[k]
    BY <1>0, <2>2 DEF Persist, RecoverCommit
  <2> QED
    BY <2>3, <2>4
<1>2. ASSUME NEW j \in Jobs, attempt'[j] \in Unresolved PROVE txn'[j.txn].write \notin Unresolved
  <2>0. j.txn \in Txns /\ txn[j.txn] \in TxnRows
    BY <1>0 DEF Jobs
  <2>1. CASE attempt[j] \notin Unresolved
    BY <1>1, <1>2, <2>1 DEF UnresolvedOf
  <2>2. CASE attempt[j] \in Unresolved
    <3>1. txn[j.txn].write \notin Unresolved /\ UnresolvedOf(j.txn)
      BY <2>2 DEF OneUnresolved, UnresolvedOf, RowOf
    <3>2. CASE txn'[j.txn].write = txn[j.txn].write
      BY <3>1, <3>2
    <3>3. ASSUME NEW k \in Jobs, Settles(k) PROVE txn'[j.txn].write = txn[j.txn].write
      BY <1>0, <2>0, <3>3 DEF Settles, TxnRows
    <3>4. ASSUME NEW w \in Workers, StageRow(w) PROVE txn' = txn
      BY <2>2, <3>4 DEF StageRow, AnyUnresolved
    <3>5. ASSUME NEW t \in Txns, PersonStep(t) PROVE txn'[j.txn] = txn[j.txn]
      <4>1. t # j.txn
        BY <3>1, <3>5, PersonRow
      <4> QED
        BY <1>0, <2>0, <3>5, <4>1, PersonRow
    <3> QED
      BY <3>2, <3>3, <3>4, <3>5, RowSteps
  <2> QED
    BY <2>1, <2>2
<1> SUFFICES ASSUME NEW j \in Jobs, NEW k \in Jobs, j.txn = k.txn,
                    attempt'[j] \in Unresolved, attempt'[k] \in Unresolved, j # k
             PROVE  FALSE
  BY <1>2 DEF OneUnresolved, RowOf
<1>3. CASE attempt[j] \notin Unresolved
  BY <1>1, <1>3 DEF UnresolvedOf
<1>4. CASE attempt[k] \notin Unresolved
  BY <1>1, <1>4 DEF UnresolvedOf
<1> QED
  BY <1>3, <1>4 DEF OneUnresolved

\* Steps into the places of StagedRows and Starting.
LEMMA StagingSteps ==
  ASSUME Typed, [Next]_vars, NEW w \in Workers, pc[w] # "idle", claim'[w] = claim[w],
         pc'[w] # pc[w]
  PROVE  /\ pc'[w] = "stage" => Checkpoint(w) /\ run'[claim[w].job][claim[w].n].check
         /\ pc'[w] = "preCommit" =>
              /\ pc[w] = "stage" /\ txn' = [txn EXCEPT ![claim[w].job.txn].rev = claim[w].job.rev + 1]
         /\ pc'[w] = "persist" => PreCommit(w) /\ Holds(w)
         /\ pc'[w] \in Starting => pc[w] \in Starting /\ pc'[w] # "claimed"
<1>0. /\ pc \in [Workers -> Steps] /\ claim[w].job \in Jobs /\ claim[w].n \in Tries
      /\ run \in [Jobs -> [Tries -> RunRows]] /\ run[claim[w].job] \in [Tries -> RunRows]
      /\ run[claim[w].job][claim[w].n] \in RunRows
      /\ Next /\ Moved(w)
  BY Parts, ClaimOf DEF DbTyped, WorkersTyped, Moved, vars, workerVars
<1>1. WorkerStep(w) \/ Crash(w)
  BY <1>0, Mover DEF GivenClaim
<1>2. CASE Away(w)
  BY <1>0, <1>2 DEF Away, Starting
<1>3. ASSUME NEW step, Go(w, step) PROVE pc'[w] = step
  BY <1>0, <1>3 DEF Go
<1>4. ASSUME NEW o, Ending(w, o) PROVE pc'[w] = "finish"
  BY <1>3, <1>4 DEF Ending
<1>5. CASE BeginRecovery(w) \/ Dispatch(w)
  BY <1>3, <1>4, <1>5 DEF BeginRecovery, Dispatch, Starting
<1>6. CASE Prepare(w) \/ Confirm(w) \/ Complete(w)
  <2>1. CASE Prepare(w)
    BY <1>2, <1>3, <2>1 DEF Prepare, Starting
  <2>2. CASE Confirm(w)
    BY <1>2, <1>3, <2>2 DEF Confirm, Fenced, Starting
  <2>3. CASE Complete(w)
    BY <1>2, <1>3, <2>3 DEF Complete, Fenced
  <2> QED
    BY <1>6, <2>1, <2>2, <2>3
<1>7. CASE TakeLease(w) \/ Decide(w)
  BY <1>3, <1>4, <1>7 DEF TakeLease, Decide, Starting
<1>8. CASE Checkpoint(w)
  <2>1. CASE Go(w, "stage") /\ run' = [run EXCEPT ![claim[w].job][claim[w].n].check = TRUE]
    <3>1. run'[claim[w].job][claim[w].n].check
      BY <1>0, <2>1 DEF RunRows
    <3> QED
      BY <1>3, <1>8, <2>1, <3>1 DEF Starting
  <2> QED
    BY <1>4, <1>8, <2>1 DEF Checkpoint, Starting
<1>9. CASE StageRow(w) \/ PreCommit(w)
  <2>1. CASE StageRow(w)
    BY <1>3, <1>4, <2>1 DEF StageRow, Starting
  <2>2. CASE PreCommit(w)
    BY <1>3, <1>4, <2>2 DEF PreCommit, Renewed, Starting
  <2> QED
    BY <1>9, <2>1, <2>2
<1>10. CASE Persist(w) \/ Enter(w)
  BY <1>3, <1>4, <1>10 DEF Persist, Enter, Starting
<1>11. CASE Send(w) \/ RecoverCommit(w)
  BY <1>3, <1>4, <1>11 DEF Send, RecoverCommit, Starting
<1>12. CASE Finish(w) \/ Crash(w)
  BY <1>2, <1>12 DEF Finish, Crash
<1> QED
  BY <1>1, <1>5, <1>6, <1>7, <1>8, <1>9, <1>10, <1>11, <1>12 DEF WorkerStep

LEMMA StagedRowsNext ==
  ASSUME Typed, StagedRows, [Next]_vars
  PROVE  StagedRows'
<1> SUFFICES ASSUME NEW w \in Workers, pc'[w] \in {"stage", "preCommit", "persist"}
             PROVE  /\ run'[claim'[w].job][claim'[w].n].check
                    /\ pc'[w] \in {"preCommit", "persist"} =>
                         txn'[claim'[w].job.txn].rev > claim'[w].job.rev
  BY DEF StagedRows, RowOf
<1>0. pc[w] # "idle" /\ claim'[w] = claim[w]
  BY BusyMoves DEF Given
<1> DEFINE j == claim[w].job  n == claim[w].n
<1>1. /\ j \in Jobs /\ n \in Tries /\ j.txn \in Txns /\ j.rev \in Nat
      /\ txn \in [Txns -> TxnRows]
  BY <1>0, ClaimOf, BoundsAssumption DEF Typed, TypeOK, TxnRows
<1>2. CASE pc'[w] = pc[w]
  <2>1. run[j][n].check /\ (pc[w] \in {"preCommit", "persist"} => RowOf(j).rev > j.rev)
    BY <1>2 DEF StagedRows
  <2>2. run'[j][n].check
    BY <1>1, <2>1, ChecksStay
  <2>3. pc[w] \in {"preCommit", "persist"} => txn'[j.txn].rev > j.rev
    BY <1>1, <2>1, StillPast
  <2> QED
    BY <1>0, <1>2, <2>2, <2>3
<1>3. CASE pc'[w] # pc[w]
  <2>1. CASE pc'[w] = "stage"
    BY <1>0, <1>3, <2>1, StagingSteps
  <2>2. CASE pc'[w] = "preCommit"
    <3>1. pc[w] = "stage" /\ txn' = [txn EXCEPT ![j.txn].rev = j.rev + 1]
      BY <1>0, <1>3, <2>2, StagingSteps
    <3>2. run'[j][n].check
      BY <1>1, <3>1, ChecksStay DEF StagedRows
    <3>3. txn'[j.txn].rev > j.rev
      BY <1>1, <3>1
    <3> QED
      BY <1>0, <3>2, <3>3
  <2>3. CASE pc'[w] = "persist"
    <3>1. pc[w] = "preCommit"
      BY <1>0, <1>3, <2>3, StagingSteps DEF PreCommit
    <3>2. run[j][n].check /\ RowOf(j).rev > j.rev
      BY <3>1 DEF StagedRows
    <3>3. run'[j][n].check
      BY <1>1, <3>2, ChecksStay
    <3>4. txn'[j.txn].rev > j.rev
      BY <1>1, <3>2, StillPast
    <3> QED
      BY <1>0, <3>3, <3>4
  <2> QED
    BY <2>1, <2>2, <2>3
<1> QED
  BY <1>2, <1>3

LEMMA WrittenWasCheckedNext ==
  ASSUME Typed, RunInv, StagedRows, WrittenWasChecked, [Next]_vars
  PROVE  WrittenWasChecked'
<1> SUFFICES ASSUME NEW j \in Jobs, attempt'[j] # "NONE"
             PROVE  /\ txn'[j.txn].rev > j.rev
                    /\ \E m \in Tries : m <= job'[j].tries /\ run'[j][m].check
  BY DEF WrittenWasChecked, RowOf
<1>1. RowOf(j).rev > j.rev /\ \E m \in Tries : m <= job[j].tries /\ run[j][m].check
  <2>1. CASE attempt[j] # "NONE"
    BY <2>1 DEF WrittenWasChecked
  <2>2. CASE attempt[j] = "NONE"
    <3>1. PICK w \in Workers : claim[w].job = j /\ Persist(w)
      BY <2>2, Arming
    <3>2. pc[w] = "persist" /\ claim[w].n \in Tries
      BY <3>1, ClaimOf DEF Persist
    <3>3. run[j][claim[w].n].check /\ RowOf(j).rev > j.rev
      BY <3>1, <3>2 DEF StagedRows
    <3>4. claim[w].n <= job[j].tries
      BY <3>1, <3>2 DEF RunInv, ClaimsCounted
    <3> QED
      BY <3>2, <3>3, <3>4
  <2> QED
    BY <2>1, <2>2
<1>2. PICK m \in Tries : m <= job[j].tries /\ run[j][m].check
  BY <1>1
<1>3. m <= job'[j].tries
  <2>1. m \in Nat /\ job'[j].tries >= job[j].tries
    BY TriesGrow DEF RunInv, Tries
  <2> QED
    BY <1>2, <2>1, JobTries
<1>4. run'[j][m].check
  BY <1>2, ChecksStay
<1>5. txn'[j.txn].rev > j.rev
  BY <1>1, StillPast
<1> QED
  BY <1>3, <1>4, <1>5

\* A worker that holds its job after a step held it before.
LEMMA HeldBefore ==
  ASSUME Typed, RunInv, [Next]_vars, NEW w \in Workers, pc[w] # "idle",
         NEW j \in Jobs, NEW n \in Tries, claim[w].job = j, claim[w].n = n,
         job'[j].status = "running", job'[j].tries = n, job'[j].live
  PROVE  Holds(w)
<1>0. job[j] \in JobRows /\ job[j].tries \in Nat /\ n \in Nat
  BY Parts, JobTries DEF DbTyped, Tries
<1>1. job[j].tries = n
  <2>1. n <= job[j].tries
    BY DEF RunInv, ClaimsCounted
  <2>2. job'[j].tries >= job[j].tries
    BY TriesGrow DEF RunInv
  <2> QED
    BY <1>0, <2>1, <2>2
<1>2. j \in Alive'
  BY DEF Alive
<1>3. CASE Claim
  <2>1. PICK chosen \in SUBSET Candidates : \E who : ClaimedBy(chosen, who)
    BY <1>3, ClaimSteps
  <2>2. \/ job'[j] = [job[j] EXCEPT !.status = "cancelled", !.live = FALSE]
        \/ job'[j] = [job[j] EXCEPT !.status = "terminal"]
        \/ job'[j] = [status |-> "running", tries |-> job[j].tries + 1, live |-> TRUE]
        \/ job'[j] = job[j]
    BY <2>1 DEF ClaimedBy
  <2>3. job'[j] = job[j]
    <3>1. job'[j] # [job[j] EXCEPT !.status = "cancelled", !.live = FALSE]
      BY <1>0 DEF JobRows
    <3>2. job'[j] # [job[j] EXCEPT !.status = "terminal"]
      BY <1>0 DEF JobRows
    <3>3. job'[j] # [status |-> "running", tries |-> job[j].tries + 1, live |-> TRUE]
      BY <1>0, <1>1
    <3> QED
      BY <2>2, <3>1, <3>2, <3>3
  <2> QED
    BY <1>1, <2>3 DEF Holds
<1>4. CASE Next /\ ~Claim
  <2>1. j \in Alive
    BY <1>2, <1>4, AliveShrinks
  <2> QED
    BY <1>1, <2>1 DEF Alive, Holds
<1>5. CASE UNCHANGED vars
  BY <1>1, <1>5 DEF vars, dbVars, Holds
<1> QED
  BY <1>3, <1>4, <1>5

\* A row with a prepared write does not come back to what the write was staged on.
LEMMA PreparedRow ==
  ASSUME Typed, OneUnresolved, [Next]_vars, NEW j \in Jobs,
         attempt[j] = "PREPARED", attempt'[j] = "PREPARED", Recoverable(j)'
  PROVE  Recoverable(j)
<1>0. /\ j.txn \in Txns /\ attempt \in [Jobs -> AttemptStatus]
      /\ txn \in [Txns -> TxnRows]
  BY DEF Jobs, Typed, TypeOK, TxnRows
<1>1. txn'[j.txn].rev = j.rev + 1 /\ txn'[j.txn].status = "PENDING"
  BY DEF Recoverable, RowOf
<1>2. txn'[j.txn] = txn[j.txn] => Recoverable(j)
  BY <1>1 DEF Recoverable, RowOf
<1>3. attempt[j] \in Unresolved
  BY DEF Unresolved
<1>4. ASSUME NEW w \in Workers, StageRow(w) PROVE txn' = txn
  BY <1>3, <1>4 DEF StageRow, AnyUnresolved
<1>5. ASSUME NEW w \in Workers, Send(w) PROVE txn'[j.txn] = txn[j.txn]
  <2>1. claim[w].job.txn \in Txns
    BY <1>5, ClaimOf DEF Send
  <2>2. txn' = txn \/ \E status \in {"POSTED", "ERROR"} :
                        txn' = [txn EXCEPT ![claim[w].job.txn].status = status]
    BY <1>5 DEF Send
  <2>3. ASSUME NEW t \in Txns, NEW status \in {"POSTED", "ERROR"},
               txn' = [txn EXCEPT ![t].status = status]
        PROVE  t # j.txn
    BY <1>0, <1>1, <2>3 DEF TxnRows
  <2> QED
    BY <1>0, <2>1, <2>2, <2>3
<1>6. ASSUME NEW k \in Jobs, Reconcile(k) PROVE txn'[j.txn] = txn[j.txn]
  <2>1. attempt[k] \in Sent /\ \E status : txn' = [txn EXCEPT ![k.txn].status = status]
    BY <1>6 DEF Reconcile, Reconcilable, Sent
  <2>2. k.txn # j.txn
    BY <1>3, <2>1 DEF OneUnresolved, Unresolved, Sent
  <2> QED
    BY <1>0, <2>1, <2>2
<1>7. ASSUME NEW t \in Txns, PersonStep(t) PROVE txn'[j.txn] = txn[j.txn]
  <2>1. t # j.txn
    BY <1>3, <1>7, PersonRow DEF OneUnresolved, UnresolvedOf, RowOf
  <2> QED
    BY <1>0, <1>7, <2>1, PersonRow
<1> QED
  BY <1>2, <1>4, <1>5, <1>6, <1>7, RowWriters DEF vars, dbVars

LEMMA StartsUnarmedNext ==
  ASSUME Typed, RunInv, PreparedInv, [Next]_vars
  PROVE  StartsUnarmed'
<1> SUFFICES ASSUME NEW w \in Workers, NEW j \in Jobs, NEW n \in Tries,
                    pc'[w] \in Starting, claim'[w].job = j, claim'[w].n = n,
                    job'[j].status = "running", job'[j].tries = n, job'[j].live
             PROVE  /\ attempt'[j] = "NONE" =>
                         \A v \in Workers : ~(pc'[v] = "persist" /\ claim'[v].job = j)
                    /\ pc'[w] = "claimed" /\ attempt'[j] # "NONE" =>
                         \E m \in Tries : m < n /\ run'[j][m].check
                    /\ pc'[w] # "claimed" => ~(attempt'[j] = "PREPARED" /\ Recoverable(j)')
  <2>1. ASSUME NEW w \in Workers, pc'[w] \in Starting
        PROVE  claim'[w].job \in Jobs /\ claim'[w].n \in Tries
    <3>1. claim'[w] \in Claims
      BY <2>1, NextTyped DEF Typed, BusyHasClaim, Starting
    <3> QED
      BY <3>1 DEF Claims
  <2> QED
    BY <2>1 DEF StartsUnarmed, Holds, Armed
<1>0. /\ StagedRows /\ WrittenWasChecked /\ OneUnresolved /\ StartsUnarmed
      /\ pc'[w] # "idle"
  BY DEF PreparedInv, Starting
\* A worker that was there before.
<1>1. CASE pc[w] # "idle" /\ claim'[w] = claim[w]
  <2>1. Holds(w) /\ claim[w].job = j /\ claim[w].n = n
    BY <1>1, HeldBefore
  <2>2. pc[w] \in Starting /\ (pc'[w] = "claimed" => pc[w] = "claimed")
    BY <1>1, StagingSteps
  <2>3. /\ attempt[j] = "NONE" => \A v \in Workers : ~(pc[v] = "persist" /\ claim[v].job = j)
        /\ pc[w] = "claimed" /\ attempt[j] # "NONE" => \E m \in Tries : m < n /\ run[j][m].check
        /\ pc[w] # "claimed" => ~Armed(j)
    BY <1>0, <2>1, <2>2 DEF StartsUnarmed
  <2>4. ASSUME NEW v \in Workers, pc[v] # "idle", claim[v].job = j, Holds(v) PROVE v = w
    <3>1. claim[v] = claim[w]
      BY <1>1, <2>1, <2>4, ClaimOf DEF Holds, Claims
    <3> QED
      BY <1>1, <2>4, <3>1 DEF RunInv, OwnClaims
  <2>5. ASSUME attempt[j] = "NONE" PROVE attempt'[j] = "NONE"
    <3>1. ~\E v \in Workers : Persist(v) /\ claim[v].job = j
      BY <2>3, <2>5 DEF Persist
    <3> QED
      BY <2>5, <3>1, Arming
  <2>6. ASSUME attempt'[j] = "NONE", NEW v \in Workers, pc'[v] = "persist", claim'[v].job = j
        PROVE  FALSE
    <3>1. attempt[j] = "NONE"
      BY <2>6, Arming
    <3>2. pc[v] # "idle" /\ claim'[v] = claim[v]
      BY <2>6, BusyMoves DEF Given
    <3>3. pc'[v] # pc[v]
      BY <2>3, <2>6, <3>1, <3>2
    <3>4. Holds(v) /\ pc[v] = "preCommit"
      BY <2>6, <3>2, <3>3, StagingSteps DEF PreCommit
    <3>5. v = w
      BY <2>4, <2>6, <3>2, <3>4
    <3> QED
      BY <2>2, <3>4, <3>5 DEF Starting
  <2>7. ASSUME pc'[w] = "claimed", attempt'[j] # "NONE"
        PROVE  \E m \in Tries : m < n /\ run'[j][m].check
    <3>1. PICK m \in Tries : m < n /\ run[j][m].check
      BY <2>2, <2>3, <2>5, <2>7
    <3> QED
      BY <3>1, ChecksStay
  <2>8. ASSUME pc'[w] # "claimed", attempt'[j] = "PREPARED", Recoverable(j)' PROVE FALSE
    <3>1. CASE Armed(j)
      <4>1. pc[w] = "claimed" /\ \E m \in Tries : m < n /\ run[j][m].check
        BY <2>3, <3>1 DEF Armed
      <4>2. run[j][n].status = "none"
        BY <2>1, <4>1 DEF RunInv, NotBegun, Early
      <4>3. BeginRecovery(w) \/ Crash(w)
        <5>1. Next /\ Moved(w)
          BY <2>8, <4>1 DEF Moved, vars, workerVars
        <5>2. WorkerStep(w) \/ Crash(w)
          BY <1>1, <5>1, Mover DEF GivenClaim
        <5> QED
          BY <4>1, <5>2 DEF WorkerStep, Dispatch, Prepare, Confirm, Complete, TakeLease, Decide,
             Checkpoint, StageRow, PreCommit, Persist, Enter, Send, RecoverCommit, Finish
      <4>4. pc'[w] \in {"idle", "finish", "recoverLease"}
        <5>1. pc \in [Workers -> Steps]
          BY DEF Typed, TypeOK
        <5>2. CASE BeginRecovery(w)
          BY <2>1, <3>1, <4>1, <4>2, <5>1, <5>2 DEF BeginRecovery, Armed, Ending, Go
        <5>3. CASE Crash(w)
          BY <5>1, <5>3 DEF Crash, Away
        <5> QED
          BY <4>3, <5>2, <5>3
      <4> QED
        BY <4>4 DEF Starting
    <3>2. CASE attempt[j] # "PREPARED"
      <4>1. PICK v \in Workers : /\ claim[v].job = j
                                 /\ \/ Persist(v) /\ attempt[j] = "NONE"
                                    \/ RecoverCommit(v) /\ CommitAuthority(v)
        BY <2>8, <3>2, Arming
      <4>2. ~Persist(v) \/ attempt[j] # "NONE"
        BY <2>3, <4>1 DEF Persist
      <4>3. pc[v] = "recoverCommit" /\ Holds(v)
        BY <4>1, <4>2 DEF RecoverCommit, CommitAuthority
      <4>4. v = w
        BY <2>4, <4>1, <4>3
      <4> QED
        BY <2>2, <4>3, <4>4 DEF Starting
    <3>3. CASE attempt[j] = "PREPARED" /\ ~Recoverable(j)
      BY <1>0, <2>8, <3>3, PreparedRow
    <3> QED
      BY <3>1, <3>2, <3>3 DEF Armed
  <2> QED
    BY <2>6, <2>7, <2>8
\* A worker the claim was just given to.
<1>2. CASE Given(w, j)
  <2>1. PICK chosen \in SUBSET Candidates : \E who : ClaimedBy(chosen, who)
    BY <1>2, ClaimSteps DEF Given
  <2>2. PICK who : ClaimedBy(chosen, who)
    BY <2>1
  <2>3. w \in DOMAIN who /\ Given(w, who[w])
    BY <1>2, <2>2, GivenByClaim DEF Given
  <2>4. who[w] = j
    BY <1>2, <2>3 DEF Given
  <2>5. j \in Candidates
    BY <2>2, <2>3, <2>4 DEF ClaimedBy
  <2>6. Fresh(j) \/ Recoverable(j)
    BY <2>5 DEF Candidates, Obsolete, Pending
  <2>7. attempt'[j] = "NONE" <=> attempt[j] = "NONE"
    <3>0. \E some \in SUBSET Candidates :
            attempt' = [k \in Jobs |->
              IF k \in {l \in some : Exhausted(l)} /\ Recoverable(k) /\ attempt[k] \in Retirable
              THEN "FAILED" ELSE attempt[k]]
      BY <1>2 DEF Given, Claim, ClaimJobs
    <3>1. attempt[j] = "NONE" => attempt'[j] = "NONE"
      BY <3>0 DEF Retirable
    <3> QED
      BY <3>1, Arming
  <2>8. ASSUME attempt[j] = "NONE", NEW v \in Workers, pc'[v] = "persist", claim'[v].job = j
        PROVE  FALSE
    <3>1. pc[v] # "idle" /\ claim'[v] = claim[v]
      BY <2>8, BusyMoves DEF Given
    <3>2. v \notin DOMAIN who
      BY <2>2, <3>1 DEF ClaimedBy
    <3>3. pc[v] = "persist" /\ claim[v].job = j
      BY <2>2, <2>8, <3>1, <3>2 DEF ClaimedBy
    <3>4. RowOf(j).rev > j.rev
      BY <1>0, <3>3 DEF StagedRows
    <3>5. RowOf(j).rev = j.rev
      BY <2>6, <2>8 DEF Fresh, Unstaged, Recoverable
    <3>6. j.rev \in Nat
      BY BoundsAssumption DEF Jobs
    <3> QED
      BY <3>4, <3>5, <3>6
  <2>9. ASSUME attempt[j] # "NONE" PROVE \E m \in Tries : m < n /\ run'[j][m].check
    <3>1. PICK m \in Tries : m <= job[j].tries /\ run[j][m].check
      BY <1>0, <2>9 DEF WrittenWasChecked
    <3>2. n = job[j].tries + 1
      BY <1>2 DEF Given
    <3>3. m < n
      BY <3>1, <3>2, JobTries DEF Tries
    <3> QED
      BY <3>1, <3>3, ChecksStay
  <2> QED
    BY <1>2, <2>7, <2>8, <2>9 DEF Given
<1> QED
  <2>1. ASSUME NEW k \in Jobs, Given(w, k) PROVE k = j
    BY <2>1 DEF Given
  <2> QED
    BY <1>0, <1>1, <1>2, <2>1, BusyMoves

LEMMA PreparedInductive == Spec => []PreparedInv
<1>1. Init => PreparedInv
  <2> SUFFICES ASSUME Init PROVE PreparedInv
    OBVIOUS
  <2>1. /\ \A j \in Jobs : attempt[j] = "NONE"
        /\ \A w \in Workers : pc[w] = "idle"
    BY DEF Init
  <2> QED
    BY <2>1 DEF PreparedInv, StagedRows, WrittenWasChecked, OneUnresolved, StartsUnarmed,
       Starting, Unresolved
<1>2. IInv /\ PreparedInv /\ [Next]_vars => PreparedInv'
  <2> SUFFICES ASSUME IInv, PreparedInv, [Next]_vars PROVE PreparedInv'
    OBVIOUS
  <2>1. Typed /\ RunInv
    BY DEF IInv
  <2>2. StagedRows' /\ WrittenWasChecked' /\ OneUnresolved'
    BY <2>1, StagedRowsNext, WrittenWasCheckedNext, OneUnresolvedNext DEF PreparedInv
  <2>3. StartsUnarmed'
    BY <2>1, StartsUnarmedNext
  <2> QED
    BY <2>2, <2>3 DEF PreparedInv
<1> QED
  BY <1>1, <1>2, Inductive, PTL DEF Spec

\* What ends the job of a prepared write that its row still stands for.
LEMMA PreparedStep ==
  ASSUME Typed, PreparedInv, Next, NEW j \in Jobs, Armed(j), attempt'[j] = "PREPARED",
         job[j].status \in Pending, job'[j].status \notin Pending
  PROVE  \E w \in Workers : pc[w] = "finish" /\ claim[w].job = j /\ Holds(w)
<1>0. /\ job \in [Jobs -> JobRows] /\ job[j] \in JobRows /\ attempt \in [Jobs -> AttemptStatus]
      /\ job[j].status # job'[j].status /\ job' # job
  BY Parts DEF DbTyped
<1>1. ~Discover
  BY <1>0 DEF Discover, Discoverable, NoJob, Pending, Waiting
<1>2. CASE Claim
  <2>1. PICK chosen \in SUBSET Candidates :
          \E f \in Assignments(chosen) : ClaimJobs(chosen, f)
    BY <1>2 DEF Claim
  <2>2. PICK who \in Assignments(chosen) : ClaimJobs(chosen, who)
    BY <2>1
  <2>3. j \notin Obsolete
    BY DEF Obsolete, Armed
  <2>4. ~(j \in chosen /\ Exhausted(j))
    <3>1. j \in chosen /\ Exhausted(j) => attempt'[j] = "FAILED"
      BY <2>2 DEF ClaimJobs, Armed, Retirable
    <3> QED
      BY <3>1
  <2>5. job'[j] = IF j \in chosen
                  THEN [status |-> "running", tries |-> job[j].tries + 1, live |-> TRUE]
                  ELSE job[j]
    BY <2>2, <2>3, <2>4 DEF ClaimJobs
  <2> QED
    BY <2>5 DEF Pending
<1>3. ~AdminCancel
  BY <1>0 DEF AdminCancel, Armed, Unresolved
<1>4. ASSUME NEW w \in Workers, Prepare(w) \/ Confirm(w) \/ Complete(w) PROVE FALSE
  <2>1. claim[w].job \in Jobs /\ pc[w] \in Starting /\ pc[w] # "claimed"
    BY <1>4, ClaimOf DEF Prepare, Confirm, Complete, Starting
  <2>2. Holds(w) /\ \E status : job' = Over(claim[w].job, status)
    BY <1>0, <1>4 DEF Prepare, Confirm, Complete, Fenced
  <2>3. claim[w].job = j
    BY <1>0, <2>1, <2>2 DEF Over
  <2> QED
    BY <2>1, <2>2, <2>3 DEF PreparedInv, StartsUnarmed
<1>5. ASSUME NEW w \in Workers, Finish(w)
      PROVE  pc[w] = "finish" /\ claim[w].job = j /\ Holds(w)
  <2>1. claim[w].job \in Jobs /\ pc[w] = "finish"
    BY <1>5, ClaimOf DEF Finish
  <2>2. Holds(w) /\ \E status : job' = Over(claim[w].job, status)
    BY <1>0, <1>5 DEF Finish
  <2> QED
    BY <1>0, <2>1, <2>2 DEF Over
<1>6. ASSUME NEW k \in Jobs, ExpireJob(k) \/ Reconcile(k) PROVE FALSE
  <2>1. CASE ExpireJob(k)
    <3>1. job[k] \in JobRows /\ job' = [job EXCEPT ![k].live = FALSE]
      BY <1>0, <2>1 DEF ExpireJob
    <3> QED
      BY <1>0, <3>1 DEF JobRows
  <2>2. CASE Reconcile(k)
    <3>1. job' = [job EXCEPT ![k].status = "completed"] /\ attempt[k] \in Sent
      BY <2>2 DEF Reconcile, Reconcilable, Sent
    <3>2. k = j
      BY <1>0, <3>1
    <3> QED
      BY <3>1, <3>2 DEF Armed, Sent
  <2> QED
    BY <1>6, <2>1, <2>2
<1> QED
  BY <1>0, <1>1, <1>2, <1>3, <1>4, <1>5, <1>6, JobWriters

\* A job that owns a prepared write its row still stands for leaves the queue only
\* through a worker that holds it and ends it.
THEOREM PreparedWritesKeepTheirJobs == Spec => PreparedKeepsItsJob
<1> DEFINE EndedByHolder == \A j \in Jobs :
       /\ attempt[j] = "PREPARED" /\ attempt'[j] = "PREPARED"
       /\ Recoverable(j)
       /\ job[j].status \in Pending /\ job'[j].status \notin Pending
       => \E w \in Workers : pc[w] = "finish" /\ claim[w].job = j /\ Holds(w)
<1>1. IInv /\ PreparedInv /\ [Next]_vars => [EndedByHolder]_vars
  <2> SUFFICES ASSUME IInv, PreparedInv, Next PROVE EndedByHolder
    OBVIOUS
  <2>1. Typed
    BY DEF IInv
  <2> QED
    BY <2>1, PreparedStep DEF Armed
<1>2. PreparedKeepsItsJob <=> [][EndedByHolder]_vars
  BY DEF PreparedKeepsItsJob
<1> QED
  BY <1>1, <1>2, Inductive, PreparedInductive, PTL DEF Spec

=============================================================================
