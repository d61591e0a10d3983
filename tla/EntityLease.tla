---------------------------- MODULE EntityLease ----------------------------
(* The lease table QboEntityLease that serialises work on one QuickBooks      *)
(* entity (server/src/services/entityLease.ts).                               *)
(*                                                                            *)
(* Every writer of the server runs under a token of its own (a fresh UUID),   *)
(* here an element of Owners, and takes one row per entity, here an element   *)
(* of Keys.  Entities are numbered in the order of compareEntityLeaseKeys.    *)
(* A row carries an absolute expiry in the code; here it carries what is left *)
(* of it (ttl), so time is the single action Tick and no clock grows.         *)
(*                                                                            *)
(* A statement of an open database transaction waits while another open       *)
(* transaction holds the row, and is evaluated against the row committed      *)
(* last (READ COMMITTED).  `now` is the time the transaction began.           *)
EXTENDS Integers, FiniteSets

CONSTANTS
  Owners,      \* the tokens of the operations
  Keys,        \* the entities, numbered in canonical order
  None,        \* "no owner": the row does not exist, the row lock is free
  TTL,         \* the time a lease is granted for
  TxTimeout,   \* the time an interactive transaction may stay open
  MaxDepth     \* bound: calls of withEntityLease nested in an outer one

ASSUME KeysAssumption == Keys \subseteq Nat /\ \E last \in Keys : \A k \in Keys : k <= last
ASSUME NoneAssumption == None \notin Owners
ASSUME TimeAssumption == TTL \in Nat \ {0} /\ TxTimeout \in Nat
ASSUME DepthAssumption == MaxDepth \in Nat

VARIABLES
  owner,   \* owner[k]: owner in the committed row of k, None when there is no row
  ttl,     \* ttl[k]: time left of that row; a lease has expired at 0
  lock,    \* lock[k]: whose open transaction holds the row lock of k
  pc,      \* pc[o]: where the operation o is
  op,      \* op[o]: the statement its open transaction runs on each key
  want,    \* want[o]: the keys of its lease
  todo,    \* todo[o]: the keys its open transaction has not reached yet
  done,    \* done[o]: the keys whose statement has passed in it
  age,     \* age[o]: how long that transaction has been open
  depth    \* depth[o]: re-entrant calls inside the outer one

leaseVars == <<owner, ttl>>
txVars == <<lock, op, todo, done, age>>
callVars == <<want, depth>>
vars == <<owner, ttl, lock, pc, op, want, todo, done, age, depth>>

Kinds == {"acquire", "renew", "nest", "renewAll", "fence", "fenceAll"}

TypeOK ==
  /\ owner \in [Keys -> Owners \cup {None}]
  /\ ttl \in [Keys -> -TxTimeout .. TTL]
  /\ lock \in [Keys -> Owners \cup {None}]
  /\ pc \in [Owners -> {"idle", "tx", "holding", "releasing", "dead"}]
  /\ op \in [Owners -> Kinds]
  /\ want \in [Owners -> SUBSET Keys]
  /\ todo \in [Owners -> SUBSET Keys]
  /\ done \in [Owners -> SUBSET Keys]
  /\ age \in [Owners -> 0 .. TxTimeout]
  /\ depth \in [Owners -> 0 .. MaxDepth]

Init ==
  /\ owner = [k \in Keys |-> None]
  /\ ttl = [k \in Keys |-> -TxTimeout]
  /\ lock = [k \in Keys |-> None]
  /\ pc = [o \in Owners |-> "idle"]
  /\ op = [o \in Owners |-> "acquire"]
  /\ want = [o \in Owners |-> {}]
  /\ todo = [o \in Owners |-> {}]
  /\ done = [o \in Owners |-> {}]
  /\ age = [o \in Owners |-> 0]
  /\ depth = [o \in Owners |-> 0]

----------------------------------------------------------------------------
(* The statements of the open transaction of o on the row of k.              *)

\* Mutant: a transaction that waited compares with a time that is too late.
ExpiredSoon(o, k) == ttl[k] - age[o] <= 0

\* `leaseExpiresAt <= now`, now being the moment o's transaction began.
ExpiredAtStart(o, k) == ttl[k] + age[o] <= 0

\* The conditions under which the statement finds (or creates) its row.
Passes(o, k) ==
  \/ /\ op[o] = "acquire"
     /\ owner[k] \in {None, o} \/ ExpiredAtStart(o, k)
  \/ /\ op[o] = "renewAll"
     /\ owner[k] # None
     /\ owner[k] = o \/ ExpiredAtStart(o, k)
  \/ /\ op[o] \in {"renew", "nest", "fence"}
     /\ owner[k] = o
     /\ ~ExpiredAtStart(o, k)
  \/ /\ op[o] = "fenceAll"          \* compares with clock_timestamp()
     /\ owner[k] = o
     /\ ttl[k] > 0

\* Mutant: the keys are visited in the caller's order.
IsNextUnsorted(o, k) == k \in todo[o]

\* canonicalEntityLeaseKeys: a transaction visits its keys in canonical order.
IsNext(o, k) == k \in todo[o] /\ \A j \in todo[o] : k <= j

\* Mutant: the fence reads the row without FOR UPDATE.
RowFreeIgnoringFences(o, k) ==
  lock[k] \in {None, o} \cup {p \in Owners : op[p] \in {"fence", "fenceAll"}}

\* The row is free to be examined: nobody else's open transaction holds it.
RowFree(o, k) == lock[k] \in {None, o}

\* The transaction of o ends, committed or not: its row locks go.
EndTx(o) ==
  /\ lock' = [k \in Keys |-> IF lock[k] = o THEN None ELSE lock[k]]
  /\ op' = [op EXCEPT ![o] = "acquire"]
  /\ todo' = [todo EXCEPT ![o] = {}]
  /\ done' = [done EXCEPT ![o] = {}]
  /\ age' = [age EXCEPT ![o] = 0]

\* The operation o forgets its call: it returned, or its process died.
Forget(o) ==
  /\ want' = [want EXCEPT ![o] = {}]
  /\ depth' = [depth EXCEPT ![o] = 0]

Begin(o, kind, keys) ==
  /\ pc' = [pc EXCEPT ![o] = "tx"]
  /\ op' = [op EXCEPT ![o] = kind]
  /\ todo' = [todo EXCEPT ![o] = keys]
  /\ UNCHANGED <<leaseVars, lock, done, age>>

----------------------------------------------------------------------------
(* One operation's calls.                                                    *)

\* withEntityLease(s): a fresh token asks for a set of keys.
Start(o, keys) ==
  /\ pc[o] = "idle"
  /\ keys # {}
  /\ o \notin {owner[k] : k \in Keys}
  /\ Begin(o, "acquire", keys)
  /\ want' = [want EXCEPT ![o] = keys]
  /\ UNCHANGED depth

\* The transactions a holder opens: renewals, the fence in front of a mutation.
Renew(o) ==
  /\ pc[o] = "holding"
  /\ \E k \in want[o] : want[o] = {k}
  /\ Begin(o, "renew", want[o])
  /\ UNCHANGED callVars

RenewAll(o) ==
  /\ pc[o] = "holding"
  /\ Begin(o, "renewAll", want[o])
  /\ UNCHANGED callVars

\* A nested withEntityLease of the same chain, key and owner renews, not acquires.
Nest(o) ==
  /\ pc[o] = "holding"
  /\ \E k \in want[o] : want[o] = {k}
  /\ depth[o] < MaxDepth
  /\ Begin(o, "nest", want[o])
  /\ UNCHANGED callVars

Fence(o, k) ==
  /\ pc[o] = "holding"
  /\ k \in want[o]
  /\ Begin(o, "fence", {k})
  /\ UNCHANGED callVars

FenceAll(o) ==
  /\ pc[o] = "holding"
  /\ Begin(o, "fenceAll", want[o])
  /\ UNCHANGED callVars

\* One statement succeeds: the row is locked until the transaction ends.
Visit(o, k) ==
  /\ pc[o] = "tx"
  /\ IsNext(o, k)
  /\ RowFree(o, k)
  /\ Passes(o, k)
  /\ lock' = [lock EXCEPT ![k] = o]
  /\ todo' = [todo EXCEPT ![o] = @ \ {k}]
  /\ done' = [done EXCEPT ![o] = @ \cup {k}]
  /\ UNCHANGED <<leaseVars, pc, op, age, callVars>>

\* The transaction rolls back.  A failed acquisition throws before there is
\* anything to release; a failed renewal or fence throws out of the callback,
\* or out of a call the callback survives.
RollBack(o) ==
  /\ EndTx(o)
  /\ \/ /\ op[o] = "acquire"
        /\ pc' = [pc EXCEPT ![o] = "idle"]
        /\ Forget(o)
     \/ /\ op[o] # "acquire"
        /\ \E next \in {"holding", "releasing"} : pc' = [pc EXCEPT ![o] = next]
        /\ UNCHANGED callVars
  /\ UNCHANGED leaseVars

\* ENTITY_BUSY: the statement matches no row.
Busy(o, k) ==
  /\ pc[o] = "tx"
  /\ IsNext(o, k)
  /\ RowFree(o, k)
  /\ ~Passes(o, k)
  /\ RollBack(o)

\* A statement or the connection fails, or the transaction reaches its timeout.
Abort(o) == pc[o] = "tx" /\ RollBack(o)

\* The rows that a commit of o writes, and what it writes there.
Written(o) == IF op[o] \in {"fence", "fenceAll"} THEN {} ELSE done[o]

\* Mutant: every statement commits by itself.
CommitEarly(o) ==
  /\ pc[o] = "tx"
  /\ owner' = [k \in Keys |-> IF k \in Written(o) THEN o ELSE owner[k]]
  /\ ttl' = [k \in Keys |-> IF k \in Written(o) THEN TTL - age[o] ELSE ttl[k]]
  /\ EndTx(o)
  /\ pc' = [pc EXCEPT ![o] = "holding"]
  /\ depth' = [depth EXCEPT ![o] = IF op[o] = "nest" THEN @ + 1 ELSE @]
  /\ UNCHANGED want

\* Every statement passed: the rows are written, the expiry counted from `now`.
Commit(o) ==
  /\ pc[o] = "tx"
  /\ todo[o] = {}
  /\ owner' = [k \in Keys |-> IF k \in Written(o) THEN o ELSE owner[k]]
  /\ ttl' = [k \in Keys |-> IF k \in Written(o) THEN TTL - age[o] ELSE ttl[k]]
  /\ EndTx(o)
  /\ pc' = [pc EXCEPT ![o] = "holding"]
  /\ depth' = [depth EXCEPT ![o] = IF op[o] = "nest" THEN @ + 1 ELSE @]
  /\ UNCHANGED want

\* A nested call returns: it does not touch the row.
Unnest(o) ==
  /\ pc[o] = "holding"
  /\ depth[o] > 0
  /\ depth' = [depth EXCEPT ![o] = @ - 1]
  /\ UNCHANGED <<leaseVars, txVars, pc, want>>

\* The outermost callback returns or throws.
Finish(o) ==
  /\ pc[o] = "holding"
  /\ depth[o] = 0
  /\ pc' = [pc EXCEPT ![o] = "releasing"]
  /\ UNCHANGED <<leaseVars, txVars, callVars>>

\* Mutant: the release deletes the rows of its keys, whoever owns them.
ReleaseAnyOwner(o) ==
  /\ pc[o] = "releasing"
  /\ \A k \in want[o] : RowFree(o, k)
  /\ owner' = [k \in Keys |-> IF k \in want[o] THEN None ELSE owner[k]]
  /\ pc' = [pc EXCEPT ![o] = "idle"]
  /\ Forget(o)
  /\ UNCHANGED <<ttl, txVars>>

\* releaseEntityLease(s): delete the rows of want[o] that still name o.
Release(o) ==
  LET mine == {k \in want[o] : owner[k] = o} IN
  /\ pc[o] = "releasing"
  /\ \A k \in mine : RowFree(o, k)
  /\ owner' = [k \in Keys |-> IF k \in mine THEN None ELSE owner[k]]
  /\ ttl' = [k \in Keys |-> IF k \in mine THEN -TxTimeout ELSE ttl[k]]
  /\ pc' = [pc EXCEPT ![o] = "idle"]
  /\ Forget(o)
  /\ UNCHANGED txVars

\* The release fails; the failure is reported and the row is left to expire.
ReleaseFails(o) ==
  /\ pc[o] = "releasing"
  /\ pc' = [pc EXCEPT ![o] = "idle"]
  /\ Forget(o)
  /\ UNCHANGED <<leaseVars, txVars>>

\* The process dies: its connection drops, its rows stay, its token is never reused.
Crash(o) ==
  /\ pc[o] # "dead"
  /\ EndTx(o)
  /\ pc' = [pc EXCEPT ![o] = "dead"]
  /\ Forget(o)
  /\ UNCHANGED leaseVars

\* Time passes.  No transaction stays open past its timeout.
Tick ==
  /\ \A o \in Owners : pc[o] = "tx" => age[o] < TxTimeout
  /\ ttl' = [k \in Keys |-> IF ttl[k] > -TxTimeout THEN ttl[k] - 1 ELSE ttl[k]]
  /\ age' = [o \in Owners |-> IF pc[o] = "tx" THEN age[o] + 1 ELSE age[o]]
  /\ UNCHANGED <<owner, lock, pc, op, callVars, todo, done>>

Statement(o) == \E k \in Keys : Visit(o, k) \/ Busy(o, k)

Next ==
  \/ \E o \in Owners :
       \/ \E keys \in SUBSET Keys : Start(o, keys)
       \/ Renew(o) \/ RenewAll(o) \/ Nest(o) \/ FenceAll(o)
       \/ \E k \in Keys : Fence(o, k) \/ Visit(o, k) \/ Busy(o, k)
       \/ Abort(o) \/ Commit(o)
       \/ Unnest(o) \/ Finish(o) \/ Release(o) \/ ReleaseFails(o) \/ Crash(o)
  \/ Tick

\* Row locks are granted in the order they were asked for, and a transaction
\* whose statements have all passed commits.
Fairness ==
  \A o \in Owners : SF_vars(Statement(o)) /\ WF_vars(Commit(o))

SafetySpec == Init /\ [][Next]_vars

Spec == SafetySpec /\ Fairness

----------------------------------------------------------------------------
(* What the lease promises.                                                  *)

Rows(o) == {k \in Keys : owner[k] = o}

\* A row that a fence has locked still names the fencing operation when its
\* transaction ends: "an expired lease cannot be reclaimed across the caller's
\* mutation boundary" (fenceEntityLeaseOwnership), whatever expires meanwhile.
FencedRowKept ==
  \A o \in Owners :
    pc[o] = "tx" /\ op[o] \in {"fence", "fenceAll"}
      => \A k \in done[o] : owner[k] = o

\* Transactions that lock several rows never wait for one another in a ring
\* (canonicalEntityLeaseKeys makes every call visit them in one order).
Awaited(o) ==
  {p \in Owners \ {o} : \E k \in Keys : IsNext(o, k) /\ lock[k] = p}

NoWaitRing ==
  \A ring \in (SUBSET Owners) \ {{}} : \E o \in ring : Awaited(o) \cap ring = {}

\* Another operation replaces the owner of a row only when that lease has run
\* out, although takers compare with the time their transaction began and a
\* renewal may commit while they wait.
TakeoverOnlyAfterExpiry ==
  [][\A k \in Keys :
       owner[k] # None /\ owner'[k] \notin {owner[k], None} => ttl[k] <= 0]_vars

\* An operation gains rows for all the keys it asked for or for none of them
\* (acquireEntityLeases and renewEntityLeases write in one transaction).
AllKeysOrNone ==
  [][\A o \in Owners : Rows(o)' \ Rows(o) # {} => want[o] \subseteq Rows(o)']_vars

\* A row disappears only when the operation it names is done with its outermost
\* call: not at the end of a nested call, and never by the late release of an
\* operation that lost the row to another one.
RemovedByItsOwnerAtTheEnd ==
  [][\A k \in Keys :
       owner[k] # None /\ owner'[k] = None => pc[owner[k]] = "releasing"]_vars

\* A transaction never waits for ever: with the rows handed out in the order
\* they are asked for it commits or fails, without its timeout's help.
EveryTransactionEnds == \A o \in Owners : pc[o] = "tx" ~> pc[o] # "tx"
============================================================================
