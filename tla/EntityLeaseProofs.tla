------------------------- MODULE EntityLeaseProofs -------------------------
(* Proofs about EntityLease for any set of operations and any finite set of   *)
(* entities.  They all rest on one inductive invariant, whose heart is that a *)
(* row can only change under the lock of the transaction that changes it, so  *)
(* what a statement saw of its row stays true until that transaction ends.    *)
EXTENDS EntityLease, WellFoundedInduction, TLAPS

\* A transaction holds the row locks of the keys whose statements have passed,
\* and nobody else holds one.
LocksMatch ==
  \A o \in Owners, k \in Keys : lock[k] = o <=> k \in done[o]

OnlyOpenTransactions ==
  \A o \in Owners : pc[o] # "tx" => todo[o] = {} /\ done[o] = {} /\ age[o] = 0

\* A transaction has passed the keys below those it still has to reach.
InOrder ==
  \A o \in Owners : \A j \in done[o], k \in todo[o] : j < k

\* A transaction that will write rows covers all the keys of its lease.
Covers ==
  \A o \in Owners :
    pc[o] = "tx" /\ op[o] \notin {"fence", "fenceAll"}
      => want[o] \subseteq todo[o] \cup done[o]

\* What a statement saw of its row still holds.
SeenHolds ==
  \A o \in Owners : \A k \in done[o] :
    \/ owner[k] = o
    \/ /\ op[o] \in {"acquire", "renewAll"}
       /\ owner[k] = None \/ ttl[k] + age[o] <= 0

\* A nested call begins only within the bound on nesting.
NestFits ==
  \A o \in Owners : pc[o] = "tx" /\ op[o] = "nest" => depth[o] < MaxDepth

IInv ==
  /\ TypeOK
  /\ LocksMatch
  /\ OnlyOpenTransactions
  /\ InOrder
  /\ Covers
  /\ SeenHolds
  /\ NestFits

----------------------------------------------------------------------------
(* The invariant is inductive.                                               *)

LEMMA InitIInv == Init => IInv
  BY NoneAssumption, TimeAssumption, DepthAssumption
     DEF Init, IInv, TypeOK, LocksMatch, OnlyOpenTransactions, InOrder, Covers,
         SeenHolds, NestFits, Kinds

\* Opening a transaction: nothing is locked or passed yet.
LEMMA BeginIInv ==
  ASSUME IInv, NEW o \in Owners, NEW kind \in Kinds, NEW keys \in SUBSET Keys,
         pc[o] # "tx", Begin(o, kind, keys),
         want' \in [Owners -> SUBSET Keys],
         \A p \in Owners \ {o} : want'[p] = want[p],
         kind \in {"fence", "fenceAll"} \/ want'[o] = keys,
         kind = "nest" => depth[o] < MaxDepth, depth' = depth
  PROVE  IInv'
<1> USE DEF Begin, leaseVars
<1>1. TypeOK'
  BY DEF IInv, TypeOK
<1>2. LocksMatch'
  BY DEF IInv, LocksMatch
<1>3. OnlyOpenTransactions'
  BY DEF IInv, TypeOK, OnlyOpenTransactions
<1>4. InOrder'
  BY DEF IInv, TypeOK, OnlyOpenTransactions, InOrder
<1>5. Covers'
  BY DEF IInv, TypeOK, Covers
<1>6. SeenHolds'
  BY DEF IInv, TypeOK, OnlyOpenTransactions, SeenHolds
<1>7. NestFits'
  BY DEF IInv, TypeOK, NestFits
<1> QED
  BY <1>1, <1>2, <1>3, <1>4, <1>5, <1>6, <1>7 DEF IInv

LEMMA VisitIInv ==
  ASSUME IInv, NEW o \in Owners, NEW k \in Keys, Visit(o, k)
  PROVE  IInv'
<1> USE DEF Visit, leaseVars, callVars
<1>1. TypeOK'
  BY DEF IInv, TypeOK
<1>2. LocksMatch'
  BY NoneAssumption DEF IInv, TypeOK, LocksMatch, RowFree
<1>3. OnlyOpenTransactions'
  BY DEF IInv, TypeOK, OnlyOpenTransactions
<1>4. InOrder'
  BY KeysAssumption DEF IInv, TypeOK, InOrder, IsNext
<1>5. Covers'
  BY DEF IInv, TypeOK, Covers, IsNext
<1>6. SeenHolds'
  BY DEF IInv, TypeOK, SeenHolds, Passes, ExpiredAtStart
<1>7. NestFits'
  BY DEF IInv, TypeOK, NestFits
<1> QED
  BY <1>1, <1>2, <1>3, <1>4, <1>5, <1>6, <1>7 DEF IInv

\* Ending a transaction without writing a row.
LEMMA EndIInv ==
  ASSUME IInv, NEW o \in Owners, EndTx(o), UNCHANGED leaseVars,
         NEW next \in {"idle", "holding", "releasing", "dead"},
         pc' = [pc EXCEPT ![o] = next],
         Forget(o) \/ UNCHANGED callVars
  PROVE  IInv'
<1> USE DEF EndTx, leaseVars, callVars, Forget
<1>1. TypeOK'
  BY TimeAssumption, DepthAssumption DEF IInv, TypeOK, Kinds
<1>2. LocksMatch'
  BY NoneAssumption DEF IInv, TypeOK, LocksMatch
<1>3. OnlyOpenTransactions'
  BY DEF IInv, TypeOK, OnlyOpenTransactions
<1>4. InOrder'
  BY DEF IInv, TypeOK, InOrder
<1>5. Covers'
  BY DEF IInv, TypeOK, Covers
<1>6. SeenHolds'
  BY DEF IInv, TypeOK, SeenHolds
<1>7. NestFits'
  BY DEF IInv, TypeOK, NestFits
<1> QED
  BY <1>1, <1>2, <1>3, <1>4, <1>5, <1>6, <1>7 DEF IInv

LEMMA CommitIInv ==
  ASSUME IInv, NEW o \in Owners, Commit(o)
  PROVE  IInv'
<1> USE DEF Commit, EndTx
<1>0. TTL - age[o] \in -TxTimeout .. TTL
  BY TimeAssumption DEF IInv, TypeOK
<1>1. TypeOK'
  BY <1>0, TimeAssumption, DepthAssumption DEF IInv, TypeOK, NestFits, Kinds, Written
<1>2. LocksMatch'
  BY NoneAssumption DEF IInv, TypeOK, LocksMatch
<1>3. OnlyOpenTransactions'
  BY DEF IInv, TypeOK, OnlyOpenTransactions
<1>4. InOrder'
  BY DEF IInv, TypeOK, InOrder
<1>5. Covers'
  BY DEF IInv, TypeOK, Covers
<1>6. SeenHolds'
  <2>1. \A p \in Owners \ {o}, k \in Keys :
          k \in done[p] => k \notin Written(o)
    BY DEF IInv, TypeOK, LocksMatch, Written
  <2> QED
    BY <2>1 DEF IInv, TypeOK, SeenHolds
<1>7. NestFits'
  BY DEF IInv, TypeOK, NestFits
<1> QED
  BY <1>1, <1>2, <1>3, <1>4, <1>5, <1>6, <1>7 DEF IInv

LEMMA ReleaseIInv ==
  ASSUME IInv, NEW o \in Owners, Release(o)
  PROVE  IInv'
<1> DEFINE mine == {k \in want[o] : owner[k] = o}
<1> USE DEF Release, txVars, Forget
<1>0. \A p \in Owners, k \in Keys : k \in done[p] => k \notin mine
  <2> SUFFICES ASSUME NEW p \in Owners, NEW k \in Keys, k \in done[p], k \in mine
               PROVE  FALSE
    OBVIOUS
  <2>1. lock[k] = p
    BY DEF IInv, LocksMatch
  <2>2. p = o
    BY <2>1, NoneAssumption DEF RowFree
  <2> QED
    BY <2>2 DEF IInv, OnlyOpenTransactions
<1>1. TypeOK'
  BY TimeAssumption, DepthAssumption DEF IInv, TypeOK
<1>2. LocksMatch'
  BY DEF IInv, LocksMatch
<1>3. OnlyOpenTransactions'
  BY DEF IInv, TypeOK, OnlyOpenTransactions
<1>4. InOrder'
  BY DEF IInv, InOrder
<1>5. Covers'
  BY DEF IInv, TypeOK, Covers
<1>6. SeenHolds'
  BY <1>0 DEF IInv, TypeOK, SeenHolds
<1>7. NestFits'
  BY DEF IInv, TypeOK, NestFits
<1> QED
  BY <1>1, <1>2, <1>3, <1>4, <1>5, <1>6, <1>7 DEF IInv

LEMMA TickIInv ==
  ASSUME IInv, Tick
  PROVE  IInv'
<1> USE DEF Tick, callVars
<1>1. TypeOK'
  BY TimeAssumption DEF IInv, TypeOK
<1>2. LocksMatch'
  BY DEF IInv, LocksMatch
<1>3. OnlyOpenTransactions'
  BY DEF IInv, TypeOK, OnlyOpenTransactions
<1>4. InOrder'
  BY DEF IInv, InOrder
<1>5. Covers'
  BY DEF IInv, Covers
<1>6. SeenHolds'
  <2> SUFFICES ASSUME NEW o \in Owners, NEW k \in done[o], owner[k] # o, owner[k] # None
               PROVE  ttl'[k] + age'[o] <= 0
    BY DEF IInv, TypeOK, SeenHolds
  <2>1. ttl[k] + age[o] <= 0 /\ k \in Keys
    BY DEF IInv, TypeOK, SeenHolds
  <2>2. pc[o] = "tx" /\ age[o] < TxTimeout
    BY DEF IInv, OnlyOpenTransactions
  <2> QED
    BY <2>1, <2>2, TimeAssumption DEF IInv, TypeOK
<1>7. NestFits'
  BY DEF IInv, NestFits
<1> QED
  BY <1>1, <1>2, <1>3, <1>4, <1>5, <1>6, <1>7 DEF IInv

\* Steps of a call that change neither rows nor transactions.
LEMMA CallIInv ==
  ASSUME IInv, NEW o \in Owners, pc[o] # "tx",
         NEW next \in {"idle", "holding", "releasing"},
         pc' = [pc EXCEPT ![o] = next],
         UNCHANGED <<leaseVars, txVars>>,
         want' \in [Owners -> SUBSET Keys],
         depth' \in [Owners -> 0 .. MaxDepth],
         \A p \in Owners \ {o} : want'[p] = want[p] /\ depth'[p] = depth[p]
  PROVE  IInv'
<1> USE DEF leaseVars, txVars
<1>1. TypeOK'
  BY DEF IInv, TypeOK
<1>2. LocksMatch'
  BY DEF IInv, LocksMatch
<1>3. OnlyOpenTransactions'
  BY DEF IInv, TypeOK, OnlyOpenTransactions
<1>4. InOrder'
  BY DEF IInv, InOrder
<1>5. Covers'
  BY DEF IInv, TypeOK, Covers
<1>6. SeenHolds'
  BY DEF IInv, SeenHolds
<1>7. NestFits'
  BY DEF IInv, TypeOK, NestFits
<1> QED
  BY <1>1, <1>2, <1>3, <1>4, <1>5, <1>6, <1>7 DEF IInv

LEMMA NextIInv == IInv /\ [Next]_vars => IInv'
<1> SUFFICES ASSUME IInv, [Next]_vars PROVE IInv'
  OBVIOUS
<1>0. TypeOK
  BY DEF IInv
<1>1. ASSUME NEW o \in Owners, NEW keys \in SUBSET Keys, Start(o, keys)
      PROVE  IInv'
  <2>1. want' \in [Owners -> SUBSET Keys]
    BY <1>0, <1>1 DEF Start, TypeOK
  <2>2. want'[o] = keys /\ \A p \in Owners \ {o} : want'[p] = want[p]
    BY <1>0, <1>1 DEF Start, TypeOK
  <2> QED
    BY <1>1, <2>1, <2>2, BeginIInv DEF Start, Kinds
<1>2. ASSUME NEW o \in Owners, Renew(o) \/ RenewAll(o) \/ Nest(o) \/ FenceAll(o)
      PROVE  IInv'
  BY <1>0, <1>2, BeginIInv
     DEF Renew, RenewAll, Nest, FenceAll, TypeOK, Kinds, callVars
<1>3. ASSUME NEW o \in Owners, NEW k \in Keys, Fence(o, k) PROVE IInv'
  BY <1>0, <1>3, BeginIInv DEF Fence, TypeOK, Kinds, callVars
<1>4. ASSUME NEW o \in Owners, NEW k \in Keys, Visit(o, k) PROVE IInv'
  BY <1>4, VisitIInv
<1>5. ASSUME NEW o \in Owners, RollBack(o) PROVE IInv'
  BY <1>5, EndIInv DEF RollBack
<1>6. ASSUME NEW o \in Owners, Commit(o) PROVE IInv'
  BY <1>6, CommitIInv
<1>7. ASSUME NEW o \in Owners, Unnest(o) PROVE IInv'
  <2>1. depth' \in [Owners -> 0 .. MaxDepth]
    BY <1>0, <1>7, DepthAssumption DEF Unnest, TypeOK
  <2>2. pc' = [pc EXCEPT ![o] = "holding"]
    BY <1>0, <1>7 DEF Unnest, TypeOK
  <2> QED
    BY <1>0, <1>7, <2>1, <2>2, CallIInv DEF Unnest, TypeOK
<1>8. ASSUME NEW o \in Owners, Finish(o) PROVE IInv'
  BY <1>0, <1>8, CallIInv DEF Finish, TypeOK, callVars
<1>9. ASSUME NEW o \in Owners, Release(o) PROVE IInv'
  BY <1>9, ReleaseIInv
<1>10. ASSUME NEW o \in Owners, ReleaseFails(o) PROVE IInv'
  <2>1. /\ depth' \in [Owners -> 0 .. MaxDepth]
        /\ want' \in [Owners -> SUBSET Keys]
        /\ \A p \in Owners \ {o} : want'[p] = want[p] /\ depth'[p] = depth[p]
    BY <1>0, <1>10, DepthAssumption DEF ReleaseFails, TypeOK, Forget
  <2> QED
    BY <1>10, <2>1, CallIInv DEF ReleaseFails
<1>11. ASSUME NEW o \in Owners, Crash(o) PROVE IInv'
  BY <1>11, EndIInv DEF Crash
<1>12. CASE Tick
  BY <1>12, TickIInv
<1>13. CASE UNCHANGED vars
  BY <1>13 DEF vars, IInv, TypeOK, LocksMatch, OnlyOpenTransactions, InOrder,
               Covers, SeenHolds, NestFits
<1> QED
  BY <1>1, <1>2, <1>3, <1>4, <1>5, <1>6, <1>7, <1>8, <1>9, <1>10, <1>11, <1>12,
     <1>13 DEF Next, Busy, Abort

THEOREM Inductive == SafetySpec => []IInv
  BY InitIInv, NextIInv, PTL DEF SafetySpec

----------------------------------------------------------------------------
(* What follows from it.                                                     *)

\* The variables keep their types: lease times stay between -TxTimeout and TTL,
\* and no transaction outlives its timeout.
THEOREM TypeCorrect == SafetySpec => []TypeOK
  BY Inductive, PTL DEF IInv

\* A fenced mutation runs entirely under the lease it was fenced with: the row
\* names the fencing operation until its transaction has ended.
THEOREM FenceSafe == SafetySpec => []FencedRowKept
<1>1. IInv => FencedRowKept
  BY DEF IInv, SeenHolds, FencedRowKept
<1> QED
  BY <1>1, Inductive, PTL

\* Nobody loses a lease that has not run out.
THEOREM NoEarlyTakeover == SafetySpec => TakeoverOnlyAfterExpiry
<1> DEFINE Kept ==
      \A k \in Keys :
        owner[k] # None /\ owner'[k] \notin {owner[k], None} => ttl[k] <= 0
<1>1. IInv /\ [Next]_vars => Kept
  <2> SUFFICES ASSUME IInv, [Next]_vars, NEW k \in Keys, owner[k] # None,
                      owner'[k] # owner[k], owner'[k] # None
               PROVE  ttl[k] <= 0
    OBVIOUS
  <2>1. PICK o \in Owners : Commit(o) \/ Release(o)
    BY DEF Next, vars, leaseVars, Start, Begin, Renew, RenewAll, Nest, Fence,
           FenceAll, Visit, Busy, Abort, RollBack, Unnest, Finish, ReleaseFails,
           Crash, Tick
  <2>2. CASE Commit(o)
    <3>1. k \in done[o] /\ owner[k] # o
      BY <2>2 DEF Commit, Written, IInv, TypeOK
    <3>2. ttl[k] + age[o] <= 0
      BY <3>1 DEF IInv, SeenHolds
    <3> QED
      BY <3>2, TimeAssumption DEF IInv, TypeOK
  <2>3. CASE Release(o)
    BY <2>3 DEF Release
  <2> QED
    BY <2>1, <2>2, <2>3
<1> QED
  BY <1>1, Inductive, PTL DEF SafetySpec, TakeoverOnlyAfterExpiry

\* Leases over several entities are taken and renewed all together or not at all.
THEOREM AllOrNone == SafetySpec => AllKeysOrNone
<1> DEFINE Whole ==
      \A o \in Owners : Rows(o)' \ Rows(o) # {} => want[o] \subseteq Rows(o)'
<1>1. IInv /\ [Next]_vars => Whole
  <2> SUFFICES ASSUME IInv, [Next]_vars, NEW p \in Owners,
                      NEW k \in Keys, owner'[k] = p, owner[k] # p
               PROVE  want[p] \subseteq Rows(p)'
    BY DEF Rows
  <2>1. PICK o \in Owners : Commit(o) \/ Release(o)
    BY DEF Next, vars, leaseVars, Start, Begin, Renew, RenewAll, Nest, Fence,
           FenceAll, Visit, Busy, Abort, RollBack, Unnest, Finish, ReleaseFails,
           Crash, Tick
  <2>2. CASE Commit(o)
    <3>1. o = p /\ op[o] \notin {"fence", "fenceAll"}
      BY <2>2, NoneAssumption DEF Commit, Written, IInv, TypeOK
    <3>2. want[o] \subseteq done[o] /\ want[o] \subseteq Keys
      BY <2>2, <3>1 DEF Commit, IInv, Covers, TypeOK
    <3> QED
      BY <2>2, <3>1, <3>2 DEF Commit, Written, Rows
  <2>3. CASE Release(o)
    BY <2>3, NoneAssumption DEF Release
  <2> QED
    BY <2>1, <2>2, <2>3
<1> QED
  BY <1>1, Inductive, PTL DEF SafetySpec, AllKeysOrNone

\* A row disappears only through the release of the operation it names: a release
\* that comes after another operation took the row over leaves it alone, and a nested
\* call, a rollback or a crash removes nothing.
THEOREM RowsGoWithTheirOwner == SafetySpec => RemovedByItsOwnerAtTheEnd
<1> DEFINE AtTheEnd ==
      \A k \in Keys : owner[k] # None /\ owner'[k] = None => pc[owner[k]] = "releasing"
<1>1. IInv /\ [Next]_vars => AtTheEnd
  <2> SUFFICES ASSUME IInv, [Next]_vars, NEW k \in Keys, owner[k] # None, owner'[k] = None
               PROVE  pc[owner[k]] = "releasing"
    OBVIOUS
  <2>1. PICK o \in Owners : Commit(o) \/ Release(o)
    BY DEF Next, vars, leaseVars, Start, Begin, Renew, RenewAll, Nest, Fence,
           FenceAll, Visit, Busy, Abort, RollBack, Unnest, Finish, ReleaseFails,
           Crash, Tick
  <2>2. ~Commit(o)
    BY NoneAssumption DEF Commit
  <2>3. owner[k] = o
    BY <2>1, <2>2 DEF Release
  <2> QED
    BY <2>1, <2>2, <2>3 DEF Release
<1> QED
  BY <1>1, Inductive, PTL DEF SafetySpec, RemovedByItsOwnerAtTheEnd

\* No ring of transactions waiting for one another, for any number of them: along
\* a chain of waiting the awaited entity grows, and there is a last entity.
THEOREM DeadlockFree == SafetySpec => []NoWaitRing
<1>1. IInv => NoWaitRing
  <2> SUFFICES ASSUME IInv, NEW ring \in SUBSET Owners, ring # {},
                      \A o \in ring : Awaited(o) \cap ring # {}
               PROVE  FALSE
    BY DEF NoWaitRing
  <2>1. PICK last \in Keys : \A k \in Keys : k <= last
    BY KeysAssumption
  <2>2. last \in Nat /\ Keys \subseteq Nat
    BY KeysAssumption, <2>1
  <2> DEFINE gaps == {m \in Nat : \E o \in ring, k \in Keys : IsNext(o, k) /\ m = last - k}
  <2>3. \A o \in ring : \E k \in Keys : IsNext(o, k) /\ \E p \in ring : lock[k] = p
    BY DEF Awaited
  <2>4. ASSUME NEW o \in ring, NEW k \in Keys, IsNext(o, k) PROVE last - k \in gaps
    <3>1. last - k \in Nat
      BY <2>1, <2>2
    <3> QED
      BY <2>4, <3>1
  <2>5. gaps # {}
    BY <2>3, <2>4
  <2>6. PICK m \in gaps : \A n \in gaps : ~ (n < m)
    <3> DEFINE less == OpToRel(<, Nat)
    <3>1. IsWellFoundedOn(less, Nat)
      BY NatLessThanWellFounded, Zenon
    <3>2. ASSUME NEW n \in Nat, NEW l \in Nat, n < l PROVE <<n, l>> \in less
      BY <3>2 DEF OpToRel
    <3> HIDE DEF less
    <3>3. PICK m \in gaps : \A n \in gaps : ~ (<<n, m>> \in less)
      BY <2>5, <3>1, WFMin, Zenon
    <3> QED
      BY <3>2, <3>3
  <2>7. PICK o \in ring, k \in Keys : IsNext(o, k) /\ m = last - k
    OBVIOUS
  <2>8. PICK k2 \in Keys : IsNext(o, k2) /\ \E p \in ring : lock[k2] = p
    BY <2>3
  <2>9. k2 = k
    BY <2>2, <2>7, <2>8 DEF IsNext
  <2>10. PICK p \in ring : k \in done[p]
    BY <2>8, <2>9 DEF IInv, LocksMatch
  <2>11. PICK j \in Keys : IsNext(p, j)
    BY <2>3
  <2>12. k < j
    BY <2>10, <2>11 DEF IInv, InOrder, IsNext
  <2>13. last - j \in gaps /\ last - j < m
    BY <2>2, <2>4, <2>7, <2>11, <2>12
  <2> QED
    BY <2>6, <2>13
<1> QED
  BY <1>1, Inductive, PTL

============================================================================
