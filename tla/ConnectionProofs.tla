---------------------------- MODULE ConnectionProofs ----------------------------
(***************************************************************************)
(* Theorems of Connection, for any number of clients, callbacks, workers    *)
(* and tokens.  The argument: a token that is issued is new, and it is in   *)
(* one place at a time (with the actor that got it, in the row, or in the   *)
(* past), so the update that compares the row with the token a client has   *)
(* persisted last can tell one connection from the next.                    *)
(***************************************************************************)
EXTENDS Connection, TLAPS

\* What was stored was issued, the row's token is among it and so is every
\* token a client holds.
StoredIsIssued ==
    /\ stored \subseteq 1..issued
    /\ company.token # NoToken => company.token \in stored
    /\ \A c \in Clients : held[c] # NoToken => held[c] \in stored
    /\ \A c \in Clients : pc[c] # "closed" => held[c] # NoToken

\* Tokens on their way to the row were issued, to one actor each, and are not
\* stored yet.
FreshIsNew ==
    /\ \A a \in Clients \cup Callbacks :
          fresh[a] # NoToken => fresh[a] \in 1..issued /\ fresh[a] \notin stored
    /\ \A a, b \in Clients \cup Callbacks :
          a # b /\ fresh[a] # NoToken => fresh[a] # fresh[b]

\* A rotation descends from what its client holds, an exchange from its callback.
FreshDescends ==
    /\ \A c \in Clients :
          pc[c] = "rotated" =>
              /\ fresh[c] # NoToken
              /\ parent[fresh[c]] = held[c]
              /\ origin[fresh[c]] = origin[held[c]]
    /\ \A k \in Callbacks :
          pc[k] \in {"exchanged", "inspecting", "inspected"} =>
              fresh[k] # NoToken /\ origin[fresh[k]] = k

\* What is quarantined, claimed or revoked was stored, and is not in the row.
PastIsPast ==
    /\ records \subseteq stored \ {company.token}
    /\ revoked \subseteq stored \ {company.token}
    /\ \A w \in Workers : pc[w] # "off" => target[w] \in stored \ {company.token}

\* The callback of the session has published.
SessionIsDone == \A k \in Callbacks : session = k => pc[k] = "done"

\* The inductive invariant.
IInv ==
    /\ TypeOK /\ StoredIsIssued /\ FreshIsNew /\ FreshDescends /\ PastIsPast
    /\ SessionIsDone /\ StoredIsThisSession

LEMMA InitIInv == Init => IInv
<1> SUFFICES ASSUME Init PROVE IInv
  OBVIOUS
<1> USE NoneAssumption, ActorsAssumption, TokensAssumption DEF Init, NoToken
<1>1. TypeOK
  BY DEF TypeOK, Actors, Tokens, ClientStages, CallbackStages, WorkerStages
<1>2. StoredIsIssued /\ FreshIsNew
  BY DEF StoredIsIssued, FreshIsNew, Actors
<1>3. FreshDescends
  BY DEF FreshDescends, Actors
<1>4. PastIsPast
  BY DEF PastIsPast, Actors
<1>5. SessionIsDone /\ StoredIsThisSession
  BY DEF SessionIsDone, StoredIsThisSession
<1> QED
  BY <1>1, <1>2, <1>3, <1>4, <1>5 DEF IInv

\* Steps that neither issue nor store a token: they only drop fresh tokens, move
\* actors on, and take up or settle what is quarantined.
LEMMA QuietKeeps ==
    ASSUME IInv, TypeOK', UNCHANGED <<company, held, issued, parent, origin, session, stored>>,
           records' \subseteq records,
           revoked' \subseteq stored \ {company.token},
           \A a \in Clients \cup Callbacks : fresh'[a] \in {fresh[a], NoToken},
           \A c \in Clients :
              /\ pc'[c] # "closed" => pc[c] # "closed"
              /\ pc'[c] = "rotated" => pc[c] = "rotated" /\ fresh'[c] = fresh[c],
           \A k \in Callbacks :
              /\ pc'[k] \in {"exchanged", "inspecting", "inspected"} =>
                    pc[k] \in {"exchanged", "inspecting", "inspected"} /\ fresh'[k] = fresh[k]
              /\ pc[k] = "done" => pc'[k] = "done",
           \A w \in Workers : pc'[w] # "off" => target'[w] \in stored \ {company.token}
    PROVE  IInv'
<1>1. StoredIsIssued'
  BY DEF IInv, StoredIsIssued
<1>2. FreshIsNew'
  BY DEF IInv, FreshIsNew
<1>3. FreshDescends'
  BY DEF IInv, FreshDescends
<1>4. PastIsPast'
  BY DEF IInv, PastIsPast
<1>5. SessionIsDone' /\ StoredIsThisSession'
  BY DEF IInv, SessionIsDone, StoredIsThisSession
<1> QED
  BY <1>1, <1>2, <1>3, <1>4, <1>5 DEF IInv

\* A step moves one actor, which is of one kind.
LEMMA MoveIsLocal ==
    ASSUME TypeOK, NEW a \in Actors, NEW from, NEW to, Moves(a, from, to),
           a \in Clients => to \in ClientStages,
           a \in Callbacks => to \in CallbackStages,
           a \in Workers => to \in WorkerStages
    PROVE  /\ pc[a] = from /\ pc'[a] = to
           /\ \A b \in Actors : b # a => pc'[b] = pc[b]
           /\ a \in Clients => a \notin Callbacks /\ a \notin Workers
           /\ a \in Callbacks => a \notin Clients /\ a \notin Workers
           /\ a \in Workers => a \notin Clients /\ a \notin Callbacks
           /\ pc' \in [Actors -> ClientStages \cup CallbackStages \cup WorkerStages]
           /\ \A c \in Clients : pc'[c] \in ClientStages
           /\ \A k \in Callbacks : pc'[k] \in CallbackStages
           /\ \A w \in Workers : pc'[w] \in WorkerStages
  BY ActorsAssumption DEF Moves, TypeOK, Actors

\* A client opens with a token that is stored.
LEMMA OpenKeeps == ASSUME IInv, NEW c \in Clients, Open(c) PROVE IInv'
  BY NoneAssumption, ActorsAssumption, TokensAssumption
  DEF IInv, StoredIsIssued, FreshIsNew, FreshDescends, PastIsPast, SessionIsDone,
      StoredIsThisSession, Open, TypeOK, Moves, NoToken, Tokens, Actors, ClientStages, CallbackStages, WorkerStages, intuit

\* A refresh begins, or comes to nothing.
LEMMA RefreshKeeps == ASSUME IInv, NEW c \in Clients, Refresh(c) PROVE IInv'
<1>1. TypeOK'
  BY ActorsAssumption, TokensAssumption, NoneAssumption
  DEF TypeOK, Moves, NoToken, Tokens, Actors, ClientStages, CallbackStages, WorkerStages, intuit,
      IInv, Refresh
<1>2. /\ c \in Actors
      /\ \A b \in Actors : b # c => pc'[b] = pc[b]
      /\ pc[c] = "ready" /\ pc'[c] = "granting"
  BY ActorsAssumption DEF Refresh, Moves, IInv, TypeOK, Actors
<1> QED
  BY <1>1, <1>2, QuietKeeps, ActorsAssumption
  DEF Refresh, IInv, PastIsPast, intuit, Actors, NoToken, TypeOK

LEMMA RefreshFailsKeeps == ASSUME IInv, NEW c \in Clients, RefreshFails(c) PROVE IInv'
<1>1. TypeOK'
  BY ActorsAssumption, TokensAssumption, NoneAssumption
  DEF TypeOK, Moves, NoToken, Tokens, Actors, ClientStages, CallbackStages, WorkerStages, intuit,
      IInv, RefreshFails
<1>2. /\ c \in Actors
      /\ \A b \in Actors : b # c => pc'[b] = pc[b]
      /\ pc[c] = "granting" /\ pc'[c] = "ready"
  BY ActorsAssumption DEF RefreshFails, Moves, IInv, TypeOK, Actors
<1> QED
  BY <1>1, <1>2, QuietKeeps, ActorsAssumption
  DEF RefreshFails, IInv, PastIsPast, intuit, Actors, NoToken, TypeOK

LEMMA PersistRefusedKeeps == ASSUME IInv, NEW c \in Clients, PersistRefused(c) PROVE IInv'
<1>1. TypeOK'
  BY ActorsAssumption, TokensAssumption, NoneAssumption
  DEF TypeOK, Moves, NoToken, Tokens, Actors, ClientStages, CallbackStages, WorkerStages, intuit,
      IInv, PersistRefused
<1>2. /\ c \in Actors
      /\ \A b \in Actors : b # c => pc'[b] = pc[b]
      /\ pc[c] = "rotated" /\ pc'[c] = "ready"
  BY ActorsAssumption DEF PersistRefused, Moves, IInv, TypeOK, Actors
<1> QED
  BY <1>1, <1>2, QuietKeeps, ActorsAssumption
  DEF PersistRefused, IInv, PastIsPast, intuit, Actors, NoToken, TypeOK

LEMMA CloseKeeps == ASSUME IInv, NEW c \in Clients, Close(c) PROVE IInv'
<1>1. TypeOK'
  BY ActorsAssumption, TokensAssumption, NoneAssumption
  DEF TypeOK, Moves, NoToken, Tokens, Actors, ClientStages, CallbackStages, WorkerStages, intuit,
      IInv, Close
<1>2. /\ c \in Actors
      /\ \A b \in Actors : b # c => pc'[b] = pc[b]
      /\ pc'[c] = "closed"
  BY ActorsAssumption DEF Close, Moves, IInv, TypeOK, Actors
<1> QED
  BY <1>1, <1>2, QuietKeeps, ActorsAssumption
  DEF Close, IInv, PastIsPast, intuit, Actors, NoToken, TypeOK

\* A token that Intuit issues is above all the others.
LEMMA IssueIsNew ==
    ASSUME IInv, NEW a \in Clients \cup Callbacks, NEW from, NEW callback, NEW src, NEW to,
           Issue(a, from, callback), Moves(a, src, to),
           stored' = stored
    PROVE  /\ fresh'[a] = issued + 1 /\ issued + 1 \in Tokens /\ issued' = issued + 1
           /\ parent'[issued + 1] = from /\ origin'[issued + 1] = callback
           /\ \A t \in 1..issued : parent'[t] = parent[t] /\ origin'[t] = origin[t]
           /\ FreshIsNew'
<1> USE TokensAssumption DEF Issue, IInv, TypeOK, Tokens, NoToken
<1>1. issued + 1 \in Tokens /\ issued' = issued + 1
  OBVIOUS
<1>2. fresh'[a] = issued + 1 /\ \A b \in Clients \cup Callbacks : b # a => fresh'[b] = fresh[b]
  BY <1>1
<1>3. FreshIsNew'
  <2>1. \A t \in stored : t \in 1..issued
    BY DEF StoredIsIssued
  <2>2. \A b \in Clients \cup Callbacks : fresh[b] # NoToken => fresh[b] \in 1..issued
    BY DEF FreshIsNew
  <2>3. issued + 1 \notin 1..issued /\ 1..issued \subseteq 1..(issued + 1)
    OBVIOUS
  <2> QED
    BY <1>1, <1>2, <2>1, <2>2, <2>3 DEF FreshIsNew
<1> QED
  BY <1>1, <1>2, <1>3

LEMMA RotateKeeps == ASSUME IInv, NEW c \in Clients, Rotate(c) PROVE IInv'
<1>1. /\ fresh'[c] = issued + 1 /\ issued + 1 \in Tokens /\ issued' = issued + 1
      /\ parent'[issued + 1] = held[c] /\ origin'[issued + 1] = origin[held[c]]
      /\ \A t \in 1..issued : parent'[t] = parent[t] /\ origin'[t] = origin[t]
      /\ FreshIsNew'
  BY IssueIsNew DEF Rotate
<1>2. /\ held[c] \in 1..issued
      /\ \A b \in Clients \cup Callbacks : b # c => fresh'[b] = fresh[b]
  BY DEF Rotate, Issue, Moves, IInv, StoredIsIssued, TypeOK, Tokens, NoToken
<1>3. /\ c \notin Callbacks /\ c \notin Workers
      /\ \A a \in Actors : a # c => pc'[a] = pc[a]
  BY ActorsAssumption DEF Rotate, Moves, IInv, TypeOK
<1>4. TypeOK'
  BY <1>1, <1>2, ActorsAssumption, TokensAssumption
  DEF Rotate, Issue, Moves, IInv, TypeOK, Tokens, NoToken, Actors, ClientStages, CallbackStages,
      WorkerStages
<1>5. StoredIsIssued'
  BY <1>1, TokensAssumption DEF Rotate, Moves, IInv, StoredIsIssued, TypeOK, NoToken, Actors
<1>6. FreshDescends'
  <2>1. ASSUME NEW d \in Clients, pc'[d] = "rotated"
        PROVE  /\ fresh'[d] # NoToken /\ parent'[fresh'[d]] = held'[d]
               /\ origin'[fresh'[d]] = origin'[held'[d]]
    <3>1. CASE d = c
      BY <1>1, <1>2, <3>1, TokensAssumption DEF Rotate, Tokens, NoToken
    <3>2. CASE d # c
      <4>1. pc[d] = "rotated" /\ fresh'[d] = fresh[d] /\ held'[d] = held[d]
        BY <1>2, <1>3, <2>1, <3>2 DEF Rotate, Actors
      <4>2. fresh[d] # NoToken /\ fresh[d] \in 1..issued /\ held[d] \in 1..issued
        BY <4>1 DEF IInv, FreshDescends, FreshIsNew, StoredIsIssued, NoToken
      <4> QED
        BY <1>1, <4>1, <4>2 DEF IInv, FreshDescends
    <3> QED
      BY <3>1, <3>2
  <2>2. ASSUME NEW k \in Callbacks, pc'[k] \in {"exchanged", "inspecting", "inspected"}
        PROVE  fresh'[k] # NoToken /\ origin'[fresh'[k]] = k
    BY <1>1, <1>2, <1>3, <2>2 DEF IInv, FreshDescends, FreshIsNew, NoToken, Actors
  <2> QED
    BY <2>1, <2>2 DEF FreshDescends
<1>7. PastIsPast' /\ SessionIsDone'
  BY <1>3 DEF Rotate, Issue, IInv, PastIsPast, SessionIsDone, Actors
<1>8. StoredIsThisSession'
  BY <1>1 DEF Rotate, IInv, StoredIsThisSession, StoredIsIssued, NoToken
<1> QED
  BY <1>1, <1>4, <1>5, <1>6, <1>7, <1>8 DEF IInv

\* The row takes the token of the rotation made with the token it holds.
LEMMA PersistKeeps == ASSUME IInv, NEW c \in Clients, Persist(c) PROVE IInv'
<1>1. /\ pc[c] = "rotated" /\ pc'[c] = "ready" /\ c \in Actors
      /\ \A b \in Actors : b # c => pc'[b] = pc[b]
      /\ c \notin Callbacks /\ c \notin Workers
      /\ pc' \in [Actors -> ClientStages \cup CallbackStages \cup WorkerStages]
      /\ \A d \in Clients : pc'[d] \in ClientStages
      /\ \A k \in Callbacks : pc'[k] \in CallbackStages
      /\ \A w \in Workers : pc'[w] \in WorkerStages
  <2>1. Moves(c, "rotated", "ready") /\ c \in Actors
    BY DEF Persist, Actors
  <2> QED
    BY <2>1, MoveIsLocal, ActorsAssumption DEF IInv, ClientStages, CallbackStages
<1>2. /\ fresh[c] \in 1..issued /\ fresh[c] \in Tokens /\ fresh[c] \notin stored
      /\ fresh[c] # NoToken
      /\ \A b \in Clients \cup Callbacks : b # c => fresh'[b] = fresh[b] /\ fresh[b] # fresh[c]
      /\ fresh'[c] = NoToken
  BY <1>1, TokensAssumption DEF Persist, IInv, FreshIsNew, FreshDescends, TypeOK, Tokens, NoToken
<1>3. company'.token = fresh[c] /\ stored' = stored \cup {fresh[c]} /\ company'.connected
  BY DEF Persist, SameConnection, IInv, TypeOK
<1>4. TypeOK'
  <2>1. company' \in [exists : BOOLEAN, connected : BOOLEAN, token : Tokens \cup {NoToken}]
    BY <1>2 DEF Persist, IInv, TypeOK
  <2>2. fresh' \in [Clients \cup Callbacks -> Tokens \cup {NoToken}]
    BY DEF Persist, IInv, TypeOK
  <2>3. held' \in [Clients -> Tokens \cup {NoToken}] /\ stored' \subseteq Tokens
        /\ records' \subseteq Tokens
    BY <1>2 DEF Persist, IInv, TypeOK
  <2> QED
    BY <1>1, <2>1, <2>2, <2>3 DEF Persist, IInv, TypeOK, intuit
<1>5. StoredIsIssued'
  BY <1>1, <1>2, <1>3 DEF Persist, IInv, StoredIsIssued, TypeOK, NoToken, Actors, intuit
<1>6. FreshIsNew'
  BY <1>2, <1>3 DEF Persist, IInv, FreshIsNew, NoToken, intuit
<1>7. FreshDescends'
  BY <1>1, <1>2 DEF Persist, IInv, FreshDescends, TypeOK, Actors, intuit
<1>8. PastIsPast'
  BY <1>1, <1>2, <1>3 DEF Persist, IInv, PastIsPast, StoredIsIssued, Actors, intuit
<1>9. SessionIsDone'
  BY <1>1 DEF Persist, IInv, SessionIsDone, Actors
<1>10. StoredIsThisSession'
  <2>1. held[c] # NoToken /\ held[c] = company.token
    BY <1>1 DEF Persist, SameConnection, IInv, StoredIsIssued
  <2> QED
    BY <1>1, <1>3, <2>1 DEF Persist, IInv, StoredIsThisSession, FreshDescends, intuit
<1> QED
  BY <1>4, <1>5, <1>6, <1>7, <1>8, <1>9, <1>10 DEF IInv

\* An exchange, or the rotation during the probe, issues a token of the callback.
LEMMA IssueToCallbackKeeps ==
    ASSUME IInv, NEW k \in Callbacks, NEW from \in Tokens \cup {NoToken},
           NEW src \in CallbackStages, NEW to \in {"exchanged", "inspected"},
           src # "done",
           Issue(k, from, k), Moves(k, src, to),
           UNCHANGED <<company, held, sawRow, target, records, claim, session, stored, losses>>
    PROVE  IInv'
<1>1. /\ fresh'[k] = issued + 1 /\ issued + 1 \in Tokens /\ issued' = issued + 1
      /\ parent'[issued + 1] = from /\ origin'[issued + 1] = k
      /\ \A t \in 1..issued : parent'[t] = parent[t] /\ origin'[t] = origin[t]
      /\ FreshIsNew'
  BY IssueIsNew
<1>2. \A b \in Clients \cup Callbacks : b # k => fresh'[b] = fresh[b]
  BY DEF Issue, IInv, TypeOK
<1>3. /\ k \notin Clients /\ k \notin Workers
      /\ pc[k] = src /\ pc'[k] = to
      /\ \A a \in Actors : a # k => pc'[a] = pc[a]
  BY ActorsAssumption DEF Moves, IInv, TypeOK, Actors
<1>4. TypeOK'
  BY <1>1, <1>2, ActorsAssumption, TokensAssumption
  DEF Issue, Moves, IInv, TypeOK, Tokens, NoToken, Actors, ClientStages, CallbackStages,
      WorkerStages
<1>5. StoredIsIssued'
  BY <1>1, <1>3, TokensAssumption DEF IInv, StoredIsIssued, TypeOK, NoToken, Actors
<1>6. FreshDescends'
  <2>1. ASSUME NEW d \in Clients, pc'[d] = "rotated"
        PROVE  /\ fresh'[d] # NoToken /\ parent'[fresh'[d]] = held'[d]
               /\ origin'[fresh'[d]] = origin'[held'[d]]
    <3>1. pc[d] = "rotated" /\ fresh'[d] = fresh[d] /\ held'[d] = held[d]
      BY <1>2, <1>3, <2>1 DEF Actors
    <3>2. fresh[d] # NoToken /\ fresh[d] \in 1..issued /\ held[d] \in 1..issued
      BY <3>1 DEF IInv, FreshDescends, FreshIsNew, StoredIsIssued, NoToken
    <3> QED
      BY <1>1, <3>1, <3>2 DEF IInv, FreshDescends
  <2>2. ASSUME NEW j \in Callbacks, pc'[j] \in {"exchanged", "inspecting", "inspected"}
        PROVE  fresh'[j] # NoToken /\ origin'[fresh'[j]] = j
    <3>1. CASE j = k
      BY <1>1, <3>1, TokensAssumption DEF Tokens, NoToken
    <3>2. CASE j # k
      BY <1>1, <1>2, <1>3, <2>2, <3>2 DEF IInv, FreshDescends, FreshIsNew, NoToken, Actors
    <3> QED
      BY <3>1, <3>2
  <2> QED
    BY <2>1, <2>2 DEF FreshDescends
<1>7. PastIsPast'
  BY <1>3 DEF Issue, IInv, PastIsPast, Actors
<1>8. SessionIsDone'
  BY <1>3 DEF IInv, SessionIsDone, Actors
<1>9. StoredIsThisSession'
  BY <1>1 DEF IInv, StoredIsThisSession, StoredIsIssued, NoToken
<1> QED
  BY <1>1, <1>4, <1>5, <1>6, <1>7, <1>8, <1>9 DEF IInv

LEMMA ExchangeKeeps == ASSUME IInv, NEW k \in Callbacks, Exchange(k) PROVE IInv'
  BY IssueToCallbackKeeps DEF Exchange, CallbackStages, NoToken

LEMMA InspectKeeps == ASSUME IInv, NEW k \in Callbacks, Inspect(k) PROVE IInv'
<1>1. CASE Issue(k, fresh[k], k)
  <2>1. fresh[k] \in Tokens \cup {NoToken}
    BY DEF IInv, TypeOK
  <2> QED
    BY <1>1, <2>1, IssueToCallbackKeeps DEF Inspect, CallbackStages
<1>2. CASE UNCHANGED <<fresh, intuit>>
  BY <1>2, NoneAssumption, ActorsAssumption, TokensAssumption
  DEF IInv, TypeOK, StoredIsIssued, FreshIsNew, FreshDescends, PastIsPast, SessionIsDone,
      StoredIsThisSession, Moves, NoToken, Tokens, Actors, ClientStages, CallbackStages,
      WorkerStages, intuit, Inspect
<1> QED
  BY <1>1, <1>2 DEF Inspect

\* Nothing is published.
LEMMA FindExistingKeeps == ASSUME IInv, NEW k \in Callbacks, FindExisting(k) PROVE IInv'
<1>1. TypeOK'
  BY ActorsAssumption, TokensAssumption, NoneAssumption
  DEF TypeOK, Moves, NoToken, Tokens, Actors, ClientStages, CallbackStages, WorkerStages, intuit,
      IInv, FindExisting
<1>2. /\ k \in Actors
      /\ \A b \in Actors : b # k => pc'[b] = pc[b]
      /\ pc[k] = "exchanged" /\ pc'[k] = "inspecting"
  BY ActorsAssumption DEF FindExisting, Moves, IInv, TypeOK, Actors
<1> QED
  BY <1>1, <1>2, QuietKeeps, ActorsAssumption
  DEF FindExisting, IInv, PastIsPast, intuit, Actors, NoToken, TypeOK

LEMMA ConnectFailsKeeps == ASSUME IInv, NEW k \in Callbacks, ConnectFails(k) PROVE IInv'
<1>1. TypeOK'
  BY ActorsAssumption, TokensAssumption, NoneAssumption
  DEF TypeOK, Moves, NoToken, Tokens, Actors, ClientStages, CallbackStages, WorkerStages, intuit,
      IInv, ConnectFails
<1>2. /\ k \in Actors
      /\ \A b \in Actors : b # k => pc'[b] = pc[b]
      /\ pc[k] # "done" /\ pc'[k] = "done"
  BY ActorsAssumption DEF ConnectFails, Moves, IInv, TypeOK, Actors
<1> QED
  BY <1>1, <1>2, QuietKeeps, ActorsAssumption
  DEF ConnectFails, IInv, PastIsPast, intuit, Actors, NoToken, TypeOK

\* The row takes a token that was nowhere else, and begins its session.
LEMMA PublishKeeps == ASSUME IInv, NEW k \in Callbacks, Publish(k) PROVE IInv'
<1>1. /\ pc[k] = "inspected" /\ pc'[k] = "done" /\ k \in Actors
      /\ \A b \in Actors : b # k => pc'[b] = pc[b]
      /\ k \notin Clients /\ k \notin Workers
      /\ pc' \in [Actors -> ClientStages \cup CallbackStages \cup WorkerStages]
      /\ \A c \in Clients : pc'[c] \in ClientStages
      /\ \A j \in Callbacks : pc'[j] \in CallbackStages
      /\ \A w \in Workers : pc'[w] \in WorkerStages
  <2>1. Moves(k, "inspected", "done") /\ k \in Actors
    BY DEF Publish, Actors
  <2> QED
    BY <2>1, MoveIsLocal, ActorsAssumption DEF IInv, ClientStages, CallbackStages
<1>2. /\ fresh[k] \in 1..issued /\ fresh[k] \in Tokens /\ fresh[k] \notin stored
      /\ fresh[k] # NoToken
      /\ \A b \in Clients \cup Callbacks : b # k => fresh'[b] = fresh[b] /\ fresh[b] # fresh[k]
      /\ fresh'[k] = NoToken
  BY <1>1, TokensAssumption DEF Publish, IInv, FreshIsNew, FreshDescends, TypeOK, Tokens, NoToken
<1>3. company'.token = fresh[k] /\ stored' = stored \cup {fresh[k]} /\ company'.connected
  BY DEF Publish, IInv, TypeOK
<1>4. TypeOK'
  <2>1. company' \in [exists : BOOLEAN, connected : BOOLEAN, token : Tokens \cup {NoToken}]
    BY <1>2 DEF Publish, IInv, TypeOK
  <2>2. fresh' \in [Clients \cup Callbacks -> Tokens \cup {NoToken}]
    BY DEF Publish, IInv, TypeOK
  <2>3. held' \in [Clients -> Tokens \cup {NoToken}] /\ stored' \subseteq Tokens
        /\ records' \subseteq Tokens
    BY <1>2 DEF Publish, IInv, TypeOK
  <2> QED
    BY <1>1, <2>1, <2>2, <2>3 DEF Publish, IInv, TypeOK, intuit
<1>5. StoredIsIssued'
  BY <1>1, <1>2, <1>3 DEF Publish, IInv, StoredIsIssued, TypeOK, NoToken, Actors, intuit
<1>6. FreshIsNew'
  BY <1>2, <1>3 DEF Publish, IInv, FreshIsNew, NoToken, intuit
<1>7. FreshDescends'
  BY <1>1, <1>2 DEF Publish, IInv, FreshDescends, TypeOK, Actors, intuit
<1>8. PastIsPast'
  BY <1>1, <1>2, <1>3 DEF Publish, IInv, PastIsPast, StoredIsIssued, Actors, intuit
<1>9. SessionIsDone'
  BY <1>1 DEF Publish, IInv, SessionIsDone, Actors
<1>10. StoredIsThisSession'
  BY <1>1, <1>2, <1>3 DEF Publish, IInv, StoredIsThisSession, FreshDescends, intuit
<1> QED
  BY <1>4, <1>5, <1>6, <1>7, <1>8, <1>9, <1>10 DEF IInv

\* The row's token becomes a thing of the past.
LEMMA DisconnectKeeps == ASSUME IInv, Disconnect PROVE IInv'
<1>1. company.token \in Tokens /\ company.token \in stored /\ company'.token = NoToken
      /\ NoToken \notin Tokens
  BY TokensAssumption DEF Disconnect, IInv, TypeOK, StoredIsIssued, NoToken, Tokens
<1>2. TypeOK'
  <2>1. company' \in [exists : BOOLEAN, connected : BOOLEAN, token : Tokens \cup {NoToken}]
    BY DEF Disconnect, IInv, TypeOK
  <2>2. claim' \in [Tokens -> [owner : Workers \cup {None}, live : BOOLEAN]]
    BY <1>1 DEF Disconnect, IInv, TypeOK
  <2> QED
    BY <1>1, <2>1, <2>2 DEF Disconnect, IInv, TypeOK, intuit
<1>3. StoredIsIssued' /\ FreshIsNew' /\ FreshDescends'
  BY <1>1 DEF Disconnect, IInv, StoredIsIssued, FreshIsNew, FreshDescends, intuit
<1>4. PastIsPast'
  BY <1>1 DEF Disconnect, IInv, PastIsPast, TypeOK, intuit
<1>5. SessionIsDone' /\ StoredIsThisSession'
  BY <1>1 DEF Disconnect, IInv, SessionIsDone, StoredIsThisSession
<1> QED
  BY <1>2, <1>3, <1>4, <1>5 DEF IInv

\* A worker takes up, claims, revokes and settles a record.
LEMMA LoadKeeps == ASSUME IInv, NEW w \in Workers, Load(w) PROVE IInv'
<1>1. TypeOK'
  BY ActorsAssumption, TokensAssumption, NoneAssumption
  DEF TypeOK, Moves, NoToken, Tokens, Actors, ClientStages, CallbackStages, WorkerStages, intuit,
      IInv, Load
<1>2. /\ w \in Actors
      /\ \A b \in Actors : b # w => pc'[b] = pc[b]
      /\ pc'[w] = "loaded"
  BY ActorsAssumption DEF Load, Moves, IInv, TypeOK, Actors
<1> QED
  BY <1>1, <1>2, QuietKeeps, ActorsAssumption
  DEF Load, IInv, PastIsPast, intuit, Actors, NoToken, TypeOK

LEMMA LookAtCompanyKeeps == ASSUME IInv, NEW w \in Workers, LookAtCompany(w) PROVE IInv'
<1>1. TypeOK'
  BY ActorsAssumption, TokensAssumption, NoneAssumption
  DEF TypeOK, Moves, NoToken, Tokens, Actors, ClientStages, CallbackStages, WorkerStages, intuit,
      IInv, LookAtCompany
<1>2. /\ w \in Actors
      /\ \A b \in Actors : b # w => pc'[b] = pc[b]
      /\ pc[w] = "loaded"
  BY ActorsAssumption DEF LookAtCompany, Moves, IInv, TypeOK, Actors
<1> QED
  BY <1>1, <1>2, QuietKeeps, ActorsAssumption
  DEF LookAtCompany, IInv, PastIsPast, intuit, Actors, NoToken, TypeOK

LEMMA DropKeeps == ASSUME IInv, NEW w \in Workers, Drop(w) PROVE IInv'
<1>1. TypeOK'
  BY ActorsAssumption, TokensAssumption, NoneAssumption
  DEF TypeOK, Moves, NoToken, Tokens, Actors, ClientStages, CallbackStages, WorkerStages, intuit,
      IInv, Drop
<1>2. /\ w \in Actors
      /\ \A b \in Actors : b # w => pc'[b] = pc[b]
      /\ pc'[w] = "off"
  BY ActorsAssumption DEF Drop, Moves, IInv, TypeOK, Actors
<1> QED
  BY <1>1, <1>2, QuietKeeps, ActorsAssumption
  DEF Drop, IInv, PastIsPast, intuit, Actors, NoToken, TypeOK

LEMMA ClaimKeeps == ASSUME IInv, NEW w \in Workers, Claim(w) PROVE IInv'
<1>1. TypeOK'
  <2>1. claim' \in [Tokens -> [owner : Workers \cup {None}, live : BOOLEAN]]
    BY DEF Claim, IInv, TypeOK
  <2>2. Moves(w, "claiming", "revoking") /\ w \in Actors
    BY DEF Claim, Actors
  <2>3. /\ pc' \in [Actors -> ClientStages \cup CallbackStages \cup WorkerStages]
        /\ \A c \in Clients : pc'[c] \in ClientStages
        /\ \A k \in Callbacks : pc'[k] \in CallbackStages
        /\ \A v \in Workers : pc'[v] \in WorkerStages
    BY <2>2, MoveIsLocal, ActorsAssumption DEF IInv, WorkerStages
  <2> QED
    BY <2>1, <2>3 DEF Claim, IInv, TypeOK, intuit
<1>2. /\ w \in Actors
      /\ \A b \in Actors : b # w => pc'[b] = pc[b]
      /\ pc[w] = "claiming"
  BY ActorsAssumption DEF Claim, Moves, IInv, TypeOK, Actors
<1> QED
  BY <1>1, <1>2, QuietKeeps, ActorsAssumption
  DEF Claim, IInv, PastIsPast, intuit, Actors, NoToken, TypeOK

LEMMA ClaimRefusedKeeps == ASSUME IInv, NEW w \in Workers, ClaimRefused(w) PROVE IInv'
<1>1. TypeOK'
  BY ActorsAssumption, TokensAssumption, NoneAssumption
  DEF TypeOK, Moves, NoToken, Tokens, Actors, ClientStages, CallbackStages, WorkerStages, intuit,
      IInv, ClaimRefused
<1>2. /\ w \in Actors
      /\ \A b \in Actors : b # w => pc'[b] = pc[b]
      /\ pc'[w] = "off"
  BY ActorsAssumption DEF ClaimRefused, Moves, IInv, TypeOK, Actors
<1> QED
  BY <1>1, <1>2, QuietKeeps, ActorsAssumption
  DEF ClaimRefused, IInv, PastIsPast, intuit, Actors, NoToken, TypeOK

LEMMA RevokeKeeps == ASSUME IInv, NEW w \in Workers, Revoke(w) PROVE IInv'
<1>1. TypeOK'
  <2>1. Moves(w, "revoking", "deleting") /\ w \in Actors
    BY DEF Revoke, Actors
  <2>2. /\ pc' \in [Actors -> ClientStages \cup CallbackStages \cup WorkerStages]
        /\ \A c \in Clients : pc'[c] \in ClientStages
        /\ \A k \in Callbacks : pc'[k] \in CallbackStages
        /\ \A v \in Workers : pc'[v] \in WorkerStages
    BY <2>1, MoveIsLocal, ActorsAssumption DEF IInv, WorkerStages
  <2>3. target[w] \in Tokens
    BY <2>1 DEF Moves, IInv, PastIsPast, TypeOK
  <2> QED
    BY <2>2, <2>3 DEF Revoke, TokenToRevoke, IInv, TypeOK, intuit
<1>2. /\ w \in Actors
      /\ \A b \in Actors : b # w => pc'[b] = pc[b]
      /\ pc[w] = "revoking"
  BY ActorsAssumption DEF Revoke, Moves, IInv, TypeOK, Actors
<1> QED
  BY <1>1, <1>2, QuietKeeps, ActorsAssumption
  DEF Revoke, TokenToRevoke, IInv, PastIsPast, intuit, Actors, NoToken, TypeOK

LEMMA DeleteKeeps == ASSUME IInv, NEW w \in Workers, Delete(w) PROVE IInv'
<1>1. TypeOK'
  BY ActorsAssumption, TokensAssumption, NoneAssumption
  DEF TypeOK, Moves, NoToken, Tokens, Actors, ClientStages, CallbackStages, WorkerStages, intuit,
      IInv, Delete
<1>2. /\ w \in Actors
      /\ \A b \in Actors : b # w => pc'[b] = pc[b]
      /\ pc'[w] = "off"
  BY ActorsAssumption DEF Delete, Moves, IInv, TypeOK, Actors
<1> QED
  BY <1>1, <1>2, QuietKeeps, ActorsAssumption
  DEF Delete, IInv, PastIsPast, intuit, Actors, NoToken, TypeOK

LEMMA LoseKeeps == ASSUME IInv, NEW w \in Workers, Lose(w) PROVE IInv'
<1>1. TypeOK'
  BY ActorsAssumption, TokensAssumption, NoneAssumption
  DEF TypeOK, Moves, NoToken, Tokens, Actors, ClientStages, CallbackStages, WorkerStages, intuit,
      IInv, Lose
<1>2. /\ w \in Actors
      /\ \A b \in Actors : b # w => pc'[b] = pc[b]
      /\ pc'[w] = "off"
  BY ActorsAssumption DEF Lose, Moves, IInv, TypeOK, Actors
<1> QED
  BY <1>1, <1>2, QuietKeeps, ActorsAssumption
  DEF Lose, IInv, PastIsPast, intuit, Actors, NoToken, TypeOK

\* Time concerns only the leases.
LEMMA LeaseKeeps == ASSUME IInv, NEW t \in Tokens, LeaseExpires(t) PROVE IInv'
<1>1. TypeOK'
  <2>1. claim' \in [Tokens -> [owner : Workers \cup {None}, live : BOOLEAN]]
    BY DEF LeaseExpires, IInv, TypeOK
  <2>2. losses' \in 0..MaxLosses
    BY TokensAssumption DEF LeaseExpires, IInv, TypeOK
  <2> QED
    BY <2>1, <2>2 DEF LeaseExpires, IInv, TypeOK, intuit
<1> QED
  BY <1>1, QuietKeeps DEF LeaseExpires, IInv, PastIsPast, intuit

LEMMA NextIInv == IInv /\ [Next]_vars => IInv'
<1> SUFFICES ASSUME IInv, [Next]_vars PROVE IInv'
  OBVIOUS
<1>1. ASSUME NEW c \in Clients, ClientStep(c) PROVE IInv'
  BY <1>1, OpenKeeps, RefreshKeeps, RotateKeeps, RefreshFailsKeeps, PersistKeeps,
     PersistRefusedKeeps, CloseKeeps DEF ClientStep
<1>2. ASSUME NEW k \in Callbacks, CallbackStep(k) PROVE IInv'
  BY <1>2, ExchangeKeeps, FindExistingKeeps, InspectKeeps, ConnectFailsKeeps, PublishKeeps
  DEF CallbackStep
<1>3. ASSUME NEW w \in Workers, WorkerStep(w) \/ Lose(w) PROVE IInv'
  BY <1>3, LoadKeeps, LookAtCompanyKeeps, DropKeeps, ClaimKeeps, ClaimRefusedKeeps, RevokeKeeps,
     DeleteKeeps, LoseKeeps DEF WorkerStep
<1>4. CASE UNCHANGED vars
  BY <1>4 DEF vars, intuit, IInv, TypeOK, StoredIsIssued, FreshIsNew, FreshDescends, PastIsPast,
              SessionIsDone, StoredIsThisSession
<1> QED
  BY <1>1, <1>2, <1>3, <1>4, DisconnectKeeps, LeaseKeeps DEF Next

\* The induction: IInv holds in every reachable state.
THEOREM AlwaysIInv == Spec => []IInv
<1> QED
  BY InitIInv, NextIInv, PTL DEF Spec

-----------------------------------------------------------------------------

\* Every variable keeps its type.
THEOREM TypeCorrect == Spec => []TypeOK
<1>1. IInv => TypeOK
  BY DEF IInv
<1> QED
  BY <1>1, AlwaysIInv, PTL

\* No rotation that outlives a disconnect or a reconnect changes what the row
\* holds: its tokens always descend from the callback that connected it last.
THEOREM ConnectionsDoNotMix == Spec => []StoredIsThisSession
<1>1. IInv => StoredIsThisSession
  BY DEF IInv
<1> QED
  BY <1>1, AlwaysIInv, PTL

\* A client uses no token set that was not stored first.
THEOREM TokensAreStoredFirst == Spec => []UsesOnlyStored
<1>1. IInv => UsesOnlyStored
  BY DEF IInv, StoredIsIssued, UsesOnlyStored
<1> QED
  BY <1>1, AlwaysIInv, PTL

\* No revocation reaches Intuit with a token that a connection uses.
THEOREM RevocationSparesTheConnection == Spec => []RevokedIsNotCurrent
<1>1. IInv => RevokedIsNotCurrent
  BY DEF IInv, PastIsPast, RevokedIsNotCurrent
<1> QED
  BY <1>1, AlwaysIInv, PTL

\* Of two rotations of one token only one is stored: a rotation that is stored
\* was made with the token it replaces.
THEOREM RotationsDoNotOverwrite == Spec => RotationReplacesItsParent
<1>1. ASSUME IInv, [Next]_vars, NEW t \in Tokens,
             company'.token = t, company.token # t, session' = session
      PROVE  parent[t] = company.token
  <2>1. PICK c \in Clients : Persist(c)
    <3>1. ASSUME NEW k \in Callbacks, Publish(k) PROVE FALSE
      BY <1>1, <3>1 DEF Publish, Moves, IInv, SessionIsDone
    <3>2. ~Disconnect
      <4>1. Disconnect => company'.token = NoToken
        BY <1>1 DEF Disconnect, IInv, TypeOK
      <4> QED
        BY <1>1, <4>1, TokensAssumption DEF Tokens, NoToken
    <3>3. company' # company
      BY <1>1
    <3> QED
      BY <1>1, <3>1, <3>2, <3>3
      DEF Next, vars, ClientStep, CallbackStep, WorkerStep, Open, Refresh, Rotate, RefreshFails,
          PersistRefused, Close, Exchange, FindExisting, Inspect, ConnectFails, Load,
          LookAtCompany, Drop, Claim, ClaimRefused, Revoke, Delete, Lose, LeaseExpires
  <2>2. t = fresh[c]
    BY <1>1, <2>1 DEF Persist, IInv, TypeOK
  <2> QED
    BY <2>1, <2>2, <1>1 DEF Persist, SameConnection, Moves, IInv, FreshDescends
<1>2. IInv /\ [Next]_vars =>
        [\A t \in Tokens :
            company'.token = t /\ company.token # t /\ session' = session
            => parent[t] = company.token]_vars
  BY <1>1
<1> QED
  BY <1>2, AlwaysIInv, PTL DEF Spec, RotationReplacesItsParent

-----------------------------------------------------------------------------
(* What is quarantined stays so until a revocation was attempted.            *)

\* Connecting takes the whole quarantine back, so a worker that finds the company
\* connected has nothing left to drop, even if it is disconnected again by then.
QuarantineInv ==
    /\ ~company.exists \/ company.connected => records = {}
    /\ \A w \in Workers : pc[w] = "drop" => target[w] \notin records

LEMMA InitQuarantine == Init => QuarantineInv
  BY ActorsAssumption DEF Init, QuarantineInv, Actors

LEMMA NextQuarantine == IInv /\ QuarantineInv /\ [Next]_vars => QuarantineInv'
<1> SUFFICES ASSUME IInv, QuarantineInv, [Next]_vars PROVE QuarantineInv'
  OBVIOUS
<1> USE ActorsAssumption DEF QuarantineInv
<1>1. ASSUME NEW c \in Clients, ClientStep(c) PROVE QuarantineInv'
  <2>1. /\ records' = records /\ target' = target /\ \A w \in Workers : pc'[w] = pc[w]
        /\ company'.exists = company.exists /\ company'.connected = company.connected
    BY <1>1 DEF ClientStep, Open, Refresh, Rotate, RefreshFails, Persist, PersistRefused, Close,
                Moves, IInv, TypeOK, Actors
  <2> QED
    BY <2>1
<1>2. ASSUME NEW k \in Callbacks, CallbackStep(k) PROVE QuarantineInv'
  <2>1. /\ target' = target /\ \A w \in Workers : pc'[w] = pc[w]
        /\ UNCHANGED <<records, company>> \/ Publish(k)
    BY <1>2 DEF CallbackStep, Exchange, FindExisting, Inspect, ConnectFails, Publish,
                Moves, IInv, TypeOK, Actors
  <2>2. Publish(k) => records' = {}
    BY DEF Publish
  <2> QED
    BY <2>1, <2>2
<1>3. ASSUME NEW w \in Workers, WorkerStep(w) \/ Lose(w) PROVE QuarantineInv'
  <2>1. /\ records' \subseteq records /\ company' = company
        /\ \A v \in Workers \ {w} : pc'[v] = pc[v] /\ target'[v] = target[v]
        /\ pc'[w] = "drop" => company.connected
    BY <1>3 DEF WorkerStep, Load, LookAtCompany, Drop, Claim, ClaimRefused, Revoke, Delete, Lose,
                Moves, IInv, TypeOK, Actors
  <2> QED
    BY <2>1
<1>4. CASE Disconnect
  <2>1. /\ records' = records \cup {company.token} /\ pc' = pc /\ target' = target
        /\ company'.exists /\ ~company'.connected
    BY <1>4 DEF Disconnect, IInv, TypeOK
  <2>2. \A w \in Workers : pc[w] = "drop" => target[w] # company.token
    BY DEF IInv, PastIsPast
  <2> QED
    BY <2>1, <2>2
<1>5. CASE UNCHANGED vars \/ \E t \in Tokens : LeaseExpires(t)
  BY <1>5 DEF vars, LeaseExpires
<1> QED
  BY <1>1, <1>2, <1>3, <1>4, <1>5 DEF Next

\* A quarantined token is given up only after an attempt to revoke it, or because
\* the company is connected again: however workers, reconnects and disconnects
\* interleave, no record gets lost between them.
THEOREM QuarantineIsKept == Spec => QuarantineEndsByAttempt
<1>1. ASSUME IInv, QuarantineInv, [Next]_vars, NEW t \in records \ records'
      PROVE  company'.connected \/ \E w \in Workers : target[w] = t /\ pc[w] = "deleting"
  <2>1. CASE \E k \in Callbacks : Publish(k)
    BY <2>1 DEF Publish
  <2>2. CASE ~\E k \in Callbacks : Publish(k)
    <3>1. PICK w \in Workers : Drop(w) \/ Delete(w)
      BY <1>1, <2>2
      DEF Next, vars, ClientStep, CallbackStep, WorkerStep, Open, Refresh, Rotate, RefreshFails,
          Persist, PersistRefused, Close, Exchange, FindExisting, Inspect, ConnectFails,
          Disconnect, Load, LookAtCompany, Claim, ClaimRefused, Revoke, Lose, LeaseExpires
    <3>2. t = target[w]
      BY <1>1, <3>1 DEF Drop, Delete
    <3>3. ~Drop(w)
      BY <1>1, <3>2 DEF Drop, Moves, QuarantineInv
    <3> QED
      BY <3>1, <3>2, <3>3 DEF Delete, Moves
  <2> QED
    BY <2>1, <2>2
<1>2. IInv /\ QuarantineInv /\ [Next]_vars =>
        [\A t \in records \ records' :
           \/ company'.connected
           \/ \E w \in Workers : target[w] = t /\ pc[w] = "deleting"]_vars
  BY <1>1
<1> QED
  BY <1>2, AlwaysIInv, InitQuarantine, NextQuarantine, PTL DEF Spec, QuarantineEndsByAttempt

=============================================================================
