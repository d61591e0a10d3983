------------------------------- MODULE Connection -------------------------------
(***************************************************************************)
(* The connection of one company to QuickBooks: its tokens, which every     *)
(* client rotates on its own (server/src/lib/qbo/factory.ts and real.ts),   *)
(* the OAuth callback that connects and reconnects it (routes/qboOauth.ts), *)
(* the disconnect that quarantines the token it takes away                  *)
(* (services/companyLiveAuthority.ts) and the workers that revoke it        *)
(* (services/qboTokenRevocation.ts).                                        *)
(*                                                                         *)
(* A token stands for a token set; Intuit issues them in order.  A step is  *)
(* one statement of the database or one request to Intuit.                  *)
(***************************************************************************)
EXTENDS Naturals, FiniteSets

CONSTANTS
    Clients,       \* instances of RealQboClient, each opened from the row
    Callbacks,     \* OAuth callbacks, each with a state of its own
    Workers,       \* invocations of processQboTokenRevocation
    MaxTokens,     \* bound: token sets Intuit issues
    MaxLosses,     \* bound: revocations lost with their process, or stalled past their lease
    None

ASSUME NoneAssumption == None \notin Callbacks /\ None \notin Workers
ASSUME ActorsAssumption ==
    /\ Clients \cap Callbacks = {} /\ Clients \cap Workers = {}
    /\ Callbacks \cap Workers = {}
ASSUME TokensAssumption == MaxTokens \in Nat /\ MaxLosses \in Nat

VARIABLES
    company,  \* the company's row
    pc,       \* where a client, a callback or a worker is
    held,     \* the tokens a client uses, and has persisted last
    fresh,    \* the tokens a client or a callback has been issued and not stored yet
    sawRow,   \* whether a callback found the company's row
    target,   \* the quarantined token a worker works on
    records,  \* the quarantined tokens (QboTokenRevocation)
    claim,    \* the lease of a record: its owner and whether it is live
    issued,   \* how many token sets Intuit has issued
    parent,   \* the token a rotation was made with, 0 for an exchange
    origin,   \* the callback whose exchange a token descends from
    revoked,  \* the tokens a revocation request has reached Intuit for
    session,  \* the callback that connected the company last
    stored,   \* the tokens that were ever in the row
    losses    \* how many revocations were lost or stalled

intuit == <<issued, parent, origin, revoked>>
vars == <<company, pc, held, fresh, sawRow, target, records, claim, intuit, session, stored, losses>>

-----------------------------------------------------------------------------

NoToken == 0
Tokens == 1..MaxTokens
Actors == Clients \cup Callbacks \cup Workers

ClientStages == {"closed", "ready", "granting", "rotated"}
CallbackStages == {"idle", "exchanged", "inspecting", "inspected", "done"}
WorkerStages == {"off", "loaded", "drop", "claiming", "revoking", "deleting"}

Init ==
    /\ company = [exists |-> FALSE, connected |-> FALSE, token |-> NoToken]
    /\ pc = [a \in Actors |-> IF a \in Clients THEN "closed"
                              ELSE IF a \in Callbacks THEN "idle" ELSE "off"]
    /\ held = [c \in Clients |-> NoToken]
    /\ fresh = [a \in Clients \cup Callbacks |-> NoToken]
    /\ sawRow = [k \in Callbacks |-> FALSE]
    /\ target = [w \in Workers |-> NoToken]
    /\ records = {}
    /\ claim = [t \in Tokens |-> [owner |-> None, live |-> FALSE]]
    /\ issued = 0
    /\ parent = [t \in Tokens |-> NoToken]
    /\ origin = [t \in Tokens |-> None]
    /\ revoked = {}
    /\ session = None
    /\ stored = {}
    /\ losses = 0

Moves(a, from, to) == pc[a] = from /\ pc' = [pc EXCEPT ![a] = to]

\* Intuit issues the next token set.
Issue(a, from, callback) ==
    /\ issued < MaxTokens
    /\ issued' = issued + 1
    /\ parent' = [parent EXCEPT ![issued'] = from]
    /\ origin' = [origin EXCEPT ![issued'] = callback]
    /\ fresh' = [fresh EXCEPT ![a] = issued']
    /\ UNCHANGED revoked

-----------------------------------------------------------------------------
(* Clients.                                                                *)

\* forCompany: a client is made of the row's tokens.
Open(c) ==
    /\ Moves(c, "closed", "ready")
    /\ company.connected /\ company.token # NoToken
    /\ held' = [held EXCEPT ![c] = company.token]
    /\ UNCHANGED <<company, fresh, sawRow, target, records, claim, intuit, session, stored, losses>>

\* A token about to expire, or a 401, starts the one refresh of the client.
Refresh(c) ==
    /\ Moves(c, "ready", "granting")
    /\ UNCHANGED <<company, held, fresh, sawRow, target, records, claim, intuit, session, stored, losses>>

\* Intuit rotates the refresh token and the client has the answer.  Whether
\* Intuit still takes an older token of the connection is up to Intuit, but it
\* takes none that was revoked.
Rotate(c) ==
    /\ Moves(c, "granting", "rotated")
    /\ held[c] \notin revoked
    /\ Issue(c, held[c], origin[held[c]])
    /\ UNCHANGED <<company, held, sawRow, target, records, claim, session, stored, losses>>

\* Intuit refuses, or the answer is lost: nothing of it stays with the client.
RefreshFails(c) ==
    /\ Moves(c, "granting", "ready")
    /\ UNCHANGED <<company, held, fresh, sawRow, target, records, claim, intuit, session, stored, losses>>

\* Mutant: the company is still connected, with whatever tokens.
StillConnected(c) == company.connected

\* What the update of onTokensRefreshed compares with the row.
SameConnection(c) == company.connected /\ company.token = held[c]

\* The rotated tokens are stored, and only then used by the client.
Persist(c) ==
    /\ Moves(c, "rotated", "ready")
    /\ SameConnection(c)
    /\ company' = [company EXCEPT !.token = fresh[c]]
    /\ stored' = stored \cup {fresh[c]}
    /\ held' = [held EXCEPT ![c] = fresh[c]]
    /\ fresh' = [fresh EXCEPT ![c] = NoToken]
    /\ UNCHANGED <<sawRow, target, records, claim, intuit, session, losses>>

\* Mutant: the client takes the tokens before it stores them.
PersistRefusedLate(c) ==
    /\ Moves(c, "rotated", "ready")
    /\ ~SameConnection(c)
    /\ held' = [held EXCEPT ![c] = fresh[c]]
    /\ fresh' = [fresh EXCEPT ![c] = NoToken]
    /\ UNCHANGED <<company, sawRow, target, records, claim, intuit, session, stored, losses>>

\* The connection changed during the refresh: the new tokens are dropped.
PersistRefused(c) ==
    /\ Moves(c, "rotated", "ready")
    /\ ~SameConnection(c)
    /\ fresh' = [fresh EXCEPT ![c] = NoToken]
    /\ UNCHANGED <<company, held, sawRow, target, records, claim, intuit, session, stored, losses>>

\* The client is dropped, or dies with its process between any two steps.
Close(c) ==
    /\ pc[c] # "closed"
    /\ pc' = [pc EXCEPT ![c] = "closed"]
    /\ fresh' = [fresh EXCEPT ![c] = NoToken]
    /\ UNCHANGED <<company, held, sawRow, target, records, claim, intuit, session, stored, losses>>

-----------------------------------------------------------------------------
(* The OAuth callback.                                                     *)

\* The code is exchanged for the tokens of a new connection.
Exchange(k) ==
    /\ Moves(k, "idle", "exchanged")
    /\ Issue(k, NoToken, k)
    /\ UNCHANGED <<company, held, sawRow, target, records, claim, session, stored, losses>>

\* Is the company known already?
FindExisting(k) ==
    /\ Moves(k, "exchanged", "inspecting")
    /\ sawRow' = [sawRow EXCEPT ![k] = company.exists]
    /\ UNCHANGED <<company, held, fresh, target, records, claim, intuit, session, stored, losses>>

\* The probe of CompanyInfo succeeds, with the tokens as they are or rotated.
Inspect(k) ==
    /\ Moves(k, "inspecting", "inspected")
    /\ \/ UNCHANGED <<fresh, intuit>>
       \/ Issue(k, fresh[k], k)
    /\ UNCHANGED <<company, held, sawRow, target, records, claim, session, stored, losses>>

\* The exchange, the probe or the process fails: nothing was published.
ConnectFails(k) ==
    /\ pc[k] \in {"idle", "exchanged", "inspecting", "inspected"}
    /\ pc' = [pc EXCEPT ![k] = "done"]
    /\ fresh' = [fresh EXCEPT ![k] = NoToken]
    /\ UNCHANGED <<company, held, sawRow, target, records, claim, intuit, session, stored, losses>>

\* The company is updated, or created unless somebody created it meanwhile
\* (realmId is unique); an update takes the quarantine back.
Publish(k) ==
    /\ Moves(k, "inspected", "done")
    /\ sawRow[k] \/ ~company.exists
    /\ company' = [exists |-> TRUE, connected |-> TRUE, token |-> fresh[k]]
    /\ records' = IF sawRow[k] THEN {} ELSE records
    /\ session' = k
    /\ stored' = stored \cup {fresh[k]}
    /\ fresh' = [fresh EXCEPT ![k] = NoToken]
    /\ UNCHANGED <<held, sawRow, target, claim, intuit, losses>>

-----------------------------------------------------------------------------
(* Disconnect and revocation.                                              *)

\* One serializable transaction: the token is quarantined and taken away.
Disconnect ==
    /\ company.exists /\ company.token # NoToken
    /\ records' = records \cup {company.token}
    /\ claim' = [claim EXCEPT ![company.token] = [owner |-> None, live |-> FALSE]]
    /\ company' = [company EXCEPT !.connected = FALSE, !.token = NoToken]
    /\ UNCHANGED <<pc, held, fresh, sawRow, target, intuit, session, stored, losses>>

\* The handler of the disconnect, the boot sweep or the periodic sweep takes up
\* a record: the record is read, and the company next.
Load(w) ==
    /\ Moves(w, "off", "loaded")
    /\ \E t \in records : target' = [target EXCEPT ![w] = t]
    /\ UNCHANGED <<company, held, fresh, sawRow, records, claim, intuit, session, stored, losses>>

LookAtCompany(w) ==
    /\ Moves(w, "loaded", IF company.connected THEN "drop" ELSE "claiming")
    /\ UNCHANGED <<company, held, fresh, sawRow, target, records, claim, intuit, session, stored, losses>>

\* The company is connected again: the record is void.
Drop(w) ==
    /\ Moves(w, "drop", "off")
    /\ records' = records \ {target[w]}
    /\ UNCHANGED <<company, held, fresh, sawRow, target, claim, intuit, session, stored, losses>>

\* What the claim asks for.
Claimable(t) == t \in records /\ ~company.connected /\ ~claim[t].live

Claim(w) ==
    /\ Moves(w, "claiming", "revoking")
    /\ Claimable(target[w])
    /\ claim' = [claim EXCEPT ![target[w]] = [owner |-> w, live |-> TRUE]]
    /\ UNCHANGED <<company, held, fresh, sawRow, target, records, intuit, session, stored, losses>>

ClaimRefused(w) ==
    /\ Moves(w, "claiming", "off")
    /\ ~Claimable(target[w])
    /\ UNCHANGED <<company, held, fresh, sawRow, target, records, claim, intuit, session, stored, losses>>

\* Mutant: the token is read from the company when it is revoked.
CurrentToken(w) == company.token

\* The token of the request: the snapshot of the disconnect.
TokenToRevoke(w) == target[w]

\* The attempt: the request reaches Intuit, or fails and is not repeated.
Revoke(w) ==
    /\ Moves(w, "revoking", "deleting")
    /\ revoked' \in {revoked, revoked \cup {TokenToRevoke(w)}}
    /\ UNCHANGED <<company, held, fresh, sawRow, target, records, claim, issued, parent, origin,
                   session, stored, losses>>

\* The record goes if it is still this worker's.
Delete(w) ==
    /\ Moves(w, "deleting", "off")
    /\ records' = IF claim[target[w]].owner = w THEN records \ {target[w]} ELSE records
    /\ UNCHANGED <<company, held, fresh, sawRow, target, claim, intuit, session, stored, losses>>

\* A worker dies with its process, at any step.
Lose(w) ==
    /\ pc[w] # "off" /\ losses < MaxLosses
    /\ losses' = losses + 1
    /\ pc' = [pc EXCEPT ![w] = "off"]
    /\ UNCHANGED <<company, held, fresh, sawRow, target, records, claim, intuit, session, stored>>

\* A minute has passed since the claim.  The attempt takes seconds, so a claim
\* usually outlives its worker's work; a worker that stalls counts as a loss.
LeaseExpires(t) ==
    /\ t \in records /\ claim[t].live
    /\ LET w == claim[t].owner IN
       IF pc[w] \in {"revoking", "deleting"} /\ target[w] = t
       THEN losses < MaxLosses /\ losses' = losses + 1
       ELSE UNCHANGED losses
    /\ claim' = [claim EXCEPT ![t].live = FALSE]
    /\ UNCHANGED <<company, pc, held, fresh, sawRow, target, records, intuit, session, stored>>

-----------------------------------------------------------------------------

ClientStep(c) ==
    \/ Open(c) \/ Refresh(c) \/ Rotate(c) \/ RefreshFails(c)
    \/ Persist(c) \/ PersistRefused(c) \/ Close(c)

CallbackStep(k) ==
    Exchange(k) \/ FindExisting(k) \/ Inspect(k) \/ ConnectFails(k) \/ Publish(k)

WorkerStep(w) ==
    \/ Load(w) \/ LookAtCompany(w) \/ Drop(w) \/ Claim(w) \/ ClaimRefused(w)
    \/ Revoke(w) \/ Delete(w)

Next ==
    \/ \E c \in Clients : ClientStep(c)
    \/ \E k \in Callbacks : CallbackStep(k)
    \/ \E w \in Workers : WorkerStep(w) \/ Lose(w)
    \/ Disconnect
    \/ \E t \in Tokens : LeaseExpires(t)

Spec == Init /\ [][Next]_vars

-----------------------------------------------------------------------------
(* Properties.                                                             *)

\* The type of every variable of the connection.
TypeOK ==
    /\ company \in [exists : BOOLEAN, connected : BOOLEAN, token : Tokens \cup {NoToken}]
    /\ pc \in [Actors -> ClientStages \cup CallbackStages \cup WorkerStages]
    /\ \A c \in Clients : pc[c] \in ClientStages
    /\ \A k \in Callbacks : pc[k] \in CallbackStages
    /\ \A w \in Workers : pc[w] \in WorkerStages
    /\ held \in [Clients -> Tokens \cup {NoToken}]
    /\ fresh \in [Clients \cup Callbacks -> Tokens \cup {NoToken}]
    /\ sawRow \in [Callbacks -> BOOLEAN]
    /\ target \in [Workers -> Tokens \cup {NoToken}]
    /\ records \subseteq Tokens
    /\ claim \in [Tokens -> [owner : Workers \cup {None}, live : BOOLEAN]]
    /\ issued \in 0..MaxTokens
    /\ parent \in [Tokens -> Tokens \cup {NoToken}]
    /\ origin \in [Tokens -> Callbacks \cup {None}]
    /\ revoked \subseteq Tokens
    /\ session \in Callbacks \cup {None}
    /\ stored \subseteq Tokens
    /\ losses \in 0..MaxLosses

\* The tokens of the company descend from the callback that connected it last:
\* no rotation that began before a disconnect or a reconnect overwrites, or
\* brings back, a token afterwards.
StoredIsThisSession ==
    company.token # NoToken =>
        company.connected /\ origin[company.token] = session

\* A client only ever uses tokens that were stored: a rotation that could not
\* be persisted leaves no usable token behind.
UsesOnlyStored == \A c \in Clients : held[c] # NoToken => held[c] \in stored

\* Two clients rotate the same token at once: one of them is stored, and the
\* other does not replace it.  A stored rotation was made with the token it
\* replaces.
RotationReplacesItsParent ==
    [][\A t \in Tokens :
          company'.token = t /\ company.token # t /\ session' = session
          => parent[t] = company.token]_vars

\* A revocation never takes the tokens of a connection, however late it reaches
\* Intuit and whatever was reconnected meanwhile.
RevokedIsNotCurrent == company.connected => company.token \notin revoked

\* A quarantined token is given up only after an attempt to revoke it, or
\* because the company is connected again.
QuarantineEndsByAttempt ==
    [][\A t \in records \ records' :
          \/ company'.connected
          \/ \E w \in Workers : target[w] = t /\ pc[w] = "deleting"]_vars

=============================================================================
