---------------------------- MODULE ReactionStore ----------------------------
(***************************************************************************)
(* The server's reaction table under concurrent GraphQL requests: the two  *)
(* mutations of pkg/mutators/reaction.go and the reaction queries, each    *)
(* running on connections of one pool of bounded size.                     *)
(*                                                                         *)
(* RunInTx opens a transaction on one connection, but the INSERT of        *)
(* SetReaction and the SELECT of UnsetReaction are issued on q.session, so *)
(* they run outside that transaction, on a second connection of the pool.  *)
(* Only the DELETE of UnsetReaction runs inside the transaction.           *)
(***************************************************************************)

CONSTANTS
  Users,      \* authenticated addresses
  Targets,    \* (target_type, target_id) pairs
  Reactions,
  Calls,      \* GraphQL requests being served; a finished one may be reused
  Conns,      \* the connections SetMaxOpenConns allows
  Ids,        \* row identifiers
  None

Row == [id : Ids, user : Users, target : Targets, reaction : Reactions]

Op ==
  [kind : {"set"}, user : Users, target : Targets, reaction : Reactions]
    \union [kind : {"unset", "read"}, user : Users, target : Targets]

ASSUME NoneIsNoValue == None \notin Row \union Op \union Conns \union Ids \union BOOLEAN

VARIABLES
  rows,     \* committed rows of the table
  op,       \* op[c]: what call c asks for, None when it is not in flight
  phase,    \* phase[c]: how far call c is
  seen,     \* seen[c]: the row call c's statement returned (reactionModel)
  doomed,   \* doomed[c]: id deleted, and locked, by c's open transaction
  txConn,   \* txConn[c]: connection of c's transaction
  stmtConn, \* stmtConn[c]: second connection, for the statement on q.session
  idle,     \* connections of the pool not in use
  reply     \* reply[c]: what the resolver answered

vars == <<rows, op, phase, seen, doomed, txConn, stmtConn, idle, reply>>

Phase == {"idle", "begin", "second", "statement", "returned", "delete",
          "commit", "committed", "fetch", "done"}

\* Phases in which a call waits for a connection of the pool.
Waiting(c) == phase[c] \in {"begin", "second"}

Init ==
  /\ rows = {}
  /\ op = [c \in Calls |-> None]
  /\ phase = [c \in Calls |-> "idle"]
  /\ seen = [c \in Calls |-> None]
  /\ doomed = [c \in Calls |-> None]
  /\ txConn = [c \in Calls |-> None]
  /\ stmtConn = [c \in Calls |-> None]
  /\ idle = Conns
  /\ reply = [c \in Calls |-> "none"]

Goto(c, from, to) == phase[c] = from /\ phase' = [phase EXCEPT ![c] = to]

OwnRows(o) == {r \in rows : r.user = o.user /\ r.target = o.target}

Locked(id) == \E c \in Calls : doomed[c] = id

\* Mutated FreshId: identifiers of deleted rows are drawn again.
FreshIdReused(id) == \A r \in rows : r.id # id

\* ulid.New draws identifiers that are in use nowhere.
FreshId(id) ==
  /\ \A r \in rows : r.id # id
  /\ \A c \in Calls : seen[c] # None => seen[c].id # id

(***************************************************************************)
(* The resolvers                                                           *)
(***************************************************************************)
\* @authed lets only requests with an address through to the mutators.
Submit(c) ==
  /\ Goto(c, "idle", "begin")
  /\ \E o \in Op : op' = [op EXCEPT ![c] = o]
  /\ UNCHANGED <<rows, seen, doomed, txConn, stmtConn, idle, reply>>

\* The failure of an UnsetReaction is logged and answered as null.
Failure(c) == IF op[c].kind = "unset" THEN "null" ELSE "error"

\* The response has been written; the client may send another request.
Forget(c) ==
  /\ Goto(c, "done", "idle")
  /\ op' = [op EXCEPT ![c] = None]
  /\ seen' = [seen EXCEPT ![c] = None]
  /\ reply' = [reply EXCEPT ![c] = "none"]
  /\ UNCHANGED <<rows, doomed, txConn, stmtConn, idle>>

(***************************************************************************)
(* The mutators                                                            *)
(***************************************************************************)
\* RunInTx: BEGIN on the first connection.
BeginTx(c) ==
  /\ Goto(c, "begin", "second")
  /\ op[c].kind # "read"
  /\ \E k \in idle :
       /\ idle' = idle \ {k}
       /\ txConn' = [txConn EXCEPT ![c] = k]
  /\ UNCHANGED <<rows, op, seen, doomed, stmtConn, reply>>

\* q.session.NewInsert / q.session.NewSelect: a second connection is needed.
SecondConn(c) ==
  /\ Goto(c, "second", "statement")
  /\ \E k \in idle :
       /\ idle' = idle \ {k}
       /\ stmtConn' = [stmtConn EXCEPT ![c] = k]
  /\ UNCHANGED <<rows, op, seen, doomed, txConn, reply>>

\* INSERT ... ON CONFLICT (address, target_type, target_id) DO UPDATE SET
\* reaction, RETURNING *: it commits by itself, keeps the id of the row it
\* updates, and waits for a transaction that is deleting that row.
Upserted(o, id) ==
  [id |-> id, user |-> o.user, target |-> o.target, reaction |-> o.reaction]

\* Mutated Upsert: no ON CONFLICT clause.
UpsertInsertsOnly(c) ==
  /\ Goto(c, "statement", "returned")
  /\ op[c].kind = "set"
  /\ \E id \in {i \in Ids : FreshId(i)} :
       /\ rows' = rows \union {Upserted(op[c], id)}
       /\ seen' = [seen EXCEPT ![c] = Upserted(op[c], id)]
  /\ UNCHANGED <<op, doomed, txConn, stmtConn, idle, reply>>

\* Mutated Upsert: the row lock is not waited for.
UpsertIgnoresLock(c) ==
  LET o == op[c] IN
  /\ Goto(c, "statement", "returned")
  /\ o.kind = "set"
  /\ \E id \in Ids :
       /\ IF OwnRows(o) = {} THEN FreshId(id) ELSE \E r \in OwnRows(o) : id = r.id
       /\ rows' = (rows \ OwnRows(o)) \union {Upserted(o, id)}
       /\ seen' = [seen EXCEPT ![c] = Upserted(o, id)]
  /\ UNCHANGED <<op, doomed, txConn, stmtConn, idle, reply>>

Upsert(c) ==
  LET o == op[c] IN
  /\ Goto(c, "statement", "returned")
  /\ o.kind = "set"
  /\ \A r \in OwnRows(o) : ~Locked(r.id)
  /\ \E id \in Ids :
       /\ IF OwnRows(o) = {} THEN FreshId(id) ELSE \E r \in OwnRows(o) : id = r.id
       /\ rows' = (rows \ OwnRows(o)) \union {Upserted(o, id)}
       /\ seen' = [seen EXCEPT ![c] = Upserted(o, id)]
  /\ UNCHANGED <<op, doomed, txConn, stmtConn, idle, reply>>

\* SELECT ... WHERE target_id, target_type, address: it reads committed rows.
\* No row is sql.ErrNoRows, an error (see Fail).
Select(c) ==
  /\ Goto(c, "statement", "returned")
  /\ op[c].kind = "unset"
  /\ \E r \in OwnRows(op[c]) : seen' = [seen EXCEPT ![c] = r]
  /\ UNCHANGED <<rows, op, doomed, txConn, stmtConn, idle, reply>>

\* Exec / Scan returns and gives the second connection back.
StatementReturns(c) ==
  /\ Goto(c, "returned", IF op[c].kind = "set" THEN "commit" ELSE "delete")
  /\ idle' = idle \union {stmtConn[c]}
  /\ stmtConn' = [stmtConn EXCEPT ![c] = None]
  /\ UNCHANGED <<rows, op, seen, doomed, txConn, reply>>

\* Mutated Delete: a locked row is passed over (SKIP LOCKED).
DeleteSkipsLocked(c) ==
  LET id == seen[c].id IN
  /\ Goto(c, "delete", "commit")
  /\ doomed' = IF ~Locked(id) /\ \E r \in rows : r.id = id
               THEN [doomed EXCEPT ![c] = id]
               ELSE doomed
  /\ UNCHANGED <<rows, op, seen, txConn, stmtConn, idle, reply>>

\* DELETE ... WHERE id = reactionModel.ID in the transaction; it waits for
\* another transaction that is deleting the same row, and may find no row.
Delete(c) ==
  LET id == seen[c].id IN
  /\ Goto(c, "delete", "commit")
  /\ ~Locked(id)
  /\ doomed' = IF \E r \in rows : r.id = id
               THEN [doomed EXCEPT ![c] = id]
               ELSE doomed
  /\ UNCHANGED <<rows, op, seen, txConn, stmtConn, idle, reply>>

\* COMMIT reaches the database.
Commit(c) ==
  /\ Goto(c, "commit", "committed")
  /\ rows' = {r \in rows : r.id # doomed[c]}
  /\ doomed' = [doomed EXCEPT ![c] = None]
  /\ UNCHANGED <<op, seen, txConn, stmtConn, idle, reply>>

\* tx.Commit returns nil: the mutator hands reactionModel to the resolver.
Succeed(c) ==
  /\ Goto(c, "committed", "done")
  /\ idle' = idle \union {txConn[c]}
  /\ txConn' = [txConn EXCEPT ![c] = None]
  /\ reply' = [reply EXCEPT ![c] = "reaction"]
  /\ UNCHANGED <<rows, op, seen, doomed, stmtConn>>

Held(c) == {txConn[c], stmtConn[c]} \ {None}

\* Mutated Fail: the connection of the statement is not given back.
FailLeaks(c) ==
  /\ phase[c] \notin {"idle", "done"}
  /\ phase' = [phase EXCEPT ![c] = "done"]
  /\ doomed' = [doomed EXCEPT ![c] = None]
  /\ idle' = idle \union ({txConn[c]} \ {None})
  /\ txConn' = [txConn EXCEPT ![c] = None]
  /\ stmtConn' = [stmtConn EXCEPT ![c] = None]
  /\ reply' = [reply EXCEPT ![c] = Failure(c)]
  /\ UNCHANGED <<rows, op, seen>>

\* The request's context is cancelled, or a driver call returns an error, at
\* any point before the answer: RunInTx rolls back if COMMIT was not executed.
\* A statement already executed on q.session stays.
Fail(c) ==
  /\ phase[c] \notin {"idle", "done"}
  /\ phase' = [phase EXCEPT ![c] = "done"]
  /\ doomed' = [doomed EXCEPT ![c] = None]
  /\ idle' = idle \union Held(c)
  /\ txConn' = [txConn EXCEPT ![c] = None]
  /\ stmtConn' = [stmtConn EXCEPT ![c] = None]
  /\ reply' = [reply EXCEPT ![c] = Failure(c)]
  /\ UNCHANGED <<rows, op, seen>>

\* The Fail of an UnsetReaction that finds no row.
SelectFindsNone(c) ==
  /\ phase[c] = "statement"
  /\ op[c].kind = "unset"
  /\ OwnRows(op[c]) = {}
  /\ Fail(c)

(***************************************************************************)
(* The reaction queries: one statement on one connection.                  *)
(***************************************************************************)
ReadConn(c) ==
  /\ Goto(c, "begin", "fetch")
  /\ op[c].kind = "read"
  /\ \E k \in idle :
       /\ idle' = idle \ {k}
       /\ stmtConn' = [stmtConn EXCEPT ![c] = k]
  /\ UNCHANGED <<rows, op, seen, doomed, txConn, reply>>

Fetch(c) ==
  /\ Goto(c, "fetch", "done")
  /\ idle' = idle \union {stmtConn[c]}
  /\ stmtConn' = [stmtConn EXCEPT ![c] = None]
  /\ reply' = [reply EXCEPT ![c] = "reaction"]
  /\ UNCHANGED <<rows, op, seen, doomed, txConn>>

(***************************************************************************)
(* The specification                                                       *)
(***************************************************************************)
Acquire(c) == BeginTx(c) \/ SecondConn(c) \/ ReadConn(c)

Run(c) ==
  \/ Upsert(c) \/ Select(c) \/ SelectFindsNone(c) \/ StatementReturns(c)
  \/ Delete(c) \/ Commit(c) \/ Succeed(c) \/ Fetch(c)

Next == \E c \in Calls : Submit(c) \/ Acquire(c) \/ Run(c) \/ Fail(c) \/ Forget(c)

Spec == Init /\ [][Next]_vars

\* The database answers a statement it has received, a row lock goes to the
\* transactions waiting for it in turn, and a released connection to some
\* waiting request, picked at random: each of them in the end, hence SF.
\* Clients need not call, give up or read their answers.
Fairness == \A c \in Calls : SF_vars(Run(c)) /\ SF_vars(Acquire(c))

FairSpec == Spec /\ Fairness
-----------------------------------------------------------------------------
(***************************************************************************)
(* Properties                                                              *)
(***************************************************************************)
\* Types, and which connections, rows and answers belong to which phase.
TypeOK ==
  /\ rows \subseteq Row
  /\ op \in [Calls -> Op \union {None}]
  /\ phase \in [Calls -> Phase]
  /\ seen \in [Calls -> Row \union {None}]
  /\ doomed \in [Calls -> Ids \union {None}]
  /\ txConn \in [Calls -> Conns \union {None}]
  /\ stmtConn \in [Calls -> Conns \union {None}]
  /\ idle \subseteq Conns
  /\ reply \in [Calls -> {"none", "reaction", "null", "error"}]

\* A user has at most one reaction to a target, whatever mutations of the same
\* user race: SetReaction inserts without having looked for a row.
OneReactionPerTarget ==
  \A r1, r2 \in rows :
    r1.user = r2.user /\ r1.target = r2.target => r1 = r2

\* No connection leaks and none is shared: on every path out of RunInTx,
\* errors and cancellations included, each connection is back in the pool or
\* held by exactly one request, once.
PoolConserved ==
  \A k \in Conns :
    LET holders == {c \in Calls : k \in Held(c)} IN
    IF k \in idle
    THEN holders = {}
    ELSE \E c \in holders : holders = {c} /\ txConn[c] # stmtConn[c]

\* A row that an open transaction is deleting stays as it is, neither updated
\* by the INSERT of a SetReaction nor removed, until that transaction commits;
\* and meanwhile no other transaction deletes it too.
LockedRowStays ==
  [][\A c \in Calls, r \in rows :
       doomed[c] = r.id =>
         /\ r \in rows' \/ phase'[c] = "committed"
         /\ \A d \in Calls \ {c} : doomed[d] # r.id /\ doomed'[d] # r.id]_vars

\* An UnsetReaction answered with a reaction has removed that row, or another
\* one did: it never succeeds on a row that a rollback brings back.
AnsweredUnsetIsGone ==
  \A c \in Calls :
    /\ phase[c] = "done"
    /\ op[c].kind = "unset"
    /\ reply[c] = "reaction"
    => \A r \in rows : r.id # seen[c].id

\* The DELETE names a row by an id read earlier, outside its transaction, yet
\* a row goes away only through an UnsetReaction of its user on its target.
OnlyOwnRowsVanish ==
  [][\A r \in rows :
       (\A s \in rows' : s.id # r.id) =>
         \E c \in Calls :
           /\ phase[c] = "commit"
           /\ op[c] = [kind |-> "unset", user |-> r.user, target |-> r.target]]_vars

\* Requests in flight that no step but a cancellation can help.
Blocked(c) == Waiting(c) /\ idle = {}

Wedged ==
  /\ \E c \in Calls : Blocked(c)
  /\ \A c \in Calls : phase[c] \in {"idle", "done"} \/ Blocked(c)

\* When the server stops, the whole pool is held by transactions waiting for
\* their second connection: queries and finished calls never contribute.
WedgeIsAllTransactions ==
  Wedged => \A k \in Conns : \E c \in Calls : txConn[c] = k /\ phase[c] = "second"

\* The server stops only if at least as many mutations are in flight as the
\* pool has connections (SERVER_DATABASE_POOL_SIZE, 5 by default).
NeverWedged == ~Wedged

\* The inductive invariant behind the safety properties: what the phase of a
\* call says of its request, its connections and the row it has read.
TxPhase == {"second", "statement", "returned", "delete", "commit", "committed"}

PhaseFits ==
  \A c \in Calls :
    /\ op[c] = None <=> phase[c] = "idle"
    /\ txConn[c] # None <=> phase[c] \in TxPhase
    /\ stmtConn[c] # None <=> phase[c] \in {"statement", "returned", "fetch"}
    /\ phase[c] \in TxPhase => op[c].kind # "read"
    /\ phase[c] = "fetch" => op[c].kind = "read"
    /\ phase[c] \in {"idle", "begin", "second", "statement", "fetch"} => seen[c] = None
    /\ phase[c] \in {"returned", "delete", "commit", "committed"} => seen[c] # None
    /\ phase[c] = "delete" => op[c].kind = "unset"
    /\ seen[c] # None => seen[c].user = op[c].user /\ seen[c].target = op[c].target
    /\ phase[c] = "done" <=> reply[c] # "none"

ConnsExclusive ==
  /\ \A c, d \in Calls :
       /\ txConn[c] # None =>
            /\ txConn[c] \notin idle
            /\ txConn[c] # stmtConn[d]
            /\ c # d => txConn[c] # txConn[d]
       /\ stmtConn[c] # None =>
            /\ stmtConn[c] \notin idle
            /\ c # d => stmtConn[c] # stmtConn[d]
  /\ \A k \in Conns : k \in idle \/ \E c \in Calls : txConn[c] = k \/ stmtConn[c] = k

RowsKeyed ==
  /\ \A r1, r2 \in rows : r1.id = r2.id => r1 = r2
  /\ \A c \in Calls, r \in rows :
       seen[c] # None /\ r.id = seen[c].id =>
         r.user = seen[c].user /\ r.target = seen[c].target

LocksFit ==
  \A c \in Calls :
    doomed[c] # None =>
      /\ phase[c] = "commit"
      /\ op[c].kind = "unset"
      /\ doomed[c] = seen[c].id
      /\ \E r \in rows : r.id = doomed[c]
      /\ \A d \in Calls \ {c} : doomed[d] # doomed[c]

\* The row read by an UnsetReaction past its DELETE, if not locked, is gone.
UnsetGone ==
  \A c \in Calls :
    /\ op[c] # None
    /\ op[c].kind = "unset"
    /\ \/ phase[c] = "commit" /\ doomed[c] = None
       \/ phase[c] = "committed"
       \/ phase[c] = "done" /\ reply[c] = "reaction"
    => seen[c] # None /\ \A r \in rows : r.id # seen[c].id

IInv ==
  /\ TypeOK
  /\ PhaseFits
  /\ ConnsExclusive
  /\ OneReactionPerTarget
  /\ RowsKeyed
  /\ LocksFit
  /\ UnsetGone

\* Every request is answered if the pool can serve it.
EveryCallAnswered == \A c \in Calls : phase[c] = "begin" ~> phase[c] = "done"

(***************************************************************************)
(* Refinement: connections, transactions and row identifiers are invisible *)
(* to the callers.  A SetReaction takes effect with its INSERT, an         *)
(* UnsetReaction when the row it has read goes, whoever deletes it.        *)
(***************************************************************************)
Mutation(c) == op[c] # None /\ op[c].kind # "read"

TookEffect(c) ==
  /\ Mutation(c)
  /\ phase[c] # "done"
  /\ seen[c] # None
  /\ op[c].kind = "unset" => \A r \in rows : r.id # seen[c].id

Answered(c) == Mutation(c) /\ phase[c] = "done"

Entries == {<<r.user, r.target, r.reaction>> : r \in rows}
Requests == [c \in Calls |-> IF Mutation(c) THEN op[c] ELSE None]
Applied == [c \in Calls |-> TookEffect(c)]
Outcomes == [c \in Calls |-> IF Answered(c) THEN reply[c] = "reaction" ELSE None]

Book == INSTANCE ReactionBook WITH
  book <- Entries, request <- Requests, applied <- Applied, outcome <- Outcomes

\* Concurrent mutations look like calls that take effect one at a time, each at
\* most once and between its submission and its answer.
ImplementsBook == Book!Spec
=============================================================================
