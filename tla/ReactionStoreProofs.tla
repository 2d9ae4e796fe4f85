------------------------- MODULE ReactionStoreProofs -------------------------
(***************************************************************************)
(* Proofs about ReactionStore, for any sets of users, targets, calls,      *)
(* connections and identifiers.  IInv is inductive; the safety properties  *)
(* of the module follow from it.                                           *)
(***************************************************************************)
EXTENDS ReactionStore, FiniteSets, FiniteSetTheorems, TLAPS

USE NoneIsNoValue

\* The empty table, with every connection in the pool, satisfies IInv.
LEMMA InitIInv == Init => IInv
  BY DEF Init, IInv, TypeOK, PhaseFits, ConnsExclusive, OneReactionPerTarget,
         RowsKeyed, LocksFit, UnsetGone, Phase, TxPhase

\* Accepting a request preserves IInv.
LEMMA SubmitIInv ==
  ASSUME IInv, NEW c \in Calls, Submit(c)
  PROVE  IInv'
<1>1. TypeOK'
  BY DEF IInv, TypeOK, Submit, Goto, Phase
<1>2. PhaseFits'
  BY DEF IInv, TypeOK, PhaseFits, Submit, Goto, Phase, TxPhase
<1>3. ConnsExclusive'
  BY DEF IInv, TypeOK, ConnsExclusive, Submit, Goto
<1>4. OneReactionPerTarget' /\ RowsKeyed'
  BY DEF IInv, OneReactionPerTarget, RowsKeyed, Submit, Goto
<1>5. LocksFit'
  BY DEF IInv, TypeOK, PhaseFits, LocksFit, Submit, Goto
<1>6. UnsetGone'
  BY DEF IInv, TypeOK, UnsetGone, Submit, Goto
<1> QED BY <1>1, <1>2, <1>3, <1>4, <1>5, <1>6 DEF IInv

\* Reusing a call whose answer was read preserves IInv.
LEMMA ForgetIInv ==
  ASSUME IInv, NEW c \in Calls, Forget(c)
  PROVE  IInv'
<1>1. TypeOK'
  BY DEF IInv, TypeOK, Forget, Goto, Phase
<1>2. PhaseFits'
  BY DEF IInv, TypeOK, PhaseFits, Forget, Goto, Phase, TxPhase
<1>3. ConnsExclusive'
  BY DEF IInv, TypeOK, ConnsExclusive, Forget, Goto
<1>4. OneReactionPerTarget' /\ RowsKeyed'
  BY DEF IInv, TypeOK, OneReactionPerTarget, RowsKeyed, Forget, Goto
<1>5. LocksFit'
  BY DEF IInv, TypeOK, PhaseFits, LocksFit, Forget, Goto
<1>6. UnsetGone'
  BY DEF IInv, TypeOK, UnsetGone, Forget, Goto
<1> QED BY <1>1, <1>2, <1>3, <1>4, <1>5, <1>6 DEF IInv

\* Taking the first connection, for BEGIN, preserves IInv.
LEMMA BeginTxIInv ==
  ASSUME IInv, NEW c \in Calls, BeginTx(c)
  PROVE  IInv'
<1> PICK k \in idle : idle' = idle \ {k} /\ txConn' = [txConn EXCEPT ![c] = k]
  BY DEF BeginTx
<1>1. TypeOK'
  BY DEF IInv, TypeOK, BeginTx, Goto, Phase
<1>2. PhaseFits'
  BY DEF IInv, TypeOK, PhaseFits, BeginTx, Goto, Phase, TxPhase
<1>3. ConnsExclusive'
  BY DEF IInv, TypeOK, PhaseFits, ConnsExclusive, BeginTx, Goto, TxPhase
<1>4. OneReactionPerTarget' /\ RowsKeyed'
  BY DEF IInv, OneReactionPerTarget, RowsKeyed, BeginTx, Goto
<1>5. LocksFit'
  BY DEF IInv, TypeOK, PhaseFits, LocksFit, BeginTx, Goto
<1>6. UnsetGone'
  BY DEF IInv, TypeOK, UnsetGone, BeginTx, Goto
<1> QED BY <1>1, <1>2, <1>3, <1>4, <1>5, <1>6 DEF IInv

\* Taking the second connection, for a statement on q.session, preserves IInv.
LEMMA SecondConnIInv ==
  ASSUME IInv, NEW c \in Calls, SecondConn(c)
  PROVE  IInv'
<1> PICK k \in idle : idle' = idle \ {k} /\ stmtConn' = [stmtConn EXCEPT ![c] = k]
  BY DEF SecondConn
<1>1. TypeOK'
  BY DEF IInv, TypeOK, SecondConn, Goto, Phase
<1>2. PhaseFits'
  BY DEF IInv, TypeOK, PhaseFits, SecondConn, Goto, Phase, TxPhase
<1>3. ConnsExclusive'
  BY DEF IInv, TypeOK, PhaseFits, ConnsExclusive, SecondConn, Goto, TxPhase
<1>4. OneReactionPerTarget' /\ RowsKeyed'
  BY DEF IInv, OneReactionPerTarget, RowsKeyed, SecondConn, Goto
<1>5. LocksFit'
  BY DEF IInv, TypeOK, PhaseFits, LocksFit, SecondConn, Goto
<1>6. UnsetGone'
  BY DEF IInv, TypeOK, UnsetGone, SecondConn, Goto
<1> QED BY <1>1, <1>2, <1>3, <1>4, <1>5, <1>6 DEF IInv

\* Taking the one connection of a query preserves IInv.
LEMMA ReadConnIInv ==
  ASSUME IInv, NEW c \in Calls, ReadConn(c)
  PROVE  IInv'
<1> PICK k \in idle : idle' = idle \ {k} /\ stmtConn' = [stmtConn EXCEPT ![c] = k]
  BY DEF ReadConn
<1>1. TypeOK'
  BY DEF IInv, TypeOK, ReadConn, Goto, Phase
<1>2. PhaseFits'
  BY DEF IInv, TypeOK, PhaseFits, ReadConn, Goto, Phase, TxPhase
<1>3. ConnsExclusive'
  BY DEF IInv, TypeOK, PhaseFits, ConnsExclusive, ReadConn, Goto, TxPhase
<1>4. OneReactionPerTarget' /\ RowsKeyed'
  BY DEF IInv, OneReactionPerTarget, RowsKeyed, ReadConn, Goto
<1>5. LocksFit'
  BY DEF IInv, TypeOK, PhaseFits, LocksFit, ReadConn, Goto
<1>6. UnsetGone'
  BY DEF IInv, TypeOK, UnsetGone, ReadConn, Goto
<1> QED BY <1>1, <1>2, <1>3, <1>4, <1>5, <1>6 DEF IInv

\* The INSERT ... ON CONFLICT DO UPDATE preserves IInv: it keeps the id of the
\* row it updates, and a new row takes an id nobody remembers.
LEMMA UpsertIInv ==
  ASSUME IInv, NEW c \in Calls, Upsert(c)
  PROVE  IInv'
<1> DEFINE o == op[c]
<1> PICK id \in Ids :
      /\ IF OwnRows(o) = {} THEN FreshId(id) ELSE \E r \in OwnRows(o) : id = r.id
      /\ rows' = (rows \ OwnRows(o)) \union {Upserted(o, id)}
      /\ seen' = [seen EXCEPT ![c] = Upserted(o, id)]
  BY DEF Upsert
<1>0. o \in [kind : {"set"}, user : Users, target : Targets, reaction : Reactions]
  BY DEF IInv, TypeOK, PhaseFits, Upsert, Goto, Op
<1>a. Upserted(o, id) \in Row
  BY <1>0 DEF Upserted, Row
<1>1. TypeOK'
  BY <1>a DEF IInv, TypeOK, Upsert, Goto, Phase
<1>2. PhaseFits'
  BY <1>a DEF IInv, TypeOK, PhaseFits, Upsert, Upserted, Goto, Phase, TxPhase
<1>3. ConnsExclusive'
  BY DEF IInv, TypeOK, ConnsExclusive, Upsert, Goto
<1>4. OneReactionPerTarget'
  BY DEF IInv, OneReactionPerTarget, OwnRows, Upserted
<1>b. \A r \in rows \ OwnRows(o) : r.id # id
  BY DEF IInv, RowsKeyed, OwnRows, FreshId
<1>c. \A d \in Calls : d # c /\ seen[d] # None /\ seen[d].id = id =>
        seen[d].user = o.user /\ seen[d].target = o.target
  BY DEF IInv, RowsKeyed, OwnRows, FreshId
<1>5. RowsKeyed'
  BY <1>a, <1>b, <1>c DEF IInv, TypeOK, RowsKeyed, OwnRows, Upserted, FreshId
<1>6. LocksFit'
  BY <1>b DEF IInv, TypeOK, LocksFit, Upsert, Goto, OwnRows, Locked, Upserted, Row
<1>7. UnsetGone'
  <2> SUFFICES ASSUME NEW d \in Calls, op[d] # None, op[d].kind = "unset",
                      \/ phase'[d] = "commit" /\ doomed[d] = None
                      \/ phase'[d] = "committed"
                      \/ phase'[d] = "done" /\ reply[d] = "reaction"
               PROVE  seen'[d] # None /\ \A r \in rows' : r.id # seen'[d].id
    BY DEF UnsetGone, Upsert
  <2>1. d # c
    BY <1>0
  <2>2. seen'[d] = seen[d] /\ phase'[d] = phase[d]
    BY <2>1 DEF IInv, TypeOK, Upsert, Goto
  <2>3. seen[d] # None /\ \A r \in rows : r.id # seen[d].id
    BY <2>2 DEF IInv, UnsetGone
  <2>4. id # seen[d].id
    BY <2>3 DEF FreshId, OwnRows
  <2> QED BY <2>2, <2>3, <2>4 DEF Upserted
<1> QED BY <1>1, <1>2, <1>3, <1>4, <1>5, <1>6, <1>7 DEF IInv

\* The SELECT of UnsetReaction preserves IInv.
LEMMA SelectIInv ==
  ASSUME IInv, NEW c \in Calls, Select(c)
  PROVE  IInv'
<1> PICK row \in OwnRows(op[c]) : seen' = [seen EXCEPT ![c] = row]
  BY DEF Select
<1>0. row \in rows /\ row \in Row
  BY DEF IInv, TypeOK, OwnRows
<1>1. TypeOK'
  BY <1>0 DEF IInv, TypeOK, Select, Goto, Phase
<1>2. PhaseFits'
  BY <1>0 DEF IInv, TypeOK, PhaseFits, OwnRows, Select, Goto, Phase, TxPhase
<1>3. ConnsExclusive'
  BY DEF IInv, TypeOK, ConnsExclusive, Select, Goto
<1>4. OneReactionPerTarget' /\ RowsKeyed'
  BY <1>0 DEF IInv, TypeOK, OneReactionPerTarget, RowsKeyed, Select, Goto
<1>5. LocksFit'
  BY DEF IInv, TypeOK, PhaseFits, LocksFit, Select, Goto
<1>6. UnsetGone'
  BY DEF IInv, TypeOK, UnsetGone, Select, Goto
<1> QED BY <1>1, <1>2, <1>3, <1>4, <1>5, <1>6 DEF IInv

\* Giving the second connection back preserves IInv.
LEMMA StatementReturnsIInv ==
  ASSUME IInv, NEW c \in Calls, StatementReturns(c)
  PROVE  IInv'
<1>0. stmtConn[c] \in Conns
  BY DEF IInv, TypeOK, PhaseFits, StatementReturns, Goto
<1>1. TypeOK'
  BY <1>0 DEF IInv, TypeOK, StatementReturns, Goto, Phase
<1>2. PhaseFits'
  <2>1. op[c].kind # "set" => op[c].kind = "unset"
    BY DEF IInv, TypeOK, PhaseFits, StatementReturns, Goto, TxPhase, Op
  <2> QED
    BY <2>1 DEF IInv, TypeOK, PhaseFits, StatementReturns, Goto, Phase, TxPhase
<1>3. ConnsExclusive'
  BY <1>0 DEF IInv, TypeOK, ConnsExclusive, StatementReturns, Goto
<1>4. OneReactionPerTarget' /\ RowsKeyed'
  BY DEF IInv, TypeOK, OneReactionPerTarget, RowsKeyed, StatementReturns, Goto
<1>5. LocksFit'
  BY DEF IInv, TypeOK, PhaseFits, LocksFit, StatementReturns, Goto
<1>6. UnsetGone'
  BY DEF IInv, TypeOK, UnsetGone, StatementReturns, Goto
<1> QED BY <1>1, <1>2, <1>3, <1>4, <1>5, <1>6 DEF IInv

\* The DELETE by id preserves IInv: it locks the row it has found, or the row
\* is already gone for good.
LEMMA DeleteIInv ==
  ASSUME IInv, NEW c \in Calls, Delete(c)
  PROVE  IInv'
<1>0. seen[c] \in Row /\ op[c].kind = "unset" /\ op[c] # None /\ doomed[c] = None
  BY DEF IInv, TypeOK, PhaseFits, LocksFit, Delete, Goto
<1>a. seen[c].id \in Ids /\ seen[c].id # None
  BY <1>0 DEF Row
<1>1. TypeOK'
  BY <1>a DEF IInv, TypeOK, Delete, Goto, Phase
<1>2. PhaseFits'
  BY <1>0 DEF IInv, TypeOK, PhaseFits, Delete, Goto, Phase, TxPhase
<1>3. ConnsExclusive'
  BY DEF IInv, TypeOK, ConnsExclusive, Delete, Goto
<1>4. OneReactionPerTarget' /\ RowsKeyed'
  BY DEF IInv, TypeOK, OneReactionPerTarget, RowsKeyed, Delete, Goto
<1>5. LocksFit'
  BY <1>0, <1>a DEF IInv, TypeOK, LocksFit, Delete, Goto, Locked
<1>6. UnsetGone'
  <2>1. CASE \E r \in rows : r.id = seen[c].id
    BY <2>1, <1>0, <1>a DEF IInv, TypeOK, UnsetGone, Delete, Goto
  <2>2. CASE ~ \E r \in rows : r.id = seen[c].id
    BY <2>2, <1>0 DEF IInv, TypeOK, UnsetGone, Delete, Goto
  <2> QED BY <2>1, <2>2
<1> QED BY <1>1, <1>2, <1>3, <1>4, <1>5, <1>6 DEF IInv

\* COMMIT preserves IInv: only the row locked by this transaction goes.
LEMMA CommitIInv ==
  ASSUME IInv, NEW c \in Calls, Commit(c)
  PROVE  IInv'
<1>1. TypeOK'
  BY DEF IInv, TypeOK, Commit, Goto, Phase
<1>2. PhaseFits'
  BY DEF IInv, TypeOK, PhaseFits, Commit, Goto, Phase, TxPhase
<1>3. ConnsExclusive'
  BY DEF IInv, TypeOK, ConnsExclusive, Commit, Goto
<1>4. OneReactionPerTarget' /\ RowsKeyed'
  BY DEF IInv, TypeOK, OneReactionPerTarget, RowsKeyed, Commit, Goto
<1>5. LocksFit'
  BY DEF IInv, TypeOK, LocksFit, Commit, Goto
<1>6. UnsetGone'
  <2> SUFFICES ASSUME NEW d \in Calls, op[d] # None, op[d].kind = "unset",
                      \/ phase'[d] = "commit" /\ doomed'[d] = None
                      \/ phase'[d] = "committed"
                      \/ phase'[d] = "done" /\ reply[d] = "reaction"
               PROVE  seen[d] # None /\ \A r \in rows' : r.id # seen[d].id
    BY DEF UnsetGone, Commit
  <2>1. CASE d = c
    <3>1. seen[d] # None
      BY <2>1 DEF IInv, PhaseFits, Commit, Goto
    <3>2. CASE doomed[c] = None
      BY <2>1, <3>1, <3>2 DEF IInv, UnsetGone, Commit, Goto
    <3>3. CASE doomed[c] # None
      BY <2>1, <3>1, <3>3 DEF IInv, LocksFit, Commit
    <3> QED BY <3>2, <3>3
  <2>2. CASE d # c
    BY <2>2 DEF IInv, TypeOK, UnsetGone, Commit, Goto
  <2> QED BY <2>1, <2>2
<1> QED BY <1>1, <1>2, <1>3, <1>4, <1>5, <1>6 DEF IInv

\* Answering a mutation that committed preserves IInv.
LEMMA SucceedIInv ==
  ASSUME IInv, NEW c \in Calls, Succeed(c)
  PROVE  IInv'
<1>0. txConn[c] \in Conns
  BY DEF IInv, TypeOK, PhaseFits, Succeed, Goto, TxPhase
<1>1. TypeOK'
  BY <1>0 DEF IInv, TypeOK, Succeed, Goto, Phase
<1>2. PhaseFits'
  BY DEF IInv, TypeOK, PhaseFits, Succeed, Goto, Phase, TxPhase
<1>3. ConnsExclusive'
  BY <1>0 DEF IInv, TypeOK, ConnsExclusive, Succeed, Goto
<1>4. OneReactionPerTarget' /\ RowsKeyed'
  BY DEF IInv, TypeOK, OneReactionPerTarget, RowsKeyed, Succeed, Goto
<1>5. LocksFit'
  BY DEF IInv, TypeOK, PhaseFits, LocksFit, Succeed, Goto
<1>6. UnsetGone'
  BY DEF IInv, TypeOK, UnsetGone, Succeed, Goto
<1> QED BY <1>1, <1>2, <1>3, <1>4, <1>5, <1>6 DEF IInv

\* A cancelled or failing call preserves IInv: it gives everything back.
LEMMA FailIInv ==
  ASSUME IInv, NEW c \in Calls, Fail(c)
  PROVE  IInv'
<1>0. Failure(c) \in {"null", "error"}
  BY DEF Failure
<1>1. TypeOK'
  BY <1>0 DEF IInv, TypeOK, Fail, Held, Phase
<1>2. PhaseFits'
  BY <1>0 DEF IInv, TypeOK, PhaseFits, Fail, Phase, TxPhase
<1>3. ConnsExclusive'
  BY DEF IInv, TypeOK, ConnsExclusive, Fail, Held
<1>4. OneReactionPerTarget' /\ RowsKeyed'
  BY DEF IInv, TypeOK, OneReactionPerTarget, RowsKeyed, Fail
<1>5. LocksFit'
  BY DEF IInv, TypeOK, PhaseFits, LocksFit, Fail
<1>6. UnsetGone'
  BY <1>0 DEF IInv, TypeOK, UnsetGone, Fail
<1> QED BY <1>1, <1>2, <1>3, <1>4, <1>5, <1>6 DEF IInv

\* Answering a query preserves IInv.
LEMMA FetchIInv ==
  ASSUME IInv, NEW c \in Calls, Fetch(c)
  PROVE  IInv'
<1>0. stmtConn[c] \in Conns
  BY DEF IInv, TypeOK, PhaseFits, Fetch, Goto
<1>1. TypeOK'
  BY <1>0 DEF IInv, TypeOK, Fetch, Goto, Phase
<1>2. PhaseFits'
  BY DEF IInv, TypeOK, PhaseFits, Fetch, Goto, Phase, TxPhase
<1>3. ConnsExclusive'
  BY <1>0 DEF IInv, TypeOK, ConnsExclusive, Fetch, Goto
<1>4. OneReactionPerTarget' /\ RowsKeyed'
  BY DEF IInv, TypeOK, OneReactionPerTarget, RowsKeyed, Fetch, Goto
<1>5. LocksFit'
  BY DEF IInv, TypeOK, PhaseFits, LocksFit, Fetch, Goto
<1>6. UnsetGone'
  BY DEF IInv, TypeOK, PhaseFits, UnsetGone, Fetch, Goto
<1> QED BY <1>1, <1>2, <1>3, <1>4, <1>5, <1>6 DEF IInv

\* Every step preserves IInv.
LEMMA NextIInv == IInv /\ [Next]_vars => IInv'
<1> SUFFICES ASSUME IInv, [Next]_vars PROVE IInv'
  OBVIOUS
<1>1. ASSUME NEW c \in Calls,
             Submit(c) \/ Acquire(c) \/ Run(c) \/ Fail(c) \/ Forget(c)
      PROVE  IInv'
  BY <1>1, SubmitIInv, ForgetIInv, BeginTxIInv, SecondConnIInv, ReadConnIInv,
     UpsertIInv, SelectIInv, StatementReturnsIInv, DeleteIInv, CommitIInv,
     SucceedIInv, FailIInv, FetchIInv
     DEF Acquire, Run, SelectFindsNone
<1>2. CASE UNCHANGED vars
  BY <1>2 DEF vars, IInv, TypeOK, PhaseFits, ConnsExclusive, OneReactionPerTarget,
              RowsKeyed, LocksFit, UnsetGone
<1> QED BY <1>1, <1>2 DEF Next

\* IInv holds of every reachable state, for every instance of the constants.
THEOREM Invariance == Spec => []IInv
  BY InitIInv, NextIInv, PTL DEF Spec

-----------------------------------------------------------------------------
\* A user never has two reactions to one target, however mutations interleave.
THEOREM ReactionUnique == Spec => []OneReactionPerTarget
  BY Invariance, PTL DEF IInv

\* No connection of the pool is lost or shared on any path out of RunInTx.
THEOREM PoolIsConserved == Spec => []PoolConserved
<1>1. IInv => PoolConserved
  <2> SUFFICES ASSUME IInv, NEW k \in Conns
               PROVE  LET holders == {c \in Calls : k \in Held(c)} IN
                      IF k \in idle THEN holders = {}
                      ELSE \E c \in holders : holders = {c} /\ txConn[c] # stmtConn[c]
    BY DEF PoolConserved
  <2> DEFINE holders == {c \in Calls : k \in Held(c)}
  <2>0. k # None
    OBVIOUS
  <2>1. CASE k \in idle
    BY <2>0, <2>1 DEF IInv, ConnsExclusive, Held
  <2>2. CASE k \notin idle
    <3>1. PICK c \in Calls : txConn[c] = k \/ stmtConn[c] = k
      BY <2>2 DEF IInv, ConnsExclusive
    <3>2. holders = {c}
      BY <3>1, <2>0 DEF IInv, ConnsExclusive, Held
    <3>3. txConn[c] # stmtConn[c]
      BY <3>1, <2>0 DEF IInv, ConnsExclusive
    <3> QED BY <2>2, <3>2, <3>3
  <2> QED BY <2>1, <2>2
<1> QED BY <1>1, Invariance, PTL

\* A row under deletion stays as it is until its deleter commits, and has no
\* other deleter: the upsert and the other deletes wait for its lock.
THEOREM LockedRowIsStable == Spec => LockedRowStays
<1> DEFINE Stays == \A c \in Calls, r \in rows :
             doomed[c] = r.id =>
               /\ r \in rows' \/ phase'[c] = "committed"
               /\ \A d \in Calls \ {c} : doomed[d] # r.id /\ doomed'[d] # r.id
<1>1. IInv /\ [Next]_vars => [Stays]_vars
  <2> SUFFICES ASSUME IInv, Next, NEW c \in Calls, NEW r \in rows, doomed[c] = r.id
               PROVE  /\ r \in rows' \/ phase'[c] = "committed"
                      /\ \A d \in Calls \ {c} : doomed[d] # r.id /\ doomed'[d] # r.id
    OBVIOUS
  <2>1. r.id \in Ids /\ r.id # None
    BY NoneIsNoValue DEF IInv, TypeOK, Row
  <2>2. \A d \in Calls \ {c} : doomed[d] # r.id
    BY <2>1 DEF IInv, LocksFit
  <2>3. PICK b \in Calls : Submit(b) \/ Acquire(b) \/ Run(b) \/ Fail(b) \/ Forget(b)
    BY DEF Next
  <2>4. CASE Upsert(b)
    <3>1. r \notin OwnRows(op[b])
      BY <2>4 DEF Upsert, Locked
    <3>2. r \in rows' /\ doomed' = doomed
      BY <2>4, <3>1 DEF Upsert
    <3> QED BY <2>2, <3>2
  <2>5. CASE Commit(b)
    <3>1. b # c => r \in rows'
      BY <2>2, <2>5 DEF Commit
    <3>2. b = c => phase'[c] = "committed"
      BY <2>5 DEF Commit, Goto, IInv, TypeOK
    <3>3. \A d \in Calls \ {c} : doomed'[d] # r.id
      BY <2>1, <2>2, <2>5 DEF Commit, IInv, TypeOK
    <3> QED BY <2>2, <3>1, <3>2, <3>3
  <2>6. CASE Delete(b)
    <3>1. seen[b].id # r.id
      BY <2>6 DEF Delete, Locked
    <3>2. \A d \in Calls \ {c} : doomed'[d] # r.id
      BY <2>2, <2>6, <3>1 DEF Delete, IInv, TypeOK
    <3> QED BY <2>2, <2>6, <3>2 DEF Delete
  <2>7. CASE Fail(b)
    <3>1. \A d \in Calls \ {c} : doomed'[d] # r.id
      BY <2>1, <2>2, <2>7 DEF Fail, IInv, TypeOK
    <3> QED BY <2>2, <2>7, <3>1 DEF Fail
  <2>8. CASE ~(Upsert(b) \/ Commit(b) \/ Delete(b) \/ Fail(b))
    <3>1. rows' = rows /\ doomed' = doomed
      BY <2>3, <2>8
         DEF Acquire, Run, Submit, BeginTx, SecondConn, ReadConn, Select,
             SelectFindsNone, StatementReturns, Succeed, Fetch, Forget
    <3> QED BY <2>2, <3>1
  <2> QED BY <2>4, <2>5, <2>6, <2>7, <2>8
<1> QED BY <1>1, Invariance, PTL DEF Spec, LockedRowStays

\* A successful UnsetReaction is never undone by another one's rollback.
THEOREM AnsweredUnsetStaysGone == Spec => []AnsweredUnsetIsGone
<1>1. IInv => AnsweredUnsetIsGone
  BY DEF IInv, PhaseFits, UnsetGone, AnsweredUnsetIsGone
<1> QED BY <1>1, Invariance, PTL

\* Deleting by id never touches another user's or another target's reaction.
THEOREM RowsVanishByOwner == Spec => OnlyOwnRowsVanish
<1> DEFINE Owned == \A r \in rows :
             (\A s \in rows' : s.id # r.id) =>
               \E c \in Calls :
                 /\ phase[c] = "commit"
                 /\ op[c] = [kind |-> "unset", user |-> r.user, target |-> r.target]
<1>1. IInv /\ [Next]_vars => [Owned]_vars
  <2> SUFFICES ASSUME IInv, Next, NEW r \in rows, \A s \in rows' : s.id # r.id
               PROVE  \E c \in Calls :
                        /\ phase[c] = "commit"
                        /\ op[c] = [kind |-> "unset", user |-> r.user, target |-> r.target]
    OBVIOUS
  <2>1. PICK c \in Calls : Upsert(c) \/ Commit(c)
    BY DEF Next, Acquire, Run, Submit, BeginTx, SecondConn, ReadConn, Select,
           SelectFindsNone, StatementReturns, Delete, Succeed, Fetch, Fail, Forget
  <2>2. ~Upsert(c)
    <3> SUFFICES ASSUME Upsert(c) PROVE FALSE
      OBVIOUS
    <3>1. PICK id \in Ids :
            /\ IF OwnRows(op[c]) = {} THEN FreshId(id)
               ELSE \E q \in OwnRows(op[c]) : id = q.id
            /\ rows' = (rows \ OwnRows(op[c])) \union {Upserted(op[c], id)}
      BY DEF Upsert
    <3>2. r \in OwnRows(op[c])
      BY <3>1
    <3>3. r.id = id
      BY <3>1, <3>2 DEF IInv, OneReactionPerTarget, OwnRows
    <3>4. Upserted(op[c], id) \in rows' /\ Upserted(op[c], id).id = id
      BY <3>1 DEF Upserted
    <3> QED BY <3>3, <3>4
  <2>3. phase[c] = "commit" /\ r.id = doomed[c] /\ doomed[c] # None
    BY <2>1, <2>2 DEF Commit, Goto, IInv, TypeOK, Row
  <2>4. op[c].kind = "unset" /\ doomed[c] = seen[c].id /\ seen[c] # None
    BY <2>3 DEF IInv, LocksFit, PhaseFits
  <2>5. r.user = op[c].user /\ r.target = op[c].target
    BY <2>3, <2>4 DEF IInv, RowsKeyed, PhaseFits
  <2>6. op[c] \in [kind : {"unset", "read"}, user : Users, target : Targets]
    BY <2>3, <2>4 DEF IInv, TypeOK, PhaseFits, Op
  <2> QED BY <2>3, <2>4, <2>5, <2>6
<1> QED BY <1>1, Invariance, PTL DEF Spec, OnlyOwnRowsVanish

\* Whenever the server stops, transactions waiting for their second connection
\* hold the whole pool.
LEMMA WedgeShape == IInv => WedgeIsAllTransactions
<1> SUFFICES ASSUME IInv, Wedged, NEW k \in Conns
             PROVE  \E c \in Calls : txConn[c] = k /\ phase[c] = "second"
  BY DEF WedgeIsAllTransactions
<1>1. PICK c \in Calls : txConn[c] = k \/ stmtConn[c] = k
  BY DEF IInv, ConnsExclusive, Wedged, Blocked
<1>2. phase[c] \in {"idle", "done", "begin", "second"}
  BY DEF Wedged, Blocked, Waiting
<1> QED BY <1>1, <1>2 DEF IInv, PhaseFits, TxPhase

\* A stopped server has its whole pool held by mutations waiting for their
\* second connection: neither queries nor answered calls leak any.
THEOREM WedgeOnlyByTransactions == Spec => []WedgeIsAllTransactions
  BY WedgeShape, Invariance, PTL

\* With fewer requests in flight than connections the server never stops.
THEOREM SparePool ==
  ASSUME IsFiniteSet(Calls), IsFiniteSet(Conns),
         Cardinality(Calls) < Cardinality(Conns)
  PROVE  Spec => []NeverWedged
<1>1. IInv => NeverWedged
  <2> SUFFICES ASSUME IInv, Wedged PROVE FALSE
    BY DEF NeverWedged
  <2> DEFINE holder == [k \in Conns |-> CHOOSE c \in Calls : txConn[c] = k]
  <2>1. \A k \in Conns : holder[k] \in Calls /\ txConn[holder[k]] = k
    BY WedgeShape DEF WedgeIsAllTransactions
  <2>2. holder \in [Conns -> Calls]
    BY <2>1
  <2> HIDE DEF holder
  <2>3. PICK k, l \in Conns : k # l /\ holder[k] = holder[l]
    BY <2>2, FS_PigeonHole
  <2> QED BY <2>1, <2>3
<1> QED BY <1>1, Invariance, PTL

(***************************************************************************)
(* The reaction table implements ReactionBook: every step of ReactionStore *)
(* is, seen through Entries, Requests, Applied and Outcomes, a step of     *)
(* ReactionBook or a stuttering step.                                      *)
(***************************************************************************)

\* The empty table maps to the empty book.
LEMMA InitBook == Init => Book!Init
  BY DEF Init, Book!Init, Entries, Requests, Applied, Outcomes, Mutation,
         TookEffect, Answered

\* A step that leaves the rows alone, moves no call in or out of "done", and
\* changes what a call has seen only to a row still in the table, is invisible.
LEMMA Invisible ==
  ASSUME IInv, UNCHANGED <<rows, op, reply>>,
         NEW c \in Calls, phase[c] # "done", phase'[c] # "done",
         \A d \in Calls \ {c} : phase'[d] = phase[d] /\ seen'[d] = seen[d],
         \/ seen'[c] = seen[c]
         \/ /\ seen[c] = None
            /\ op[c].kind = "unset"
            /\ \E r \in rows : seen'[c] = r
  PROVE  UNCHANGED Book!vars
<1>1. \A d \in Calls : (phase'[d] = "done") <=> (phase[d] = "done")
  OBVIOUS
<1>2. \A d \in Calls : TookEffect(d)' = TookEffect(d)
  <2> SUFFICES ASSUME NEW d \in Calls PROVE TookEffect(d)' = TookEffect(d)
    OBVIOUS
  <2>1. CASE seen'[d] = seen[d]
    BY <1>1, <2>1 DEF TookEffect, Mutation
  <2>2. CASE seen'[d] # seen[d]
    BY <2>2 DEF TookEffect, Mutation
  <2> QED BY <2>1, <2>2
<1>3. Applied' = Applied
  BY <1>2 DEF Applied
<1>4. UNCHANGED <<Entries, Requests, Outcomes>>
  BY <1>1 DEF Entries, Requests, Outcomes, Answered, Mutation
<1> QED BY <1>3, <1>4 DEF Book!vars

\* Submitting a mutation is Submit of the book; submitting a query is nothing.
LEMMA SubmitBook ==
  ASSUME IInv, NEW c \in Calls, Submit(c)
  PROVE  [Book!Next]_(Book!vars)
<1> PICK o \in Op : op' = [op EXCEPT ![c] = o]
  BY DEF Submit
<1>0. op[c] = None /\ seen[c] = None /\ op'[c] = o /\ o # None
  <2>1. op[c] = None /\ seen[c] = None
    BY DEF IInv, PhaseFits, Submit, Goto
  <2>2. op'[c] = o
    BY DEF IInv, TypeOK
  <2> QED BY <2>1, <2>2
<1>a. \A d \in Calls : phase'[d] # "done" <=> phase[d] # "done"
  BY DEF IInv, TypeOK, Submit, Goto
<1>b. \A d \in Calls \ {c} : op'[d] = op[d]
  BY DEF IInv, TypeOK
<1>1. Entries' = Entries
  BY DEF Entries, Submit
<1>2. Applied' = Applied
  <2>1. \A d \in Calls : TookEffect(d)' = TookEffect(d)
    BY <1>0, <1>a, <1>b DEF TookEffect, Mutation, Submit
  <2> QED BY <2>1 DEF Applied
<1>3. Outcomes' = Outcomes
  <2>1. ~Answered(c) /\ ~Answered(c)'
    BY <1>0, <1>a DEF Answered, Mutation, IInv, TypeOK, Submit, Goto
  <2>2. \A d \in Calls \ {c} : Answered(d)' <=> Answered(d)
    BY <1>a, <1>b DEF Answered, Mutation
  <2>3. reply' = reply
    BY DEF Submit
  <2> QED BY <2>1, <2>2, <2>3 DEF Outcomes
<1>4. CASE o.kind = "read"
  <2>1. Requests' = Requests
    BY <1>0, <1>b, <1>4 DEF Requests, Mutation
  <2> QED BY <1>1, <1>2, <1>3, <2>1 DEF Book!vars
<1>5. CASE o.kind # "read"
  <2>1. o \in Book!Request
    BY <1>5 DEF Op, Book!Request
  <2>2. Requests[c] = None
    BY <1>0 DEF Requests, Mutation
  <2>3. Requests' = [Requests EXCEPT ![c] = o]
    BY <1>0, <1>b, <1>5 DEF Requests, Mutation
  <2>4. Book!Submit(c)
    BY <1>1, <1>2, <1>3, <2>1, <2>2, <2>3 DEF Book!Submit
  <2> QED BY <2>4 DEF Book!Next
<1> QED BY <1>4, <1>5

\* Forgetting an answered mutation is Forget of the book.
LEMMA ForgetBook ==
  ASSUME IInv, NEW c \in Calls, Forget(c)
  PROVE  [Book!Next]_(Book!vars)
<1>0. op[c] # None /\ phase[c] = "done" /\ op'[c] = None /\ reply[c] # "none"
  BY DEF IInv, TypeOK, PhaseFits, Forget, Goto
<1>b. \A d \in Calls \ {c} :
        /\ op'[d] = op[d] /\ seen'[d] = seen[d]
        /\ reply'[d] = reply[d] /\ phase'[d] = phase[d]
  BY DEF IInv, TypeOK, Forget, Goto
<1>1. Entries' = Entries
  BY DEF Entries, Forget
<1>2. Applied' = Applied
  <2>1. TookEffect(c)' = TookEffect(c)
    BY <1>0 DEF TookEffect, Mutation
  <2>2. \A d \in Calls \ {c} : TookEffect(d)' = TookEffect(d)
    BY <1>b DEF TookEffect, Mutation, Forget
  <2> QED BY <2>1, <2>2 DEF Applied
<1>3. \A d \in Calls \ {c} : Answered(d)' = Answered(d)
  BY <1>b DEF Answered, Mutation
<1>4. CASE op[c].kind = "read"
  <2>1. Requests' = Requests
    BY <1>0, <1>b, <1>4 DEF Requests, Mutation
  <2>2. ~Answered(c) /\ ~Answered(c)'
    BY <1>0, <1>4 DEF Answered, Mutation
  <2>3. Outcomes' = Outcomes
    BY <1>b, <1>3, <2>2 DEF Outcomes
  <2> QED BY <1>1, <1>2, <2>1, <2>3 DEF Book!vars
<1>5. CASE op[c].kind # "read"
  <2>1. Requests' = [Requests EXCEPT ![c] = None]
    BY <1>0, <1>b, <1>5 DEF Requests, Mutation
  <2>2. Answered(c) /\ ~Answered(c)'
    BY <1>0, <1>5 DEF Answered, Mutation
  <2>3. Outcomes[c] # None
    BY <2>2 DEF Outcomes
  <2>4. Outcomes' = [Outcomes EXCEPT ![c] = None]
    BY <1>b, <1>3, <2>2 DEF Outcomes
  <2>5. Book!Forget(c)
    BY <1>1, <1>2, <2>1, <2>3, <2>4 DEF Book!Forget
  <2> QED BY <2>5 DEF Book!Next
<1> QED BY <1>4, <1>5

\* The INSERT of SetReaction is where it takes effect.
LEMMA UpsertBook ==
  ASSUME IInv, NEW c \in Calls, Upsert(c)
  PROVE  [Book!Next]_(Book!vars)
<1> DEFINE o == op[c]
<1> PICK id \in Ids :
      /\ IF OwnRows(o) = {} THEN FreshId(id) ELSE \E r \in OwnRows(o) : id = r.id
      /\ rows' = (rows \ OwnRows(o)) \union {Upserted(o, id)}
      /\ seen' = [seen EXCEPT ![c] = Upserted(o, id)]
  BY DEF Upsert
<1>0. o \in [kind : {"set"}, user : Users, target : Targets, reaction : Reactions]
  BY DEF IInv, TypeOK, PhaseFits, Upsert, Goto, Op
<1>a. o # None /\ seen[c] = None /\ phase[c] = "statement" /\ phase'[c] = "returned"
  BY DEF IInv, TypeOK, PhaseFits, Upsert, Goto
<1>b. \A d \in Calls \ {c} : seen'[d] = seen[d] /\ phase'[d] = phase[d]
  BY DEF IInv, TypeOK, Upsert, Goto
<1>c. Upserted(o, id) \in Row
  BY <1>0 DEF Upserted, Row
<1>d. seen'[c] # None
  BY <1>c DEF IInv, TypeOK
<1>1. Entries' = Book!Besides(o.user, o.target)
                   \union {<<o.user, o.target, o.reaction>>}
  <2>1. Book!Besides(o.user, o.target)
          = {<<r.user, r.target, r.reaction>> : r \in rows \ OwnRows(o)}
    <3>1. \A r \in rows :
            LET e == <<r.user, r.target, r.reaction>> IN
            r \in OwnRows(o) <=> ~ (e[1] # o.user \/ e[2] # o.target)
      BY DEF OwnRows
    <3> QED BY <3>1 DEF Book!Besides, Entries
  <2>2. /\ Upserted(o, id).user = o.user /\ Upserted(o, id).target = o.target
        /\ Upserted(o, id).reaction = o.reaction
    BY DEF Upserted
  <2>3. Entries' = {<<r.user, r.target, r.reaction>> :
                      r \in (rows \ OwnRows(o)) \union {Upserted(o, id)}}
    BY DEF Entries
  <2>4. @ = {<<r.user, r.target, r.reaction>> : r \in rows \ OwnRows(o)}
              \union {<<o.user, o.target, o.reaction>>}
    BY <2>2, Zenon
  <2> QED BY <2>1, <2>3, <2>4
<1>2. Requests' = Requests /\ Requests[c] = o
  BY <1>0, <1>a DEF Requests, Mutation, Upsert
<1>3. Outcomes' = Outcomes /\ Outcomes[c] = None
  <2>1. \A d \in Calls : Answered(d)' = Answered(d)
    BY <1>a, <1>b DEF Answered, Mutation, Upsert
  <2>2. ~Answered(c)
    BY <1>a DEF Answered
  <2> QED BY <2>1, <2>2 DEF Outcomes, Upsert
<1>4. ~TookEffect(c) /\ TookEffect(c)'
  BY <1>0, <1>a, <1>d DEF TookEffect, Mutation, Upsert
<1>5. \A d \in Calls \ {c} : TookEffect(d)' = TookEffect(d)
  <2> SUFFICES ASSUME NEW d \in Calls \ {c}, seen[d] # None
               PROVE  (\E r \in rows' : r.id = seen[d].id)
                        = (\E r \in rows : r.id = seen[d].id)
    BY <1>b DEF TookEffect, Mutation, Upsert
  <2>1. CASE OwnRows(o) = {}
    BY <2>1 DEF FreshId, Upserted
  <2>2. CASE OwnRows(o) # {}
    <3>1. \A r \in OwnRows(o) : r.id = id
      BY <2>2 DEF IInv, OneReactionPerTarget, OwnRows
    <3>2. OwnRows(o) \subseteq rows
      BY DEF OwnRows
    <3>3. Upserted(o, id) \in rows' /\ Upserted(o, id).id = id
      BY DEF Upserted
    <3>4. ASSUME NEW r \in rows, r.id = seen[d].id
          PROVE  \E q \in rows' : q.id = seen[d].id
      BY <3>1, <3>3, <3>4
    <3>5. ASSUME NEW q \in rows', q.id = seen[d].id
          PROVE  \E r \in rows : r.id = seen[d].id
      BY <2>2, <3>1, <3>2, <3>3, <3>5
    <3> QED BY <3>4, <3>5
  <2> QED BY <2>1, <2>2
<1>6. Applied' = [Applied EXCEPT ![c] = TRUE] /\ ~Applied[c]
  BY <1>4, <1>5 DEF Applied
<1>7. Book!ApplySet(c)
  BY <1>0, <1>a, <1>1, <1>2, <1>3, <1>6 DEF Book!ApplySet
<1> QED BY <1>7 DEF Book!Next

\* COMMIT takes effect for every call that has read the deleted row, or for
\* nobody if the transaction has deleted nothing.
LEMMA CommitBook ==
  ASSUME IInv, NEW c \in Calls, Commit(c)
  PROVE  [Book!Next]_(Book!vars)
<1>a. \A d \in Calls : phase'[d] = "done" <=> phase[d] = "done"
  BY DEF IInv, TypeOK, Commit, Goto
<1>1. Requests' = Requests
  BY DEF Requests, Mutation, Commit
<1>2. Outcomes' = Outcomes
  BY <1>a DEF Outcomes, Answered, Mutation, Commit
<1>3. CASE doomed[c] = None
  <2>1. rows' = rows
    BY <1>3 DEF IInv, TypeOK, Row, Commit
  <2>2. \A d \in Calls : TookEffect(d)' = TookEffect(d)
    BY <2>1, <1>a DEF TookEffect, Mutation, Commit
  <2>3. Applied' = Applied /\ Entries' = Entries
    BY <2>1, <2>2 DEF Applied, Entries
  <2> QED BY <1>1, <1>2, <2>3 DEF Book!vars
<1>4. CASE doomed[c] # None
  <2>1. PICK row \in rows : row.id = doomed[c]
    BY <1>4 DEF IInv, LocksFit
  <2>2. rows' = rows \ {row} /\ row \in Row
    BY <2>1 DEF Commit, IInv, TypeOK, RowsKeyed
  <2> DEFINE served == {d \in Calls : /\ Mutation(d)
                                      /\ phase[d] # "done"
                                      /\ seen[d] # None
                                      /\ op[d].kind = "unset"
                                      /\ seen[d].id = row.id}
  <2>3. \A d \in Calls : op[d].kind = "unset" /\ Mutation(d) =>
          op[d] \in [kind : {"unset", "read"}, user : Users, target : Targets]
    BY DEF IInv, TypeOK, Op, Mutation
  <2>4. \A d \in served :
          /\ ~Applied[d]
          /\ Outcomes[d] = None
          /\ Requests[d] = [kind |-> "unset", user |-> row.user, target |-> row.target]
    <3> SUFFICES ASSUME NEW d \in served
                 PROVE  /\ ~Applied[d]
                        /\ Outcomes[d] = None
                        /\ Requests[d] = [kind |-> "unset", user |-> row.user,
                                           target |-> row.target]
      OBVIOUS
    <3>1. ~TookEffect(d)
      BY DEF TookEffect
    <3>2. ~Answered(d)
      BY DEF Answered
    <3>3. op[d].user = row.user /\ op[d].target = row.target
      BY DEF IInv, PhaseFits, RowsKeyed
    <3>4. op[d] = [kind |-> "unset", user |-> row.user, target |-> row.target]
      BY <2>3, <3>3
    <3> QED BY <3>1, <3>2, <3>4 DEF Applied, Outcomes, Requests
  <2>5. c \in served
    <3>1. phase[c] = "commit" /\ op[c].kind = "unset" /\ doomed[c] = seen[c].id
      BY <1>4 DEF IInv, LocksFit
    <3> QED BY <2>1, <3>1 DEF IInv, PhaseFits, Mutation
  <2>6. Entries' = Book!Besides(row.user, row.target)
    <3>1. \A r \in rows :
            LET e == <<r.user, r.target, r.reaction>> IN
            r # row <=> (e[1] # row.user \/ e[2] # row.target)
      BY DEF IInv, OneReactionPerTarget
    <3> QED BY <2>2, <3>1 DEF Book!Besides, Entries
  <2>7. \A d \in Calls : Applied'[d] = (d \in served \/ Applied[d])
    <3> SUFFICES ASSUME NEW d \in Calls
                 PROVE  TookEffect(d)' = (d \in served \/ TookEffect(d))
      BY DEF Applied
    <3>1. (d \in served \/ TookEffect(d)) => TookEffect(d)'
      BY <1>a, <2>2 DEF TookEffect, Mutation, Commit
    <3>2. TookEffect(d)' => (d \in served \/ TookEffect(d))
      BY <1>a, <2>2 DEF TookEffect, Mutation, Commit
    <3> QED BY <3>1, <3>2 DEF TookEffect
  <2>8. Applied' = [d \in Calls |-> d \in served \/ Applied[d]]
    BY <2>7 DEF Applied
  <2>9. Book!ApplyUnset(row.user, row.target, served)
    BY <1>1, <1>2, <2>4, <2>6, <2>8 DEF Book!ApplyUnset
  <2>10. row.user \in Users /\ row.target \in Targets
    BY <2>2 DEF Row
  <2> QED BY <2>5, <2>9, <2>10 DEF Book!Next
<1> QED BY <1>3, <1>4

\* A mutation is answered by a step after which it no longer counts as applied.
LEMMA AnswerBook ==
  ASSUME IInv, NEW c \in Calls, Mutation(c), phase[c] # "done",
         UNCHANGED <<rows, op, seen>>, phase' = [phase EXCEPT ![c] = "done"],
         NEW r, reply' = [reply EXCEPT ![c] = r],
         r = "reaction" => TookEffect(c)
  PROVE  [Book!Next]_(Book!vars)
<1>a. phase'[c] = "done" /\ reply'[c] = r
  BY DEF IInv, TypeOK
<1>b. \A d \in Calls \ {c} : phase'[d] = phase[d] /\ reply'[d] = reply[d]
  BY DEF IInv, TypeOK
<1>1. Entries' = Entries
  BY DEF Entries
<1>2. Requests' = Requests /\ Requests[c] # None
  BY DEF Requests, Mutation
<1>3. Outcomes[c] = None
  BY DEF Outcomes, Answered
<1>4. Outcomes' = [Outcomes EXCEPT ![c] = (r = "reaction")]
  BY <1>a, <1>b DEF Outcomes, Answered, Mutation
<1>5. TookEffect(c)' = FALSE
  BY <1>a DEF TookEffect
<1>6. \A d \in Calls \ {c} : TookEffect(d)' = TookEffect(d)
  BY <1>b DEF TookEffect, Mutation
<1>7. Applied' = [Applied EXCEPT ![c] = FALSE]
  BY <1>5, <1>6 DEF Applied
<1>8. r = "reaction" => Applied[c]
  BY DEF Applied
<1>9. Book!Answer(c)
  BY <1>1, <1>2, <1>3, <1>4, <1>7, <1>8 DEF Book!Answer
<1> QED BY <1>9 DEF Book!Next

\* A query is answered without a trace.
LEMMA QueryBook ==
  ASSUME IInv, NEW c \in Calls, op[c] # None, op[c].kind = "read",
         UNCHANGED <<rows, op, seen>>, phase' = [phase EXCEPT ![c] = "done"],
         NEW r, reply' = [reply EXCEPT ![c] = r]
  PROVE  UNCHANGED Book!vars
<1>b. \A d \in Calls \ {c} : phase'[d] = phase[d] /\ reply'[d] = reply[d]
  BY DEF IInv, TypeOK
<1>1. Entries' = Entries /\ Requests' = Requests
  BY DEF Entries, Requests, Mutation
<1>2. \A d \in Calls : Answered(d)' = Answered(d)
  BY <1>b DEF Answered, Mutation
<1>3. \A d \in Calls : TookEffect(d)' = TookEffect(d)
  BY <1>b DEF TookEffect, Mutation
<1>4. ~Answered(c) /\ ~Answered(c)'
  BY DEF Answered, Mutation
<1>5. Outcomes' = Outcomes
  BY <1>b, <1>2, <1>4 DEF Outcomes
<1>6. Applied' = Applied
  BY <1>3 DEF Applied
<1> QED BY <1>1, <1>5, <1>6 DEF Book!vars

\* Success is the answer of a mutation that took effect.
LEMMA SucceedBook ==
  ASSUME IInv, NEW c \in Calls, Succeed(c)
  PROVE  [Book!Next]_(Book!vars)
<1>1. Mutation(c) /\ phase[c] = "committed" /\ seen[c] # None
  BY DEF IInv, PhaseFits, Succeed, Goto, Mutation, TxPhase
<1>2. TookEffect(c)
  BY <1>1 DEF IInv, UnsetGone, TookEffect, Mutation
<1> QED BY <1>1, <1>2, AnswerBook DEF Succeed, Goto

\* A failure, whatever was executed before it, is an answer too.
LEMMA FailBook ==
  ASSUME IInv, NEW c \in Calls, Fail(c)
  PROVE  [Book!Next]_(Book!vars)
<1>1. op[c] # None /\ phase[c] # "done"
  BY DEF IInv, PhaseFits, Fail
<1>2. Failure(c) # "reaction"
  BY DEF Failure
<1>3. CASE op[c].kind = "read"
  BY <1>1, <1>3, QueryBook DEF Fail
<1>4. CASE op[c].kind # "read"
  BY <1>1, <1>2, <1>4, AnswerBook DEF Fail, Mutation
<1> QED BY <1>3, <1>4

\* Every step of ReactionStore is a step of the book or invisible.
LEMMA NextBook == IInv /\ [Next]_vars => [Book!Next]_(Book!vars)
<1> SUFFICES ASSUME IInv, [Next]_vars PROVE [Book!Next]_(Book!vars)
  OBVIOUS
<1>1. ASSUME NEW c \in Calls, BeginTx(c) \/ SecondConn(c) \/ ReadConn(c)
      PROVE  UNCHANGED Book!vars
  BY <1>1, Invisible DEF IInv, TypeOK, BeginTx, SecondConn, ReadConn, Goto
<1>2. ASSUME NEW c \in Calls, StatementReturns(c) \/ Delete(c)
      PROVE  UNCHANGED Book!vars
  BY <1>2, Invisible DEF IInv, TypeOK, StatementReturns, Delete, Goto
<1>3. ASSUME NEW c \in Calls, Select(c)
      PROVE  UNCHANGED Book!vars
  <2>1. seen[c] = None /\ phase[c] = "statement" /\ phase'[c] = "returned"
    BY <1>3 DEF IInv, TypeOK, PhaseFits, Select, Goto
  <2>2. \E r \in rows : seen'[c] = r
    BY <1>3 DEF IInv, TypeOK, Select, OwnRows
  <2>3. \A d \in Calls \ {c} : phase'[d] = phase[d] /\ seen'[d] = seen[d]
    BY <1>3 DEF IInv, TypeOK, Select, Goto
  <2> QED BY <1>3, <2>1, <2>2, <2>3, Invisible DEF Select
<1>4. ASSUME NEW c \in Calls, Fetch(c)
      PROVE  UNCHANGED Book!vars
  <2>1. op[c] # None /\ op[c].kind = "read"
    BY <1>4 DEF IInv, PhaseFits, Fetch, Goto
  <2> QED BY <1>4, <2>1, QueryBook DEF Fetch, Goto
<1>5. CASE UNCHANGED vars
  BY <1>5 DEF vars, Book!vars, Entries, Requests, Applied, Outcomes, Mutation,
              TookEffect, Answered
<1> QED
  BY <1>1, <1>2, <1>3, <1>4, <1>5, SubmitBook, ForgetBook, UpsertBook, CommitBook,
     SucceedBook, FailBook DEF Next, Acquire, Run, SelectFindsNone

\* Concurrent mutations are linearizable: whatever they interleave, callers
\* could have been served by a book that applies one call at a time, each at
\* most once and between its submission and its answer.
THEOREM Linearizable == Spec => ImplementsBook
  BY InitBook, NextBook, Invariance, PTL DEF Spec, ImplementsBook, Book!Spec
=============================================================================
