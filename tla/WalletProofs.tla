---------------------------- MODULE WalletProofs ----------------------------
(***************************************************************************)
(* Proofs about Wallet, for any number of connections and disconnections   *)
(* under way at once.                                                      *)
(***************************************************************************)
EXTENDS Wallet, TLAPS

USE MaxDropsType, NoneIsNoKind

\* A slot no connection uses.
LEMMA IdleType == Idle.stage = "none" /\ Idle.kind = None
  BY DEF Idle

\* The inductive invariant holds initially.
LEMMA InitIInv == Init => IInv
<1> SUFFICES ASSUME Init PROVE IInv
  OBVIOUS
<1>1. attempt \in [Attempts -> {Idle}] /\ drops \in 0 .. MaxDrops
  BY DEF Init
<1>2. TypeOK
  BY <1>1 DEF Init, TypeOK
<1> QED
  BY <1>2 DEF Init, IInv, ShownIsRemembered, ShowsConnected, ConnectingIsReal

\* A connection that begins, chosen or automatic, disturbs nothing.
LEMMA BeginIInv ==
  ASSUME IInv, NEW i \in Attempts, NEW k \in Kinds, Begin(i, k)
  PROVE  IInv'
<1> USE DEF Begin
<1>1. attempt' \in [Attempts -> {Idle} \union
                      [stage : {"connecting", "validating"}, kind : Kinds]]
  BY DEF IInv, TypeOK
<1>2. TypeOK'
  BY <1>1 DEF IInv, TypeOK, Kinds
<1>3. ConnectingIsReal'
  <2>1. attempt'[i].stage = "connecting"
    BY DEF IInv, TypeOK
  <2> QED BY <2>1 DEF ConnectingIsReal
<1> QED BY <1>2, <1>3 DEF IInv, ShownIsRemembered, ShowsConnected

\* The three ways a connection goes on or ends.
LEMMA AnsweredIInv ==
  ASSUME IInv, NEW i \in Attempts, Answered(i)
  PROVE  IInv'
<1> USE DEF IInv
<1>1. attempt[i].stage # "none" => attempt[i] \in [stage : {"connecting", "validating"}, kind : Kinds]
  BY IdleType DEF TypeOK
<1>2. CASE Linked(i)
  <2> USE <1>2 DEF Linked
  <2>1. attempt[i].kind \in Kinds
    BY <1>1
  <2>2. attempt' \in [Attempts -> {Idle} \union
                        [stage : {"connecting", "validating"}, kind : Kinds]]
    BY <1>1 DEF TypeOK
  <2>3. TypeOK'
    BY <2>1, <2>2 DEF TypeOK
  <2> QED BY <2>3 DEF ShownIsRemembered, ShowsConnected, ConnectingIsReal
<1>3. CASE Validated(i)
  <2> USE <1>3 DEF Validated, shown
  <2>1. TypeOK'
    BY DEF TypeOK
  <2>2. ConnectingIsReal'
    BY DEF ConnectingIsReal, TypeOK
  <2> QED BY <2>1, <2>2 DEF ShownIsRemembered, ShowsConnected
<1>4. CASE Fails(i)
  <2> USE <1>4 DEF Fails
  <2>1. TypeOK'
    BY DEF TypeOK
  <2> QED BY <2>1 DEF ShownIsRemembered, ShowsConnected, ConnectingIsReal
<1> QED BY <1>2, <1>3, <1>4 DEF Answered

\* IInv is inductive: ShownIsRemembered holds because status, wallet and memory
\* are set together and every older procedure that forgets the wallet also
\* clears it or the status; AccountOfActive because, unless stray, only the
\* active wallet's refreshAccount is to come.
LEMMA StepIInv == IInv /\ [Next]_vars => IInv'
<1> SUFFICES ASSUME IInv, [Next]_vars PROVE IInv'
  OBVIOUS
<1> USE DEF IInv
<1>1. CASE OpenModal \/ CloseModal
  BY <1>1 DEF OpenModal, CloseModal, shown, running, TypeOK, ShownIsRemembered,
              ShowsConnected, ConnectingIsReal
<1>2. ASSUME NEW i \in Attempts, AutoConnect(i) PROVE IInv'
  <2>1. auto \in Kinds
    BY <1>2 DEF AutoConnect, TypeOK
  <2> QED BY <1>2, <2>1, BeginIInv DEF AutoConnect
<1>3. ASSUME NEW i \in Attempts, Answered(i) PROVE IInv'
  BY <1>3, AnsweredIInv
<1>4. ASSUME NEW i \in Attempts, NEW k \in Kinds, Choose(i, k) PROVE IInv'
  BY <1>4, BeginIInv DEF Choose
<1>5. CASE Disconnect
  <2>1. TypeOK'
    BY <1>5 DEF Disconnect, StartDrop, shown, TypeOK
  <2> QED BY <1>5, <2>1 DEF Disconnect, shown, ShownIsRemembered, ShowsConnected,
                            ConnectingIsReal
<1>6. CASE Dropped
  <2>1. TypeOK'
    BY <1>6 DEF Dropped, TypeOK
  <2> QED BY <1>6, <2>1 DEF Dropped, ShownIsRemembered, ShowsConnected, ConnectingIsReal
<1>7. CASE Refresh
  <2>1. TypeOK'
    BY <1>7 DEF Refresh, shown, ShowsConnected, TypeOK
  <2> QED BY <1>7, <2>1 DEF Refresh, shown, ShownIsRemembered, ShowsConnected,
                            ConnectingIsReal
<1>8. CASE Reload
  <2>1. attempt' \in [Attempts -> {Idle}] /\ drops' \in 0 .. MaxDrops
    BY <1>8 DEF Reload
  <2>2. TypeOK'
    BY <1>8, <2>1 DEF Reload, TypeOK
  <2> QED BY <1>8, <2>2 DEF Reload, ShownIsRemembered, ShowsConnected, ConnectingIsReal
<1>9. ASSUME NEW k \in Kinds \union {None}, PeerDisconnects(k) PROVE IInv'
  <2>1. TypeOK'
    BY <1>9 DEF PeerDisconnects, StartDrop, shown, TypeOK
  <2> QED BY <1>9, <2>1 DEF PeerDisconnects, shown, ShownIsRemembered, ShowsConnected,
                            ConnectingIsReal
<1>10. ASSUME NEW k \in Kinds \union {None}, Refreshed(k) PROVE IInv'
  <2>1. TypeOK'
    BY <1>10 DEF Refreshed, TypeOK
  <2>2. active # None /\ ~stray => account' = active /\ refreshes' \subseteq {active}
    BY <1>10 DEF Refreshed
  <2> QED BY <1>10, <2>1, <2>2 DEF Refreshed, ShownIsRemembered, ShowsConnected,
                                   ConnectingIsReal
<1>11. CASE UNCHANGED vars
  BY <1>11 DEF vars, shown, running, TypeOK, ShownIsRemembered, ShowsConnected,
               ConnectingIsReal
<1> QED
  BY <1>1, <1>2, <1>3, <1>4, <1>5, <1>6, <1>7, <1>8, <1>9, <1>10, <1>11 DEF Next

\* The invariant holds of every reachable state.
THEOREM Invariance == Spec => []IInv
  BY InitIInv, StepIInv, PTL DEF Spec

\* Whatever procedures overlap, what is shown as connected is what a reload
\* connects to.
THEOREM Remembered == Spec => []ShownIsRemembered
<1>1. IInv => ShownIsRemembered
  BY DEF IInv
<1> QED BY <1>1, Invariance, PTL

\* The account shown is that of the wallet shown, stray balances apart.
THEOREM AccountMatches == Spec => []AccountOfActive
<1>1. IInv => AccountOfActive
  BY DEF IInv, AccountOfActive, ShowsConnected
<1> QED BY <1>1, Invariance, PTL

\* The app never waits for a connection nobody is making.
THEOREM NoIdleSpinner == Spec => []ConnectingIsReal
<1>1. IInv => ConnectingIsReal
  BY DEF IInv
<1> QED BY <1>1, Invariance, PTL
=============================================================================
