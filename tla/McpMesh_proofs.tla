--------------------------- MODULE McpMesh_proofs ---------------------------
(***************************************************************************)
(* Proofs about the two-phase-commit coordinator: its invariants hold for  *)
(* every set of servers and transactions, any retry budget and any number  *)
(* of crashes.                                                             *)
(***************************************************************************)
EXTENDS McpMesh, TLAPS

-----------------------------------------------------------------------------
(* Type correctness.                                                       *)

\* A coordinator that has just been created is well typed.
LEMMA InitTypeOK == Init => TypeOK
<1> SUFFICES ASSUME Init PROVE TypeOK
  OBVIOUS
<1> USE McpMeshAssumption
<1>1. TxTypeOK BY DEF Init, TxTypeOK, TransactionState
<1>2. NetTypeOK BY DEF Init, NetTypeOK
<1>3. WalTypeOK
  <2>1. wal \in Seq(WalEntry) BY DEF Init
  <2>2. torn \in BOOLEAN /\ appending \subseteq WalEntry BY Zenon DEF Init
  <2> QED BY <2>1, <2>2 DEF WalTypeOK
<1>4. CompTypeOK BY DEF Init, CompTypeOK, RcIdle
<1>5. RecTypeOK BY DEF Init, RecTypeOK
<1> QED BY <1>1, <1>2, <1>3, <1>4, <1>5 DEF TypeOK

\* register, heartbeat and unregister keep the types.
LEMMA RegistryTypeOK == TypeOK /\ Registry => TypeOK'
<1> SUFFICES ASSUME TypeOK, Registry PROVE TypeOK'
  OBVIOUS
<1>1. UNCHANGED <<txVars, netVars, walVars, compVars, recVars>>
  BY DEF Registry, Register, Heartbeat, HeartbeatLapse, Unregister
<1>2. TxTypeOK'
  BY <1>1 DEF TypeOK, TxTypeOK, txVars, Registry, Register, Heartbeat, HeartbeatLapse,
              Unregister
<1>3. /\ NetTypeOK' /\ WalTypeOK' /\ CompTypeOK' /\ RecTypeOK'
  BY <1>1 DEF TypeOK, NetTypeOK, WalTypeOK, CompTypeOK, RecTypeOK, netVars, walVars,
              compVars, recVars
<1> QED BY <1>2, <1>3 DEF TypeOK

\* The requests of a phase are requests.
LEMMA ToAllType ==
  ASSUME TxTypeOK, NEW t \in Tx, NEW k \in Phases
  PROVE  ToAll(t, k) \subseteq Requests
  BY DEF TxTypeOK, ToAll, Requests

\* The checks of execute_transaction keep the types.
LEMMA ExecuteTypeOK ==
  ASSUME TypeOK, NEW t \in Tx, NEW P \in SUBSET Server, Execute(t, P)
  PROVE  TypeOK'
<1>1. TxTypeOK'
  BY DEF Execute, Return, TypeOK, TxTypeOK
<1>2. /\ NetTypeOK' /\ WalTypeOK' /\ CompTypeOK' /\ RecTypeOK'
  BY DEF Execute, TypeOK, NetTypeOK, WalTypeOK, CompTypeOK, RecTypeOK, netVars, walVars,
         compVars, recVars
<1> QED BY <1>1, <1>2 DEF TypeOK

\* An aborted prepare phase keeps the types.
LEMMA AbortTypeOK ==
  ASSUME TypeOK, NEW t \in Tx, AbortPrepare(t)
  PROVE  TypeOK'
<1>1. TxTypeOK'
  BY DEF AbortPrepare, RollbackFanout, Transition, TypeOK, TxTypeOK, TransactionState
<1>2. NetTypeOK'
  BY ToAllType DEF AbortPrepare, RollbackFanout, TypeOK, NetTypeOK, Phases
<1>3. /\ WalTypeOK' /\ CompTypeOK' /\ RecTypeOK'
  BY DEF AbortPrepare, TypeOK, WalTypeOK, CompTypeOK, RecTypeOK, walVars, compVars, recVars
<1> QED BY <1>1, <1>2, <1>3 DEF TypeOK

\* The prepare phase.
LEMMA PrepareTypeOK ==
  ASSUME TypeOK, NEW t \in Tx, NEW s,
         \/ PrepareFanout(t) \/ StartRetry(t) \/ PrepareEnd(t) \/ EnterCommit(t)
         \/ PrepareAck(t, s) \/ PrepareNetworkError(t, s) \/ PrepareProtocolError(t, s)
         \/ RetrySend(t, s) \/ RetryNetworkError(t, s)
  PROVE  TypeOK'
<1> USE McpMeshAssumption DEF TypeOK
<1>a. CASE AbortPrepare(t)
  BY <1>a, AbortTypeOK
<1>1. CASE PrepareFanout(t)
  <2>1. TxTypeOK' BY <1>1 DEF PrepareFanout, Transition, TxTypeOK, TransactionState
  <2>2. NetTypeOK' BY <1>1, ToAllType DEF PrepareFanout, NetTypeOK, Phases
  <2>3. /\ WalTypeOK' /\ CompTypeOK' /\ RecTypeOK'
    BY <1>1 DEF PrepareFanout, WalTypeOK, CompTypeOK, RecTypeOK, walVars, compVars, recVars
  <2> QED BY <2>1, <2>2, <2>3
<1>2. CASE StartRetry(t)
  BY <1>2 DEF StartRetry, TxTypeOK, NetTypeOK, WalTypeOK, CompTypeOK, RecTypeOK,
              netVars, walVars, compVars, recVars
<1>3. CASE PrepareEnd(t)
  <2>1. TxTypeOK' BY <1>3 DEF PrepareEnd, TxTypeOK
  <2>2. WalTypeOK'
    <3>1. [tx |-> t, state |-> "Prepare", ack |-> acked[t], newer |-> FALSE] \in WalEntry
      BY DEF TxTypeOK, WalEntry
    <3> QED BY <1>3, <3>1 DEF PrepareEnd, WalTypeOK
  <2>3. /\ NetTypeOK' /\ CompTypeOK' /\ RecTypeOK'
    BY <1>3 DEF PrepareEnd, NetTypeOK, CompTypeOK, RecTypeOK, netVars, compVars, recVars
  <2> QED BY <2>1, <2>2, <2>3
<1>4. CASE EnterCommit(t)
  <2>1. TxTypeOK' BY <1>4 DEF EnterCommit, Transition, TxTypeOK, TransactionState
  <2>2. /\ NetTypeOK' /\ WalTypeOK' /\ CompTypeOK' /\ RecTypeOK'
    BY <1>4 DEF EnterCommit, NetTypeOK, WalTypeOK, CompTypeOK, RecTypeOK, netVars,
                walVars, compVars, recVars
  <2> QED BY <2>1, <2>2
<1>5. CASE PrepareAck(t, s) \/ PrepareNetworkError(t, s)
  <2>1. TxTypeOK' BY <1>5 DEF PrepareAck, PrepareNetworkError, TxTypeOK
  <2>2. /\ NetTypeOK' /\ WalTypeOK' /\ CompTypeOK' /\ RecTypeOK'
    BY <1>5 DEF PrepareAck, PrepareNetworkError, NetTypeOK, WalTypeOK, CompTypeOK,
                RecTypeOK, netVars, walVars, compVars, recVars
  <2> QED BY <2>1, <2>2
<1>6. CASE PrepareProtocolError(t, s)
  BY <1>6, <1>a DEF PrepareProtocolError
<1>7. CASE (RetrySend(t, s) \/ RetryNetworkError(t, s)) /\ ~AbortPrepare(t)
  <2>1. TxTypeOK'
    BY <1>7 DEF RetrySend, RetryNetworkError, TxTypeOK
  <2>2. NetTypeOK'
    <3>1. <<t, s, "prepare">> \in Requests
      BY <1>7 DEF RetrySend, RetryNetworkError, TxTypeOK, Requests, Phases
    <3> QED BY <1>7, <3>1 DEF RetrySend, RetryNetworkError, NetTypeOK
  <2>3. /\ WalTypeOK' /\ CompTypeOK' /\ RecTypeOK'
    BY <1>7 DEF RetrySend, RetryNetworkError, WalTypeOK, CompTypeOK, RecTypeOK,
                walVars, compVars, recVars
  <2> QED BY <2>1, <2>2, <2>3
<1> QED BY <1>a, <1>1, <1>2, <1>3, <1>4, <1>5, <1>6, <1>7

\* LeaveCommit assigns pc, result and the variables of recovery.
LEMMA LeaveCommitTypeOK ==
  ASSUME TxTypeOK, RecTypeOK, NEW t \in Tx, NEW r \in {"success", "failed"},
         LeaveCommit(t, r)
  PROVE  /\ RecTypeOK'
         /\ UNCHANGED <<registry, parts, state, wait, todo, attempt, acked, failed>>
              => TxTypeOK'
<1>1. RecTypeOK' BY DEF LeaveCommit, RecTypeOK, recVars
<1>2. ASSUME UNCHANGED <<registry, parts, state, wait, todo, attempt, acked, failed>>
      PROVE  TxTypeOK'
  BY <1>2 DEF LeaveCommit, Return, TxTypeOK
<1> QED BY <1>1, <1>2

\* The commit phase.
LEMMA CommitTypeOK ==
  ASSUME TypeOK, NEW t \in Tx, NEW s,
         \/ CommitFailed(t) \/ CommitEnd(t) \/ CommitLogged(t)
         \/ CommitSend(t, s) \/ CommitAck(t, s) \/ CommitError(t, s)
  PROVE  TypeOK'
<1> USE McpMeshAssumption DEF TypeOK
<1>1. CASE CommitFailed(t) \/ CommitLogged(t)
  <2>1. TxTypeOK' /\ RecTypeOK'
    BY <1>1, LeaveCommitTypeOK DEF CommitFailed, CommitLogged
  <2>2. /\ NetTypeOK' /\ WalTypeOK' /\ CompTypeOK'
    BY <1>1 DEF CommitFailed, CommitLogged, NetTypeOK, WalTypeOK, CompTypeOK, netVars,
                walVars, compVars
  <2> QED BY <2>1, <2>2
<1>2. CASE CommitEnd(t)
  <2>1. TxTypeOK' BY <1>2 DEF CommitEnd, TxTypeOK
  <2>2. WalTypeOK' BY <1>2 DEF CommitEnd, TxTypeOK, WalTypeOK, WalEntry
  <2>3. /\ NetTypeOK' /\ CompTypeOK' /\ RecTypeOK'
    BY <1>2 DEF CommitEnd, NetTypeOK, CompTypeOK, RecTypeOK, netVars, compVars, recVars
  <2> QED BY <2>1, <2>2, <2>3
<1>3. CASE CommitSend(t, s)
  <2>1. TxTypeOK' /\ RecTypeOK'
    <3>1. CASE s \in Registered
      BY <1>3, <3>1 DEF CommitSend, TxTypeOK, RecTypeOK, recVars
    <3>2. CASE s \notin Registered
      BY <1>3, <3>2, LeaveCommitTypeOK DEF CommitSend
    <3> QED BY <3>1, <3>2
  <2>2. NetTypeOK'
    <3>1. <<t, s, "commit">> \in Requests
      BY <1>3 DEF CommitSend, TxTypeOK, Requests, Phases
    <3> QED BY <1>3, <3>1 DEF CommitSend, NetTypeOK
  <2>3. /\ WalTypeOK' /\ CompTypeOK'
    BY <1>3 DEF CommitSend, WalTypeOK, CompTypeOK, walVars, compVars
  <2> QED BY <2>1, <2>2, <2>3
<1>4. CASE CommitAck(t, s)
  BY <1>4 DEF CommitAck, TxTypeOK, NetTypeOK, WalTypeOK, CompTypeOK, RecTypeOK, netVars,
              walVars, compVars, recVars
<1>5. CASE CommitError(t, s)
  <2>1. TxTypeOK' BY <1>5 DEF CommitError, TxTypeOK
  <2>2. CompTypeOK'
    BY <1>5 DEF CommitError, CompTypeOK, TxTypeOK
  <2>3. /\ NetTypeOK' /\ WalTypeOK' /\ RecTypeOK'
    BY <1>5 DEF CommitError, NetTypeOK, WalTypeOK, RecTypeOK, netVars, walVars, recVars
  <2> QED BY <2>1, <2>2, <2>3
<1> QED BY <1>1, <1>2, <1>3, <1>4, <1>5

\* Rollback, the deadline, the log's thread and the participants.
LEMMA RollbackTypeOK ==
  ASSUME TypeOK, NEW t \in Tx, NEW s,
         RollbackAnswer(t, s) \/ RollbackEnd(t) \/ TimeoutEnd(t) \/ Timeout(t)
  PROVE  TypeOK'
<1> USE DEF TypeOK
<1>1. CASE RollbackAnswer(t, s) \/ RollbackEnd(t) \/ TimeoutEnd(t)
  <2>1. TxTypeOK'
    BY <1>1 DEF RollbackAnswer, RollbackEnd, TimeoutEnd, Transition, Return, TxTypeOK,
                TransactionState
  <2>2. /\ NetTypeOK' /\ WalTypeOK' /\ CompTypeOK' /\ RecTypeOK'
    BY <1>1 DEF RollbackAnswer, RollbackEnd, TimeoutEnd, NetTypeOK, WalTypeOK,
                CompTypeOK, RecTypeOK, netVars, walVars, compVars, recVars
  <2> QED BY <2>1, <2>2
<1>2. CASE Timeout(t)
  <2>1. TxTypeOK' BY <1>2 DEF Timeout, RollbackFanout, TxTypeOK
  <2>2. NetTypeOK' BY <1>2, ToAllType DEF Timeout, RollbackFanout, NetTypeOK, Phases
  <2>3. /\ WalTypeOK' /\ CompTypeOK' /\ RecTypeOK'
    BY <1>2 DEF Timeout, WalTypeOK, CompTypeOK, RecTypeOK, walVars, compVars, recVars
  <2> QED BY <2>1, <2>2, <2>3
<1> QED BY <1>1, <1>2

\* The blocking thread of the WAL keeps the types.
LEMMA WalThreadTypeOK == TypeOK /\ WalThread => TypeOK'
<1> SUFFICES ASSUME TypeOK, NEW e \in appending, WalAppend(e) \/ WalAppendError(e)
             PROVE  TypeOK'
  BY DEF WalThread
<1> USE DEF TypeOK
<1>1. WalTypeOK'
  <2>1. e \in WalEntry BY DEF WalTypeOK
  <2>2. CASE WalAppend(e)
    <3>1. wal' \in Seq(WalEntry) BY <2>1, <2>2 DEF WalAppend, WalTypeOK
    <3>2. torn' \in BOOLEAN BY <2>2, Zenon DEF WalAppend
    <3>3. appending' \subseteq WalEntry BY <2>2 DEF WalAppend, WalTypeOK
    <3> QED BY <3>1, <3>2, <3>3 DEF WalTypeOK
  <2>3. CASE WalAppendError(e) BY <2>3 DEF WalAppendError, WalTypeOK
  <2> QED BY <2>2, <2>3
<1>2. TxTypeOK' BY DEF WalAppend, WalAppendError, TxTypeOK, txVars
<1>3. /\ NetTypeOK' /\ CompTypeOK' /\ RecTypeOK'
  BY DEF WalAppend, WalAppendError, NetTypeOK, CompTypeOK, RecTypeOK, netVars, compVars,
         recVars
<1> QED BY <1>1, <1>2, <1>3

\* A participant that handles a request keeps the types.
LEMMA HandleTypeOK ==
  ASSUME TypeOK, NEW m \in sent, Handle(m)
  PROVE  TypeOK'
  BY DEF TypeOK, Handle, TxTypeOK, NetTypeOK, WalTypeOK, CompTypeOK, RecTypeOK, txVars,
         walVars, compVars, recVars

\* reconcile_pending_transactions keeps the types.
LEMMA ReconcileTypeOK == TypeOK /\ Reconcile => TypeOK'
<1> SUFFICES ASSUME TypeOK, Reconcile PROVE TypeOK'
  OBVIOUS
<1> USE McpMeshAssumption DEF TypeOK
<1>1. TxTypeOK' /\ WalTypeOK' /\ RecTypeOK'
  BY DEF Reconcile, ReconcileStart, ReconcilePick, ReconcileFinish, ReconcileSend,
         ReconcileAck, ReconcileError, TxTypeOK, WalTypeOK, RecTypeOK, txVars, walVars,
         recVars
<1>2. NetTypeOK'
  <2>1. ASSUME NEW s \in Server, ReconcileSend(s) PROVE NetTypeOK'
    <3>1. rc.cur \in Tx BY <2>1 DEF ReconcileSend, CompTypeOK
    <3>2. <<rc.cur, s, "commit">> \in Requests BY <3>1 DEF Requests, Phases
    <3> QED BY <2>1, <3>2 DEF ReconcileSend, NetTypeOK
  <2>2. CASE UNCHANGED netVars
    BY <2>2 DEF NetTypeOK, netVars
  <2> QED BY <2>1, <2>2 DEF Reconcile, ReconcileStart, ReconcilePick, ReconcileFinish,
                            ReconcileAck, ReconcileError
<1>3. CompTypeOK'
  <2>1. CASE ReconcileStart
    <3>1. rc' = [ids |-> {t \in Tx : comp[t] # {}}, cur |-> NoTx, todo |-> {},
                 wait |-> {}, still |-> {}, retries |-> 0]
      BY <2>1 DEF ReconcileStart, RcIdle
    <3> QED BY <2>1, <3>1 DEF ReconcileStart, CompTypeOK
  <2>2. ASSUME NEW t \in Tx, ReconcilePick(t) PROVE CompTypeOK'
    <3>1. rc' \in [ids : SUBSET Tx, cur : Tx \cup {NoTx}, todo : SUBSET Server,
                   wait : SUBSET Server, still : SUBSET Server, retries : 0 .. MaxRetries]
      BY <2>2 DEF ReconcilePick, CompTypeOK
    <3>2. rc'.cur = NoTx => rc'.todo = {} /\ rc'.wait = {}
      BY <2>2 DEF ReconcilePick, CompTypeOK
    <3> QED BY <2>2, <3>1, <3>2 DEF ReconcilePick, CompTypeOK
  <2>3. ASSUME NEW t \in Tx, ReconcileFinish(t) PROVE CompTypeOK'
    <3>1. rc' = [ids |-> rc.ids, cur |-> NoTx, todo |-> {}, wait |-> {}, still |-> {},
                 retries |-> 0]
      BY <2>3 DEF ReconcileFinish, RcIdle
    <3>2. rc' \in [ids : SUBSET Tx, cur : Tx \cup {NoTx}, todo : SUBSET Server,
                   wait : SUBSET Server, still : SUBSET Server, retries : 0 .. MaxRetries]
      BY <3>1 DEF CompTypeOK
    <3>3. comp' \in [Tx -> SUBSET Server] /\ gaveUp' \subseteq Tx
      BY <2>3 DEF ReconcileFinish, CompTypeOK
    <3>4. compRetries' \in [Tx -> 0 .. MaxRetries]
      BY <2>3 DEF ReconcileFinish, CompTypeOK
    <3> QED BY <3>1, <3>2, <3>3, <3>4 DEF CompTypeOK
  <2> DEFINE RcType == [ids : SUBSET Tx, cur : Tx \cup {NoTx}, todo : SUBSET Server,
                   wait : SUBSET Server, still : SUBSET Server, retries : 0 .. MaxRetries]
  <2>0. rc \in RcType
    BY DEF CompTypeOK
  <2>4. ASSUME NEW s \in Server, ReconcileSend(s) PROVE CompTypeOK'
    <3>1. \/ rc' = [rc EXCEPT !.todo = @ \ {s}, !.wait = {s}]
          \/ rc' = [rc EXCEPT !.todo = @ \ {s}]
      BY <2>4 DEF ReconcileSend
    <3>2. rc.cur # NoTx
      BY <2>4 DEF ReconcileSend, CompTypeOK
    <3>3. rc' \in RcType /\ rc'.cur = rc.cur
      BY <2>0, <3>1, ZenonT(30)
    <3> QED BY <2>4, <3>2, <3>3 DEF ReconcileSend, CompTypeOK
  <2>5. ASSUME NEW s \in Server, ReconcileAck(s) \/ ReconcileError(s) PROVE CompTypeOK'
    <3>1. \/ rc' = [rc EXCEPT !.wait = {}]
          \/ rc' = [rc EXCEPT !.wait = {}, !.still = @ \cup {s}]
      BY <2>5 DEF ReconcileAck, ReconcileError
    <3>2. rc.cur # NoTx
      BY <2>5 DEF ReconcileAck, ReconcileError, CompTypeOK
    <3>3. rc' \in RcType /\ rc'.cur = rc.cur
      BY <2>0, <3>1, ZenonT(30)
    <3> QED BY <2>5, <3>2, <3>3 DEF ReconcileAck, ReconcileError, CompTypeOK
  <2> QED BY <2>1, <2>2, <2>3, <2>4, <2>5 DEF Reconcile
<1> QED BY <1>1, <1>2, <1>3

\* recover_from_wal keeps the types.
LEMMA RecoverTypeOK == TypeOK /\ Recover => TypeOK'
<1> SUFFICES ASSUME TypeOK, Recover PROVE TypeOK'
  OBVIOUS
<1> USE DEF TypeOK
<1>1. CASE RecoverScan
  <2>1. RecTypeOK'
    <3>1. \A i \in DOMAIN wal : wal[i] \in WalEntry BY DEF WalTypeOK
    <3> QED BY <1>1, <3>1 DEF RecoverScan, RecTypeOK
  <2>2. TxTypeOK' BY <1>1 DEF RecoverScan, TxTypeOK, txVars
  <2>3. /\ NetTypeOK' /\ WalTypeOK' /\ CompTypeOK'
    BY <1>1 DEF RecoverScan, NetTypeOK, WalTypeOK, CompTypeOK, netVars, walVars, compVars
  <2> QED BY <2>1, <2>2, <2>3
<1>2. ASSUME NEW e \in recTodo, RecoverNext(e) PROVE TypeOK'
  <2>1. e \in WalEntry BY DEF RecTypeOK
  <2>2. TxTypeOK' BY <1>2, <2>1 DEF RecoverNext, TxTypeOK, TransactionState, WalEntry
  <2>3. RecTypeOK' BY <1>2, <2>1 DEF RecoverNext, RecTypeOK, WalEntry
  <2>4. /\ NetTypeOK' /\ WalTypeOK' /\ CompTypeOK'
    BY <1>2 DEF RecoverNext, NetTypeOK, WalTypeOK, CompTypeOK, netVars, walVars, compVars
  <2> QED BY <2>2, <2>3, <2>4
<1>3. CASE RecoverTruncate
  <2>1. WalTypeOK'
    <3>0. wal' = <<>> \/ wal' = wal BY <1>3, Zenon DEF RecoverTruncate
    <3>1. wal' \in Seq(WalEntry)
      <4>1. wal \in Seq(WalEntry) BY DEF WalTypeOK
      <4>2. <<>> \in Seq(WalEntry) OBVIOUS
      <4> QED BY <3>0, <4>1, <4>2
    <3>2. torn \in BOOLEAN BY DEF WalTypeOK
    <3>3. torn' = FALSE \/ torn' = torn BY <1>3, Zenon DEF RecoverTruncate
    <3>4. torn' \in BOOLEAN BY <3>2, <3>3, Zenon
    <3> QED BY <1>3, <3>1, <3>4 DEF RecoverTruncate, WalTypeOK
  <2>2. TxTypeOK' BY <1>3 DEF RecoverTruncate, TxTypeOK, txVars
  <2>3. /\ NetTypeOK' /\ CompTypeOK' /\ RecTypeOK'
    BY <1>3 DEF RecoverTruncate, NetTypeOK, CompTypeOK, RecTypeOK, netVars, compVars
  <2> QED BY <2>1, <2>2, <2>3
<1> QED BY <1>1, <1>2, <1>3 DEF Recover

\* A crash keeps the types.
LEMMA CrashTypeOK == TypeOK /\ Crash => TypeOK'
<1> SUFFICES ASSUME TypeOK, Crash PROVE TypeOK'
  OBVIOUS
<1> USE McpMeshAssumption DEF TypeOK, Crash
<1>1. TxTypeOK' BY DEF TxTypeOK
<1>2. NetTypeOK' BY DEF NetTypeOK, netVars
<1>3. WalTypeOK'
  <2>1. torn' \in BOOLEAN BY Zenon DEF WalTypeOK
  <2> QED BY <2>1 DEF WalTypeOK
<1>4. CompTypeOK' BY DEF CompTypeOK, RcIdle
<1>5. RecTypeOK' BY DEF RecTypeOK
<1> QED BY <1>1, <1>2, <1>3, <1>4, <1>5

\* Every step keeps the types.
LEMMA NextTypeOK == TypeOK /\ [Next]_vars => TypeOK'
<1> SUFFICES ASSUME TypeOK, [Next]_vars PROVE TypeOK'
  OBVIOUS
<1>1. ASSUME NEW t \in Tx, Coordinate(t) \/ Timeout(t) PROVE TypeOK'
  BY <1>1, PrepareTypeOK, CommitTypeOK, RollbackTypeOK DEF Coordinate
<1>2. CASE UNCHANGED vars
  BY <1>2 DEF TypeOK, TxTypeOK, NetTypeOK, WalTypeOK, CompTypeOK, RecTypeOK, vars, txVars,
              netVars, walVars, compVars, recVars
<1> QED
  BY <1>1, <1>2, RegistryTypeOK, ExecuteTypeOK, WalThreadTypeOK, HandleTypeOK,
     ReconcileTypeOK, CrashTypeOK, RecoverTypeOK DEF Next

\* Every variable of the coordinator keeps its type, and no server is tried
\* more often than max_retries allows.
THEOREM TypeCorrect == Spec => []TypeOK
<1>1. Init => TypeOK BY InitTypeOK
<1>2. TypeOK /\ [Next]_vars => TypeOK' BY NextTypeOK
<1> QED BY <1>1, <1>2, PTL DEF Spec

-----------------------------------------------------------------------------
(* The inductive invariant.                                                *)

\* The invariant holds before the first call.
LEMMA InitIInv == Init => IInv
  BY McpMeshAssumption DEF Init, IInv, LogInv, SuccessIsAtomic, PhaseInv, AbortInv, CommitInv, Untouched,
         Aborted, Sent, AllHandled, RcIdle

\* A change of the registry touches nothing the invariant speaks of.
LEMMA RegistryIInv == TypeOK /\ IInv /\ Registry => IInv'
<1> SUFFICES ASSUME IInv, Registry PROVE IInv'
  OBVIOUS
<1>1. UNCHANGED <<txVars, netVars, walVars, compVars, recVars>>
  BY DEF Registry, Register, Heartbeat, HeartbeatLapse, Unregister
<1> QED
  BY <1>1 DEF IInv, LogInv, GoodEntry, SuccessIsAtomic, PhaseInv, AbortInv, CommitInv,
              Untouched, Aborted, Sent, AllHandled, txVars, netVars, walVars, compVars, recVars

\* Untouched only looks at the requests, the queue and the log.
LEMMA UntouchedFrame ==
  ASSUME NEW u, UNCHANGED <<sent, comp, rc, wal, appending, recTodo>>
  PROVE  Untouched(u)' = Untouched(u)
  BY DEF Untouched, Sent

\* The log, or what is on its way into or out of it, mentions u.
Logged(u) ==
  \/ \E i \in DOMAIN wal : wal[i].tx = u
  \/ \E e \in appending \cup recTodo : e.tx = u

\* Somebody has sent, or may send, a commit request for u.
Committing(u) == Sent(u, "commit") \/ comp[u] # {} \/ rc.cur = u

\* Nothing that the invariant says of u changes, except that its requests
\* may be handled.
Same(u) ==
  /\ pc'[u] = pc[u] /\ parts'[u] = parts[u] /\ state'[u] = state[u]
  /\ wait'[u] = wait[u] /\ todo'[u] = todo[u] /\ acked'[u] = acked[u]
  /\ failed'[u] = failed[u] /\ result'[u] = result[u]
  /\ (recCur' = u) = (recCur = u)
  /\ rec' # "off" => rec # "off"
  /\ handled \subseteq handled'
  /\ \A s : <<u, s, "rollback">> \in sent' <=> <<u, s, "rollback">> \in sent
  /\ Logged(u)' => Logged(u)
  /\ Committing(u)' => Committing(u)

CallInv(u) == PhaseInv(u) /\ AbortInv(u) /\ CommitInv(u)

\* A call that a step leaves alone keeps its part of the invariant.
LEMMA SameKeeps ==
  ASSUME NEW u \in Tx, CallInv(u), Same(u)
  PROVE  CallInv(u)'
<1>1. \A k : AllHandled(u, k) => AllHandled(u, k)' BY DEF Same, AllHandled
<1>3. Sent(u, "rollback")' = Sent(u, "rollback") BY DEF Same, Sent
<1>4. Untouched(u) => Untouched(u)'
  BY DEF Same, Untouched, Logged, Committing
<1>5. PhaseInv(u)'
  <2>1. CASE pc[u] \in {"new", "init", "prepare", "retry"}
    BY <1>3, <2>1 DEF CallInv, Same, PhaseInv
  <2>2. CASE pc[u] \in {"walPrepare", "walCommit"}
    BY <1>1, <1>3, <2>2 DEF CallInv, Same, PhaseInv
  <2>3. CASE pc[u] = "commit"
    BY <1>1, <1>3, <2>3 DEF CallInv, Same, PhaseInv
  <2>4. CASE pc[u] \notin {"new", "init", "prepare", "retry", "walPrepare", "commit",
                         "walCommit"}
    BY <1>1, <1>3, <2>4 DEF CallInv, Same, PhaseInv
  <2> QED BY <2>1, <2>2, <2>3, <2>4
<1>6. AbortInv(u)' BY <1>4 DEF CallInv, Same, AbortInv, Aborted
<1>7. CommitInv(u)' BY <1>1 DEF CallInv, Same, CommitInv, Committing
<1> QED BY <1>5, <1>6, <1>7 DEF CallInv

\* A call's step leaves the other calls alone.
LEMMA OtherCalls ==
  ASSUME TypeOK, NEW t \in Tx, NEW u \in Tx, u # t, NEW s, NEW P,
         \/ Execute(t, P) \/ Timeout(t) \/ AbortPrepare(t)
         \/ PrepareFanout(t) \/ StartRetry(t) \/ PrepareEnd(t) \/ EnterCommit(t)
         \/ PrepareAck(t, s) \/ PrepareNetworkError(t, s)
         \/ RetrySend(t, s) \/ RetryNetworkError(t, s)
         \/ CommitFailed(t) \/ CommitEnd(t) \/ CommitLogged(t)
         \/ CommitSend(t, s) \/ CommitAck(t, s) \/ CommitError(t, s)
         \/ RollbackAnswer(t, s) \/ RollbackEnd(t) \/ TimeoutEnd(t)
  PROVE  Same(u)
<1>0. \A k : (\A r : <<u, r, k>> \in sent' <=> <<u, r, k>> \in sent) => Sent(u, k)' = Sent(u, k)
  BY DEF Sent
<1> USE <1>0 DEF Same, Logged, Committing, TypeOK, TxTypeOK, NetTypeOK, CompTypeOK, RecTypeOK, Return, Transition,
            netVars, walVars, compVars, recVars
<1>1. CASE Execute(t, P) BY <1>1 DEF Execute
<1>2. CASE Timeout(t) BY <1>2 DEF Timeout, RollbackFanout, ToAll
<1>3. CASE AbortPrepare(t) BY <1>3 DEF AbortPrepare, RollbackFanout, ToAll
<1>4. CASE PrepareFanout(t) BY <1>4 DEF PrepareFanout, ToAll
<1>5. CASE StartRetry(t) \/ EnterCommit(t) BY <1>5 DEF StartRetry, EnterCommit
<1>6. CASE PrepareEnd(t) BY <1>6 DEF PrepareEnd
<1>7. CASE PrepareAck(t, s) \/ PrepareNetworkError(t, s)
  BY <1>7 DEF PrepareAck, PrepareNetworkError
<1>8. CASE RetrySend(t, s) BY <1>8, <1>3 DEF RetrySend
<1>9. CASE RetryNetworkError(t, s) BY <1>9, <1>3 DEF RetryNetworkError
<1>10. CASE CommitFailed(t) \/ CommitLogged(t)
  BY <1>10, McpMeshAssumption DEF CommitFailed, CommitLogged, LeaveCommit
<1>11. CASE CommitEnd(t) BY <1>11 DEF CommitEnd
<1>12. CASE CommitSend(t, s) BY <1>12, McpMeshAssumption DEF CommitSend, LeaveCommit
<1>13. CASE CommitAck(t, s) \/ CommitError(t, s) BY <1>13 DEF CommitAck, CommitError
<1>14. CASE RollbackAnswer(t, s) \/ RollbackEnd(t) \/ TimeoutEnd(t)
  BY <1>14 DEF RollbackAnswer, RollbackEnd, TimeoutEnd
<1> QED BY <1>1, <1>2, <1>3, <1>4, <1>5, <1>6, <1>7, <1>8, <1>9, <1>10, <1>11, <1>12,
           <1>13, <1>14

\* The log stays true while entries are only added when they are true.
LEMMA LogKeeps ==
  ASSUME TypeOK, LogInv, wal' = wal, recTodo' = recTodo, handled \subseteq handled',
         \A u \in Tx : Untouched(u) \/ parts'[u] = parts[u],
         \A e \in appending' : e \in appending \/ GoodEntry(e)'
  PROVE  LogInv'
<1>2. \A i \in DOMAIN wal : wal[i].tx \in Tx
  <2>1. \A i \in DOMAIN wal : wal[i] \in WalEntry BY DEF TypeOK, WalTypeOK
  <2> QED BY <2>1 DEF WalEntry
<1>3. \A e \in appending \cup recTodo : e.tx \in Tx
  BY DEF TypeOK, WalTypeOK, RecTypeOK, WalEntry
<1>4. \A i \in DOMAIN wal : parts'[wal[i].tx] = parts[wal[i].tx]
  BY <1>2 DEF Untouched
<1>5. \A e \in appending \cup recTodo : parts'[e.tx] = parts[e.tx]
  BY <1>3 DEF Untouched
<1>6. (\A i \in DOMAIN wal : GoodEntry(wal[i]))'
  BY <1>4 DEF LogInv, GoodEntry, AllHandled
<1>7. ASSUME NEW e \in appending \cup recTodo PROVE GoodEntry(e)'
  BY <1>5 DEF LogInv, GoodEntry, AllHandled
<1>8. (\A e \in recTodo : e.state = "Prepare")' BY DEF LogInv
<1> QED BY <1>6, <1>7, <1>8 DEF LogInv

\* A reported success stays one while no rollback is sent for it.
LEMMA SuccessKeeps ==
  ASSUME SuccessIsAtomic, handled \subseteq handled',
         \A u \in Tx : result'[u] = "success" =>
            \/ /\ result[u] = "success" /\ parts'[u] = parts[u]
               /\ Sent(u, "rollback")' = Sent(u, "rollback")
            \/ (AllHandled(u, "commit") /\ ~Sent(u, "rollback"))'
  PROVE  SuccessIsAtomic'
  BY DEF SuccessIsAtomic, AllHandled

\* The invariant, split into the log, the results and the calls.
LEMMA IInvParts == IInv <=> LogInv /\ SuccessIsAtomic /\ \A u \in Tx : CallInv(u)
  BY DEF IInv, CallInv

\* The checks of execute_transaction: a new call is untouched so far.
LEMMA ExecuteIInv ==
  ASSUME TypeOK, IInv, NEW t \in Tx, NEW P \in SUBSET Server, Execute(t, P)
  PROVE  IInv'
<1> USE DEF Execute, Return, TypeOK, TxTypeOK, netVars, walVars, compVars, recVars, IInv
<1>0. Untouched(t) /\ result[t] = "none" BY DEF AbortInv, PhaseInv
<1>1. LogInv' BY <1>0, LogKeeps
<1>2. SuccessIsAtomic' BY <1>0, SuccessKeeps DEF Sent
<1>3. ASSUME NEW u \in Tx, u # t PROVE CallInv(u)'
  BY <1>3, OtherCalls, SameKeeps DEF CallInv
<1>4. CallInv(t)'
  <2>1. Untouched(t)' BY <1>0, UntouchedFrame
  <2>2. PhaseInv(t)'
    <3>1. PhaseInv(t) /\ pc[t] = "new" /\ rec = "off" /\ recCur # t
      BY DEF PhaseInv
    <3>2. /\ (pc'[t] = "init" /\ result'[t] = "none") \/ pc'[t] = "done"
          /\ UNCHANGED <<wait, acked, rec, recCur, sent>>
      BY <1>0
    <3> HIDE DEF Execute, Return, TypeOK, TxTypeOK, IInv
    <3> QED BY <3>1, <3>2 DEF PhaseInv, Sent
  <2>3. AbortInv(t)' BY <1>0, <2>1 DEF AbortInv, Aborted
  <2>4. CommitInv(t)' BY <2>1 DEF CommitInv, Untouched
  <2> QED BY <2>2, <2>3, <2>4 DEF CallInv
<1> QED BY <1>1, <1>2, <1>3, <1>4, IInvParts DEF CallInv

\* prepare_phase failed: nothing of the call is in the log or the queue.
LEMMA AbortIInv ==
  ASSUME TypeOK, IInv, NEW t \in Tx, pc[t] \in {"prepare", "retry"}, AbortPrepare(t)
  PROVE  IInv'
<1> USE DEF AbortPrepare, RollbackFanout, Transition, TypeOK, TxTypeOK, netVars, walVars,
            compVars, recVars, IInv
<1>0. Untouched(t) /\ result[t] = "none" /\ recCur # t BY DEF AbortInv, PhaseInv
<1>1. LogInv' BY LogKeeps
<1>2. SuccessIsAtomic' BY <1>0, SuccessKeeps DEF Sent, ToAll
<1>3. ASSUME NEW u \in Tx, u # t PROVE CallInv(u)'
  BY <1>3, OtherCalls, SameKeeps DEF CallInv
<1>4. CallInv(t)'
  <2>1. Untouched(t)' BY <1>0 DEF Untouched, Sent, ToAll
  <2>2. PhaseInv(t)' BY <1>0 DEF PhaseInv
  <2>3. AbortInv(t)' BY <1>0, <2>1 DEF AbortInv, Aborted
  <2>4. CommitInv(t)' BY <2>1 DEF CommitInv, Untouched
  <2> QED BY <2>2, <2>3, <2>4 DEF CallInv
<1> QED BY <1>1, <1>2, <1>3, <1>4, IInvParts DEF CallInv

\* The deadline: the call gives up, and what it has logged stays true.
LEMMA TimeoutIInv ==
  ASSUME TypeOK, IInv, NEW t \in Tx, Timeout(t)
  PROVE  IInv'
<1> USE DEF Timeout, RollbackFanout, TypeOK, TxTypeOK, netVars, walVars,
            compVars, recVars, IInv
<1>0. result[t] = "none" /\ recCur # t BY DEF PhaseInv
<1>1. LogInv' BY LogKeeps
<1>2. SuccessIsAtomic' BY <1>0, SuccessKeeps DEF Sent, ToAll
<1>3. ASSUME NEW u \in Tx, u # t PROVE CallInv(u)'
  BY <1>3, OtherCalls, SameKeeps DEF CallInv
<1>4. CallInv(t)'
  <2>0. Sent(t, "commit")' = Sent(t, "commit") BY DEF Sent, ToAll
  <2>1. Untouched(t)' = Untouched(t) BY <2>0 DEF Untouched
  <2>2. PhaseInv(t)' BY <1>0 DEF PhaseInv
  <2>3. AbortInv(t)' BY <1>0, <2>1 DEF AbortInv, Aborted
  <2>4. CommitInv(t)' BY <2>0 DEF CommitInv, AllHandled
  <2> QED BY <2>2, <2>3, <2>4 DEF CallInv
<1> QED BY <1>1, <1>2, <1>3, <1>4, IInvParts DEF CallInv

\* The steps of the prepare phase that do not abort.
LEMMA PrepareIInv ==
  ASSUME TypeOK, IInv, NEW t \in Tx, NEW s,
         \/ PrepareFanout(t) \/ StartRetry(t)
         \/ PrepareAck(t, s) \/ PrepareNetworkError(t, s)
         \/ (RetrySend(t, s) \/ RetryNetworkError(t, s)) /\ ~AbortPrepare(t)
  PROVE  IInv'
<1> USE DEF TypeOK, TxTypeOK, netVars, walVars, compVars, recVars, IInv
<1>a. /\ wal' = wal /\ appending' = appending /\ recTodo' = recTodo /\ recCur' = recCur
      /\ comp' = comp /\ rc' = rc /\ handled' = handled /\ parts' = parts /\ result' = result
      /\ failed' = failed /\ rec' = rec
  BY DEF PrepareFanout, StartRetry, PrepareAck, PrepareNetworkError, RetrySend,
         RetryNetworkError
<1>b. /\ pc[t] \in {"init", "prepare", "retry"} /\ pc'[t] \in {"prepare", "retry"}
      /\ state[t] = "Init" \/ state'[t] = state[t]
  BY DEF PrepareFanout, StartRetry, PrepareAck, PrepareNetworkError, RetrySend,
         RetryNetworkError, Transition
<1>c. \A u \in Tx, k \in {"commit", "rollback"} : Sent(u, k)' = Sent(u, k)
  BY DEF PrepareFanout, StartRetry, PrepareAck, PrepareNetworkError, RetrySend,
         RetryNetworkError, Sent, ToAll
<1>0. Untouched(t) /\ result[t] = "none" /\ recCur # t /\ ~Aborted(t)
  BY <1>b DEF AbortInv, PhaseInv
<1>1. LogInv' BY <1>a, LogKeeps
<1>2. SuccessIsAtomic' BY <1>a, <1>c, SuccessKeeps
<1>3. ASSUME NEW u \in Tx, u # t PROVE CallInv(u)'
  BY <1>3, OtherCalls, SameKeeps DEF CallInv
<1>4. CallInv(t)'
  <2>1. Untouched(t)' BY <1>0, <1>a, <1>c DEF Untouched
  <2>2. \A r \in acked'[t] : <<t, r, "prepare">> \in handled'
    <3>0. \A r \in acked[t] : <<t, r, "prepare">> \in handled
      BY <1>b DEF PhaseInv
    <3>1. CASE PrepareAck(t, s)
      BY <3>0, <3>1 DEF PrepareAck
    <3>2. CASE acked' = acked
      BY <3>0, <3>2, <1>a
    <3> QED BY <3>1, <3>2 DEF PrepareFanout, StartRetry, PrepareNetworkError, RetrySend,
                              RetryNetworkError
  <2>3. PhaseInv(t)' BY <1>a, <1>b, <1>c, <1>0, <2>2 DEF PhaseInv
  <2>4. state'[t] \notin {"Abort", "Rollback"}
    BY <1>0 DEF Aborted, PrepareFanout, StartRetry, PrepareAck, PrepareNetworkError,
                RetrySend, RetryNetworkError, Transition
  <2>5. AbortInv(t)' BY <1>0, <1>a, <2>1, <2>4 DEF AbortInv, Aborted
  <2>6. CommitInv(t)' BY <2>1 DEF CommitInv, Untouched
  <2> QED BY <2>3, <2>5, <2>6 DEF CallInv
<1> QED BY <1>1, <1>2, <1>3, <1>4, IInvParts DEF CallInv

\* The prepare phase has succeeded: its entry is true.
LEMMA PrepareEndIInv ==
  ASSUME TypeOK, IInv, NEW t \in Tx, PrepareEnd(t)
  PROVE  IInv'
<1> USE DEF PrepareEnd, TypeOK, TxTypeOK, netVars, compVars, recVars, IInv
<1>0. Untouched(t) /\ result[t] = "none" /\ recCur # t /\ ~Aborted(t)
  BY DEF AbortInv, PhaseInv
<1>1. AllHandled(t, "prepare") BY DEF PhaseInv, AllHandled
<1>2. LogInv'
  <2>1. \A e \in appending' : e \in appending \/ GoodEntry(e)'
    BY <1>1 DEF GoodEntry, AllHandled
  <2> QED BY <2>1, LogKeeps
<1>3. SuccessIsAtomic' BY SuccessKeeps DEF Sent
<1>4. ASSUME NEW u \in Tx, u # t PROVE CallInv(u)'
  BY <1>4, OtherCalls, SameKeeps DEF CallInv
<1>5. CallInv(t)'
  <2>1. AllHandled(t, "prepare")' BY <1>1 DEF AllHandled
  <2>2. PhaseInv(t)' BY <1>0, <2>1 DEF PhaseInv, Sent
  <2>3. AbortInv(t)' BY <1>0 DEF AbortInv, Aborted
  <2>4. CommitInv(t)' BY <2>1 DEF CommitInv
  <2> QED BY <2>2, <2>3, <2>4 DEF CallInv
<1> QED BY <1>2, <1>3, <1>4, <1>5, IInvParts DEF CallInv

\* The commit phase is entered only after every participant has prepared.
LEMMA EnterCommitIInv ==
  ASSUME TypeOK, IInv, NEW t \in Tx, EnterCommit(t)
  PROVE  IInv'
<1> USE DEF EnterCommit, Transition, TypeOK, TxTypeOK, netVars, walVars, compVars, recVars,
            IInv
<1>0. result[t] = "none" /\ recCur # t /\ wait[t] = {} /\ ~Sent(t, "rollback")
      /\ AllHandled(t, "prepare")
  BY DEF PhaseInv
<1>2. LogInv' BY LogKeeps
<1>3. SuccessIsAtomic' BY SuccessKeeps DEF Sent
<1>4. ASSUME NEW u \in Tx, u # t PROVE CallInv(u)'
  BY <1>4, OtherCalls, SameKeeps DEF CallInv
<1>5. CallInv(t)'
  <2>1. AllHandled(t, "prepare")' BY <1>0 DEF AllHandled
  <2>2. PhaseInv(t)' BY <1>0, <2>1 DEF PhaseInv, Sent
  <2>3. AbortInv(t)' BY <1>0 DEF AbortInv, Aborted
  <2>4. CommitInv(t)' BY <2>1 DEF CommitInv
  <2> QED BY <2>2, <2>3, <2>4 DEF CallInv
<1> QED BY <1>2, <1>3, <1>4, <1>5, IInvParts DEF CallInv

\* commit_phase returns.
LEMMA LeaveIInv ==
  ASSUME TypeOK, IInv, NEW t \in Tx, NEW r \in {"success", "failed"}, LeaveCommit(t, r),
         pc[t] \in {"commit", "walCommit"}, wait[t] = {},
         r = "success" => pc[t] = "walCommit",
         UNCHANGED <<registry, parts, state, wait, todo, attempt, acked, failed, netVars,
                     walVars, compVars>>,
         \A u \in Tx : u # t => Same(u)
  PROVE  IInv'
<1> USE DEF LeaveCommit, Return, TypeOK, TxTypeOK, netVars, walVars, compVars, recVars, IInv
<1>0. ~Aborted(t) BY DEF AbortInv
<1>1. AllHandled(t, "prepare") /\ (recCur # t => ~Sent(t, "rollback"))
      /\ (r = "success" => AllHandled(t, "commit"))
  BY DEF PhaseInv
<1>2. LogInv' BY LogKeeps
<1>3. SuccessIsAtomic'
  <2>1. \A u \in Tx : u # t => result'[u] = result[u] BY DEF Same
  <2>2. recCur = t => result' = result OBVIOUS
  <2>3. recCur # t => result'[t] = r OBVIOUS
  <2> QED BY <1>1, <2>1, <2>2, <2>3, SuccessKeeps DEF Sent, AllHandled
<1>4. ASSUME NEW u \in Tx, u # t PROVE CallInv(u)'
  BY <1>4, SameKeeps DEF CallInv
<1>5. CallInv(t)'
  <2>1. AllHandled(t, "prepare")' BY <1>1 DEF AllHandled
  <2>2. pc'[t] \in {"done", "recovered"} /\ recCur' # t
    BY McpMeshAssumption
  <2>3. PhaseInv(t)' BY <2>2 DEF PhaseInv
  <2>4. result'[t] \in {result[t], r} OBVIOUS
  <2>5. AbortInv(t)' BY <1>0, <2>2, <2>4 DEF AbortInv, Aborted
  <2>6. CommitInv(t)' BY <2>1 DEF CommitInv
  <2> QED BY <2>3, <2>5, <2>6 DEF CallInv
<1> QED BY <1>2, <1>3, <1>4, <1>5, IInvParts DEF CallInv

\* The steps of commit_phase, run by a call or by recovery.
LEMMA CommitIInv ==
  ASSUME TypeOK, IInv, NEW t \in Tx, NEW s,
         \/ CommitFailed(t) \/ CommitEnd(t) \/ CommitLogged(t)
         \/ CommitSend(t, s) \/ CommitAck(t, s) \/ CommitError(t, s)
  PROVE  IInv'
<1> USE DEF TypeOK, TxTypeOK, netVars, walVars, compVars, recVars, IInv
<1>o. \A u \in Tx : u # t => Same(u) BY OtherCalls
<1>p. ASSUME NEW u \in Tx, u # t PROVE CallInv(u)'
  BY <1>p, <1>o, SameKeeps DEF CallInv
<1>q. AllHandled(t, "prepare") /\ ~Aborted(t) /\ pc[t] \in {"commit", "walCommit"}
  BY DEF PhaseInv, AbortInv, CommitFailed, CommitEnd, CommitLogged, CommitSend, CommitAck,
         CommitError
<1>1. CASE CommitFailed(t)
  BY <1>1, <1>o, LeaveIInv DEF CommitFailed
<1>2. CASE CommitLogged(t)
  <2>1. wait[t] = {} BY <1>2 DEF CommitLogged, PhaseInv
  <2> QED BY <1>2, <1>o, <2>1, LeaveIInv DEF CommitLogged
<1>3. CASE CommitSend(t, s) /\ s \notin Registered
  BY <1>3, <1>o, LeaveIInv DEF CommitSend
<1>4. CASE CommitEnd(t)
  <2> USE <1>4 DEF CommitEnd
  <2>1. AllHandled(t, "commit") BY DEF PhaseInv, AllHandled
  <2>2. LogInv'
    <3>1. \A e \in appending' : e \in appending \/ GoodEntry(e)'
      BY <1>q, <2>1 DEF GoodEntry, AllHandled
    <3> QED BY <3>1, LogKeeps
  <2>3. SuccessIsAtomic' BY SuccessKeeps DEF Sent
  <2>4. (AllHandled(t, "prepare") /\ AllHandled(t, "commit"))'
    BY <1>q, <2>1 DEF AllHandled
  <2>5. PhaseInv(t)' BY <2>4 DEF PhaseInv, Sent
  <2>6. AbortInv(t)' BY <1>q DEF AbortInv, Aborted
  <2>7. CommitInv(t)' BY <2>4 DEF CommitInv
  <2> QED BY <1>p, <2>2, <2>3, <2>5, <2>6, <2>7, IInvParts DEF CallInv
<1>5. CASE \/ CommitSend(t, s) /\ s \in Registered
           \/ CommitAck(t, s) \/ CommitError(t, s)
  <2>1. /\ UNCHANGED <<pc, parts, state, result, handled, wal, appending, rc, rec,
                       recTodo, recCur>>
        /\ pc[t] = "commit"
    BY <1>5 DEF CommitSend, CommitAck, CommitError
  <2>2. LogInv' BY <2>1, LogKeeps
  <2>3. \A u \in Tx : Sent(u, "rollback")' = Sent(u, "rollback")
    BY <1>5 DEF CommitSend, CommitAck, CommitError, Sent
  <2>4. SuccessIsAtomic' BY <2>1, <2>3, SuccessKeeps
  <2>5. AllHandled(t, "prepare")' BY <1>q, <2>1 DEF AllHandled
  <2>6. PhaseInv(t)'
    <3>1. /\ parts[t] \subseteq acked[t] \cup failed[t] \cup wait[t] \cup todo[t]
          /\ \A q \in acked[t] : <<t, q, "commit">> \in handled
          /\ \A q, v \in wait[t] : q = v
      BY <2>1 DEF PhaseInv
    <3>2. CASE CommitSend(t, s) /\ s \in Registered
      <4>1. acked'[t] = acked[t] /\ failed'[t] = failed[t] /\ wait[t] = {}
            /\ wait'[t] = {s} /\ todo'[t] = todo[t] \ {s}
        BY <3>2 DEF CommitSend
      <4> QED BY <2>1, <2>3, <2>5, <3>1, <4>1 DEF PhaseInv
    <3>3. CASE CommitAck(t, s)
      <4>1. acked'[t] = acked[t] \cup {s} /\ failed'[t] = failed[t] /\ wait[t] = {s}
            /\ wait'[t] = {} /\ todo'[t] = todo[t] /\ <<t, s, "commit">> \in handled
        BY <3>1, <3>3 DEF CommitAck
      <4> QED BY <2>1, <2>3, <2>5, <3>1, <4>1 DEF PhaseInv
    <3>4. CASE CommitError(t, s)
      <4>1. acked'[t] = acked[t] /\ todo'[t] = todo[t] /\ wait[t] = {s}
        BY <3>1, <3>4 DEF CommitError
      <4>2. \/ wait'[t] = wait[t] /\ failed'[t] = failed[t]
            \/ wait'[t] = {} /\ failed'[t] = failed[t] \cup {s}
        BY <3>4 DEF CommitError
      <4> QED BY <2>1, <2>3, <2>5, <3>1, <4>1, <4>2 DEF PhaseInv
    <3> QED BY <1>5, <3>2, <3>3, <3>4
  <2>7. AbortInv(t)' BY <1>q, <2>1 DEF AbortInv, Aborted
  <2>8. CommitInv(t)' BY <2>5 DEF CommitInv
  <2> QED BY <1>p, <2>2, <2>4, <2>6, <2>7, <2>8, IInvParts DEF CallInv
<1> QED BY <1>1, <1>2, <1>3, <1>4, <1>5

\* The steps of rollback_phase.
LEMMA RollbackIInv ==
  ASSUME TypeOK, IInv, NEW t \in Tx, NEW s,
         RollbackAnswer(t, s) \/ RollbackEnd(t) \/ TimeoutEnd(t)
  PROVE  IInv'
<1> USE DEF TypeOK, TxTypeOK, netVars, walVars, compVars, recVars, IInv,
            RollbackAnswer, RollbackEnd, TimeoutEnd, Transition, Return
<1>1. LogInv' BY LogKeeps
<1>2. SuccessIsAtomic'
  <2>1. \A u \in Tx : Sent(u, "rollback")' = Sent(u, "rollback") BY DEF Sent
  <2>2. \A u \in Tx : result'[u] = "success" => result[u] = "success" OBVIOUS
  <2> QED BY <2>1, <2>2, SuccessKeeps
<1>3. ASSUME NEW u \in Tx, u # t PROVE CallInv(u)'
  BY <1>3, OtherCalls, SameKeeps DEF CallInv
<1>4. CallInv(t)'
  <2>1. Untouched(t)' = Untouched(t) BY UntouchedFrame
  <2>2. PhaseInv(t)' BY DEF PhaseInv
  <2>3. AbortInv(t)'
    <3>1. Aborted(t)' => Aborted(t) BY DEF Aborted
    <3> QED BY <2>1, <3>1 DEF AbortInv
  <2>4. CommitInv(t)' BY DEF CommitInv, AllHandled, Sent
  <2> QED BY <2>2, <2>3, <2>4 DEF CallInv
<1> QED BY <1>1, <1>2, <1>3, <1>4, IInvParts DEF CallInv

\* A step outside the calls: nothing that the invariant says of a call
\* changes, and the log stays true.
LEMMA FrameIInv ==
  ASSUME IInv, LogInv', handled \subseteq handled', result' = result, parts' = parts,
         \A u \in Tx : Same(u)
  PROVE  IInv'
<1>1. SuccessIsAtomic'
  <2>1. \A u \in Tx : Sent(u, "rollback")' = Sent(u, "rollback") BY DEF Same, Sent
  <2> QED BY <2>1, SuccessKeeps DEF IInv
<1>2. ASSUME NEW u \in Tx PROVE CallInv(u)'
  BY SameKeeps DEF IInv, CallInv
<1> QED BY <1>1, <1>2 DEF IInv, CallInv

\* The blocking thread moves an entry to the file or loses it.
LEMMA WalThreadIInv == TypeOK /\ IInv /\ WalThread => IInv'
<1> SUFFICES ASSUME TypeOK, IInv, NEW e \in appending, WalAppend(e) \/ WalAppendError(e)
             PROVE  IInv'
  BY DEF WalThread
<1>1. /\ UNCHANGED <<pc, parts, state, wait, todo, acked, failed, result, sent, handled,
                     comp, rc, recTodo, recCur>>
      /\ appending' = appending \ {e}
  BY DEF WalAppend, WalAppendError, txVars, netVars, compVars, recVars
<1>2. wal \in Seq(WalEntry) BY DEF TypeOK, WalTypeOK
<1>3. wal' = wal \/ wal' = Append(wal, e) BY DEF WalAppend, WalAppendError
<1>4. \A i \in DOMAIN wal' : (i \in DOMAIN wal /\ wal'[i] = wal[i]) \/ wal'[i] = e
  BY <1>2, <1>3
<1>5. \A x : GoodEntry(x) => GoodEntry(x)' BY <1>1 DEF GoodEntry, AllHandled
<1>6. LogInv'
  <2>1. (\A i \in DOMAIN wal : GoodEntry(wal[i]))'
    <3>1. ASSUME NEW i \in DOMAIN wal' PROVE GoodEntry(wal'[i])
      BY <1>4 DEF IInv, LogInv
    <3>2. ASSUME NEW i \in DOMAIN wal' PROVE GoodEntry(wal[i])'
      BY <1>1, <3>1 DEF GoodEntry, AllHandled
    <3> QED BY <3>2
  <2>2. (\A x \in appending \cup recTodo : GoodEntry(x))'
    BY <1>1, <1>5 DEF IInv, LogInv
  <2>3. (\A x \in recTodo : x.state = "Prepare")' BY <1>1 DEF IInv, LogInv
  <2> QED BY <2>1, <2>2, <2>3 DEF LogInv
<1>7. \A u \in Tx : Same(u)
  BY <1>1, <1>4 DEF Same, Logged, Committing, Sent, recVars, WalAppend, WalAppendError
<1> QED BY <1>1, <1>6, <1>7, FrameIInv

\* A participant handles a request.
LEMMA HandleIInv ==
  ASSUME TypeOK, IInv, NEW m \in sent, Handle(m)
  PROVE  IInv'
<1> USE DEF Handle, txVars, walVars, compVars, recVars
<1>1. LogInv' BY LogKeeps DEF IInv
<1>2. \A u \in Tx : Same(u) BY DEF Same, Logged, Committing, Sent
<1> QED BY <1>1, <1>2, FrameIInv

\* Reconciliation only sends commits for transactions that are in the queue,
\* or were when it copied their record.
LEMMA ReconcileIInv == TypeOK /\ IInv /\ Reconcile => IInv'
<1> SUFFICES ASSUME TypeOK, IInv, Reconcile PROVE IInv'
  OBVIOUS
<1>0. /\ UNCHANGED <<txVars, handled, walVars, recVars>>
  BY DEF Reconcile, ReconcileStart, ReconcilePick, ReconcileFinish, ReconcileSend,
         ReconcileAck, ReconcileError, netVars
<1>1. LogInv' BY <1>0, LogKeeps DEF IInv, txVars, walVars, recVars
<1>2. ASSUME NEW u \in Tx PROVE Committing(u)' => Committing(u)
  <2> USE DEF Committing, Sent
  <2>0. rc \in [ids : SUBSET Tx, cur : Tx \cup {NoTx}, todo : SUBSET Server,
                wait : SUBSET Server, still : SUBSET Server, retries : 0 .. MaxRetries]
    BY DEF TypeOK, CompTypeOK
  <2>1. CASE ReconcileStart
    BY <2>1, McpMeshAssumption DEF ReconcileStart, RcIdle, netVars
  <2>2. ASSUME NEW t \in Tx, ReconcilePick(t) PROVE Committing(u)' => Committing(u)
    <3>1. rc'.cur \in {rc.cur, t} /\ (comp[t] = {} => rc'.cur = rc.cur)
      BY <2>0, <2>2 DEF ReconcilePick
    <3> QED BY <2>2, <3>1 DEF ReconcilePick, netVars
  <2>3. ASSUME NEW t \in Tx, ReconcileFinish(t) PROVE Committing(u)' => Committing(u)
    <3>1. rc'.cur = NoTx BY <2>3 DEF ReconcileFinish, RcIdle
    <3>2. comp'[u] # {} => comp[u] # {}
      BY <2>3 DEF ReconcileFinish, TypeOK, CompTypeOK
    <3> QED BY <2>3, <3>1, <3>2, McpMeshAssumption DEF ReconcileFinish, netVars
  <2>4. ASSUME NEW s \in Server, ReconcileSend(s) PROVE Committing(u)' => Committing(u)
    <3>1. rc'.cur = rc.cur BY <2>0, <2>4 DEF ReconcileSend
    <3>2. u # rc.cur => (Sent(u, "commit")' <=> Sent(u, "commit"))
      BY <2>4 DEF ReconcileSend
    <3> QED BY <2>4, <3>1, <3>2 DEF ReconcileSend
  <2>5. ASSUME NEW s \in Server, ReconcileAck(s) \/ ReconcileError(s)
        PROVE  Committing(u)' => Committing(u)
    <3>1. rc'.cur = rc.cur BY <2>0, <2>5 DEF ReconcileAck, ReconcileError
    <3> QED BY <2>5, <3>1 DEF ReconcileAck, ReconcileError, netVars
  <2> QED BY <2>1, <2>2, <2>3, <2>4, <2>5 DEF Reconcile
<1>3. \A u, s : <<u, s, "rollback">> \in sent' <=> <<u, s, "rollback">> \in sent
  <2>1. sent' = sent \/ \E r \in Server : sent' = sent \cup {<<rc.cur, r, "commit">>}
    BY DEF Reconcile, ReconcileStart, ReconcilePick, ReconcileFinish, ReconcileSend,
           ReconcileAck, ReconcileError, netVars
  <2> QED BY <2>1
<1>4. \A u \in Tx : Same(u)
  BY <1>0, <1>2, <1>3 DEF Same, Logged, txVars, walVars, recVars
<1> QED BY <1>0, <1>1, <1>4, FrameIInv DEF txVars

\* A crash forgets everything that is not in the log.
LEMMA CrashIInv == TypeOK /\ IInv /\ Crash => IInv'
<1> SUFFICES ASSUME TypeOK, IInv, Crash PROVE IInv'
  OBVIOUS
<1> USE DEF Crash, netVars
<1>1. LogInv'
  <2>1. (\A i \in DOMAIN wal : GoodEntry(wal[i]))'
    BY DEF IInv, LogInv, GoodEntry, AllHandled
  <2> QED BY <2>1 DEF LogInv
<1>2. SuccessIsAtomic' BY DEF IInv, SuccessIsAtomic, AllHandled, Sent
<1>3. ASSUME NEW u \in Tx PROVE CallInv(u)'
  <2>0. PhaseInv(u) /\ AbortInv(u) /\ CommitInv(u) BY DEF IInv
  <2>1. /\ pc'[u] = IF pc[u] \in {"new", "done"} THEN pc[u] ELSE "lost"
        /\ wait'[u] = {} /\ recCur' # u /\ comp'[u] = {} /\ rc'.cur # u
    BY McpMeshAssumption DEF RcIdle
  <2>2. \A k : Sent(u, k)' = Sent(u, k) BY DEF Sent
  <2>3. PhaseInv(u)' BY <2>0, <2>1, <2>2 DEF PhaseInv
  <2>4. AbortInv(u)'
    <3>1. Aborted(u)' = Aborted(u) BY DEF Aborted
    <3>2. Untouched(u) => Untouched(u)' BY <2>1, <2>2 DEF Untouched
    <3> QED BY <2>0, <2>1, <3>1, <3>2 DEF AbortInv
  <2>5. CommitInv(u)' BY <2>0, <2>1, <2>2 DEF CommitInv, AllHandled
  <2> QED BY <2>3, <2>4, <2>5 DEF CallInv
<1> QED BY <1>1, <1>2, <1>3 DEF IInv, CallInv

\* Recovery only commits transactions whose Prepare entry is in the log.
LEMMA RecoverIInv == TypeOK /\ IInv /\ Recover => IInv'
<1> SUFFICES ASSUME TypeOK, IInv, Recover PROVE IInv'
  OBVIOUS
<1>1. CASE RecoverScan
  <2> USE <1>1 DEF RecoverScan, txVars, netVars, walVars, compVars
  <2>0. \A e \in recTodo' : e \in recTodo \/ \E i \in DOMAIN wal : e = wal[i] /\ e.state = "Prepare"
    OBVIOUS
  <2>1. LogInv'
    <3>1. (\A i \in DOMAIN wal : GoodEntry(wal[i]))'
      BY DEF IInv, LogInv, GoodEntry, AllHandled
    <3>2. ASSUME NEW e \in (appending \cup recTodo)' PROVE GoodEntry(e)'
      <4>1. GoodEntry(e) BY <2>0 DEF IInv, LogInv
      <4> QED BY <4>1 DEF GoodEntry, AllHandled
    <3>3. (\A e \in recTodo : e.state = "Prepare")' BY <2>0 DEF IInv, LogInv
    <3> QED BY <3>1, <3>2, <3>3 DEF LogInv
  <2>2. \A u \in Tx : Same(u) BY <2>0 DEF Same, Logged, Committing, Sent
  <2> QED BY <2>1, <2>2, FrameIInv
<1>2. CASE RecoverTruncate
  <2> USE <1>2 DEF RecoverTruncate, txVars, netVars, compVars
  <2>0. wal' = <<>> \/ wal' = wal BY Zenon
  <2>1. LogInv'
    <3>1. (\A i \in DOMAIN wal : GoodEntry(wal[i]))'
      BY <2>0 DEF IInv, LogInv, GoodEntry, AllHandled
    <3>2. (\A e \in appending \cup recTodo : GoodEntry(e))'
      BY DEF IInv, LogInv, GoodEntry, AllHandled
    <3>3. (\A e \in recTodo : e.state = "Prepare")' BY DEF IInv, LogInv
    <3> QED BY <3>1, <3>2, <3>3 DEF LogInv
  <2>2. \A u \in Tx : Same(u) BY <2>0 DEF Same, Logged, Committing, Sent
  <2> QED BY <2>1, <2>2, FrameIInv
<1>3. ASSUME NEW e \in recTodo, RecoverNext(e) PROVE IInv'
  <2> USE <1>3 DEF RecoverNext, netVars, walVars, compVars
  <2>0. e.tx \in Tx /\ e.tx # NoTx
    BY McpMeshAssumption DEF TypeOK, RecTypeOK, WalEntry
  <2> DEFINE t == e.tx
  <2>1. LogInv'
    <3>1. (\A i \in DOMAIN wal : GoodEntry(wal[i]))'
      BY DEF IInv, LogInv, GoodEntry, AllHandled
    <3>2. (\A x \in appending \cup recTodo : GoodEntry(x))'
      BY DEF IInv, LogInv, GoodEntry, AllHandled
    <3>3. (\A x \in recTodo : x.state = "Prepare")' BY DEF IInv, LogInv
    <3> QED BY <3>1, <3>2, <3>3 DEF LogInv
  <2>2. SuccessIsAtomic' BY DEF IInv, SuccessIsAtomic, AllHandled, Sent
  <2>3. ASSUME NEW u \in Tx, u # t PROVE CallInv(u)'
    <3>1. Same(u)
      BY <2>0, <2>3, McpMeshAssumption DEF Same, Logged, Committing, Sent, TypeOK, TxTypeOK
    <3> QED BY <3>1, SameKeeps DEF IInv, CallInv
  <2>4. CallInv(t)'
    <3>1. /\ pc'[t] = "commit" /\ state'[t] = "Commit" /\ todo'[t] = e.ack
          /\ acked'[t] = {} /\ recCur' = t
      BY <2>0 DEF TypeOK, TxTypeOK
    <3>2. AllHandled(t, "prepare") /\ e.ack = parts[t] BY DEF IInv, LogInv, GoodEntry
    <3>3. AllHandled(t, "prepare")' BY <3>2 DEF AllHandled
    <3>4. wait[t] = {} BY <2>0 DEF IInv, PhaseInv
    <3>5. ~Untouched(t) BY DEF Untouched
    <3>6. result[t] # "rolledback" BY <2>0, <3>5 DEF IInv, AbortInv, Aborted
    <3>7. PhaseInv(t)' BY <3>1, <3>2, <3>3, <3>4 DEF PhaseInv
    <3>8. AbortInv(t)' BY <3>1, <3>6 DEF AbortInv, Aborted
    <3>9. CommitInv(t)' BY <3>3 DEF CommitInv
    <3> QED BY <3>7, <3>8, <3>9 DEF CallInv
  <2> QED BY <2>1, <2>2, <2>3, <2>4 DEF IInv, CallInv
<1> QED BY <1>1, <1>2, <1>3 DEF Recover

\* Every step keeps the invariant.
LEMMA NextIInv == TypeOK /\ IInv /\ [Next]_vars => IInv'
<1> SUFFICES ASSUME TypeOK, IInv, [Next]_vars PROVE IInv'
  OBVIOUS
<1>1. ASSUME NEW t \in Tx, Coordinate(t) PROVE IInv'
  <2>1. CASE \/ PrepareFanout(t) \/ StartRetry(t)
             \/ \E s \in Server : PrepareAck(t, s) \/ PrepareNetworkError(t, s)
    BY <2>1, PrepareIInv
  <2>2. ASSUME NEW s \in Server, PrepareProtocolError(t, s) PROVE IInv'
    BY <2>2, AbortIInv DEF PrepareProtocolError
  <2>3. ASSUME NEW s \in Server, RetrySend(t, s) \/ RetryNetworkError(t, s) PROVE IInv'
    <3>1. pc[t] \in {"prepare", "retry"} BY <2>3 DEF RetrySend, RetryNetworkError
    <3>2. CASE AbortPrepare(t) BY <3>1, <3>2, AbortIInv
    <3>3. CASE ~AbortPrepare(t) BY <2>3, <3>3, PrepareIInv
    <3> QED BY <3>2, <3>3
  <2>4. CASE \/ CommitFailed(t) \/ CommitEnd(t) \/ CommitLogged(t)
             \/ \E s \in Server : CommitSend(t, s) \/ CommitAck(t, s) \/ CommitError(t, s)
    BY <2>4, CommitIInv
  <2>5. CASE \/ RollbackEnd(t) \/ TimeoutEnd(t)
             \/ \E s \in Server : RollbackAnswer(t, s)
    BY <2>5, RollbackIInv
  <2> QED BY <1>1, <2>1, <2>2, <2>3, <2>4, <2>5, PrepareEndIInv, EnterCommitIInv
          DEF Coordinate
<1>2. CASE UNCHANGED vars
  <2> USE <1>2 DEF vars, txVars, netVars, walVars, compVars, recVars
  <2>1. LogInv' BY LogKeeps DEF IInv
  <2>2. \A u \in Tx : Same(u) BY DEF Same, Logged, Committing, Sent
  <2> QED BY <2>1, <2>2, FrameIInv
<1> QED
  BY <1>1, <1>2, TimeoutIInv, RegistryIInv, ExecuteIInv, WalThreadIInv, HandleIInv,
     ReconcileIInv, CrashIInv, RecoverIInv DEF Next

\* The coordinator, its log and its compensation queue always agree with
\* what the participants have done: the invariant the next four theorems
\* rest on.
THEOREM InvariantHolds == Spec => []IInv
<1>1. Init => TypeOK /\ IInv BY InitTypeOK, InitIInv
<1>2. (TypeOK /\ IInv) /\ [Next]_vars => (TypeOK /\ IInv)' BY NextTypeOK, NextIInv
<1> QED BY <1>1, <1>2, PTL DEF Spec

\* Whatever the number of servers, calls, retries and crashes: no commit
\* request leaves the coordinator before all participants have prepared.
THEOREM CommitSafe == Spec => []CommitNeedsAllPrepared
<1>1. IInv => CommitNeedsAllPrepared
  BY DEF IInv, CommitInv, CommitNeedsAllPrepared
<1> QED BY <1>1, InvariantHolds, PTL

\* A transaction aborted in its prepare phase is never committed, neither by
\* a reconcile call nor by the recovery after a crash.
THEOREM AbortSafe == Spec => []AbortedNeverCommits
<1>1. IInv => AbortedNeverCommits
  BY DEF IInv, AbortInv, Aborted, Untouched, AbortedNeverCommits
<1> QED BY <1>1, InvariantHolds, PTL

\* A call that reports success has committed all its participants, and no
\* rollback request for it was sent.
THEOREM SuccessSafe == Spec => []SuccessIsAtomic
<1>1. IInv => SuccessIsAtomic BY DEF IInv
<1> QED BY <1>1, InvariantHolds, PTL

\* A Commit entry that survives in the log tells the truth, so recovery may
\* skip its transaction.
THEOREM CommitEntrySafe == Spec => []CommitEntryIsTrue
<1>1. IInv => CommitEntryIsTrue
  BY DEF IInv, LogInv, GoodEntry, CommitEntryIsTrue
<1> QED BY <1>1, InvariantHolds, PTL

-----------------------------------------------------------------------------
(* Where no deadline expires: refinement of AtomicCommit.                  *)

\* Requests go to participants only, and who is waited for, queued for
\* compensation or worked on by reconcile is a participant.
RequestsInv ==
  /\ \A t \in Tx : pc[t] = "new" => parts[t] = {}
  /\ \A t \in Tx : \A s, k : <<t, s, k>> \in sent => s \in parts[t]
  /\ \A t \in Tx : wait[t] \subseteq parts[t] /\ todo[t] \subseteq parts[t]
                   /\ comp[t] \subseteq parts[t]
  /\ rc.cur # NoTx =>
       rc.todo \subseteq parts[rc.cur] /\ rc.wait \subseteq parts[rc.cur]
         /\ rc.still \subseteq parts[rc.cur]
  /\ rc.cur = NoTx => rc.still = {}

\* A rollback is sent only for a transaction aborted in its prepare phase.
RollbackInv ==
  \A t \in Tx : pc[t] # "timeoutRollback" /\ (Sent(t, "rollback") => Aborted(t))

\* A step that adds no participant keeps RequestsInv when it asks, awaits and
\* queues nobody else.
LEMMA RequestsKeep ==
  ASSUME RequestsInv, parts' = parts,
         \A t \in Tx : pc'[t] = "new" => pc[t] = "new",
         \A t \in Tx : \A s, k : <<t, s, k>> \in sent' => <<t, s, k>> \in sent \/ s \in parts[t],
         \A t \in Tx : wait'[t] \subseteq parts[t] /\ todo'[t] \subseteq parts[t]
                       /\ comp'[t] \subseteq parts[t],
         rc' = rc
  PROVE  RequestsInv'
  BY DEF RequestsInv

\* The steps of a call address its participants only.
LEMMA CallRequests ==
  ASSUME TypeOK, RequestsInv, NEW t \in Tx, Coordinate(t) \/ Timeout(t)
  PROVE  RequestsInv'
<1> USE DEF TypeOK, TxTypeOK, CompTypeOK, netVars, walVars, compVars, recVars
<1>w. /\ \A u \in Tx : /\ wait[u] \subseteq parts[u] /\ todo[u] \subseteq parts[u]
                       /\ comp[u] \subseteq parts[u]
  BY DEF RequestsInv
<1>a. ASSUME AbortPrepare(t) PROVE RequestsInv'
  BY <1>a, <1>w, RequestsKeep DEF AbortPrepare, RollbackFanout, ToAll
<1>1. CASE PrepareFanout(t)
  BY <1>1, <1>w, RequestsKeep DEF PrepareFanout, ToAll
<1>2. CASE StartRetry(t) \/ EnterCommit(t)
  BY <1>2, <1>w, RequestsKeep DEF StartRetry, EnterCommit
<1>3. CASE PrepareEnd(t) \/ CommitEnd(t)
  BY <1>3, <1>w, RequestsKeep DEF PrepareEnd, CommitEnd
<1>4. CASE CommitFailed(t) \/ CommitLogged(t)
  BY <1>4, <1>w, RequestsKeep DEF CommitFailed, CommitLogged, LeaveCommit, Return
<1>5. CASE RollbackEnd(t) \/ TimeoutEnd(t)
  BY <1>5, <1>w, RequestsKeep DEF RollbackEnd, TimeoutEnd, Return
<1>6. CASE Timeout(t)
  BY <1>6, <1>w, RequestsKeep DEF Timeout, RollbackFanout, ToAll
<1>7. ASSUME NEW s \in Server, PrepareAck(t, s) \/ PrepareNetworkError(t, s) PROVE RequestsInv'
  BY <1>7, <1>w, RequestsKeep DEF PrepareAck, PrepareNetworkError
<1>8. ASSUME NEW s \in Server, PrepareProtocolError(t, s) PROVE RequestsInv'
  BY <1>8, <1>a DEF PrepareProtocolError
<1>9. ASSUME NEW s \in Server, RetrySend(t, s) PROVE RequestsInv'
  BY <1>9, <1>a, <1>w, RequestsKeep DEF RetrySend
<1>10. ASSUME NEW s \in Server, RetryNetworkError(t, s) PROVE RequestsInv'
  BY <1>10, <1>a, <1>w, RequestsKeep DEF RetryNetworkError
<1>11. ASSUME NEW s \in Server, CommitSend(t, s) PROVE RequestsInv'
  BY <1>11, <1>w, RequestsKeep DEF CommitSend, LeaveCommit, Return
<1>12. ASSUME NEW s \in Server, CommitAck(t, s) \/ CommitError(t, s) PROVE RequestsInv'
  BY <1>12, <1>w, RequestsKeep DEF CommitAck, CommitError
<1>13. ASSUME NEW s \in Server, RollbackAnswer(t, s) PROVE RequestsInv'
  BY <1>13, <1>w, RequestsKeep DEF RollbackAnswer
<1> QED
  BY <1>1, <1>2, <1>3, <1>4, <1>5, <1>6, <1>7, <1>8, <1>9, <1>10, <1>11, <1>12, <1>13
  DEF Coordinate

\* reconcile_pending_transactions works on participants of its record.
LEMMA ReconcileRequests == TypeOK /\ RequestsInv /\ Reconcile => RequestsInv'
<1> SUFFICES ASSUME TypeOK, RequestsInv, Reconcile PROVE RequestsInv'
  OBVIOUS
<1> DEFINE Within(r) == /\ r.todo \subseteq parts[r.cur] /\ r.wait \subseteq parts[r.cur]
                        /\ r.still \subseteq parts[r.cur]
<1>0. /\ rc.cur # NoTx => Within(rc)
      /\ rc.cur = NoTx => rc.todo = {} /\ rc.wait = {} /\ rc.still = {}
      /\ rc.todo \subseteq Server /\ rc.wait \subseteq Server /\ rc.still \subseteq Server
      /\ rc \in [ids : SUBSET Tx, cur : Tx \cup {NoTx}, todo : SUBSET Server,
                 wait : SUBSET Server, still : SUBSET Server, retries : 0 .. MaxRetries]
  BY DEF TypeOK, CompTypeOK, RequestsInv
<1>c. comp \in [Tx -> SUBSET Server] /\ \A u \in Tx : comp[u] \subseteq parts[u]
  BY DEF TypeOK, CompTypeOK, RequestsInv
<1>k. ASSUME UNCHANGED txVars,
             \A u \in Tx : \A s, k : <<u, s, k>> \in sent' => <<u, s, k>> \in sent \/ s \in parts[u],
             \A u \in Tx : comp'[u] \subseteq parts[u],
             rc'.cur # NoTx => Within(rc'),
             rc'.cur = NoTx => rc'.still = {}
      PROVE  RequestsInv'
  BY <1>k DEF RequestsInv, txVars
<1>1. CASE ReconcileStart
  <2>1. rc'.cur = NoTx /\ rc'.still = {} BY <1>1 DEF ReconcileStart, RcIdle
  <2> QED BY <1>1, <1>c, <1>k, <2>1 DEF ReconcileStart, netVars
<1>2. ASSUME NEW t \in Tx, ReconcilePick(t) PROVE RequestsInv'
  <2>1. /\ rc'.cur # NoTx => rc'.cur = t /\ rc'.todo = comp[t] /\ rc'.wait = {} /\ rc'.still = {}
        /\ rc'.still = {}
    BY <1>0, <1>2 DEF ReconcilePick
  <2>2. rc'.cur # NoTx => Within(rc') BY <1>c, <2>1
  <2> QED BY <1>2, <1>c, <1>k, <2>1, <2>2 DEF ReconcilePick, netVars
<1>3. ASSUME NEW t \in Tx, ReconcileFinish(t) PROVE RequestsInv'
  <2>1. rc'.cur = NoTx /\ rc'.still = {} BY <1>3 DEF ReconcileFinish, RcIdle
  <2>2. rc.still \subseteq parts[t] BY <1>0, <1>3, McpMeshAssumption DEF ReconcileFinish
  <2>3. \A u \in Tx : comp'[u] \subseteq parts[u]
    BY <1>c, <1>3, <2>2 DEF ReconcileFinish
  <2> QED BY <1>3, <1>k, <2>1, <2>3 DEF ReconcileFinish, netVars
<1>4. ASSUME NEW s \in Server, ReconcileSend(s) PROVE RequestsInv'
  <2>1. rc.cur # NoTx /\ s \in parts[rc.cur] BY <1>0, <1>4 DEF ReconcileSend
  <2>r. /\ rc'.cur = rc.cur /\ rc'.todo = rc.todo \ {s} /\ rc'.still = rc.still
        /\ rc'.wait = {s} \/ rc'.wait = rc.wait
    BY <1>0, <1>4 DEF ReconcileSend
  <2>2. rc'.cur = rc.cur /\ Within(rc') BY <1>0, <2>1, <2>r
  <2>3. \A u \in Tx : \A r, k : <<u, r, k>> \in sent' => <<u, r, k>> \in sent \/ r \in parts[u]
    BY <1>4, <2>1 DEF ReconcileSend
  <2> QED BY <1>4, <1>c, <1>k, <2>1, <2>2, <2>3 DEF ReconcileSend
<1>5. ASSUME NEW s \in Server, ReconcileAck(s) \/ ReconcileError(s) PROVE RequestsInv'
  <2>1. rc.cur # NoTx /\ s \in parts[rc.cur]
    BY <1>0, <1>5 DEF ReconcileAck, ReconcileError
  <2>r. /\ rc'.cur = rc.cur /\ rc'.todo = rc.todo /\ rc'.wait = {}
        /\ rc'.still \subseteq rc.still \cup {s}
    BY <1>0, <1>5 DEF ReconcileAck, ReconcileError
  <2>2. rc'.cur = rc.cur /\ Within(rc') BY <1>0, <2>1, <2>r
  <2> QED BY <1>5, <1>c, <1>k, <2>1, <2>2 DEF ReconcileAck, ReconcileError, netVars
<1> QED BY <1>1, <1>2, <1>3, <1>4, <1>5 DEF Reconcile

\* Every step keeps RequestsInv.
LEMMA NextRequests == TypeOK /\ IInv /\ RequestsInv /\ [Next]_vars => RequestsInv'
<1> SUFFICES ASSUME TypeOK, IInv, RequestsInv, [Next]_vars PROVE RequestsInv'
  OBVIOUS
<1>w. /\ \A u \in Tx : /\ wait[u] \subseteq parts[u] /\ todo[u] \subseteq parts[u]
                       /\ comp[u] \subseteq parts[u]
  BY DEF RequestsInv
<1>1. CASE Registry \/ WalThread \/ UNCHANGED vars
  BY <1>1, <1>w, RequestsKeep
  DEF Registry, Register, Heartbeat, HeartbeatLapse, Unregister, WalThread, WalAppend,
      WalAppendError, vars, txVars, netVars, compVars
<1>2. ASSUME NEW t \in Tx, NEW P \in SUBSET Server, Execute(t, P) PROVE RequestsInv'
  <2> USE <1>2 DEF Execute, Return, TypeOK, TxTypeOK, netVars, compVars
  <2>1. \A u \in Tx : parts[u] \subseteq parts'[u] BY DEF RequestsInv
  <2>2. \A u \in Tx : pc'[u] = "new" => parts'[u] = {} BY DEF RequestsInv
  <2>3. rc.cur \in Tx \cup {NoTx} BY DEF CompTypeOK
  <2> QED BY <2>1, <2>2, <2>3 DEF RequestsInv
<1>3. ASSUME NEW m \in sent, Handle(m) PROVE RequestsInv'
  BY <1>3, <1>w, RequestsKeep DEF Handle, txVars, compVars
<1>4. CASE Crash
  BY <1>4 DEF Crash, netVars, RequestsInv, RcIdle
<1>5. CASE Recover
  <2>1. CASE RecoverScan \/ RecoverTruncate
    BY <1>w, <2>1, RequestsKeep DEF RecoverScan, RecoverTruncate, txVars, netVars, compVars
  <2>2. ASSUME NEW e \in recTodo, RecoverNext(e) PROVE RequestsInv'
    <3>1. e.tx \in Tx /\ e.ack = parts[e.tx]
      BY DEF TypeOK, RecTypeOK, WalEntry, IInv, LogInv, GoodEntry
    <3> QED
      BY <1>w, <2>2, <3>1, RequestsKeep DEF RecoverNext, netVars, compVars, TypeOK, TxTypeOK
  <2> QED BY <1>5, <2>1, <2>2 DEF Recover
<1> QED
  BY <1>1, <1>2, <1>3, <1>4, <1>5, CallRequests, ReconcileRequests DEF Next

\* Without an expiring deadline only an aborted call asks for a rollback.
LEMMA NextRollback ==
  ASSUME ~DeadlineCanExpire, TypeOK, IInv, RequestsInv, RollbackInv, [Next]_vars
  PROVE  RollbackInv'
<1> USE DEF TypeOK, TxTypeOK
<1>k. ASSUME \A u \in Tx : pc'[u] # "timeoutRollback",
             \A u \in Tx : Sent(u, "rollback")' => Sent(u, "rollback"),
             \A u \in Tx : Sent(u, "rollback") /\ Aborted(u) => Aborted(u)'
      PROVE  RollbackInv'
  BY <1>k DEF RollbackInv
<1>o. ASSUME NEW t \in Tx, \A u \in Tx : u # t => Same(u), pc'[t] # "timeoutRollback",
             Sent(t, "rollback")' => Aborted(t)'
      PROVE  RollbackInv'
  <2>1. ASSUME NEW u \in Tx, u # t
        PROVE  Same(u) /\ Sent(u, "rollback")' = Sent(u, "rollback")
    BY <1>o, <2>1 DEF Same, Sent
  <2>2. ASSUME NEW u \in Tx, u # t
        PROVE  pc'[u] # "timeoutRollback" /\ (Sent(u, "rollback")' => Aborted(u)')
    BY <2>1, <2>2 DEF RollbackInv, Same, Aborted
  <2> QED BY <1>o, <2>2 DEF RollbackInv
<1>a. ASSUME NEW t \in Tx, AbortPrepare(t) PROVE RollbackInv'
  <2>1. \A u \in Tx : u # t => Same(u) BY <1>a, OtherCalls
  <2>2. pc'[t] # "timeoutRollback" /\ Aborted(t)'
    BY <1>a DEF AbortPrepare, RollbackFanout, Transition, Aborted
  <2> QED BY <1>o, <2>1, <2>2
\* A call that has not begun to abort has sent no rollback.
<1>n. ASSUME NEW t \in Tx, \A u \in Tx : u # t => Same(u), pc'[t] # "timeoutRollback",
             pc[t] \notin {"rollback", "timeoutRollback", "done", "lost"},
             Sent(t, "rollback")' => Sent(t, "rollback")
      PROVE  RollbackInv'
  <2>1. ~Sent(t, "rollback") BY <1>n DEF IInv, AbortInv, RollbackInv
  <2> QED BY <1>n, <1>o, <2>1
<1>1. ASSUME NEW t \in Tx, Coordinate(t) PROVE RollbackInv'
  <2> USE DEF netVars
  <2>1. CASE PrepareFanout(t)
    <3>1. \A u \in Tx : u # t => Same(u) BY <2>1, OtherCalls
    <3> QED BY <1>n, <2>1, <3>1 DEF PrepareFanout, ToAll, Sent
  <2>2. CASE StartRetry(t) \/ EnterCommit(t) \/ PrepareEnd(t) \/ CommitEnd(t)
    <3>1. \A u \in Tx : u # t => Same(u) BY <2>2, OtherCalls
    <3> QED BY <1>n, <2>2, <3>1 DEF StartRetry, EnterCommit, PrepareEnd, CommitEnd, Sent
  <2>3. CASE CommitFailed(t) \/ CommitLogged(t)
    <3>1. \A u \in Tx : u # t => Same(u) BY <2>3, OtherCalls
    <3> QED BY <1>n, <2>3, <3>1 DEF CommitFailed, CommitLogged, LeaveCommit, Return, Sent
  <2>4. CASE RollbackEnd(t)
    <3>1. \A u \in Tx : u # t => Same(u) BY <2>4, OtherCalls
    <3>2. pc'[t] = "done" /\ Aborted(t)' BY <2>4 DEF RollbackEnd, Return, Aborted
    <3> QED BY <1>o, <3>1, <3>2
  <2>5. CASE TimeoutEnd(t)
    BY <2>5 DEF TimeoutEnd, RollbackInv
  <2>6. ASSUME NEW s \in Server,
               \/ PrepareAck(t, s) \/ PrepareNetworkError(t, s) \/ CommitSend(t, s)
               \/ CommitAck(t, s) \/ CommitError(t, s)
        PROVE  RollbackInv'
    <3>1. \A u \in Tx : u # t => Same(u) BY <2>6, OtherCalls
    <3> QED
      BY <1>n, <2>6, <3>1 DEF PrepareAck, PrepareNetworkError, CommitSend, CommitAck,
         CommitError, LeaveCommit, Return, Sent
  <2>7. ASSUME NEW s \in Server, PrepareProtocolError(t, s) PROVE RollbackInv'
    BY <1>a, <2>7 DEF PrepareProtocolError
  <2>8. ASSUME NEW s \in Server, RetrySend(t, s) \/ RetryNetworkError(t, s) PROVE RollbackInv'
    <3>1. CASE AbortPrepare(t) BY <1>a, <3>1
    <3>2. CASE ~AbortPrepare(t)
      <4>1. \A u \in Tx : u # t => Same(u) BY <2>8, OtherCalls
      <4> QED BY <1>n, <2>8, <3>2, <4>1 DEF RetrySend, RetryNetworkError, Sent
    <3> QED BY <3>1, <3>2
  <2>9. ASSUME NEW s \in Server, RollbackAnswer(t, s) PROVE RollbackInv'
    BY <1>k, <2>9 DEF RollbackAnswer, RollbackInv, Sent, Aborted
  <2> QED
    BY <1>1, <2>1, <2>2, <2>3, <2>4, <2>5, <2>6, <2>7, <2>8, <2>9 DEF Coordinate
<1>2. CASE Registry \/ WalThread \/ UNCHANGED vars
  BY <1>2, <1>k
  DEF Registry, Register, Heartbeat, HeartbeatLapse, Unregister, WalThread, WalAppend,
      WalAppendError, vars, txVars, netVars, RollbackInv, Sent, Aborted
<1>3. ASSUME NEW t \in Tx, NEW P \in SUBSET Server, Execute(t, P) PROVE RollbackInv'
  <2>1. \A u \in Tx : u # t => Same(u) BY <1>3, OtherCalls
  <2> QED BY <1>n, <1>3, <2>1 DEF Execute, Return, Sent, netVars
<1>4. ASSUME NEW m \in sent, Handle(m) PROVE RollbackInv'
  BY <1>k, <1>4 DEF Handle, txVars, RollbackInv, Sent, Aborted
<1>5. CASE Reconcile
  <2>1. UNCHANGED txVars
    BY <1>5 DEF Reconcile, ReconcileStart, ReconcilePick, ReconcileFinish, ReconcileSend,
                ReconcileAck, ReconcileError
  <2>2. \A m \in sent' : m \in sent \/ \E s \in Server : m = <<rc.cur, s, "commit">>
    BY <1>5 DEF Reconcile, ReconcileStart, ReconcilePick, ReconcileFinish, ReconcileSend,
                ReconcileAck, ReconcileError, netVars
  <2>3. \A u \in Tx : Sent(u, "rollback")' => Sent(u, "rollback")
    BY <2>2 DEF Sent
  <2> QED BY <1>k, <2>1, <2>3 DEF txVars, RollbackInv, Aborted
<1>6. CASE Crash
  BY <1>6, <1>k DEF Crash, netVars, RollbackInv, Sent, Aborted
<1>7. CASE Recover
  <2>1. CASE RecoverScan \/ RecoverTruncate
    BY <1>k, <2>1 DEF RecoverScan, RecoverTruncate, txVars, netVars, RollbackInv, Sent, Aborted
  <2>2. ASSUME NEW e \in recTodo, RecoverNext(e) PROVE RollbackInv'
    <3>1. e.tx \in Tx BY DEF RecTypeOK, WalEntry
    <3>2. ~Aborted(e.tx) BY <3>1 DEF IInv, AbortInv, Untouched
    <3>3. \A u \in Tx : Aborted(u) => Aborted(u)'
      BY <2>2, <3>1, <3>2 DEF RecoverNext, Aborted
    <3> QED BY <1>k, <2>2, <3>1, <3>3 DEF RecoverNext, netVars, RollbackInv, Sent
  <2> QED BY <1>7, <2>1, <2>2 DEF Recover
<1>8. ASSUME NEW t \in Tx PROVE ~Timeout(t)
  BY DEF Timeout
<1> QED
  BY <1>1, <1>2, <1>3, <1>4, <1>5, <1>6, <1>7, <1>8 DEF Next

\* What participants have done is settled by what they have handled.
LEMMA RmFrame ==
  ASSUME handled' = handled, NEW t, NEW s
  PROVE  RmState(t, s)' = RmState(t, s)
  BY DEF RmState

\* A request changes at most the state of the participant that handles it.
LEMMA RmHandle ==
  ASSUME NEW t \in Tx, NEW s \in Server, NEW k, handled' = handled \cup {<<t, s, k>>},
         NEW u, NEW r, u # t \/ r # s
  PROVE  RmState(u, r)' = RmState(u, r)
<1>1. \A j : <<u, r, j>> \in handled' <=> <<u, r, j>> \in handled
  OBVIOUS
<1> QED BY <1>1 DEF RmState

\* Without an expiring deadline a request that is handled is a step of an
\* atomic commit.
LEMMA HandleRefines ==
  ASSUME TypeOK, IInv, RequestsInv, RollbackInv, NEW m \in sent, Handle(m)
  PROVE  [AC!Next]_(AC!acVars)
<1> PICK t \in Tx, s \in Server, k \in Phases : m = <<t, s, k>>
  BY DEF TypeOK, NetTypeOK, Requests
<1> DEFINE rm == [u \in Tx |-> [r \in Server |-> RmState(u, r)]]
<1>1. s \in parts[t] /\ handled' = handled \cup {<<t, s, k>>} /\ parts' = parts
      /\ handled \subseteq sent /\ parts \in [Tx -> SUBSET Server]
  BY DEF RequestsInv, Handle, txVars, TypeOK, TxTypeOK, NetTypeOK
<1>2. \A u \in Tx, r \in Server : u # t \/ r # s => RmState(u, r)' = RmState(u, r)
  BY <1>1, RmHandle
<1>3. rm' = [rm EXCEPT ![t][s] = RmState(t, s)']
  BY <1>2
<1>4. CASE k = "prepare"
  <2>1. CASE RmState(t, s) = "working"
    <3>1. RmState(t, s)' = "prepared"
      BY <1>1, <1>4, <2>1 DEF RmState
    <3>2. rm[t][s] = "working" BY <2>1
    <3>3. AC!Prepare(t, s)
      BY <1>1, <1>3, <3>1, <3>2 DEF AC!Prepare, AC!Become
    <3> QED BY <3>3 DEF AC!Next
  <2>2. CASE RmState(t, s) # "working"
    <3>1. RmState(t, s)' = RmState(t, s)
      BY <1>1, <1>4, <2>2 DEF RmState
    <3>2. \A u \in Tx, r \in Server : RmState(u, r)' = RmState(u, r)
      BY <1>2, <3>1
    <3>3. rm' = rm BY <3>2
    <3> QED BY <1>1, <3>3 DEF AC!acVars
  <2> QED BY <2>1, <2>2
<1>5. CASE k = "commit"
  <2>1. Sent(t, "commit") BY <1>5 DEF Sent
  <2>2. AllHandled(t, "prepare") /\ ~Sent(t, "rollback")
    BY <2>1 DEF IInv, CommitInv, AbortInv, Untouched, RollbackInv
  <2>3. \A u \in parts[t] : RmState(t, u) \in {"prepared", "committed"}
    BY <1>1, <2>2 DEF RmState, AllHandled, Sent
  <2>4. RmState(t, s)' = "committed"
    BY <1>1, <1>5 DEF RmState
  <2>5. \A u \in parts[t] : rm[t][u] \in {"prepared", "committed"} BY <1>1, <2>3
  <2>6. AC!Commit(t, s)
    BY <1>1, <1>3, <2>4, <2>5 DEF AC!Commit, AC!Become
  <2> QED BY <2>6 DEF AC!Next
<1>6. CASE k = "rollback"
  <2>1. Sent(t, "rollback") BY <1>6 DEF Sent
  <2>2. ~Sent(t, "commit")
    BY <2>1 DEF IInv, AbortInv, Untouched, RollbackInv
  <2>3. \A u \in parts[t] : <<t, u, "commit">> \notin handled
    BY <1>1, <2>2 DEF Sent
  <2>4. \A u \in parts[t] : RmState(t, u) # "committed"
    BY <2>3 DEF RmState
  <2>5. RmState(t, s)' = "aborted"
    BY <1>1, <1>6, <2>3 DEF RmState
  <2>6. \A u \in parts[t] : rm[t][u] # "committed" BY <1>1, <2>4
  <2>7. AC!Abort(t, s)
    BY <1>1, <1>3, <2>5, <2>6 DEF AC!Abort, AC!Become
  <2> QED BY <2>7 DEF AC!Next
<1> QED BY <1>4, <1>5, <1>6 DEF Phases

\* Every step of the coordinator is a step of an atomic commit, or none.
LEMMA NextRefines ==
  ASSUME TypeOK, IInv, RequestsInv, RollbackInv, [Next]_vars
  PROVE  [AC!Next]_(AC!acVars)
<1>1. ASSUME parts' = parts, handled' = handled PROVE [AC!Next]_(AC!acVars)
  <2>1. \A t, s : RmState(t, s)' = RmState(t, s) BY <1>1, RmFrame
  <2> QED BY <1>1, <2>1 DEF AC!acVars
<1>2. ASSUME NEW t \in Tx, NEW P \in SUBSET Server, Execute(t, P)
      PROVE  [AC!Next]_(AC!acVars)
  <2>1. handled' = handled /\ parts' = [parts EXCEPT ![t] = P] /\ pc[t] = "new"
    BY <1>2 DEF Execute, netVars
  <2>2. \A u, s : RmState(u, s)' = RmState(u, s) BY <2>1, RmFrame
  <2>3. parts[t] = {} BY <2>1 DEF RequestsInv
  <2>4. \A s, k : <<t, s, k>> \notin handled
    BY <2>3 DEF RequestsInv, TypeOK, NetTypeOK
  <2>5. \A s \in Server : RmState(t, s) = "working" BY <2>4 DEF RmState
  <2>6. AC!Begin(t, P) BY <2>1, <2>2, <2>3, <2>5 DEF AC!Begin
  <2> QED BY <2>6 DEF AC!Next
<1>3. CASE Registry \/ WalThread \/ Reconcile \/ Crash \/ Recover \/ UNCHANGED vars
  BY <1>1, <1>3
  DEF Registry, Register, Heartbeat, HeartbeatLapse, Unregister, WalThread, WalAppend,
      WalAppendError, Reconcile, ReconcileStart, ReconcilePick, ReconcileFinish,
      ReconcileSend, ReconcileAck, ReconcileError, Crash, Recover, RecoverScan,
      RecoverNext, RecoverTruncate, vars, txVars, netVars
<1>4. ASSUME NEW t \in Tx, Coordinate(t) \/ Timeout(t) PROVE [AC!Next]_(AC!acVars)
  <2>a. ASSUME AbortPrepare(t) PROVE parts' = parts /\ handled' = handled
    BY <2>a DEF AbortPrepare
  <2>1. ASSUME NEW s,
               \/ PrepareAck(t, s) \/ PrepareNetworkError(t, s) \/ PrepareProtocolError(t, s)
               \/ RetrySend(t, s) \/ RetryNetworkError(t, s)
        PROVE  parts' = parts /\ handled' = handled
    BY <2>1, <2>a DEF PrepareAck, PrepareNetworkError, PrepareProtocolError, RetrySend,
       RetryNetworkError, netVars
  <2>2. ASSUME NEW s, CommitSend(t, s) \/ CommitAck(t, s) \/ CommitError(t, s)
                      \/ RollbackAnswer(t, s)
        PROVE  parts' = parts /\ handled' = handled
    BY <2>2 DEF CommitSend, CommitAck, CommitError, RollbackAnswer, netVars
  <2>3. ASSUME ~\E s \in Server :
                   \/ PrepareAck(t, s) \/ PrepareNetworkError(t, s)
                   \/ PrepareProtocolError(t, s) \/ RetrySend(t, s) \/ RetryNetworkError(t, s)
                   \/ CommitSend(t, s) \/ CommitAck(t, s) \/ CommitError(t, s)
                   \/ RollbackAnswer(t, s)
        PROVE  parts' = parts /\ handled' = handled
    <3>1. \/ PrepareFanout(t) \/ StartRetry(t) \/ PrepareEnd(t) \/ EnterCommit(t)
          \/ CommitFailed(t) \/ CommitEnd(t) \/ CommitLogged(t)
          \/ RollbackEnd(t) \/ TimeoutEnd(t) \/ Timeout(t)
      BY <1>4, <2>3 DEF Coordinate
    <3> QED
      BY <3>1 DEF PrepareFanout, StartRetry, PrepareEnd, EnterCommit, CommitFailed,
         CommitEnd, CommitLogged, RollbackEnd, TimeoutEnd, Timeout, netVars
  <2> QED BY <1>1, <2>1, <2>2, <2>3
<1> QED
  BY <1>2, <1>3, <1>4, HandleRefines DEF Next

\* While no transaction's deadline expires, the participants of any number of
\* transactions see an atomic commit, over any number of crashes: all of
\* them commit or none (mesh.rs, execute_transaction, reconcile and recovery).
THEOREM RefinesAtomicCommit ==
  ASSUME ~DeadlineCanExpire
  PROVE  Spec => ImplementsAtomicCommit
<1> DEFINE I == TypeOK /\ IInv /\ RequestsInv /\ RollbackInv
<1>1. Init => I
  <2>1. Init => RequestsInv /\ RollbackInv
    BY McpMeshAssumption DEF Init, RequestsInv, RollbackInv, RcIdle, Sent
  <2> QED BY <2>1, InitTypeOK, InitIInv
<1>2. I /\ [Next]_vars => I'
  BY NextTypeOK, NextIInv, NextRequests, NextRollback
<1>3. Init => AC!Init
  <2> SUFFICES ASSUME Init PROVE AC!Init
    OBVIOUS
  <2>1. \A t, s : RmState(t, s) = "working" BY DEF Init, RmState
  <2> QED BY <2>1 DEF Init, AC!Init
<1>4. I /\ [Next]_vars => [AC!Next]_(AC!acVars)
  BY NextRefines
<1>5. QED
  BY <1>1, <1>2, <1>3, <1>4, PTL DEF Spec, ImplementsAtomicCommit, AC!Spec
=============================================================================
