------------------------------- MODULE McpMesh -------------------------------
(***************************************************************************)
(* The two-phase-commit coordinator of the MCP mesh                        *)
(* (crates/mcp-mesh/src/mesh.rs), its write-ahead log (quantum/wal.rs),    *)
(* its server registry (server_registry.rs) and the queue of commits that  *)
(* failed and wait for reconcile_pending_transactions.                     *)
(*                                                                         *)
(* Every execute_transaction call is a task of its own: Tx is the set of   *)
(* calls (their UUIDs), and pc[t] says where the call is.  A participant   *)
(* server is external: it is only known by the requests it has handled.    *)
(* A request that was sent may be handled at any later time, also after    *)
(* the coordinator has given up waiting for the answer.                    *)
(***************************************************************************)
EXTENDS Naturals, Sequences, FiniteSets

CONSTANTS
  Server,             \* the servers that may be registered
  Tx,                 \* the calls of execute_transaction
  NoTx,               \* "no transaction"
  MaxRetries,         \* config.max_retries
  MaxParticipants,    \* config.max_participants
  DeadlineCanExpire,  \* may config.transaction_timeout_ms run out?
  MaxCrashes          \* bound: crashes of the coordinator's process

ASSUME McpMeshAssumption ==
  /\ NoTx \notin Tx
  /\ MaxRetries \in Nat
  /\ MaxParticipants \in Nat
  /\ DeadlineCanExpire \in BOOLEAN
  /\ MaxCrashes \in Nat

VARIABLES
  registry,   \* ServerRegistry.servers: absent, alive or stale (heartbeat too old)
  pc,         \* where the call of execute_transaction (or its recovery) is
  parts,      \* QuantumTransaction.participant_servers
  state,      \* QuantumTransaction.state
  wait,       \* servers whose answer the current phase awaits
  todo,       \* servers the serial loop of the current phase has not reached
  attempt,    \* attempts made for the server in wait (retry, commit)
  acked,      \* prepare_phase's acked, then commit_phase's committed
  failed,     \* commit_phase's failed_participants
  result,     \* what execute_transaction returned: Ok(None) of run_2pc is
              \* "rolledback", its Err "failed"
  sent,       \* requests ever sent (external: the network)
  handled,    \* requests the participants carried out (external)
  wal,        \* the parseable lines of the WAL file, in order
  torn,       \* does the file end in an unterminated line?
  appending,  \* WalStore::append calls inside spawn_blocking
  comp,       \* pending_compensations: failed_participants ({}: no record)
  compRetries,\* pending_compensations: retries
  gaveUp,     \* transactions a reconcile call handed to its caller
  rc,         \* the running reconcile_pending_transactions call
  rec,        \* recover_from_wal: off, boot (not called yet) or run
  recTodo,    \* WAL entries recover_from_wal still has to commit
  recCur,     \* the transaction recover_from_wal is committing
  crashes     \* crashes so far

txVars   == <<pc, parts, state, wait, todo, attempt, acked, failed, result>>
netVars  == <<sent, handled>>
walVars  == <<wal, torn, appending>>
compVars == <<comp, compRetries, gaveUp, rc>>
recVars  == <<rec, recTodo, recCur, crashes>>
vars     == <<registry, txVars, netVars, walVars, compVars, recVars>>

Phases == {"prepare", "commit", "rollback"}
Requests == Tx \X Server \X Phases
TransactionState == {"Init", "Prepare", "Commit", "Abort", "Rollback"}
Registered == {s \in Server : registry[s] # "absent"}
ToAll(t, k) == {<<t, s, k>> : s \in parts[t] \cap Registered}

\* A WAL entry.  "newer" says whether its millisecond timestamp is strictly
\* greater than that of the transaction's earlier entry.
WalEntry == [tx : Tx, state : {"Prepare", "Commit"}, ack : SUBSET Server,
             newer : BOOLEAN]

\* QuantumTransaction::transition: the four allowed state changes.
Transition(t, to) ==
  /\ <<state[t], to>> \in {<<"Init", "Prepare">>, <<"Prepare", "Commit">>,
                           <<"Prepare", "Abort">>, <<"Abort", "Rollback">>}
  /\ state' = [state EXCEPT ![t] = to]

-----------------------------------------------------------------------------
(* The server registry.                                                    *)

Register(s) ==
  /\ registry[s] # "alive"
  /\ registry' = [registry EXCEPT ![s] = "alive"]
  /\ UNCHANGED <<txVars, netVars, walVars, compVars, recVars>>

\* heartbeat: only a registered server can refresh its entry.
Heartbeat(s) ==
  /\ registry[s] = "stale"
  /\ registry' = [registry EXCEPT ![s] = "alive"]
  /\ UNCHANGED <<txVars, netVars, walVars, compVars, recVars>>

\* Time passes and the last heartbeat is older than heartbeat_timeout_ms.
HeartbeatLapse(s) ==
  /\ registry[s] = "alive"
  /\ registry' = [registry EXCEPT ![s] = "stale"]
  /\ UNCHANGED <<txVars, netVars, walVars, compVars, recVars>>

\* unregister, called by a user or by the background probe.
Unregister(s) ==
  /\ registry[s] # "absent"
  /\ registry' = [registry EXCEPT ![s] = "absent"]
  /\ UNCHANGED <<txVars, netVars, walVars, compVars, recVars>>

-----------------------------------------------------------------------------
(* execute_transaction: the checks, then the prepare phase.                *)

Return(t, r) ==
  /\ pc' = [pc EXCEPT ![t] = "done"]
  /\ result' = [result EXCEPT ![t] = r]

\* The count and liveness checks; a call that fails one returns an error.
Execute(t, P) ==
  /\ rec = "off"
  /\ pc[t] = "new"
  /\ parts' = [parts EXCEPT ![t] = P]
  /\ IF Cardinality(P) <= MaxParticipants /\ \A s \in P : registry[s] = "alive"
     THEN /\ pc' = [pc EXCEPT ![t] = "init"]
          /\ UNCHANGED result
     ELSE Return(t, "rejected")
  /\ UNCHANGED <<registry, state, wait, todo, attempt, acked, failed,
                 netVars, walVars, compVars, recVars>>

\* Mutant: the Prepare entry is logged before the participants answer.
PrepareFanoutLogsFirst(t) ==
  /\ pc[t] = "init"
  /\ Transition(t, "Prepare")
  /\ pc' = [pc EXCEPT ![t] = "prepare"]
  /\ wait' = [wait EXCEPT ![t] = parts[t]]
  /\ sent' = sent \cup ToAll(t, "prepare")
  /\ appending' = appending \cup
       {[tx |-> t, state |-> "Prepare", ack |-> parts[t], newer |-> FALSE]}
  /\ UNCHANGED <<registry, parts, todo, attempt, acked, failed, result,
                 handled, wal, torn, compVars, recVars>>

\* run_2pc enters Prepare and polls all prepare futures at once.  A server
\* that has left the registry since the check gets no request, but its
\* future still ends (in ServerNotFound).
PrepareFanout(t) ==
  /\ pc[t] = "init"
  /\ Transition(t, "Prepare")
  /\ pc' = [pc EXCEPT ![t] = "prepare"]
  /\ wait' = [wait EXCEPT ![t] = parts[t]]
  /\ sent' = sent \cup ToAll(t, "prepare")
  /\ UNCHANGED <<registry, parts, todo, attempt, acked, failed, result,
                 handled, walVars, compVars, recVars>>

PrepareAck(t, s) ==
  /\ pc[t] \in {"prepare", "retry"}
  /\ s \in wait[t]
  /\ <<t, s, "prepare">> \in handled
  /\ wait' = [wait EXCEPT ![t] = @ \ {s}]
  /\ todo' = [todo EXCEPT ![t] = @ \ {s}]
  /\ acked' = [acked EXCEPT ![t] = @ \cup {s}]
  /\ UNCHANGED <<registry, pc, parts, state, attempt, failed, result,
                 netVars, walVars, compVars, recVars>>

\* Not a Nack: a network error, a phase timeout or an unregistered server.
PrepareNetworkError(t, s) ==
  /\ pc[t] = "prepare"
  /\ s \in wait[t]
  /\ wait' = [wait EXCEPT ![t] = @ \ {s}]
  /\ UNCHANGED <<registry, pc, parts, state, todo, attempt, acked, failed,
                 result, netVars, walVars, compVars, recVars>>

\* rollback_phase: one request to every registered participant.
RollbackFanout(t, where) ==
  /\ pc' = [pc EXCEPT ![t] = where]
  /\ wait' = [wait EXCEPT ![t] = parts[t] \cap Registered]
  /\ sent' = sent \cup ToAll(t, "rollback")

\* prepare_phase returned Err: Abort, then rollback_phase.
AbortPrepare(t) ==
  /\ Transition(t, "Abort")
  /\ RollbackFanout(t, "rollback")
  /\ UNCHANGED <<registry, parts, todo, attempt, acked, failed, result,
                 handled, walVars, compVars, recVars>>

\* A Nack (or any other ProtocolError) ends the prepare phase at once.
PrepareProtocolError(t, s) ==
  /\ pc[t] \in {"prepare", "retry"}
  /\ s \in wait[t]
  /\ AbortPrepare(t)

\* The first round is over; the participants without an ack are retried
\* one after the other.
StartRetry(t) ==
  /\ pc[t] = "prepare"
  /\ wait[t] = {}
  /\ acked[t] # parts[t]
  /\ pc' = [pc EXCEPT ![t] = "retry"]
  /\ todo' = [todo EXCEPT ![t] = parts[t] \ acked[t]]
  /\ UNCHANGED <<registry, parts, state, wait, attempt, acked, failed, result,
                 netVars, walVars, compVars, recVars>>

RetrySend(t, s) ==
  /\ pc[t] = "retry"
  /\ wait[t] = {}
  /\ s \in todo[t]
  /\ IF MaxRetries > 0 /\ s \in Registered
     THEN /\ wait' = [wait EXCEPT ![t] = {s}]
          /\ attempt' = [attempt EXCEPT ![t] = 1]
          /\ sent' = sent \cup {<<t, s, "prepare">>}
          /\ UNCHANGED <<registry, pc, parts, state, todo, acked, failed,
                         result, handled, walVars, compVars, recVars>>
     ELSE AbortPrepare(t)

\* The next attempt looks the server up again and gives up if it is gone.
RetryNetworkError(t, s) ==
  /\ pc[t] = "retry"
  /\ s \in wait[t]
  /\ IF attempt[t] < MaxRetries /\ s \in Registered
     THEN /\ attempt' = [attempt EXCEPT ![t] = @ + 1]
          /\ sent' = sent \cup {<<t, s, "prepare">>}
          /\ UNCHANGED <<registry, pc, parts, state, wait, todo, acked, failed,
                         result, handled, walVars, compVars, recVars>>
     ELSE AbortPrepare(t)

\* Mutant: the retry loop forgets to check that everybody acked.
PrepareEndUnchecked(t) ==
  /\ pc[t] \in {"prepare", "retry"}
  /\ wait[t] = {}
  /\ pc' = [pc EXCEPT ![t] = "walPrepare"]
  /\ appending' = appending \cup
       {[tx |-> t, state |-> "Prepare", ack |-> acked[t], newer |-> FALSE]}
  /\ UNCHANGED <<registry, parts, state, wait, todo, attempt, acked, failed,
                 result, netVars, wal, torn, compVars, recVars>>

\* Everybody acked: the Prepare entry is handed to the WAL.
PrepareEnd(t) ==
  /\ pc[t] \in {"prepare", "retry"}
  /\ wait[t] = {}
  /\ acked[t] = parts[t]
  /\ pc' = [pc EXCEPT ![t] = "walPrepare"]
  /\ appending' = appending \cup
       {[tx |-> t, state |-> "Prepare", ack |-> acked[t], newer |-> FALSE]}
  /\ UNCHANGED <<registry, parts, state, wait, todo, attempt, acked, failed,
                 result, netVars, wal, torn, compVars, recVars>>

Appending(t) == \E e \in appending : e.tx = t

\* append has returned (its failure is only logged): Commit is entered.
EnterCommit(t) ==
  /\ pc[t] = "walPrepare"
  /\ ~Appending(t)
  /\ Transition(t, "Commit")
  /\ pc' = [pc EXCEPT ![t] = "commit"]
  /\ todo' = [todo EXCEPT ![t] = parts[t]]
  /\ acked' = [acked EXCEPT ![t] = {}]
  /\ UNCHANGED <<registry, parts, wait, attempt, failed, result,
                 netVars, walVars, compVars, recVars>>

-----------------------------------------------------------------------------
(* commit_phase, run by execute_transaction and by recover_from_wal.       *)

\* What the caller of commit_phase does with the value it returns.
LeaveCommit(t, r) ==
  IF recCur = t
  THEN /\ pc' = [pc EXCEPT ![t] = "recovered"]
       /\ recCur' = NoTx
       /\ UNCHANGED <<result, rec, recTodo, crashes>>
  ELSE /\ Return(t, r)
       /\ UNCHANGED recVars

\* The next server of the serial loop.  One that is not registered ends the
\* phase with ServerNotFound: nothing is queued for compensation.
CommitSend(t, s) ==
  /\ pc[t] = "commit"
  /\ wait[t] = {}
  /\ s \in todo[t]
  /\ IF s \in Registered
     THEN /\ todo' = [todo EXCEPT ![t] = @ \ {s}]
          /\ wait' = [wait EXCEPT ![t] = {s}]
          /\ attempt' = [attempt EXCEPT ![t] = 0]
          /\ sent' = sent \cup {<<t, s, "commit">>}
          /\ UNCHANGED <<pc, result, recVars>>
     ELSE /\ LeaveCommit(t, "failed")
          /\ UNCHANGED <<todo, wait, attempt, sent>>
  /\ UNCHANGED <<registry, parts, state, acked, failed, handled,
                 walVars, compVars>>

CommitAck(t, s) ==
  /\ pc[t] = "commit"
  /\ s \in wait[t]
  /\ <<t, s, "commit">> \in handled
  /\ wait' = [wait EXCEPT ![t] = {}]
  /\ acked' = [acked EXCEPT ![t] = @ \cup {s}]
  /\ UNCHANGED <<registry, pc, parts, state, todo, attempt, failed, result,
                 netVars, walVars, compVars, recVars>>

\* Mutant: one attempt too many.
CommitErrorOffByOne(t, s) ==
  /\ pc[t] = "commit"
  /\ s \in wait[t]
  /\ attempt[t] <= MaxRetries
  /\ attempt' = [attempt EXCEPT ![t] = @ + 1]
  /\ UNCHANGED <<registry, pc, parts, state, wait, todo, acked, failed, result,
                 netVars, walVars, compVars, recVars>>

\* Mutant: the attempts are not counted, so a dead server is tried forever.
CommitErrorUncounted(t, s) ==
  /\ pc[t] = "commit"
  /\ s \in wait[t]
  /\ UNCHANGED vars

\* Mutant: the server is queued but the phase does not count it as failed.
CommitErrorForgotten(t, s) ==
  /\ pc[t] = "commit"
  /\ s \in wait[t]
  /\ wait' = [wait EXCEPT ![t] = {}]
  /\ comp' = [comp EXCEPT ![t] = @ \cup {s}]
  /\ UNCHANGED <<registry, pc, parts, state, todo, attempt, acked, failed, result,
                 netVars, walVars, compRetries, gaveUp, rc, recVars>>

\* Any error: one more attempt, or the server joins pending_compensations.
CommitError(t, s) ==
  /\ pc[t] = "commit"
  /\ s \in wait[t]
  /\ IF attempt[t] < MaxRetries
     THEN /\ attempt' = [attempt EXCEPT ![t] = @ + 1]
          /\ UNCHANGED <<wait, failed, comp, compRetries>>
     ELSE /\ wait' = [wait EXCEPT ![t] = {}]
          /\ failed' = [failed EXCEPT ![t] = @ \cup {s}]
          /\ comp' = [comp EXCEPT ![t] = @ \cup {s}]
          /\ compRetries' = [compRetries EXCEPT ![t] = IF comp[t] = {} THEN 0 ELSE @]
          /\ UNCHANGED attempt
  /\ UNCHANGED <<registry, pc, parts, state, todo, acked, result,
                 netVars, walVars, gaveUp, rc, recVars>>

\* Some server failed: CompensationFailed.
CommitFailed(t) ==
  /\ pc[t] = "commit"
  /\ wait[t] = {}
  /\ todo[t] = {}
  /\ failed[t] # {}
  /\ LeaveCommit(t, "failed")
  /\ UNCHANGED <<registry, parts, state, wait, todo, attempt, acked, failed,
                 netVars, walVars, compVars>>

\* Mutant: the Commit entry is logged although a server failed.
CommitEndUnchecked(t) ==
  /\ pc[t] = "commit"
  /\ wait[t] = {}
  /\ todo[t] = {}
  /\ pc' = [pc EXCEPT ![t] = "walCommit"]
  /\ appending' = appending \cup
       {[tx |-> t, state |-> "Commit", ack |-> acked[t], newer |-> TRUE]}
  /\ UNCHANGED <<registry, parts, state, wait, todo, attempt, acked, failed,
                 result, netVars, wal, torn, compVars, recVars>>

\* All servers committed: the Commit entry is handed to the WAL.  It may
\* carry the same millisecond as the Prepare entry.
CommitEnd(t) ==
  /\ pc[t] = "commit"
  /\ wait[t] = {}
  /\ todo[t] = {}
  /\ failed[t] = {}
  /\ pc' = [pc EXCEPT ![t] = "walCommit"]
  /\ \E n \in BOOLEAN : appending' = appending \cup
       {[tx |-> t, state |-> "Commit", ack |-> acked[t], newer |-> n]}
  /\ UNCHANGED <<registry, parts, state, wait, todo, attempt, acked, failed,
                 result, netVars, wal, torn, compVars, recVars>>

CommitLogged(t) ==
  /\ pc[t] = "walCommit"
  /\ ~Appending(t)
  /\ LeaveCommit(t, "success")
  /\ UNCHANGED <<registry, parts, state, wait, todo, attempt, acked, failed,
                 netVars, walVars, compVars>>

-----------------------------------------------------------------------------
(* Rollback and the deadline of the whole transaction.                     *)

\* rollback_phase awaits an answer, or an error it only logs.
RollbackAnswer(t, s) ==
  /\ pc[t] \in {"rollback", "timeoutRollback"}
  /\ s \in wait[t]
  /\ wait' = [wait EXCEPT ![t] = @ \ {s}]
  /\ UNCHANGED <<registry, pc, parts, state, todo, attempt, acked, failed,
                 result, netVars, walVars, compVars, recVars>>

RollbackEnd(t) ==
  /\ pc[t] = "rollback"
  /\ wait[t] = {}
  /\ Transition(t, "Rollback")
  /\ Return(t, "rolledback")
  /\ UNCHANGED <<registry, parts, wait, todo, attempt, acked, failed,
                 netVars, walVars, compVars, recVars>>

\* tokio::time::timeout drops the future of run_2pc wherever it is and
\* rollback_phase is run.  An append inside spawn_blocking goes on.
Timeout(t) ==
  /\ DeadlineCanExpire
  /\ pc[t] \in {"prepare", "retry", "walPrepare", "commit", "walCommit", "rollback"}
  /\ recCur # t
  /\ RollbackFanout(t, "timeoutRollback")
  /\ UNCHANGED <<registry, parts, state, todo, attempt, acked, failed, result,
                 handled, walVars, compVars, recVars>>

TimeoutEnd(t) ==
  /\ pc[t] = "timeoutRollback"
  /\ wait[t] = {}
  /\ Return(t, "timeout")
  /\ UNCHANGED <<registry, parts, state, wait, todo, attempt, acked, failed,
                 netVars, walVars, compVars, recVars>>

-----------------------------------------------------------------------------
(* The WAL file and the participants.                                      *)

\* WalStore::append in its blocking thread: the line is written and synced.
\* After a torn line both become one line that read_all cannot parse.
WalAppend(e) ==
  /\ e \in appending
  /\ appending' = appending \ {e}
  /\ wal' = IF torn THEN wal ELSE Append(wal, e)
  /\ torn' = FALSE
  /\ UNCHANGED <<registry, txVars, netVars, compVars, recVars>>

\* append fails: before it wrote anything (serialisation, the sensitive-data
\* scan, open) or in the middle of the line.
WalAppendError(e) ==
  /\ e \in appending
  /\ appending' = appending \ {e}
  /\ torn' \in {torn, TRUE}
  /\ UNCHANGED <<registry, txVars, netVars, wal, compVars, recVars>>

\* A participant carries out a request that was sent, early or late.
Handle(m) ==
  /\ m \in sent \ handled
  /\ handled' = handled \cup {m}
  /\ UNCHANGED <<registry, txVars, sent, walVars, compVars, recVars>>

-----------------------------------------------------------------------------
(* reconcile_pending_transactions.                                         *)

RcIdle == [ids |-> {}, cur |-> NoTx, todo |-> {}, wait |-> {}, still |-> {},
           retries |-> 0]

\* The keys of pending_compensations are collected.
ReconcileStart ==
  /\ rc = RcIdle
  /\ \E t \in Tx : comp[t] # {}
  /\ rc' = [RcIdle EXCEPT !.ids = {t \in Tx : comp[t] # {}}]
  /\ UNCHANGED <<registry, txVars, netVars, walVars, comp, compRetries, gaveUp,
                 recVars>>

\* The next record is copied; one that has gone is skipped.
ReconcilePick(t) ==
  /\ rc.cur = NoTx
  /\ t \in rc.ids
  /\ rc' = IF comp[t] = {}
           THEN [rc EXCEPT !.ids = @ \ {t}]
           ELSE [rc EXCEPT !.ids = @ \ {t}, !.cur = t, !.todo = comp[t],
                           !.retries = compRetries[t]]
  /\ UNCHANGED <<registry, txVars, netVars, walVars, comp, compRetries, gaveUp,
                 recVars>>

\* A server that is no longer registered is dropped from the list.
ReconcileSend(s) ==
  /\ rc.wait = {}
  /\ s \in rc.todo
  /\ IF s \in Registered
     THEN /\ rc' = [rc EXCEPT !.todo = @ \ {s}, !.wait = {s}]
          /\ sent' = sent \cup {<<rc.cur, s, "commit">>}
     ELSE /\ rc' = [rc EXCEPT !.todo = @ \ {s}]
          /\ UNCHANGED sent
  /\ UNCHANGED <<registry, txVars, handled, walVars, comp, compRetries, gaveUp,
                 recVars>>

ReconcileAck(s) ==
  /\ s \in rc.wait
  /\ <<rc.cur, s, "commit">> \in handled
  /\ rc' = [rc EXCEPT !.wait = {}]
  /\ UNCHANGED <<registry, txVars, netVars, walVars, comp, compRetries, gaveUp,
                 recVars>>

ReconcileError(s) ==
  /\ s \in rc.wait
  /\ rc' = [rc EXCEPT !.wait = {}, !.still = @ \cup {s}]
  /\ UNCHANGED <<registry, txVars, netVars, walVars, comp, compRetries, gaveUp,
                 recVars>>

\* Mutant: the call waits until nobody is left in still_failed.
ReconcileFinishStuck(t) ==
  /\ rc.cur = t
  /\ rc.todo = {}
  /\ rc.wait = {}
  /\ rc.still = {}
  /\ comp' = [comp EXCEPT ![t] = {}]
  /\ rc' = [RcIdle EXCEPT !.ids = rc.ids]
  /\ UNCHANGED <<registry, txVars, netVars, walVars, compRetries, gaveUp, recVars>>

\* The record is removed, given up or overwritten with the copy.
ReconcileFinish(t) ==
  /\ rc.cur = t
  /\ rc.todo = {}
  /\ rc.wait = {}
  /\ LET over == rc.retries + 1 >= MaxRetries
         keep == rc.still # {} /\ ~over /\ comp[t] # {}
     IN /\ comp' = [comp EXCEPT ![t] = IF keep THEN rc.still ELSE {}]
        /\ compRetries' = [compRetries EXCEPT ![t] = IF keep THEN rc.retries + 1 ELSE 0]
        /\ gaveUp' = IF rc.still # {} /\ over /\ comp[t] # {}
                     THEN gaveUp \cup {t} ELSE gaveUp
  /\ rc' = [RcIdle EXCEPT !.ids = rc.ids]
  /\ UNCHANGED <<registry, txVars, netVars, walVars, recVars>>

-----------------------------------------------------------------------------
(* Crash, restart and recover_from_wal.                                    *)

\* The process dies: memory is lost; an append that was under way has
\* reached the disk completely, in part or not at all.
Crash ==
  /\ crashes < MaxCrashes
  /\ crashes' = crashes + 1
  /\ registry' = [s \in Server |-> "absent"]
  /\ pc' = [t \in Tx |-> IF pc[t] \in {"new", "done"} THEN pc[t] ELSE "lost"]
  /\ wait' = [t \in Tx |-> {}]
  /\ todo' = [t \in Tx |-> {}]
  /\ appending' = {}
  /\ torn' \in {torn, torn \/ appending # {}}
  /\ comp' = [t \in Tx |-> {}]
  /\ compRetries' = [t \in Tx |-> 0]
  /\ rc' = RcIdle
  /\ rec' = "boot"
  /\ recTodo' = {}
  /\ recCur' = NoTx
  /\ UNCHANGED <<parts, state, attempt, acked, failed, result, netVars, wal,
                 gaveUp>>

EntriesOf(t) == {i \in DOMAIN wal : wal[i].tx = t}

\* tx_final_state keeps line i for its transaction: the first entry, replaced
\* only by one with a strictly greater timestamp.
FinalEntry(i) ==
  \A j \in EntriesOf(wal[i].tx) :
    IF wal[i].newer THEN wal[j].newer => j <= i ELSE ~wal[j].newer /\ i <= j

\* read_all and the scan for transactions whose final state is Prepare.
\* With no parseable entry the call returns and leaves the file as it is.
RecoverScan ==
  /\ rec = "boot"
  /\ IF wal = <<>>
     THEN rec' = "off" /\ UNCHANGED recTodo
     ELSE /\ rec' = "run"
          /\ recTodo' = {wal[i] : i \in {j \in DOMAIN wal :
                                       FinalEntry(j) /\ wal[j].state = "Prepare"}}
  /\ UNCHANGED <<registry, txVars, netVars, walVars, compVars, recCur, crashes>>

\* A transaction is rebuilt in Prepare with the participants that acked,
\* enters Commit and runs commit_phase (without a deadline).
RecoverNext(e) ==
  /\ rec = "run"
  /\ recCur = NoTx
  /\ e \in recTodo
  /\ recTodo' = recTodo \ {e}
  /\ recCur' = e.tx
  /\ pc' = [pc EXCEPT ![e.tx] = "commit"]
  /\ state' = [state EXCEPT ![e.tx] = "Commit"]
  /\ todo' = [todo EXCEPT ![e.tx] = e.ack]
  /\ acked' = [acked EXCEPT ![e.tx] = {}]
  /\ failed' = [failed EXCEPT ![e.tx] = {}]
  /\ UNCHANGED <<registry, parts, wait, attempt, result, netVars, walVars,
                 compVars, rec, crashes>>

\* Mutant: recovery waits for the log to be empty instead of its own list.
RecoverTruncateStuck ==
  /\ rec = "run"
  /\ wal = <<>>
  /\ rec' = "off"
  /\ UNCHANGED <<registry, txVars, netVars, walVars, compVars, recTodo, recCur,
                 crashes>>

\* truncate, whose failure is only logged.
RecoverTruncate ==
  /\ rec = "run"
  /\ recCur = NoTx
  /\ recTodo = {}
  /\ rec' = "off"
  /\ \/ wal' = <<>> /\ torn' = FALSE
     \/ UNCHANGED <<wal, torn>>
  /\ UNCHANGED <<registry, txVars, netVars, appending, compVars, recTodo, recCur,
                 crashes>>

-----------------------------------------------------------------------------

Init ==
  /\ registry = [s \in Server |-> "absent"]
  /\ pc = [t \in Tx |-> "new"]
  /\ parts = [t \in Tx |-> {}]
  /\ state = [t \in Tx |-> "Init"]
  /\ wait = [t \in Tx |-> {}]
  /\ todo = [t \in Tx |-> {}]
  /\ attempt = [t \in Tx |-> 0]
  /\ acked = [t \in Tx |-> {}]
  /\ failed = [t \in Tx |-> {}]
  /\ result = [t \in Tx |-> "none"]
  /\ sent = {} /\ handled = {}
  /\ wal = <<>> /\ torn = FALSE /\ appending = {}
  /\ comp = [t \in Tx |-> {}]
  /\ compRetries = [t \in Tx |-> 0]
  /\ gaveUp = {}
  /\ rc = RcIdle
  /\ rec = "off" /\ recTodo = {} /\ recCur = NoTx
  /\ crashes = 0

Registry == \E s \in Server :
  Register(s) \/ Heartbeat(s) \/ HeartbeatLapse(s) \/ Unregister(s)

\* The steps of the call t that its own task takes.
Coordinate(t) ==
  \/ PrepareFanout(t) \/ StartRetry(t) \/ PrepareEnd(t) \/ EnterCommit(t)
  \/ CommitFailed(t) \/ CommitEnd(t) \/ CommitLogged(t)
  \/ RollbackEnd(t) \/ TimeoutEnd(t)
  \/ \E s \in Server :
       \/ PrepareAck(t, s) \/ PrepareNetworkError(t, s) \/ PrepareProtocolError(t, s)
       \/ RetrySend(t, s) \/ RetryNetworkError(t, s)
       \/ CommitSend(t, s) \/ CommitAck(t, s) \/ CommitError(t, s)
       \/ RollbackAnswer(t, s)

Reconcile ==
  \/ ReconcileStart
  \/ \E t \in Tx : ReconcilePick(t) \/ ReconcileFinish(t)
  \/ \E s \in Server : ReconcileSend(s) \/ ReconcileAck(s) \/ ReconcileError(s)

Recover == RecoverScan \/ RecoverTruncate \/ \E e \in recTodo : RecoverNext(e)

WalThread == \E e \in appending : WalAppend(e) \/ WalAppendError(e)

Next ==
  \/ Registry
  \/ \E t \in Tx, P \in SUBSET Server : Execute(t, P)
  \/ \E t \in Tx : Coordinate(t) \/ Timeout(t)
  \/ WalThread
  \/ \E m \in sent : Handle(m)
  \/ Reconcile
  \/ Crash
  \/ Recover

Spec == Init /\ [][Next]_vars

\* The runtime polls every task that can go on, every request ends at the
\* latest with the phase timeout, and the blocking pool runs its closures.
\* Nobody is obliged to start a transaction or a reconcile call, to handle
\* a request or to keep a server registered.
Fairness ==
  /\ \A t \in Tx : WF_vars(Coordinate(t))
  /\ WF_vars(WalThread)
  /\ WF_vars(Recover)
  /\ WF_vars(Reconcile /\ rc # RcIdle)

FairSpec == Spec /\ Fairness

-----------------------------------------------------------------------------
(* Properties.                                                             *)

TxTypeOK ==
  /\ registry \in [Server -> {"absent", "alive", "stale"}]
  /\ pc \in [Tx -> {"new", "init", "prepare", "retry", "walPrepare", "commit",
                    "walCommit", "rollback", "timeoutRollback", "done", "lost",
                    "recovered"}]
  /\ parts \in [Tx -> SUBSET Server]
  /\ state \in [Tx -> TransactionState]
  /\ wait \in [Tx -> SUBSET Server]
  /\ todo \in [Tx -> SUBSET Server]
  /\ attempt \in [Tx -> 0 .. MaxRetries]
  /\ acked \in [Tx -> SUBSET Server]
  /\ failed \in [Tx -> SUBSET Server]
  /\ result \in [Tx -> {"none", "rejected", "success", "failed", "rolledback",
                        "timeout"}]

NetTypeOK == sent \subseteq Requests /\ handled \subseteq sent

WalTypeOK ==
  /\ wal \in Seq(WalEntry)
  /\ torn \in BOOLEAN
  /\ appending \subseteq WalEntry

CompTypeOK ==
  /\ comp \in [Tx -> SUBSET Server]
  /\ compRetries \in [Tx -> 0 .. MaxRetries]
  /\ gaveUp \subseteq Tx
  /\ rc \in [ids : SUBSET Tx, cur : Tx \cup {NoTx}, todo : SUBSET Server,
             wait : SUBSET Server, still : SUBSET Server,
             retries : 0 .. MaxRetries]
  /\ rc.cur = NoTx => rc.todo = {} /\ rc.wait = {}

RecTypeOK ==
  /\ rec \in {"off", "boot", "run"}
  /\ recTodo \subseteq WalEntry
  /\ recCur \in Tx \cup {NoTx}
  /\ crashes \in 0 .. MaxCrashes

\* Every variable has its type; no server is tried more than MaxRetries
\* times, and reconcile works on servers only while it has a record.
TypeOK == TxTypeOK /\ NetTypeOK /\ WalTypeOK /\ CompTypeOK /\ RecTypeOK

Sent(t, k) == \E s \in Server : <<t, s, k>> \in sent
AllHandled(t, k) == \A s \in parts[t] : <<t, s, k>> \in handled

\* No commit request leaves the coordinator (in execute_transaction, in
\* reconcile or in recovery after a crash) before every participant of the
\* transaction has carried out its prepare.
CommitNeedsAllPrepared == \A t \in Tx : Sent(t, "commit") => AllHandled(t, "prepare")

\* A transaction that run_2pc aborted in its prepare phase is never
\* committed: no reconcile call and no recovery sends a commit for it.
AbortedNeverCommits ==
  \A t \in Tx : state[t] \in {"Abort", "Rollback"} \/ result[t] = "rolledback"
                => ~Sent(t, "commit")

\* success = true means that every participant committed and that nobody
\* was, or will be, asked to roll back.
SuccessIsAtomic ==
  \A t \in Tx : result[t] = "success" =>
    AllHandled(t, "commit") /\ ~Sent(t, "rollback")

\* A Commit entry in the log is true: all participants have committed, so
\* recovery may skip the transaction.
CommitEntryIsTrue ==
  \A i \in DOMAIN wal : wal[i].state = "Commit" => AllHandled(wal[i].tx, "commit")

-----------------------------------------------------------------------------
(* The inductive invariant behind the four properties above.               *)

\* What a line of the log says is true of the participants.
GoodEntry(e) ==
  /\ AllHandled(e.tx, "prepare")
  /\ e.state = "Prepare" => e.ack = parts[e.tx]
  /\ e.state = "Commit" => AllHandled(e.tx, "commit")

LogInv ==
  /\ \A i \in DOMAIN wal : GoodEntry(wal[i])
  /\ \A e \in appending \cup recTodo : GoodEntry(e)
  /\ \A e \in recTodo : e.state = "Prepare"

\* What is known of the participants in each phase.
PhaseInv(t) ==
  /\ pc[t] \in {"new", "init"} => acked[t] = {}
  /\ pc[t] \in {"prepare", "retry"} =>
       \A s \in acked[t] : <<t, s, "prepare">> \in handled
  /\ pc[t] \in {"walPrepare", "commit", "walCommit"} => AllHandled(t, "prepare")
  /\ pc[t] = "commit" =>
       /\ parts[t] \subseteq acked[t] \cup failed[t] \cup wait[t] \cup todo[t]
       /\ \A s \in acked[t] : <<t, s, "commit">> \in handled
       /\ \A s, u \in wait[t] : s = u
  /\ pc[t] = "walCommit" => AllHandled(t, "commit")
  /\ pc[t] \in {"new", "init", "walPrepare", "walCommit", "done", "lost", "recovered"}
       => wait[t] = {}
  /\ recCur = t => pc[t] \in {"commit", "walCommit"}
  /\ rec # "off" => pc[t] \in {"new", "done", "lost", "recovered"} \/ recCur = t
  /\ result[t] # "none" => pc[t] \in {"done", "lost", "recovered"} \/ recCur = t
  /\ pc[t] \in {"new", "init", "prepare", "retry", "walPrepare", "commit", "walCommit"}
       /\ recCur # t => ~Sent(t, "rollback")

\* No trace of t in the log, the compensation queue or the commit requests.
Untouched(t) ==
  /\ ~Sent(t, "commit")
  /\ comp[t] = {}
  /\ rc.cur # t
  /\ \A i \in DOMAIN wal : wal[i].tx # t
  /\ \A e \in appending \cup recTodo : e.tx # t

Aborted(t) == state[t] \in {"Abort", "Rollback"} \/ result[t] = "rolledback"

AbortInv(t) ==
  /\ Aborted(t) => pc[t] \in {"rollback", "timeoutRollback", "done", "lost"}
  /\ pc[t] \in {"new", "init", "prepare", "retry"} \/ Aborted(t) => Untouched(t)

\* Whoever may send a commit for t: all its participants have prepared.
CommitInv(t) ==
  Sent(t, "commit") \/ comp[t] # {} \/ rc.cur = t => AllHandled(t, "prepare")

\* The state of the coordinator, its log and its queue agree with what the
\* participants have done, at every step of every call, of reconciliation
\* and of recovery.
IInv ==
  /\ LogInv
  /\ SuccessIsAtomic
  /\ \A t \in Tx : PhaseInv(t) /\ AbortInv(t) /\ CommitInv(t)

-----------------------------------------------------------------------------
(* Liveness.                                                               *)

\* Every execute_transaction call ends, whatever the network does (unless
\* the process dies under it): its retries and its rollback are bounded.
CallReturns ==
  \A t \in Tx : (pc[t] = "init") ~> (pc[t] \in {"done", "lost", "recovered"})

\* recover_from_wal ends after a restart, also with servers that are gone.
RecoveryEnds == (rec = "boot") ~> (rec = "off")

\* A reconcile_pending_transactions call ends, also while commit phases and
\* the registry change what it works on.
ReconcileEnds == (rc # RcIdle) ~> (rc = RcIdle)

-----------------------------------------------------------------------------
(* What the documentation says and the code does not do.                   *)

\* mesh.rs: "TransactionTimeout: ... already rolled back automatically".
TimeoutMeansRolledBack ==
  \A t \in Tx : result[t] = "timeout" /\ state[t] = "Commit" => acked[t] = {}

\* mesh.rs: what recovery could not commit is in pending_compensations, so
\* the log may be truncated.
RecoveredOrQueued ==
  \A t \in Tx : rec = "run" /\ pc[t] = "recovered" =>
    \A s \in parts[t] : <<t, s, "commit">> \in handled \/ s \in comp[t]

-----------------------------------------------------------------------------
(* Where no deadline cuts into a commit phase, the coordinator is an       *)
(* atomic commit.                                                          *)

\* What a participant's requests amount to.
RmState(t, s) ==
  CASE <<t, s, "commit">> \in handled -> "committed"
    [] <<t, s, "commit">> \notin handled /\ <<t, s, "rollback">> \in handled -> "aborted"
    [] <<t, s, "commit">> \notin handled /\ <<t, s, "rollback">> \notin handled
         /\ <<t, s, "prepare">> \in handled -> "prepared"
    [] OTHER -> "working"

AC == INSTANCE AtomicCommit
        WITH members <- parts, rm <- [t \in Tx |-> [s \in Server |-> RmState(t, s)]]

\* Without an expiring deadline the participants see an atomic commit: all
\* of them commit or none, over crashes, lost answers, late requests,
\* recovery and reconciliation.
ImplementsAtomicCommit == AC!Spec
=============================================================================
