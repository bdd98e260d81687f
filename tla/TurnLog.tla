------------------------------ MODULE TurnLog ------------------------------
(***************************************************************************)
(* The application server on top of the session store: persist_turn        *)
(* (crates/nexus-app-server/src/server.rs) appends the turn's event,       *)
(* flushes and returns the session's last offset.  Its three awaits        *)
(* interleave with the flushes of other turns and of the flush loop, and   *)
(* with every other use of the store, so that what holds here of the store *)
(* holds of SessionStore alone.                                            *)
(***************************************************************************)
EXTENDS SessionStore

VARIABLES
  turn,     \* the event each task persists in persist_turn, 0 for none
  flushing, \* has it called flush yet?
  answers   \* what persist_turn has returned: the event and the offset

turnVars == <<turn, flushing, answers>>
allVars == <<vars, turnVars>>

\* persist_turn calls append, which flushes a full queue itself.
PersistAppend(f, s) ==
  /\ turn[f] = 0
  /\ AppendEvent(f, s)
  /\ turn' = [turn EXCEPT ![f] = Len(log) + 1]
  /\ UNCHANGED <<flushing, answers>>

\* append has returned Ok: persist_turn calls flush.
PersistFlush(f) ==
  /\ turn[f] # 0 /\ ~flushing[f]
  /\ fpc[f] = "idle"
  /\ fpc' = [fpc EXCEPT ![f] = "take"]
  /\ flushing' = [flushing EXCEPT ![f] = TRUE]
  /\ UNCHANGED <<log, memVars, groups, sess, metas, rows, diskVars, indexVars, ghostVars,
                 turn, answers>>

\* flush has returned Ok: the answer is last_offset, an error if there is none.
PersistAnswer(f) ==
  /\ turn[f] # 0 /\ flushing[f]
  /\ fpc[f] = "idle"
  /\ answers' = IF lastOff[log[turn[f]]] = 0 THEN answers
                ELSE answers \cup {[ev |-> turn[f], off |-> lastOff[log[turn[f]]] - 1]}
  /\ turn' = [turn EXCEPT ![f] = 0]
  /\ flushing' = [flushing EXCEPT ![f] = FALSE]
  /\ UNCHANGED vars

\* A step of a flush; its error ends persist_turn.
StoreStep(f) ==
  /\ \/ /\ turn[f] # 0 => fpc[f] = "take"
        /\ TakeBatch(f) \/ FlushNothing(f)
     \/ FlushStep(f)
  /\ LET failed == fpc[f] \notin {"idle", "take", "confirm"} /\ fpc'[f] = "idle"
     IN /\ turn' = IF failed THEN [turn EXCEPT ![f] = 0] ELSE turn
        /\ flushing' = IF failed THEN [flushing EXCEPT ![f] = FALSE] ELSE flushing
  /\ UNCHANGED answers

\* The process dies with the turns it was persisting.
TurnCrash ==
  /\ Crash
  /\ turn' = [f \in Flusher |-> 0]
  /\ flushing' = [f \in Flusher |-> FALSE]
  /\ UNCHANGED answers

\* What other users of the store do meanwhile: append outside of persist_turn,
\* fork a session, rebuild the index.
OtherUse ==
  /\ \/ \E f \in Flusher, s \in Session : turn[f] = 0 /\ AppendEvent(f, s)
     \/ \E p, c \in Session, n \in 0 .. MaxEvents : Fork(p, n, c)
     \/ \E s \in Session : Rebuild(s)
  /\ UNCHANGED turnVars

TurnInit ==
  /\ Init
  /\ turn = [f \in Flusher |-> 0]
  /\ flushing = [f \in Flusher |-> FALSE]
  /\ answers = {}

TurnNext ==
  \/ \E f \in Flusher :
       \/ \E s \in Session : PersistAppend(f, s)
       \/ PersistFlush(f) \/ PersistAnswer(f) \/ StoreStep(f)
  \/ OtherUse
  \/ TurnCrash

TurnSpec == TurnInit /\ [][TurnNext]_allVars

-----------------------------------------------------------------------------

\* An offset that persist_turn returned names an event of that session which
\* is on disk and stays there, so a client can resume replay from it.
AnswerIsDurable ==
  \A a \in answers : \E x \in Durable(log[a.ev]) : x.seq = a.off /\ log[x.ev] = log[a.ev]
=============================================================================
