---------------------------- MODULE AtomicCommit ----------------------------
(***************************************************************************)
(* What a distributed transaction promises to its participants             *)
(* (crates/mcp-mesh/src/lib.rs: "2PC across several servers, atomically"): *)
(* a participant commits only when every member has prepared, and once one *)
(* of them has committed none aborts.                                      *)
(***************************************************************************)
CONSTANTS Tx, Server

VARIABLES
  members,  \* the participants of each transaction
  rm        \* rm[t][s]: what server s has done in transaction t

acVars == <<members, rm>>

Become(t, s, st) == rm' = [rm EXCEPT ![t][s] = st]

Begin(t, P) ==
  /\ members[t] = {}
  /\ \A s \in Server : rm[t][s] = "working"
  /\ members' = [members EXCEPT ![t] = P]
  /\ UNCHANGED rm

Prepare(t, s) ==
  /\ s \in members[t]
  /\ rm[t][s] = "working"
  /\ Become(t, s, "prepared")
  /\ UNCHANGED members

Commit(t, s) ==
  /\ s \in members[t]
  /\ \A u \in members[t] : rm[t][u] \in {"prepared", "committed"}
  /\ Become(t, s, "committed")
  /\ UNCHANGED members

Abort(t, s) ==
  /\ s \in members[t]
  /\ \A u \in members[t] : rm[t][u] # "committed"
  /\ Become(t, s, "aborted")
  /\ UNCHANGED members

Init ==
  /\ members = [t \in Tx |-> {}]
  /\ rm = [t \in Tx |-> [s \in Server |-> "working"]]

Next == \E t \in Tx :
  \/ \E P \in SUBSET Server : Begin(t, P)
  \/ \E s \in Server : Prepare(t, s) \/ Commit(t, s) \/ Abort(t, s)

Spec == Init /\ [][Next]_acVars
=============================================================================
