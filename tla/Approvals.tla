----------------------------- MODULE Approvals -----------------------------
(***************************************************************************)
(* Approval requests of the app server (crates/nexus-app-server):          *)
(* inject_approval_request puts a request into a session's pending list,   *)
(* and several clients may answer it at once.  ApprovalArbiter lets the    *)
(* first vote stand for as long as it is fresh; approval_respond takes the *)
(* request off the list when its vote was accepted.                        *)
(*                                                                         *)
(* submit_vote is a look at the DashMap, an optional removal of an expired *)
(* vote and an insertion through the entry API, three separate accesses.   *)
(***************************************************************************)
EXTENDS Integers, FiniteSets

CONSTANTS
    Approval,      \* approval requests
    Client,        \* clients that answer
    Verdict,       \* ApprovalDecision
    MaxVotes       \* bound: votes cast

NoVote == "novote"

ASSUME ApprovalAssumption == MaxVotes \in Nat /\ NoVote \notin Client

VARIABLES
    waiting,       \* requests in some session's pending_approvals
    raised,        \* requests that were injected
    decided,       \* ApprovalArbiter.decided
    stale,         \* requests whose recorded vote is older than the ttl
    outlived,      \* requests one of whose votes has ever become stale
    vote,          \* approval_respond calls under way
    sweep,         \* requests purge_expired has collected and not yet removed
    accepted,      \* votes the arbiter accepted
    cleared,       \* votes whose call took the request off the list
    votes          \* votes cast

approvalVars == <<waiting, raised, decided, stale, outlived, vote, sweep, accepted, cleared, votes>>

NoDecision == [client |-> NoVote, verdict |-> NoVote]
NoResponse == [pc |-> "idle", on |-> NoVote, verdict |-> NoVote]
Voted(r)   == decided[r] # NoDecision

ApprovalInit ==
    /\ waiting = {} /\ raised = {}
    /\ decided = [r \in Approval |-> NoDecision]
    /\ stale = {} /\ outlived = {} /\ sweep = {}
    /\ vote = [c \in Client |-> NoResponse]
    /\ accepted = {} /\ cleared = {}
    /\ votes = 0

\* inject_approval_request; request ids are unique.
Inject(r) ==
    /\ r \notin raised
    /\ raised' = raised \cup {r} /\ waiting' = waiting \cup {r}
    /\ UNCHANGED <<decided, stale, outlived, vote, sweep, accepted, cleared, votes>>

\* submit_vote: the look.  A fresh vote ends the call (DuplicateIgnored).
LookUp(c, r, d) ==
    /\ vote[c].pc = "idle" /\ votes < MaxVotes
    /\ votes' = votes + 1
    /\ vote' = [vote EXCEPT ![c] =
                   IF Voted(r) /\ r \notin stale THEN NoResponse
                   ELSE [pc |-> IF Voted(r) THEN "remove" ELSE "enter", on |-> r, verdict |-> d]]
    /\ UNCHANGED <<waiting, raised, decided, stale, outlived, sweep, accepted, cleared>>

\* submit_vote: the expired vote is removed, or whatever stands there by now.
RemoveOld(c) ==
    /\ vote[c].pc = "remove"
    /\ decided' = [decided EXCEPT ![vote[c].on] = NoDecision]
    /\ stale' = stale \ {vote[c].on}
    /\ vote' = [vote EXCEPT ![c].pc = "enter"]
    /\ UNCHANGED <<waiting, raised, outlived, sweep, accepted, cleared, votes>>

\* Mutant: the insertion does not look again.
VacantAlways(r) == TRUE

\* The entry API, under the shard's lock.
Vacant(r) == ~Voted(r)

\* approval_respond returns at a duplicate.
Duplicate(c) == vote' = [vote EXCEPT ![c] = NoResponse]

Enter(c) ==
    /\ vote[c].pc = "enter"
    /\ LET r == vote[c].on
       IN  IF Vacant(r)
           THEN /\ decided' = [decided EXCEPT ![r] = [client |-> c, verdict |-> vote[c].verdict]]
                /\ stale' = stale \ {r}
                /\ accepted' = accepted \cup {<<r, c, vote[c].verdict>>}
                /\ vote' = [vote EXCEPT ![c].pc = "clear"]
           ELSE /\ Duplicate(c)
                /\ UNCHANGED <<decided, stale, accepted>>
    /\ UNCHANGED <<waiting, raised, outlived, sweep, cleared, votes>>

\* approval_respond after an accepted vote: the request leaves its session, or
\* the client is told ApprovalNotFound.
Clear(c) ==
    /\ vote[c].pc = "clear"
    /\ LET r == vote[c].on
       IN  /\ waiting' = waiting \ {r}
           /\ cleared' = IF r \in waiting THEN cleared \cup {<<r, c, vote[c].verdict>>} ELSE cleared
    /\ vote' = [vote EXCEPT ![c] = NoResponse]
    /\ UNCHANGED <<raised, decided, stale, outlived, sweep, accepted, votes>>

\* The ttl of a recorded vote runs out.
Expire(r) ==
    /\ Voted(r) /\ r \notin stale
    /\ stale' = stale \cup {r} /\ outlived' = outlived \cup {r}
    /\ UNCHANGED <<waiting, raised, decided, vote, sweep, accepted, cleared, votes>>

\* The filter of purge_expired.
Expired == stale

\* purge_expired collects the keys first ...
PurgeCollect ==
    /\ sweep = {} /\ Expired # {}
    /\ sweep' = Expired
    /\ UNCHANGED <<waiting, raised, decided, stale, outlived, vote, accepted, cleared, votes>>

\* ... and removes them one by one, whatever vote they hold by then.
PurgeRemove(r) ==
    /\ r \in sweep
    /\ sweep' = sweep \ {r}
    /\ decided' = [decided EXCEPT ![r] = NoDecision]
    /\ stale' = stale \ {r}
    /\ UNCHANGED <<waiting, raised, outlived, vote, accepted, cleared, votes>>

ApprovalNext ==
    \/ \E r \in Approval : Inject(r) \/ Expire(r) \/ PurgeRemove(r)
    \/ \E c \in Client, r \in Approval, d \in Verdict : LookUp(c, r, d)
    \/ \E c \in Client : RemoveOld(c) \/ Enter(c) \/ Clear(c)
    \/ PurgeCollect

ApprovalSpec == ApprovalInit /\ [][ApprovalNext]_approvalVars

-----------------------------------------------------------------------------
(* Properties.                                                             *)

\* The types; a stale mark belongs to a recorded vote and a swept one was
\* stale once.
ApprovalTypeOK ==
    /\ waiting \subseteq raised /\ raised \subseteq Approval
    /\ decided \in [Approval -> {NoDecision} \cup [client : Client, verdict : Verdict]]
    /\ stale \subseteq {r \in Approval : Voted(r)}
    /\ sweep \subseteq outlived /\ outlived \subseteq Approval
    /\ vote \in [Client -> {NoResponse} \cup
                           [pc : {"remove", "enter", "clear"}, on : Approval, verdict : Verdict]]
    /\ accepted \subseteq Approval \X Client \X Verdict
    /\ cleared \subseteq Approval \X Client \X Verdict
    /\ votes \in 0..MaxVotes

\* The first vote stands: until a vote on a request has outlived the ttl, only
\* one was ever accepted, and it is the recorded decision, whatever clients
\* vote at the same moment (approval.rs, submit_vote).
FirstVoteStands ==
    \A r \in Approval \ outlived : \A a \in accepted :
        a[1] = r => decided[r] = [client |-> a[2], verdict |-> a[3]]

\* A request leaves the list only with the decision on record: the client that
\* was told its answer was carried out is the one whose vote stands, and a
\* request that is gone has such a client.
ClearedByDecision ==
    \A r \in raised \ (waiting \cup outlived) :
        \E a \in cleared : a[1] = r /\ decided[r] = [client |-> a[2], verdict |-> a[3]]

\* Both: what clients were told about a vote is what stands.
VotesStand == FirstVoteStands /\ ClearedByDecision
=============================================================================
