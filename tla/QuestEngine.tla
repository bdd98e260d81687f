---------------------------- MODULE QuestEngine ----------------------------
(***************************************************************************)
(* quest-engine: the registry of quests and their tasks, the checkpoints    *)
(* that are saved automatically while tasks complete, and the subscriber    *)
(* that obeys pause, resume, cancel and priority requests from the event    *)
(* bus.  Callers run on several threads; the registry is a DashMap, and the *)
(* only thing that is atomic is what happens under one guard.               *)
(*                                                                          *)
(* A quest is the status of its tasks (title, mode and priority are left    *)
(* out), a checkpoint the snapshot in its file, and created_at the number   *)
(* of the save that took it.                                                *)
(***************************************************************************)
EXTENDS Naturals, Sequences, FiniteSets

CONSTANTS
  Quest, Step,       \* quests, and the tasks of a quest
  Caller,            \* threads that call the engine
  Interval,          \* config.checkpoint_interval
  MaxKeep,           \* CheckpointManager.max_keep
  RingSize,          \* how many events the bus keeps for a slow subscriber
  MaxInputs          \* bound: calls, requests, failures and restarts

ASSUME QuestAssumption ==
  /\ Step # {} /\ IsFiniteSet(Step)
  /\ Interval \in Nat /\ MaxKeep \in Nat /\ RingSize \in Nat \ {0}
  /\ MaxInputs \in Nat

VARIABLES
  created,     \* quests that create_quest has made an id for
  registered,  \* the keys of quests
  status,      \* the tasks of each quest
  paused,      \* the keys of paused_quests
  files,       \* the checkpoint files: [quest, at, state, ok]
  saves,       \* number of checkpoints stamped so far
  call,        \* what each caller is doing
  ring,        \* events the control subscriber has not received yet
  lagged,      \* it missed events and its next recv says so
  control,     \* what the control subscriber is doing; "exited" once its loop broke
  inputs,      \* number of calls, requests, failures and restarts so far
  clean,       \* ghost: no write failed and no process died
  announced,   \* ghost: quests with an ExecutionCompleted event
  refused,     \* ghost: quests for which an update returned an error
  confirmed,   \* ghost: the saves that returned Ok
  restored     \* ghost: quests that were replaced by a checkpoint

registry == <<created, registered, status>>
disk == <<files, saves>>
ghosts == <<clean, announced, refused, confirmed, restored>>
questVars == <<registry, paused, disk, call, ring, lagged, control,
               inputs, ghosts>>

Status == {"pending", "running", "completed", "failed"}
IsValidTransition(a, b) ==
  a = b \/ <<a, b>> \in {<<"pending", "running">>, <<"running", "completed">>,
                         <<"running", "failed">>}

NewSteps == [s \in Step |-> "pending"]
Completed(st) == Cardinality({s \in Step : st[s] = "completed"})
AllTerminal(st) == \A s \in Step : st[s] \in {"completed", "failed"}

Waiting == [pc |-> "idle", quest |-> CHOOSE q \in Quest : TRUE, count |-> 0, all |-> FALSE,
            auto |-> FALSE, done |-> FALSE, snap |-> NewSteps, at |-> 0, set |-> {}]
Listening == [pc |-> "recv", op |-> "none", quest |-> CHOOSE q \in Quest : TRUE]
Noise == [op |-> "none", quest |-> CHOOSE q \in Quest : TRUE]
Request == [op : {"pause", "resume", "cancel"}, quest : Quest]

QuestInit ==
  /\ created = {} /\ registered = {}
  /\ status = [q \in Quest |-> NewSteps]
  /\ paused = {} /\ files = {} /\ saves = 0
  /\ call = [p \in Caller |-> Waiting]
  /\ ring = <<>> /\ lagged = FALSE /\ control = Listening
  /\ inputs = 0 /\ clean = TRUE
  /\ announced = {} /\ refused = {} /\ confirmed = {} /\ restored = {}

\* EventBus::publish, as the control subscriber sees it: the ring drops its
\* oldest event when it is full.
Publish(e) ==
  /\ ring' = IF Len(ring) < RingSize THEN Append(ring, e) ELSE Append(Tail(ring), e)
  /\ lagged' = (lagged \/ Len(ring) = RingSize)

Then(p, c) == call' = [call EXCEPT ![p] = c]

\* A step from outside, up to the bound.
Input == inputs < MaxInputs /\ inputs' = inputs + 1

-----------------------------------------------------------------------------
(* create_quest and update_task_status.                                    *)

CreateQuest(p, q) ==
  /\ call[p].pc = "idle" /\ Input /\ q \notin created
  /\ created' = created \cup {q} /\ registered' = registered \cup {q}
  /\ status' = [status EXCEPT ![q] = NewSteps]
  /\ Publish(Noise)
  /\ UNCHANGED <<paused, disk, call, control, ghosts>>

\* Mutant: the counts are taken before the new status is written.
UpdateTaskStale(p, q, s, new) ==
  /\ call[p].pc = "idle" /\ Input /\ q \in registered
  /\ IsValidTransition(status[q][s], new)
  /\ status' = [status EXCEPT ![q][s] = new]
  /\ Then(p, [Waiting EXCEPT !.pc = "progress", !.quest = q, !.done = (new = "completed"),
                             !.count = Completed(status[q]),
                             !.all = AllTerminal(status[q])])
  /\ UNCHANGED <<created, registered, paused, disk, ring, lagged, control, ghosts>>

\* Under the guard of the entry: check, write, count.
UpdateTask(p, q, s, new) ==
  /\ call[p].pc = "idle" /\ Input /\ q \in registered
  /\ IsValidTransition(status[q][s], new)
  /\ status' = [status EXCEPT ![q][s] = new]
  /\ Then(p, [Waiting EXCEPT !.pc = "progress", !.quest = q, !.done = (new = "completed"),
                             !.count = Completed(status'[q]),
                             !.all = AllTerminal(status'[q])])
  /\ UNCHANGED <<created, registered, paused, disk, ring, lagged, control, ghosts>>

\* What update_task_status does once the checkpoint is dealt with.
Finish(c) == IF c.all THEN [Waiting EXCEPT !.pc = "announce", !.quest = c.quest] ELSE Waiting

\* The guard is dropped, QuestProgressUpdated is published; every Interval
\* completions a checkpoint is saved.
Progress(p) ==
  LET c == call[p] IN
  /\ c.pc = "progress"
  /\ Publish(Noise)
  /\ Then(p, IF c.done /\ Interval > 0 /\ c.count > 0 /\ c.count % Interval = 0
             THEN [c EXCEPT !.pc = "clone", !.auto = TRUE] ELSE Finish(c))
  /\ UNCHANGED <<registry, paused, disk, control, inputs, ghosts>>

\* complete_quest, when every task was terminal.
Announce(p) ==
  LET c == call[p] IN
  /\ c.pc = "announce"
  /\ Publish(Noise)
  /\ announced' = announced \cup {c.quest}
  /\ Then(p, Waiting)
  /\ UNCHANGED <<registry, paused, disk, control, inputs,
                 clean, refused, confirmed, restored>>

\* The bus refuses an event: update_task_status returns the error at once.
PublishFails(p) ==
  LET c == call[p] IN
  /\ c.pc \in {"progress", "announce"} /\ Input
  /\ refused' = refused \cup {c.quest}
  /\ Then(p, Waiting)
  /\ UNCHANGED <<registry, paused, disk, ring, lagged, control,
                 clean, announced, confirmed, restored>>

-----------------------------------------------------------------------------
(* save_checkpoint, called by update_task_status (auto) and by callers.    *)

SaveCheckpoint(p, q) ==
  /\ call[p].pc = "idle" /\ Input
  /\ Then(p, [Waiting EXCEPT !.pc = "clone", !.quest = q])
  /\ UNCHANGED <<registry, paused, disk, ring, lagged, control, ghosts>>

\* The end of a save, with or without an error: an automatic one never fails
\* the update it belongs to.
SaveDone(c) == IF c.auto THEN Finish(c) ELSE Waiting

\* get_quest: the snapshot is taken.
Clone(p) ==
  LET c == call[p] IN
  /\ c.pc = "clone"
  /\ Then(p, IF c.quest \in registered
             THEN [c EXCEPT !.pc = "stamp", !.snap = status[c.quest]] ELSE SaveDone(c))
  /\ UNCHANGED <<registry, paused, disk, ring, lagged, control, inputs, ghosts>>

\* Checkpoint::new: the snapshot gets its id and created_at.
Stamp(p) ==
  /\ call[p].pc = "stamp"
  /\ saves' = saves + 1
  /\ Then(p, [call[p] EXCEPT !.pc = "write", !.at = saves + 1])
  /\ UNCHANGED <<registry, paused, files, ring, lagged, control, inputs, ghosts>>

File(c, ok) == [quest |-> c.quest, at |-> c.at, state |-> c.snap, ok |-> ok]

\* fs::write of the new file.
WriteFile(p) ==
  LET c == call[p] IN
  /\ c.pc = "write"
  /\ files' = files \cup {File(c, TRUE)}
  /\ Then(p, [c EXCEPT !.pc = "prune"])
  /\ UNCHANGED <<registry, paused, saves, ring, lagged, control, inputs, ghosts>>

\* It fails half-way, or the content is refused: no prune, no event.
WriteFileFails(p) ==
  LET c == call[p] IN
  /\ c.pc = "write" /\ Input
  /\ files' \in {files, files \cup {File(c, FALSE)}}
  /\ clean' = FALSE
  /\ Then(p, SaveDone(c))
  /\ UNCHANGED <<registry, paused, saves, ring, lagged, control,
                 announced, refused, confirmed, restored>>

FilesOf(q) == {f \in files : f.quest = q}
\* load_blocking accepts a file only if the hash of its state is right.
Intact(F) == {f \in F : f.ok}
\* What comes after the first keep files, the newest first.
Skip(F, keep) == {f \in F : Cardinality({g \in F : g.at > f.at}) >= keep}

\* Mutant: the files are sorted the other way round.
PruneListOldest(p) ==
  LET c == call[p]
      F == FilesOf(c.quest)
  IN
  /\ c.pc = "prune"
  /\ Then(p, [c EXCEPT !.pc = "unlink",
       !.set = IF Cardinality(F) <= MaxKeep THEN {}
               ELSE {f \in Intact(F) : Cardinality({g \in Intact(F) : g.at < f.at}) >= MaxKeep}])
  /\ UNCHANGED <<registry, paused, disk, ring, lagged, control, inputs, ghosts>>

\* prune_old_blocking: nothing to do while the directory holds few files;
\* otherwise the old ones among those that can be loaded go, ...
PruneList(p) ==
  LET c == call[p]
      F == FilesOf(c.quest)
  IN
  /\ c.pc = "prune"
  /\ Then(p, [c EXCEPT !.pc = "unlink",
       !.set = IF Cardinality(F) <= MaxKeep THEN {} ELSE Skip(Intact(F), MaxKeep)])
  /\ UNCHANGED <<registry, paused, disk, ring, lagged, control, inputs, ghosts>>

\* ... and save returns Ok; CheckpointSaved is published.
Unlink(p) ==
  LET c == call[p] IN
  /\ c.pc = "unlink"
  /\ files' = files \ c.set
  /\ confirmed' = confirmed \cup {<<c.quest, c.at>>}
  /\ Publish(Noise)
  /\ Then(p, SaveDone(c))
  /\ UNCHANGED <<registry, paused, saves, control, inputs,
                 clean, announced, refused, restored>>

-----------------------------------------------------------------------------
(* restore_from_checkpoint.                                                *)

\* load_latest: the directory is listed, ...
RestoreList(p, q) ==
  /\ call[p].pc = "idle" /\ Input /\ FilesOf(q) # {}
  /\ Then(p, [Waiting EXCEPT !.pc = "load", !.quest = q, !.set = FilesOf(q)])
  /\ UNCHANGED <<registry, paused, disk, ring, lagged, control, ghosts>>

\* ... the files that still exist and are intact are loaded, the newest one
\* wins; without one the answer is CheckpointNotFound.
RestoreLoad(p) ==
  LET c == call[p]
      good == Intact(c.set \cap files)
  IN
  /\ c.pc = "load"
  /\ IF good = {} THEN Then(p, Waiting)
     ELSE \E f \in good : /\ \A g \in good : g.at <= f.at
                          /\ Then(p, [c EXCEPT !.pc = "install", !.snap = f.state, !.set = {}])
  /\ UNCHANGED <<registry, paused, disk, ring, lagged, control, inputs, ghosts>>

\* The quest replaces whatever the registry holds.
RestoreInstall(p) ==
  LET c == call[p] IN
  /\ c.pc = "install"
  /\ registered' = registered \cup {c.quest}
  /\ status' = [status EXCEPT ![c.quest] = c.snap]
  /\ restored' = restored \cup {c.quest}
  /\ Publish(Noise)
  /\ Then(p, Waiting)
  /\ UNCHANGED <<created, paused, disk, control, inputs,
                 clean, announced, refused, confirmed>>

-----------------------------------------------------------------------------
(* The control subscriber.                                                 *)

\* Somebody publishes a control request.
Ask(r) ==
  /\ Input
  /\ Publish(r)
  /\ UNCHANGED <<registry, paused, disk, call, control, ghosts>>

\* recv, and handle_control_event up to the first lookup: an error of recv
\* ends the loop, an event that is no request is ignored.
Recv ==
  /\ control.pc = "recv"
  /\ \/ /\ lagged
        /\ lagged' = FALSE
        /\ control' = [control EXCEPT !.pc = "exited"]
        /\ UNCHANGED ring
     \/ /\ ~lagged /\ ring # <<>>
        /\ ring' = Tail(ring)
        /\ control' = IF Head(ring).op = "none" THEN control
                      ELSE [pc |-> "handle", op |-> Head(ring).op, quest |-> Head(ring).quest]
        /\ UNCHANGED lagged
  /\ UNCHANGED <<registry, paused, disk, call, inputs, ghosts>>

\* pause_quest and resume_quest look the quest up first; a missing one is an
\* error that the loop logs.  cancel_quest removes it.
Handle ==
  /\ control.pc = "handle"
  /\ control' = IF control.quest \in registered THEN [control EXCEPT !.pc = "apply"]
                ELSE Listening
  /\ registered' = IF control.op = "cancel" THEN registered \ {control.quest} ELSE registered
  /\ UNCHANGED <<created, status, paused, disk, call, ring, lagged, inputs, ghosts>>

\* Then paused_quests is changed and the outcome is published.
Apply ==
  /\ control.pc = "apply"
  /\ paused' = IF control.op = "pause" THEN paused \cup {control.quest}
               ELSE paused \ {control.quest}
  /\ control' = Listening
  /\ Publish(Noise)
  /\ UNCHANGED <<registry, disk, call, inputs, ghosts>>

\* The process dies and is started again: only the files survive, and a file
\* that was being written may be torn.
Restart ==
  /\ Input
  /\ registered' = {} /\ paused' = {}
  /\ \E W \in SUBSET {p \in Caller : call[p].pc = "write"} :
       files' = files \cup {File(call[p], FALSE) : p \in W}
  /\ call' = [p \in Caller |-> Waiting]
  /\ clean' = FALSE
  /\ ring' = <<>> /\ lagged' = FALSE /\ control' = Listening
  /\ UNCHANGED <<created, status, saves, announced, refused, confirmed, restored>>

CallStep(p) ==
  \/ Progress(p) \/ Announce(p) \/ PublishFails(p)
  \/ Clone(p) \/ Stamp(p) \/ WriteFile(p) \/ WriteFileFails(p) \/ PruneList(p) \/ Unlink(p)
  \/ RestoreLoad(p) \/ RestoreInstall(p)

QuestNext ==
  \/ \E p \in Caller :
       \/ \E q \in Quest : CreateQuest(p, q) \/ SaveCheckpoint(p, q) \/ RestoreList(p, q)
       \/ \E q \in Quest, s \in Step, new \in Status : UpdateTask(p, q, s, new)
       \/ CallStep(p)
  \/ \E r \in Request : Ask(r)
  \/ Recv \/ Handle \/ Apply \/ Restart

QuestSpec == QuestInit /\ [][QuestNext]_questVars

-----------------------------------------------------------------------------
(* Properties.                                                             *)

\* Every variable has its type; the ring is bounded, a file of a save has the
\* number of that save, and two files never share one.
QuestTypeOK ==
  /\ registered \subseteq created /\ created \subseteq Quest
  /\ status \in [Quest -> [Step -> Status]]
  /\ Len(ring) <= RingSize
  /\ \A f \in files : f.at \in 1 .. saves
  /\ \A f, g \in files : f.at = g.at => f = g
  /\ \A p \in Caller : call[p].pc \in {"write", "prune", "unlink"} => call[p].at \in 1 .. saves
  /\ control.pc \in {"recv", "handle", "apply", "exited"}

\* engine.rs save_checkpoint, checkpoint.rs save: once a save has returned Ok
\* there is always an intact file of that quest that is at least as new, through
\* other saves and their pruning, failed and torn writes, and restarts.
CheckpointKept ==
  \A x \in confirmed : \E f \in Intact(FilesOf(x[1])) : f.at >= x[2]

\* checkpoint.rs prune_old: saves that overlap do not leave more than max_keep
\* files behind, as long as no write failed and no process died half-way.
DirectoryBounded ==
  \A q \in Quest :
    clean
      /\ (\A p \in Caller : call[p].quest = q => call[p].pc \notin {"prune", "unlink"})
      => Cardinality(FilesOf(q)) <= MaxKeep

\* engine.rs update_task_status: when the last task of a quest has come to its
\* end, however the callers interleaved, ExecutionCompleted has been published,
\* a caller is about to publish it, or a caller got an error and may retry.
CompletionReported ==
  \A q \in registered \ (restored \cup announced \cup refused) :
    AllTerminal(status[q]) =>
      \E p \in Caller : call[p].quest = q /\ (call[p].all \/ call[p].pc = "announce")

\* engine.rs cancel_quest: between two requests every paused quest is one that
\* is registered, so that a resume can reach it.
PausedIsRegistered == control.pc \in {"recv", "exited"} => paused \subseteq registered
=============================================================================
