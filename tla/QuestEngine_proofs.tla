------------------------- MODULE QuestEngine_proofs -------------------------
(***************************************************************************)
(* Proofs about the quest engine, for any number of quests, tasks, callers *)
(* and failures: confirmed checkpoints survive pruning and restarts, the   *)
(* directory stays within max_keep, the end of a quest is reported, and    *)
(* only registered quests are paused.                                      *)
(***************************************************************************)
EXTENDS QuestEngine, TaskDag, Ordering_proofs, SequenceTheorems

Steps    == [Step -> Status]
AnyQuest == Quest \cup {Waiting.quest}
FileType == [quest : AnyQuest, at : Nat, state : Steps, ok : BOOLEAN]
CallPC   == {"idle", "progress", "announce", "clone", "stamp", "write", "prune", "unlink",
             "load", "install"}
CallType == [pc : CallPC, quest : AnyQuest, count : Nat, all : BOOLEAN, auto : BOOLEAN,
             done : BOOLEAN, snap : Steps, at : Nat, set : SUBSET FileType]
Ops      == {"pause", "resume", "cancel", "none"}
Message  == [op : Ops, quest : AnyQuest]
Control  == [pc : {"recv", "handle", "apply", "exited"}, op : Ops, quest : AnyQuest]

RegistryOK == registered \subseteq created /\ created \subseteq Quest /\ status \in [Quest -> Steps]
DiskOK     == /\ saves \in Nat /\ files \subseteq FileType
              /\ \A f \in files : f.at \in 1 .. saves /\ f.quest \in created
CallsOK    == call \in [Caller -> CallType]
RingOK     == ring \in Seq(Message) /\ Len(ring) <= RingSize
ControlOK  == control \in Control

Saving == {"clone", "stamp", "write", "prune", "unlink"}

\* A call with a file at hand has a stamp, one with a snapshot is about a
\* quest that exists, and one that saw every task at its end still says so.
CallGood(c) ==
  /\ c.pc \in {"write", "prune", "unlink"} => c.at \in 1 .. saves
  /\ c.pc \in {"stamp", "write", "prune", "unlink", "load", "install"} => c.quest \in created
  /\ c.all => c.pc = "progress" \/ (c.auto /\ c.pc \in Saving)

CallsGood == \A p \in Caller : CallGood(call[p])

QTypes == RegistryOK /\ DiskOK /\ CallsOK /\ RingOK /\ ControlOK

-----------------------------------------------------------------------------

LEMMA WaitingType ==
  /\ Waiting \in CallType /\ Waiting.pc = "idle" /\ Waiting.all = FALSE /\ Waiting.auto = FALSE
  /\ Waiting.set = {} /\ NewSteps \in Steps
<1>1. NewSteps \in Steps
  BY DEF NewSteps, Steps, Status
<1>2. QED
  BY <1>1 DEF Waiting, CallType, CallPC, AnyQuest

LEMMA ListeningType ==
  /\ Listening \in Control /\ Listening.pc = "recv" /\ Listening.op = "none"
  /\ Noise \in Message /\ Request \subseteq Message
BY DEF Listening, Control, Noise, Message, Request, Ops, AnyQuest, Waiting

LEMMA FinishType ==
  ASSUME NEW c \in CallType
  PROVE  /\ Finish(c) \in CallType /\ Finish(c).pc \in {"idle", "announce"}
         /\ Finish(c).all = FALSE
         /\ c.all => Finish(c).pc = "announce" /\ Finish(c).quest = c.quest
         /\ SaveDone(c) \in CallType /\ SaveDone(c).pc \in {"idle", "announce"}
         /\ SaveDone(c).all = FALSE
         /\ c.all /\ c.auto => SaveDone(c).pc = "announce" /\ SaveDone(c).quest = c.quest
<1> DEFINE r == [Waiting EXCEPT !.pc = "announce", !.quest = c.quest]
<1>1. /\ r \in CallType /\ r.pc = "announce" /\ r.all = FALSE /\ r.quest = c.quest
  BY WaitingType DEF CallType, CallPC
<1> HIDE DEF r
<1>2. Finish(c) = IF c.all THEN r ELSE Waiting
  BY DEF Finish, r
<1>3. /\ Finish(c) \in CallType /\ Finish(c).pc \in {"idle", "announce"}
      /\ Finish(c).all = FALSE
      /\ c.all => Finish(c).pc = "announce" /\ Finish(c).quest = c.quest
  BY <1>1, <1>2, WaitingType
<1>4. QED
  BY <1>3, WaitingType DEF SaveDone

LEMMA PublishRing ==
  ASSUME RingOK, NEW e \in Message, Publish(e)
  PROVE  RingOK'
<1>1. RingSize \in Nat \ {0} /\ ring \in Seq(Message) /\ Len(ring) \in Nat /\ Len(ring) <= RingSize
  BY QuestAssumption DEF RingOK
<1>2. CASE Len(ring) < RingSize
  <2>1. ring' = Append(ring, e)
    BY <1>2 DEF Publish
  <2>2. QED
    BY <1>1, <1>2, <2>1 DEF RingOK
<1>3. CASE ~ (Len(ring) < RingSize)
  <2>1. ring' = Append(Tail(ring), e) /\ ring # <<>>
    BY <1>1, <1>3 DEF Publish
  <2>2. Tail(ring) \in Seq(Message) /\ Len(Tail(ring)) = Len(ring) - 1
    BY <1>1, <2>1
  <2>3. QED
    BY <1>1, <2>1, <2>2 DEF RingOK
<1>4. QED
  BY <1>2, <1>3

\* What a step of a caller does to its own record.
Becomes(p, r) == r \in CallType /\ call' = [call EXCEPT ![p] = r]

LEMMA CallOthers ==
  ASSUME CallsOK, NEW p \in Caller, NEW r, Becomes(p, r)
  PROVE  CallsOK' /\ \A o \in Caller : call'[o] = IF o = p THEN r ELSE call[o]
BY DEF CallsOK, Becomes

\* The steps of a caller, by what becomes of its record and of the rest.
LEMMA CreateEffect ==
  ASSUME QTypes, NEW p \in Caller, NEW q \in Quest, CreateQuest(p, q)
  PROVE  /\ created' = created \cup {q} /\ registered' = registered \cup {q} /\ q \notin created
         /\ status' = [status EXCEPT ![q] = NewSteps]
         /\ RingOK' /\ UNCHANGED <<paused, files, saves, call, control, clean, announced, refused,
                                   confirmed, restored>>
BY PublishRing, ListeningType DEF CreateQuest, QTypes, disk, ghosts

LEMMA UpdateEffect ==
  ASSUME QTypes, NEW p \in Caller, NEW q \in Quest, NEW s \in Step, NEW new \in Status,
         UpdateTask(p, q, s, new)
  PROVE  /\ UNCHANGED <<created, registered, paused, files, saves, ring, lagged, control, clean,
                        announced, refused, confirmed, restored>>
         /\ q \in registered /\ IsValidTransition(status[q][s], new)
         /\ status' = [status EXCEPT ![q][s] = new] /\ status' \in [Quest -> Steps]
         /\ call[p].pc = "idle"
         /\ \E r : Becomes(p, r) /\ r.pc = "progress" /\ r.quest = q
                   /\ r.all = AllTerminal(status'[q])
<1>1. status' = [status EXCEPT ![q][s] = new] /\ status \in [Quest -> Steps]
  BY DEF UpdateTask, QTypes, RegistryOK
<1>2. status' \in [Quest -> Steps]
  BY <1>1 DEF Steps
<1> DEFINE n == Completed(status'[q])
           a == AllTerminal(status'[q])
           d == new = "completed"
           r == [Waiting EXCEPT !.pc = "progress", !.quest = q, !.done = d, !.count = n, !.all = a]
<1>3. n \in Nat
  <2>1. IsFiniteSet({t \in Step : status'[q][t] = "completed"})
    BY QuestAssumption, FS_Subset
  <2>2. QED
    BY <2>1, FS_CardinalityType DEF Completed
<1>4. a \in BOOLEAN /\ d \in BOOLEAN
  BY DEF AllTerminal
<1>5. call' = [call EXCEPT ![p] = r]
  BY DEF UpdateTask, Then
<1> HIDE DEF n, a, d
<1>6. r \in CallType /\ r.pc = "progress" /\ r.quest = q /\ r.all = a
  BY <1>3, <1>4, WaitingType DEF CallType, CallPC, AnyQuest
<1> HIDE DEF r
<1>7. Becomes(p, r)
  BY <1>5, <1>6 DEF Becomes
<1>8. QED
  BY <1>1, <1>2, <1>6, <1>7 DEF UpdateTask, a, disk, ghosts

LEMMA ProgressEffect ==
  ASSUME QTypes, NEW p \in Caller, Progress(p)
  PROVE  /\ UNCHANGED <<created, registered, status, paused, files, saves, control, clean,
                        announced, refused, confirmed, restored>>
         /\ RingOK' /\ call[p].pc = "progress"
         /\ \E r : /\ Becomes(p, r)
                   /\ \/ r.pc = "clone" /\ r.quest = call[p].quest /\ r.all = call[p].all
                         /\ r.auto = TRUE
                      \/ r = Finish(call[p])
<1> DEFINE c == call[p]
           k == [c EXCEPT !.pc = "clone", !.auto = TRUE]
           r == IF c.done /\ Interval > 0 /\ c.count > 0 /\ c.count % Interval = 0
                THEN k ELSE Finish(c)
<1>1. c \in CallType
  BY DEF QTypes, CallsOK
<1>2. k \in CallType /\ k.pc = "clone" /\ k.quest = c.quest /\ k.all = c.all /\ k.auto = TRUE
  BY <1>1 DEF CallType, CallPC
<1>3. call' = [call EXCEPT ![p] = r]
  BY DEF Progress, Then
<1> HIDE DEF k
<1>4. r \in CallType /\ (r = k \/ r = Finish(c))
  BY <1>1, <1>2, FinishType
<1> HIDE DEF r
<1>5. Becomes(p, r)
  BY <1>3, <1>4 DEF Becomes
<1>6. RingOK'
  BY PublishRing, ListeningType DEF Progress, QTypes
<1>7. QED
  BY <1>2, <1>4, <1>5, <1>6 DEF Progress, registry, disk, ghosts

LEMMA AnnounceEffect ==
  ASSUME QTypes, NEW p \in Caller, Announce(p)
  PROVE  /\ UNCHANGED <<created, registered, status, paused, files, saves, control, clean,
                        refused, confirmed, restored>>
         /\ announced' = announced \cup {call[p].quest}
         /\ RingOK' /\ call[p].pc = "announce" /\ Becomes(p, Waiting)
BY PublishRing, ListeningType, WaitingType
   DEF Announce, QTypes, registry, disk, Then, Becomes

LEMMA PublishFailsEffect ==
  ASSUME QTypes, NEW p \in Caller, PublishFails(p)
  PROVE  /\ UNCHANGED <<created, registered, status, paused, files, saves, ring, control, clean,
                        announced, confirmed, restored>>
         /\ refused' = refused \cup {call[p].quest}
         /\ call[p].pc \in {"progress", "announce"} /\ Becomes(p, Waiting)
BY WaitingType DEF PublishFails, registry, disk, Then, Becomes

LEMMA SaveEffect ==
  ASSUME QTypes, NEW p \in Caller, NEW q \in Quest, SaveCheckpoint(p, q)
  PROVE  /\ UNCHANGED <<created, registered, status, paused, files, saves, ring, control, clean,
                        announced, refused, confirmed, restored>>
         /\ call[p].pc = "idle"
         /\ \E r : Becomes(p, r) /\ r.pc = "clone" /\ r.all = FALSE
<1> DEFINE r == [Waiting EXCEPT !.pc = "clone", !.quest = q]
<1>1. r \in CallType /\ r.pc = "clone" /\ r.all = FALSE
  BY WaitingType DEF CallType, CallPC, AnyQuest
<1>2. call' = [call EXCEPT ![p] = r]
  BY DEF SaveCheckpoint, Then
<1> HIDE DEF r
<1>3. Becomes(p, r)
  BY <1>1, <1>2 DEF Becomes
<1>4. QED
  BY <1>1, <1>3 DEF SaveCheckpoint, registry, disk, ghosts

LEMMA CloneEffect ==
  ASSUME QTypes, NEW p \in Caller, Clone(p)
  PROVE  /\ UNCHANGED <<created, registered, status, paused, files, saves, ring, control, clean,
                        announced, refused, confirmed, restored>>
         /\ call[p].pc = "clone"
         /\ \E r : /\ Becomes(p, r)
                   /\ \/ r.pc = "stamp" /\ r.quest = call[p].quest /\ r.all = call[p].all
                         /\ r.auto = call[p].auto /\ r.quest \in registered
                      \/ r = SaveDone(call[p])
<1> DEFINE c == call[p]
           k == [c EXCEPT !.pc = "stamp", !.snap = status[c.quest]]
           r == IF c.quest \in registered THEN k ELSE SaveDone(c)
<1>1. c \in CallType
  BY DEF QTypes, CallsOK
<1>2. ASSUME c.quest \in registered
      PROVE  k \in CallType /\ k.pc = "stamp" /\ k.quest = c.quest /\ k.all = c.all /\ k.auto = c.auto
  <2>1. status[c.quest] \in Steps
    BY <1>2 DEF QTypes, RegistryOK
  <2>2. QED
    BY <1>1, <2>1 DEF CallType, CallPC
<1>3. call' = [call EXCEPT ![p] = r]
  BY DEF Clone, Then
<1> HIDE DEF k
<1>4. r \in CallType /\ ((c.quest \in registered /\ r = k) \/ r = SaveDone(c))
  BY <1>1, <1>2, FinishType
<1> HIDE DEF r
<1>5. Becomes(p, r)
  BY <1>3, <1>4 DEF Becomes
<1>6. QED
  BY <1>2, <1>4, <1>5 DEF Clone, registry, disk, ghosts

LEMMA StampEffect ==
  ASSUME QTypes, NEW p \in Caller, Stamp(p)
  PROVE  /\ UNCHANGED <<created, registered, status, paused, files, ring, control, clean,
                        announced, refused, confirmed, restored>>
         /\ saves' = saves + 1 /\ call[p].pc = "stamp"
         /\ \E r : /\ Becomes(p, r) /\ r.pc = "write" /\ r.at = saves + 1
                   /\ r.quest = call[p].quest /\ r.all = call[p].all /\ r.auto = call[p].auto
<1> DEFINE c == call[p]
           n == saves + 1
           r == [c EXCEPT !.pc = "write", !.at = n]
<1>1. c \in CallType /\ n \in Nat
  BY DEF QTypes, CallsOK, DiskOK
<1>2. call' = [call EXCEPT ![p] = r]
  BY DEF Stamp, Then
<1> HIDE DEF n
<1>3. /\ r \in CallType /\ r.pc = "write" /\ r.at = n /\ r.quest = c.quest /\ r.all = c.all
      /\ r.auto = c.auto
  BY <1>1 DEF CallType, CallPC
<1> HIDE DEF r
<1>4. Becomes(p, r)
  BY <1>2, <1>3 DEF Becomes
<1>5. QED
  BY <1>3, <1>4 DEF Stamp, registry, ghosts, n

LEMMA FileIs ==
  ASSUME NEW c \in CallType, NEW b \in BOOLEAN
  PROVE  /\ File(c, b) \in FileType /\ File(c, b).quest = c.quest /\ File(c, b).at = c.at
         /\ File(c, b).ok = b
BY DEF File, CallType, FileType

LEMMA WriteEffect ==
  ASSUME QTypes, NEW p \in Caller, WriteFile(p)
  PROVE  /\ UNCHANGED <<created, registered, status, paused, saves, ring, control, clean,
                        announced, refused, confirmed, restored>>
         /\ files' = files \cup {File(call[p], TRUE)} /\ call[p].pc = "write"
         /\ \E r : /\ Becomes(p, r) /\ r.pc = "prune" /\ r.at = call[p].at
                   /\ r.quest = call[p].quest /\ r.all = call[p].all /\ r.auto = call[p].auto
<1> DEFINE c == call[p]
           r == [c EXCEPT !.pc = "prune"]
<1>1. c \in CallType
  BY DEF QTypes, CallsOK
<1>2. call' = [call EXCEPT ![p] = r]
  BY DEF WriteFile, Then
<1>3. /\ r \in CallType /\ r.pc = "prune" /\ r.at = c.at /\ r.quest = c.quest /\ r.all = c.all
      /\ r.auto = c.auto
  BY <1>1 DEF CallType, CallPC
<1> HIDE DEF r
<1>4. Becomes(p, r)
  BY <1>2, <1>3 DEF Becomes
<1>5. QED
  BY <1>3, <1>4 DEF WriteFile, registry, ghosts

LEMMA WriteFailsEffect ==
  ASSUME QTypes, NEW p \in Caller, WriteFileFails(p)
  PROVE  /\ UNCHANGED <<created, registered, status, paused, saves, ring, control,
                        announced, refused, confirmed, restored>>
         /\ files' \in {files, files \cup {File(call[p], FALSE)}} /\ call[p].pc = "write"
         /\ clean' = FALSE /\ Becomes(p, SaveDone(call[p]))
<1>1. call[p] \in CallType
  BY DEF QTypes, CallsOK
<1>2. QED
  BY <1>1, FinishType DEF WriteFileFails, registry, Then, Becomes

LEMMA PruneEffect ==
  ASSUME QTypes, NEW p \in Caller, PruneList(p)
  PROVE  LET F == FilesOf(call[p].quest)
             S == IF Cardinality(F) <= MaxKeep THEN {} ELSE Skip(Intact(F), MaxKeep)
         IN /\ UNCHANGED <<created, registered, status, paused, files, saves, ring, control, clean,
                           announced, refused, confirmed, restored>>
            /\ call[p].pc = "prune" /\ S \subseteq FilesOf(call[p].quest)
            /\ \E r : /\ Becomes(p, r) /\ r.pc = "unlink" /\ r.set = S /\ r.at = call[p].at
                      /\ r.quest = call[p].quest /\ r.all = call[p].all /\ r.auto = call[p].auto
<1> DEFINE c == call[p]
           F == FilesOf(call[p].quest)
           S == IF Cardinality(F) <= MaxKeep THEN {} ELSE Skip(Intact(F), MaxKeep)
           r == [c EXCEPT !.pc = "unlink", !.set = S]
<1>1. c \in CallType
  BY DEF QTypes, CallsOK
<1>2. S \subseteq F /\ F \subseteq files
  BY DEF Skip, Intact, FilesOf
<1>3. S \in SUBSET FileType
  BY <1>2 DEF QTypes, DiskOK
<1>4. call' = [call EXCEPT ![p] = r]
  BY DEF PruneList, Then
<1> HIDE DEF S
<1>5. /\ r \in CallType /\ r.pc = "unlink" /\ r.set = S /\ r.at = c.at /\ r.quest = c.quest
      /\ r.all = c.all /\ r.auto = c.auto
  BY <1>1, <1>3 DEF CallType, CallPC
<1> HIDE DEF r
<1>6. Becomes(p, r)
  BY <1>4, <1>5 DEF Becomes
<1>7. QED
  BY <1>2, <1>5, <1>6 DEF PruneList, registry, disk, ghosts, S

LEMMA UnlinkEffect ==
  ASSUME QTypes, NEW p \in Caller, Unlink(p)
  PROVE  /\ UNCHANGED <<created, registered, status, paused, saves, control, clean,
                        announced, refused, restored>>
         /\ files' = files \ call[p].set /\ call[p].pc = "unlink" /\ RingOK'
         /\ confirmed' = confirmed \cup {<<call[p].quest, call[p].at>>}
         /\ Becomes(p, SaveDone(call[p]))
<1>1. call[p] \in CallType
  BY DEF QTypes, CallsOK
<1>2. RingOK'
  BY PublishRing, ListeningType DEF Unlink, QTypes
<1>3. QED
  BY <1>1, <1>2, FinishType DEF Unlink, registry, Then, Becomes

LEMMA RestoreListEffect ==
  ASSUME QTypes, NEW p \in Caller, NEW q \in Quest, RestoreList(p, q)
  PROVE  /\ UNCHANGED <<created, registered, status, paused, files, saves, ring, control, clean,
                        announced, refused, confirmed, restored>>
         /\ call[p].pc = "idle"
         /\ \E r : Becomes(p, r) /\ r.pc = "load" /\ r.all = FALSE /\ r.quest \in created
<1> DEFINE F == FilesOf(q)
           r == [Waiting EXCEPT !.pc = "load", !.quest = q, !.set = F]
<1>1. F \subseteq files /\ F \in SUBSET FileType /\ q \in created
  BY DEF FilesOf, QTypes, DiskOK, RestoreList
<1>2. call' = [call EXCEPT ![p] = r]
  BY DEF RestoreList, Then
<1> HIDE DEF F
<1>3. r \in CallType /\ r.pc = "load" /\ r.all = FALSE /\ r.quest = q
  BY <1>1, WaitingType DEF CallType, CallPC, AnyQuest
<1> HIDE DEF r
<1>4. Becomes(p, r)
  BY <1>2, <1>3 DEF Becomes
<1>5. QED
  BY <1>1, <1>3, <1>4 DEF RestoreList, registry, disk, ghosts

LEMMA RestoreLoadEffect ==
  ASSUME QTypes, CallsGood, NEW p \in Caller, RestoreLoad(p)
  PROVE  /\ UNCHANGED <<created, registered, status, paused, files, saves, ring, control, clean,
                        announced, refused, confirmed, restored>>
         /\ call[p].pc = "load"
         /\ \E r : /\ Becomes(p, r)
                   /\ \/ r = Waiting
                      \/ r.pc = "install" /\ r.all = FALSE /\ r.quest = call[p].quest
<1> DEFINE c == call[p]
<1>1. c \in CallType /\ c.pc = "load" /\ c.all = FALSE
  BY DEF QTypes, CallsOK, CallsGood, CallGood, RestoreLoad, CallType, Saving
<1>2. CASE Then(p, Waiting)
  BY <1>1, <1>2, WaitingType DEF RestoreLoad, Then, Becomes, registry, disk, ghosts
<1>3. ASSUME NEW f \in files, Then(p, [c EXCEPT !.pc = "install", !.snap = f.state, !.set = {}])
      PROVE  \E r : Becomes(p, r) /\ r.pc = "install" /\ r.all = FALSE /\ r.quest = c.quest
  <2> DEFINE r == [c EXCEPT !.pc = "install", !.snap = f.state, !.set = {}]
  <2>1. f.state \in Steps
    BY DEF QTypes, DiskOK, FileType
  <2>2. r \in CallType /\ r.pc = "install" /\ r.all = FALSE /\ r.quest = c.quest
    BY <1>1, <2>1 DEF CallType, CallPC
  <2>3. call' = [call EXCEPT ![p] = r]
    BY <1>3 DEF Then
  <2> HIDE DEF r
  <2>4. QED
    BY <2>2, <2>3 DEF Becomes
<1>4. QED
  BY <1>1, <1>2, <1>3 DEF RestoreLoad, Intact, registry, disk, ghosts

LEMMA RestoreInstallEffect ==
  ASSUME QTypes, CallsGood, NEW p \in Caller, RestoreInstall(p)
  PROVE  /\ UNCHANGED <<created, paused, files, saves, control, clean,
                        announced, refused, confirmed>>
         /\ registered' = registered \cup {call[p].quest} /\ call[p].quest \in created
         /\ status' = [status EXCEPT ![call[p].quest] = call[p].snap] /\ RegistryOK'
         /\ restored' = restored \cup {call[p].quest} /\ call[p].pc = "install"
         /\ RingOK' /\ Becomes(p, Waiting)
<1>1. call[p] \in CallType /\ call[p].pc = "install"
  BY DEF QTypes, CallsOK, RestoreInstall
<1>2. call[p].quest \in created /\ call[p].snap \in Steps
  BY <1>1 DEF CallsGood, CallGood, CallType
<1>3. RingOK'
  BY PublishRing, ListeningType DEF RestoreInstall, QTypes
<1>4. RegistryOK'
  BY <1>2 DEF RestoreInstall, QTypes, RegistryOK
<1>5. QED
  BY <1>1, <1>2, <1>3, <1>4, WaitingType DEF RestoreInstall, Then, Becomes, disk

-----------------------------------------------------------------------------
(* Types.                                                                  *)

LEMMA QInit == QuestInit => QTypes /\ CallsGood
<1> SUFFICES ASSUME QuestInit PROVE QTypes /\ CallsGood
  OBVIOUS
<1>1. RegistryOK /\ DiskOK
  BY WaitingType DEF QuestInit, RegistryOK, DiskOK
<1>2. CallsOK /\ CallsGood
  BY WaitingType DEF QuestInit, CallsOK, CallsGood, CallGood
<1>3. RingOK /\ ControlOK
  BY QuestAssumption, ListeningType DEF QuestInit, RingOK, ControlOK
<1>4. QED
  BY <1>1, <1>2, <1>3 DEF QTypes

\* A step of a caller that keeps the registry and the control task.
LEMMA CallerKeeps ==
  ASSUME QTypes, CallsGood, NEW p \in Caller, NEW r, Becomes(p, r), CallGood(r)',
         UNCHANGED <<created, control>>, RegistryOK', DiskOK', RingOK', saves <= saves'
  PROVE  QTypes' /\ CallsGood'
<1>1. CallsOK' /\ \A o \in Caller : call'[o] = IF o = p THEN r ELSE call[o]
  BY CallOthers DEF QTypes
<1>2. saves \in Nat /\ saves' \in Nat
  BY DEF QTypes, DiskOK
<1>3. \A o \in Caller : CallGood(call[o])'
  BY <1>1, <1>2 DEF CallsGood, CallGood
<1>4. ControlOK'
  BY DEF QTypes, ControlOK
<1>5. QED
  BY <1>1, <1>3, <1>4 DEF QTypes, CallsGood

\* ... and the files too.
LEMMA CallerQuiet ==
  ASSUME QTypes, CallsGood, NEW p \in Caller, NEW r, Becomes(p, r), CallGood(r),
         UNCHANGED <<created, registered, status, files, saves, control>>, RingOK'
  PROVE  QTypes' /\ CallsGood'
<1>1. RegistryOK' /\ DiskOK'
  BY DEF QTypes, RegistryOK, DiskOK
<1>2. CallGood(r)' /\ saves <= saves'
  BY DEF CallGood, QTypes, DiskOK
<1>3. QED
  BY <1>1, <1>2, CallerKeeps

LEMMA RingSame == RingOK /\ ring' = ring => RingOK'
BY DEF RingOK

OtherStep == (\E r \in Request : Ask(r)) \/ Recv \/ Handle \/ Apply \/ UNCHANGED questVars

LEMMA OtherTypes ==
  ASSUME QTypes, CallsGood, OtherStep
  PROVE  /\ QTypes' /\ CallsGood' /\ registered' \subseteq registered
         /\ UNCHANGED <<created, status, files, saves, call, clean, announced, refused, confirmed,
                        restored>>
<1>1. /\ registered' \subseteq registered
      /\ UNCHANGED <<created, status, files, saves, call, clean, announced, refused, confirmed,
                     restored>>
  BY DEF OtherStep, Ask, Recv, Handle, Apply, questVars, registry, disk, ghosts
<1>2. RegistryOK' /\ DiskOK' /\ CallsOK' /\ CallsGood'
  BY <1>1 DEF QTypes, RegistryOK, DiskOK, CallsOK, CallsGood, CallGood
<1>3. RingOK' /\ ControlOK'
  <2>1. ASSUME NEW r \in Request, Ask(r) PROVE RingOK' /\ ControlOK'
    BY <2>1, PublishRing, ListeningType DEF Ask, QTypes, ControlOK
  <2>2. CASE Recv
    <3>1. ring \in Seq(Message) /\ control \in Control
      BY DEF QTypes, RingOK, ControlOK
    <3>2. CASE ring' = ring /\ control' = [control EXCEPT !.pc = "exited"]
      BY <3>1, <3>2 DEF RingOK, ControlOK, Control, QTypes
    <3>3. CASE /\ ring # <<>> /\ ring' = Tail(ring)
               /\ control' = IF Head(ring).op = "none" THEN control
                             ELSE [pc |-> "handle", op |-> Head(ring).op, quest |-> Head(ring).quest]
      <4>1. Head(ring) \in Message /\ Tail(ring) \in Seq(Message) /\ Len(Tail(ring)) = Len(ring) - 1
        BY <3>1, <3>3
      <4>2. RingOK'
        BY <3>1, <3>3, <4>1, QuestAssumption DEF QTypes, RingOK
      <4>3. ControlOK'
        BY <3>1, <3>3, <4>1 DEF ControlOK, Control, Message
      <4>4. QED
        BY <4>2, <4>3
    <3>4. QED
      BY <2>2, <3>2, <3>3 DEF Recv
  <2>3. CASE Handle
    <3>1. control \in Control
      BY DEF QTypes, ControlOK
    <3>2. control' \in Control
      BY <2>3, <3>1, ListeningType DEF Handle, Control
    <3>3. QED
      BY <2>3, <3>2, RingSame DEF Handle, ControlOK, QTypes
  <2>4. CASE Apply
    BY <2>4, PublishRing, ListeningType DEF Apply, ControlOK, QTypes
  <2>5. CASE UNCHANGED questVars
    BY <2>5, RingSame DEF questVars, ControlOK, QTypes
  <2>6. QED
    BY <2>1, <2>2, <2>3, <2>4, <2>5 DEF OtherStep
<1>4. QED
  BY <1>1, <1>2, <1>3 DEF QTypes

LEMMA RestartTypes ==
  ASSUME QTypes, CallsGood, Restart
  PROVE  /\ QTypes' /\ CallsGood'
         /\ call' = [p \in Caller |-> Waiting] /\ registered' = {} /\ paused' = {} /\ clean' = FALSE
         /\ control' = Listening
         /\ \A f \in files' : f \in files \/ \E p \in Caller : call[p].pc = "write" /\ f = File(call[p], FALSE)
         /\ files \subseteq files'
         /\ UNCHANGED <<created, status, saves, announced, refused, confirmed, restored>>
<1>1. /\ call' = [p \in Caller |-> Waiting] /\ registered' = {} /\ paused' = {} /\ clean' = FALSE
      /\ control' = Listening /\ ring' = <<>>
      /\ UNCHANGED <<created, status, saves, announced, refused, confirmed, restored>>
  BY DEF Restart
<1>2. /\ \A f \in files' : f \in files \/ \E p \in Caller : call[p].pc = "write" /\ f = File(call[p], FALSE)
      /\ files \subseteq files'
  BY DEF Restart
<1>3. RegistryOK'
  BY <1>1 DEF QTypes, RegistryOK
<1>4. DiskOK'
  <2>1. ASSUME NEW p \in Caller, call[p].pc = "write"
        PROVE  LET f == File(call[p], FALSE) IN
               f \in FileType /\ f.at \in 1 .. saves /\ f.quest \in created
    BY <2>1, FileIs DEF CallsGood, CallGood, QTypes, CallsOK
  <2>2. \A f \in files' : f \in FileType /\ f.at \in 1 .. saves /\ f.quest \in created
    BY <1>2, <2>1 DEF QTypes, DiskOK
  <2>3. QED
    BY <1>1, <2>2 DEF QTypes, DiskOK
<1>5. CallsOK' /\ CallsGood'
  BY <1>1, WaitingType DEF CallsOK, CallsGood, CallGood
<1>6. RingOK' /\ ControlOK'
  BY <1>1, ListeningType, QuestAssumption DEF RingOK, ControlOK
<1>7. QED
  BY <1>1, <1>2, <1>3, <1>4, <1>5, <1>6 DEF QTypes

LEMMA FileTypes ==
  ASSUME QTypes, CallsGood, NEW p \in Caller, call[p].pc = "write", NEW b \in BOOLEAN,
         UNCHANGED <<created, saves>>, files' \subseteq files \cup {File(call[p], b)}
  PROVE  DiskOK'
<1>1. /\ File(call[p], b) \in FileType /\ File(call[p], b).at \in 1 .. saves
      /\ File(call[p], b).quest \in created
  BY FileIs DEF CallsGood, CallGood, QTypes, CallsOK
<1>2. QED
  BY <1>1 DEF QTypes, DiskOK

CallerStep(p) ==
  \/ \E q \in Quest : CreateQuest(p, q) \/ SaveCheckpoint(p, q) \/ RestoreList(p, q)
  \/ \E q \in Quest, s \in Step, new \in Status : UpdateTask(p, q, s, new)
  \/ CallStep(p)

LEMMA CallerTypes ==
  ASSUME QTypes, CallsGood, NEW p \in Caller, CallerStep(p)
  PROVE  QTypes' /\ CallsGood'
<1>0. call[p] \in CallType /\ CallGood(call[p]) /\ RingOK /\ saves \in Nat /\ CallsOK
  BY DEF QTypes, CallsOK, CallsGood, DiskOK
<1>w. CallGood(Waiting) /\ CallGood(SaveDone(call[p])) /\ CallGood(Finish(call[p]))
  BY <1>0, FinishType, WaitingType DEF CallGood
<1>1. ASSUME NEW q \in Quest, CreateQuest(p, q) PROVE QTypes' /\ CallsGood'
  <2>1. /\ created' = created \cup {q} /\ registered' = registered \cup {q}
        /\ status' = [status EXCEPT ![q] = NewSteps]
        /\ RingOK' /\ UNCHANGED <<files, saves, call, control>>
    BY <1>1, CreateEffect
  <2>2. RegistryOK'
    BY <2>1, WaitingType DEF QTypes, RegistryOK
  <2>3. DiskOK' /\ CallsOK' /\ CallsGood' /\ ControlOK'
    BY <2>1 DEF QTypes, DiskOK, CallsOK, CallsGood, CallGood, ControlOK
  <2>4. QED
    BY <2>1, <2>2, <2>3 DEF QTypes
<1>2. ASSUME NEW q \in Quest, SaveCheckpoint(p, q) PROVE QTypes' /\ CallsGood'
  <2>1. PICK r : Becomes(p, r) /\ r.pc = "clone" /\ r.all = FALSE
    BY <1>2, SaveEffect
  <2>2. CallGood(r)
    BY <2>1 DEF CallGood
  <2>3. UNCHANGED <<created, registered, status, files, saves, control, ring>>
    BY <1>2, SaveEffect
  <2>4. QED
    BY <1>0, <2>1, <2>2, <2>3, RingSame, CallerQuiet
<1>3. ASSUME NEW q \in Quest, RestoreList(p, q) PROVE QTypes' /\ CallsGood'
  <2>1. PICK r : Becomes(p, r) /\ r.pc = "load" /\ r.all = FALSE /\ r.quest \in created
    BY <1>3, RestoreListEffect
  <2>2. CallGood(r)
    BY <2>1 DEF CallGood
  <2>3. UNCHANGED <<created, registered, status, files, saves, control, ring>>
    BY <1>3, RestoreListEffect
  <2>4. QED
    BY <1>0, <2>1, <2>2, <2>3, RingSame, CallerQuiet
<1>4. ASSUME NEW q \in Quest, NEW s \in Step, NEW new \in Status, UpdateTask(p, q, s, new)
      PROVE  QTypes' /\ CallsGood'
  <2>1. PICK r : Becomes(p, r) /\ r.pc = "progress"
    BY <1>4, UpdateEffect
  <2>2. CallGood(r)'
    BY <2>1 DEF CallGood
  <2>3. UNCHANGED <<created, registered, files, saves, control, ring>> /\ status' \in [Quest -> Steps]
    BY <1>4, UpdateEffect
  <2>4. RegistryOK' /\ DiskOK' /\ saves <= saves'
    BY <1>0, <2>3 DEF QTypes, RegistryOK, DiskOK
  <2>5. QED
    BY <1>0, <2>1, <2>2, <2>3, <2>4, RingSame, CallerKeeps
<1>5. CASE Progress(p)
  <2>1. PICK r : /\ Becomes(p, r)
                 /\ \/ r.pc = "clone" /\ r.quest = call[p].quest /\ r.all = call[p].all
                       /\ r.auto = TRUE
                    \/ r = Finish(call[p])
    BY <1>5, ProgressEffect
  <2>2. CallGood(r)
    BY <1>w, <2>1 DEF CallGood, Saving
  <2>3. UNCHANGED <<created, registered, status, files, saves, control>> /\ RingOK'
    BY <1>5, ProgressEffect
  <2>4. QED
    BY <2>1, <2>2, <2>3, CallerQuiet
<1>6. CASE Announce(p) \/ PublishFails(p)
  <2>1. UNCHANGED <<created, registered, status, files, saves, control>> /\ RingOK' /\ Becomes(p, Waiting)
    BY <1>0, <1>6, AnnounceEffect, PublishFailsEffect, RingSame
  <2>2. QED
    BY <1>w, <2>1, CallerQuiet
<1>7. CASE Clone(p)
  <2>1. PICK r : /\ Becomes(p, r)
                 /\ \/ r.pc = "stamp" /\ r.quest = call[p].quest /\ r.all = call[p].all
                       /\ r.auto = call[p].auto /\ r.quest \in registered
                    \/ r = SaveDone(call[p])
    BY <1>7, CloneEffect
  <2>2. CallGood(r)
    BY <1>0, <1>7, <1>w, <2>1, CloneEffect DEF CallGood, Saving, QTypes, RegistryOK
  <2>3. UNCHANGED <<created, registered, status, files, saves, control, ring>>
    BY <1>7, CloneEffect
  <2>4. QED
    BY <1>0, <2>1, <2>2, <2>3, RingSame, CallerQuiet
<1>8. CASE Stamp(p)
  <2>1. PICK r : /\ Becomes(p, r) /\ r.pc = "write" /\ r.at = saves + 1
                 /\ r.quest = call[p].quest /\ r.all = call[p].all /\ r.auto = call[p].auto
    BY <1>8, StampEffect
  <2>2. /\ UNCHANGED <<created, registered, status, files, control, ring>> /\ saves' = saves + 1
        /\ call[p].pc = "stamp"
    BY <1>8, StampEffect
  <2>3. CallGood(r)'
    BY <1>0, <2>1, <2>2 DEF CallGood, Saving
  <2>4. RegistryOK' /\ DiskOK' /\ saves <= saves'
    BY <1>0, <2>2 DEF QTypes, RegistryOK, DiskOK
  <2>5. QED
    BY <1>0, <2>1, <2>2, <2>3, <2>4, RingSame, CallerKeeps
<1>9. CASE WriteFile(p)
  <2>1. PICK r : /\ Becomes(p, r) /\ r.pc = "prune" /\ r.at = call[p].at
                 /\ r.quest = call[p].quest /\ r.all = call[p].all /\ r.auto = call[p].auto
    BY <1>9, WriteEffect
  <2>2. /\ UNCHANGED <<created, registered, status, saves, control, ring>> /\ call[p].pc = "write"
        /\ files' = files \cup {File(call[p], TRUE)}
    BY <1>9, WriteEffect
  <2>3. CallGood(r)'
    BY <1>0, <2>1, <2>2 DEF CallGood, Saving
  <2>a. files' \subseteq files \cup {File(call[p], TRUE)} /\ UNCHANGED <<created, saves>>
    BY <2>2
  <2>b. DiskOK'
    BY <2>2, <2>a, FileTypes
  <2>4. RegistryOK' /\ DiskOK' /\ saves <= saves'
    BY <1>0, <2>2, <2>b DEF QTypes, RegistryOK
  <2>5. QED
    BY <1>0, <2>1, <2>2, <2>3, <2>4, RingSame, CallerKeeps
<1>10. CASE WriteFileFails(p)
  <2>0. PICK r : r = SaveDone(call[p])
    OBVIOUS
  <2>1. /\ UNCHANGED <<created, registered, status, saves, control, ring>> /\ call[p].pc = "write"
        /\ files' \subseteq files \cup {File(call[p], FALSE)} /\ Becomes(p, r)
    BY <1>10, <2>0, WriteFailsEffect
  <2>2. CallGood(r)'
    BY <1>w, <2>0, <2>1 DEF CallGood
  <2>a. DiskOK'
    BY <2>1, FileTypes
  <2>3. RegistryOK' /\ DiskOK' /\ saves <= saves'
    BY <1>0, <2>1, <2>a DEF QTypes, RegistryOK
  <2>4. QED
    BY <1>0, <2>1, <2>2, <2>3, RingSame, CallerKeeps
<1>11. CASE PruneList(p)
  <2>1. PICK r : /\ Becomes(p, r) /\ r.pc = "unlink" /\ r.at = call[p].at
                 /\ r.quest = call[p].quest /\ r.all = call[p].all /\ r.auto = call[p].auto
    BY <1>11, PruneEffect
  <2>2. UNCHANGED <<created, registered, status, files, saves, control, ring>> /\ call[p].pc = "prune"
    BY <1>11, PruneEffect
  <2>3. CallGood(r)
    BY <1>0, <2>1, <2>2 DEF CallGood, Saving
  <2>4. QED
    BY <1>0, <2>1, <2>2, <2>3, RingSame, CallerQuiet
<1>12. CASE Unlink(p)
  <2>0. PICK r : r = SaveDone(call[p])
    OBVIOUS
  <2>1. /\ UNCHANGED <<created, registered, status, saves, control>> /\ RingOK'
        /\ files' \subseteq files /\ Becomes(p, r)
    BY <1>12, <2>0, UnlinkEffect
  <2>2. CallGood(r)'
    BY <1>w, <2>0, <2>1 DEF CallGood
  <2>3. RegistryOK' /\ DiskOK' /\ saves <= saves'
    BY <1>0, <2>1 DEF QTypes, RegistryOK, DiskOK
  <2>4. QED
    BY <2>1, <2>2, <2>3, CallerKeeps
<1>13. CASE RestoreLoad(p)
  <2>1. PICK r : /\ Becomes(p, r)
                 /\ \/ r = Waiting
                    \/ r.pc = "install" /\ r.all = FALSE /\ r.quest = call[p].quest
    BY <1>13, RestoreLoadEffect
  <2>2. UNCHANGED <<created, registered, status, files, saves, control, ring>> /\ call[p].pc = "load"
    BY <1>13, RestoreLoadEffect
  <2>3. CallGood(r)
    BY <1>0, <1>w, <2>1, <2>2 DEF CallGood
  <2>4. QED
    BY <1>0, <2>1, <2>2, <2>3, RingSame, CallerQuiet
<1>14. CASE RestoreInstall(p)
  <2>1. /\ UNCHANGED <<created, files, saves, control>> /\ RegistryOK' /\ RingOK'
        /\ Becomes(p, Waiting)
    BY <1>14, RestoreInstallEffect
  <2>2. CallGood(Waiting)' /\ DiskOK' /\ saves <= saves'
    BY <1>0, <2>1, WaitingType DEF CallGood, QTypes, DiskOK
  <2>3. QED
    BY <2>1, <2>2, CallerKeeps
<1>15. QED
  BY <1>1, <1>2, <1>3, <1>4, <1>5, <1>6, <1>7, <1>8, <1>9, <1>10, <1>11, <1>12, <1>13, <1>14
     DEF CallerStep, CallStep

LEMMA QStep ==
  ASSUME [QuestNext]_questVars
  PROVE  (\E p \in Caller : CallerStep(p)) \/ OtherStep \/ Restart
BY DEF QuestNext, CallerStep, OtherStep

LEMMA QNext == QTypes /\ CallsGood /\ [QuestNext]_questVars => QTypes' /\ CallsGood'
BY QStep, CallerTypes, OtherTypes, RestartTypes

-----------------------------------------------------------------------------
(* Stamps: a checkpoint file is the only one with its number.              *)

StampsInv ==
  /\ \A f, g \in files : f.at = g.at => f = g
  /\ \A p \in Caller : call[p].pc = "write" => \A f \in files : f.at # call[p].at
  /\ \A p, o \in Caller :
       p # o /\ call[p].pc = "write" /\ call[o].pc = "write" => call[p].at # call[o].at

Late == {"write", "prune", "unlink"}

\* A step that leaves the files and what belongs to them alone.
FilesQuiet(p) ==
  /\ UNCHANGED <<files, saves, clean, confirmed>>
  /\ \E r : Becomes(p, r) /\ r.pc \notin Late /\ call[p].pc \notin Late

LEMMA CallerFiles ==
  ASSUME QTypes, CallsGood, NEW p \in Caller, CallerStep(p)
  PROVE  Stamp(p) \/ WriteFile(p) \/ WriteFileFails(p) \/ PruneList(p) \/ Unlink(p) \/ FilesQuiet(p)
<1>0. call[p] \in CallType /\ CallsOK
  BY DEF QTypes, CallsOK
<1> USE DEF FilesQuiet, Late
<1>1. ASSUME NEW q \in Quest, CreateQuest(p, q) PROVE FilesQuiet(p)
  <2>1. UNCHANGED <<files, saves, clean, confirmed, call>> /\ call[p].pc = "idle"
    BY <1>1, CreateEffect DEF CreateQuest
  <2>2. Becomes(p, call[p])
    BY <1>0, <2>1 DEF Becomes, CallsOK
  <2>3. QED
    BY <2>1, <2>2
<1>2. ASSUME NEW q \in Quest, SaveCheckpoint(p, q) \/ RestoreList(p, q) PROVE FilesQuiet(p)
  BY <1>2, SaveEffect, RestoreListEffect
<1>3. ASSUME NEW q \in Quest, NEW s \in Step, NEW new \in Status, UpdateTask(p, q, s, new)
      PROVE  FilesQuiet(p)
  BY <1>3, UpdateEffect
<1>4. CASE Progress(p)
  BY <1>0, <1>4, ProgressEffect, FinishType
<1>5. CASE Announce(p) \/ PublishFails(p)
  <2>1. /\ UNCHANGED <<files, saves, clean, confirmed>> /\ Becomes(p, Waiting)
        /\ call[p].pc \in {"progress", "announce"}
    BY <1>5, AnnounceEffect, PublishFailsEffect
  <2>2. QED
    BY <2>1, WaitingType
<1>6. CASE Clone(p)
  BY <1>0, <1>6, CloneEffect, FinishType
<1>7. CASE RestoreLoad(p)
  BY <1>7, RestoreLoadEffect, WaitingType
<1>8. CASE RestoreInstall(p)
  <2>1. /\ UNCHANGED <<files, saves, clean, confirmed>> /\ Becomes(p, Waiting)
        /\ call[p].pc = "install"
    BY <1>8, RestoreInstallEffect
  <2>2. QED
    BY <2>1, WaitingType
<1>9. QED
  BY <1>1, <1>2, <1>3, <1>4, <1>5, <1>6, <1>7, <1>8 DEF CallerStep, CallStep

LEMMA StampsNext == QTypes /\ CallsGood /\ StampsInv /\ [QuestNext]_questVars => StampsInv'
<1> SUFFICES ASSUME QTypes, CallsGood, StampsInv, [QuestNext]_questVars PROVE StampsInv'
  OBVIOUS
<1>0. CallsOK
  BY DEF QTypes
<1>1. CASE OtherStep
  BY <1>1, OtherTypes DEF StampsInv
<1>2. CASE Restart
  <2>1. \A p \in Caller : call'[p].pc # "write"
    BY <1>2, RestartTypes, WaitingType
  <2>2. \A f \in files' : f \in files \/ \E p \in Caller : call[p].pc = "write" /\ f = File(call[p], FALSE)
    BY <1>2, RestartTypes
  <2>3. \A p \in Caller : File(call[p], FALSE).at = call[p].at
    BY <1>0, FileIs DEF CallsOK
  <2>4. ASSUME NEW f \in files', NEW g \in files', f.at = g.at PROVE f = g
    <3>1. CASE f \in files /\ g \in files
      BY <2>4, <3>1 DEF StampsInv
    <3>2. ASSUME NEW p \in Caller, call[p].pc = "write", f = File(call[p], FALSE), g \in files
          PROVE  f = g
      BY <2>3, <2>4, <3>2 DEF StampsInv
    <3>3. ASSUME NEW p \in Caller, call[p].pc = "write", g = File(call[p], FALSE), f \in files
          PROVE  f = g
      BY <2>3, <2>4, <3>3 DEF StampsInv
    <3>4. ASSUME NEW p \in Caller, call[p].pc = "write", f = File(call[p], FALSE),
                 NEW o \in Caller, call[o].pc = "write", g = File(call[o], FALSE)
          PROVE  f = g
      <4>1. call[p].at = call[o].at
        BY <2>3, <2>4, <3>4
      <4>2. p = o
        BY <3>4, <4>1 DEF StampsInv
      <4>3. QED
        BY <3>4, <4>2
    <3>5. QED
      BY <2>2, <3>1, <3>2, <3>3, <3>4
  <2>5. QED
    BY <2>1, <2>4 DEF StampsInv
<1>3. ASSUME NEW p \in Caller, CallerStep(p) PROVE StampsInv'
  <2>0. call[p] \in CallType /\ saves \in Nat
    BY <1>0 DEF CallsOK, QTypes, DiskOK
  <2>1. CASE Stamp(p)
    <3>1. PICK r : Becomes(p, r) /\ r.pc = "write" /\ r.at = saves + 1
      BY <2>1, StampEffect
    <3>2. files' = files
      BY <2>1, StampEffect
    <3>3. \A o \in Caller : call'[o] = IF o = p THEN r ELSE call[o]
      BY <1>0, <3>1, CallOthers
    <3>4. /\ \A f \in files : f.at # r.at
          /\ \A o \in Caller : call[o].pc = "write" => call[o].at # r.at
      BY <2>0, <3>1 DEF QTypes, DiskOK, CallsGood, CallGood
    <3>5. QED
      BY <3>1, <3>2, <3>3, <3>4 DEF StampsInv
  <2>2. ASSUME NEW b \in BOOLEAN, files' \subseteq files \cup {File(call[p], b)}, NEW r,
               Becomes(p, r), r.pc # "write", call[p].pc = "write"
        PROVE  StampsInv'
    <3>1. File(call[p], b).at = call[p].at
      BY <2>0, FileIs
    <3>2. \A o \in Caller : call'[o] = IF o = p THEN r ELSE call[o]
      BY <1>0, <2>2, CallOthers
    <3>3. \A f, g \in files' : f.at = g.at => f = g
      BY <2>2, <3>1 DEF StampsInv
    <3>4. \A o \in Caller : call'[o].pc = "write" => o # p /\ call'[o] = call[o]
      BY <2>2, <3>2
    <3>5. QED
      BY <2>2, <3>1, <3>3, <3>4 DEF StampsInv
  <2>3. ASSUME files' \subseteq files, NEW r, Becomes(p, r), r.pc # "write" PROVE StampsInv'
    <3>1. \A o \in Caller : call'[o] = IF o = p THEN r ELSE call[o]
      BY <1>0, <2>3, CallOthers
    <3>2. \A o \in Caller : call'[o].pc = "write" => call'[o] = call[o]
      BY <2>3, <3>1
    <3>3. QED
      BY <2>3, <3>2 DEF StampsInv
  <2>4. CASE WriteFile(p)
    <3>1. PICK r : Becomes(p, r) /\ r.pc = "prune"
      BY <2>4, WriteEffect
    <3>2. files' \subseteq files \cup {File(call[p], TRUE)} /\ call[p].pc = "write"
      BY <2>4, WriteEffect
    <3>3. QED
      BY <2>2, <3>1, <3>2
  <2>5. CASE WriteFileFails(p)
    <3>1. /\ files' \subseteq files \cup {File(call[p], FALSE)} /\ call[p].pc = "write"
          /\ Becomes(p, SaveDone(call[p])) /\ SaveDone(call[p]).pc # "write"
      BY <2>0, <2>5, WriteFailsEffect, FinishType
    <3>2. QED
      BY <2>2, <3>1
  <2>6. CASE PruneList(p)
    BY <2>3, <2>6, PruneEffect
  <2>7. CASE Unlink(p)
    <3>1. /\ files' \subseteq files /\ Becomes(p, SaveDone(call[p])) /\ SaveDone(call[p]).pc # "write"
      BY <2>0, <2>7, UnlinkEffect, FinishType
    <3>2. QED
      BY <2>3, <3>1
  <2>8. CASE FilesQuiet(p)
    BY <2>3, <2>8 DEF FilesQuiet, Late
  <2>9. QED
    BY <1>3, <2>1, <2>4, <2>5, <2>6, <2>7, <2>8, CallerFiles
<1>4. QED
  BY <1>1, <1>2, <1>3, QStep

-----------------------------------------------------------------------------
(* Confirmed checkpoints.                                                  *)

\* There is an intact file of quest q that is at least as new as save n.
Newer(q, n) == \E g \in files : g.quest = q /\ g.ok /\ g.at >= n

\* A save that wrote its file has one as new; a file that is about to be
\* pruned has a newer one.
KeptInv ==
  /\ confirmed \subseteq AnyQuest \X Nat
  /\ \A x \in confirmed : Newer(x[1], x[2])
  /\ \A p \in Caller : call[p].pc \in {"prune", "unlink"} => Newer(call[p].quest, call[p].at)
  /\ \A p \in Caller : call[p].pc = "unlink" => \A f \in call[p].set : Newer(f.quest, f.at + 1)

\* The newest intact file of a quest is in no prune list, so pruning keeps it.
LEMMA NewerKeeps ==
  ASSUME DiskOK, NEW S, \A f \in S : Newer(f.quest, f.at + 1), files \ S \subseteq files',
         NEW q, NEW n \in Nat, Newer(q, n)
  PROVE  Newer(q, n)'
<1> DEFINE F == {f \in files : f.quest = q /\ f.ok}
           M == {saves - f.at : f \in F}
<1>1. saves \in Nat /\ \A f \in files : f.at \in 1 .. saves
  BY DEF DiskOK
<1>2. M \subseteq Nat /\ M # {}
  BY <1>1 DEF Newer
<1>3. PICK k \in M : \A j \in M : k <= j
  BY <1>2, LeastNumber
<1>4. PICK m \in F : k = saves - m.at
  BY <1>3
<1>5. \A f \in F : saves - f.at \in M
  OBVIOUS
<1>6. \A f \in F : f.at <= m.at
  <2> TAKE f \in F
  <2>1. saves - m.at <= saves - f.at
    BY <1>3, <1>4, <1>5
  <2>2. QED
    BY <1>1, <2>1
<1>7. m \notin S
  <2>1. ASSUME m \in S PROVE FALSE
    <3>1. PICK g \in files : g.quest = m.quest /\ g.ok /\ g.at >= m.at + 1
      BY <2>1 DEF Newer
    <3>2. g.at <= m.at
      BY <1>6, <3>1
    <3>3. QED
      BY <1>1, <3>1, <3>2
  <2>2. QED
    BY <2>1
<1>8. PICK w \in F : w.at >= n
  BY DEF Newer
<1>9. m.at >= n
  BY <1>1, <1>6, <1>8
<1>10. QED
  BY <1>7, <1>9 DEF Newer

\* A step after which every file but those of S is left, each of which has a
\* newer one.
Prunes(p, r, S) ==
  /\ \A f \in S : Newer(f.quest, f.at + 1)
  /\ files \ S \subseteq files' /\ Becomes(p, r)
  /\ confirmed' \subseteq AnyQuest \X Nat
  /\ \A x \in confirmed' \ confirmed : Newer(x[1], x[2])
  /\ r.pc \in {"prune", "unlink"} => Newer(r.quest, r.at)'
  /\ r.pc = "unlink" => \A f \in r.set : Newer(f.quest, f.at + 1)

LEMMA KeptStep ==
  ASSUME QTypes, CallsGood, KeptInv, NEW p \in Caller, NEW r, NEW S, Prunes(p, r, S)
  PROVE  KeptInv'
<1> USE DEF Prunes
<1>0. DiskOK /\ CallsOK /\ r \in CallType
  BY DEF QTypes, Becomes
<1>1. \A o \in Caller : call'[o] = IF o = p THEN r ELSE call[o]
  BY <1>0, CallOthers
<1>2. \A x \in confirmed' : Newer(x[1], x[2])'
  <2> TAKE x \in confirmed'
  <2>1. x[2] \in Nat /\ Newer(x[1], x[2])
    BY DEF KeptInv
  <2>2. QED
    BY <1>0, <2>1, NewerKeeps
<1>3. ASSUME NEW o \in Caller, call'[o].pc \in {"prune", "unlink"}
      PROVE  Newer(call[o].quest, call[o].at)'
  <2>1. CASE o = p
    BY <1>1, <1>3, <2>1 DEF Newer
  <2>2. CASE o # p
    <3>1. call'[o] = call[o] /\ call[o].at \in Nat /\ Newer(call[o].quest, call[o].at)
      BY <1>0, <1>1, <1>3, <2>2 DEF KeptInv, CallsOK, CallType
    <3>2. PICK q, n : q = call[o].quest /\ n = call[o].at
      OBVIOUS
    <3>3. Newer(q, n)'
      BY <1>0, <3>1, <3>2, NewerKeeps
    <3>4. QED
      BY <3>1, <3>2, <3>3 DEF Newer
  <2>3. QED
    BY <2>1, <2>2
<1>4. ASSUME NEW o \in Caller, call'[o].pc = "unlink", NEW f \in call'[o].set
      PROVE  Newer(f.quest, f.at + 1)'
  <2>1. Newer(f.quest, f.at + 1)
    BY <1>1, <1>4 DEF KeptInv
  <2>2. f.at + 1 \in Nat
    BY <1>0, <1>1, <1>4 DEF CallsOK, CallType, FileType
  <2>3. QED
    BY <1>0, <2>1, <2>2, NewerKeeps
<1>5. QED
  BY <1>2, <1>3, <1>4 DEF KeptInv

\* What prune_old_blocking lists has a newer intact file each.
LEMMA SkipNewer ==
  ASSUME QTypes, MaxKeep # 0, NEW q, NEW f \in Skip(Intact(FilesOf(q)), MaxKeep)
  PROVE  Newer(f.quest, f.at + 1)
<1> DEFINE F == Intact(FilesOf(q))
           G == {g \in F : g.at > f.at}
<1>1. f \in F /\ Cardinality(G) >= MaxKeep /\ MaxKeep \in Nat
  BY QuestAssumption DEF Skip
<1>2. G # {}
  BY <1>1, FS_EmptySet
<1>3. PICK g \in G : TRUE
  BY <1>2
<1>4. g \in files /\ f \in files /\ g.quest = f.quest /\ g.ok /\ g.at > f.at
  BY <1>1 DEF Intact, FilesOf
<1>5. g.at >= f.at + 1
  BY <1>4 DEF QTypes, DiskOK
<1>6. QED
  BY <1>4, <1>5 DEF Newer

LEMMA KeptNext ==
  ASSUME MaxKeep # 0
  PROVE  QTypes /\ CallsGood /\ KeptInv /\ [QuestNext]_questVars => KeptInv'
<1> SUFFICES ASSUME QTypes, CallsGood, KeptInv, [QuestNext]_questVars PROVE KeptInv'
  OBVIOUS
<1>0. CallsOK /\ confirmed \subseteq AnyQuest \X Nat
  BY DEF QTypes, KeptInv
<1>1. CASE OtherStep
  BY <1>1, OtherTypes DEF KeptInv, Newer
<1>2. CASE Restart
  <2>1. /\ \A p \in Caller : call'[p].pc = "idle"
        /\ files \subseteq files' /\ confirmed' = confirmed
    BY <1>2, RestartTypes, WaitingType
  <2>2. QED
    BY <2>1 DEF KeptInv, Newer
<1>3. ASSUME NEW p \in Caller, CallerStep(p) PROVE KeptInv'
  <2>0. call[p] \in CallType
    BY <1>0 DEF CallsOK
  <2>1. ASSUME NEW r, Becomes(p, r), r.pc \notin {"prune", "unlink"}, files \subseteq files',
               confirmed' = confirmed
        PROVE  KeptInv'
    <3>1. Prunes(p, r, {})
      BY <1>0, <2>1 DEF Prunes
    <3>2. QED
      BY <3>1, KeptStep
  <2>2. CASE Stamp(p)
    BY <2>1, <2>2, StampEffect
  <2>3. CASE WriteFile(p)
    <3>1. PICK r : /\ Becomes(p, r) /\ r.pc = "prune" /\ r.at = call[p].at
                   /\ r.quest = call[p].quest
      BY <2>3, WriteEffect
    <3>2. files' = files \cup {File(call[p], TRUE)} /\ confirmed' = confirmed
      BY <2>3, WriteEffect
    <3>3. PICK g : g = File(call[p], TRUE)
      OBVIOUS
    <3>4. g \in files' /\ g.quest = r.quest /\ g.ok = TRUE /\ g.at = r.at /\ r.at \in Nat
      BY <2>0, <3>1, <3>2, <3>3, FileIs DEF CallType
    <3>5. Newer(r.quest, r.at)'
      BY <3>4 DEF Newer
    <3>6. Prunes(p, r, {})
      BY <1>0, <3>1, <3>2, <3>5 DEF Prunes
    <3>7. QED
      BY <3>6, KeptStep
  <2>4. CASE WriteFileFails(p)
    <3>1. /\ files \subseteq files' /\ confirmed' = confirmed
          /\ Becomes(p, SaveDone(call[p])) /\ SaveDone(call[p]).pc \notin {"prune", "unlink"}
      BY <2>0, <2>4, WriteFailsEffect, FinishType
    <3>2. QED
      BY <2>1, <3>1
  <2>5. CASE PruneList(p)
    <3>1. UNCHANGED <<files, confirmed>> /\ call[p].pc = "prune"
      BY <2>5, PruneEffect
    <3>2. PICK r : /\ Becomes(p, r) /\ r.pc = "unlink" /\ r.at = call[p].at
                   /\ r.quest = call[p].quest
                   /\ (r.set = {} \/ r.set = Skip(Intact(FilesOf(call[p].quest)), MaxKeep))
      BY <2>5, PruneEffect
    <3>3. \A f \in r.set : Newer(f.quest, f.at + 1)
      BY <3>2, SkipNewer
    <3>4. Newer(r.quest, r.at)
      BY <3>1, <3>2 DEF KeptInv
    <3>5. Newer(r.quest, r.at)'
      BY <3>1, <3>4 DEF Newer
    <3>6. Prunes(p, r, {})
      BY <1>0, <3>1, <3>2, <3>3, <3>5 DEF Prunes
    <3>7. QED
      BY <3>6, KeptStep
  <2>6. CASE Unlink(p)
    <3>1. /\ files' = files \ call[p].set /\ call[p].pc = "unlink"
          /\ confirmed' = confirmed \cup {<<call[p].quest, call[p].at>>}
          /\ Becomes(p, SaveDone(call[p])) /\ SaveDone(call[p]).pc \notin {"prune", "unlink"}
      BY <2>0, <2>6, UnlinkEffect, FinishType
    <3>2. <<call[p].quest, call[p].at>> \in AnyQuest \X Nat
      BY <2>0 DEF CallType
    <3>3. /\ Newer(call[p].quest, call[p].at)
          /\ \A f \in call[p].set : Newer(f.quest, f.at + 1)
      BY <3>1 DEF KeptInv
    <3>4. PICK r, S : r = SaveDone(call[p]) /\ S = call[p].set
      OBVIOUS
    <3>5. Prunes(p, r, S)
      BY <1>0, <3>1, <3>2, <3>3, <3>4 DEF Prunes
    <3>6. QED
      BY <3>5, KeptStep
  <2>7. CASE FilesQuiet(p)
    BY <2>1, <2>7 DEF FilesQuiet, Late
  <2>8. QED
    BY <1>3, <2>2, <2>3, <2>4, <2>5, <2>6, <2>7, CallerFiles
<1>4. QED
  BY <1>1, <1>2, <1>3, QStep

-----------------------------------------------------------------------------
(* The checkpoint directory.                                               *)

\* At most k of a finite set of files have fewer than k newer ones.
LEMMA SkipBound ==
  ASSUME NEW F, IsFiniteSet(F), \A f \in F : f.at \in Nat, \A f, g \in F : f.at = g.at => f = g,
         NEW k \in Nat
  PROVE  /\ IsFiniteSet(F \ Skip(F, k))
         /\ Cardinality(F \ Skip(F, k)) <= k
<1> DEFINE N(f) == {g \in F : g.at > f.at}
           X == F \ Skip(F, k)
           h == [f \in X |-> Cardinality(N(f))]
<1>1. \A f \in F : IsFiniteSet(N(f)) /\ Cardinality(N(f)) \in Nat
  BY FS_Subset, FS_CardinalityType
<1>2. \A f \in X : f \in F /\ Cardinality(N(f)) < k
  <2> TAKE f \in X
  <2>1. f \in F /\ ~ (Cardinality(N(f)) >= k)
    BY Zenon DEF Skip
  <2> HIDE DEF N
  <2>2. QED
    BY <1>1, <2>1
<1>3. ASSUME NEW f \in F, NEW g \in F, f.at < g.at PROVE Cardinality(N(g)) < Cardinality(N(f))
  <2>1. N(g) \subseteq N(f) /\ g \in N(f) /\ g \notin N(g)
    BY <1>3
  <2>2. N(g) # N(f)
    BY <2>1
  <2>3. Cardinality(N(g)) <= Cardinality(N(f)) /\ Cardinality(N(g)) # Cardinality(N(f))
    <3> HIDE DEF N
    <3>1. QED
      BY <1>1, <2>1, <2>2, FS_Subset
  <2>4. QED
    BY <1>1, <2>3
<1>4. h \in [X -> 0 .. (k - 1)]
  <2> HIDE DEF X, N
  <2>1. \A f \in X : Cardinality(N(f)) \in 0 .. (k - 1)
    BY <1>1, <1>2
  <2>2. QED
    BY <2>1
<1>5. ASSUME NEW f \in X, NEW g \in X, h[f] = h[g] PROVE f = g
  <2>1. Cardinality(N(f)) = Cardinality(N(g))
    BY <1>5
  <2>2. f \in F /\ g \in F
    BY <1>2
  <2> HIDE DEF N, X
  <2>3. ~ (f.at < g.at) /\ ~ (g.at < f.at)
    BY <1>1, <1>3, <2>1, <2>2
  <2>4. f.at = g.at
    BY <2>2, <2>3
  <2>5. QED
    BY <2>2, <2>4
<1>6. h \in Injection(X, 0 .. (k - 1))
  <2> HIDE DEF h, X
  <2>1. QED
    BY <1>4, <1>5 DEF Injection, IsInjective
<1>7. IsFiniteSet(0 .. (k - 1)) /\ Cardinality(0 .. (k - 1)) = k
  BY FS_Interval
<1> HIDE DEF h, X
<1>8. IsFiniteSet(X) /\ Cardinality(X) <= Cardinality(0 .. (k - 1))
  BY <1>6, <1>7, FS_Injection
<1>9. QED
  BY <1>7, <1>8 DEF X

\* What the calls of a quest are about to unlink.
Doomed(q) == UNION {call[p].set : p \in {o \in Caller : call[o].quest = q /\ call[o].pc = "unlink"}}
Settling(q) == \E p \in Caller : call[p].quest = q /\ call[p].pc = "prune"

\* While no write failed, all files are intact, and once every save of a quest
\* has listed the directory, what none of them will unlink fits max_keep.
DirectoryInv ==
  clean => /\ IsFiniteSet(files) /\ \A f \in files : f.ok
           /\ \A q \in Quest : ~ Settling(q) => Cardinality(FilesOf(q) \ Doomed(q)) <= MaxKeep

LEMMA SmallerSet ==
  ASSUME NEW S, IsFiniteSet(S), NEW T, T \subseteq S, NEW k \in Nat, Cardinality(S) <= k
  PROVE  Cardinality(T) <= k
<1>1. IsFiniteSet(T) /\ Cardinality(T) <= Cardinality(S)
  BY FS_Subset
<1>2. Cardinality(T) \in Nat /\ Cardinality(S) \in Nat
  BY <1>1, FS_CardinalityType
<1>3. QED
  BY <1>1, <1>2

LEMMA DirectoryNext ==
  QTypes /\ CallsGood /\ StampsInv /\ DirectoryInv /\ [QuestNext]_questVars => DirectoryInv'
<1> SUFFICES ASSUME QTypes, CallsGood, StampsInv, DirectoryInv, [QuestNext]_questVars
             PROVE  DirectoryInv'
  OBVIOUS
<1>0. CallsOK /\ MaxKeep \in Nat
  BY QuestAssumption DEF QTypes
<1>1. CASE OtherStep
  <2>1. UNCHANGED <<files, call, clean>>
    BY <1>1, OtherTypes
  <2>2. \A q \in Quest : /\ Settling(q)' <=> Settling(q)
                         /\ Doomed(q)' = Doomed(q) /\ FilesOf(q)' = FilesOf(q)
    BY <2>1 DEF Settling, Doomed, FilesOf
  <2>3. QED
    BY <2>1, <2>2 DEF DirectoryInv
<1>2. CASE Restart
  BY <1>2, RestartTypes DEF DirectoryInv
<1>3. ASSUME NEW p \in Caller, CallerStep(p) PROVE DirectoryInv'
  <2>0. call[p] \in CallType
    BY <1>0 DEF CallsOK
  <2>1. CASE WriteFileFails(p)
    BY <2>1, WriteFailsEffect DEF DirectoryInv
  <2> SUFFICES ASSUME clean, clean' = clean PROVE DirectoryInv'
    BY <2>1, <1>3, CallerFiles, StampEffect, WriteEffect, PruneEffect, UnlinkEffect
       DEF FilesQuiet, DirectoryInv
  <2>2. IsFiniteSet(files) /\ \A f \in files : f.ok
    BY DEF DirectoryInv
  \* A step that lists nothing: nothing more is left than before.
  <2>3. ASSUME NEW r, Becomes(p, r), r.pc \notin {"prune", "unlink"}, call[p].pc # "prune",
               \A f \in files' : f \in files /\ (call[p].pc = "unlink" => f \notin call[p].set)
        PROVE  DirectoryInv'
    <3>1. \A o \in Caller : call'[o] = IF o = p THEN r ELSE call[o]
      BY <1>0, <2>3, CallOthers
    <3>2. IsFiniteSet(files') /\ \A f \in files' : f.ok
      BY <2>2, <2>3, FS_Subset
    <3>3. ASSUME NEW q \in Quest, ~ Settling(q)' PROVE Cardinality(FilesOf(q)' \ Doomed(q)') <= MaxKeep
      <4>1. ~ Settling(q)
        BY <2>3, <3>1, <3>3 DEF Settling
      <4>2. Cardinality(FilesOf(q) \ Doomed(q)) <= MaxKeep
        BY <4>1 DEF DirectoryInv
      <4>3. ASSUME NEW f \in FilesOf(q)', f \notin Doomed(q)' PROVE f \in FilesOf(q) /\ f \notin Doomed(q)
        <5>1. f \in files /\ f.quest = q /\ (call[p].pc = "unlink" => f \notin call[p].set)
          BY <2>3, <4>3 DEF FilesOf
        <5>2. ASSUME NEW o \in Caller, call[o].quest = q, call[o].pc = "unlink", f \in call[o].set
              PROVE  FALSE
          BY <3>1, <4>3, <5>1, <5>2 DEF Doomed
        <5>3. QED
          BY <5>1, <5>2 DEF FilesOf, Doomed
      <4>4. FilesOf(q)' \ Doomed(q)' \subseteq FilesOf(q) \ Doomed(q)
        BY <4>3
      <4>5. IsFiniteSet(FilesOf(q) \ Doomed(q))
        BY <2>2, FS_Subset DEF FilesOf
      <4>6. QED
        BY <1>0, <4>2, <4>4, <4>5, SmallerSet
    <3>4. QED
      BY <3>2, <3>3 DEF DirectoryInv
  <2>4. CASE Stamp(p)
    BY <2>3, <2>4, StampEffect
  <2>5. CASE FilesQuiet(p)
    BY <2>3, <2>5 DEF FilesQuiet, Late
  <2>6. CASE Unlink(p)
    <3>1. /\ files' = files \ call[p].set /\ call[p].pc = "unlink"
          /\ Becomes(p, SaveDone(call[p])) /\ SaveDone(call[p]).pc \notin {"prune", "unlink"}
      BY <2>0, <2>6, UnlinkEffect, FinishType
    <3>2. QED
      BY <2>3, <3>1
  <2>7. CASE WriteFile(p)
    <3>1. PICK r : Becomes(p, r) /\ r.pc = "prune" /\ r.quest = call[p].quest
      BY <2>7, WriteEffect
    <3>2. files' = files \cup {File(call[p], TRUE)} /\ call[p].pc = "write"
      BY <2>7, WriteEffect
    <3>3. File(call[p], TRUE).ok = TRUE /\ File(call[p], TRUE).quest = call[p].quest
      BY <2>0, FileIs
    <3>4. \A o \in Caller : call'[o] = IF o = p THEN r ELSE call[o]
      BY <1>0, <3>1, CallOthers
    <3>5. IsFiniteSet(files') /\ \A f \in files' : f.ok
      BY <2>2, <3>2, <3>3, FS_AddElement
    <3>6. ASSUME NEW q \in Quest, ~ Settling(q)' PROVE Cardinality(FilesOf(q)' \ Doomed(q)') <= MaxKeep
      <4>1. q # call[p].quest
        BY <3>1, <3>4, <3>6 DEF Settling
      <4>2. FilesOf(q)' = FilesOf(q)
        BY <3>2, <3>3, <4>1 DEF FilesOf
      <4>3. Doomed(q)' = Doomed(q)
        <5>1. {o \in Caller : call'[o].quest = q /\ call'[o].pc = "unlink"}
              = {o \in Caller : call[o].quest = q /\ call[o].pc = "unlink"}
          BY <3>1, <3>2, <3>4
        <5>2. \A o \in {o \in Caller : call[o].quest = q /\ call[o].pc = "unlink"} :
                call'[o] = call[o]
          BY <3>2, <3>4
        <5>3. QED
          BY <5>1, <5>2 DEF Doomed
      <4>4. ~ Settling(q)
        BY <3>2, <3>4, <3>6 DEF Settling
      <4>5. QED
        BY <4>2, <4>3, <4>4 DEF DirectoryInv
    <3>7. QED
      BY <3>5, <3>6 DEF DirectoryInv
  <2>8. CASE PruneList(p)
    <3>1. files' = files /\ call[p].pc = "prune"
      BY <2>8, PruneEffect
    <3>2. PICK r : /\ Becomes(p, r) /\ r.pc = "unlink" /\ r.quest = call[p].quest
                   /\ r.set = IF Cardinality(FilesOf(call[p].quest)) <= MaxKeep THEN {}
                              ELSE Skip(Intact(FilesOf(call[p].quest)), MaxKeep)
      BY <2>8, PruneEffect
    <3>3. \A o \in Caller : call'[o] = IF o = p THEN r ELSE call[o]
      BY <1>0, <3>2, CallOthers
    <3>4. ASSUME NEW q \in Quest, ~ Settling(q)' PROVE Cardinality(FilesOf(q)' \ Doomed(q)') <= MaxKeep
      <4>0. FilesOf(q)' = FilesOf(q) /\ IsFiniteSet(FilesOf(q))
        BY <2>2, <3>1, FS_Subset DEF FilesOf
      <4>1. CASE q = call[p].quest
        <5>1. Intact(FilesOf(q)) = FilesOf(q)
          BY <2>2 DEF Intact, FilesOf
        <5>2. r.set \subseteq Doomed(q)'
          BY <3>2, <3>3, <4>1 DEF Doomed
        <5>3. FilesOf(q)' \ Doomed(q)' \subseteq FilesOf(q) \ r.set
          BY <4>0, <5>2
        <5>4. IsFiniteSet(FilesOf(q) \ r.set) /\ Cardinality(FilesOf(q) \ r.set) <= MaxKeep
          <6>1. CASE Cardinality(FilesOf(q)) <= MaxKeep
            <7>1. FilesOf(q) \ r.set = FilesOf(q)
              BY <3>2, <4>1, <6>1
            <7>2. QED
              BY <4>0, <6>1, <7>1
          <6>2. CASE ~ (Cardinality(FilesOf(q)) <= MaxKeep)
            <7>1. r.set = Skip(FilesOf(q), MaxKeep)
              BY <3>2, <4>1, <5>1, <6>2
            <7>2. /\ \A f \in FilesOf(q) : f.at \in Nat
                  /\ \A f, g \in FilesOf(q) : f.at = g.at => f = g
              BY DEF FilesOf, QTypes, DiskOK, StampsInv
            <7>3. QED
              BY <1>0, <4>0, <7>1, <7>2, SkipBound
          <6>3. QED
            BY <6>1, <6>2
        <5>5. QED
          BY <1>0, <5>3, <5>4, SmallerSet
      <4>2. CASE q # call[p].quest
        <5>1. ~ Settling(q)
          BY <3>3, <3>4, <4>2 DEF Settling
        <5>2. {o \in Caller : call'[o].quest = q /\ call'[o].pc = "unlink"}
              = {o \in Caller : call[o].quest = q /\ call[o].pc = "unlink"}
          BY <3>2, <3>3, <4>2
        <5>3. \A o \in {o \in Caller : call[o].quest = q /\ call[o].pc = "unlink"} :
                call'[o] = call[o]
          BY <3>3, <4>2
        <5>4. Doomed(q)' = Doomed(q)
          BY <5>2, <5>3 DEF Doomed
        <5>5. QED
          BY <4>0, <5>1, <5>4 DEF DirectoryInv
      <4>3. QED
        BY <4>1, <4>2
    <3>5. QED
      BY <2>2, <3>1, <3>4 DEF DirectoryInv
  <2>9. QED
    BY <1>3, <2>1, <2>4, <2>5, <2>6, <2>7, <2>8, CallerFiles
<1>4. QED
  BY <1>1, <1>2, <1>3, QStep

LEMMA DirectoryImplied == QTypes /\ DirectoryInv => DirectoryBounded
<1> SUFFICES ASSUME DirectoryInv, clean, NEW q \in Quest,
                    \A p \in Caller : call[p].quest = q => call[p].pc \notin {"prune", "unlink"}
             PROVE  Cardinality(FilesOf(q)) <= MaxKeep
  BY DEF DirectoryBounded
<1>1. ~ Settling(q)
  BY DEF Settling
<1>2. FilesOf(q) \ Doomed(q) = FilesOf(q)
  BY DEF Doomed
<1>3. QED
  BY <1>1, <1>2 DEF DirectoryInv

-----------------------------------------------------------------------------
(* The end of a quest is reported.                                         *)

Reporting(c) == c.all \/ c.pc = "announce"

\* A caller that is to report the end of its quest goes on to do so.
GoesOn(p, r) ==
  Becomes(p, r) /\ (Reporting(call[p]) => r.quest = call[p].quest /\ Reporting(r))

LEMMA ReportKeeps ==
  ASSUME QTypes, CompletionReported, NEW p \in Caller, NEW r, GoesOn(p, r),
         UNCHANGED status, registered' \subseteq registered,
         restored \subseteq restored', announced \subseteq announced', refused \subseteq refused'
  PROVE  CompletionReported'
<1>1. \A o \in Caller : call'[o] = IF o = p THEN r ELSE call[o]
  BY CallOthers DEF QTypes, GoesOn
<1>2. SUFFICES ASSUME NEW q \in registered' \ (restored' \cup announced' \cup refused'),
                      AllTerminal(status[q])
               PROVE  \E o \in Caller : call'[o].quest = q /\ Reporting(call'[o])
  BY DEF CompletionReported, Reporting
<1>3. q \in registered \ (restored \cup announced \cup refused)
  BY <1>2
<1>4. PICK o \in Caller : call[o].quest = q /\ Reporting(call[o])
  BY <1>2, <1>3 DEF CompletionReported, Reporting
<1>5. QED
  BY <1>1, <1>4 DEF GoesOn

\* A caller has reported the end of its quest, got an error, or replaced it.
LEMMA ReportDone ==
  ASSUME QTypes, CompletionReported, NEW p \in Caller, NEW r, Becomes(p, r),
         registered' \subseteq registered \cup {call[p].quest},
         \A q \in registered : q # call[p].quest => status'[q] = status[q],
         restored \subseteq restored', announced \subseteq announced', refused \subseteq refused',
         call[p].quest \in restored' \cup announced' \cup refused'
  PROVE  CompletionReported'
<1>1. \A o \in Caller : call'[o] = IF o = p THEN r ELSE call[o]
  BY CallOthers DEF QTypes
<1>2. SUFFICES ASSUME NEW q \in registered' \ (restored' \cup announced' \cup refused'),
                      AllTerminal(status'[q])
               PROVE  \E o \in Caller : call'[o].quest = q /\ Reporting(call'[o])
  BY DEF CompletionReported, Reporting
<1>3. q # call[p].quest /\ q \in registered \ (restored \cup announced \cup refused)
  BY <1>2
<1>4. AllTerminal(status[q])
  BY <1>2, <1>3
<1>5. PICK o \in Caller : call[o].quest = q /\ Reporting(call[o])
  BY <1>3, <1>4 DEF CompletionReported, Reporting
<1>6. QED
  BY <1>1, <1>3, <1>5

LEMMA ReportNext ==
  QTypes /\ CallsGood /\ CompletionReported /\ [QuestNext]_questVars => CompletionReported'
<1> SUFFICES ASSUME QTypes, CallsGood, CompletionReported, [QuestNext]_questVars
             PROVE  CompletionReported'
  OBVIOUS
<1>0. CallsOK /\ RegistryOK
  BY DEF QTypes
<1>1. CASE OtherStep
  <2>1. /\ registered' \subseteq registered
        /\ UNCHANGED <<status, call, announced, refused, restored>>
    BY <1>1, OtherTypes
  <2>2. QED
    BY <2>1 DEF CompletionReported
<1>2. CASE Restart
  BY <1>2, RestartTypes DEF CompletionReported
<1>3. ASSUME NEW p \in Caller, CallerStep(p) PROVE CompletionReported'
  <2>0. call[p] \in CallType /\ CallGood(call[p]) /\ call[p].all \in BOOLEAN
    BY <1>0 DEF CallsOK, CallsGood, CallType
  <2>i. call[p].pc \in {"idle", "load"} => ~ Reporting(call[p])
    BY <2>0 DEF CallGood, Reporting, Saving
  <2>s. Becomes(p, SaveDone(call[p])) /\ call[p].pc \in Saving => GoesOn(p, SaveDone(call[p]))
    BY <2>0, FinishType DEF GoesOn, Reporting, CallGood, Saving
  <2>1. ASSUME NEW q \in Quest, CreateQuest(p, q) PROVE CompletionReported'
    <3>1. /\ registered' = registered \cup {q} /\ status' = [status EXCEPT ![q] = NewSteps]
          /\ q \notin created /\ UNCHANGED <<call, announced, refused, restored>>
      BY <2>1, CreateEffect
    <3>2. \A o \in registered : status'[o] = status[o]
      BY <1>0, <3>1 DEF RegistryOK
    <3>3. ~ AllTerminal(status'[q])
      <4>1. status'[q] = NewSteps
        BY <1>0, <3>1 DEF RegistryOK
      <4>2. PICK s \in Step : TRUE
        BY QuestAssumption
      <4>3. NewSteps[s] = "pending"
        BY DEF NewSteps
      <4>4. QED
        BY <4>1, <4>2, <4>3 DEF AllTerminal
    <3>4. QED
      BY <3>1, <3>2, <3>3 DEF CompletionReported
  <2>2. ASSUME NEW q \in Quest, NEW s \in Step, NEW new \in Status, UpdateTask(p, q, s, new)
        PROVE  CompletionReported'
    <3>1. PICK r : Becomes(p, r) /\ r.quest = q /\ r.all = AllTerminal(status'[q])
      BY <2>2, UpdateEffect
    <3>2. /\ UNCHANGED <<registered, announced, refused, restored>> /\ call[p].pc = "idle"
          /\ status' = [status EXCEPT ![q][s] = new]
      BY <2>2, UpdateEffect
    <3>3. \A o \in Caller : call'[o] = IF o = p THEN r ELSE call[o]
      BY <1>0, <3>1, CallOthers
    <3>4. \A o \in registered : o # q => status'[o] = status[o]
      BY <1>0, <3>2 DEF RegistryOK
    <3>5. ASSUME NEW o \in registered \ (restored \cup announced \cup refused), AllTerminal(status'[o])
          PROVE  \E x \in Caller : call'[x].quest = o /\ Reporting(call'[x])
      <4>1. CASE o = q
        BY <3>1, <3>3, <3>5, <4>1 DEF Reporting
      <4>2. CASE o # q
        <5>1. AllTerminal(status[o])
          BY <3>4, <3>5, <4>2
        <5>2. PICK x \in Caller : call[x].quest = o /\ Reporting(call[x])
          BY <3>5, <5>1 DEF CompletionReported, Reporting
        <5>3. x # p
          BY <2>i, <3>2, <5>2
        <5>4. QED
          BY <3>3, <5>2, <5>3
      <4>3. QED
        BY <4>1, <4>2
    <3>6. QED
      BY <3>2, <3>5 DEF CompletionReported, Reporting
  <2>3. ASSUME NEW q \in Quest, SaveCheckpoint(p, q) \/ RestoreList(p, q) PROVE CompletionReported'
    <3>1. /\ UNCHANGED <<status, registered, announced, refused, restored>> /\ call[p].pc = "idle"
          /\ \E r : Becomes(p, r)
      BY <2>3, SaveEffect, RestoreListEffect
    <3>2. QED
      BY <2>i, <3>1, ReportKeeps DEF GoesOn
  <2>4. CASE Progress(p)
    <3>1. PICK r : /\ Becomes(p, r)
                   /\ \/ r.quest = call[p].quest /\ r.all = call[p].all
                      \/ r = Finish(call[p])
      BY <2>4, ProgressEffect
    <3>2. UNCHANGED <<status, registered, announced, refused, restored>> /\ call[p].pc = "progress"
      BY <2>4, ProgressEffect
    <3>3. GoesOn(p, r)
      BY <2>0, <3>1, <3>2, FinishType DEF GoesOn, Reporting
    <3>4. QED
      BY <3>2, <3>3, ReportKeeps
  <2>5. CASE Announce(p)
    BY <2>5, AnnounceEffect, ReportDone
  <2>6. CASE PublishFails(p)
    BY <2>6, PublishFailsEffect, ReportDone
  <2>7. CASE Clone(p)
    <3>1. PICK r : /\ Becomes(p, r)
                   /\ \/ r.quest = call[p].quest /\ r.all = call[p].all
                      \/ r = SaveDone(call[p])
      BY <2>7, CloneEffect
    <3>2. UNCHANGED <<status, registered, announced, refused, restored>> /\ call[p].pc = "clone"
      BY <2>7, CloneEffect
    <3>3. GoesOn(p, r)
      BY <2>s, <3>1, <3>2 DEF GoesOn, Reporting, Saving
    <3>4. QED
      BY <3>2, <3>3, ReportKeeps
  <2>8. CASE Stamp(p) \/ WriteFile(p) \/ PruneList(p)
    <3>1. /\ UNCHANGED <<status, registered, announced, refused, restored>>
          /\ call[p].pc \in {"stamp", "write", "prune"}
          /\ \E r : Becomes(p, r) /\ r.quest = call[p].quest /\ r.all = call[p].all
      BY <2>8, StampEffect, WriteEffect, PruneEffect, ZenonT(30)
    <3>2. QED
      BY <3>1, ReportKeeps DEF GoesOn, Reporting
  <2>9. CASE WriteFileFails(p) \/ Unlink(p)
    <3>1. /\ UNCHANGED <<status, registered, announced, refused, restored>>
          /\ call[p].pc \in Saving /\ Becomes(p, SaveDone(call[p]))
      BY <2>9, WriteFailsEffect, UnlinkEffect DEF Saving
    <3>2. QED
      BY <2>s, <3>1, ReportKeeps
  <2>10. CASE RestoreLoad(p)
    <3>1. /\ UNCHANGED <<status, registered, announced, refused, restored>> /\ call[p].pc = "load"
          /\ \E r : Becomes(p, r)
      BY <2>10, RestoreLoadEffect
    <3>2. QED
      BY <2>i, <3>1, ReportKeeps DEF GoesOn
  <2>11. CASE RestoreInstall(p)
    <3>1. /\ UNCHANGED <<announced, refused>> /\ restored' = restored \cup {call[p].quest}
          /\ registered' = registered \cup {call[p].quest} /\ Becomes(p, Waiting)
          /\ status' = [status EXCEPT ![call[p].quest] = call[p].snap]
      BY <2>11, RestoreInstallEffect
    <3>2. \A q \in registered : q # call[p].quest => status'[q] = status[q]
      BY <1>0, <3>1 DEF RegistryOK
    <3>3. QED
      BY <3>1, <3>2, ReportDone
  <2>12. QED
    BY <1>3, <2>1, <2>2, <2>3, <2>4, <2>5, <2>6, <2>7, <2>8, <2>9, <2>10, <2>11
       DEF CallerStep, CallStep
<1>4. QED
  BY <1>1, <1>2, <1>3, QStep

-----------------------------------------------------------------------------
(* Paused quests.                                                          *)

\* A paused quest is registered, or being cancelled right now; a pause that
\* found its quest is applied while the quest is there.
PausedInv ==
  /\ \A q \in paused : q \in registered \/ (control.pc = "apply" /\ control.op = "cancel"
                                             /\ control.quest = q)
  /\ control.pc = "apply" /\ control.op = "pause" => control.quest \in registered

LEMMA PausedNext == QTypes /\ CallsGood /\ PausedInv /\ [QuestNext]_questVars => PausedInv'
<1> SUFFICES ASSUME QTypes, CallsGood, PausedInv, [QuestNext]_questVars PROVE PausedInv'
  OBVIOUS
<1>0. control \in Control /\ ring \in Seq(Message)
  BY DEF QTypes, ControlOK, RingOK
<1>1. ASSUME NEW p \in Caller, CallerStep(p) PROVE PausedInv'
  <2>1. UNCHANGED <<paused, control>> /\ registered \subseteq registered'
    BY <1>1 DEF CallerStep, CallStep, CreateQuest, SaveCheckpoint, RestoreList, UpdateTask,
       Progress, Announce, PublishFails, Clone, Stamp, WriteFile, WriteFileFails, PruneList,
       Unlink, RestoreLoad, RestoreInstall, registry
  <2>2. QED
    BY <2>1 DEF PausedInv
<1>2. CASE Restart
  BY <1>2, RestartTypes, ListeningType DEF PausedInv
<1>3. ASSUME NEW r \in Request, Ask(r) PROVE PausedInv'
  BY <1>3 DEF Ask, PausedInv, registry
<1>4. CASE Recv
  <2>1. UNCHANGED <<paused, registered>> /\ control.pc = "recv" /\ control'.pc # "apply"
    BY <1>0, <1>4 DEF Recv, Control, registry
  <2>2. QED
    BY <2>1 DEF PausedInv
<1>5. CASE Handle
  <2>1. /\ paused' = paused /\ control.pc = "handle"
        /\ registered' = IF control.op = "cancel" THEN registered \ {control.quest} ELSE registered
    BY <1>5 DEF Handle
  <2>2. CASE control.quest \in registered
    <3>1. control'.pc = "apply" /\ control'.op = control.op /\ control'.quest = control.quest
      BY <1>0, <1>5, <2>2 DEF Handle, Control
    <3>2. QED
      BY <2>1, <2>2, <3>1 DEF PausedInv
  <2>3. CASE control.quest \notin registered
    <3>1. control' = Listening
      BY <1>5, <2>3 DEF Handle
    <3>2. QED
      BY <2>1, <2>3, <3>1, ListeningType DEF PausedInv
  <2>4. QED
    BY <2>2, <2>3
<1>6. CASE Apply
  <2>1. /\ control' = Listening /\ registered' = registered /\ control.pc = "apply"
        /\ paused' = IF control.op = "pause" THEN paused \cup {control.quest}
                     ELSE paused \ {control.quest}
    BY <1>6 DEF Apply, registry
  <2>2. QED
    BY <2>1, ListeningType DEF PausedInv
<1>7. CASE UNCHANGED questVars
  BY <1>7 DEF questVars, registry, PausedInv
<1>8. QED
  BY <1>1, <1>2, <1>3, <1>4, <1>5, <1>6, <1>7, QStep DEF OtherStep

-----------------------------------------------------------------------------
(* The theorems.                                                           *)

QuestInv ==
  /\ QTypes /\ CallsGood /\ StampsInv /\ DirectoryInv /\ CompletionReported /\ PausedInv

LEMMA QuestInvInit == QuestInit => QuestInv /\ KeptInv
<1> SUFFICES ASSUME QuestInit PROVE QuestInv /\ KeptInv
  OBVIOUS
<1>1. QTypes /\ CallsGood
  BY QInit
<1>2. /\ files = {} /\ registered = {} /\ paused = {} /\ confirmed = {}
      /\ \A p \in Caller : call[p] = Waiting
      /\ control = Listening
  BY DEF QuestInit
<1>3. StampsInv /\ CompletionReported /\ PausedInv /\ KeptInv
  BY <1>2, WaitingType, ListeningType DEF StampsInv, CompletionReported, PausedInv, KeptInv
<1>4. DirectoryInv
  <2>1. IsFiniteSet(files) /\ \A q \in Quest : FilesOf(q) \ Doomed(q) = {}
    BY <1>2, FS_EmptySet DEF FilesOf
  <2>2. Cardinality({}) = 0 /\ MaxKeep \in Nat
    BY FS_EmptySet, QuestAssumption
  <2>3. QED
    BY <1>2, <2>1, <2>2 DEF DirectoryInv
<1>5. QED
  BY <1>1, <1>3, <1>4 DEF QuestInv

\* Stamps are unique, what no save is about to unlink fits the directory, the
\* end of a quest is in somebody's hands: the invariant of the theorems below.
THEOREM QuestInvariant == QuestSpec => []QuestInv
<1>1. QuestInv /\ [QuestNext]_questVars => QuestInv'
  BY QNext, StampsNext, DirectoryNext, ReportNext, PausedNext DEF QuestInv
<1>2. QED
  BY <1>1, QuestInvInit, PTL DEF QuestSpec

\* For every max_keep but 0: a checkpoint whose save returned Ok has for good an
\* intact file at least as new, whatever saves, prunes, torn writes and restarts
\* interleave.  (With max_keep = 0, which with_max_keep does not refuse, save
\* unlinks the very file it wrote.)
THEOREM CheckpointKeptProved ==
  ASSUME MaxKeep # 0
  PROVE  QuestSpec => []CheckpointKept
<1>1. QuestInv /\ KeptInv /\ [QuestNext]_questVars => KeptInv'
  BY KeptNext DEF QuestInv
<1>2. KeptInv => CheckpointKept
  BY DEF KeptInv, CheckpointKept, Newer, Intact, FilesOf
<1>3. QED
  BY <1>1, <1>2, QuestInvInit, QuestInvariant, PTL DEF QuestSpec

\* When the last task of a quest has come to its end the completion has been
\* published, is about to be, or a caller was told of an error.
THEOREM CompletionReportedProved == QuestSpec => []CompletionReported
<1>1. QuestInv => CompletionReported
  BY DEF QuestInv
<1>2. QED
  BY <1>1, QuestInvariant, PTL

\* The types, the bound on the checkpoint directory under overlapping saves,
\* and the agreement of the paused set with the registry.
THEOREM QuestBoundsProved ==
  QuestSpec => [](QuestTypeOK /\ DirectoryBounded /\ PausedIsRegistered)
<1>1. QuestInv => QuestTypeOK
  BY DEF QuestInv, QTypes, RegistryOK, DiskOK, RingOK, ControlOK, Control, StampsInv, CallsGood,
         CallGood, Steps, QuestTypeOK
<1>2. QuestInv => DirectoryBounded
  BY DirectoryImplied DEF QuestInv
<1>3. QuestInv => PausedIsRegistered
  BY DEF QuestInv, PausedInv, PausedIsRegistered
<1>4. QED
  BY <1>1, <1>2, <1>3, QuestInvariant, PTL

-----------------------------------------------------------------------------
(***************************************************************************)
(* Proofs about kahn_core, for every list of tasks of every length: the     *)
(* loop invariant, that no degree wraps, and that the verdict is the        *)
(* reference's.                                                             *)
(***************************************************************************)


Injective(s) == \A i, j \in DOMAIN s : s[i] = s[j] => i = j

\* A list without repetition is as long as what it lists.
LEMMA LengthOf ==
  ASSUME NEW T, NEW s \in Seq(T), Injective(s)
  PROVE  IsFiniteSet(Listed(s)) /\ Cardinality(Listed(s)) = Len(s)
<1>1. Len(s) \in Nat /\ DOMAIN s = 1 .. Len(s)
  OBVIOUS
<1>2. s \in Bijection(1 .. Len(s), Listed(s))
  BY <1>1 DEF Bijection, Injection, Surjection, IsInjective, Injective, Listed
<1>3. QED
  BY <1>1, <1>2, FS_Interval, FS_Bijection DEF ExistsBijection

\* sort_unstable: every member of S once.
LEMMA AscendingListed ==
  ASSUME NEW S \in SUBSET Nat, IsFiniteSet(S)
  PROVE  /\ Ascending(S) \in Seq(S) /\ Listed(Ascending(S)) = S
         /\ Injective(Ascending(S))
BY AscendingThere DEF Listed, Injective

-----------------------------------------------------------------------------
(* Lists without repetition.                                               *)

LEMMA AppendListed ==
  ASSUME NEW T, NEW s \in Seq(T), NEW x \in T
  PROVE  /\ Append(s, x) \in Seq(T)
         /\ Listed(Append(s, x)) = Listed(s) \cup {x}
         /\ Injective(s) /\ x \notin Listed(s) => Injective(Append(s, x))
<1>1. /\ Append(s, x) \in Seq(T) /\ DOMAIN s = 1 .. Len(s) /\ Len(s) \in Nat
      /\ DOMAIN Append(s, x) = 1 .. Len(s) + 1
      /\ Append(s, x)[Len(s) + 1] = x
      /\ \A k \in 1 .. Len(s) : Append(s, x)[k] = s[k]
  OBVIOUS
<1> DEFINE a == Append(s, x)
<1> HIDE DEF a
<1>2. Listed(a) \subseteq Listed(s) \cup {x}
  <2> SUFFICES ASSUME NEW k \in DOMAIN a PROVE a[k] \in Listed(s) \cup {x}
    BY DEF Listed
  <2>1. k \in 1 .. Len(s) \/ k = Len(s) + 1
    BY <1>1 DEF a
  <2>2. QED
    BY <1>1, <2>1 DEF a, Listed
<1>3. Listed(s) \subseteq Listed(a)
  <2> SUFFICES ASSUME NEW k \in DOMAIN s PROVE s[k] \in Listed(a)
    BY DEF Listed
  <2>1. k \in DOMAIN a /\ a[k] = s[k]
    BY <1>1 DEF a
  <2>2. QED
    BY <2>1 DEF Listed
<1>4. x \in Listed(a)
  <2>1. Len(s) + 1 \in DOMAIN a /\ a[Len(s) + 1] = x
    BY <1>1 DEF a
  <2>2. QED
    BY <2>1 DEF Listed
<1>5. ASSUME Injective(s), x \notin Listed(s) PROVE Injective(a)
  <2> SUFFICES ASSUME NEW i \in DOMAIN a, NEW j \in DOMAIN a, a[i] = a[j] PROVE i = j
    BY DEF Injective
  <2>1. \A k \in 1 .. Len(s) : a[k] = s[k] /\ s[k] # x
    BY <1>1, <1>5 DEF a, Listed
  <2>2. (i \in 1 .. Len(s) \/ i = Len(s) + 1) /\ (j \in 1 .. Len(s) \/ j = Len(s) + 1)
    BY <1>1 DEF a
  <2>3. CASE i \in 1 .. Len(s) /\ j \in 1 .. Len(s)
    BY <1>1, <1>5, <2>1, <2>3 DEF Injective
  <2>4. QED
    BY <1>1, <2>1, <2>2, <2>3 DEF a
<1>6. QED
  BY <1>1, <1>2, <1>3, <1>4, <1>5 DEF a

LEMMA TailListed ==
  ASSUME NEW T, NEW s \in Seq(T), s # <<>>, Injective(s)
  PROVE  /\ Tail(s) \in Seq(T) /\ Head(s) \in T
         /\ Listed(s) = {Head(s)} \cup Listed(Tail(s))
         /\ Head(s) \notin Listed(Tail(s)) /\ Injective(Tail(s))
<1> DEFINE t == Tail(s)
<1>1. /\ t \in Seq(T) /\ Head(s) \in T /\ Head(s) = s[1]
      /\ Len(s) \in Nat /\ Len(s) >= 1 /\ DOMAIN s = 1 .. Len(s)
      /\ DOMAIN t = 1 .. Len(s) - 1
      /\ \A k \in 1 .. Len(s) - 1 : t[k] = s[k + 1]
  OBVIOUS
<1> HIDE DEF t
<1>2. \A k \in DOMAIN t : k + 1 \in DOMAIN s /\ t[k] = s[k + 1]
  BY <1>1
<1>3. \A k \in DOMAIN s : k = 1 \/ (k - 1 \in DOMAIN t /\ t[k - 1] = s[k])
  <2> SUFFICES ASSUME NEW k \in DOMAIN s, k # 1 PROVE k - 1 \in DOMAIN t /\ t[k - 1] = s[k]
    OBVIOUS
  <2>1. k - 1 \in DOMAIN t /\ (k - 1) + 1 = k
    BY <1>1
  <2>2. QED
    BY <1>2, <2>1
<1>4. Listed(s) = {Head(s)} \cup Listed(t)
  <2>1. Listed(s) \subseteq {Head(s)} \cup Listed(t)
    BY <1>1, <1>3 DEF Listed
  <2>2. {Head(s)} \cup Listed(t) \subseteq Listed(s)
    BY <1>1, <1>2 DEF Listed
  <2>3. QED
    BY <2>1, <2>2
<1>5. Head(s) \notin Listed(t)
  <2> SUFFICES ASSUME NEW k \in DOMAIN t, t[k] = Head(s) PROVE FALSE
    BY DEF Listed
  <2>1. k + 1 \in DOMAIN s /\ 1 \in DOMAIN s /\ s[k + 1] = s[1] /\ k + 1 # 1
    BY <1>1, <1>2
  <2>2. QED
    BY <2>1 DEF Injective
<1>6. Injective(t)
  <2> SUFFICES ASSUME NEW i \in DOMAIN t, NEW j \in DOMAIN t, t[i] = t[j] PROVE i = j
    BY DEF Injective
  <2>1. i + 1 = j + 1
    BY <1>2 DEF Injective
  <2>2. QED
    BY <1>1, <2>1
<1>7. QED
  BY <1>1, <1>4, <1>5, <1>6 DEF t

LEMMA ConcatListed ==
  ASSUME NEW T, NEW s \in Seq(T), NEW r \in Seq(T), Injective(s), Injective(r),
         Listed(s) \cap Listed(r) = {}
  PROVE  /\ s \o r \in Seq(T) /\ Listed(s \o r) = Listed(s) \cup Listed(r)
         /\ Injective(s \o r)
<1> DEFINE c == s \o r
           m == Len(s)
           n == Len(r)
<1>1. /\ c \in Seq(T) /\ m \in Nat /\ n \in Nat /\ DOMAIN s = 1 .. m /\ DOMAIN r = 1 .. n
      /\ DOMAIN c = 1 .. m + n
      /\ \A k \in 1 .. m : c[k] = s[k]
      /\ \A k \in 1 .. m + n : k > m => c[k] = r[k - m]
  OBVIOUS
<1> HIDE DEF c, m, n
<1>2. \A k \in DOMAIN c : \/ k \in DOMAIN s /\ c[k] = s[k]
                          \/ k > m /\ k - m \in DOMAIN r /\ c[k] = r[k - m]
  BY <1>1
<1>3. \A k \in DOMAIN r : m + k \in DOMAIN c /\ c[m + k] = r[k]
  <2> SUFFICES ASSUME NEW k \in DOMAIN r PROVE m + k \in DOMAIN c /\ c[m + k] = r[k]
    OBVIOUS
  <2>1. m + k \in 1 .. m + n /\ m + k > m /\ (m + k) - m = k
    BY <1>1
  <2>2. QED
    BY <1>1, <2>1
<1>4. \A k \in DOMAIN s : k \in DOMAIN c /\ c[k] = s[k]
  BY <1>1
<1>5. Listed(c) = Listed(s) \cup Listed(r)
  <2>1. Listed(c) \subseteq Listed(s) \cup Listed(r)
    BY <1>2 DEF Listed
  <2>2. Listed(s) \subseteq Listed(c)
    BY <1>4 DEF Listed
  <2>3. Listed(r) \subseteq Listed(c)
    BY <1>3 DEF Listed
  <2>4. QED
    BY <2>1, <2>2, <2>3
<1>6. Injective(c)
  <2> SUFFICES ASSUME NEW i \in DOMAIN c, NEW j \in DOMAIN c, c[i] = c[j] PROVE i = j
    BY DEF Injective
  <2>1. CASE i \in DOMAIN s /\ c[i] = s[i] /\ j \in DOMAIN s /\ c[j] = s[j]
    BY <2>1 DEF Injective
  <2>2. CASE /\ i > m /\ i - m \in DOMAIN r /\ c[i] = r[i - m]
             /\ j > m /\ j - m \in DOMAIN r /\ c[j] = r[j - m]
    <3>1. i - m = j - m
      BY <2>2 DEF Injective
    <3>2. QED
      BY <1>1, <2>2, <3>1
  <2>3. \A k \in DOMAIN s, l \in DOMAIN r : s[k] # r[l]
    BY DEF Listed
  <2>4. QED
    BY <1>2, <2>1, <2>2, <2>3
<1>7. QED
  BY <1>1, <1>5, <1>6 DEF c

-----------------------------------------------------------------------------
(* The edges between two ids.                                              *)

\* The dependencies the tasks called x list and L lacks.
Waits(x, L) ==
  {e \in Index \X TaskId : idOf[e[1]] = x /\ e[2] \in depsOf[e[1]] \ L}

\* The tasks called x that list d.
Listing(x, d) == {i \in Index : idOf[i] = x /\ d \in depsOf[i]}

DagTypes ==
  /\ idOf \in [Index -> TaskId] /\ depsOf \in [Index -> SUBSET TaskId] /\ times \in Repeats
  /\ verdict \in {"start", "dangling", "busy", "cyclic", "ok"}
  /\ ready \in Seq(Present) /\ sorted \in Seq(Present)

LEMMA FiniteIndex ==
  /\ IsFiniteSet(Index) /\ Cardinality(Index) = NumTasks
  /\ IsFiniteSet(Index \X TaskId)
<1>1. IsFiniteSet(Index) /\ Cardinality(Index) = NumTasks
  BY DagAssumption, FS_Interval DEF Index
<1>2. QED
  BY <1>1, DagAssumption, FS_Product

LEMMA CountsFinite ==
  ASSUME NEW x, NEW d, NEW L
  PROVE  /\ IsFiniteSet(Waits(x, L)) /\ Cardinality(Waits(x, L)) \in Nat
         /\ IsFiniteSet(Listing(x, d)) /\ Cardinality(Listing(x, d)) \in Nat
<1>1. IsFiniteSet(Waits(x, L))
  BY FiniteIndex, FS_Subset DEF Waits
<1>2. IsFiniteSet(Listing(x, d))
  BY FiniteIndex, FS_Subset DEF Listing
<1>3. QED
  BY <1>1, <1>2, FS_CardinalityType

LEMMA EdgesAre ==
  ASSUME NEW x, NEW d
  PROVE  Edges(x, d) = times * Cardinality(Listing(x, d))
BY DEF Edges, Listing

LEMMA Product ==
  ASSUME NEW m \in Nat \ {0}, NEW a \in Nat, NEW b \in Nat, b <= a
  PROVE  /\ m * a - m * b = m * (a - b) /\ m * (a - b) \in Nat
         /\ m * a \in Nat /\ (m * a = 0 <=> a = 0)
         /\ m * (a - b) <= m * a /\ (m * a > 0 <=> a > 0)
OBVIOUS

\* One id more in the order takes its edges, and only these, off the count.
LEMMA OneLess ==
  ASSUME DagTypes, NEW x, NEW L, NEW d \in TaskId, d \notin L
  PROVE  /\ Cardinality(Listing(x, d)) <= Cardinality(Waits(x, L))
         /\ Cardinality(Waits(x, L \cup {d})) =
              Cardinality(Waits(x, L)) - Cardinality(Listing(x, d))
<1> DEFINE I == Listing(x, d)
           D == {<<i, d>> : i \in I}
           W == Waits(x, L)
           f == [i \in I |-> <<i, d>>]
<1>1. f \in Bijection(I, D)
  <2>1. \A i, j \in I : f[i] = f[j] => i = j
    OBVIOUS
  <2>2. f \in [I -> D]
    OBVIOUS
  <2>3. \A e \in D : \E i \in I : f[i] = e
    OBVIOUS
  <2> HIDE DEF f, D, I
  <2>4. QED
    BY <2>1, <2>2, <2>3 DEF Bijection, Injection, Surjection, IsInjective
<1>2. IsFiniteSet(D) /\ Cardinality(D) = Cardinality(I)
  <2>1. IsFiniteSet(I)
    BY CountsFinite
  <2>2. ExistsBijection(I, D)
    BY <1>1 DEF ExistsBijection
  <2> HIDE DEF I, D, f
  <2>3. QED
    BY <2>1, <2>2, FS_Bijection
<1>3. D \subseteq W
  BY DEF Listing, Waits, DagTypes
<1>4. Waits(x, L \cup {d}) = W \ D
  <2>1. ASSUME NEW e \in Index \X TaskId, e \in W
        PROVE  e \in D <=> e[2] = d
    <3>1. e = <<e[1], e[2]>> /\ e[1] \in Index /\ idOf[e[1]] = x /\ e[2] \in depsOf[e[1]]
      BY <2>1 DEF Waits
    <3>2. QED
      BY <3>1 DEF Listing
  <2>2. QED
    BY <2>1 DEF Waits
<1> HIDE DEF D, W, I, f
<1>5. IsFiniteSet(W) /\ Cardinality(W) \in Nat /\ Cardinality(I) \in Nat
  BY CountsFinite DEF W, I
<1>6. Cardinality(D) <= Cardinality(W)
  BY <1>3, <1>5, FS_Subset
<1>7. Cardinality(W \ D) = Cardinality(W) - Cardinality(W \cap D)
  BY <1>5, <1>2, FS_Difference
<1>8. W \cap D = D
  BY <1>3
<1>9. QED
  BY <1>2, <1>4, <1>6, <1>7, <1>8 DEF W, I

-----------------------------------------------------------------------------
(* The inductive invariant.                                                *)

DegreesCount ==
  \A x \in Present : degree[x] = times * Cardinality(Waits(x, Listed(sorted)))

ZeroIsListed ==
  \A x \in Present : degree[x] = 0 <=> x \in Listed(sorted) \cup Listed(ready)

OnceEach ==
  /\ Injective(sorted) /\ Injective(ready)
  /\ Listed(sorted) \cap Listed(ready) = {}

InOrder == \A k, l \in DOMAIN sorted : Edges(sorted[k], sorted[l]) > 0 => l < k

RunOK ==
  /\ ~Dangling /\ degree \in [Present -> Nat]
  /\ DegreesCount /\ ZeroIsListed /\ OnceEach /\ InOrder

DagInv ==
  /\ DagTypes
  /\ verdict = "start" => ready = <<>> /\ sorted = <<>>
  /\ verdict = "dangling" => Dangling
  /\ verdict \in {"busy", "cyclic", "ok"} => RunOK
  /\ verdict = "cyclic" => ready = <<>> /\ Short
  /\ verdict = "ok" => ready = <<>> /\ ~Short

LEMMA PresentSize ==
  ASSUME DagTypes
  PROVE  /\ Present \subseteq TaskId /\ Present \subseteq Nat
         /\ IsFiniteSet(Present) /\ Cardinality(Present) \in Nat
         /\ Cardinality(Present) <= NumTasks
         /\ Cardinality(Present) = NumTasks <=> Distinct
<1>1. Present \subseteq TaskId /\ Present \subseteq Nat
  BY DagAssumption DEF DagTypes, Present
<1>2. idOf \in Surjection(Index, Present)
  BY DEF DagTypes, Present, Surjection
<1>3. /\ IsFiniteSet(Present) /\ Cardinality(Present) <= NumTasks
      /\ Cardinality(Present) = NumTasks <=> idOf \in Injection(Index, Present)
  BY <1>2, FiniteIndex, FS_Surjection
<1>4. idOf \in Injection(Index, Present) <=> Distinct
  BY <1>2 DEF Surjection, Injection, IsInjective, Distinct
<1>5. QED
  BY <1>1, <1>3, <1>4, FS_CardinalityType

LEMMA TimesPositive ==
  ASSUME DagTypes PROVE times \in Nat \ {0}
BY DagAssumption DEF DagTypes

\* A task without a missing dependency only lists what is already in the order.
LEMMA ZeroWaitsForNothing ==
  ASSUME DagTypes, RunOK, NEW x \in Present, degree[x] = 0, NEW d, Edges(x, d) > 0
  PROVE  d \in Listed(sorted)
<1> DEFINE L == Listed(sorted)
<1>1. Cardinality(Listing(x, d)) # 0
  <2>1. times * Cardinality(Listing(x, d)) > 0
    BY EdgesAre
  <2>2. QED
    BY <2>1, TimesPositive, CountsFinite
<1>2. PICK i : i \in Listing(x, d)
  <2>1. Listing(x, d) # {}
    BY <1>1, FS_EmptySet
  <2>2. QED
    BY <2>1
<1>3. Waits(x, L) = {}
  <2>1. times * Cardinality(Waits(x, L)) = 0
    BY DEF RunOK, DegreesCount
  <2>2. Cardinality(Waits(x, L)) = 0
    <3> DEFINE n == Cardinality(Waits(x, L))
    <3>1. n \in Nat /\ times * n = 0
      BY <2>1, CountsFinite
    <3> HIDE DEF n
    <3>2. n = 0
      BY <3>1, TimesPositive, Product
    <3>3. QED
      BY <3>2 DEF n
  <2>3. QED
    BY <2>2, CountsFinite, FS_EmptySet
<1> HIDE DEF L
<1>4. i \in Index /\ idOf[i] = x /\ d \in depsOf[i] /\ d \in TaskId
  BY <1>2 DEF Listing, DagTypes
<1>5. ASSUME d \notin L PROVE <<i, d>> \in Waits(x, L)
  BY <1>4, <1>5 DEF Waits
<1>6. QED
  BY <1>3, <1>5 DEF L

LEMMA DagStart ==
  DagInit => DagInv
<1> SUFFICES ASSUME DagInit PROVE DagInv
  OBVIOUS
<1>1. ready \in Seq(Present) /\ sorted \in Seq(Present)
  BY DEF DagInit
<1>2. QED
  BY <1>1 DEF DagInit, DagInv, DagTypes

LEMMA PrepareStep ==
  ASSUME DagInv, Prepare PROVE DagInv'
<1>1. /\ verdict = "start" /\ DagTypes /\ ready = <<>> /\ sorted = <<>>
      /\ idOf' = idOf /\ depsOf' = depsOf /\ times' = times /\ sorted' = sorted
  BY DEF DagInv, Prepare
<1>2. Present' = Present /\ (Dangling' <=> Dangling)
  BY <1>1 DEF Present, Dangling, Index
<1>3. CASE Dangling
  <2>1. verdict' = "dangling" /\ ready' = ready
    BY <1>3 DEF Prepare
  <2>2. DagTypes'
    BY <1>1, <1>2, <2>1 DEF DagTypes, Index
  <2>3. QED
    BY <1>2, <1>3, <2>1, <2>2 DEF DagInv
<1>4. CASE ~Dangling
  <2> DEFINE Z == {x \in Present : Degrees[x] = 0}
  <2>1. degree' = Degrees /\ ready' = Ascending(Z) /\ verdict' = "busy"
    BY <1>4 DEF Prepare
  <2>2. \A x \in Present : Degrees[x] = times * Cardinality(Waits(x, {}))
    BY DEF Degrees, Waits
  <2>3. DOMAIN Degrees = Present /\ Degrees = [x \in Present |-> Degrees[x]]
    BY DEF Degrees
  <2>4. Degrees \in [Present -> Nat]
    <3>1. \A x \in Present : Degrees[x] \in Nat
      <4> SUFFICES ASSUME NEW x \in Present PROVE Degrees[x] \in Nat
        OBVIOUS
      <4> DEFINE n == Cardinality(Waits(x, {}))
      <4>1. n \in Nat /\ Degrees[x] = times * n
        BY <2>2, CountsFinite
      <4> HIDE DEF n
      <4>2. QED
        BY <1>1, <4>1, TimesPositive
    <3>2. QED
      BY <2>3, <3>1
  <2>5. /\ ready' \in Seq(Z) /\ Listed(ready') = Z /\ Injective(ready')
    <3>1. Z \in SUBSET Nat /\ IsFiniteSet(Z)
      BY <1>1, PresentSize, FS_Subset
    <3> HIDE DEF Z
    <3>2. QED
      BY <2>1, <3>1, AscendingListed
  <2>6. ready' \in Seq(Present) /\ Z \subseteq Present
    BY <2>5
  <2>7. sorted' = <<>> /\ Listed(sorted') = {} /\ Injective(sorted')
    BY <1>1 DEF Listed, Injective
  <2>8. DagTypes'
    BY <1>1, <1>2, <2>1, <2>6 DEF DagTypes, Index
  <2>9. DegreesCount'
    <3>1. \A x : Waits(x, {})' = Waits(x, {})
      BY <1>1 DEF Waits, Index
    <3>2. QED
      BY <1>1, <1>2, <2>1, <2>2, <2>7, <3>1 DEF DegreesCount
  <2>10. ZeroIsListed'
    BY <1>2, <2>1, <2>5, <2>7 DEF ZeroIsListed
  <2>11. OnceEach'
    BY <2>5, <2>7 DEF OnceEach
  <2>12. InOrder'
    BY <2>7 DEF InOrder
  <2>13. RunOK'
    BY <1>2, <1>4, <2>1, <2>4, <2>9, <2>10, <2>11, <2>12 DEF RunOK
  <2>14. QED
    BY <2>1, <2>8, <2>13 DEF DagInv
<1>5. QED
  BY <1>3, <1>4

LEMMA JudgeStep ==
  ASSUME DagInv, Judge PROVE DagInv'
<1>1. /\ verdict = "busy" /\ ready = <<>> /\ DagTypes /\ RunOK
      /\ idOf' = idOf /\ depsOf' = depsOf /\ times' = times /\ sorted' = sorted
      /\ degree' = degree /\ ready' = ready
      /\ verdict' = IF Short THEN "cyclic" ELSE "ok"
  BY DEF DagInv, Judge
<1>2. Present' = Present /\ (Dangling' <=> Dangling) /\ (Short' <=> Short)
  BY <1>1 DEF Present, Dangling, Index, Short
<1>3. DagTypes'
  BY <1>1, <1>2 DEF DagTypes, Index
<1>4. RunOK'
  <2>1. DegreesCount' /\ ZeroIsListed' /\ OnceEach' /\ InOrder'
    BY <1>1, <1>2 DEF RunOK, DegreesCount, ZeroIsListed, OnceEach, InOrder, Waits, Edges, Index
  <2>2. QED
    BY <1>1, <1>2, <2>1 DEF RunOK
<1>5. QED
  BY <1>1, <1>2, <1>3, <1>4 DEF DagInv

LEMMA PopReadyStep ==
  ASSUME DagInv, PopReady PROVE DagInv'
<1> DEFINE id == Head(ready)
           L  == Listed(sorted)
           Q  == Listed(Tail(ready))
           left == [x \in Present |-> degree[x] - Edges(x, id)]
           N  == {x \in Present : NewlyReady(x, left[x])}
<1>1. /\ verdict = "busy" /\ ready # <<>> /\ DagTypes /\ RunOK
      /\ idOf' = idOf /\ depsOf' = depsOf /\ times' = times /\ verdict' = verdict
      /\ sorted' = Append(sorted, id) /\ degree' = left
      /\ ready' = Tail(ready) \o Ascending(N)
  BY DEF DagInv, PopReady
<1>2. Present' = Present /\ (Dangling' <=> Dangling)
  BY <1>1 DEF Present, Dangling, Index
<1>3. /\ id \in Present /\ Tail(ready) \in Seq(Present)
      /\ Listed(ready) = {id} \cup Q /\ id \notin Q /\ Injective(Tail(ready))
  <2>1. ready \in Seq(Present) /\ Injective(ready)
    BY <1>1 DEF DagTypes, RunOK, OnceEach
  <2>2. QED
    BY <1>1, <2>1, TailListed
<1>4. id \notin L /\ L \cap Q = {} /\ degree[id] = 0 /\ id \in TaskId
  <2>1. L \cap ({id} \cup Q) = {} /\ id \in L \cup Listed(ready)
    BY <1>1, <1>3 DEF RunOK, OnceEach
  <2>2. degree[id] = 0
    BY <1>1, <1>3, <2>1 DEF RunOK, ZeroIsListed
  <2>3. QED
    BY <1>1, <1>3, <2>1, <2>2, PresentSize
<1>5. /\ sorted' \in Seq(Present) /\ Listed(sorted') = L \cup {id} /\ Injective(sorted')
  <2>1. sorted \in Seq(Present) /\ Injective(sorted)
    BY <1>1 DEF DagTypes, RunOK, OnceEach
  <2>2. QED
    BY <1>1, <1>3, <1>4, <2>1, AppendListed
\* What one pop does to a degree.
<1>6. ASSUME NEW x \in Present
      PROVE  /\ degree[x] \in Nat /\ left[x] \in Nat /\ left[x] <= degree[x]
             /\ left[x] = times * Cardinality(Waits(x, L \cup {id}))
  <2> DEFINE w == Cardinality(Waits(x, L))
             i == Cardinality(Listing(x, id))
             v == Cardinality(Waits(x, L \cup {id}))
  <2>1. w \in Nat /\ i \in Nat
    BY CountsFinite
  <2>2. i <= w /\ v = w - i
    BY <1>1, <1>4, OneLess
  <2>3. degree[x] = times * w /\ left[x] = degree[x] - times * i
    BY <1>1, EdgesAre DEF RunOK, DegreesCount
  <2> HIDE DEF w, i, v, left
  <2>4. /\ times * w - times * i = times * (w - i) /\ times * (w - i) \in Nat
        /\ times * w \in Nat /\ times * (w - i) <= times * w
    BY <1>1, <2>1, <2>2, TimesPositive, Product
  <2>5. QED
    BY <2>2, <2>3, <2>4 DEF v
<1>7. /\ N \subseteq Present /\ \A x \in Present : left[x] = 0 <=> degree[x] = 0 \/ x \in N
      /\ \A x \in N : degree[x] # 0
  <2>1. \A x \in Present : x \in N <=> left[x] < degree[x] /\ left[x] = 0
    BY DEF NewlyReady
  <2>2. N \subseteq Present
    OBVIOUS
  <2> HIDE DEF N, left
  <2>3. QED
    BY <1>6, <2>1, <2>2
<1>8. Ascending(N) \in Seq(N) /\ Listed(Ascending(N)) = N /\ Injective(Ascending(N))
  <2>1. N \in SUBSET Nat /\ IsFiniteSet(N)
    BY <1>1, <1>7, PresentSize, FS_Subset
  <2> HIDE DEF N
  <2>2. QED
    BY <2>1, AscendingListed
<1>9. (L \cup Listed(ready)) \cap N = {}
  BY <1>1, <1>7 DEF RunOK, ZeroIsListed
<1> HIDE DEF N, left
<1>10. /\ ready' \in Seq(Present) /\ Listed(ready') = Q \cup N /\ Injective(ready')
  <2>1. Ascending(N) \in Seq(Present)
    BY <1>7, <1>8
  <2>2. Q \cap Listed(Ascending(N)) = {}
    BY <1>3, <1>8, <1>9
  <2> DEFINE t == Tail(ready)
             a == Ascending(N)
  <2>3. /\ t \in Seq(Present) /\ a \in Seq(Present) /\ Injective(t) /\ Injective(a)
        /\ Listed(t) \cap Listed(a) = {}
    BY <1>3, <1>8, <2>1, <2>2
  <2>4. ready' = t \o a /\ Listed(t) = Q /\ Listed(a) = N
    BY <1>1, <1>8
  <2> HIDE DEF t, a, Q
  <2>5. /\ t \o a \in Seq(Present) /\ Listed(t \o a) = Listed(t) \cup Listed(a)
        /\ Injective(t \o a)
    BY <2>3, ConcatListed
  <2>6. QED
    BY <2>4, <2>5
<1>11. DagTypes'
  BY <1>1, <1>2, <1>5, <1>10 DEF DagTypes, Index
<1>12. degree' \in [Present -> Nat] /\ \A x \in Present : degree'[x] = left[x]
  BY <1>1, <1>6 DEF left
<1>13. DegreesCount'
  <2>1. ASSUME NEW x \in Present
        PROVE  degree'[x] = times' * Cardinality(Waits(x, Listed(sorted))')
    <3>1. Waits(x, Listed(sorted))' = Waits(x, L \cup {id})
      BY <1>1, <1>5 DEF Waits, Index
    <3>2. QED
      BY <1>1, <1>6, <1>12, <3>1
  <2>2. QED
    BY <1>2, <2>1 DEF DegreesCount
<1>14. ZeroIsListed'
  <2>1. ASSUME NEW x \in Present
        PROVE  degree'[x] = 0 <=> x \in Listed(sorted') \cup Listed(ready')
    <3>1. degree[x] = 0 <=> x \in L \cup Listed(ready)
      BY <1>1 DEF RunOK, ZeroIsListed
    <3>2. degree'[x] = 0 <=> degree[x] = 0 \/ x \in N
      BY <1>7, <1>12
    <3>3. QED
      BY <1>3, <1>5, <1>10, <3>1, <3>2
  <2>2. QED
    BY <1>2, <2>1 DEF ZeroIsListed
<1>15. OnceEach'
  <2>1. (L \cup {id}) \cap (Q \cup N) = {}
    BY <1>3, <1>4, <1>9
  <2>2. QED
    BY <1>5, <1>10, <2>1 DEF OnceEach
<1>16. InOrder'
  <2>1. \A x, d : Edges(x, d)' = Edges(x, d)
    BY <1>1 DEF Edges, Index
  <2>2. /\ Len(sorted) \in Nat /\ DOMAIN sorted = 1 .. Len(sorted)
        /\ DOMAIN sorted' = 1 .. Len(sorted) + 1
        /\ \A k \in 1 .. Len(sorted) : sorted'[k] = sorted[k]
        /\ sorted'[Len(sorted) + 1] = id
    BY <1>1, <1>3 DEF DagTypes
  <2>3. \A x \in L \cup {id} : ~(Edges(x, id) > 0)
    <3> SUFFICES ASSUME NEW x \in L \cup {id}, Edges(x, id) > 0 PROVE FALSE
      OBVIOUS
    <3>1. x \in Present
      BY <1>1, <1>3 DEF DagTypes, Listed
    <3>2. degree[x] = 0
      BY <1>1, <1>4, <3>1 DEF RunOK, ZeroIsListed
    <3>3. QED
      BY <1>1, <1>4, <3>1, <3>2, ZeroWaitsForNothing
  <2>4. ASSUME NEW k \in DOMAIN sorted', NEW l \in DOMAIN sorted', Edges(sorted'[k], sorted'[l]) > 0
        PROVE  l < k
    <3>1. sorted'[k] \in L \cup {id}
      BY <1>5 DEF Listed
    <3>2. l # Len(sorted) + 1
      BY <2>2, <2>3, <2>4, <3>1
    <3>3. l \in 1 .. Len(sorted)
      BY <2>2, <3>2
    <3>4. CASE k = Len(sorted) + 1
      BY <2>2, <3>3, <3>4
    <3>5. CASE k # Len(sorted) + 1
      <4>1. k \in DOMAIN sorted /\ l \in DOMAIN sorted
        BY <2>2, <3>3, <3>5
      <4>2. Edges(sorted[k], sorted[l]) > 0
        BY <2>2, <2>4, <4>1
      <4>3. QED
        BY <1>1, <4>1, <4>2 DEF RunOK, InOrder
    <3>6. QED
      BY <3>4, <3>5
  <2>5. QED
    BY <2>1, <2>4 DEF InOrder
<1>17. RunOK'
  BY <1>1, <1>2, <1>12, <1>13, <1>14, <1>15, <1>16 DEF RunOK
<1>18. QED
  BY <1>1, <1>11, <1>17 DEF DagInv

LEMMA DagStutter ==
  ASSUME DagInv, UNCHANGED dagVars PROVE DagInv'
<1>1. /\ idOf' = idOf /\ depsOf' = depsOf /\ times' = times /\ sorted' = sorted
      /\ degree' = degree /\ ready' = ready /\ verdict' = verdict
  BY DEF dagVars
<1>2. Present' = Present /\ (Dangling' <=> Dangling) /\ (Short' <=> Short)
  BY <1>1 DEF Present, Dangling, Index, Short
<1>3. DagTypes <=> DagTypes'
  BY <1>1, <1>2 DEF DagTypes, Index
<1>4. RunOK => RunOK'
  BY <1>1, <1>2 DEF RunOK, DegreesCount, ZeroIsListed, OnceEach, InOrder, Waits, Edges, Index
<1>5. QED
  BY <1>1, <1>2, <1>3, <1>4 DEF DagInv

\* dag.rs kahn_core: at every turn of the loop, on every list of tasks, a degree
\* counts the edges to what is not in the order yet, and the queue and the order
\* hold exactly the ids without one, each once.
THEOREM DagInvariant == DagSpec => []DagInv
<1>1. DagInv /\ [DagNext]_dagVars => DagInv'
  BY PrepareStep, PopReadyStep, JudgeStep, DagStutter DEF DagNext
<1>2. QED
  BY <1>1, DagStart, PTL DEF DagSpec

LEMMA OkIsRight ==
  ASSUME DagInv, verdict = "ok"
  PROVE  GoodOrder(sorted) /\ ~Cyclic
<1>1. DagTypes /\ RunOK /\ ready = <<>> /\ ~Short
  BY DEF DagInv
<1>2. /\ sorted \in Seq(Present) /\ Injective(sorted) /\ Len(sorted) \in Nat
      /\ DOMAIN sorted = 1 .. Len(sorted) /\ Listed(sorted) \subseteq Present
  BY <1>1 DEF DagTypes, RunOK, OnceEach, Listed
<1>3. Cardinality(Listed(sorted)) = Len(sorted)
  BY <1>2, LengthOf
<1>4. Len(sorted) >= NumTasks
  BY <1>1, <1>2, DagAssumption DEF Short
<1>5. /\ IsFiniteSet(Present) /\ Cardinality(Present) \in Nat
      /\ Cardinality(Present) <= NumTasks
  BY <1>1, PresentSize
<1>6. Cardinality(Listed(sorted)) <= Cardinality(Present)
  BY <1>2, <1>5, FS_Subset
<1>7. Len(sorted) = NumTasks /\ Cardinality(Listed(sorted)) = Cardinality(Present)
  <2> DEFINE c == Cardinality(Listed(sorted))
             p == Cardinality(Present)
             n == Len(sorted)
  <2>1. /\ n \in Nat /\ p \in Nat /\ NumTasks \in Nat
        /\ c = n /\ n >= NumTasks /\ p <= NumTasks /\ c <= p
    BY <1>2, <1>3, <1>4, <1>5, <1>6, DagAssumption
  <2> HIDE DEF c, p, n
  <2>2. n = NumTasks /\ c = p
    BY <2>1
  <2>3. QED
    BY <2>2 DEF c, p, n
<1>8. Listed(sorted) = Present
  BY <1>2, <1>5, <1>7, FS_Subset
<1>9. ~Cyclic
  <2> SUFFICES ASSUME NEW S \in SUBSET Present, S # {},
                      \A x \in S : \E d \in S : Edges(x, d) > 0
               PROVE  FALSE
    BY DEF Cyclic
  <2> DEFINE K == {k \in DOMAIN sorted : sorted[k] \in S}
  <2>1. K # {}
    BY <1>8 DEF Listed
  <2>2. K \in SUBSET Nat /\ IsFiniteSet(K)
    <3>1. IsFiniteSet(1 .. Len(sorted))
      BY <1>2, FS_Interval
    <3>2. K \in SUBSET (1 .. Len(sorted)) /\ K \in SUBSET Nat
      BY <1>2
    <3> HIDE DEF K
    <3>3. QED
      BY <3>1, <3>2, FS_Subset
  <2>3. PICK k \in K : \A n \in K : k <= n
    <3> HIDE DEF K
    <3> QED
      BY <2>1, <2>2, LeastNumber
  <2>4. PICK d \in S : Edges(sorted[k], d) > 0
    OBVIOUS
  <2>5. PICK l \in DOMAIN sorted : sorted[l] = d
    BY <1>8 DEF Listed
  <2>6. l < k
    BY <1>1, <2>4, <2>5 DEF RunOK, InOrder
  <2>7. k <= l
    BY <2>3, <2>5
  <2>8. QED
    BY <1>2, <2>6, <2>7
<1>10. QED
  BY <1>1, <1>7, <1>8, <1>9 DEF GoodOrder, RunOK, InOrder

LEMMA CyclicIsRight ==
  ASSUME DagInv, verdict = "cyclic", Distinct
  PROVE  Cyclic
<1> DEFINE L == Listed(sorted)
           S == Present \ L
<1>1. DagTypes /\ RunOK /\ ready = <<>> /\ Short
  BY DEF DagInv
<1>2. sorted \in Seq(Present) /\ Injective(sorted) /\ L \subseteq Present
  BY <1>1 DEF DagTypes, RunOK, OnceEach, Listed
<1>3. Cardinality(L) < NumTasks
  BY <1>1, <1>2, LengthOf DEF Short
<1>4. S # {}
  <2>1. Cardinality(Present) = NumTasks
    BY <1>1, PresentSize
  <2>2. L # Present
    BY <1>3, <2>1, DagAssumption
  <2>3. QED
    BY <1>2, <2>2
<1>5. ASSUME NEW x \in S PROVE \E d \in S : Edges(x, d) > 0
  <2>1. degree[x] # 0
    BY <1>1 DEF RunOK, ZeroIsListed, Listed
  <2>2. Waits(x, L) # {}
    <3>1. degree[x] = times * Cardinality(Waits(x, L))
      BY <1>1 DEF RunOK, DegreesCount
    <3>2. Waits(x, L) = {} => Cardinality(Waits(x, L)) = 0
      BY FS_EmptySet
    <3>3. QED
      BY <1>1, <2>1, <3>1, <3>2, TimesPositive
  <2>3. PICK e \in Index \X TaskId : idOf[e[1]] = x /\ e[2] \in depsOf[e[1]] \ L
    BY <2>2 DEF Waits
  <2>4. e[1] \in Index /\ e[2] \in S
    BY <1>1, <2>3 DEF RunOK, Dangling
  <2>5. Listing(x, e[2]) # {}
    BY <2>3, <2>4 DEF Listing
  <2>6. Edges(x, e[2]) > 0
    <3> DEFINE n == Cardinality(Listing(x, e[2]))
    <3>1. n \in Nat /\ n # 0
      BY <2>5, CountsFinite, FS_EmptySet
    <3>2. Edges(x, e[2]) = times * n
      BY EdgesAre
    <3> HIDE DEF n
    <3>3. QED
      BY <1>1, <3>1, <3>2, TimesPositive, Product
  <2>7. QED
    BY <2>4, <2>6
<1>6. QED
  BY <1>4, <1>5 DEF Cyclic

\* dag.rs validate_dag and topological_order, for every list of tasks: Ok comes
\* with every task once and after its dependencies and only where there is no
\* cycle; CyclicDependency only for a cycle or a repeated id; a dangling
\* dependency is reported first.
THEOREM DagVerdictProved == DagSpec => []DagVerdict
<1>1. DagInv => DagVerdict
  <2> SUFFICES ASSUME DagInv PROVE DagVerdict
    OBVIOUS
  <2>1. verdict = "ok" => GoodOrder(sorted) /\ ~Cyclic /\ ~Dangling
    BY OkIsRight DEF DagInv, RunOK
  <2>2. verdict = "cyclic" => ~Dangling /\ (Cyclic \/ ~Distinct)
    BY CyclicIsRight DEF DagInv, RunOK
  <2>3. QED
    BY <2>1, <2>2 DEF DagInv, DagVerdict
<1>2. QED
  BY <1>1, DagInvariant, PTL

LEMMA TwoParts ==
  ASSUME NEW A, NEW B, IsFiniteSet(A), IsFiniteSet(B), A \cap B = {}
  PROVE  Cardinality(A \cup B) = Cardinality(A) + Cardinality(B)
<1>1. Cardinality(A \cup B) = Cardinality(A) + Cardinality(B) - Cardinality(A \cap B)
  BY FS_Union
<1>2. Cardinality(A \cap B) = 0
  BY FS_EmptySet
<1>3. Cardinality(A) \in Nat /\ Cardinality(B) \in Nat
  BY FS_CardinalityType
<1>4. QED
  BY <1>1, <1>2, <1>3

\* dag.rs kahn_core: the degrees (usize) never wrap below zero, and the loop
\* invariant holds as it is stated in the model.
THEOREM DagLoopProved == DagSpec => [](DagTypeOK /\ DagLoop)
<1>1. DagInv => DagTypeOK
  BY DEF DagInv, DagTypes, RunOK, DagTypeOK
<1>2. DagInv => DagLoop
  <2> SUFFICES ASSUME DagInv, verdict = "busy" PROVE
          /\ \A x \in Present :
                 degree[x] = times * Cardinality({e \in Index \X TaskId :
                     idOf[e[1]] = x /\ e[2] \in depsOf[e[1]] \ Listed(sorted)})
          /\ Listed(sorted) \cup Listed(ready) = {x \in Present : degree[x] = 0}
          /\ Len(sorted) + Len(ready) = Cardinality({x \in Present : degree[x] = 0})
    BY DEF DagLoop
  <2> DEFINE Z == {x \in Present : degree[x] = 0}
  <2>1. DagTypes /\ RunOK
    BY DEF DagInv
  <2>2. /\ sorted \in Seq(Present) /\ ready \in Seq(Present)
        /\ Injective(sorted) /\ Injective(ready) /\ Listed(sorted) \cap Listed(ready) = {}
    BY <2>1 DEF DagTypes, RunOK, OnceEach
  <2>3. Listed(sorted) \subseteq Present /\ Listed(ready) \subseteq Present
    BY <2>2 DEF Listed
  <2>4. Listed(sorted) \cup Listed(ready) = Z
    BY <2>1, <2>3 DEF RunOK, ZeroIsListed
  <2>5. /\ IsFiniteSet(Listed(sorted)) /\ Cardinality(Listed(sorted)) = Len(sorted)
        /\ IsFiniteSet(Listed(ready)) /\ Cardinality(Listed(ready)) = Len(ready)
    BY <2>2, LengthOf
  <2> HIDE DEF Z
  <2>6. Cardinality(Z) = Len(sorted) + Len(ready)
    <3>1. Cardinality(Listed(sorted) \cup Listed(ready)) =
            Cardinality(Listed(sorted)) + Cardinality(Listed(ready))
      BY <2>2, <2>5, TwoParts
    <3>2. QED
      BY <2>4, <2>5, <3>1
  <2>7. \A x \in Present : degree[x] = times * Cardinality(Waits(x, Listed(sorted)))
    BY <2>1 DEF RunOK, DegreesCount
  <2>8. QED
    BY <2>4, <2>6, <2>7 DEF Z, Waits
<1>3. QED
  BY <1>1, <1>2, DagInvariant, PTL
=============================================================================
