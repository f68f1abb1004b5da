--------------------------- MODULE Upgrade_proofs ---------------------------
(***************************************************************************)
(* Proofs about Upgrade, for any number of tasks, of chunks and of faults. *)
(***************************************************************************)
EXTENDS Upgrade, SequenceTheorems, TLAPS

\* What a client writes once it is logged in; a chunk nobody waits for is refused
\* in the name of no task when there is none.
Statuses == [type : {"Status"}, task : Tasks \cup {None},
             state : {"accepted", "downloading", "verifying", "applying", "failed"}, off : 0 .. Size]

Logins == [type : {"Login"}, ver : {Old, New}, result : Tasks \cup {None}]

Pushes == [type : {"LoginAck"}] \cup [type : {"Offer"}, task : Tasks] \cup
          [type : {"Chunk"}, task : Tasks, off : 0 .. Size - 1]

TaskRecords == [id : Tasks, state : States, offset : 0 .. Size, staged : BOOLEAN]

\* The server's side
Serving ==
    /\ task = None \/ task \in TaskRecords
    /\ used \subseteq Tasks /\ info \in {Old, New, None}
    /\ sess \in {"none", "anon", "in"} /\ timer \in BOOLEAN /\ lateOpen \in BOOLEAN
    /\ late \in Seq(Statuses)

\* A connection carries one login, and then reports one way and pushes the other.
Talking ==
    /\ link \in {"down", "login", "up"}
    /\ s2c \in Seq(Pushes)
    /\ timer => sess = "in"
    /\ link = "up" => sess = "in"
    /\ link = "down" => sess = "none"
    /\ sess # "in" => s2c = <<>>
    /\ sess = "in" => c2s \in Seq(Statuses)
    /\ sess = "anon" => \E m \in Logins : c2s = <<m>>

\* The client's process and its receiver
Receiving ==
    /\ offer \in Tasks \cup {None} /\ rOffset \in 0 .. Size
    /\ hand \in {"idle", "save", "apply"} /\ sweep \in BOOLEAN
    /\ cand \in [Tasks -> 0 .. Size \cup {Torn, None}]
    /\ download = None \/ download \in [task : Tasks, off : 0 .. Size]
    /\ prog = "run" /\ hand # "idle" => offer # None
    /\ prog = "run" /\ hand = "save" => rOffset < Size

HelperPhases == {"none", "check", "wait", "stop", "backup", "stage", "switch", "start",
                 "watch", "giveBack", "recover", "recoverWait", "restart", "giveUp",
                 "kill", "restore", "clear"}

\* The client's program, its disk and its helpers
Installed ==
    /\ prog \in {"off", "boot", "run", "leaving"} /\ ver \in {Old, New, Torn} /\ launched \in BOOLEAN
    /\ target \in {Old, New, Torn} /\ installing \in [Tasks -> {New, Torn, None}]
    /\ backup \in [Tasks -> {Old, New, Torn, None}]
    /\ pending \in Tasks \cup {None} /\ result \in Tasks \cup {None} /\ health \subseteq Tasks
    /\ helper \in [Tasks -> HelperPhases]
    /\ stuck \in {"no", "parent", "restore"}
    /\ prog \in {"run", "leaving"} => ver # Torn

Typed == Serving /\ Talking /\ Receiving /\ Installed

LEMMA TypesHold == Typed => TypeOK
BY DEF Typed, Serving, Talking, Receiving, Installed, TypeOK, TaskRecords, HelperPhases

-----------------------------------------------------------------------------
\* Sequences

LEMMA SeqFacts ==
    /\ \A S : <<>> \in Seq(S)
    /\ \A S : \A m \in S : <<m>> \in Seq(S)
    /\ \A S : \A q \in Seq(S), m \in S : Append(q, m) \in Seq(S)
    /\ \A S : \A q \in Seq(S) : q # <<>> => Head(q) \in S /\ Tail(q) \in Seq(S)
    /\ \A m : Head(<<m>>) = m /\ Tail(<<m>>) = <<>> /\ <<m>> # <<>>
<1>1. \A S : <<>> \in Seq(S)
  OBVIOUS
<1>2. \A S : \A m \in S : <<m>> \in Seq(S)
  OBVIOUS
<1>3. \A S : \A q \in Seq(S), m \in S : Append(q, m) \in Seq(S)
  OBVIOUS
<1>4. \A S : \A q \in Seq(S) : q # <<>> => Head(q) \in S /\ Tail(q) \in Seq(S)
  OBVIOUS
<1>5. \A m : Head(<<m>>) = m /\ Tail(<<m>>) = <<>> /\ <<m>> # <<>>
  OBVIOUS
<1> QED BY <1>1, <1>2, <1>3, <1>4, <1>5

LEMMA Prefixes == \A S : \A q \in Seq(S) : \A n \in 0 .. Len(q) : SubSeq(q, 1, n) \in Seq(S)
<1> SUFFICES ASSUME NEW S, NEW q \in Seq(S), NEW n \in 0 .. Len(q) PROVE SubSeq(q, 1, n) \in Seq(S)
  OBVIOUS
<1>1. \A i \in 1 .. n : q[i] \in S
  BY LenProperties
<1> QED BY <1>1, LenProperties

-----------------------------------------------------------------------------
\* The server's task and the connection

LEMMA MessageTypes ==
    /\ \A t \in Tasks \cup {None}, s \in {"accepted", "downloading", "verifying", "applying", "failed"},
          n \in 0 .. Size : Status(t, s, n) \in Statuses
    /\ \A t \in Tasks : Offer(t) \in Pushes
    /\ \A t \in Tasks, n \in 0 .. Size - 1 : Chunk(t, n) \in Pushes
    /\ [type |-> "LoginAck"] \in Pushes
BY DEF Status, Statuses, Offer, Chunk, Pushes

\* A report leaves the task's artifact there exactly while the task runs.
LEMMA ReportedTask ==
    ASSUME NEW tk, tk = None \/ tk \in TaskRecords, tk # None => (tk.staged <=> Running(tk)),
           NEW m, m \in Statuses \/ \E t \in Tasks : m = Status(t, "rolled_back", 0)
    PROVE  /\ Reported(tk, m) = None \/ Reported(tk, m) \in TaskRecords
           /\ Reported(tk, m) # None => (Reported(tk, m).staged <=> Running(Reported(tk, m)))
<1>1. /\ m.state \in States \ {"succeeded"} /\ m.off \in 0 .. Size
      /\ m.task \in Tasks \cup {None}
  <2>1. CASE m \in Statuses
    BY <2>1 DEF Statuses, States
  <2>2. ASSUME NEW t \in Tasks, m = Status(t, "rolled_back", 0) PROVE <1>1
    BY <2>2, UpgradeAssumption DEF Status, States
  <2> QED BY <2>1, <2>2
<1>2. CASE ~Counts(tk, m)
  BY <1>2 DEF Reported
<1>3. CASE Counts(tk, m)
  <2>1. tk \in TaskRecords /\ tk # None
    BY <1>3 DEF Counts, Running
  <2> DEFINE x == [tk EXCEPT !.state = m.state, !.offset = m.off,
                             !.staged = m.state \notin {"failed", "rolled_back"}]
  <2>2. x \in TaskRecords /\ x.state = m.state /\ x.staged = (m.state \notin {"failed", "rolled_back"})
    BY <1>1, <2>1 DEF TaskRecords
  <2>3. Reported(tk, m) = x
    BY <1>3 DEF Reported
  <2>4. x # None => (x.staged <=> Running(x))
    BY <1>1, <2>2 DEF Running, Terminal
  <2> QED BY <2>2, <2>3, <2>4
<1> QED BY <1>2, <1>3

LEMMA FailedTask ==
    ASSUME NEW tk \in TaskRecords
    PROVE  Failed(tk) \in TaskRecords /\ (Failed(tk).staged <=> Running(Failed(tk)))
BY DEF Failed, TaskRecords, States, Running, Terminal

LEMMA CompletedTask ==
    ASSUME NEW tk, tk = None \/ tk \in TaskRecords, tk # None => (tk.staged <=> Running(tk)), NEW version
    PROVE  /\ Completed(tk, version) = None \/ Completed(tk, version) \in TaskRecords
           /\ Completed(tk, version) # None => (Completed(tk, version).staged <=> Running(Completed(tk, version)))
<1>1. CASE Completed(tk, version) = tk
  BY <1>1
<1>2. CASE tk # None /\ Completed(tk, version) = [tk EXCEPT !.state = "succeeded", !.offset = Size, !.staged = FALSE]
  <2> DEFINE x == [tk EXCEPT !.state = "succeeded", !.offset = Size, !.staged = FALSE]
  <2>1. tk \in TaskRecords /\ Size \in 0 .. Size
    BY <1>2, UpgradeAssumption
  <2>2. x \in TaskRecords /\ x.state = "succeeded" /\ x.staged = FALSE
    BY <2>1 DEF TaskRecords, States
  <2> HIDE DEF x
  <2> QED BY <1>2, <2>2 DEF Running, Terminal, x
<1> QED BY <1>1, <1>2 DEF Completed

\* A connection ends: what its former session has still to read are reports.
LEMMA CutKeeps ==
    ASSUME Serving, Talking, NEW sent, sess = "in" => sent \in Seq(Statuses), CutAfter(sent),
           UNCHANGED taskVars
    PROVE  Serving' /\ Talking'
<1>1. late' \in Seq(Statuses) /\ lateOpen' \in BOOLEAN
  BY Prefixes DEF CutAfter, Serving
<1>2. link' = "down" /\ s2c' = <<>> /\ c2s' = <<>> /\ sess' = "none" /\ timer' = FALSE
  BY DEF CutAfter
<1>3. Serving'
  BY <1>1, <1>2 DEF Serving, taskVars
<1> QED BY <1>2, <1>3, SeqFacts DEF Talking

LEMMA StepCases ==
    ASSUME [Next]_vars
    PROVE  \/ \E t \in Tasks : StartUpgrade(t) \/ HelperStep(t) \/ HelperFault(t)
           \/ Expire \/ ServerStep \/ ClientStep \/ Restart
           \/ Drop \/ Crash \/ PowerLoss \/ NotStarted
           \/ UNCHANGED vars
BY DEF Next, Fault

\* What the steps of the helpers and of the machine mean for the connection
LEMMA OutsideSteps ==
    ASSUME \/ \E t \in Tasks : HelperStep(t) \/ HelperFault(t)
           \/ Restart \/ Drop \/ Crash \/ PowerLoss \/ Exit
    PROVE  UNCHANGED taskVars /\ (CutOff \/ UNCHANGED netVars)
<1>1. ASSUME NEW t \in Tasks, HelperStep(t) PROVE UNCHANGED taskVars /\ (CutOff \/ UNCHANGED netVars)
  <2>1. CASE HelperCheck(t) \/ HelperWait(t) \/ HelperStop(t) \/ HelperBackup(t) \/ HelperStage(t) \/ HelperSwitch(t)
    BY <2>1 DEF HelperCheck, HelperWait, HelperStop, StopProgram, HelperBackup, HelperStage, HelperSwitch, Quiet
  <2>2. CASE HelperGiveBack(t) \/ HelperRestart(t) \/ HelperClear(t) \/ HelperStart(t) \/ HelperCommit(t) \/ StartFails(t)
    BY <2>2 DEF HelperGiveBack, HelperRestart, HelperClear, HelperStart, HelperCommit, StartFails, Quiet
  <2>3. CASE Unhealthy(t) \/ HelperGiveUp(t) \/ HelperKill(t) \/ HelperRestore(t)
    BY <2>3 DEF Unhealthy, HelperGiveUp, HelperKill, StopProgram, HelperRestore, Quiet
  <2> QED BY <1>1, <2>1, <2>2, <2>3 DEF HelperStep
<1>2. ASSUME NEW t \in Tasks, HelperFault(t) PROVE UNCHANGED taskVars /\ UNCHANGED netVars
  BY <1>2 DEF HelperFault, ParentHangs, StopFails, SwitchFails, StartFails, Unhealthy, Quiet
<1>3. CASE Restart \/ Drop \/ Crash \/ PowerLoss \/ Exit
  BY <1>3 DEF Restart, Drop, Crash, PowerLoss, Exit
<1> QED BY <1>1, <1>2, <1>3

LEMMA ServingStep ==
    ASSUME Typed, StagedWhileRunning, [Next]_vars
    PROVE  Serving' /\ Talking' /\ StagedWhileRunning'
<1> DEFINE Staged(tk) == tk # None => (tk.staged <=> Running(tk))
           Goal == Serving' /\ Talking' /\ StagedWhileRunning'
<1>0. Serving /\ Talking /\ Receiving /\ Installed /\ Staged(task) /\ (task = None \/ task \in TaskRecords)
        /\ None \notin Tasks
  BY UpgradeAssumption DEF Typed, StagedWhileRunning, Serving
<1> SUFFICES Goal
  OBVIOUS
<1> USE DEF taskVars, netVars
\* The connection is left alone, or cut
<1>1. ASSUME UNCHANGED taskVars, CutOff \/ UNCHANGED netVars PROVE Goal
  <2>1. CASE CutOff
    <3>1. Serving' /\ Talking'
      BY <1>0, <1>1, <2>1, CutKeeps DEF CutOff, Talking
    <3> QED BY <1>1, <3>1 DEF StagedWhileRunning, Running
  <2>2. CASE UNCHANGED netVars
    BY <1>0, <1>1, <2>2 DEF Serving, Talking, StagedWhileRunning, Running
  <2> QED BY <1>1, <2>1, <2>2
\* The client says something, and takes a message or not
<1>2. ASSUME UNCHANGED <<taskVars, sess, timer, late, lateOpen, link>>,
             s2c' = s2c \/ (s2c # <<>> /\ s2c' = Tail(s2c)),
             c2s' = c2s \/ (link = "up" /\ \E m \in Statuses : c2s' = Append(c2s, m))
      PROVE  Goal
  <2>1. s2c' \in Seq(Pushes) /\ (sess # "in" => s2c' = <<>>)
    BY <1>0, <1>2, SeqFacts DEF Talking
  <2>2. sess = "in" => c2s' \in Seq(Statuses)
    BY <1>0, <1>2, SeqFacts DEF Talking
  <2>3. sess # "in" => c2s' = c2s
    BY <1>0, <1>2 DEF Talking
  <2>4. Talking'
    BY <1>0, <1>2, <2>1, <2>2, <2>3 DEF Talking
  <2>5. Serving' /\ StagedWhileRunning'
    BY <1>0, <1>2 DEF Serving, StagedWhileRunning, Running
  <2> QED BY <2>4, <2>5
\* The server changes its task and pushes something, or not
<1>3. ASSUME task' = None \/ task' \in TaskRecords, Staged(task'), used' \subseteq Tasks,
             UNCHANGED <<info, sess, timer, lateOpen, link>>,
             s2c' = s2c \/ (sess = "in" /\ \E m \in Pushes : s2c' = Append(s2c, m)),
             c2s' = c2s \/ (sess = "in" /\ c2s # <<>> /\ c2s' = Tail(c2s)),
             late' = late \/ (late # <<>> /\ late' = Tail(late))
      PROVE  Goal
  <2>1. late' \in Seq(Statuses)
    BY <1>0, <1>3, SeqFacts DEF Serving
  <2>2. Serving'
    BY <1>0, <1>3, <2>1 DEF Serving
  <2>3. s2c' \in Seq(Pushes) /\ (sess # "in" => s2c' = <<>>)
    BY <1>0, <1>3, SeqFacts DEF Talking
  <2>4. (sess = "in" => c2s' \in Seq(Statuses)) /\ (sess # "in" => c2s' = c2s)
    BY <1>0, <1>3, SeqFacts DEF Talking
  <2>5. Talking'
    BY <1>0, <1>3, <2>3, <2>4 DEF Talking
  <2>6. StagedWhileRunning'
    BY <1>3 DEF StagedWhileRunning, Running
  <2> QED BY <2>2, <2>5, <2>6
<1>4. ASSUME NEW t \in Tasks, StartUpgrade(t) PROVE Goal
  <2> DEFINE new == [id |-> t, state |-> "offered", offset |-> 0, staged |-> TRUE]
  <2>1. new \in TaskRecords /\ Staged(new)
    BY <1>4, UpgradeAssumption DEF TaskRecords, States, Running, Terminal
  <2>2. Failed(new) \in TaskRecords /\ Staged(Failed(new))
    BY <2>1, FailedTask
  <2>3. task' = new \/ task' = Failed(new)
    BY <1>4 DEF StartUpgrade
  <2> HIDE DEF new
  <2>4. s2c' = s2c \/ (sess = "in" /\ s2c' = Append(s2c, Offer(t)))
    BY <1>4 DEF StartUpgrade, Push
  <2>5. UNCHANGED <<info, sess, timer, late, lateOpen, link, c2s>> /\ used' \subseteq Tasks
    BY <1>0, <1>4 DEF StartUpgrade, Serving
  <2> HIDE DEF Staged, Goal
  <2> QED BY <1>3, <2>1, <2>2, <2>3, <2>4, <2>5, MessageTypes
<1>5. CASE Expire
  <2>1. task' = Failed(task) \/ task' = None
    BY <1>5 DEF Expire
  <2>2. task \in TaskRecords
    BY <1>0, <1>5 DEF Expire
  <2>3. (task' = None \/ task' \in TaskRecords) /\ Staged(task')
    BY <2>1, <2>2, FailedTask
  <2>4. UNCHANGED <<used, info, sess, timer, late, lateOpen, link, c2s, s2c>>
    BY <1>5 DEF Expire
  <2> HIDE DEF Staged, Goal
  <2> QED BY <1>0, <1>3, <2>3, <2>4 DEF Serving
<1>6. CASE ServerLogin
  <2> DEFINE m == Head(c2s)
             told == IF m.result = None THEN task ELSE Reported(task, Status(m.result, "rolled_back", 0))
  <2>1. m \in Logins /\ Tail(c2s) = <<>>
    BY <1>0, <1>6, SeqFacts DEF ServerLogin, Talking
  <2>2. (told = None \/ told \in TaskRecords) /\ Staged(told)
    <3>1. m.result \in Tasks \cup {None}
      BY <2>1 DEF Logins
    <3> QED BY <1>0, <3>1, ReportedTask
  <2>3. task' = Completed(told, m.ver) /\ info' = m.ver
    BY <1>6 DEF ServerLogin
  <2> HIDE DEF told
  <2>4. (task' = None \/ task' \in TaskRecords) /\ Staged(task')
    BY <2>2, <2>3, CompletedTask
  <2>5. /\ sess = "anon" /\ sess' = "in" /\ timer' = TRUE /\ lateOpen' = FALSE /\ c2s' = Tail(c2s)
        /\ s2c' = Append(s2c, [type |-> "LoginAck"]) /\ UNCHANGED <<used, late, link>>
    BY <1>6 DEF ServerLogin, Push
  <2>6. m.ver \in {Old, New}
    BY <2>1 DEF Logins
  <2>7. Serving' /\ StagedWhileRunning'
    BY <1>0, <2>3, <2>4, <2>5, <2>6 DEF Serving, StagedWhileRunning, Running
  <2>8. s2c' \in Seq(Pushes) /\ c2s' \in Seq(Statuses)
    BY <1>0, <2>1, <2>5, MessageTypes, SeqFacts DEF Talking
  <2> QED BY <1>0, <2>5, <2>7, <2>8 DEF Talking
<1>7. CASE OfferAfterLogin
  <2>1. /\ timer /\ timer' = FALSE /\ UNCHANGED <<taskVars, sess, late, lateOpen, link, c2s>>
        /\ s2c' = s2c \/ (task \in TaskRecords /\ s2c' = Append(s2c, Offer(task.id)))
    BY <1>0, <1>7 DEF OfferAfterLogin, Push, Running
  <2>2. sess = "in"
    BY <1>0, <2>1 DEF Talking
  <2>3. s2c' \in Seq(Pushes)
    <3>1. task \in TaskRecords => Offer(task.id) \in Pushes
      BY MessageTypes DEF TaskRecords
    <3> QED BY <1>0, <2>1, <3>1, SeqFacts DEF Talking
  <2>4. Talking'
    BY <1>0, <2>1, <2>2, <2>3 DEF Talking
  <2>5. Serving' /\ StagedWhileRunning'
    BY <1>0, <2>1 DEF Serving, StagedWhileRunning, Running
  <2> QED BY <2>4, <2>5
\* A chunk is asked for by a task that runs, and lies within the artifact.
<1>8. ASSUME NEW m \in Statuses, AsksForChunk(task, m) PROVE Chunk(m.task, m.off) \in Pushes
  <2>1. m.task \in Tasks /\ m.off \in 0 .. Size - 1
    BY <1>0, <1>8, UpgradeAssumption DEF AsksForChunk, Counts, Running, TaskRecords, Statuses
  <2> QED BY <2>1, MessageTypes
<1>9. CASE ServerStatus
  <2> DEFINE m == Head(c2s)
  <2>1. sess = "in" /\ c2s # <<>> /\ task' = Reported(task, m) /\ c2s' = Tail(c2s)
          /\ UNCHANGED <<used, info, sess, timer, late, lateOpen, link>>
          /\ (s2c' = s2c \/ (AsksForChunk(task, m) /\ s2c' = Append(s2c, Chunk(m.task, m.off))))
    BY <1>9 DEF ServerStatus, Push
  <2>2. m \in Statuses
    BY <1>0, <2>1, SeqFacts DEF Talking
  <2> HIDE DEF m
  <2>3. (task' = None \/ task' \in TaskRecords) /\ Staged(task')
    BY <1>0, <2>1, <2>2, ReportedTask
  <2> HIDE DEF Staged, Goal
  <2> QED BY <1>0, <1>3, <1>8, <2>1, <2>2, <2>3 DEF Serving
<1>10. CASE LateStatus
  <2> DEFINE m == Head(late)
  <2>1. /\ late # <<>> /\ late' = Tail(late) /\ (task' = Reported(task, m) \/ task' = Failed(Reported(task, m)))
        /\ (task' # Reported(task, m) => Counts(task, m))
        /\ UNCHANGED <<used, info, sess, timer, lateOpen, link, c2s, s2c>>
    BY <1>10 DEF LateStatus, AsksForChunk
  <2>2. m \in Statuses
    BY <1>0, <2>1, SeqFacts DEF Serving
  <2> HIDE DEF m
  <2>3. (Reported(task, m) = None \/ Reported(task, m) \in TaskRecords) /\ Staged(Reported(task, m))
    BY <1>0, <2>2, ReportedTask
  <2>4. Counts(task, m) => Reported(task, m) \in TaskRecords
    <3>1. Counts(task, m) => task \in TaskRecords
      BY <1>0 DEF Counts, Running
    <3> QED BY <2>2, <3>1 DEF Reported, TaskRecords, Statuses, States
  <2>5. (task' = None \/ task' \in TaskRecords) /\ Staged(task')
    BY <2>1, <2>3, <2>4, FailedTask
  <2> HIDE DEF Staged, Goal
  <2> QED BY <1>0, <1>3, <2>1, <2>5 DEF Serving
<1>11. CASE LateClosed
  BY <1>0, <1>11 DEF LateClosed, Serving, Talking, StagedWhileRunning, Running
<1>12. CASE Dial
  <2> DEFINE m == [type |-> "Login", ver |-> ver, result |-> result]
  <2>1. m \in Logins
    BY <1>0, <1>12 DEF Dial, Installed, Logins
  <2>2. /\ link' = "login" /\ sess' = "anon" /\ c2s' = <<m>>
        /\ UNCHANGED <<taskVars, timer, late, lateOpen, s2c>> /\ link = "down"
    BY <1>12 DEF Dial
  <2> QED BY <1>0, <2>1, <2>2 DEF Serving, Talking, StagedWhileRunning, Running
<1>13. CASE LoginAck
  <2>1. /\ s2c # <<>> /\ s2c' = Tail(s2c) /\ link' = "up"
        /\ UNCHANGED <<taskVars, sess, timer, late, lateOpen, c2s>>
    BY <1>13 DEF LoginAck
  <2>2. sess = "in" /\ s2c' \in Seq(Pushes)
    BY <1>0, <2>1, SeqFacts DEF Talking
  <2>3. Talking'
    BY <1>0, <2>1, <2>2 DEF Talking
  <2> QED BY <1>0, <2>1, <2>3 DEF Serving, StagedWhileRunning, Running
<1>14. CASE RefuseOffer \/ AcceptOffer
  <2>1. s2c # <<>> /\ Head(s2c).type = "Offer" /\ s2c' = Tail(s2c) /\ link = "up"
          /\ UNCHANGED <<taskVars, sess, timer, late, lateOpen, link>>
    BY <1>14 DEF RefuseOffer, AcceptOffer, Receives
  <2>2. Head(s2c).task \in Tasks
    BY <1>0, <2>1, SeqFacts DEF Talking, Pushes
  <2>3. ResumeAt(Head(s2c).task) \in 0 .. Size
    BY <1>0, UpgradeAssumption DEF ResumeAt, Receiving
  <2>4. \E m \in Statuses : c2s' = Append(c2s, m)
    BY <1>14, <2>2, <2>3, MessageTypes, UpgradeAssumption DEF RefuseOffer, AcceptOffer, Say
  <2> HIDE DEF Goal
  <2> QED BY <1>2, <2>1, <2>4
<1>15. CASE RefuseChunk \/ WriteChunk
  <2>1. s2c # <<>> /\ s2c' = Tail(s2c) /\ link = "up"
          /\ UNCHANGED <<taskVars, sess, timer, late, lateOpen, link>>
          /\ (c2s' = c2s \/ c2s' = Append(c2s, Status(offer, "failed", rOffset)))
    BY <1>15 DEF RefuseChunk, WriteChunk, Receives, Say
  <2>2. Status(offer, "failed", rOffset) \in Statuses
    BY <1>0, MessageTypes DEF Receiving
  <2> HIDE DEF Goal
  <2> QED BY <1>2, <2>1, <2>2
<1>16. CASE SaveChunk
  <2>1. rOffset + 1 \in 0 .. Size
    BY <1>0, <1>16, UpgradeAssumption DEF SaveChunk, Receiving
  <2>2. /\ UNCHANGED <<taskVars, sess, timer, late, lateOpen, link, s2c>>
        /\ \/ c2s' = c2s
           \/ link = "up" /\ c2s' = Append(c2s, Status(offer, "verifying", rOffset + 1))
           \/ link = "up" /\ c2s' = Append(c2s, Status(offer, "downloading", rOffset + 1))
    BY <1>16 DEF SaveChunk, Say
  <2>3. Status(offer, "verifying", rOffset + 1) \in Statuses /\ Status(offer, "downloading", rOffset + 1) \in Statuses
    BY <1>0, <2>1, MessageTypes DEF Receiving
  <2> HIDE DEF Goal
  <2> QED BY <1>2, <2>2, <2>3
<1>17. Status(offer, "applying", Size) \in Statuses /\ Status(offer, "failed", Size) \in Statuses
  BY <1>0, MessageTypes, UpgradeAssumption DEF Receiving
<1>18. CASE StartApply
  <2>1. /\ UNCHANGED <<taskVars, sess, timer, late, lateOpen, link, s2c>>
        /\ c2s' = c2s \/ (link = "up" /\ c2s' = Append(c2s, Status(offer, "applying", Size)))
    BY <1>18 DEF StartApply, Say
  <2> HIDE DEF Goal
  <2> QED BY <1>2, <1>17, <2>1
<1>19. CASE ApplyFails
  <2>1. CutAfter(Append(c2s, Status(offer, "failed", Size))) /\ UNCHANGED taskVars
    BY <1>19 DEF ApplyFails
  <2>2. sess = "in" => Append(c2s, Status(offer, "failed", Size)) \in Seq(Statuses)
    BY <1>0, <1>17, SeqFacts DEF Talking
  <2>3. Serving' /\ Talking'
    BY <1>0, <2>1, <2>2, CutKeeps
  <2> QED BY <1>0, <2>1, <2>3 DEF StagedWhileRunning, Running
<1>20. CASE ClientStep
  <2>1. Boot \/ Sweep => UNCHANGED <<taskVars, netVars>>
    BY DEF Boot, Sweep
  <2> HIDE DEF Goal
  <2> QED BY <1>1, <1>12, <1>13, <1>14, <1>15, <1>16, <1>18, <1>19, <1>20, <2>1, OutsideSteps DEF ClientStep, UnitBusy
<1>21. CASE UNCHANGED vars
  <2>1. UNCHANGED <<taskVars, netVars>>
    BY <1>21 DEF vars
  <2> HIDE DEF Goal
  <2> QED BY <1>1, <2>1
<1>22. CASE ServerStep
  <2> HIDE DEF Goal
  <2> QED BY <1>6, <1>7, <1>9, <1>10, <1>11, <1>22 DEF ServerStep
<1> HIDE DEF Goal
<1> QED BY <1>1, <1>4, <1>5, <1>19, <1>20, <1>21, <1>22, StepCases, OutsideSteps DEF NotStarted

-----------------------------------------------------------------------------
\* The receiver and the artifact it counts

\* Clean-up leaves what it does not keep empty.
LEMMA CleanupKeeps ==
    ASSUME Receiving, Installed, NEW current, Cleanup(current)
    PROVE  /\ cand' \in [Tasks -> 0 .. Size \cup {Torn, None}] /\ backup' \in [Tasks -> {Old, New, Torn, None}]
           /\ current \in Tasks => cand'[current] = cand[current]
           /\ Protected => backup' = backup
BY DEF Cleanup, Keeps, Receiving, Installed

\* No step of a helper, a crash apart, changes what the receiver knows.
LEMMA HelperLeavesReceiver ==
    ASSUME NEW t \in Tasks, HelperStep(t) \/ HelperFault(t)
    PROVE  /\ UNCHANGED <<recvVars, cand, mode>> /\ (download' = None \/ UNCHANGED download)
           /\ \/ UNCHANGED <<prog, ver, link>>
              \/ prog' = "off" /\ ver' = ver /\ link' = "down"
              \/ prog = "off" /\ prog' = "boot" /\ ver' = target /\ link' = link
<1>1. CASE HelperCheck(t) \/ HelperWait(t) \/ HelperStop(t) \/ HelperBackup(t) \/ HelperStage(t) \/ HelperSwitch(t)
  BY <1>1 DEF HelperCheck, HelperWait, HelperStop, StopProgram, HelperBackup, HelperStage, HelperSwitch, Quiet, noteVars, netVars, CutOff, CutAfter
<1>2. CASE HelperGiveBack(t) \/ HelperRestart(t) \/ HelperClear(t) \/ HelperStart(t) \/ HelperCommit(t) \/ StartFails(t)
  BY <1>2 DEF HelperGiveBack, HelperRestart, HelperClear, HelperStart, HelperCommit, StartFails, StartProgram,
              Launch, Quiet, noteVars, netVars, CutOff, CutAfter
<1>3. CASE Unhealthy(t) \/ HelperGiveUp(t) \/ HelperKill(t) \/ HelperRestore(t)
  BY <1>3 DEF Unhealthy, HelperGiveUp, HelperKill, StopProgram, HelperRestore, Quiet, noteVars, netVars, CutOff, CutAfter
<1>4. CASE ParentHangs(t) \/ StopFails(t) \/ SwitchFails(t)
  BY <1>4 DEF ParentHangs, StopFails, SwitchFails, Quiet, noteVars, netVars, CutOff, CutAfter
<1> QED BY <1>1, <1>2, <1>3, <1>4 DEF HelperStep, HelperFault

LEMMA ReceivingStep ==
    ASSUME Typed, NoHole, [Next]_vars
    PROVE  Receiving' /\ NoHole'
<1>0. Talking /\ Receiving /\ Installed /\ None \notin Tasks /\ Size \in Nat \ {0}
  BY UpgradeAssumption DEF Typed
<1> USE DEF recvVars, noteVars, procVars
\* Nothing of the receiver changes, or the process is not there any more
<1>1. ASSUME UNCHANGED <<recvVars, cand>>, download' = None \/ UNCHANGED download,
             UNCHANGED prog \/ prog' # "run"
      PROVE  Receiving' /\ NoHole'
  BY <1>0, <1>1 DEF Receiving, NoHole
<1>2. ASSUME NEW t \in Tasks, HelperStep(t) \/ HelperFault(t) PROVE Receiving' /\ NoHole'
  BY <1>1, <1>2, HelperLeavesReceiver
<1>3. CASE Crash \/ PowerLoss
  <2>1. prog' = "off" /\ hand' = "idle" /\ TornWrite /\ UNCHANGED <<offer, rOffset, sweep, download>>
    BY <1>3 DEF Crash, PowerLoss
  <2>2. cand' \in [Tasks -> 0 .. Size \cup {Torn, None}]
    BY <1>0, <2>1 DEF TornWrite, Receiving
  <2> QED BY <1>0, <2>1, <2>2 DEF Receiving, NoHole
<1>4. CASE Restart \/ Drop \/ Exit \/ Dial \/ RefuseOffer \/ RefuseChunk
  BY <1>1, <1>4 DEF Restart, Launch, Drop, Exit, Dial, RefuseOffer, RefuseChunk
<1>5. CASE \/ \E t \in Tasks : StartUpgrade(t)
           \/ Expire \/ ServerStep \/ UNCHANGED vars
  <2>1. UNCHANGED <<recvVars, cand, download, prog>>
    BY <1>5 DEF StartUpgrade, Expire, ServerStep, ServerLogin, OfferAfterLogin, ServerStatus, LateStatus,
                LateClosed, vars
  <2> QED BY <1>1, <2>1
<1>6. CASE Boot
  <2>1. /\ Cleanup(None) /\ offer' = None /\ rOffset' = 0 /\ hand' = "idle" /\ sweep' = FALSE
        /\ UNCHANGED download
    BY <1>6 DEF Boot
  <2>2. cand' \in [Tasks -> 0 .. Size \cup {Torn, None}]
    BY <1>0, <2>1, CleanupKeeps
  <2>3. NoHole'
    BY <2>1 DEF NoHole
  <2>4. 0 \in 0 .. Size
    BY <1>0
  <2> QED BY <1>0, <2>1, <2>2, <2>3, <2>4 DEF Receiving
<1>7. CASE Sweep
  <2>1. Cleanup(offer) /\ sweep' = FALSE /\ UNCHANGED <<prog, offer, rOffset, hand, download>>
    BY <1>7 DEF Sweep
  <2>2. /\ cand' \in [Tasks -> 0 .. Size \cup {Torn, None}]
        /\ offer \in Tasks => cand'[offer] = cand[offer]
    BY <1>0, <2>1, CleanupKeeps
  <2> QED BY <1>0, <2>1, <2>2 DEF Receiving, NoHole
<1>8. CASE LoginAck
  BY <1>0, <1>8 DEF LoginAck, Receiving, NoHole
<1>9. CASE AcceptOffer
  <2> DEFINE t == Head(s2c).task
             off == ResumeAt(t)
  <2>1. /\ s2c # <<>> /\ Head(s2c).type = "Offer"
        /\ cand' = IF off = 0 THEN [cand EXCEPT ![t] = 0] ELSE cand
        /\ offer' = t /\ rOffset' = off /\ download' = [task |-> t, off |-> off]
        /\ hand' = IF off = Size THEN "apply" ELSE "idle"
        /\ UNCHANGED <<sweep, prog>>
    BY <1>9 DEF AcceptOffer, Receives
  <2>2. t \in Tasks
    BY <1>0, <2>1, SeqFacts DEF Talking, Pushes
  <2>3. off \in 0 .. Size /\ (off # 0 => cand[t] = off)
    BY <1>0 DEF ResumeAt, Receiving
  <2> HIDE DEF t, off
  <2>4. cand' \in [Tasks -> 0 .. Size \cup {Torn, None}] /\ cand'[t] = off
    BY <1>0, <2>1, <2>2, <2>3 DEF Receiving
  <2>5. Receiving'
    BY <1>0, <2>1, <2>2, <2>3, <2>4 DEF Receiving
  <2>6. NoHole'
    BY <2>1, <2>4 DEF NoHole
  <2> QED BY <2>5, <2>6
<1>10. CASE WriteChunk
  <2> DEFINE m == Head(s2c)
  <2>1. /\ s2c # <<>> /\ m.type = "Chunk" /\ offer = m.task /\ rOffset = m.off
        /\ cand' = [cand EXCEPT ![offer] = rOffset + 1] /\ hand' = "save" /\ prog = "run" /\ hand = "idle"
        /\ UNCHANGED <<prog, offer, rOffset, sweep, download>>
    BY <1>10 DEF WriteChunk, Receives, Expected
  <2>2. m.task \in Tasks /\ m.off \in 0 .. Size - 1
    BY <1>0, <2>1, SeqFacts DEF Talking, Pushes
  <2> HIDE DEF m
  <2>3. offer \in Tasks /\ rOffset < Size /\ rOffset + 1 \in 0 .. Size
    BY <1>0, <2>1, <2>2
  <2>4. cand' \in [Tasks -> 0 .. Size \cup {Torn, None}] /\ cand'[offer] = rOffset + 1
    BY <1>0, <2>1, <2>3 DEF Receiving
  <2> QED BY <1>0, <2>1, <2>3, <2>4 DEF Receiving, NoHole
<1>11. CASE SaveChunk
  <2>1. /\ prog = "run" /\ hand = "save" /\ rOffset' = rOffset + 1
        /\ download' = [task |-> offer, off |-> rOffset + 1]
        /\ hand' = "idle" \/ (rOffset + 1 = Size /\ hand' = "apply")
        /\ UNCHANGED <<prog, offer, sweep, cand>>
    BY <1>11 DEF SaveChunk
  <2>2. offer \in Tasks /\ rOffset + 1 \in 0 .. Size /\ cand[offer] = rOffset + 1
    BY <1>0, <2>1 DEF Receiving, NoHole
  <2> QED BY <1>0, <2>1, <2>2 DEF Receiving, NoHole
<1>12. CASE StartApply \/ ApplyFails
  <2>1. /\ hand = "apply" /\ hand' = "idle" /\ (prog' = prog \/ prog' # "run")
        /\ UNCHANGED <<offer, rOffset, sweep, cand, download>>
    BY <1>12 DEF StartApply, ApplyFails, Prepare
  <2> QED BY <1>0, <2>1 DEF Receiving, NoHole
<1>13. CASE ClientStep
  BY <1>4, <1>6, <1>7, <1>8, <1>9, <1>10, <1>11, <1>12, <1>13 DEF ClientStep, UnitBusy
<1> QED BY <1>2, <1>3, <1>4, <1>5, <1>12, <1>13, StepCases DEF NotStarted

-----------------------------------------------------------------------------
\* The switch

\* A helper is alone, and a receiver has an offer only when no other task's
\* helper is at work.
Alone ==
    \A t, u \in Tasks : Active(t) /\ (Active(u) \/ (prog = "run" /\ offer = u)) => t = u

\* The program that runs is the one that is installed, and only the old one
\* takes offers.
Genuine ==
    /\ prog # "off" => ver = target
    /\ link # "down" => prog # "off"
    /\ prog = "run" /\ offer # None => ver = Old

\* While files are switched no client runs, and nobody will start one.
Still ==
    \A t \in Tasks :
      /\ helper[t] \in {"backup", "stage", "switch", "start", "giveBack", "restart", "restore"} =>
           prog = "off" /\ ~launched
      /\ mode # "service" /\ helper[t] \in {"check", "wait"} =>
           ~launched /\ (prog = "off" \/ (prog = "leaving" /\ offer = t))

\* The old client is installed up to the switch, so nobody calls the task's
\* client healthy, and not after it.
Trial ==
    \A t \in Tasks :
      /\ helper[t] \in {"check", "wait", "stop", "backup", "stage", "switch"} =>
           target = Old /\ t \notin health
      /\ helper[t] = "switch" => installing[t] # None
      /\ helper[t] \in {"start", "watch"} => target # Old

\* A switch that is under way is known to be, so its backup is protected.
Noted ==
    \A t \in Tasks :
      helper[t] \in {"check", "wait", "stop", "backup", "stage", "switch", "start", "watch"} =>
        pending = t /\ result = None

Switching == Alone /\ Genuine /\ Still /\ Trial /\ Noted /\ OldKept

\* A helper that will start a client, or give up and say so
Due == {"check", "wait", "stop", "backup", "stage", "switch", "start", "giveBack",
        "recover", "recoverWait", "restart", "giveUp", "kill", "restore"}

Relaunches == ~launched => stuck # "no" \/ \E t \in Tasks : helper[t] \in Due

\* What a step of a helper does, by the phase it leaves
LEMMA HelperMoves ==
    ASSUME NEW t \in Tasks, HelperStep(t) \/ HelperFault(t)
    PROVE  LET from == helper[t]
               Goes(S) == \E next \in S : helper' = [helper EXCEPT ![t] = next]
           IN  \/ /\ from = "check" /\ Goes({"wait", "recover"})
                  /\ UNCHANGED <<prog, ver, launched, binVars, pending, result, health, stuck>>
               \/ /\ from = "wait" /\ Goes(IF mode = "service" THEN {"stop"} ELSE {"backup"}) /\ ~ParentAlive(t)
                  /\ UNCHANGED <<prog, ver, launched, binVars, pending, result, health, stuck>>
               \/ /\ from \in {"wait", "recoverWait"} /\ Goes({"none"}) /\ stuck' = "parent"
                  /\ UNCHANGED <<prog, ver, launched, binVars, pending, health>>
                  /\ result' \in {t, result}
               \/ /\ from = "stop" /\ Goes({"backup"}) /\ prog' = "off" /\ launched' = FALSE
                  /\ UNCHANGED <<ver, binVars, pending, result, health, stuck>>
               \/ /\ from = "stop" /\ Goes({"recover"})
                  /\ UNCHANGED <<prog, ver, launched, binVars, pending, result, health, stuck>>
               \/ /\ from = "backup" /\ Goes({"stage"}) /\ backup' = [backup EXCEPT ![t] = target]
                  /\ UNCHANGED <<prog, ver, launched, target, installing, pending, result, health, stuck>>
               \/ /\ from \in {"backup", "stage"} /\ Goes({"giveBack"})
                  /\ UNCHANGED <<prog, ver, launched, binVars, pending, result, health, stuck>>
               \/ /\ from = "stage" /\ Goes({"switch"})
                  /\ \E x \in {New, Torn} : installing' = [installing EXCEPT ![t] = x]
                  /\ UNCHANGED <<prog, ver, launched, target, backup, pending, result, health, stuck>>
               \/ /\ from = "switch" /\ Goes({"start"})
                  /\ target' = installing[t] /\ installing' = [installing EXCEPT ![t] = None]
                  /\ UNCHANGED <<prog, ver, launched, backup, pending, result, health, stuck>>
               \/ /\ from = "switch" /\ Goes({"giveBack"}) /\ installing' = [installing EXCEPT ![t] = None]
                  /\ \/ UNCHANGED <<target, backup>>
                     \/ target' = backup[t] /\ backup' = [backup EXCEPT ![t] = None]
                  /\ UNCHANGED <<prog, ver, launched, pending, result, health, stuck>>
               \/ /\ \/ from = "giveBack" /\ Goes({"restart"}) /\ result' = t
                     \/ from = "recover" /\ Goes({"recoverWait"}) /\ result' = t
                     \/ from = "giveUp" /\ Goes({"kill"}) /\ result' = t
                     \/ from \in {"start", "watch"} /\ Goes({"giveUp"}) /\ UNCHANGED result
                  /\ UNCHANGED <<prog, ver, launched, binVars, pending, health, stuck>>
               \/ /\ \/ from \in {"restart", "recoverWait"} /\ Goes({"clear"})
                     \/ from = "start" /\ Goes({"watch"})
                  /\ StartProgram /\ UNCHANGED <<binVars, pending, result, health, stuck>>
               \/ /\ from = "clear" /\ Goes({"none"}) /\ pending' = None
                  /\ UNCHANGED <<prog, ver, launched, binVars, result, health, stuck>>
               \/ /\ from = "watch" /\ Goes({"none"}) /\ pending' = None /\ backup' = [backup EXCEPT ![t] = None]
                  /\ UNCHANGED <<prog, ver, launched, target, installing, result, health, stuck>>
               \/ /\ from = "kill" /\ Goes({"restore"}) /\ prog' = "off" /\ launched' = FALSE
                  /\ UNCHANGED <<ver, binVars, pending, result, health, stuck>>
               \/ /\ from = "restore" /\ Goes({"restart"}) /\ backup[t] # None
                  /\ target' = backup[t] /\ backup' = [backup EXCEPT ![t] = None]
                  /\ UNCHANGED <<prog, ver, launched, installing, pending, result, health, stuck>>
               \/ /\ from = "restore" /\ Goes({"clear"}) /\ result' = t /\ stuck' = "restore"
                  /\ UNCHANGED <<prog, ver, launched, binVars, pending, health>>
<1> USE DEF At, Quiet, noteVars, binVars, Record
<1>1. CASE HelperCheck(t) \/ HelperWait(t)
  BY <1>1 DEF HelperCheck, HelperWait
<1>2. CASE HelperStop(t) \/ StopFails(t) \/ ParentHangs(t)
  BY <1>2 DEF HelperStop, StopFails, ParentHangs, StopProgram
<1>3. CASE HelperBackup(t)
  BY <1>3 DEF HelperBackup
<1>4. CASE HelperStage(t)
  BY <1>4 DEF HelperStage
<1>5. CASE HelperSwitch(t) \/ SwitchFails(t)
  BY <1>5 DEF HelperSwitch, SwitchFails
<1>6. CASE HelperGiveBack(t) \/ HelperGiveUp(t) \/ Unhealthy(t) \/ StartFails(t)
  BY <1>6 DEF HelperGiveBack, HelperGiveUp, Unhealthy, StartFails
<1>7. CASE HelperRestart(t) \/ HelperStart(t)
  BY <1>7 DEF HelperRestart, HelperStart
<1>8. CASE HelperClear(t) \/ HelperCommit(t)
  BY <1>8 DEF HelperClear, HelperCommit
<1>9. CASE HelperKill(t) \/ HelperRestore(t)
  BY <1>9 DEF HelperKill, HelperRestore, StopProgram
<1> QED BY <1>1, <1>2, <1>3, <1>4, <1>5, <1>6, <1>7, <1>8, <1>9 DEF HelperStep, HelperFault

LEMMA ProtectedWhile ==
    ASSUME Noted, NEW t \in Tasks,
           helper[t] \in {"check", "wait", "stop", "backup", "stage", "switch", "start", "watch"}
    PROVE  Protected
BY UpgradeAssumption DEF Noted, Protected

LEMMA InstalledStep ==
    ASSUME Typed, Switching, [Next]_vars
    PROVE  Installed'
<1>0. Receiving /\ Installed /\ Talking /\ Trial /\ OldKept
  BY DEF Typed, Switching
<1> USE DEF binVars, noteVars, procVars, helpVars
<1>1. ASSUME NEW t \in Tasks, HelperStep(t) \/ HelperFault(t) PROVE Installed'
  <2>1. helper' \in [Tasks -> HelperPhases]
    BY <1>0, <1>1, HelperMoves DEF Installed, HelperPhases
  <2>2. /\ target' \in {Old, New, Torn} /\ installing' \in [Tasks -> {New, Torn, None}]
        /\ backup' \in [Tasks -> {Old, New, Torn, None}]
    <3>1. installing' = installing \/ \E x \in {New, Torn, None} : installing' = [installing EXCEPT ![t] = x]
      BY <1>1, HelperMoves
    <3>2. backup' = backup \/ \E x \in {target, None} : backup' = [backup EXCEPT ![t] = x]
      BY <1>1, HelperMoves
    <3>3. \/ target' = target
          \/ target' = installing[t] /\ helper[t] = "switch"
          \/ target' = backup[t] /\ (helper[t] = "switch" \/ backup[t] # None)
      BY <1>1, HelperMoves
    <3>4. helper[t] = "switch" => installing[t] # None /\ backup[t] = Old
      BY <1>0 DEF Trial, OldKept
    <3> QED BY <1>0, <3>1, <3>2, <3>3, <3>4 DEF Installed
  <2>3. /\ pending' \in Tasks \cup {None} /\ result' \in Tasks \cup {None} /\ health' \subseteq Tasks
        /\ stuck' \in {"no", "parent", "restore"} /\ launched' \in BOOLEAN
    BY <1>0, <1>1, HelperMoves DEF Installed, StartProgram
  <2>4. /\ prog' \in {"off", "boot", "run", "leaving"} /\ ver' \in {Old, New, Torn}
        /\ prog' \in {"run", "leaving"} => ver' # Torn
    BY <1>0, <1>1, HelperLeavesReceiver DEF Installed
  <2> QED BY <2>1, <2>2, <2>3, <2>4 DEF Installed
<1>2. CASE \/ \E t \in Tasks : StartUpgrade(t)
           \/ Expire \/ ServerStep \/ Drop \/ UNCHANGED vars
  <2>1. UNCHANGED <<procVars, binVars, pending, result, health, helper, stuck>>
    BY <1>2 DEF StartUpgrade, Expire, ServerStep, ServerLogin, OfferAfterLogin, ServerStatus, LateStatus,
                LateClosed, Drop, vars
  <2> QED BY <1>0, <2>1 DEF Installed
<1>3. CASE Boot \/ Sweep
  <2>1. \E current : Cleanup(current)
    BY <1>3 DEF Boot, Sweep
  <2>2. backup' \in [Tasks -> {Old, New, Torn, None}]
    BY <1>0, <2>1, CleanupKeeps
  <2> QED BY <1>0, <1>3, <2>2 DEF Boot, Sweep, Installed
<1>4. CASE Dial \/ RefuseOffer \/ AcceptOffer \/ RefuseChunk \/ WriteChunk \/ SaveChunk
  <2>1. UNCHANGED <<procVars, binVars, pending, result, health, helper, stuck>>
    BY <1>4 DEF Dial, RefuseOffer, AcceptOffer, RefuseChunk, WriteChunk, SaveChunk
  <2> QED BY <1>0, <2>1 DEF Installed
<1>5. CASE LoginAck \/ Exit \/ Crash \/ Restart
  BY <1>0, <1>5 DEF LoginAck, Exit, Crash, Restart, Launch, Installed
<1>6. CASE PowerLoss
  BY <1>0, <1>6 DEF PowerLoss, Installed, HelperPhases
<1>7. CASE StartApply \/ ApplyFails
  <2>1. prog = "run" /\ hand = "apply" /\ pending' = offer /\ result' = None /\ health' \subseteq health
    BY <1>7 DEF StartApply, ApplyFails, Prepare
  <2>2. offer \in Tasks
    BY <1>0, <2>1 DEF Receiving
  <2>3. CASE StartApply
    BY <1>0, <2>1, <2>2, <2>3 DEF StartApply, Installed, HelperPhases
  <2>4. CASE ApplyFails
    BY <1>0, <2>1, <2>2, <2>4 DEF ApplyFails, Installed
  <2> QED BY <1>7, <2>3, <2>4
<1> QED BY <1>1, <1>2, <1>3, <1>4, <1>5, <1>6, <1>7, StepCases DEF ClientStep, UnitBusy, NotStarted

\* The steps of one helper: it is alone, and the others stay as they are.
LEMMA HelperSwitching ==
    ASSUME Typed, Switching, NEW t \in Tasks, HelperStep(t) \/ HelperFault(t)
    PROVE  Switching'
<1>0. Receiving /\ Installed /\ Alone /\ Genuine /\ Still /\ Trial /\ Noted /\ OldKept
        /\ None \notin Tasks /\ Old # New /\ Torn # Old /\ None \notin {Old, New, Torn}
  BY UpgradeAssumption DEF Typed, Switching
<1> USE DEF binVars
<1>1. helper[t] # "none" /\ Active(t)
  BY HelperMoves DEF Active
<1>2. /\ \A u \in Tasks \ {t} : helper[u] = "none" /\ helper'[u] = "none"
      /\ prog = "run" => offer \in {t, None}
  <2>1. \A u \in Tasks \ {t} : helper'[u] = helper[u]
    BY <1>0, HelperMoves DEF Installed
  <2>2. \A u \in Tasks \ {t} : helper[u] = "none"
    BY <1>0, <1>1 DEF Alone, Active
  <2>3. prog = "run" => offer \in {t, None}
    BY <1>0, <1>1 DEF Alone, Receiving
  <2> QED BY <2>1, <2>2, <2>3
<1>3. /\ UNCHANGED <<offer, mode>>
      /\ \/ UNCHANGED <<prog, ver, link>>
         \/ prog' = "off" /\ ver' = ver /\ link' = "down"
         \/ prog = "off" /\ prog' = "boot" /\ ver' = target /\ link' = link
  BY HelperLeavesReceiver DEF recvVars
<1>4. Alone'
  <2>1. \A u \in Tasks : Active(u)' => u = t
    BY <1>2 DEF Active
  <2>2. \A u \in Tasks : prog' = "run" /\ offer' = u => u = t
    BY <1>0, <1>2, <1>3
  <2> QED BY <2>1, <2>2 DEF Alone
<1>5. Genuine'
  <2>1. target' = target \/ (prog = "off" /\ prog' = "off")
    <3>1. CASE helper[t] \in {"switch", "restore"}
      BY <1>0, <3>1, HelperMoves DEF Still
    <3>2. CASE helper[t] \notin {"switch", "restore"}
      BY <3>2, HelperMoves
    <3> QED BY <3>1, <3>2
  <2> QED BY <1>0, <1>3, <2>1 DEF Genuine
\* What a step means for the phase it leads to
<1>6. helper \in [Tasks -> HelperPhases] /\ \A p : [helper EXCEPT ![t] = p][t] = p
  BY <1>0 DEF Installed
<1>7. helper'[t] \in {"backup", "stage", "switch", "start", "giveBack", "restart", "restore"} =>
        prog' = "off" /\ ~launched'
  <2>1. CASE helper[t] = "wait"
    <3>1. /\ helper'[t] = "backup" => mode # "service" /\ ~ParentAlive(t)
          /\ helper'[t] \in {"stop", "backup", "none"} /\ UNCHANGED <<prog, launched>>
      BY <1>6, <2>1, HelperMoves
    <3>2. mode # "service" => ~launched /\ (prog = "off" \/ ParentAlive(t))
      BY <1>0, <2>1 DEF Still, ParentAlive
    <3> QED BY <1>0, <3>1, <3>2
  <2>2. CASE helper[t] \in {"backup", "stage", "switch", "giveBack", "restore"}
    <3>1. UNCHANGED <<prog, launched>>
      BY <2>2, HelperMoves
    <3> QED BY <1>0, <2>2, <3>1 DEF Still
  <2>3. CASE helper[t] \notin {"wait", "backup", "stage", "switch", "giveBack", "restore"}
    BY <1>6, <2>3, HelperMoves
  <2> QED BY <2>1, <2>2, <2>3
<1>8. mode' # "service" /\ helper'[t] \in {"check", "wait"} =>
        ~launched' /\ (prog' = "off" \/ (prog' = "leaving" /\ offer' = t))
  <2>1. helper'[t] \in {"check", "wait"} => helper[t] = "check" /\ UNCHANGED <<prog, launched>>
    BY <1>6, HelperMoves
  <2> QED BY <1>0, <1>3, <2>1 DEF Still
<1>9. Still'
  BY <1>2, <1>7, <1>8 DEF Still
<1>a. Trial'
  <2>1. helper'[t] \in {"check", "wait", "stop", "backup", "stage", "switch"} =>
          target' = Old /\ t \notin health'
    <3>1. helper'[t] \in {"check", "wait", "stop", "backup", "stage", "switch"} =>
            /\ helper[t] \in {"check", "wait", "stop", "backup", "stage"}
            /\ UNCHANGED <<target, health>>
      BY <1>6, HelperMoves
    <3> QED BY <1>0, <3>1 DEF Trial
  <2>2. helper'[t] = "switch" => installing'[t] # None
    <3>1. helper'[t] = "switch" => \E x \in {New, Torn} : installing' = [installing EXCEPT ![t] = x]
      BY <1>6, HelperMoves
    <3> QED BY <1>0, <3>1 DEF Installed
  <2>3. helper'[t] \in {"start", "watch"} => target' # Old
    <3>1. helper'[t] \in {"start", "watch"} =>
            \/ helper[t] = "switch" /\ target' = installing[t]
            \/ helper[t] = "start" /\ target' = target
      BY <1>6, HelperMoves
    <3> QED BY <1>0, <3>1 DEF Trial, Installed
  <2> QED BY <1>2, <2>1, <2>2, <2>3 DEF Trial
<1>b. Noted'
  <2>1. helper'[t] \in {"check", "wait", "stop", "backup", "stage", "switch", "start", "watch"} =>
          pending' = t /\ result' = None
    BY <1>0, HelperMoves DEF Noted, Installed
  <2> QED BY <1>2, <2>1 DEF Noted
<1>c. OldKept'
  <2>1. helper'[t] \in {"stage", "switch", "start", "watch"} /\ t \notin health' => backup'[t] = Old
    BY <1>0, HelperMoves DEF OldKept, Trial, Installed
  <2> QED BY <1>2, <2>1 DEF OldKept
<1> QED BY <1>4, <1>5, <1>9, <1>a, <1>b, <1>c DEF Switching

\* The steps that leave the files and the helpers alone, and of the program at
\* most stop it.
LEMMA QuietSwitching ==
    ASSUME Switching, UNCHANGED <<ver, launched, offer, mode, binVars, pending, result, health, helper>>,
           \/ UNCHANGED prog /\ (link' \in {link, "down"} \/ prog # "off")
           \/ prog' = "off" /\ link' = "down"
    PROVE  Switching'
<1> USE DEF binVars, Switching
<1>1. Alone' /\ Genuine'
  BY DEF Alone, Genuine, Active
<1>2. Still'
  BY DEF Still
<1>3. Trial' /\ Noted' /\ OldKept'
  BY DEF Trial, Noted, OldKept
<1> QED BY <1>1, <1>2, <1>3

LEMMA ApplySwitching ==
    ASSUME Typed, Switching, Prepare, UNCHANGED <<offer, mode, binVars, ver>>,
           \/ /\ helper[offer] = "none" /\ helper' = [helper EXCEPT ![offer] = "check"]
              /\ prog' = "leaving" /\ launched' = (mode = "service") /\ UNCHANGED link
           \/ link' = "down" /\ UNCHANGED <<prog, launched, helper>>
    PROVE  Switching'
<1> USE DEF binVars
<1>0. /\ Alone /\ Genuine /\ Still /\ Trial /\ Noted /\ OldKept
      /\ helper \in [Tasks -> HelperPhases] /\ health \subseteq Tasks
  BY DEF Typed, Switching, Installed
<1>1. /\ prog = "run" /\ offer \in Tasks /\ ver = Old /\ target = Old
      /\ pending' = offer /\ result' = None /\ health' = health \ {offer}
  <2>1. prog = "run" /\ offer \in Tasks /\ offer # None
    BY UpgradeAssumption DEF Typed, Prepare, Receiving
  <2> QED BY <1>0, <2>1 DEF Genuine, Prepare
<1>2. \A t \in Tasks \ {offer} : helper[t] = "none" /\ helper'[t] = "none"
  BY <1>0, <1>1 DEF Alone, Active
<1>3. CASE UNCHANGED <<prog, launched, helper>> /\ link' = "down"
  <2>1. \A t \in Tasks : Active(t) => t = offer
    BY <1>0, <1>1 DEF Alone
  <2>2. Alone' /\ Genuine'
    BY <1>0, <1>1, <1>3 DEF Alone, Genuine, Active
  <2>3. Still'
    BY <1>0, <1>1, <1>3 DEF Still
  <2>4. Trial'
    BY <1>0, <1>1, <1>3 DEF Trial
  <2>5. Noted'
    BY <1>1, <1>3, <2>1 DEF Noted, Active
  <2>6. OldKept'
    BY <1>0, <1>1, <1>3 DEF OldKept, Trial
  <2> QED BY <2>2, <2>3, <2>4, <2>5, <2>6 DEF Switching
<1>4. CASE /\ helper[offer] = "none" /\ helper' = [helper EXCEPT ![offer] = "check"]
           /\ prog' = "leaving" /\ launched' = (mode = "service") /\ UNCHANGED link
  <2>1. helper'[offer] = "check"
    BY <1>0, <1>1, <1>4
  <2>2. Alone' /\ Genuine'
    BY <1>0, <1>1, <1>2, <1>4 DEF Alone, Genuine, Active
  <2>3. Still'
    BY <1>2, <1>4, <2>1 DEF Still
  <2>4. Trial'
    BY <1>1, <1>2, <2>1 DEF Trial
  <2>5. Noted' /\ OldKept'
    BY <1>1, <1>2, <2>1 DEF Noted, OldKept
  <2> QED BY <2>2, <2>3, <2>4, <2>5 DEF Switching
<1> QED BY <1>3, <1>4

LEMMA SwitchingStep ==
    ASSUME Typed, Switching, [Next]_vars
    PROVE  Switching'
<1>0. /\ Receiving /\ Installed /\ Talking
      /\ Alone /\ Genuine /\ Still /\ Trial /\ Noted /\ OldKept
      /\ None \notin Tasks /\ Old # New /\ Torn # Old
  BY UpgradeAssumption DEF Typed, Switching
<1> USE DEF binVars, noteVars, procVars, helpVars, recvVars
<1>1. ASSUME NEW t \in Tasks, HelperStep(t) \/ HelperFault(t) PROVE Switching'
  BY <1>1, HelperSwitching
<1>2. CASE \/ \E t \in Tasks : StartUpgrade(t)
           \/ Expire \/ ServerStep \/ UNCHANGED vars
  <2>1. UNCHANGED <<prog, ver, launched, offer, mode, binVars, pending, result, health, helper, link>>
    BY <1>2 DEF StartUpgrade, Expire, ServerStep, ServerLogin, OfferAfterLogin, ServerStatus, LateStatus,
                LateClosed, vars, netVars
  <2> QED BY <2>1, QuietSwitching
<1>3. CASE Drop \/ Dial \/ RefuseOffer \/ RefuseChunk \/ WriteChunk \/ SaveChunk
  <2>1. /\ UNCHANGED <<prog, ver, launched, offer, mode, binVars, pending, result, health, helper>>
        /\ link' \in {link, "down"} \/ prog # "off"
    BY <1>3 DEF Drop, CutOff, CutAfter, Dial, RefuseOffer, RefuseChunk, WriteChunk, SaveChunk, Receives
  <2> QED BY <2>1, QuietSwitching
<1>4. CASE Exit \/ Crash
  <2>1. /\ UNCHANGED <<ver, launched, offer, mode, binVars, pending, result, health, helper>>
        /\ prog' = "off" /\ link' = "down"
    BY <1>4 DEF Exit, Crash, CutOff, CutAfter
  <2> QED BY <2>1, QuietSwitching
<1>5. CASE StartApply \/ ApplyFails
  BY <1>5, ApplySwitching DEF StartApply, ApplyFails, CutAfter
<1>6. CASE Boot \/ Sweep
  <2>1. /\ \E current : Cleanup(current)
        /\ UNCHANGED <<ver, launched, mode, link, target, installing, pending, result, health, helper>>
        /\ prog \in {"boot", "run"} /\ prog' = "run" /\ (offer' = None \/ (prog = "run" /\ offer' = offer))
    BY <1>6 DEF Boot, Sweep, netVars
  <2>2. Protected => backup' = backup
    BY <1>0, <2>1, CleanupKeeps
  <2>3. Alone' /\ Genuine'
    BY <1>0, <2>1 DEF Alone, Genuine, Active
  <2>4. Still' /\ Trial' /\ Noted'
    BY <1>0, <2>1 DEF Still, Trial, Noted
  <2>5. OldKept'
    <3>1. \A t \in Tasks : helper[t] \in {"stage", "switch", "start", "watch"} => backup' = backup
      BY <1>0, <2>2, ProtectedWhile
    <3> QED BY <1>0, <2>1, <3>1 DEF OldKept
  <2> QED BY <2>3, <2>4, <2>5 DEF Switching
<1>7. CASE LoginAck
  <2>1. /\ UNCHANGED <<prog, ver, launched, offer, mode, binVars, pending, helper>>
        /\ result' = None /\ link # "down"
        /\ health \subseteq health'
        /\ health' # health => ver = New
    BY <1>7 DEF LoginAck
  <2>2. Alone' /\ Genuine'
    BY <1>0, <2>1 DEF Alone, Genuine, Active
  <2>3. Still' /\ Noted' /\ OldKept'
    BY <1>0, <2>1 DEF Still, Noted, OldKept
  <2>4. target = Old => health' = health
    BY <1>0, <2>1 DEF Genuine
  <2>5. Trial'
    BY <1>0, <2>1, <2>4 DEF Trial
  <2> QED BY <2>2, <2>3, <2>5 DEF Switching
<1>8. CASE AcceptOffer
  <2>1. /\ UNCHANGED <<prog, ver, launched, mode, binVars, pending, result, health, helper, link>>
        /\ prog = "run" /\ ver = Old /\ \A u \in Tasks \ {offer'} : ~Active(u)
    BY <1>8 DEF AcceptOffer, Receives
  <2>2. Alone' /\ Genuine'
    BY <1>0, <2>1 DEF Alone, Genuine, Active
  <2>3. Still'
    BY <1>0, <2>1 DEF Still
  <2>4. Trial' /\ Noted' /\ OldKept'
    BY <1>0, <2>1 DEF Trial, Noted, OldKept
  <2> QED BY <2>2, <2>3, <2>4 DEF Switching
<1>9. CASE PowerLoss
  <2>1. /\ prog' = "off" /\ link' = "down" /\ \A t \in Tasks : helper'[t] = "none"
    BY <1>9 DEF PowerLoss, CutOff, CutAfter
  <2> QED BY <2>1 DEF Switching, Alone, Active, Genuine, Still, Trial, Noted, OldKept
<1>a. CASE Restart
  <2>1. /\ UNCHANGED <<launched, offer, mode, link, binVars, pending, result, health, helper>>
        /\ prog = "off" /\ launched /\ prog' = "boot" /\ ver' = target
    BY <1>a DEF Restart, Launch, netVars
  <2>2. Alone' /\ Genuine'
    BY <1>0, <2>1 DEF Alone, Genuine, Active
  <2>3. Still'
    BY <1>0, <2>1 DEF Still
  <2>4. Trial' /\ Noted' /\ OldKept'
    BY <1>0, <2>1 DEF Trial, Noted, OldKept
  <2> QED BY <2>2, <2>3, <2>4 DEF Switching
<1> QED BY <1>1, <1>2, <1>3, <1>4, <1>5, <1>6, <1>7, <1>8, <1>9, <1>a, StepCases
        DEF ClientStep, UnitBusy, NotStarted

LEMMA RelaunchesStep ==
    ASSUME Typed, Switching, Relaunches, [Next]_vars
    PROVE  Relaunches'
<1>0. Receiving /\ Installed /\ Alone /\ None \notin Tasks
  BY UpgradeAssumption DEF Typed, Switching
<1> USE DEF binVars, noteVars, procVars, helpVars, recvVars
<1>1. ASSUME NEW t \in Tasks, HelperStep(t) \/ HelperFault(t) PROVE Relaunches'
  <2>1. helper \in [Tasks -> HelperPhases] /\ \A p : [helper EXCEPT ![t] = p][t] = p
    BY <1>0 DEF Installed
  <2>2. \/ helper'[t] \in Due
        \/ stuck' # "no"
        \/ launched' = TRUE
        \/ helper[t] \in {"clear", "watch"} /\ UNCHANGED <<launched, stuck>>
    BY <1>1, <2>1, HelperMoves DEF Due, StartProgram
  <2>3. CASE helper[t] \in {"clear", "watch"} /\ UNCHANGED <<launched, stuck>>
    <3>1. \A u \in Tasks : helper[u] \in Due => u = t
      BY <1>0, <2>3 DEF Alone, Active, Due
    <3> QED BY <2>3, <3>1 DEF Relaunches, Due
  <2> QED BY <2>2, <2>3 DEF Relaunches
<1>2. CASE \/ \E t \in Tasks : StartUpgrade(t)
           \/ Expire \/ ServerStep \/ UNCHANGED vars
  BY <1>2 DEF StartUpgrade, Expire, ServerStep, ServerLogin, OfferAfterLogin, ServerStatus, LateStatus,
              LateClosed, vars, Relaunches
<1>3. CASE Drop \/ Dial \/ RefuseOffer \/ RefuseChunk \/ WriteChunk \/ SaveChunk \/ Exit \/ Crash \/ ApplyFails
  BY <1>3 DEF Drop, Dial, RefuseOffer, RefuseChunk, WriteChunk, SaveChunk, Exit, Crash, ApplyFails, Relaunches
<1>4. CASE Boot \/ Sweep \/ LoginAck \/ AcceptOffer \/ Restart
  BY <1>4 DEF Boot, Sweep, LoginAck, AcceptOffer, Restart, Relaunches
<1>5. CASE PowerLoss
  BY <1>5 DEF PowerLoss, Relaunches
<1>6. CASE StartApply
  <2>1. offer \in Tasks /\ helper' = [helper EXCEPT ![offer] = "check"]
    BY <1>0, <1>6 DEF StartApply, Prepare, Receiving
  <2>2. helper'[offer] \in Due
    BY <1>0, <2>1 DEF Installed, Due
  <2> QED BY <2>1, <2>2 DEF Relaunches
<1> QED BY <1>1, <1>2, <1>3, <1>4, <1>5, <1>6, StepCases DEF ClientStep, UnitBusy, NotStarted

-----------------------------------------------------------------------------
IInv == Typed /\ StagedWhileRunning /\ NoHole /\ Switching /\ Relaunches

LEMMA InitHolds == Init => IInv
<1> SUFFICES ASSUME Init PROVE IInv
  OBVIOUS
<1>0. Size \in Nat \ {0} /\ None \notin Tasks
  BY UpgradeAssumption
<1>1. Serving /\ Talking
  BY <1>0, SeqFacts DEF Init, Serving, Talking
<1>2. Receiving
  <2>1. 0 \in 0 .. Size
    BY <1>0
  <2>2. cand \in [Tasks -> 0 .. Size \cup {Torn, None}]
    BY DEF Init
  <2> QED BY <2>1, <2>2 DEF Init, Receiving
<1>3. Installed
  BY DEF Init, Installed, HelperPhases
<1>4. StagedWhileRunning /\ NoHole
  BY DEF Init, StagedWhileRunning, NoHole
<1>5. Alone /\ Genuine /\ Still
  BY DEF Init, Alone, Active, Genuine, Still
<1>6. Trial /\ Noted /\ OldKept
  BY DEF Init, Trial, Noted, OldKept
<1>7. Relaunches
  BY DEF Init, Relaunches
<1> QED BY <1>1, <1>2, <1>3, <1>4, <1>5, <1>6, <1>7 DEF IInv, Typed, Switching

LEMMA StepHolds == IInv /\ [Next]_vars => IInv'
<1> SUFFICES ASSUME IInv, [Next]_vars PROVE IInv'
  OBVIOUS
<1>1. Typed /\ StagedWhileRunning /\ NoHole /\ Switching /\ Relaunches
  BY DEF IInv
<1>2. Serving' /\ Talking' /\ StagedWhileRunning'
  BY <1>1, ServingStep
<1>3. Receiving' /\ NoHole'
  BY <1>1, ReceivingStep
<1>4. Installed'
  BY <1>1, InstalledStep
<1>5. Switching' /\ Relaunches'
  BY <1>1, SwitchingStep, RelaunchesStep
<1> QED BY <1>2, <1>3, <1>4, <1>5 DEF IInv, Typed

\* The invariant that the results below are read from holds of every behaviour.
THEOREM Invariance == Spec => []IInv
BY InitHolds, StepHolds, PTL DEF Spec

\* Every variable keeps its type: no step of the server, the client or a helper
\* leaves, for one, a half recorded download or a program that is not there.
THEOREM TypeCorrect == Spec => []TypeOK
<1>1. IInv => TypeOK
  BY TypesHold DEF IInv
<1> QED BY <1>1, Invariance, PTL

\* The server keeps the artifact of a task exactly while the task runs, whatever
\* reports arrive late, and whichever of a login, a failed push or the time
\* limit ends it (upgrade_manager.go:132, 169, 180, 225, 237).
THEOREM ArtifactsKept == Spec => []StagedWhileRunning
<1>1. IInv => StagedWhileRunning
  BY DEF IInv
<1> QED BY <1>1, Invariance, PTL

\* A receiver with an offer has every byte it counts, through lost connections,
\* torn writes, restarts and clean-ups, for any number of chunks and tasks
\* (receiver.go:147, 229, 345).
THEOREM DownloadsWhole == Spec => []NoHole
<1>1. IInv => NoHole
  BY DEF IInv
<1> QED BY <1>1, Invariance, PTL

\* The binary that worked is in the backup from before the switch until the new
\* client has called itself healthy or been given up, so no clean-up of a client
\* that starts in between takes it (receiver.go:334, 354).
THEOREM PredecessorKept == Spec => []OldKept
<1>1. IInv => OldKept
  BY DEF IInv, Switching
<1> QED BY <1>1, Invariance, PTL

\* Whoever stops the client's program goes on to start it again, or says why
\* not (apply.go:44, 96, 160).
THEOREM ClientComesBack == Spec => []NotLeftStopped
<1>1. IInv => NotLeftStopped
  BY DEF IInv, Relaunches, Due, NotLeftStopped, Active
<1> QED BY <1>1, Invariance, PTL
=============================================================================
