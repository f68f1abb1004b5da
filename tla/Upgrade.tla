------------------------------- MODULE Upgrade -------------------------------
(***************************************************************************)
(* The remote upgrade of one player's client: the server's task            *)
(* (manager/upgrade_manager.go, server/session.go, web/server.go), the     *)
(* client's download (upgrade/receiver.go, client/client.go) and the       *)
(* helper that switches binaries (upgrade/apply.go).  The connection may   *)
(* break, the client and the machine may stop, at any step; what the       *)
(* client has synced to its disk stays.                                    *)
(*                                                                         *)
(* Every task offers the version New to a client installed as Old.  Files  *)
(* are kept by their content: an artifact is its number of whole chunks,   *)
(* or Torn when the machine stopped in the middle of a write.  Time is     *)
(* left open: a timer may fire, and a wait may time out, whenever its      *)
(* condition is met.  The client speaks the protocol; refusals of offers   *)
(* that no server of this project makes are left out.                      *)
(***************************************************************************)
EXTENDS Naturals, Sequences, FiniteSets

CONSTANTS
    Tasks,      \* upgrade tasks the administrator may start, random ids
    Size,       \* chunks of an artifact
    Old, New, Torn, None

ASSUME UpgradeAssumption ==
    /\ Size \in Nat \ {0}
    /\ Old # New /\ None \notin {Old, New} \cup Tasks
    /\ None \notin Nat /\ Torn \notin Nat \cup {Old, New, None}

VARIABLES
    \* the server
    task,       \* the player's upgradeTask: id, state, offset, staged (artifactPath is set)
    used,       \* ids of the tasks started so far
    info,       \* the client version of the last login
    sess,       \* the session of the client's connection: none, anon, in
    timer,      \* the session's offer, 500 ms after its login, is due
    late,       \* reports of a former connection that its reader has not handled yet
    lateOpen,   \* the session of that connection is still open for the server
    \* the connection
    link,       \* the client's end: down, login (not answered yet), up
    c2s, s2c,
    \* the client process
    mode,       \* "service", restarted by the service manager, or "foreground"
    prog,       \* off, boot (before NewReceiver), run, leaving (the helper is started)
    ver,        \* its version
    launched,   \* the last command to the service, or about the process, was a start
    offer, rOffset,   \* Receiver.offer, .candidate and .offset
    hand,       \* what readLoop is in the middle of: idle, save (a chunk), apply
    sweep,      \* a cleanup timer is running
    \* the client's disk
    target, backup, installing, cand,
    download,   \* download.json: task and offset
    pending,    \* pending.json
    result,     \* last-result.json
    health,     \* tasks with a health file
    \* apply-update, one helper per task
    helper,
    stuck       \* a helper returned without a client started: no, parent, restore

taskVars == <<task, used, info>>
netVars == <<sess, timer, late, lateOpen, link, c2s, s2c>>
procVars == <<prog, ver, launched>>
recvVars == <<offer, rOffset, hand, sweep>>
binVars == <<target, backup, installing>>
noteVars == <<download, pending, result, health>>
helpVars == <<helper, stuck>>
vars == <<taskVars, netVars, mode, procVars, recvVars, binVars, cand, noteVars, helpVars>>

-----------------------------------------------------------------------------
Terminal(state) == state \in {"succeeded", "failed", "rolled_back"}
Running(tk) == tk # None /\ ~Terminal(tk.state)

Status(t, state, off) == [type |-> "Status", task |-> t, state |-> state, off |-> off]
Chunk(t, off) == [type |-> "Chunk", task |-> t, off |-> off]
Offer(t) == [type |-> "Offer", task |-> t]

Init ==
    /\ task = None /\ used = {} /\ info = None
    /\ sess = "none" /\ timer = FALSE /\ late = <<>> /\ lateOpen = FALSE
    /\ link = "down" /\ c2s = <<>> /\ s2c = <<>>
    /\ mode \in {"service", "foreground"}
    /\ prog = "off" /\ ver = Old /\ launched = TRUE
    /\ offer = None /\ rOffset = 0 /\ hand = "idle" /\ sweep = FALSE
    /\ target = Old /\ backup = [t \in Tasks |-> None] /\ installing = [t \in Tasks |-> None]
    /\ cand = [t \in Tasks |-> None]
    /\ download = None /\ pending = None /\ result = None /\ health = {}
    /\ helper = [t \in Tasks |-> "none"] /\ stuck = "no"

-----------------------------------------------------------------------------
\* The server's task

\* Fail and pruneExpired: the staged artifact goes with the task's last state
Failed(tk) == [tk EXCEPT !.state = "failed", !.staged = FALSE]

\* HandleStatus: a report counts for the running task it names
Counts(tk, m) == Running(tk) /\ tk.id = m.task

\* Mutant of Reported: the artifact of a rolled back task stays behind
ReportedKeeps(tk, m) ==
    IF Counts(tk, m)
    THEN [tk EXCEPT !.state = m.state, !.offset = m.off, !.staged = m.state # "failed"]
    ELSE tk

Reported(tk, m) ==
    IF Counts(tk, m)
    THEN [tk EXCEPT !.state = m.state, !.offset = m.off,
                    !.staged = m.state \notin {"failed", "rolled_back"}]
    ELSE tk

AsksForChunk(tk, m) == Counts(tk, m) /\ m.state \in {"accepted", "downloading"} /\ m.off < Size

\* CompleteOnLogin
Completed(tk, version) ==
    IF tk # None /\ version = New
    THEN [tk EXCEPT !.state = "succeeded", !.offset = Size, !.staged = FALSE]
    ELSE tk

\* SendPush to a session that is open: lost when the connection is not
Push(m) == s2c' = Append(s2c, m)

\* upgradeClient with Start: the offer is pushed at once; a session that has
\* gone since the player was found online fails the task
StartUpgrade(t) ==
    /\ info = Old /\ t \notin used
    /\ ~Running(task)
    /\ used' = used \cup {t}
    /\ LET new == [id |-> t, state |-> "offered", offset |-> 0, staged |-> TRUE]
       IN  \/ sess = "in" /\ task' = new /\ Push(Offer(t))
           \/ sess # "in" /\ lateOpen /\ task' = new /\ UNCHANGED s2c
           \/ sess # "in" /\ ~lateOpen /\ task' = Failed(new) /\ UNCHANGED s2c
    /\ UNCHANGED <<info, sess, timer, late, lateOpen, link, c2s>>
    /\ UNCHANGED <<mode, procVars, recvVars, binVars, cand, noteVars, helpVars>>

\* pruneExpiredLocked, which every call begins with, and Remove
Expire ==
    /\ task # None
    /\ \/ Running(task) /\ task' = Failed(task)
       \/ task' = None
    /\ UNCHANGED <<used, info, netVars, mode, procVars, recvVars, binVars, cand, noteVars, helpVars>>

\* onLogin with BindClient: the former session is closed, a result of the last
\* attempt is recorded, and a login of the new version completes the task
ServerLogin ==
    /\ sess = "anon" /\ c2s # <<>>
    /\ LET m == Head(c2s)
           told == IF m.result = None THEN task ELSE Reported(task, Status(m.result, "rolled_back", 0))
       IN  /\ task' = Completed(told, m.ver)
           /\ info' = m.ver
    /\ sess' = "in" /\ timer' = TRUE /\ lateOpen' = FALSE
    /\ c2s' = Tail(c2s) /\ Push([type |-> "LoginAck"])
    /\ UNCHANGED <<used, late, link>>
    /\ UNCHANGED <<mode, procVars, recvVars, binVars, cand, noteVars, helpVars>>

\* Mutant of OfferAfterLogin: a download that was cut off is not offered again
NoOfferAfterLogin ==
    /\ timer /\ timer' = FALSE
    /\ UNCHANGED <<taskVars, sess, late, lateOpen, link, c2s, s2c>>
    /\ UNCHANGED <<mode, procVars, recvVars, binVars, cand, noteVars, helpVars>>

\* The AfterFunc of onLogin
OfferAfterLogin ==
    /\ timer /\ timer' = FALSE
    /\ IF Running(task) THEN Push(Offer(task.id)) ELSE UNCHANGED s2c
    /\ UNCHANGED <<taskVars, sess, late, lateOpen, link, c2s>>
    /\ UNCHANGED <<mode, procVars, recvVars, binVars, cand, noteVars, helpVars>>

\* handleUpgradeStatus
ServerStatus ==
    /\ sess = "in" /\ c2s # <<>>
    /\ LET m == Head(c2s)
       IN  /\ task' = Reported(task, m)
           /\ IF AsksForChunk(task, m) THEN Push(Chunk(m.task, m.off)) ELSE UNCHANGED s2c
    /\ c2s' = Tail(c2s)
    /\ UNCHANGED <<used, info, sess, timer, late, lateOpen, link>>
    /\ UNCHANGED <<mode, procVars, recvVars, binVars, cand, noteVars, helpVars>>

\* handleUpgradeStatus of a session whose connection has gone: the chunk is lost,
\* or refused and the task failed once the session is closed
LateStatus ==
    /\ late # <<>> /\ late' = Tail(late)
    /\ LET m == Head(late)
           told == Reported(task, m)
       IN  task' = IF AsksForChunk(task, m) /\ ~lateOpen THEN Failed(told) ELSE told
    /\ UNCHANGED <<used, info, sess, timer, lateOpen, link, c2s, s2c>>
    /\ UNCHANGED <<mode, procVars, recvVars, binVars, cand, noteVars, helpVars>>

\* The server notices that a connection is gone
LateClosed ==
    /\ lateOpen /\ lateOpen' = FALSE
    /\ UNCHANGED <<taskVars, sess, timer, late, link, c2s, s2c>>
    /\ UNCHANGED <<mode, procVars, recvVars, binVars, cand, noteVars, helpVars>>

-----------------------------------------------------------------------------
\* The connection ends: what the client sent may have reached the server in part
CutAfter(sent) ==
    /\ link' = "down" /\ s2c' = <<>> /\ c2s' = <<>> /\ sess' = "none" /\ timer' = FALSE
    /\ IF sess = "in"
       THEN /\ lateOpen' = TRUE
            /\ \E n \in 0 .. Len(sent) : late' = SubSeq(sent, 1, n)
       ELSE UNCHANGED <<late, lateOpen>>

CutOff == CutAfter(c2s)

Drop ==
    /\ link # "down" /\ CutOff
    /\ UNCHANGED <<taskVars, mode, procVars, recvVars, binVars, cand, noteVars, helpVars>>

-----------------------------------------------------------------------------
\* The client

\* cleanupStaleUpdateFiles.  The candidate of the running receiver's offer and of
\* a pending switch are kept, and until its result is known its backup too.
Protected == pending # None /\ result = None

Keeps(t, current) == t = current \/ (Protected /\ pending = t)

\* Mutant of Cleanup: the backup of a pending switch is not protected
CleanupBackups(current) ==
    /\ cand' = [t \in Tasks |-> IF Keeps(t, current) THEN cand[t] ELSE None]
    /\ backup' = [t \in Tasks |-> None]

Cleanup(current) ==
    /\ cand' = [t \in Tasks |-> IF Keeps(t, current) THEN cand[t] ELSE None]
    /\ backup' = IF Protected THEN backup ELSE [t \in Tasks |-> None]

Launch == prog' = "boot" /\ ver' = target

\* NewReceiver
Boot ==
    /\ prog = "boot" /\ ver # Torn /\ prog' = "run"
    /\ Cleanup(None)
    /\ offer' = None /\ rOffset' = 0 /\ hand' = "idle" /\ sweep' = FALSE
    /\ UNCHANGED <<taskVars, netVars, mode, ver, launched, target, installing, noteVars, helpVars>>

\* runOne: the login carries the result of the last upgrade
Dial ==
    /\ prog = "run" /\ link = "down" /\ hand = "idle"
    /\ link' = "login" /\ sess' = "anon"
    /\ c2s' = <<[type |-> "Login", ver |-> ver, result |-> result]>>
    /\ UNCHANGED <<taskVars, timer, late, lateOpen, s2c>>
    /\ UNCHANGED <<mode, procVars, recvVars, binVars, cand, noteVars, helpVars>>

\* handleFrame, LoginAck: MarkHealthy, PendingResult and AcknowledgeResult
LoginAck ==
    /\ link = "login" /\ s2c # <<>> /\ s2c' = Tail(s2c)
    /\ link' = "up"
    /\ LET healthy == pending # None /\ ver = New
       IN  /\ health' = IF healthy THEN health \cup {pending} ELSE health
           /\ sweep' = (sweep \/ healthy \/ result # None)
    /\ result' = None
    /\ UNCHANGED <<taskVars, sess, timer, late, lateOpen, c2s>>
    /\ UNCHANGED <<mode, procVars, offer, rOffset, hand, binVars, cand, download, pending, helpVars>>

Say(m) == c2s' = Append(c2s, m)

Receives(type) ==
    /\ prog = "run" /\ link = "up" /\ hand = "idle"
    /\ s2c # <<>> /\ Head(s2c).type = type
    /\ s2c' = Tail(s2c)

Active(t) == helper[t] # "none"

\* Mutant of ResumeAt: the file is not compared with the offset that was saved
ResumeAtSaved(t) == IF download # None /\ download.task = t THEN download.off ELSE 0

\* Mutant of ResumeAt: the offset is taken for the number of the chunk that follows
ResumePast(t) ==
    IF download # None /\ download.task = t /\ cand[t] = download.off THEN download.off + 1 ELSE 0

\* Where a download goes on: the saved offset, when the file is that long
ResumeAt(t) ==
    IF download # None /\ download.task = t /\ cand[t] = download.off THEN download.off ELSE 0

\* Accept refuses a version that is not newer
RefuseOffer ==
    /\ Receives("Offer") /\ ver = New
    /\ Say(Status(Head(s2c).task, "failed", 0))
    /\ UNCHANGED <<taskVars, sess, timer, late, lateOpen, link>>
    /\ UNCHANGED <<mode, procVars, recvVars, binVars, cand, noteVars, helpVars>>

\* Accept: an artifact that is complete already is applied again.  The helper of
\* another task is done by then: its last steps are shorter than a new request.
AcceptOffer ==
    /\ Receives("Offer") /\ ver = Old
    /\ LET t == Head(s2c).task
           off == ResumeAt(t)
       IN  /\ \A u \in Tasks \ {t} : ~Active(u)
           /\ cand' = IF off = 0 THEN [cand EXCEPT ![t] = 0] ELSE cand
           /\ offer' = t /\ rOffset' = off
           /\ download' = [task |-> t, off |-> off]
           /\ Say(Status(t, IF off = Size THEN "verifying" ELSE "accepted", off))
           /\ hand' = IF off = Size THEN "apply" ELSE "idle"
    /\ UNCHANGED <<taskVars, sess, timer, late, lateOpen, link>>
    /\ UNCHANGED <<mode, procVars, sweep, binVars, pending, result, health, helpVars>>

Expected(m) == offer = m.task /\ rOffset = m.off

\* HandleChunk refuses a chunk it does not wait for, or has no file for
RefuseChunk ==
    /\ Receives("Chunk")
    /\ ~Expected(Head(s2c)) \/ cand[offer] = None
    /\ Say(Status(offer, "failed", rOffset))
    /\ UNCHANGED <<taskVars, sess, timer, late, lateOpen, link>>
    /\ UNCHANGED <<mode, procVars, recvVars, binVars, cand, noteVars, helpVars>>

\* HandleChunk up to the Sync of the file
WriteChunk ==
    /\ Receives("Chunk")
    /\ Expected(Head(s2c)) /\ cand[offer] # None
    /\ cand' = [cand EXCEPT ![offer] = rOffset + 1]
    /\ hand' = "save"
    /\ UNCHANGED <<taskVars, sess, timer, late, lateOpen, link, c2s>>
    /\ UNCHANGED <<mode, procVars, offer, rOffset, sweep, binVars, noteVars, helpVars>>

\* The rest of HandleChunk, and its report; a report that cannot be sent ends runOne
SaveChunk ==
    /\ prog = "run" /\ hand = "save"
    /\ rOffset' = rOffset + 1
    /\ download' = [task |-> offer, off |-> rOffset']
    /\ LET whole == rOffset' = Size
       IN  IF link = "up"
           THEN /\ Say(Status(offer, IF whole THEN "verifying" ELSE "downloading", rOffset'))
                /\ hand' = IF whole THEN "apply" ELSE "idle"
           ELSE hand' = "idle" /\ UNCHANGED c2s
    /\ UNCHANGED <<taskVars, sess, timer, late, lateOpen, link, s2c>>
    /\ UNCHANGED <<mode, procVars, offer, sweep, binVars, cand, pending, result, health, helpVars>>

\* StartApply
Prepare ==
    /\ prog = "run" /\ hand = "apply" /\ rOffset = Size
    /\ hand' = "idle"
    /\ pending' = offer /\ result' = None /\ health' = health \ {offer}

StartApply ==
    /\ Prepare
    /\ helper[offer] = "none"
    /\ helper' = [helper EXCEPT ![offer] = "check"]
    /\ prog' = "leaving" /\ launched' = (mode = "service")
    /\ IF link = "up" THEN Say(Status(offer, "applying", Size)) ELSE UNCHANGED c2s
    /\ UNCHANGED <<taskVars, sess, timer, late, lateOpen, link, s2c>>
    /\ UNCHANGED <<mode, ver, offer, rOffset, sweep, binVars, cand, download, stuck>>

\* The helper is not started; the report is the last message of the connection
ApplyFails ==
    /\ Prepare
    /\ CutAfter(Append(c2s, Status(offer, "failed", Size)))
    /\ UNCHANGED <<taskVars, mode, procVars, offer, rOffset, sweep, binVars, cand, download, helpVars>>

\* Its unit is running: the service manager has restarted the old client
UnitBusy == hand = "apply" /\ Active(offer) /\ ApplyFails

NotStarted == hand = "apply" /\ ~Active(offer) /\ ApplyFails

\* A timer of MarkHealthy or AcknowledgeResult
Sweep ==
    /\ prog = "run" /\ sweep /\ sweep' = FALSE
    /\ Cleanup(offer)
    /\ UNCHANGED <<taskVars, netVars, mode, procVars, offer, rOffset, hand, target, installing, noteVars, helpVars>>

\* ErrApplyStarted ends the process
Exit ==
    /\ prog = "leaving" /\ prog' = "off"
    /\ CutOff
    /\ UNCHANGED <<taskVars, mode, ver, launched, recvVars, binVars, cand, noteVars, helpVars>>

-----------------------------------------------------------------------------
\* The helper

At(t, pc, next) == helper[t] = pc /\ helper' = [helper EXCEPT ![t] = next]

Record(t) == result' = t

ParentAlive(t) == prog = "leaving" /\ offer = t

Quiet == UNCHANGED <<taskVars, mode, ver, recvVars>>

\* RunApplyHelper up to the digest of the candidate
HelperCheck(t) ==
    /\ At(t, "check", IF cand[t] = Size THEN "wait" ELSE "recover")
    /\ Quiet /\ UNCHANGED <<netVars, prog, launched, binVars, cand, noteVars, stuck>>

HelperWait(t) ==
    /\ At(t, "wait", IF mode = "service" THEN "stop" ELSE "backup")
    /\ ~ParentAlive(t)
    /\ Quiet /\ UNCHANGED <<netVars, prog, launched, binVars, cand, noteVars, stuck>>

\* The old process does not exit in 45 seconds: RunApplyHelper, or the wait of
\* recoverBeforeSwitch, returns and the files stay
ParentHangs(t) ==
    /\ \/ At(t, "wait", "none") /\ Record(t)
       \/ At(t, "recoverWait", "none") /\ UNCHANGED result
    /\ ParentAlive(t)
    /\ stuck' = "parent"
    /\ Quiet /\ UNCHANGED <<netVars, prog, launched, binVars, cand, download, pending, health>>

StopProgram == prog' = "off" /\ launched' = FALSE /\ CutOff

\* stopService before the switch; it may fail
HelperStop(t) ==
    /\ At(t, "stop", "backup") /\ StopProgram
    /\ Quiet /\ UNCHANGED <<binVars, cand, noteVars, stuck>>

StopFails(t) ==
    /\ At(t, "stop", "recover")
    /\ Quiet /\ UNCHANGED <<netVars, prog, launched, binVars, cand, noteVars, stuck>>

\* replaceTarget: backup, created exclusively
HelperBackup(t) ==
    /\ \/ At(t, "backup", "stage") /\ backup[t] = None /\ backup' = [backup EXCEPT ![t] = target]
       \/ At(t, "backup", "giveBack") /\ backup[t] # None /\ UNCHANGED backup
    /\ Quiet /\ UNCHANGED <<netVars, prog, launched, target, installing, cand, noteVars, stuck>>

\* replaceTarget: the candidate is copied beside the target
HelperStage(t) ==
    /\ \/ /\ At(t, "stage", "switch") /\ cand[t] # None /\ installing[t] = None
          /\ installing' = [installing EXCEPT ![t] = IF cand[t] = Size THEN New ELSE Torn]
       \/ /\ At(t, "stage", "giveBack") /\ (cand[t] = None \/ installing[t] # None)
          /\ UNCHANGED installing
    /\ Quiet /\ UNCHANGED <<netVars, prog, launched, target, backup, cand, noteVars, stuck>>

\* replaceTarget: one atomic rename
HelperSwitch(t) ==
    /\ At(t, "switch", "start")
    /\ target' = installing[t] /\ installing' = [installing EXCEPT ![t] = None]
    /\ Quiet /\ UNCHANGED <<netVars, prog, launched, backup, cand, noteVars, stuck>>

\* The rename is refused for 45 seconds, or the directory cannot be synced and
\* the backup is renamed over the new client
SwitchFails(t) ==
    /\ At(t, "switch", "giveBack")
    /\ installing' = [installing EXCEPT ![t] = None]
    /\ \/ UNCHANGED <<target, backup>>
       \/ target' = backup[t] /\ backup' = [backup EXCEPT ![t] = None]
    /\ Quiet /\ UNCHANGED <<netVars, prog, launched, cand, noteVars, stuck>>

\* Mutant of HelperGiveBack: the old client is not started again
HelperGiveBackOnly(t) ==
    /\ \/ At(t, "giveBack", "clear")
       \/ At(t, "recover", "recoverWait")
    /\ Record(t)
    /\ Quiet /\ UNCHANGED <<netVars, prog, launched, binVars, cand, download, pending, health, stuck>>

\* replaceTarget has failed: the result is recorded before the client is started
HelperGiveBack(t) ==
    /\ \/ At(t, "giveBack", "restart")
       \/ At(t, "recover", "recoverWait")
    /\ Record(t)
    /\ Quiet /\ UNCHANGED <<netVars, prog, launched, binVars, cand, download, pending, health, stuck>>

\* startService and cmd.Start: a service that runs already is left alone
StartProgram == launched' = TRUE /\ IF prog = "off" THEN Launch ELSE UNCHANGED <<prog, ver>>

HelperRestart(t) ==
    /\ \/ At(t, "restart", "clear")
       \/ At(t, "recoverWait", "clear") /\ ~ParentAlive(t)
    /\ StartProgram
    /\ UNCHANGED <<taskVars, mode, recvVars, netVars, binVars, cand, noteVars, stuck>>

\* clearPendingState
HelperClear(t) ==
    /\ At(t, "clear", "none")
    /\ pending' = None /\ download' = None
    /\ Quiet /\ UNCHANGED <<netVars, prog, launched, binVars, cand, result, health, stuck>>

\* startUpdatedClient; a torn program cannot be executed
HelperStart(t) ==
    /\ At(t, "start", "watch") /\ target # Torn /\ StartProgram
    /\ UNCHANGED <<taskVars, mode, recvVars, netVars, binVars, cand, noteVars, stuck>>

StartFails(t) ==
    /\ At(t, "start", "giveUp")
    /\ Quiet /\ UNCHANGED <<netVars, prog, launched, binVars, cand, noteVars, stuck>>

\* waitForFile finds the health file
HelperCommit(t) ==
    /\ At(t, "watch", "none") /\ t \in health
    /\ backup' = [backup EXCEPT ![t] = None] /\ pending' = None /\ download' = None
    /\ Quiet /\ UNCHANGED <<netVars, prog, launched, target, installing, cand, result, health, stuck>>

\* No health file in 120 seconds
Unhealthy(t) ==
    /\ At(t, "watch", "giveUp")
    /\ Quiet /\ UNCHANGED <<netVars, prog, launched, binVars, cand, noteVars, stuck>>

\* The result is recorded before rollbackTarget
HelperGiveUp(t) ==
    /\ At(t, "giveUp", "kill") /\ Record(t)
    /\ Quiet /\ UNCHANGED <<netVars, prog, launched, binVars, cand, download, pending, health, stuck>>

\* rollbackTarget: the new client is killed, or its service stopped
HelperKill(t) ==
    /\ At(t, "kill", "restore") /\ StopProgram
    /\ Quiet /\ UNCHANGED <<binVars, cand, noteVars, stuck>>

\* rollbackTarget: the backup is renamed over the target
HelperRestore(t) ==
    /\ \/ /\ At(t, "restore", "restart") /\ backup[t] # None
          /\ target' = backup[t] /\ backup' = [backup EXCEPT ![t] = None]
          /\ UNCHANGED <<result, stuck>>
       \/ /\ At(t, "restore", "clear") /\ backup[t] = None
          /\ Record(t) /\ stuck' = "restore" /\ UNCHANGED <<target, backup>>
    /\ Quiet /\ UNCHANGED <<netVars, prog, launched, installing, cand, download, pending, health>>

-----------------------------------------------------------------------------
\* Around the program

\* A chunk that was being written when the machine stopped
TornWrite ==
    IF hand = "save"
    THEN cand' = cand \/ cand' = [cand EXCEPT ![offer] = Torn]
    ELSE UNCHANGED cand

Crash ==
    /\ prog \in {"boot", "run"} /\ prog' = "off"
    /\ TornWrite
    /\ hand' = "idle"
    /\ CutOff
    /\ UNCHANGED <<taskVars, mode, ver, launched, offer, rOffset, sweep, binVars, noteVars, helpVars>>

PowerLoss ==
    /\ prog' = "off" /\ launched' = TRUE
    /\ TornWrite
    /\ hand' = "idle"
    /\ CutOff
    /\ helper' = [t \in Tasks |-> "none"] /\ stuck' = "no"
    /\ UNCHANGED <<taskVars, mode, ver, offer, rOffset, sweep, binVars, noteVars>>

\* The service manager, or the user, starts a client that is not running
Restart ==
    /\ prog = "off" /\ launched
    /\ mode = "service" \/ \A t \in Tasks : ~Active(t)
    /\ Launch
    /\ UNCHANGED <<taskVars, netVars, mode, launched, recvVars, binVars, cand, noteVars, helpVars>>

ServerStep == ServerLogin \/ OfferAfterLogin \/ ServerStatus \/ LateStatus \/ LateClosed

ClientStep ==
    \/ Boot \/ Dial \/ LoginAck \/ RefuseOffer \/ AcceptOffer \/ RefuseChunk \/ WriteChunk
    \/ SaveChunk \/ StartApply \/ UnitBusy \/ Sweep \/ Exit

HelperStep(t) ==
    \/ HelperCheck(t) \/ HelperWait(t) \/ HelperStop(t) \/ HelperBackup(t) \/ HelperStage(t)
    \/ HelperSwitch(t) \/ HelperGiveBack(t) \/ HelperRestart(t) \/ HelperClear(t)
    \/ HelperStart(t) \/ HelperCommit(t) \/ (target = Torn /\ StartFails(t))
    \/ (prog = "off" /\ mode = "foreground" /\ Unhealthy(t))
    \/ HelperGiveUp(t) \/ HelperKill(t) \/ HelperRestore(t)

HelperFault(t) == ParentHangs(t) \/ StopFails(t) \/ SwitchFails(t) \/ StartFails(t) \/ Unhealthy(t)

Fault ==
    \/ Drop \/ Crash \/ PowerLoss \/ NotStarted
    \/ \E t \in Tasks : HelperFault(t)

Next ==
    \/ \E t \in Tasks : StartUpgrade(t) \/ HelperStep(t)
    \/ Expire \/ ServerStep \/ ClientStep \/ Restart \/ Fault

Spec == Init /\ [][Next]_vars

Fairness ==
    /\ WF_vars(ServerLogin) /\ WF_vars(OfferAfterLogin) /\ WF_vars(ServerStatus)
    /\ WF_vars(ClientStep) /\ WF_vars(Restart)
    /\ \A t \in Tasks : WF_vars(HelperStep(t))

-----------------------------------------------------------------------------
States == {"offered", "accepted", "downloading", "verifying", "applying",
           "succeeded", "failed", "rolled_back"}

TypeOK ==
    /\ task = None \/ task \in [id : Tasks, state : States, offset : 0 .. Size, staged : BOOLEAN]
    /\ used \subseteq Tasks /\ info \in {Old, New, None}
    /\ sess \in {"none", "anon", "in"} /\ timer \in BOOLEAN /\ lateOpen \in BOOLEAN
    /\ link \in {"down", "login", "up"}
    /\ prog \in {"off", "boot", "run", "leaving"} /\ ver \in {Old, New, Torn} /\ launched \in BOOLEAN
    /\ offer \in Tasks \cup {None} /\ rOffset \in 0 .. Size
    /\ hand \in {"idle", "save", "apply"} /\ sweep \in BOOLEAN
    /\ target \in {Old, New, Torn} /\ installing \in [Tasks -> {New, Torn, None}]
    /\ backup \in [Tasks -> {Old, New, Torn, None}]
    /\ cand \in [Tasks -> 0 .. Size \cup {Torn, None}]
    /\ download = None \/ download \in [task : Tasks, off : 0 .. Size]
    /\ pending \in Tasks \cup {None} /\ result \in Tasks \cup {None} /\ health \subseteq Tasks
    /\ helper \in [Tasks -> {"none", "check", "wait", "stop", "backup", "stage", "switch", "start",
                              "watch", "giveBack", "recover", "recoverWait", "restart", "giveUp",
                              "kill", "restore", "clear"}]
    /\ stuck \in {"no", "parent", "restore"}

\* The staged artifact is there as long as the task may ask for a chunk of it,
\* and is removed by whatever ends the task: a report, a failed push, a login of
\* the new version, or time (upgrade_manager.go:132, 169, 180, 225, 237).
StagedWhileRunning == task # None => (task.staged <=> Running(task))

\* A receiver that has an offer has all of the artifact it counts, whatever
\* drops, crashes and cleanup timers came before: a resumed download leaves no
\* hole and what is handed to the helper is whole (receiver.go:147, 229, 345).
NoHole ==
    offer # None /\ prog = "run" =>
      /\ cand[offer] = IF hand = "save" THEN rOffset + 1 ELSE rOffset
      /\ hand = "apply" => rOffset = Size

\* While the new client is being tried its predecessor is in the backup, until
\* the helper gives the trial up (receiver.go:334, 354; README.md:215).
OldKept ==
    \A t \in Tasks :
      helper[t] \in {"stage", "switch", "start", "watch"} /\ t \notin health => backup[t] = Old

\* A rollback finds the backup it has to restore (apply.go:160)
RollbackWorks == stuck # "restore"

\* The client is left stopped only while a helper is about to start it, except
\* where apply.go returns without a start: the parent did not exit (44, 96), or
\* the backup is gone (160).
NotLeftStopped == ~launched => stuck # "no" \/ \E t \in Tasks : Active(t)

\* A started task comes to an end without the help of its time limit, once
\* connections hold and nothing crashes any more.
Settles ==
    \A t \in Tasks :
      (Running(task) /\ task.id = t) ~> (~Running(task) \/ task.id # t \/ stuck # "no")
=============================================================================
