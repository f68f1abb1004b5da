------------------------------- MODULE Outlet -------------------------------
(***************************************************************************)
(* The exit side of a tunnel (proxy/outlet.go).  Goroutines: the one that  *)
(* routes messages into Input, one connect goroutine per accepted connect, *)
(* one input worker and one reader per installed session, and the caller   *)
(* of Stop.                                                                *)
(*                                                                         *)
(* Maps are keyed by session id, goroutines work for a connect attempt and *)
(* several attempts may use one id after another, so the two are distinct  *)
(* here.  What the code looks up by id is looked up by id.  An attempt     *)
(* stands for its context, its connection and its session alike.           *)
(***************************************************************************)
EXTENDS Naturals, Sequences, FiniteSets

CONSTANTS
    Ids,        \* session ids, chosen by the inlet
    Attempts,   \* one per I2OConnect that is taken up
    QueueCap,   \* defaultProxyQueueCapacity
    Window,     \* proxyFlowWindowBytes, in payloads
    MaxDown,    \* bound of the model: payloads a target sends
    None

ASSUME OutletAssumption ==
    /\ QueueCap \in Nat \ {0} /\ Window \in Nat \ {0} /\ MaxDown \in Nat
    /\ None \notin Attempts

VARIABLES
    stopPc,      \* progress of Stop
    sessions,    \* id -> attempt whose session is installed
    connecting,  \* id -> attempt that is dialling
    idOf,        \* the id an attempt was started for
    go,          \* the connect goroutine
    worker,      \* startSessionInput
    cur,         \* the message the worker has popped
    tgt,         \* the session whose writer the worker is writing to
    reader,      \* readTCP, readUDP
    closing,     \* closing of a detached session, see Detach
    ended,       \* the session's flow window and input queue are closed
    flow, inputQ,
    conn,        \* the target connection: none, open, hungup (by the target), closed
    up,          \* payloads written to the target, in order
    down,        \* payloads read from the target
    i2o,         \* messages on their way to Input
    o2i          \* messages on their way to the inlet

mapVars == <<sessions, connecting>>
goVars == <<idOf, go, reader>>
workVars == <<worker, cur, tgt>>
endVars == <<closing, ended>>
dataVars == <<flow, inputQ>>
countVars == <<up, down>>
vars == <<stopPc, mapVars, goVars, workVars, endVars, dataVars, conn, countVars, i2o, o2i>>

-----------------------------------------------------------------------------

Stopped == stopPc # "no"

Connected(c, ok) == [type |-> "O2IConnect", id |-> c, ok |-> ok]
RecvData(c, n) == [type |-> "O2IRecvData", id |-> c, n |-> n]
SendDataResult(c) == [type |-> "O2ISendDataResult", id |-> c]
Disconnect(c) == [type |-> "O2IDisconnect", id |-> c]

Output(m) == o2i' = Append(o2i, m)

NotClosing == [pc |-> "no", who |-> "nobody", bye |-> FALSE]

Init ==
    /\ stopPc = "no"
    /\ sessions = [c \in Ids |-> None] /\ connecting = [c \in Ids |-> None]
    /\ idOf = [a \in Attempts |-> None]
    /\ go = [a \in Attempts |-> "none"]
    /\ reader = [a \in Attempts |-> "none"] /\ worker = [a \in Attempts |-> "none"]
    /\ cur = [a \in Attempts |-> None] /\ tgt = [a \in Attempts |-> None]
    /\ closing = [a \in Attempts |-> NotClosing]
    /\ ended = [a \in Attempts |-> FALSE]
    /\ flow = [a \in Attempts |-> 0] /\ inputQ = [a \in Attempts |-> <<>>]
    /\ conn = [a \in Attempts |-> "none"]
    /\ up = [a \in Attempts |-> <<>>] /\ down = [a \in Attempts |-> 0]
    /\ i2o = <<>> /\ o2i = <<>>

-----------------------------------------------------------------------------
\* common.Close and stopInput of the session of attempt b
End(b) ==
    /\ ended' = [ended EXCEPT ![b] = TRUE]
    /\ flow' = [flow EXCEPT ![b] = 0]
    /\ inputQ' = [inputQ EXCEPT ![b] = <<>>]

\* detachSession: whatever session has the id leaves the map and is ended
Detach(c) ==
    /\ sessions[c] # None
    /\ sessions' = [sessions EXCEPT ![c] = None]
    /\ End(sessions[c])

\* Mutant of DetachAndClose: the connection is forgotten
DetachOnly(c, who, bye) ==
    \/ Detach(c) /\ UNCHANGED closing
    \/ sessions[c] = None /\ UNCHANGED <<sessions, endVars, dataVars>>

\* detachSession, then its caller closes the connection and, in
\* terminateSession, says goodbye; nothing if the id has no session any more
DetachAndClose(c, who, bye) ==
    \/ /\ Detach(c)
       /\ closing' = [closing EXCEPT ![sessions[c]] = [pc |-> "close", who |-> who, bye |-> bye]]
    \/ sessions[c] = None /\ UNCHANGED <<sessions, endVars, dataVars>>

CloseConn(a) ==
    /\ closing[a].pc = "close"
    /\ conn' = [conn EXCEPT ![a] = "closed"]
    /\ closing' = [closing EXCEPT ![a].pc = IF closing[a].bye THEN "bye" ELSE "over"]
    /\ UNCHANGED <<stopPc, mapVars, goVars, workVars, ended, dataVars, countVars, i2o, o2i>>

SayBye(a) ==
    /\ closing[a].pc = "bye"
    /\ Output(Disconnect(idOf[a]))
    /\ closing' = [closing EXCEPT ![a].pc = "over"]
    /\ UNCHANGED <<stopPc, mapVars, goVars, workVars, ended, dataVars, conn, countVars, i2o>>

-----------------------------------------------------------------------------
\* Input: one routing goroutine, which finishes a termination before it takes
\* the next message

InputIdle == \A a \in Attempts : closing[a].who = "input" => closing[a].pc = "over"

Takes(type) ==
    /\ InputIdle
    /\ i2o # <<>> /\ Head(i2o).type = type
    /\ i2o' = Tail(i2o)

\* startConnect
InConnect ==
    /\ Takes("I2OConnect")
    /\ LET c == Head(i2o).id
       IN  \/ /\ Stopped
              /\ UNCHANGED <<mapVars, goVars, o2i>>
           \/ /\ ~Stopped /\ (sessions[c] # None \/ connecting[c] # None)
              /\ Output(Connected(c, FALSE))
              /\ UNCHANGED <<mapVars, goVars>>
           \/ /\ ~Stopped /\ sessions[c] = None /\ connecting[c] = None
              /\ \E a \in Attempts :
                    /\ go[a] = "none"
                    /\ go' = [go EXCEPT ![a] = "dial"]
                    /\ idOf' = [idOf EXCEPT ![a] = c]
                    /\ connecting' = [connecting EXCEPT ![c] = a]
              /\ UNCHANGED <<sessions, reader, o2i>>
    /\ UNCHANGED <<stopPc, workVars, endVars, dataVars, conn, countVars>>

Full(b) == Len(inputQ[b]) = QueueCap

\* Push is refused: terminateSession
Overflow(c) == DetachAndClose(c, "input", TRUE)

\* Push to the session's queue; a full queue ends the session
PushOrTerminate(m) ==
    LET b == sessions[m.id]
    IN  \/ /\ ~Full(b)
           /\ inputQ' = [inputQ EXCEPT ![b] = Append(@, m)]
           /\ UNCHANGED <<sessions, endVars, flow>>
        \/ Full(b) /\ Overflow(m.id)

InSendData ==
    /\ Takes("I2OSendData")
    /\ LET m == Head(i2o)
       IN  \/ sessions[m.id] # None /\ PushOrTerminate(m)
           \/ sessions[m.id] = None /\ UNCHANGED <<sessions, endVars, dataVars>>
    /\ UNCHANGED <<stopPc, connecting, goVars, workVars, conn, countVars, o2i>>

\* Mutant of CancelAttempt: only installed sessions are disconnected
KeepAttempt(c) == UNCHANGED connecting

CancelAttempt(c) == connecting' = [connecting EXCEPT ![c] = None]

\* onDisconnectInput: a dialling attempt loses its entry, a session gets the message
InDisconnect ==
    /\ Takes("I2ODisconnect")
    /\ LET m == Head(i2o)
       IN  /\ CancelAttempt(m.id)
           /\ \/ sessions[m.id] # None /\ PushOrTerminate(m)
              \/ sessions[m.id] = None /\ UNCHANGED <<sessions, endVars, dataVars>>
    /\ UNCHANGED <<stopPc, goVars, workVars, conn, countVars, o2i>>

InRecvResult ==
    /\ Takes("I2ORecvDataResult")
    /\ LET b == sessions[Head(i2o).id]
       IN  flow' = [a \in Attempts |-> IF a = b /\ flow[a] > 0 THEN flow[a] - 1 ELSE flow[a]]
    /\ UNCHANGED <<stopPc, mapVars, goVars, workVars, endVars, inputQ, conn, countVars, o2i>>

-----------------------------------------------------------------------------
\* The connect goroutine: onConnect

Dial(a) ==
    /\ go[a] = "dial"
    /\ go' = [go EXCEPT ![a] = "install"]
    /\ conn' = [conn EXCEPT ![a] = "open"]
    /\ UNCHANGED <<stopPc, mapVars, idOf, reader, workVars, endVars, dataVars, countVars, i2o, o2i>>

\* The dial fails or is cancelled: failConnect answers if the attempt is still current
DialFails(a) ==
    /\ go[a] = "dial"
    /\ go' = [go EXCEPT ![a] = IF connecting[idOf[a]] = a /\ ~Stopped THEN "refuse" ELSE "finish"]
    /\ UNCHANGED <<stopPc, mapVars, idOf, reader, workVars, endVars, dataVars, conn, countVars, i2o, o2i>>

\* ... but the answer is sent after the lock was given back
Refuse(a) ==
    /\ go[a] = "refuse"
    /\ Output(Connected(idOf[a], FALSE))
    /\ go' = [go EXCEPT ![a] = "finish"]
    /\ UNCHANGED <<stopPc, mapVars, idOf, reader, workVars, endVars, dataVars, conn, countVars, i2o>>

\* Mutant of MayInstall: a cancelled attempt installs its late connection
MayInstallLate(a) == ~Stopped /\ sessions[idOf[a]] = None

MayInstall(a) == ~Stopped /\ connecting[idOf[a]] = a /\ sessions[idOf[a]] = None

\* installConnectedSession
Install(a) ==
    /\ go[a] = "install"
    /\ LET c == idOf[a]
       IN  \/ /\ MayInstall(a)
              /\ connecting' = [connecting EXCEPT ![c] = None]
              /\ sessions' = [sessions EXCEPT ![c] = a]
              /\ worker' = [worker EXCEPT ![a] = "pop"]
              /\ go' = [go EXCEPT ![a] = "announce"]
              /\ UNCHANGED conn
           \/ /\ ~MayInstall(a)
              /\ conn' = [conn EXCEPT ![a] = "closed"]
              /\ go' = [go EXCEPT ![a] = "finish"]
              /\ UNCHANGED <<mapVars, worker>>
    /\ UNCHANGED <<stopPc, idOf, reader, cur, tgt, endVars, dataVars, countVars, i2o, o2i>>

\* The answer goes out before the reader starts
Announce(a) ==
    /\ go[a] = "announce"
    /\ Output(Connected(idOf[a], TRUE))
    /\ reader' = [reader EXCEPT ![a] = "read"]
    /\ go' = [go EXCEPT ![a] = "finish"]
    /\ UNCHANGED <<stopPc, mapVars, idOf, workVars, endVars, dataVars, conn, countVars, i2o>>

\* finishConnectAttempt, then connectWG.Done
Finish(a) ==
    /\ go[a] = "finish"
    /\ connecting' = [c \in Ids |-> IF c = idOf[a] /\ connecting[c] = a THEN None ELSE connecting[c]]
    /\ go' = [go EXCEPT ![a] = "gone"]
    /\ UNCHANGED <<stopPc, sessions, idOf, reader, workVars, endVars, dataVars, conn, countVars, i2o, o2i>>

-----------------------------------------------------------------------------
\* The input worker

\* Mutant of Dequeue: the message stays in the queue
Peek(a) == UNCHANGED inputQ

Dequeue(a) == inputQ' = [inputQ EXCEPT ![a] = Tail(@)]

Pop(a) ==
    /\ worker[a] = "pop"
    /\ \/ /\ inputQ[a] # <<>>
          /\ cur' = [cur EXCEPT ![a] = Head(inputQ[a])]
          /\ Dequeue(a)
          /\ worker' = [worker EXCEPT ![a] = "take"]
       \/ /\ inputQ[a] = <<>> /\ ended[a]
          /\ worker' = [worker EXCEPT ![a] = "gone"] /\ UNCHANGED <<cur, inputQ>>
    /\ UNCHANGED <<stopPc, mapVars, goVars, tgt, endVars, flow, conn, countVars, i2o, o2i>>

\* onSendData finds its session by id; without one the payload is dropped
TakeSendData(a) ==
    /\ worker[a] = "take" /\ cur[a].type = "I2OSendData"
    /\ LET b == sessions[idOf[a]]
       IN  \/ /\ b # None
              /\ tgt' = [tgt EXCEPT ![a] = b] /\ worker' = [worker EXCEPT ![a] = "write"]
              /\ UNCHANGED cur
           \/ /\ b = None
              /\ cur' = [cur EXCEPT ![a] = None] /\ worker' = [worker EXCEPT ![a] = "pop"]
              /\ UNCHANGED tgt
    /\ UNCHANGED <<stopPc, mapVars, goVars, endVars, dataVars, conn, countVars, i2o, o2i>>

WriteDone(a) ==
    /\ worker[a] = "write" /\ conn[tgt[a]] \in {"open", "hungup"}
    /\ up' = [up EXCEPT ![tgt[a]] = Append(@, cur[a].n)]
    /\ Output(SendDataResult(idOf[a]))
    /\ worker' = [worker EXCEPT ![a] = "pop"]
    /\ cur' = [cur EXCEPT ![a] = None] /\ tgt' = [tgt EXCEPT ![a] = None]
    /\ UNCHANGED <<stopPc, mapVars, goVars, endVars, dataVars, conn, down, i2o>>

WorkerEnds(a) ==
    /\ worker' = [worker EXCEPT ![a] = "gone"]
    /\ cur' = [cur EXCEPT ![a] = None] /\ tgt' = [tgt EXCEPT ![a] = None]

WriteFails(a) ==
    /\ worker[a] = "write" /\ conn[tgt[a]] \in {"hungup", "closed"}
    /\ DetachAndClose(idOf[a], "worker", TRUE)
    /\ WorkerEnds(a)
    /\ UNCHANGED <<stopPc, connecting, goVars, conn, countVars, i2o, o2i>>

\* onDisconnect
TakeDisconnect(a) ==
    /\ worker[a] = "take" /\ cur[a].type = "I2ODisconnect"
    /\ DetachAndClose(idOf[a], "worker", FALSE)
    /\ WorkerEnds(a)
    /\ UNCHANGED <<stopPc, connecting, goVars, conn, countVars, i2o, o2i>>

-----------------------------------------------------------------------------
\* The reader

ReaderGoes(a, pc) == reader' = [reader EXCEPT ![a] = pc]

Read(a) ==
    /\ reader[a] = "read" /\ conn[a] \in {"open", "hungup"} /\ down[a] < MaxDown
    /\ down' = [down EXCEPT ![a] = @ + 1]
    /\ ReaderGoes(a, "credit")
    /\ UNCHANGED <<stopPc, mapVars, idOf, go, workVars, endVars, dataVars, conn, up, i2o, o2i>>

ReadFails(a) ==
    /\ reader[a] = "read" /\ conn[a] \in {"hungup", "closed"}
    /\ ReaderGoes(a, "remove")
    /\ UNCHANGED <<stopPc, mapVars, idOf, go, workVars, endVars, dataVars, conn, countVars, i2o, o2i>>

\* Flow.Acquire: waits for room, fails once the window is closed
AcquireCredit(a) ==
    /\ reader[a] = "credit"
    /\ \/ /\ ~ended[a] /\ flow[a] < Window
          /\ flow' = [flow EXCEPT ![a] = @ + 1] /\ ReaderGoes(a, "emit")
       \/ ended[a] /\ ReaderGoes(a, "remove") /\ UNCHANGED flow
    /\ UNCHANGED <<stopPc, mapVars, idOf, go, workVars, endVars, inputQ, conn, countVars, i2o, o2i>>

Emit(a) ==
    /\ reader[a] = "emit"
    /\ Output(RecvData(idOf[a], down[a]))
    /\ ReaderGoes(a, "read")
    /\ UNCHANGED <<stopPc, mapVars, idOf, go, workVars, endVars, dataVars, conn, countVars, i2o>>

\* The deferred clean-up: removeSession, O2IDisconnect, close
ReaderRemoves(a) ==
    /\ reader[a] = "remove"
    /\ ReaderGoes(a, "bye")
    /\ Detach(idOf[a]) \/ (sessions[idOf[a]] = None /\ UNCHANGED <<sessions, ended, dataVars>>)
    /\ UNCHANGED <<stopPc, connecting, idOf, go, workVars, closing, conn, countVars, i2o, o2i>>

\* Mutant of ReaderSaysBye: the inlet is not told
ReaderSaysNothing(a) ==
    /\ reader[a] = "bye"
    /\ ReaderGoes(a, "close")
    /\ UNCHANGED <<stopPc, mapVars, idOf, go, workVars, endVars, dataVars, conn, countVars, i2o, o2i>>

ReaderSaysBye(a) ==
    /\ reader[a] = "bye"
    /\ Output(Disconnect(idOf[a]))
    /\ ReaderGoes(a, "close")
    /\ UNCHANGED <<stopPc, mapVars, idOf, go, workVars, endVars, dataVars, conn, countVars, i2o>>

ReaderCloses(a) ==
    /\ reader[a] = "close"
    /\ conn' = [conn EXCEPT ![a] = "closed"]
    /\ ReaderGoes(a, "gone")
    /\ UNCHANGED <<stopPc, mapVars, idOf, go, workVars, endVars, dataVars, countVars, i2o, o2i>>

-----------------------------------------------------------------------------
\* Stop

StopMark ==
    /\ stopPc = "no" /\ stopPc' = "marked"
    /\ closing' = [a \in Attempts |->
                     IF \E c \in Ids : sessions[c] = a
                       THEN [pc |-> "end", who |-> "stop", bye |-> FALSE] ELSE closing[a]]
    /\ sessions' = [c \in Ids |-> None]
    /\ connecting' = [c \in Ids |-> None]
    /\ UNCHANGED <<goVars, workVars, ended, dataVars, conn, countVars, i2o, o2i>>

StopEnds(a) ==
    /\ closing[a].pc = "end"
    /\ End(a)
    /\ closing' = [closing EXCEPT ![a].pc = "close"]
    /\ UNCHANGED <<stopPc, mapVars, goVars, workVars, conn, countVars, i2o, o2i>>

\* Mutant of StopReturn: Stop does not wait for the attempts
StopReturnEarly ==
    /\ stopPc = "marked" /\ stopPc' = "returned"
    /\ \A a \in Attempts : closing[a].who = "stop" => closing[a].pc = "over"
    /\ UNCHANGED <<mapVars, goVars, workVars, endVars, dataVars, conn, countVars, i2o, o2i>>

\* connectWG.Wait returns
StopReturn ==
    /\ stopPc = "marked"
    /\ \A a \in Attempts : closing[a].who = "stop" => closing[a].pc = "over"
    /\ \A a \in Attempts : go[a] \in {"none", "gone"}
    /\ stopPc' = "returned"
    /\ UNCHANGED <<mapVars, goVars, workVars, endVars, dataVars, conn, countVars, i2o, o2i>>

-----------------------------------------------------------------------------
TargetCloses(a) ==
    /\ conn[a] = "open"
    /\ conn' = [conn EXCEPT ![a] = "hungup"]
    /\ UNCHANGED <<stopPc, mapVars, goVars, workVars, endVars, dataVars, countVars, i2o, o2i>>

Input == InConnect \/ InSendData \/ InDisconnect \/ InRecvResult

GoStep(a) == Dial(a) \/ DialFails(a) \/ Refuse(a) \/ Install(a) \/ Announce(a) \/ Finish(a)

WorkerStep(a) ==
    Pop(a) \/ TakeSendData(a) \/ WriteDone(a) \/ WriteFails(a) \/ TakeDisconnect(a)

ReaderStep(a) ==
    \/ ReadFails(a) \/ AcquireCredit(a) \/ Emit(a)
    \/ ReaderRemoves(a) \/ ReaderSaysBye(a) \/ ReaderCloses(a)

CloseStep(a) == StopEnds(a) \/ CloseConn(a) \/ SayBye(a)

Next ==
    \/ Input
    \/ \E a \in Attempts :
         GoStep(a) \/ WorkerStep(a) \/ Read(a) \/ ReaderStep(a) \/ CloseStep(a) \/ TargetCloses(a)
    \/ StopMark \/ StopReturn

\* Goroutines are scheduled and a dial ends (net.Dialer has a timeout).  A
\* target is assumed to take the bytes written to it or to hang up; it need
\* never send.
Fairness ==
    /\ \A a \in Attempts :
         WF_vars(GoStep(a)) /\ WF_vars(WorkerStep(a)) /\ WF_vars(ReaderStep(a)) /\ WF_vars(CloseStep(a))
    /\ WF_vars(Input) /\ WF_vars(StopReturn)

-----------------------------------------------------------------------------
\* Whatever an inlet may send
FromInlet ==
    [type : {"I2OConnect", "I2ODisconnect", "I2ORecvDataResult"}, id : Ids] \cup
    [type : {"I2OSendData"}, id : Ids, n : Nat]

\* The other end and the routes to and from it, whatever they are
AnyInlet ==
    /\ o2i' = o2i \/ (o2i # <<>> /\ o2i' = Tail(o2i))
    /\ i2o' = i2o \/ \E m \in FromInlet : i2o' = Append(i2o, m)
    /\ UNCHANGED <<stopPc, mapVars, goVars, workVars, endVars, dataVars, conn, countVars>>

Spec == Init /\ [][Next \/ AnyInlet]_vars

-----------------------------------------------------------------------------
InMessages == {m \in FromInlet : m.type \in {"I2OSendData", "I2ODisconnect"}}

TypeOK ==
    /\ stopPc \in {"no", "marked", "returned"}
    /\ sessions \in [Ids -> Attempts \cup {None}]
    /\ connecting \in [Ids -> Attempts \cup {None}]
    /\ idOf \in [Attempts -> Ids \cup {None}]
    /\ go \in [Attempts -> {"none", "dial", "refuse", "install", "announce", "finish", "gone"}]
    /\ worker \in [Attempts -> {"none", "pop", "take", "write", "gone"}]
    /\ cur \in [Attempts -> InMessages \cup {None}]
    /\ tgt \in [Attempts -> Attempts \cup {None}]
    /\ reader \in [Attempts -> {"none", "read", "credit", "emit", "remove", "bye", "close", "gone"}]
    /\ closing \in [Attempts -> [pc : {"no", "end", "close", "bye", "over"},
                                 who : {"nobody", "input", "worker", "stop"}, bye : BOOLEAN]]
    /\ ended \in [Attempts -> BOOLEAN]
    /\ flow \in [Attempts -> 0 .. Window]
    /\ inputQ \in [Attempts -> Seq(InMessages)] /\ \A a \in Attempts : Len(inputQ[a]) <= QueueCap
    /\ conn \in [Attempts -> {"none", "open", "hungup", "closed"}]
    /\ up \in [Attempts -> Seq(Nat)] /\ down \in [Attempts -> 0 .. MaxDown]

\* Somebody is about to close the connection of attempt a.
Closer(a) ==
    \/ go[a] = "install"
    \/ closing[a].pc \in {"end", "close"}
    \/ reader[a] \in {"remove", "bye", "close"}

\* No target connection is left unmanaged, wherever a disconnect, a failing
\* write, an overflowing queue or Stop cuts in between dial, install and
\* clean-up (the comment at outlet.go:264-265 asks this of disconnects): an
\* open connection belongs to a session in the map or is about to be closed.
Managed ==
    \A a \in Attempts :
      conn[a] \in {"open", "hungup"} => sessions[idOf[a]] = a \/ Closer(a)

\* When Stop returns no attempt is still dialling and none can install a
\* session any more; a connection still open was given up before Stop by a
\* goroutine that has yet to close it (outlet.go:56-88, outlet_test.go:176).
StopComplete ==
    stopPc = "returned" =>
      \A a \in Attempts :
        /\ go[a] \in {"none", "gone"}
        /\ \A c \in Ids : sessions[c] = None /\ connecting[c] = None
        /\ conn[a] \in {"open", "hungup"} =>
             closing[a].who \in {"input", "worker"} \/ reader[a] \in {"bye", "close"}

Doomed(a) ==
    \/ go[a] \in {"dial", "install"} /\ connecting[idOf[a]] # a
    \/ \E k \in 1 .. Len(inputQ[a]) : inputQ[a][k].type = "I2ODisconnect"
    \/ closing[a].pc # "no"
    \/ conn[a] = "closed" \/ reader[a] = "remove"

Gone(a) ==
    /\ go[a] = "gone" /\ worker[a] \in {"none", "gone"} /\ reader[a] \in {"none", "gone"}
    /\ conn[a] \in {"none", "closed"}

\* A cancelled attempt, and a session that was disconnected, terminated or
\* stopped or whose reader gave up, is reclaimed: its goroutines end and its
\* connection is closed, even if its reader was waiting for credit that never
\* comes (outlet.go:264, 321, 343, 457).
Reclaimed == \A a \in Attempts : Doomed(a) ~> Gone(a)
=============================================================================
