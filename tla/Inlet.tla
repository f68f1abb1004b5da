-------------------------------- MODULE Inlet --------------------------------
(***************************************************************************)
(* The entry side of a TCP tunnel (proxy/inlet.go with UniversalContext of *)
(* proxy/context.go).  Goroutines: the accept loop, one connection         *)
(* goroutine and one message loop per session, the goroutine that routes   *)
(* messages into Input, and the caller of Stop.                            *)
(*                                                                         *)
(* A session id belongs to one accepted connection (NextSessionID), so ids *)
(* name sessions, their connections and their goroutines alike.  The input *)
(* queue and the flow window are used as ProxyQueue and FlowController     *)
(* establish them: a bounded FIFO, and a credit a sender waits for.        *)
(* Payloads are numbered and each weighs one unit of the window.           *)
(***************************************************************************)
EXTENDS Naturals, Sequences, FiniteSets

CONSTANTS
    Ids,        \* session ids, one per accepted connection
    MaxSlots,   \* defaultMaxInletSessions
    QueueCap,   \* defaultProxyQueueCapacity
    Window,     \* proxyFlowWindowBytes, in payloads
    MaxUp,      \* bound of the model: payloads a local client sends
    None

ASSUME InletAssumption ==
    /\ IsFiniteSet(Ids)
    /\ MaxSlots \in Nat /\ QueueCap \in Nat \ {0}
    /\ Window \in Nat \ {0} /\ MaxUp \in Nat
    /\ None \notin Ids

VARIABLES
    stopPc,    \* progress of Stop
    acc,       \* accept loop
    accConn,   \* the connection it has accepted and not yet handed over
    slots,     \* session slots in use
    sess,      \* life of each session, see Phases
    by,        \* who removed the session from the map and shuts it down
    main,      \* runTCPConn
    loop,      \* runProxyMessageLoop
    cur,       \* the message the loop has popped
    ctxMu,     \* who holds the session's context mutex
    ready,     \* readyCh is closed
    flow,      \* payloads charged against the window
    inputQ,
    conn,      \* the local connection: none, open, hungup (by the client), closed
    up,        \* payloads read from the local client
    down,      \* payloads written to the local client, in order
    i2o,       \* messages on their way to the outlet
    o2i        \* messages on their way to Input

stopVars == <<stopPc, acc, accConn, slots>>
sessVars == <<sess, by>>
goVars == <<main, loop, cur>>
dataVars == <<flow, inputQ, up, down>>
vars == <<stopVars, sessVars, goVars, ctxMu, ready, conn, dataVars, i2o, o2i>>

-----------------------------------------------------------------------------
\* Phases of a session.  "live" is membership in the sessions map; the phases
\* after it are the steps of shutdown: the map entry is removed, then the
\* closed channel, the window and the queues are closed, OnStop says goodbye,
\* the local connection is closed, and the slot is given back.
ShutdownPhases == {"removed", "closed", "bye", "unlinked"}
Phases == {"absent", "live"} \cup ShutdownPhases \cup {"done"}

sessions == {c \in Ids : sess[c] = "live"}

\* close(s.closed), Flow.Close and inputQ.Close have run
Closed(c) == sess[c] \in {"closed", "bye", "unlinked", "done"}

StopChClosed == stopPc # "no"
Stopped == stopPc \notin {"no", "begun"}
\* Mutant of ListenerClosed: the listener was never registered with Stop
ListenerForgotten == FALSE

ListenerClosed == stopPc \in {"closing", "returned"}

Connect(c) == [type |-> "I2OConnect", id |-> c]
SendData(c, n) == [type |-> "I2OSendData", id |-> c, n |-> n]
RecvResult(c) == [type |-> "I2ORecvDataResult", id |-> c]
Disconnect(c) == [type |-> "I2ODisconnect", id |-> c]

Output(m) == i2o' = Append(i2o, m)

\* releaseSessionSlot never blocks: a release too many would go unnoticed
ReleaseSlot == slots' = IF slots = 0 THEN 0 ELSE slots - 1

Init ==
    /\ stopPc = "no" /\ acc = "accept" /\ accConn = None /\ slots = 0
    /\ sess = [c \in Ids |-> "absent"] /\ by = [c \in Ids |-> "nobody"]
    /\ main = [c \in Ids |-> "none"] /\ loop = [c \in Ids |-> "none"]
    /\ cur = [c \in Ids |-> None]
    /\ ctxMu = [c \in Ids |-> "free"]
    /\ ready = [c \in Ids |-> FALSE]
    /\ flow = [c \in Ids |-> 0] /\ inputQ = [c \in Ids |-> <<>>]
    /\ conn = [c \in Ids |-> "none"]
    /\ up = [c \in Ids |-> 0] /\ down = [c \in Ids |-> <<>>]
    /\ i2o = <<>> /\ o2i = <<>>

-----------------------------------------------------------------------------
\* removeSession: only the goroutine that finds the session in the map shuts it down
Remove(c, who) ==
    /\ sess[c] = "live"
    /\ sess' = [sess EXCEPT ![c] = "removed"]
    /\ by' = [by EXCEPT ![c] = who]

\* closeSession called by the connection goroutine, which ends with it
MainCloses(c) ==
    \/ Remove(c, "main") /\ main' = [main EXCEPT ![c] = "shutting"]
    \/ sess[c] # "live" /\ main' = [main EXCEPT ![c] = "gone"] /\ UNCHANGED sessVars

\* closeSession called by the message loop, which ends with it
LoopCloses(c) ==
    \/ Remove(c, "loop") /\ loop' = [loop EXCEPT ![c] = "shutting"]
    \/ sess[c] # "live" /\ loop' = [loop EXCEPT ![c] = "gone"] /\ UNCHANGED sessVars

-----------------------------------------------------------------------------
\* The accept loop

Accept(c) ==
    /\ acc = "accept" /\ ~ListenerClosed
    /\ conn[c] = "none"
    /\ conn' = [conn EXCEPT ![c] = "open"]
    /\ acc' = "reserve" /\ accConn' = c
    /\ UNCHANGED <<stopPc, slots, sessVars, goVars, ctxMu, ready, dataVars, i2o, o2i>>

AcceptEnds ==
    /\ acc = "accept" /\ ListenerClosed
    /\ acc' = "gone"
    /\ UNCHANGED <<stopPc, accConn, slots, sessVars, goVars, ctxMu, ready, conn, dataVars, i2o, o2i>>

\* reserveSessionSlot: refused when stopping or when all slots are taken
Reserve ==
    /\ acc = "reserve"
    /\ \/ /\ ~StopChClosed /\ slots < MaxSlots
          /\ slots' = slots + 1 /\ acc' = "spawn"
          /\ UNCHANGED <<accConn, conn>>
       \/ /\ StopChClosed \/ slots = MaxSlots
          /\ conn' = [conn EXCEPT ![accConn] = "closed"]
          /\ acc' = IF StopChClosed THEN "gone" ELSE "accept"
          /\ accConn' = None /\ UNCHANGED slots
    /\ UNCHANGED <<stopPc, sessVars, goVars, ctxMu, ready, dataVars, i2o, o2i>>

\* runAsync(runTCPConn): refused once Stop has marked the inlet
Spawn ==
    /\ acc = "spawn"
    /\ accConn' = None
    /\ \/ /\ ~Stopped
          /\ main' = [main EXCEPT ![accConn] = "insert"] /\ acc' = "accept"
          /\ UNCHANGED <<slots, conn>>
       \/ /\ Stopped
          /\ ReleaseSlot /\ conn' = [conn EXCEPT ![accConn] = "closed"]
          /\ acc' = "gone" /\ UNCHANGED main
    /\ UNCHANGED <<stopPc, sessVars, loop, cur, ctxMu, ready, dataVars, i2o, o2i>>

-----------------------------------------------------------------------------
\* The connection goroutine: runTCPConn with runSession

\* Mutant of Insert: the slot is not given back when the inlet has stopped
InsertLeaks(c) ==
    /\ main[c] = "insert"
    /\ \/ /\ ~Stopped
          /\ sess' = [sess EXCEPT ![c] = "live"] /\ main' = [main EXCEPT ![c] = "spawn"]
          /\ UNCHANGED conn
       \/ /\ Stopped
          /\ conn' = [conn EXCEPT ![c] = "closed"]
          /\ main' = [main EXCEPT ![c] = "gone"] /\ UNCHANGED sess
    /\ UNCHANGED <<stopVars, by, loop, cur, ctxMu, ready, dataVars, i2o, o2i>>

\* runSession enters the map, or gives the slot back when the inlet has stopped
Insert(c) ==
    /\ main[c] = "insert"
    /\ \/ /\ ~Stopped
          /\ sess' = [sess EXCEPT ![c] = "live"] /\ main' = [main EXCEPT ![c] = "spawn"]
          /\ UNCHANGED <<slots, conn>>
       \/ /\ Stopped
          /\ ReleaseSlot /\ conn' = [conn EXCEPT ![c] = "closed"]
          /\ main' = [main EXCEPT ![c] = "gone"] /\ UNCHANGED sess
    /\ UNCHANGED <<stopPc, acc, accConn, by, loop, cur, ctxMu, ready, dataVars, i2o, o2i>>

\* runAsync(runProxyMessageLoop)
StartLoop(c) ==
    /\ main[c] = "spawn"
    /\ \/ /\ ~Stopped
          /\ loop' = [loop EXCEPT ![c] = "pop"] /\ main' = [main EXCEPT ![c] = "start"]
          /\ UNCHANGED <<sessVars, conn>>
       \/ /\ Stopped /\ MainCloses(c)
          /\ conn' = [conn EXCEPT ![c] = "closed"] /\ UNCHANGED loop
    /\ UNCHANGED <<stopVars, cur, ctxMu, ready, dataVars, i2o, o2i>>

\* Mutant of OnStart: the closed channel is not looked at
OnStartBlind(c) ==
    /\ main[c] = "start" /\ ctxMu[c] = "free"
    /\ Output(Connect(c)) /\ main' = [main EXCEPT ![c] = "await"]
    /\ UNCHANGED <<stopVars, sessVars, loop, cur, ctxMu, ready, conn, dataVars, o2i>>

\* onStart: the closed channel is looked at under ctxMu
OnStart(c) ==
    /\ main[c] = "start" /\ ctxMu[c] = "free"
    /\ \/ /\ ~Closed(c)
          /\ Output(Connect(c)) /\ main' = [main EXCEPT ![c] = "await"]
          /\ UNCHANGED <<sessVars, conn>>
       \/ /\ Closed(c) /\ MainCloses(c)
          /\ conn' = [conn EXCEPT ![c] = "closed"] /\ UNCHANGED i2o
    /\ UNCHANGED <<stopVars, loop, cur, ctxMu, ready, dataVars, o2i>>

AwaitReady(c) ==
    /\ main[c] = "await" /\ ready[c]
    /\ main' = [main EXCEPT ![c] = "read"]
    /\ UNCHANGED <<stopVars, sessVars, loop, cur, ctxMu, ready, conn, dataVars, i2o, o2i>>

\* waitReady fails: the session was closed, or the timer fired first
AwaitFails(c) ==
    /\ main[c] = "await"
    /\ MainCloses(c)
    /\ UNCHANGED <<stopVars, loop, cur, ctxMu, ready, conn, dataVars, i2o, o2i>>

ReadPayload(c) ==
    /\ main[c] = "read" /\ conn[c] \in {"open", "hungup"} /\ up[c] < MaxUp
    /\ up' = [up EXCEPT ![c] = @ + 1]
    /\ main' = [main EXCEPT ![c] = "lock"]
    /\ UNCHANGED <<stopVars, sessVars, loop, cur, ctxMu, ready, conn, flow, inputQ, down, i2o, o2i>>

ReadFails(c) ==
    /\ main[c] = "read" /\ conn[c] \in {"hungup", "closed"}
    /\ MainCloses(c)
    /\ UNCHANGED <<stopVars, loop, cur, ctxMu, ready, conn, dataVars, i2o, o2i>>

\* handlePeerData takes ctxMu and keeps it while EncodeDataAndLimit waits for credit
LockPeerData(c) ==
    /\ main[c] = "lock" /\ ctxMu[c] = "free"
    /\ ctxMu' = [ctxMu EXCEPT ![c] = "main"]
    /\ main' = [main EXCEPT ![c] = "credit"]
    /\ UNCHANGED <<stopVars, sessVars, loop, cur, ready, conn, dataVars, i2o, o2i>>

\* The window has room: Acquire succeeds and OnPeerData sends the payload
SendPeerData(c) ==
    /\ main[c] = "credit" /\ ~Closed(c) /\ flow[c] < Window
    /\ flow' = [flow EXCEPT ![c] = @ + 1]
    /\ Output(SendData(c, up[c]))
    /\ ctxMu' = [ctxMu EXCEPT ![c] = "free"]
    /\ main' = [main EXCEPT ![c] = "read"]
    /\ UNCHANGED <<stopVars, sessVars, loop, cur, ready, conn, inputQ, up, down, o2i>>

\* Mutant of PeerDataFails: ctxMu is not given back on the error path
PeerDataFailsLocked(c) ==
    /\ main[c] = "credit" /\ Closed(c)
    /\ MainCloses(c)
    /\ UNCHANGED <<stopVars, loop, cur, ctxMu, ready, conn, dataVars, i2o, o2i>>

\* The window was closed under the sender: OnPeerData returns an error
PeerDataFails(c) ==
    /\ main[c] = "credit" /\ Closed(c)
    /\ ctxMu' = [ctxMu EXCEPT ![c] = "free"]
    /\ MainCloses(c)
    /\ UNCHANGED <<stopVars, loop, cur, ready, conn, dataVars, i2o, o2i>>

-----------------------------------------------------------------------------
\* The message loop

Pop(c) ==
    /\ loop[c] = "pop"
    /\ \/ /\ inputQ[c] # <<>>
          /\ cur' = [cur EXCEPT ![c] = Head(inputQ[c])]
          /\ inputQ' = [inputQ EXCEPT ![c] = Tail(@)]
          /\ loop' = [loop EXCEPT ![c] = "lock"]
       \/ /\ inputQ[c] = <<>> /\ Closed(c)
          /\ loop' = [loop EXCEPT ![c] = "gone"] /\ UNCHANGED <<cur, inputQ>>
    /\ UNCHANGED <<stopVars, sessVars, main, ctxMu, ready, conn, flow, up, down, i2o, o2i>>

\* handleProxyMessage, O2IConnect with Success
OnConnected(c) ==
    /\ loop[c] = "lock" /\ ctxMu[c] = "free"
    /\ cur[c].type = "O2IConnect" /\ cur[c].ok
    /\ ready' = [ready EXCEPT ![c] = TRUE]
    /\ loop' = [loop EXCEPT ![c] = "pop"]
    /\ cur' = [cur EXCEPT ![c] = None]
    /\ UNCHANGED <<stopVars, sessVars, main, ctxMu, conn, dataVars, i2o, o2i>>

\* A failed O2IConnect and O2IDisconnect: the writer is closed, then the session
OnRefusedOrDisconnect(c) ==
    /\ loop[c] = "lock" /\ ctxMu[c] = "free"
    /\ \/ cur[c].type = "O2IDisconnect"
       \/ cur[c].type = "O2IConnect" /\ ~cur[c].ok
    /\ conn' = [conn EXCEPT ![c] = "closed"]
    /\ cur' = [cur EXCEPT ![c] = None]
    /\ LoopCloses(c)
    /\ UNCHANGED <<stopVars, main, ctxMu, ready, dataVars, i2o, o2i>>

\* O2IRecvData: the write to the local client runs under ctxMu and may block
OnRecvData(c) ==
    /\ loop[c] = "lock" /\ ctxMu[c] = "free"
    /\ cur[c].type = "O2IRecvData"
    /\ ctxMu' = [ctxMu EXCEPT ![c] = "loop"]
    /\ loop' = [loop EXCEPT ![c] = "write"]
    /\ UNCHANGED <<stopVars, sessVars, main, cur, ready, conn, dataVars, i2o, o2i>>

\* Mutant of Acknowledge: the outlet's window is never refilled
NoAcknowledge(c) == UNCHANGED i2o

Acknowledge(c) == Output(RecvResult(c))

\* The client takes the bytes; the write's hook acknowledges them
WriteDone(c) ==
    /\ loop[c] = "write" /\ conn[c] \in {"open", "hungup"}
    /\ down' = [down EXCEPT ![c] = Append(@, cur[c].n)]
    /\ Acknowledge(c)
    /\ ctxMu' = [ctxMu EXCEPT ![c] = "free"]
    /\ loop' = [loop EXCEPT ![c] = "pop"]
    /\ cur' = [cur EXCEPT ![c] = None]
    /\ UNCHANGED <<stopVars, sessVars, main, ready, conn, flow, inputQ, up, o2i>>

WriteFails(c) ==
    /\ loop[c] = "write" /\ conn[c] \in {"hungup", "closed"}
    /\ ctxMu' = [ctxMu EXCEPT ![c] = "free"]
    /\ cur' = [cur EXCEPT ![c] = None]
    /\ LoopCloses(c)
    /\ UNCHANGED <<stopVars, main, ready, conn, dataVars, i2o, o2i>>

-----------------------------------------------------------------------------
\* Input, called by the goroutine that routes messages.  It blocks for as long
\* as a shutdown it has started itself.
InputIdle == \A c \in Ids : by[c] = "input" => sess[c] = "done"

Full(c) == Len(inputQ[c]) = QueueCap

\* Mutant of Overflow: the message is dropped and the session goes on
DropMessage(c) == sess[c] = "live" /\ UNCHANGED sessVars

\* Push is refused: closeSession
Overflow(c) == Remove(c, "input")

Input ==
    /\ InputIdle /\ o2i # <<>>
    /\ o2i' = Tail(o2i)
    /\ LET m == Head(o2i)
           c == m.id
       IN  \/ /\ sess[c] # "live"
              /\ UNCHANGED <<sessVars, flow, inputQ>>
           \/ /\ sess[c] = "live" /\ m.type = "O2ISendDataResult"
              /\ flow' = [flow EXCEPT ![c] = IF @ = 0 THEN 0 ELSE @ - 1]
              /\ UNCHANGED <<sessVars, inputQ>>
           \/ /\ sess[c] = "live" /\ m.type # "O2ISendDataResult"
              /\ ~Full(c)
              /\ inputQ' = [inputQ EXCEPT ![c] = Append(@, m)]
              /\ UNCHANGED <<sessVars, flow>>
           \/ /\ m.type # "O2ISendDataResult"
              /\ Full(c) /\ Overflow(c)
              /\ UNCHANGED <<flow, inputQ>>
    /\ UNCHANGED <<stopVars, goVars, ctxMu, ready, conn, up, down, i2o>>

-----------------------------------------------------------------------------
\* shutdown, run by the goroutine that removed the session.  Stop shuts its
\* sessions down one after the other.
Turn(c) ==
    by[c] = "stop" =>
      /\ ListenerClosed
      /\ \A d \in Ids \ {c} : by[d] = "stop" => sess[d] \in {"removed", "done"}

ShutClose(c) ==
    /\ sess[c] = "removed" /\ Turn(c)
    /\ sess' = [sess EXCEPT ![c] = "closed"]
    /\ flow' = [flow EXCEPT ![c] = 0]
    /\ inputQ' = [inputQ EXCEPT ![c] = <<>>]
    /\ UNCHANGED <<stopVars, by, goVars, ctxMu, ready, conn, up, down, i2o, o2i>>

ShutBye(c) ==
    /\ sess[c] = "closed" /\ ctxMu[c] = "free"
    /\ sess' = [sess EXCEPT ![c] = "bye"]
    /\ Output(Disconnect(c))
    /\ UNCHANGED <<stopVars, by, goVars, ctxMu, ready, conn, dataVars, o2i>>

ShutConn(c) ==
    /\ sess[c] = "bye"
    /\ sess' = [sess EXCEPT ![c] = "unlinked"]
    /\ conn' = [conn EXCEPT ![c] = "closed"]
    /\ UNCHANGED <<stopVars, by, goVars, ctxMu, ready, dataVars, i2o, o2i>>

ShutSlot(c) ==
    /\ sess[c] = "unlinked"
    /\ sess' = [sess EXCEPT ![c] = "done"]
    /\ ReleaseSlot
    /\ main' = IF by[c] = "main" THEN [main EXCEPT ![c] = "gone"] ELSE main
    /\ loop' = IF by[c] = "loop" THEN [loop EXCEPT ![c] = "gone"] ELSE loop
    /\ UNCHANGED <<stopPc, acc, accConn, by, cur, ctxMu, ready, conn, dataVars, i2o, o2i>>

-----------------------------------------------------------------------------
\* Stop

StopBegin ==
    /\ stopPc = "no" /\ stopPc' = "begun"
    /\ UNCHANGED <<acc, accConn, slots, sessVars, goVars, ctxMu, ready, conn, dataVars, i2o, o2i>>

\* Under the inlet's mutex: no new work from here on, every session is taken over
StopMark ==
    /\ stopPc = "begun" /\ stopPc' = "marked"
    /\ sess' = [c \in Ids |-> IF sess[c] = "live" THEN "removed" ELSE sess[c]]
    /\ by' = [c \in Ids |-> IF sess[c] = "live" THEN "stop" ELSE by[c]]
    /\ UNCHANGED <<acc, accConn, slots, goVars, ctxMu, ready, conn, dataVars, i2o, o2i>>

StopListener ==
    /\ stopPc = "marked" /\ stopPc' = "closing"
    /\ UNCHANGED <<acc, accConn, slots, sessVars, goVars, ctxMu, ready, conn, dataVars, i2o, o2i>>

GoroutinesGone ==
    /\ acc = "gone"
    /\ \A c \in Ids : main[c] \in {"none", "gone"} /\ loop[c] \in {"none", "gone"}

\* Mutant of StopReturn: Stop does not wait for the goroutines
StopReturnEarly ==
    /\ stopPc = "closing" /\ stopPc' = "returned"
    /\ \A c \in Ids : by[c] = "stop" => sess[c] = "done"
    /\ UNCHANGED <<acc, accConn, slots, sessVars, goVars, ctxMu, ready, conn, dataVars, i2o, o2i>>

\* runWG.Wait returns
StopReturn ==
    /\ stopPc = "closing"
    /\ \A c \in Ids : by[c] = "stop" => sess[c] = "done"
    /\ GoroutinesGone
    /\ stopPc' = "returned"
    /\ UNCHANGED <<acc, accConn, slots, sessVars, goVars, ctxMu, ready, conn, dataVars, i2o, o2i>>

-----------------------------------------------------------------------------
\* The local client hangs up
ClientCloses(c) ==
    /\ conn[c] = "open"
    /\ conn' = [conn EXCEPT ![c] = "hungup"]
    /\ UNCHANGED <<stopVars, sessVars, goVars, ctxMu, ready, dataVars, i2o, o2i>>

Shutdown(c) == ShutClose(c) \/ ShutBye(c) \/ ShutConn(c) \/ ShutSlot(c)

MainStep(c) ==
    \/ Insert(c) \/ StartLoop(c) \/ OnStart(c) \/ AwaitReady(c) \/ AwaitFails(c)
    \/ ReadFails(c) \/ LockPeerData(c) \/ SendPeerData(c) \/ PeerDataFails(c)

LoopStep(c) ==
    \/ Pop(c) \/ OnConnected(c) \/ OnRefusedOrDisconnect(c) \/ OnRecvData(c)
    \/ WriteDone(c) \/ WriteFails(c)

Next ==
    \/ \E c \in Ids :
         Accept(c) \/ MainStep(c) \/ ReadPayload(c) \/ LoopStep(c) \/ Shutdown(c) \/ ClientCloses(c)
    \/ AcceptEnds \/ Reserve \/ Spawn
    \/ Input
    \/ StopBegin \/ StopMark \/ StopListener \/ StopReturn

\* Goroutines are scheduled; a mutex that is free again and again is obtained
\* in the end (sync.Mutex hands over to a starving waiter).  WriteDone is in
\* LoopStep: a local client is assumed to take its bytes or to hang up.  It need
\* not connect or send.
GoFair(c) ==
    /\ WF_vars(MainStep(c)) /\ WF_vars(LoopStep(c)) /\ WF_vars(Shutdown(c))
    /\ SF_vars(OnStart(c)) /\ SF_vars(LockPeerData(c)) /\ SF_vars(ShutBye(c))
    /\ SF_vars(OnConnected(c) \/ OnRefusedOrDisconnect(c) \/ OnRecvData(c))

InletFair ==
    /\ WF_vars(AcceptEnds) /\ WF_vars(Reserve) /\ WF_vars(Spawn) /\ WF_vars(Input)
    /\ WF_vars(StopMark) /\ WF_vars(StopListener) /\ WF_vars(StopReturn)

Fairness == (\A c \in Ids : GoFair(c)) /\ InletFair

-----------------------------------------------------------------------------

InMessages ==
    [type : {"O2IConnect"}, id : Ids, ok : BOOLEAN]
      \cup [type : {"O2IRecvData"}, id : Ids, n : Nat]
      \cup [type : {"O2IDisconnect", "O2ISendDataResult"}, id : Ids]

\* An outlet of which nothing is known: it takes what it is sent and sends
\* whatever message it likes.  Its steps are those of MCInlet and of Tunnel and
\* more; what is proved of the inlet is proved against it.
AnyOutlet ==
    /\ i2o' = i2o \/ (i2o # <<>> /\ i2o' = Tail(i2o))
    /\ o2i' = o2i \/ \E m \in InMessages : o2i' = Append(o2i, m)
    /\ UNCHANGED <<stopVars, sessVars, goVars, ctxMu, ready, conn, dataVars>>

Spec == Init /\ [][Next \/ AnyOutlet]_vars

-----------------------------------------------------------------------------

TypeOK ==
    /\ stopPc \in {"no", "begun", "marked", "closing", "returned"}
    /\ acc \in {"accept", "reserve", "spawn", "gone"}
    /\ accConn \in Ids \cup {None}
    /\ slots \in 0 .. MaxSlots
    /\ sess \in [Ids -> Phases]
    /\ by \in [Ids -> {"nobody", "main", "loop", "input", "stop"}]
    /\ main \in [Ids -> {"none", "insert", "spawn", "start", "await", "read", "lock",
                         "credit", "shutting", "gone"}]
    /\ loop \in [Ids -> {"none", "pop", "lock", "write", "shutting", "gone"}]
    /\ cur \in [Ids -> InMessages \cup {None}]
    /\ ctxMu \in [Ids -> {"free", "main", "loop"}]
    /\ ready \in [Ids -> BOOLEAN]
    /\ flow \in [Ids -> 0 .. Window]
    /\ inputQ \in [Ids -> Seq(InMessages)] /\ \A c \in Ids : Len(inputQ[c]) <= QueueCap
    /\ conn \in [Ids -> {"none", "open", "hungup", "closed"}]
    /\ up \in [Ids -> 0 .. MaxUp] /\ down \in [Ids -> Seq(Nat)]

\* Whoever owns a slot: the accept loop between Reserve and Spawn, a connection
\* goroutine that has not entered the map, a session up to the end of shutdown.
Holds(c) ==
    \/ acc = "spawn" /\ accConn = c
    \/ main[c] = "insert"
    \/ sess[c] \in {"live"} \cup ShutdownPhases

Holders == {c \in Ids : Holds(c)}

\* Session slots neither leak nor are given back twice, whichever goroutine
\* ends up closing a session and however Stop interleaves with accept and
\* start-up.  releaseSessionSlot (inlet.go:474) hides a double release, and a
\* leaked slot would take capacity away until the tunnel is restarted.
SlotAccounting == slots = Cardinality(Holders)

\* When Stop returns nothing of the inlet is left (inlet.go:117-142): no
\* session, no goroutine of its own, and no slot or open connection except of
\* a session that Input has taken over because its queue was full.  That
\* shutdown runs on the routing goroutine, which runWG does not count (172).
StopComplete ==
    stopPc = "returned" =>
      LET left == {c \in Ids : by[c] = "input" /\ sess[c] # "done"}
      IN  /\ sessions = {} /\ GoroutinesGone
          /\ slots = Cardinality(left)
          /\ \A c \in Ids \ left : sess[c] \in {"absent", "done"} /\ conn[c] \in {"none", "closed"}
          /\ \A c \in Ids : ctxMu[c] = "free"

\* After I2ODisconnect neither an I2OConnect nor a payload of that session
\* follows, so the outlet is never left with a target connection whose inlet
\* session is gone: onStart checks closed under ctxMu (inlet.go:611-615) and a
\* sender that gets ctxMu after OnStop finds the window closed (666).
SilentAfterGoodbye ==
    [][\A c \in Ids :
         sess[c] \in {"bye", "unlinked", "done"} =>
           \A n \in 0 .. MaxUp : i2o' # Append(i2o, Connect(c)) /\ i2o' # Append(i2o, SendData(c, n))]_vars

\* Stop returns, whatever the sessions are doing, as long as local clients take
\* their bytes or hang up: shutdown closes the window before it asks for ctxMu,
\* so a sender waiting for credit cannot hold it up (inlet.go:666, 671).
StopReturns == stopPc # "no" ~> stopPc = "returned"
=============================================================================
