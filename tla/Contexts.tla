------------------------------ MODULE Contexts ------------------------------
(***************************************************************************)
(* One session of an inlet whose protocol says where to connect: SOCKS5    *)
(* (CONNECT and UDP ASSOCIATE), HTTP proxy, Shadowsocks over TCP and over  *)
(* UDP, and a plain UDP session, with its goroutines: the reader           *)
(* (runTCPConn or runUDPSession), the message loop, the reader of an       *)
(* associated UDP socket, whoever stops the session, and the timers of     *)
(* CloseLater.                                                             *)
(*                                                                         *)
(* The client's stream is a sequence of cells.  An element of the protocol *)
(* (a greeting, a request header, a sealed chunk) is cut into el.size      *)
(* cells, a datagram is one, and every read takes any number of cells      *)
(* there are, so that elements arrive in pieces or together.  Handlers run *)
(* under ctxMu: what a handler sends to the outlet is put in todo and goes *)
(* out message by message, waiting for credit.                             *)
(***************************************************************************)
EXTENDS Naturals, Sequences, SequencesExt

CONSTANTS
    Scripts,      \* the clients, a sequence of records: mode, auth, stream (elements)
    Senders,      \* addresses datagrams reach an associated socket from
    Own,          \* those of them at the client's IP
    Window,       \* proxyFlowWindowBytes, in messages
    HeaderCap,    \* httpMaxHeaderBytes, in cells
    BufferCap,    \* socks5/http MaxBufferedPayloadBytes, shadowsocksMaxPendingBytes
    MaxDown,      \* bound of the model: payloads the target sends
    MaxDatagrams, \* bound of the model: datagrams to an associated socket
    None

ASSUME ContextsAssumption ==
    /\ Window \in Nat \ {0} /\ {HeaderCap, BufferCap, MaxDown, MaxDatagrams} \subseteq Nat
    /\ Own \subseteq Senders /\ None \notin Senders

VARIABLES
    script,   \* which client this session has
    taken,    \* cells the reader has taken
    ctx,      \* the context's fields: status, buffer, pending, connectIsTCP, ...
    ctxMu,    \* who runs a handler
    todo,     \* what that handler has still to send
    failing,  \* that handler returns an error
    reader,   \* waiting (waitReady), reading, holding, handling, shutting, gone
    seg,      \* what the reader has read
    loop,     \* idle, holding, handling, closing, shutting, gone
    msg,      \* the message the loop has popped
    inq,      \* inputQ
    life,     \* live, or the steps of shutdown: removed, closed, stopping, bye, done
    by,       \* who shuts the session down
    conn,     \* the client's connection: open, hungup (by the client), closed
    later,    \* a CloseLater is pending
    flow,     \* messages charged against the window
    i2o,      \* messages sent to the outlet
    log,      \* what was written to the client
    outlet,   \* the outlet's side: idle, dialling, connected, gone
    down,     \* payloads the target has sent
    socket,   \* udpSocket: none, open, closed
    udp,      \* readUDPAssociate: none, reading, sending, gone
    packet,   \* the datagram it has accepted
    pinned,   \* udpTargetAddr
    got       \* datagrams that have reached the socket

handler == <<ctx, ctxMu, todo, failing, later, log>>
session == <<life, by, conn>>
assoc == <<socket, udp, packet, pinned, got>>
peer == <<outlet, down>>
vars == <<script, taken, reader, seg, loop, msg, inq, handler, session, flow, i2o, peer, assoc>>

-----------------------------------------------------------------------------
mode == Scripts[script].mode
auth == Scripts[script].auth
els == Scripts[script].stream
OverTCP == mode \in {"SOCKS5", "HTTP", "Shadowsocks"}

\* A cell is <<i, part>>, a part of the client's i-th element
Cells(stream) == FlattenSeq([i \in DOMAIN stream |-> [part \in 1..stream[i].size |-> <<i, part>>]])
Streams == [s \in DOMAIN Scripts |-> Cells(Scripts[s].stream)]
Client == Streams[script]

\* The first element of a buffer, once all of it is there, and what follows it
First(buffer) == els[buffer[1][1]]
Whole(buffer) == buffer # <<>> /\ Len(buffer) >= First(buffer).size
Beyond(buffer) == SubSeq(buffer, First(buffer).size + 1, Len(buffer))

Connect(to, tcp) == [type |-> "I2OConnect", to |-> to, tcp |-> tcp]
SendData(data) == [type |-> "I2OSendData", data |-> data]
SendToData(data) == [type |-> "I2OSendToData", data |-> <<data>>]
RecvResult(n) == [type |-> "I2ORecvDataResult", n |-> n]
Disconnect == [type |-> "I2ODisconnect"]
Charged(m) == m.type \in {"I2OSendData", "I2OSendToData"}

Init ==
    /\ script \in DOMAIN Scripts /\ taken = 0
    /\ ctx = [status |-> IF mode \in {"UDP", "ShadowsocksUDP"} THEN "Connecting" ELSE "Init",
              buffer |-> <<>>, pending |-> <<>>,
              connectIsTCP |-> FALSE, isConnectMethod |-> FALSE, salted |-> FALSE, saltSent |-> FALSE]
    /\ ctxMu = "free" /\ todo = <<>> /\ failing = FALSE
    /\ reader = IF mode = "UDP" THEN "waiting" ELSE "reading"
    /\ seg = <<>> /\ loop = "idle" /\ msg = None /\ inq = <<>>
    /\ life = "live" /\ by = "nobody" /\ conn = "open" /\ later = FALSE
    /\ flow = 0 /\ log = <<>>
    /\ i2o = IF mode \in {"UDP", "ShadowsocksUDP"} THEN <<Connect(None, FALSE)>> ELSE <<>>
    /\ outlet = "idle" /\ down = 0
    /\ socket = "none" /\ udp = "none" /\ packet = None /\ pinned = None /\ got = <<>>

-----------------------------------------------------------------------------
\* What a handler does: the context it leaves, what it sends, what it writes
\* to the client, whether it asks for a delayed close and whether it fails.
Nothing == [c |-> ctx, out |-> <<>>, say |-> <<>>, later |-> FALSE, err |-> FALSE]

Say(x, reply) == [x EXCEPT !.say = Append(@, [reply |-> reply])]
To(x, status) == [x EXCEPT !.c.status = status]
Fails(x) == [x EXCEPT !.err = TRUE]

\* Mutant of Refuse: nobody closes the connection of a client that was refused
RefuseOnly(x, status, reply) == To(Say(x, reply), status)

Refuse(x, status, reply) == [To(Say(x, reply), status) EXCEPT !.later = TRUE]
Consume(x) == [x EXCEPT !.c.buffer = Beyond(@)]

\* sendTCPPayload, sendUpstreamPayload, sendPayload: nothing to send, no message
Send(x, data) == IF data = <<>> THEN x ELSE [x EXCEPT !.out = Append(@, SendData(data))]

Keep(x, data) == [x EXCEPT !.c.pending = Append(@, data)]

Buffered(x, data) == Len(x.c.buffer) + Len(data)

-----------------------------------------------------------------------------
\* SOCKS5

OnInit(x) ==
    LET el == First(x.c.buffer)
        method == IF auth THEN "password" ELSE "none" IN
    IF el.kind # "greeting" THEN Refuse(x, "Closing", "unavailable")
    ELSE IF method \notin el.offers THEN Refuse(Consume(x), "Closing", "unavailable")
    ELSE To(Say(Consume(x), method), IF auth THEN "Verify" ELSE "Connect")

\* Mutant of OnVerify: any login will do
OnVerifyAny(x) == To(Say(Consume(x), "welcome"), "Connect")

OnVerify(x) ==
    LET el == First(x.c.buffer) IN
    IF el.kind # "login" THEN Refuse(x, "Closing", "denied")
    ELSE IF el.right THEN To(Say(Consume(x), "welcome"), "Connect")
    ELSE Refuse(Consume(x), "Closing", "denied")

OnConnect(x) ==
    LET el == First(x.c.buffer) IN
    IF el.kind # "request" THEN Refuse(x, "Closing", "unsupported")
    ELSE IF el.to = None THEN Fails(x)
    ELSE IF el.cmd \notin {"connect", "associate"} THEN Refuse(Consume(x), "Closing", "unsupported")
    ELSE LET tcp == el.cmd = "connect" IN
         [To(Consume(x), "Connecting") EXCEPT !.c.connectIsTCP = tcp,
                                              !.out = Append(@, Connect(el.to, tcp))]

\* One round of processBufferedHandshake: it goes round as long as the
\* buffer holds the element the status asks for, three times at most
Handshake(x) ==
    IF ~Whole(x.c.buffer) \/ x.err THEN x
    ELSE CASE x.c.status = "Init" -> OnInit(x)
           [] x.c.status = "Verify" -> OnVerify(x)
           [] x.c.status = "Connect" -> OnConnect(x)
           [] OTHER -> x

\* Mutant of Socks5Data: one element is looked at per read
Socks5DataOnce(x, data) ==
    LET kept == [x EXCEPT !.c.buffer = @ \o data] IN
    CASE x.c.status = "RunTCP" -> Send(x, data)
      [] x.c.status \in {"RunUDP", "Closing"} -> x
      [] OTHER -> Handshake(kept)

Socks5Data(x, data) ==
    LET kept == [x EXCEPT !.c.buffer = @ \o data] IN
    CASE x.c.status \in {"Init", "Verify", "Connect", "Connecting"} ->
            IF Buffered(x, data) > BufferCap THEN Fails(x)
            ELSE IF x.c.status = "Connecting" THEN kept
            ELSE Handshake(Handshake(Handshake(kept)))
      [] x.c.status = "RunTCP" -> Send(x, data)
      [] OTHER -> x     \* Closing; RunUDP, where a cell of the stream is no datagram

\* onConnectReply; "bad" says that writing to the client fails, "bound" that
\* the associated socket could be opened
Socks5Connected(x, bad, bound) ==
    IF x.c.status # "Connecting" THEN x
    ELSE LET left == x.c.buffer
             emptied == [x EXCEPT !.c.buffer = <<>>] IN
         IF x.c.connectIsTCP
         THEN IF bad THEN Fails(To(x, "RunTCP"))
              ELSE Send(To(Say(emptied, "granted"), "RunTCP"), left)
         ELSE IF ~bound THEN Refuse(emptied, "Closing", "failed")
         ELSE IF bad THEN Fails(To(emptied, "RunUDP"))
         ELSE To(Say(emptied, "granted"), "RunUDP")

-----------------------------------------------------------------------------
\* HTTP

PendingBytes(x) == Len(FlattenSeq(x.c.pending))

BufferPending(x, data) ==
    IF data = <<>> THEN x
    ELSE IF PendingBytes(x) + Len(data) > BufferCap THEN Fails(x)
    ELSE Keep(x, data)

\* rewriteProxyRequestHeader: the request as the target gets it, in a cell of its own
Rewritten == <<<<0, 1>>>>

Authorized(el) == auth => el.right

\* resolveProxyTarget: the authority of the request, with the scheme's port
\* where it names none
Target(el) ==
    IF el.host = None THEN None
    ELSE <<el.host, CASE el.port # None -> el.port
                      [] el.method = "CONNECT" \/ el.https -> 443
                      [] OTHER -> 80>>

OnHeader(x, el, rest) ==
    IF el.size > HeaderCap \/ el.kind # "header" THEN Fails(x)
    ELSE IF ~Authorized(el) THEN Refuse(x, "Invalid", "407")
    ELSE IF Target(el) = None THEN Fails(x)
    ELSE LET asked == To(x, "Connecting")
             kept == IF el.method = "CONNECT"
                     THEN BufferPending([asked EXCEPT !.c.isConnectMethod = TRUE,
                                                      !.c.buffer = <<>>], rest)
                     ELSE [asked EXCEPT !.c.buffer = Rewritten \o rest] IN
         IF kept.err \/ Len(kept.c.buffer) > BufferCap THEN Fails(kept)
         ELSE [kept EXCEPT !.out = Append(@, Connect(Target(el), TRUE))]

HttpData(x, data) ==
    CASE x.c.status = "Init" ->
            LET cache == x.c.buffer \o data
                kept == [x EXCEPT !.c.buffer = cache] IN
            IF Whole(cache) THEN OnHeader(kept, First(cache), Beyond(cache))
            ELSE IF Len(cache) > HeaderCap THEN Fails(kept) ELSE kept
      [] x.c.status = "Connecting" -> BufferPending(x, data)
      [] x.c.status = "Running" -> Send(x, data)
      [] OTHER -> x     \* Invalid

FlushPending(x) ==
    [FoldLeft(Send, x, x.c.pending) EXCEPT !.c.pending = <<>>]

\* Mutant of HttpConnected: what came while connecting overtakes the request
HttpConnectedSwapped(x, bad) ==
    LET flushed == FlushPending(To(x, "Running")) IN
    IF ~x.c.isConnectMethod THEN [Send(flushed, x.c.buffer) EXCEPT !.c.buffer = <<>>]
    ELSE IF bad THEN Fails(flushed) ELSE Say(flushed, "200")

HttpConnected(x, bad) ==
    LET running == To(x, "Running") IN
    IF ~x.c.isConnectMethod
    THEN FlushPending([Send(running, x.c.buffer) EXCEPT !.c.buffer = <<>>])
    ELSE IF bad THEN Fails(running) ELSE FlushPending(Say(running, "200"))

-----------------------------------------------------------------------------
\* Shadowsocks

\* What a pending payload costs: its length and a fixed overhead
PendingCost(x) == PendingBytes(x) + Len(x.c.pending)

BufferSealed(x, data) ==
    IF PendingCost(x) + 1 + Len(data) > BufferCap THEN Fails(x) ELSE Keep(x, data)

HandleChunk(x, el) ==
    IF x.err THEN x
    ELSE CASE x.c.status = "Init" ->
                IF el.to = None THEN Fails(x)
                ELSE LET asked == [To(x, "Connecting") EXCEPT !.out = Append(@, Connect(el.to, TRUE))] IN
                     IF el.body = <<>> THEN asked ELSE BufferSealed(asked, el.body)
           [] x.c.status = "Connecting" -> BufferSealed(x, el.body)
           [] OTHER -> Send(x, el.body)

\* Feed of the stream reader, and the loop of OnPeerData over what it returns:
\* the chunks that are there to their last cell.  One that does not open ends
\* it, and takes the chunks of the same read with it.
ShadowsocksData(x, data) ==
    LET buffer == x.c.buffer \o data
        start == IF ~x.c.salted /\ Whole(buffer) THEN Beyond(buffer) ELSE buffer
        kept == [x EXCEPT !.c.buffer = start, !.c.salted = @ \/ Whole(buffer)]
        IsLast(cell) == cell[2] = els[cell[1]].size
        opened == SelectSeq(start, IsLast)
        over == IF start = <<>> \/ IsLast(Last(start)) THEN 0 ELSE Last(start)[2] IN
    IF ~kept.c.salted THEN kept
    ELSE IF \E i \in DOMAIN start : ~els[start[i][1]].sealed THEN Fails(kept)
    ELSE FoldLeft(HandleChunk, [kept EXCEPT !.c.buffer = SubSeq(start, Len(start) - over + 1, Len(start))],
                  [i \in DOMAIN opened |-> els[opened[i][1]]])

\* A datagram over UDP: one that does not open, or names no target, ends the session
PacketData(x, data) ==
    LET el == els[data[1][1]] IN
    IF ~el.sealed \/ el.to = None THEN Fails(x)
    ELSE IF x.c.status = "Connecting" THEN BufferSealed(x, data)
    ELSE [x EXCEPT !.out = Append(@, SendToData(data[1]))]

FlushPackets(x) ==
    [x EXCEPT !.out = @ \o [i \in DOMAIN x.c.pending |-> SendToData(x.c.pending[i][1])],
              !.c.pending = <<>>]

-----------------------------------------------------------------------------
\* The handlers of a context

OnPeerData(x, data) ==
    CASE mode = "SOCKS5" -> Socks5Data(x, data)
      [] mode = "HTTP" -> HttpData(x, data)
      [] mode = "Shadowsocks" -> ShadowsocksData(x, data)
      [] mode = "ShadowsocksUDP" -> PacketData(x, data)
      [] mode = "UDP" -> Send(x, data)

Connected(x, bad, bound) ==
    CASE mode = "SOCKS5" -> Socks5Connected(x, bad, bound)
      [] mode = "HTTP" -> HttpConnected(x, bad)
      [] mode = "Shadowsocks" -> IF x.c.status # "Connecting" THEN x ELSE FlushPending(To(x, "Running"))
      [] mode = "ShadowsocksUDP" -> FlushPackets(To(x, "Running"))
      [] mode = "UDP" -> To(x, "Running")

NotConnected(x) ==
    CASE mode = "SOCKS5" -> Refuse(x, "Closing", "failed")
      [] mode = "HTTP" -> Refuse(x, "Invalid", "502")
      [] mode = "ShadowsocksUDP" -> Fails(x)
      [] OTHER -> x

\* SealData: the salt goes before the first payload
SealData(x) ==
    IF mode = "Shadowsocks" /\ ~x.c.saltSent THEN [Say(x, "salt") EXCEPT !.c.saltSent = TRUE] ELSE x

\* The target's payload n is written to the client, and the write's hook gives
\* the credit back
Write(x, n, bad) ==
    IF bad THEN Fails(SealData(x))
    ELSE [SealData(x) EXCEPT !.say = Append(@, [n |-> n]), !.out = Append(@, RecvResult(n))]

\* O2IRecvDataFrom for an associated socket: no socket or no client yet, no answer
WriteFrom(x, n) ==
    IF socket = "none" \/ pinned = None THEN x ELSE Write(x, n, socket = "closed")

-----------------------------------------------------------------------------
FlowClosed == life \notin {"live", "removed"}

\* A handler begins: it has ctxMu and what it writes to the client is written
Run(who, x) ==
    /\ ctxMu = "free" /\ ctxMu' = who
    /\ ctx' = x.c /\ todo' = x.out /\ failing' = x.err
    /\ later' = (later \/ x.later)
    /\ log' = IF conn = "closed" THEN log ELSE log \o x.say

\* It sends its next message: a payload waits for credit, and once the window
\* is closed it fails and the handler with it
Emit ==
    /\ ctxMu \in {"reader", "loop"} /\ todo # <<>>
    /\ \/ /\ Charged(Head(todo)) /\ FlowClosed
          /\ todo' = <<>> /\ failing' = TRUE
          /\ UNCHANGED <<i2o, flow>>
       \/ /\ Charged(Head(todo)) => ~FlowClosed /\ flow < Window
          /\ flow' = IF Charged(Head(todo)) THEN flow + 1 ELSE flow
          /\ i2o' = Append(i2o, Head(todo)) /\ todo' = Tail(todo)
          /\ UNCHANGED failing
    /\ UNCHANGED <<script, taken, reader, seg, loop, msg, inq, ctx, ctxMu, later, log, session, peer, assoc>>

\* closeSession: whoever finds the session in the map shuts it down
RemoveSession(who) == life = "live" /\ life' = "removed" /\ by' = who

ReaderCloses ==
    \/ RemoveSession("reader") /\ reader' = "shutting"
    \/ life # "live" /\ reader' = "gone" /\ UNCHANGED <<life, by>>

LoopCloses ==
    \/ RemoveSession("loop") /\ loop' = "shutting"
    \/ life # "live" /\ loop' = "gone" /\ UNCHANGED <<life, by>>

-----------------------------------------------------------------------------
\* The reader: runTCPConn, runUDPSession

ReaderWaits ==
    /\ reader = "waiting"
    /\ \/ ctx.status = "Running" /\ reader' = "reading" /\ UNCHANGED <<life, by>>
       \/ ReaderCloses     \* sessionReadyTimeout, or the session was closed
    /\ UNCHANGED <<script, taken, seg, loop, msg, inq, handler, conn, flow, i2o, peer, assoc>>

ReaderReads ==
    /\ reader = "reading" /\ taken < Len(Client)
    /\ IF OverTCP THEN conn # "closed" ELSE ~FlowClosed
    /\ \E n \in 1..(IF OverTCP THEN Len(Client) - taken ELSE 1) :
          seg' = SubSeq(Client, taken + 1, taken + n) /\ taken' = taken + n
    /\ reader' = "holding"
    /\ UNCHANGED <<script, loop, msg, inq, handler, session, flow, i2o, peer, assoc>>

ReaderHandles ==
    /\ reader = "holding" /\ Run("reader", OnPeerData(Nothing, seg))
    /\ seg' = <<>>
    /\ UNCHANGED <<script, taken, reader, loop, msg, inq, session, flow, i2o, peer, assoc>>

ReaderReturns ==
    /\ ctxMu = "reader" /\ todo = <<>> /\ ctxMu' = "free" /\ failing' = FALSE
    /\ \/ failing /\ ReaderCloses
       \/ ~failing /\ reader' = "reading" /\ UNCHANGED <<life, by>>
    /\ UNCHANGED <<script, taken, seg, loop, msg, inq, ctx, todo, later, log, conn, flow, i2o, peer, assoc>>

\* The stream has ended, the connection or the queue of datagrams is closed
ReaderEnds ==
    /\ reader = "reading"
    /\ \/ /\ OverTCP
          /\ conn = "closed" \/ (conn = "hungup" /\ taken = Len(Client))
          /\ ReaderCloses
       \/ ~OverTCP /\ FlowClosed /\ reader' = "gone" /\ UNCHANGED <<life, by>>
    /\ UNCHANGED <<script, taken, seg, loop, msg, inq, handler, conn, flow, i2o, peer, assoc>>

-----------------------------------------------------------------------------
\* The message loop: runProxyMessageLoop

LoopPops ==
    /\ loop = "idle" /\ inq # <<>>
    /\ msg' = Head(inq) /\ inq' = Tail(inq) /\ loop' = "holding"
    /\ UNCHANGED <<script, taken, reader, seg, handler, session, flow, i2o, peer, assoc>>

LoopEnds ==
    /\ loop = "idle" /\ FlowClosed /\ loop' = "gone"
    /\ UNCHANGED <<script, taken, reader, seg, msg, inq, handler, session, flow, i2o, peer, assoc>>

\* Writing to a client that is gone may fail, and fails once the connection is closed
WriteFails == IF ~OverTCP THEN {FALSE} ELSE CASE conn = "open" -> {FALSE} [] conn = "hungup" -> BOOLEAN [] OTHER -> {TRUE}

HandleConnected ==
    /\ loop = "holding" /\ msg.type = "O2IConnect" /\ msg.success
    /\ \E bad \in WriteFails, bound \in BOOLEAN :
          LET x == Connected(Nothing, bad, bound)
              binds == mode = "SOCKS5" /\ ctx.status = "Connecting" /\ ~ctx.connectIsTCP /\ bound IN
          /\ Run("loop", x)
          /\ socket' = IF binds THEN "open" ELSE socket
          /\ udp' = IF binds /\ ~bad THEN "reading" ELSE udp
    /\ UNCHANGED <<script, taken, reader, seg, loop, msg, inq, session, flow, i2o, peer, packet, pinned, got>>

HandleNotConnected ==
    /\ loop = "holding" /\ msg.type = "O2IConnect" /\ ~msg.success
    /\ Run("loop", NotConnected(Nothing))
    /\ conn' = IF mode = "Shadowsocks" THEN "closed" ELSE conn
    /\ UNCHANGED <<script, taken, reader, seg, loop, msg, inq, life, by, flow, i2o, peer, assoc>>

HandleData ==
    /\ loop = "holding" /\ msg.type = "O2IRecvData"
    /\ \E bad \in WriteFails :
          Run("loop", IF mode = "SOCKS5" /\ ~ctx.connectIsTCP THEN WriteFrom(Nothing, msg.n)
                      ELSE Write(Nothing, msg.n, bad))
    /\ UNCHANGED <<script, taken, reader, seg, loop, msg, inq, session, flow, i2o, peer, assoc>>

HandleDisconnect ==
    /\ loop = "holding" /\ msg.type = "O2IDisconnect"
    /\ Run("loop", Nothing)
    /\ conn' = IF OverTCP THEN "closed" ELSE conn
    /\ UNCHANGED <<script, taken, reader, seg, loop, msg, inq, life, by, flow, i2o, peer, assoc>>

\* A refused connect ends the session at once only where the context has not
\* arranged for the client to be told first
ShouldClose ==
    \/ msg.type = "O2IDisconnect"
    \/ msg.type = "O2IConnect" /\ ~msg.success /\ mode \notin {"HTTP", "SOCKS5"}

LoopReturns ==
    /\ ctxMu = "loop" /\ todo = <<>> /\ ctxMu' = "free" /\ failing' = FALSE /\ msg' = None
    /\ \/ (failing \/ ShouldClose) /\ LoopCloses
       \/ ~(failing \/ ShouldClose) /\ loop' = "idle" /\ UNCHANGED <<life, by>>
    /\ UNCHANGED <<script, taken, reader, seg, inq, ctx, todo, later, log, conn, flow, i2o, peer, assoc>>

-----------------------------------------------------------------------------
\* The shutdown of the session

\* Stop of the inlet; for a session over UDP also its idle watcher
Stop ==
    /\ RemoveSession("stop")
    /\ UNCHANGED <<script, taken, reader, seg, loop, msg, inq, handler, conn, flow, i2o, peer, assoc>>

CloseChannels ==
    /\ life = "removed" /\ life' = "closed"
    /\ flow' = 0 /\ inq' = <<>>
    /\ UNCHANGED <<script, taken, reader, seg, loop, msg, handler, by, conn, i2o, peer, assoc>>

\* Mutant of OnStop: it waits for the socket's reader and does not wake it
OnStopWaits ==
    /\ life = "closed" /\ life' = "stopping"
    /\ ctxMu = "free" /\ ctxMu' = "stop"
    /\ UNCHANGED <<script, taken, reader, seg, loop, msg, inq, ctx, todo, failing, later, log,
                   by, conn, flow, i2o, peer, assoc>>

\* OnStop closes the associated socket and waits, under ctxMu, for its reader
OnStop ==
    /\ life = "closed" /\ life' = "stopping"
    /\ ctxMu = "free" /\ ctxMu' = "stop"
    /\ socket' = IF socket = "open" THEN "closed" ELSE socket
    /\ UNCHANGED <<script, taken, reader, seg, loop, msg, inq, ctx, todo, failing, later, log,
                   by, conn, flow, i2o, peer, udp, packet, pinned, got>>

Goodbye ==
    /\ life = "stopping" /\ life' = "bye"
    /\ udp \in {"none", "gone"}
    /\ ctxMu' = "free" /\ i2o' = Append(i2o, Disconnect)
    /\ UNCHANGED <<script, taken, reader, seg, loop, msg, inq, ctx, todo, failing, later, log,
                   by, conn, flow, peer, assoc>>

Unlink ==
    /\ life = "bye" /\ life' = "done"
    /\ conn' = IF OverTCP THEN "closed" ELSE conn
    /\ reader' = IF reader = "shutting" THEN "gone" ELSE reader
    /\ loop' = IF loop = "shutting" THEN "gone" ELSE loop
    /\ UNCHANGED <<script, taken, seg, msg, inq, handler, by, flow, i2o, peer, assoc>>

\* The timer of CloseLater
CloseLater ==
    /\ later /\ later' = FALSE
    /\ conn' = IF OverTCP THEN "closed" ELSE conn
    /\ UNCHANGED <<script, taken, reader, seg, loop, msg, inq, ctx, ctxMu, todo, failing, log,
                   life, by, flow, i2o, peer, assoc>>

-----------------------------------------------------------------------------
\* The associated socket: acceptUDPClientAddr, readUDPAssociate

Datagram(from, to) ==
    /\ udp = "reading" /\ socket = "open" /\ Len(got) < MaxDatagrams
    /\ LET datagram == [from |-> from, to |-> to, n |-> Len(got)]
           accepted == from \in Own /\ pinned \in {None, from} IN
       /\ got' = Append(got, datagram)
       /\ pinned' = IF accepted THEN from ELSE pinned
       /\ IF accepted /\ to # None
          THEN packet' = datagram /\ udp' = "sending" ELSE UNCHANGED <<packet, udp>>
    /\ UNCHANGED <<script, taken, reader, seg, loop, msg, inq, handler, session, flow, i2o, peer, socket>>

\* Its payload waits for credit like any other; without it the datagram is lost
DatagramSent ==
    /\ udp = "sending" /\ udp' = "reading" /\ packet' = None
    /\ \/ FlowClosed /\ UNCHANGED <<flow, i2o>>
       \/ ~FlowClosed /\ flow < Window /\ flow' = flow + 1 /\ i2o' = Append(i2o, SendToData(packet))
    /\ UNCHANGED <<script, taken, reader, seg, loop, msg, inq, handler, session, peer, socket, pinned, got>>

DatagramsEnd ==
    /\ udp = "reading" /\ socket = "closed" /\ udp' = "gone"
    /\ UNCHANGED <<script, taken, reader, seg, loop, msg, inq, handler, session, flow, i2o, peer,
                   socket, packet, pinned, got>>

-----------------------------------------------------------------------------
\* The client and the outlet.  What the outlet sends reaches the session as
\* long as it is in the map; the queues on the way are Inlet's and Outlet's.

HangUp ==
    /\ OverTCP /\ conn = "open" /\ conn' = "hungup"
    /\ UNCHANGED <<script, taken, reader, seg, loop, msg, inq, handler, life, by, flow, i2o, peer, assoc>>

Input(m) == life = "live" /\ inq' = Append(inq, m)

OutletAnswers(success) ==
    /\ outlet = "idle" /\ \E i \in DOMAIN i2o : i2o[i].type = "I2OConnect"
    /\ Input([type |-> "O2IConnect", success |-> success])
    /\ outlet' = IF success THEN "connected" ELSE "gone"
    /\ UNCHANGED <<script, taken, reader, seg, loop, msg, handler, session, flow, i2o, down, assoc>>

OutletSends ==
    /\ outlet = "connected" /\ down < MaxDown /\ down' = down + 1
    /\ Input([type |-> "O2IRecvData", n |-> down + 1])
    /\ UNCHANGED <<script, taken, reader, seg, loop, msg, handler, session, flow, i2o, outlet, assoc>>

OutletEnds ==
    /\ outlet = "connected" /\ outlet' = "gone"
    /\ Input([type |-> "O2IDisconnect"])
    /\ UNCHANGED <<script, taken, reader, seg, loop, msg, handler, session, flow, i2o, down, assoc>>

\* O2ISendDataResult goes to Release, past the queue
OutletReleases ==
    /\ flow > 0 /\ life = "live" /\ flow' = flow - 1
    /\ UNCHANGED <<script, taken, reader, seg, loop, msg, inq, handler, session, i2o, peer, assoc>>

Next ==
    \/ Emit \/ ReaderWaits \/ ReaderReads \/ ReaderHandles \/ ReaderReturns \/ ReaderEnds
    \/ LoopPops \/ LoopEnds \/ HandleConnected \/ HandleNotConnected \/ HandleData
    \/ HandleDisconnect \/ LoopReturns
    \/ Stop \/ CloseChannels \/ OnStop \/ Goodbye \/ Unlink \/ CloseLater
    \/ \E from \in Senders, to \in {"t", None} : Datagram(from, to)
    \/ DatagramSent \/ DatagramsEnd
    \/ HangUp \/ OutletSends \/ OutletEnds \/ OutletReleases
    \/ \E success \in BOOLEAN : OutletAnswers(success)

Spec == Init /\ [][Next]_vars

\* The scheduler runs every goroutine that can go on and every timer expires;
\* a connected outlet answers and takes what it is sent.  Nobody has to stop
\* the inlet, hang up, or send a datagram.  The streams are finite, so nobody
\* contends for ctxMu for ever and weak fairness is enough.
Fairness ==
    /\ WF_vars(Emit)
    /\ WF_vars(ReaderWaits \/ ReaderReads \/ ReaderHandles \/ ReaderReturns \/ ReaderEnds)
    /\ WF_vars(LoopPops \/ LoopEnds \/ LoopReturns)
    /\ WF_vars(HandleConnected \/ HandleNotConnected \/ HandleData \/ HandleDisconnect)
    /\ WF_vars(CloseChannels \/ OnStop \/ Goodbye \/ Unlink) /\ WF_vars(CloseLater)
    /\ WF_vars(DatagramSent \/ DatagramsEnd)
    /\ WF_vars(OutletReleases) /\ WF_vars(\E success \in BOOLEAN : OutletAnswers(success))

FairSpec == Spec /\ Fairness

-----------------------------------------------------------------------------
\* What a client may expect of its session, read off its whole stream

Handshaken == IF auth THEN 3 ELSE 2    \* elements up to the SOCKS5 request

\* The connect it asks for, None when it asks for none that is served
Asked ==
    CASE mode = "SOCKS5" ->
            IF /\ Len(els) >= Handshaken
               /\ els[1].kind = "greeting" /\ (IF auth THEN "password" ELSE "none") \in els[1].offers
               /\ auth => els[2].kind = "login" /\ els[2].right
               /\ els[Handshaken].kind = "request" /\ els[Handshaken].cmd \in {"connect", "associate"}
               /\ els[Handshaken].to # None
            THEN Connect(els[Handshaken].to, els[Handshaken].cmd = "connect") ELSE None
      [] mode = "HTTP" ->
            IF /\ els[1].kind = "header" /\ els[1].size <= HeaderCap /\ els[1].to # None
               /\ auth => els[1].right
            THEN Connect(els[1].to, TRUE) ELSE None
      [] mode = "Shadowsocks" ->
            IF els[2].sealed /\ els[2].to # None THEN Connect(els[2].to, TRUE) ELSE None
      [] OTHER -> Connect(None, FALSE)

Associates == Asked # None /\ mode = "SOCKS5" /\ ~Asked.tcp

\* The payload it hands over for its target, in order
Handed ==
    LET own == SelectSeq(got, LAMBDA d : d.from \in Own)
        After(k) == SelectSeq(Client, LAMBDA cell : cell[1] > k) IN
    IF Asked = None THEN <<>>
    ELSE CASE Associates -> SelectSeq(own, LAMBDA d : d.from = own[1].from /\ d.to # None)
           [] mode = "SOCKS5" -> After(Handshaken)
           [] mode = "HTTP" -> (IF els[1].method = "CONNECT" THEN <<>> ELSE Rewritten) \o After(1)
           [] mode = "Shadowsocks" ->
                 FlattenSeq([i \in 1..(Len(els) - 1) |-> IF els[i + 1].sealed THEN els[i + 1].body ELSE <<>>])
           [] mode = "ShadowsocksUDP" -> SelectSeq(Client, LAMBDA cell : els[cell[1]].sealed)
           [] OTHER -> Client

\* What it is told before the first payload of its target
Greeted ==
    CASE mode = "SOCKS5" -> (IF auth THEN <<"password", "welcome">> ELSE <<"none">>) \o <<"granted">>
      [] mode = "HTTP" -> IF els[1].method = "CONNECT" THEN <<"200">> ELSE <<>>
      [] mode = "Shadowsocks" -> <<"salt">>
      [] OTHER -> <<>>

Payload(messages) ==
    LET charged == SelectSeq(messages, Charged) IN
    FlattenSeq([i \in DOMAIN charged |-> charged[i].data])

Answers == LET replies == SelectSeq(log, LAMBDA e : "reply" \in DOMAIN e) IN [i \in DOMAIN replies |-> replies[i].reply]
Received == LET data == SelectSeq(log, LAMBDA e : "n" \in DOMAIN e) IN [i \in DOMAIN data |-> data[i].n]

\* Writing the answer that grants the connection has failed: the status says
\* that it runs, the client never learns of it
GrantLost == ctx.status \in {"RunTCP", "Running"} /\ conn # "open" /\ Answers # Greeted

\* A session sends its outlet the connect its client asks for, at most once,
\* and after it the client's payload, every part of it once and in order, none
\* before the client has proved who it is and none after the goodbye: however
\* the stream was cut into reads, whatever came together with the request or
\* before the outlet's answer, and whoever ends the session (OnPeerData,
\* onConnectReply, flushPendingPayloads, Feed).  Only when the client has gone
\* and its grant could not be written is what was buffered left out, while a
\* read that came later may still be sent on.
Faithful ==
    LET Is(type) == {i \in DOMAIN i2o : i2o[i].type = type} IN
    /\ \A i \in Is("I2OConnect") : i2o[i] = Asked /\ Is("I2OConnect") = {i}
    /\ IsPrefix(Payload(i2o), Handed) \/ GrantLost
    /\ \A i \in DOMAIN i2o : Charged(i2o[i]) =>
          /\ \E j \in Is("I2OConnect") : j < i
          /\ \A j \in Is("I2ODisconnect") : i < j
    /\ ~OverTCP \/ Associates => \A i \in DOMAIN i2o : Charged(i2o[i]) => Len(i2o[i].data) = 1

\* A client gets the target's payload in order and only after all the answers
\* its protocol promises before it; it is never told that a connection stands
\* that it may not have; and what was written to it is what was acknowledged
\* (onConnectReply, OnProxyMessage).
ClientView ==
    LET Granted == Len(Greeted) > 0 /\ Len(Answers) >= Len(Greeted) /\ IsPrefix(Greeted, Answers)
        results == SelectSeq(i2o \o todo, LAMBDA m : m.type = "I2ORecvDataResult") IN
    /\ Granted => Answers = Greeted
    /\ Received # <<>> => Asked # None /\ Answers = Greeted /\ "reply" \notin DOMAIN log[Len(log)]
    /\ Granted => Asked # None
    /\ \A i \in DOMAIN Received : IF Associates THEN i > 1 => Received[i] > Received[i - 1] ELSE Received[i] = i
    /\ [i \in DOMAIN results |-> results[i].n] = Received

\* A shutdown comes to its end: nobody keeps ctxMu waiting for credit, and the
\* reader of the associated socket that OnStop waits for gets out of its read
\* and of the window (shutdown, Socks5Context.OnStop).
EndsInFull == life = "removed" ~> life = "done"

\* A client that is refused is told so and let go: its connection is closed
\* and the session ends (replyCommandError, CloseLater, handleProxyMessage).
RefusalEnds ==
    (Len(Answers) > 0 /\ Last(Answers) \in {"unavailable", "denied", "unsupported", "failed", "407", "502"})
        ~> (conn = "closed" /\ life = "done")

\* All the payload reaches the outlet unless somebody ends the session: none
\* stays behind in a buffer of the context.
AllHanded == <>[](life # "live" \/ conn # "open" \/ Payload(i2o) = Handed)
=============================================================================
