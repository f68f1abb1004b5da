-------------------------------- MODULE Wire --------------------------------
(***************************************************************************)
(* One direction of a control connection between client and server: from   *)
(* the goroutines that send, through the server's write queue and write    *)
(* loop (server/session.go) or the client's write mutex (client/client.go),*)
(* over a byte stream or websocket messages that arrive in any pieces, to  *)
(* the read loop of the other side, its cache, and the messages it hands   *)
(* on.  The data of a datagram message stay a slice of that cache while    *)
(* the message waits in a session's queue (proto/helpers.go readBytes).    *)
(***************************************************************************)
EXTENDS Codec, FiniteSets

\* A RegisterReq comes from no client in this repository, the server answers it.
ClientTypes ==
    {"LoginReq", "RegisterReq", "Ping", "TunnelRuntimeReport", "UpgradeStatusReport"} \cup ProxyTypes
ServerTypes ==
    {"LoginAck", "Error", "Success", "Pong", "ModifyTunnelNtf", "UpgradeOffer", "UpgradeChunk"}
      \cup ProxyTypes

CONSTANTS
    Senders,       \* goroutines of the client that send
    MaxSends,      \* bound: messages sent
    First,         \* side -> what its first message may be
    Behind,        \* bound: what a later message may be
    Led,           \* bound: messages behind which another is sent
    Cut(_),        \* sizes that one read or write of so many cells may have
    QueueCap,      \* packets the server's write queue holds: 1024
    MaxFrame,      \* cells of the longest frame plus one, by reader: 2 and 5 MB
    InitialCap,    \* cells of the first cache: 64 KB
    CompactAt,     \* cells of a cache that is not worth compacting: 256 KB
    Buffers,       \* memory of the reader: enough for the cache and every slice
    None

ASSUME WireAssumption ==
    /\ MaxSends \in Nat /\ QueueCap \in Nat \ {0}
    /\ InitialCap \in Nat \ {0} /\ CompactAt \in Nat
    /\ MaxFrame.client \in Nat /\ MaxFrame.server \in Nat
    /\ IsFiniteSet(Buffers) /\ Cardinality(Buffers) >= MaxSends + 2
    /\ None \notin Senders \cup Buffers
    /\ \A m \in First.client : Sendable(m) /\ m.type \in ClientTypes
    /\ \A m \in First.server : Sendable(m) /\ m.type \in ServerTypes
    /\ \A m \in Behind : Sendable(m) /\ m.type \in ProxyTypes

VARIABLES
    side,      \* who writes: the client or the server
    net,       \* "stream" (TCP, TLS, KCP, QUIC), "ws"
    sends,     \* sends begun
    sent,      \* messages whose packet was queued, or written or being written
    queue,     \* the server's write queue
    writing,   \* sender -> what it still has to write
    writeMu,   \* the client's sender that holds writeMu
    wire,      \* chunks under way
    conn,      \* "up", "closed" by the writing side
    broken,    \* a write failed and the transport refuses every later one
    torn,      \* part of a packet was written and the connection goes on
    mem,       \* reader's buffers: capacity and cells
    cache,     \* slice of the cells that make no frame yet: buffer, from, to
    reader,    \* "read", "extract", "gone"
    handed,    \* messages decoded
    pending    \* queued datagrams: where their data lie, and what they were

senderVars == <<sends, sent, queue, writing, writeMu, broken, torn>>
readerVars == <<mem, cache, reader, handed, pending>>
vars == <<side, net, senderVars, wire, conn, readerVars>>

-----------------------------------------------------------------------------
\* What a proxy message is before BridgeToPB
Held(message) == IF message.type \in ProxyTypes THEN BridgeFromPB(message) ELSE message

\* Their data are kept as slices of the cache until the session takes them.
Datagrams == {"I2OSendToData", "O2IRecvDataFrom"}

Offered ==
    IF sends = 0 THEN First[side] ELSE {m \in Behind : \A k \in DOMAIN sent : sent[k].msg \in Led}

\* Requests have negative serials, answers the serial of their request, pushes 0.
Serial(type) ==
    CASE type \in {"LoginReq", "RegisterReq"} -> -1
      [] type = "Ping" -> -2
      [] type \in {"LoginAck", "Error", "Success"} -> 1
      [] type = "Pong" -> 2
      [] OTHER -> 0

\* The server's write loop
Loop == "loop"

Entry(message) == [serial |-> Serial(message.type), msg |-> message]

Packet(message) ==
    Encode(Serial(message.type), IF message.type \in ProxyTypes THEN BridgeToPB(message) ELSE message)

Init ==
    /\ side \in {"client", "server"} /\ net \in {"stream", "ws"}
    /\ sends = 0 /\ sent = <<>> /\ queue = <<>>
    /\ writing = [s \in Senders \cup {Loop} |-> <<>>] /\ writeMu = None
    /\ wire = <<>> /\ conn = "up" /\ broken = FALSE /\ torn = FALSE
    /\ cache = [buf |-> CHOOSE b \in Buffers : TRUE, from |-> 0, to |-> 0]
    /\ mem = [b \in Buffers |-> [cap |-> IF b = cache.buf THEN InitialCap ELSE 0, cells |-> <<>>]]
    /\ reader = "read" /\ handed = <<>> /\ pending = <<>>

-----------------------------------------------------------------------------
\* The writing side

\* A websocket write is one message, any other joins the stream.
Transmit(cells) ==
    wire' = IF net = "ws" \/ wire = <<>> THEN Append(wire, cells) ELSE <<wire[1] \o cells>>

\* A transport may take a part at a time (writeAll goes on with the rest),
\* a websocket connection takes a packet whole.
Parts(cells) == IF net = "ws" THEN {Len(cells)} ELSE Cut(Len(cells)) \cap 1 .. Len(cells)

\* The client's send: encode, take writeMu.
Send(s, m) ==
    /\ side = "client" /\ sends < MaxSends /\ writing[s] = <<>>
    /\ sends' = sends + 1
    /\ \/ /\ conn = "up" /\ ~broken /\ writeMu = None
          /\ writeMu' = s
          /\ writing' = [writing EXCEPT ![s] = Packet(m)]
          /\ sent' = Append(sent, Entry(m))
       \/ /\ conn = "closed" \/ broken
          /\ UNCHANGED <<writeMu, writing, sent>>
    /\ UNCHANGED <<side, net, queue, wire, conn, broken, torn, readerVars>>

\* writeAll: a write, after the last one writeMu is released.
Write(s) ==
    /\ writeMu = s /\ conn = "up"
    /\ \E n \in Parts(writing[s]) :
         /\ Transmit(SubSeq(writing[s], 1, n))
         /\ writing' = [writing EXCEPT ![s] = SubSeq(@, n + 1, Len(@))]
         /\ writeMu' = IF n = Len(writing[s]) THEN None ELSE s
    /\ UNCHANGED <<side, net, sends, sent, queue, conn, broken, torn, readerVars>>

\* Whether a failed send ends the client's session: a login or ping that fails
\* does, some reports of an upgrade do, and the proxy manager's messages and
\* runtime reports are given up with a line in the log.
Ends(type) ==
    CASE type \in {"LoginReq", "RegisterReq", "Ping"} -> {TRUE}
      [] type = "UpgradeStatusReport" -> BOOLEAN
      [] OTHER -> {FALSE}

\* A write times out, or the connection is closed under it.  A websocket or TLS
\* connection refuses every write after that, any other stream goes on behind
\* the part it took.
WriteFails(s) ==
    /\ writeMu = s
    /\ writing' = [writing EXCEPT ![s] = <<>>] /\ writeMu' = None
    /\ sent' = Front(sent)
    /\ broken' \in {TRUE, net = "ws"}
    /\ \E ends \in Ends(Last(sent).msg.type) :
         /\ conn' = IF ends THEN "closed" ELSE conn
         /\ torn' = (torn \/ (writing[s] # Packet(Last(sent).msg) /\ ~broken' /\ ~ends))
    /\ UNCHANGED <<side, net, sends, queue, wire, readerVars>>

\* The session ends: conn.Close and writeQueue.Close, which clears the slots
\* but keeps their number.
Closed == conn' = "closed" /\ queue' = [k \in DOMAIN queue |-> <<>>]

\* The server's enqueue.  Whoever finds the queue full closes the session, the
\* server's own proxy manager gives its message up.
Enqueue(m) ==
    /\ side = "server" /\ sends < MaxSends
    /\ sends' = sends + 1
    /\ \/ conn = "closed" /\ UNCHANGED <<conn, queue, sent>>
       \/ conn = "up" /\ Len(queue) >= QueueCap /\ Closed /\ UNCHANGED sent
       \/ /\ conn = "up" /\ Len(queue) >= QueueCap /\ m.type \in ProxyTypes
          /\ UNCHANGED <<conn, queue, sent>>
       \/ /\ conn = "up" /\ Len(queue) < QueueCap
          /\ queue' = Append(queue, Packet(m)) /\ sent' = Append(sent, Entry(m))
          /\ UNCHANGED conn
    /\ UNCHANGED <<side, net, writing, writeMu, wire, broken, torn, readerVars>>

\* writeLoop: the next packet; a slot cleared by Close is skipped.
LoopPops ==
    /\ side = "server" /\ queue # <<>> /\ writing[Loop] = <<>>
    /\ writing' = [writing EXCEPT ![Loop] = Head(queue)] /\ queue' = Tail(queue)
    /\ UNCHANGED <<side, net, sends, sent, writeMu, wire, conn, broken, torn, readerVars>>

LoopWrites ==
    /\ side = "server" /\ writing[Loop] # <<>> /\ conn = "up"
    /\ \E n \in Parts(writing[Loop]) :
         /\ Transmit(SubSeq(writing[Loop], 1, n))
         /\ writing' = [writing EXCEPT ![Loop] = SubSeq(@, n + 1, Len(@))]
    /\ UNCHANGED <<side, net, sends, sent, queue, writeMu, conn, broken, torn, readerVars>>

\* A write fails: the loop closes the session.
LoopFails ==
    /\ side = "server" /\ writing[Loop] # <<>>
    /\ writing' = [writing EXCEPT ![Loop] = <<>>] /\ Closed
    /\ UNCHANGED <<side, net, sends, sent, writeMu, wire, broken, torn, readerVars>>

\* The session of the writing side ends for another reason.
Close ==
    /\ conn = "up" /\ Closed
    /\ UNCHANGED <<side, net, sends, sent, writing, writeMu, wire, broken, torn, readerVars>>

-----------------------------------------------------------------------------
\* The reading side
ReadSide == IF side = "client" THEN "server" ELSE "client"

Cells(slice) ==
    IF slice.buf = None THEN <<>> ELSE SubSeq(mem[slice.buf].cells, slice.from + 1, slice.to)
Nil == [buf |-> None, from |-> 0, to |-> 0]
CapOf(slice) == IF slice.buf = None THEN 0 ELSE mem[slice.buf].cap - slice.from

InUse(b) == cache.buf = b \/ \E k \in DOMAIN pending : pending[k].buf = b
Fresh == CHOOSE b \in Buffers : ~InUse(b)

\* Memory that no slice uses any more is given back.
Collect(m, slice, waiting) ==
    [b \in Buffers |->
       IF slice.buf = b \/ \E k \in DOMAIN waiting : waiting[k].buf = b
       THEN m[b] ELSE [cap |-> 0, cells |-> <<>>]]

\* append(cache, ...): in place behind the slice while its capacity lasts, else
\* into a new array, here of twice the capacity or what is needed (a large one
\* grows by less than that; only when the cache is compacted depends on it).
AppendTo(slice, more) ==
    LET len == slice.to - slice.from + Len(more)
    IN  IF len <= CapOf(slice)
        THEN [m |-> [mem EXCEPT ![slice.buf].cells = SubSeq(@, 1, slice.to) \o more],
              slice |-> [slice EXCEPT !.to = @ + Len(more)]]
        ELSE [m |-> [mem EXCEPT ![Fresh] =
                       [cap |-> IF 2 * CapOf(slice) > len THEN 2 * CapOf(slice) ELSE len,
                        cells |-> Cells(slice) \o more]],
              slice |-> [buf |-> Fresh, from |-> 0, to |-> len]]

\* Mutant of Compact: the cells are moved to the front of the same array
CompactInPlace(slice) ==
    IF slice.to = slice.from THEN [m |-> mem, slice |-> [slice EXCEPT !.from = 0, !.to = 0]]
    ELSE [m |-> [mem EXCEPT ![slice.buf].cells = Cells(slice) \o SubSeq(@, slice.to - slice.from + 1, Len(@))],
          slice |-> [slice EXCEPT !.from = 0, !.to = slice.to - slice.from]]

\* compactReadCache: nothing is kept of an empty cache, and little in a large
\* array is copied out of it.
Compact(slice) ==
    LET len == slice.to - slice.from
    IN  IF len = 0 THEN [m |-> mem, slice |-> Nil]
        ELSE IF CapOf(slice) <= CompactAt \/ len * 4 >= CapOf(slice) THEN [m |-> mem, slice |-> slice]
        ELSE [m |-> [mem EXCEPT ![Fresh] = [cap |-> len, cells |-> Cells(slice)]],
              slice |-> [buf |-> Fresh, from |-> 0, to |-> len]]

\* A read returns part of what has arrived, of one websocket message at most.
Read ==
    /\ reader = "read" /\ ~torn /\ wire # <<>>
    /\ \E n \in Cut(Len(wire[1])) \cap 1 .. Len(wire[1]) :
         LET after == AppendTo(cache, SubSeq(wire[1], 1, n))
         IN  /\ wire' = IF n = Len(wire[1]) THEN Tail(wire)
                        ELSE [wire EXCEPT ![1] = SubSeq(@, n + 1, Len(@))]
             /\ cache' = after.slice /\ mem' = Collect(after.m, after.slice, pending)
    /\ reader' = "extract"
    /\ UNCHANGED <<side, net, senderVars, conn, handed, pending>>

\* End of stream, or what was under way is lost with the connection.
ReadFails ==
    /\ reader = "read" /\ conn = "closed"
    /\ reader' = "gone"
    /\ UNCHANGED <<side, net, senderVars, wire, conn, mem, cache, handed, pending>>

Found == TryExtractFrame(Cells(cache), MaxFrame[ReadSide])

\* No complete frame: back to reading.
Incomplete ==
    /\ reader = "extract" /\ ~torn /\ Found.kind = "none"
    /\ LET kept == Compact(cache)
       IN  cache' = kept.slice /\ mem' = Collect(kept.m, kept.slice, pending)
    /\ reader' = "read"
    /\ UNCHANGED <<side, net, senderVars, wire, conn, handed, pending>>

\* Where the data of a datagram are in the frame at the front of the cache
DataAt(frame) ==
    {k \in 2 .. Len(frame) : \E f \in Codecs[TypeOf(frame[1].id)].in :
       f.num = frame[k].field.num /\ f.name = "Data"}

\* A frame: what follows it stays in the cache; decode it and hand it on.
Frame ==
    /\ reader = "extract" /\ ~torn /\ Found.kind = "frame"
    /\ \E frame \in {Found.frame} :
         LET entry == Decode(frame)
             kept == Compact([cache EXCEPT !.from = @ + 2 + Len(frame)])
             refs == IF entry.msg.type \in Datagrams THEN DataAt(frame) ELSE {}
             ref(k) == [buf |-> cache.buf, at |-> cache.from + 2 + k, want |-> frame[k].field.val]
         IN  /\ handed' = Append(handed, [entry EXCEPT !.msg = Held(@)])
             /\ pending' = IF refs = {} THEN pending ELSE Append(pending, ref(CHOOSE k \in refs : TRUE))
             /\ cache' = kept.slice
             /\ mem' = Collect(kept.m, kept.slice, pending')
    /\ UNCHANGED <<side, net, senderVars, wire, conn, reader>>

\* A frame that is too long ends the read loop and with it the session.
BadFrameEnds ==
    /\ reader = "extract" /\ ~torn /\ Found.kind = "error"
    /\ reader' = "gone" /\ Closed
    /\ UNCHANGED <<side, net, sends, sent, writing, writeMu, broken, torn, wire, mem, cache, handed, pending>>

\* Behind a torn packet the reader takes the bytes of one packet for those of
\* another.  What it makes of them is not followed here, until the session ends.
Misread ==
    /\ torn /\ reader # "gone"
    /\ reader' = "gone" /\ Closed
    /\ UNCHANGED <<side, net, sends, sent, writing, writeMu, broken, torn, wire, mem, cache, handed, pending>>

\* The session's worker takes a queued datagram and reads its data.
Consume ==
    /\ pending # <<>>
    /\ pending' = Tail(pending)
    /\ mem' = Collect(mem, cache, pending')
    /\ UNCHANGED <<side, net, senderVars, wire, conn, cache, reader, handed>>

Next ==
    \/ \E s \in Senders : Write(s) \/ WriteFails(s) \/ \E m \in Offered : Send(s, m)
    \/ \E m \in Offered : Enqueue(m)
    \/ LoopPops \/ LoopWrites \/ LoopFails \/ Close
    \/ Read \/ ReadFails \/ Incomplete \/ Frame \/ BadFrameEnds \/ Misread \/ Consume

Spec == Init /\ [][Next]_vars

\* Writers and readers that can go on do: a transport takes and delivers bytes.
Fairness ==
    /\ \A s \in Senders : WF_vars(Write(s))
    /\ WF_vars(LoopPops) /\ WF_vars(LoopWrites)
    /\ WF_vars(Read) /\ WF_vars(Incomplete) /\ WF_vars(Frame) /\ WF_vars(BadFrameEnds)

FairSpec == Spec /\ Fairness

-----------------------------------------------------------------------------
\* What was sent, as a reader understands it
Understood(entry) == [entry EXCEPT !.msg = SenseOf(@)]

\* Unless a client's packet was torn, what the reader hands on is what was sent,
\* in order and field by field, however the bytes were cut and whichever
\* goroutine wrote them (codec/frame.go, proto, session.go:239, client.go:355).
\* The exception: a nested message that is all zero, as the endpoint the server
\* sends of a tunnel that has none (session.go:568), is handed on as nil
\* (helpers.go:58), which its readers take for the same (proxy/manager.go:278).
Faithful == ~torn => IsPrefix(handed, [k \in DOMAIN sent |-> Understood(sent[k])])

\* The data of a datagram that waits in a queue are what they were when it was
\* decoded, although they lie in the read loop's own cache (messages_generic.go:316).
Stable ==
    \A k \in DOMAIN pending : mem[pending[k].buf].cells[pending[k].at].field.val = pending[k].want

\* Every message sent is handed on, unless its write fails, the connection ends
\* or a packet was torn: no frame is left behind in the cache (session.go:264-279).
Arrives ==
    \A n \in 1 .. MaxSends :
      Len(sent) >= n
        ~> Len(handed) >= n \/ Len(sent) < n \/ conn = "closed" \/ torn \/ reader = "gone"
=============================================================================
