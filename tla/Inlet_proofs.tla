---------------------------- MODULE Inlet_proofs ----------------------------
(***************************************************************************)
(* Proofs about Inlet, for any number of connections, any slot limit,      *)
(* queue capacity and window, and against any outlet (AnyOutlet).          *)
(***************************************************************************)
EXTENDS Inlet, FiniteSetTheorems, SequenceTheorems, TLAPS

\* A message that is written to the client is a payload (context.go:99-112).
LEMMA PayloadHasNumber ==
    ASSUME NEW m \in InMessages, m.type = "O2IRecvData"
    PROVE  m.n \in Nat
BY DEF InMessages

\* What the types rest on: the accept loop has a connection in hand between
\* accept and hand-over, the message loop a message between Pop and its end.
InHand ==
    /\ acc \in {"reserve", "spawn"} => accConn \in Ids
    /\ \A c \in Ids : loop[c] \in {"lock", "write"} => cur[c] \in InMessages
    /\ \A c \in Ids : loop[c] = "write" => cur[c].type = "O2IRecvData"
    /\ o2i \in Seq(InMessages)

Typed == TypeOK /\ InHand

LEMMA TypedInit == Init => Typed
<1> SUFFICES ASSUME Init PROVE Typed
  OBVIOUS
<1> USE DEF Init
<1>1. stopPc \in {"no"} /\ slots \in 0 .. MaxSlots /\ flow \in [Ids -> 0 .. Window] /\ up \in [Ids -> 0 .. MaxUp]
  BY InletAssumption
<1>2. inputQ \in [Ids -> Seq(InMessages)] /\ o2i \in Seq(InMessages) /\ down \in [Ids -> Seq(Nat)]
  OBVIOUS
<1>3. \A c \in Ids : Len(inputQ[c]) <= QueueCap
  BY InletAssumption
<1>4. sess \in [Ids -> Phases]
  BY DEF Phases
<1> QED BY <1>1, <1>2, <1>3, <1>4 DEF Typed, TypeOK, InHand

-----------------------------------------------------------------------------
\* What closeSession and releaseSessionSlot change keeps its type (inlet.go:474, 578).
LEMMA ClosingTypes ==
    ASSUME TypeOK, NEW c \in Ids
    PROVE  /\ ReleaseSlot => slots' \in 0 .. MaxSlots
           /\ \A who \in {"main", "loop", "input"} :
                Remove(c, who) => sess' \in [Ids -> Phases] /\ by' \in [Ids -> {"nobody", "main", "loop", "input", "stop"}]
           /\ MainCloses(c) =>
                /\ sess' \in [Ids -> Phases]
                /\ by' \in [Ids -> {"nobody", "main", "loop", "input", "stop"}]
                /\ main' \in [Ids -> {"none", "insert", "spawn", "start", "await", "read", "lock",
                                      "credit", "shutting", "gone"}]
           /\ LoopCloses(c) =>
                /\ sess' \in [Ids -> Phases]
                /\ by' \in [Ids -> {"nobody", "main", "loop", "input", "stop"}]
                /\ loop' \in [Ids -> {"none", "pop", "lock", "write", "shutting", "gone"}]
                /\ \A d \in Ids : loop'[d] \in {"lock", "write"} => d # c /\ loop'[d] = loop[d]
<1> USE DEF TypeOK
<1>1. ReleaseSlot => slots' \in 0 .. MaxSlots
  BY InletAssumption DEF ReleaseSlot
<1>2. ASSUME NEW who \in {"main", "loop", "input"}, Remove(c, who)
      PROVE  sess' \in [Ids -> Phases] /\ by' \in [Ids -> {"nobody", "main", "loop", "input", "stop"}]
  BY <1>2 DEF Remove, Phases, ShutdownPhases
<1>3. UNCHANGED sessVars =>
        sess' \in [Ids -> Phases] /\ by' \in [Ids -> {"nobody", "main", "loop", "input", "stop"}]
  BY DEF sessVars
<1>4. ASSUME MainCloses(c)
      PROVE  main' \in [Ids -> {"none", "insert", "spawn", "start", "await", "read", "lock",
                                "credit", "shutting", "gone"}]
  BY <1>4 DEF MainCloses
<1>5. ASSUME LoopCloses(c)
      PROVE  /\ loop' \in [Ids -> {"none", "pop", "lock", "write", "shutting", "gone"}]
             /\ \A d \in Ids : loop'[d] \in {"lock", "write"} => d # c /\ loop'[d] = loop[d]
  BY <1>5 DEF LoopCloses
<1>6. MainCloses(c) => Remove(c, "main") \/ UNCHANGED sessVars
  BY DEF MainCloses
<1>7. LoopCloses(c) => Remove(c, "loop") \/ UNCHANGED sessVars
  BY DEF LoopCloses
<1> HIDE DEF TypeOK
<1> QED BY <1>1, <1>2, <1>3, <1>4, <1>5, <1>6, <1>7

\* The types in two halves: where each goroutine is, and what it works on
Control ==
    /\ stopPc \in {"no", "begun", "marked", "closing", "returned"}
    /\ acc \in {"accept", "reserve", "spawn", "gone"}
    /\ accConn \in Ids \cup {None}
    /\ slots \in 0 .. MaxSlots
    /\ sess \in [Ids -> Phases]
    /\ by \in [Ids -> {"nobody", "main", "loop", "input", "stop"}]
    /\ main \in [Ids -> {"none", "insert", "spawn", "start", "await", "read", "lock",
                         "credit", "shutting", "gone"}]
    /\ loop \in [Ids -> {"none", "pop", "lock", "write", "shutting", "gone"}]
    /\ ctxMu \in [Ids -> {"free", "main", "loop"}]
    /\ ready \in [Ids -> BOOLEAN]
    /\ conn \in [Ids -> {"none", "open", "hungup", "closed"}]

Data ==
    /\ cur \in [Ids -> InMessages \cup {None}]
    /\ flow \in [Ids -> 0 .. Window]
    /\ inputQ \in [Ids -> Seq(InMessages)] /\ \A c \in Ids : Len(inputQ[c]) <= QueueCap
    /\ up \in [Ids -> 0 .. MaxUp] /\ down \in [Ids -> Seq(Nat)]

LEMMA TypedParts == (Typed <=> Control /\ Data /\ InHand) /\ (Typed' <=> Control' /\ Data' /\ InHand')
BY DEF Typed, TypeOK, Control, Data

LEMMA TypedStep == Typed /\ [Next \/ AnyOutlet]_vars => Typed'
<1> SUFFICES ASSUME Typed, [Next \/ AnyOutlet]_vars PROVE Typed'
  OBVIOUS
<1>0. Control /\ Data /\ InHand /\ TypeOK
  BY TypedParts DEF Typed
<1> USE InletAssumption, <1>0 DEF stopVars, sessVars, goVars, dataVars
<1>1. ASSUME NEW c \in Ids, Accept(c) PROVE Typed'
  <2>1. Control' BY <1>1 DEF Control, Phases, ShutdownPhases, Accept
  <2>2. Data' BY <1>1 DEF Data, Accept
  <2>3. InHand' BY <1>1 DEF InHand, Control, Data, Accept
  <2> QED BY <2>1, <2>2, <2>3, TypedParts
<1>2. ASSUME NEW c \in Ids, MainStep(c) PROVE Typed'
  <2>1. CASE Insert(c)
    <3>1. CASE Stopped
      <4>1. Control' BY <2>1, <3>1, ClosingTypes DEF Control, Phases, ShutdownPhases, Insert
      <4>2. Data' BY <2>1, <3>1, ClosingTypes DEF Data, Insert
      <4>3. InHand' BY <2>1, <3>1, ClosingTypes DEF InHand, Control, Data, Insert
      <4> QED BY <4>1, <4>2, <4>3, TypedParts
    <3>2. CASE ~Stopped
      <4>1. Control' BY <2>1, <3>2 DEF Control, Phases, ShutdownPhases, Insert
      <4>2. Data' BY <2>1, <3>2 DEF Data, Insert
      <4>3. InHand' BY <2>1, <3>2 DEF InHand, Control, Data, Insert
      <4> QED BY <4>1, <4>2, <4>3, TypedParts
    <3> QED BY <3>1, <3>2
  <2>2. CASE StartLoop(c)
    <3>1. CASE Stopped
      <4>1. Control' BY <2>2, <3>1, ClosingTypes DEF Control, Phases, ShutdownPhases, StartLoop
      <4>2. Data' BY <2>2, <3>1, ClosingTypes DEF Data, StartLoop
      <4>3. InHand' BY <2>2, <3>1, ClosingTypes DEF InHand, Control, Data, StartLoop
      <4> QED BY <4>1, <4>2, <4>3, TypedParts
    <3>2. CASE ~Stopped
      <4>1. Control' BY <2>2, <3>2 DEF Control, Phases, ShutdownPhases, StartLoop
      <4>2. Data' BY <2>2, <3>2 DEF Data, StartLoop
      <4>3. InHand' BY <2>2, <3>2 DEF InHand, Control, Data, StartLoop
      <4> QED BY <4>1, <4>2, <4>3, TypedParts
    <3> QED BY <3>1, <3>2
  <2>3. CASE OnStart(c)
    <3>1. Control' BY <2>3, ClosingTypes DEF Control, Phases, ShutdownPhases, OnStart
    <3>2. Data' BY <2>3, ClosingTypes DEF Data, OnStart
    <3>3. InHand' BY <2>3, ClosingTypes DEF InHand, Control, Data, OnStart
    <3> QED BY <3>1, <3>2, <3>3, TypedParts
  <2>4. CASE AwaitReady(c)
    <3>1. Control' BY <2>4 DEF Control, Phases, ShutdownPhases, AwaitReady
    <3>2. Data' BY <2>4 DEF Data, AwaitReady
    <3>3. InHand' BY <2>4 DEF InHand, Control, Data, AwaitReady
    <3> QED BY <3>1, <3>2, <3>3, TypedParts
  <2>5. CASE AwaitFails(c)
    <3>1. Control' BY <2>5, ClosingTypes DEF Control, Phases, ShutdownPhases, AwaitFails
    <3>2. Data' BY <2>5, ClosingTypes DEF Data, AwaitFails
    <3>3. InHand' BY <2>5, ClosingTypes DEF InHand, Control, Data, AwaitFails
    <3> QED BY <3>1, <3>2, <3>3, TypedParts
  <2>6. CASE ReadFails(c)
    <3>1. Control' BY <2>6, ClosingTypes DEF Control, Phases, ShutdownPhases, ReadFails
    <3>2. Data' BY <2>6, ClosingTypes DEF Data, ReadFails
    <3>3. InHand' BY <2>6, ClosingTypes DEF InHand, Control, Data, ReadFails
    <3> QED BY <3>1, <3>2, <3>3, TypedParts
  <2>7. CASE LockPeerData(c)
    <3>1. Control' BY <2>7 DEF Control, Phases, ShutdownPhases, LockPeerData
    <3>2. Data' BY <2>7 DEF Data, LockPeerData
    <3>3. InHand' BY <2>7 DEF InHand, Control, Data, LockPeerData
    <3> QED BY <3>1, <3>2, <3>3, TypedParts
  <2>8. CASE SendPeerData(c)
    <3>1. flow' \in [Ids -> 0 .. Window] BY <2>8 DEF SendPeerData, Data
    <3>11. Control' BY <2>8, <3>1 DEF Control, Phases, ShutdownPhases, SendPeerData
    <3>12. Data' BY <2>8, <3>1 DEF Data, SendPeerData
    <3>13. InHand' BY <2>8, <3>1 DEF InHand, Control, Data, SendPeerData
    <3> QED BY <3>11, <3>12, <3>13, TypedParts
  <2>9. CASE PeerDataFails(c)
    <3>1. Control' BY <2>9, ClosingTypes DEF Control, Phases, ShutdownPhases, PeerDataFails
    <3>2. Data' BY <2>9, ClosingTypes DEF Data, PeerDataFails
    <3>3. InHand' BY <2>9, ClosingTypes DEF InHand, Control, Data, PeerDataFails
    <3> QED BY <3>1, <3>2, <3>3, TypedParts
  <2> QED BY <1>2, <2>1, <2>2, <2>3, <2>4, <2>5, <2>6, <2>7, <2>8, <2>9 DEF MainStep
<1>3. ASSUME NEW c \in Ids, ReadPayload(c) PROVE Typed'
  <2>1. Control' BY <1>3 DEF Control, Phases, ShutdownPhases, ReadPayload
  <2>2. Data' BY <1>3 DEF Data, ReadPayload
  <2>3. InHand' BY <1>3 DEF InHand, Control, Data, ReadPayload
  <2> QED BY <2>1, <2>2, <2>3, TypedParts
<1>4. ASSUME NEW c \in Ids, LoopStep(c) PROVE Typed'
  <2>1. CASE Pop(c)
    <3>1. CASE inputQ[c] # <<>>
      <4>1. /\ Head(inputQ[c]) \in InMessages
            /\ Tail(inputQ[c]) \in Seq(InMessages) /\ Len(Tail(inputQ[c])) <= QueueCap
        BY <3>1, HeadTailProperties, LenProperties DEF Data
      <4>0. /\ cur' = [cur EXCEPT ![c] = Head(inputQ[c])]
            /\ inputQ' = [inputQ EXCEPT ![c] = Tail(inputQ[c])]
        BY <2>1, <3>1 DEF Pop
      <4>2. cur' \in [Ids -> InMessages \cup {None}] /\ cur'[c] \in InMessages
        BY <4>0, <4>1 DEF Data
      <4>3. inputQ' \in [Ids -> Seq(InMessages)] /\ \A d \in Ids : Len(inputQ'[d]) <= QueueCap
        BY <4>0, <4>1 DEF Data
      <4>4. loop' = [loop EXCEPT ![c] = "lock"] /\ \A d \in Ids \ {c} : cur'[d] = cur[d]
        BY <2>1, <3>1 DEF Pop, Control, Data
      <4>5. \A d \in Ids :
              /\ loop'[d] \in {"lock", "write"} => cur'[d] \in InMessages
              /\ loop'[d] = "write" => cur'[d].type = "O2IRecvData"
        BY <4>2, <4>4 DEF InHand, Control
      <4>11. Control' BY <2>1, <4>2, <4>3, <4>4, <4>5 DEF Control, Phases, ShutdownPhases, Pop
      <4>12. Data' BY <2>1, <4>2, <4>3, <4>4, <4>5 DEF Data, Pop
      <4>13. InHand' BY <2>1, <4>2, <4>3, <4>4, <4>5 DEF InHand, Control, Data, Pop
      <4> QED BY <4>11, <4>12, <4>13, TypedParts
    <3>2. CASE inputQ[c] = <<>>
      <4>1. Control' BY <2>1, <3>2 DEF Control, Phases, ShutdownPhases, Pop
      <4>2. Data' BY <2>1, <3>2 DEF Data, Pop
      <4>3. InHand' BY <2>1, <3>2 DEF InHand, Control, Data, Pop
      <4> QED BY <4>1, <4>2, <4>3, TypedParts
    <3> QED BY <3>1, <3>2
  <2>2. CASE OnConnected(c)
    <3>1. Control' BY <2>2 DEF Control, Phases, ShutdownPhases, OnConnected
    <3>2. Data' BY <2>2 DEF Data, OnConnected
    <3>3. InHand' BY <2>2 DEF InHand, Control, Data, OnConnected
    <3> QED BY <3>1, <3>2, <3>3, TypedParts
  <2>3. CASE OnRefusedOrDisconnect(c)
    <3>1. Control' BY <2>3, ClosingTypes DEF Control, Phases, ShutdownPhases, OnRefusedOrDisconnect
    <3>2. Data' BY <2>3, ClosingTypes DEF Data, OnRefusedOrDisconnect
    <3>3. InHand' BY <2>3, ClosingTypes DEF InHand, Control, Data, OnRefusedOrDisconnect
    <3> QED BY <3>1, <3>2, <3>3, TypedParts
  <2>4. CASE OnRecvData(c)
    <3>1. Control' BY <2>4 DEF Control, Phases, ShutdownPhases, OnRecvData
    <3>2. Data' BY <2>4 DEF Data, OnRecvData
    <3>3. InHand' BY <2>4 DEF InHand, Control, Data, OnRecvData
    <3> QED BY <3>1, <3>2, <3>3, TypedParts
  <2>5. CASE WriteDone(c)
    <3>1. Control' BY <2>5, PayloadHasNumber DEF Control, Phases, ShutdownPhases, WriteDone
    <3>0. cur[c] \in InMessages /\ cur[c].n \in Nat BY <2>5, PayloadHasNumber DEF InHand, WriteDone
    <3>2. Data' BY <2>5, <3>0 DEF Data, WriteDone
    <3>3. InHand' BY <2>5, PayloadHasNumber DEF InHand, Control, Data, WriteDone
    <3> QED BY <3>1, <3>2, <3>3, TypedParts
  <2>6. CASE WriteFails(c)
    <3>1. Control' BY <2>6, ClosingTypes DEF Control, Phases, ShutdownPhases, WriteFails
    <3>2. Data' BY <2>6, ClosingTypes DEF Data, WriteFails
    <3>3. InHand' BY <2>6, ClosingTypes DEF InHand, Control, Data, WriteFails
    <3> QED BY <3>1, <3>2, <3>3, TypedParts
  <2> QED BY <1>4, <2>1, <2>2, <2>3, <2>4, <2>5, <2>6 DEF LoopStep
<1>5. ASSUME NEW c \in Ids, Shutdown(c) PROVE Typed'
  <2>1. CASE ShutClose(c)
    <3>1. Control' BY <2>1 DEF Control, Phases, ShutdownPhases, ShutClose
    <3>2. Data' BY <2>1 DEF Data, ShutClose
    <3>3. InHand' BY <2>1 DEF InHand, Control, Data, ShutClose
    <3> QED BY <3>1, <3>2, <3>3, TypedParts
  <2>2. CASE ShutBye(c)
    <3>1. Control' BY <2>2 DEF Control, Phases, ShutdownPhases, ShutBye
    <3>2. Data' BY <2>2 DEF Data, ShutBye
    <3>3. InHand' BY <2>2 DEF InHand, Control, Data, ShutBye
    <3> QED BY <3>1, <3>2, <3>3, TypedParts
  <2>3. CASE ShutConn(c)
    <3>1. Control' BY <2>3 DEF Control, Phases, ShutdownPhases, ShutConn
    <3>2. Data' BY <2>3 DEF Data, ShutConn
    <3>3. InHand' BY <2>3 DEF InHand, Control, Data, ShutConn
    <3> QED BY <3>1, <3>2, <3>3, TypedParts
  <2>4. CASE ShutSlot(c)
    <3>1. Control' BY <2>4 DEF Control, Phases, ShutdownPhases, ShutSlot, ReleaseSlot
    <3>2. Data' BY <2>4 DEF Data, ShutSlot, ReleaseSlot
    <3>3. InHand' BY <2>4 DEF InHand, Control, Data, ShutSlot, ReleaseSlot
    <3> QED BY <3>1, <3>2, <3>3, TypedParts
  <2> QED BY <1>5, <2>1, <2>2, <2>3, <2>4 DEF Shutdown
<1>6. ASSUME NEW c \in Ids, ClientCloses(c) PROVE Typed'
  <2>1. Control' BY <1>6 DEF Control, Phases, ShutdownPhases, ClientCloses
  <2>2. Data' BY <1>6 DEF Data, ClientCloses
  <2>3. InHand' BY <1>6 DEF InHand, Control, Data, ClientCloses
  <2> QED BY <2>1, <2>2, <2>3, TypedParts
<1>7. CASE AcceptEnds
  <2>1. Control' BY <1>7 DEF Control, Phases, ShutdownPhases, AcceptEnds
  <2>2. Data' BY <1>7 DEF Data, AcceptEnds
  <2>3. InHand' BY <1>7 DEF InHand, Control, Data, AcceptEnds
  <2> QED BY <2>1, <2>2, <2>3, TypedParts
<1>8. CASE Reserve
  <2>1. accConn \in Ids /\ slots' \in 0 .. MaxSlots BY <1>8 DEF Reserve, InHand, Control
  <2>11. Control' BY <1>8, <2>1 DEF Control, Phases, ShutdownPhases, Reserve
  <2>12. Data' BY <1>8, <2>1 DEF Data, Reserve
  <2>13. InHand' BY <1>8, <2>1 DEF InHand, Control, Data, Reserve
  <2> QED BY <2>11, <2>12, <2>13, TypedParts
<1>9. CASE Spawn
  <2>1. accConn \in Ids /\ slots' \in 0 .. MaxSlots BY <1>9, ClosingTypes DEF Spawn, InHand, Control
  <2>11. Control' BY <1>9, <2>1 DEF Control, Phases, ShutdownPhases, Spawn
  <2>12. Data' BY <1>9, <2>1 DEF Data, Spawn
  <2>13. InHand' BY <1>9, <2>1 DEF InHand, Control, Data, Spawn
  <2> QED BY <2>11, <2>12, <2>13, TypedParts
<1>10. CASE Input
  <2>1. Head(o2i) \in InMessages /\ Head(o2i).id \in Ids /\ o2i' \in Seq(InMessages)
    BY <1>10, HeadTailProperties DEF Input, InMessages, InHand
  <2> DEFINE m == Head(o2i)
             c == m.id
  <2>2. CASE UNCHANGED <<sessVars, flow, inputQ>>
    <3>1. Control' BY <1>10, <2>1, <2>2 DEF Control, Phases, ShutdownPhases, Input
    <3>2. Data' BY <1>10, <2>1, <2>2 DEF Data, Input
    <3>3. InHand' BY <1>10, <2>1, <2>2 DEF InHand, Control, Data, Input
    <3> QED BY <3>1, <3>2, <3>3, TypedParts
  <2>3. CASE /\ flow' = [flow EXCEPT ![c] = IF @ = 0 THEN 0 ELSE @ - 1]
             /\ UNCHANGED <<sessVars, inputQ>>
    <3>1. flow' \in [Ids -> 0 .. Window] BY <2>1, <2>3 DEF Data
    <3>11. Control' BY <1>10, <2>1, <2>3, <3>1 DEF Control, Phases, ShutdownPhases, Input
    <3>12. Data' BY <1>10, <2>1, <2>3, <3>1 DEF Data, Input
    <3>13. InHand' BY <1>10, <2>1, <2>3, <3>1 DEF InHand, Control, Data, Input
    <3> QED BY <3>11, <3>12, <3>13, TypedParts
  <2>4. CASE /\ ~Full(c) /\ inputQ' = [inputQ EXCEPT ![c] = Append(@, m)]
             /\ UNCHANGED <<sessVars, flow>>
    <3>1. Append(inputQ[c], m) \in Seq(InMessages) /\ Len(Append(inputQ[c], m)) <= QueueCap
      BY <2>1, <2>4, LenProperties DEF Full, Data
    <3>11. Control' BY <1>10, <2>1, <2>4, <3>1 DEF Control, Phases, ShutdownPhases, Input
    <3>12. Data' BY <1>10, <2>1, <2>4, <3>1 DEF Data, Input
    <3>13. InHand' BY <1>10, <2>1, <2>4, <3>1 DEF InHand, Control, Data, Input
    <3> QED BY <3>11, <3>12, <3>13, TypedParts
  <2>5. CASE Overflow(c) /\ UNCHANGED <<flow, inputQ>>
    <3>1. Control' BY <1>10, <2>1, <2>5, ClosingTypes DEF Control, Phases, ShutdownPhases, Input, Overflow
    <3>2. Data' BY <1>10, <2>1, <2>5, ClosingTypes DEF Data, Input, Overflow
    <3>3. InHand' BY <1>10, <2>1, <2>5, ClosingTypes DEF InHand, Control, Data, Input, Overflow
    <3> QED BY <3>1, <3>2, <3>3, TypedParts
  <2> QED BY <1>10, <2>2, <2>3, <2>4, <2>5 DEF Input
<1>11. CASE StopBegin
  <2>1. Control' BY <1>11 DEF Control, Phases, ShutdownPhases, StopBegin
  <2>2. Data' BY <1>11 DEF Data, StopBegin
  <2>3. InHand' BY <1>11 DEF InHand, Control, Data, StopBegin
  <2> QED BY <2>1, <2>2, <2>3, TypedParts
<1>12. CASE StopMark
  <2>1. Control' BY <1>12 DEF Control, Phases, ShutdownPhases, StopMark
  <2>2. Data' BY <1>12 DEF Data, StopMark
  <2>3. InHand' BY <1>12 DEF InHand, Control, Data, StopMark
  <2> QED BY <2>1, <2>2, <2>3, TypedParts
<1>13. CASE StopListener
  <2>1. Control' BY <1>13 DEF Control, Phases, ShutdownPhases, StopListener
  <2>2. Data' BY <1>13 DEF Data, StopListener
  <2>3. InHand' BY <1>13 DEF InHand, Control, Data, StopListener
  <2> QED BY <2>1, <2>2, <2>3, TypedParts
<1>14. CASE StopReturn
  <2>1. Control' BY <1>14 DEF Control, Phases, ShutdownPhases, StopReturn
  <2>2. Data' BY <1>14 DEF Data, StopReturn
  <2>3. InHand' BY <1>14 DEF InHand, Control, Data, StopReturn
  <2> QED BY <2>1, <2>2, <2>3, TypedParts
<1>15. CASE AnyOutlet
  <2>1. o2i' \in Seq(InMessages)
    <3>1. ASSUME NEW m \in InMessages PROVE Append(o2i, m) \in Seq(InMessages)
      BY DEF InHand
    <3>2. o2i' = o2i \/ \E m \in InMessages : o2i' = Append(o2i, m)
      BY <1>15 DEF AnyOutlet
    <3> QED BY <3>1, <3>2 DEF InHand
  <2>11. Control' BY <1>15, <2>1 DEF Control, Phases, ShutdownPhases, AnyOutlet
  <2>12. Data' BY <1>15, <2>1 DEF Data, AnyOutlet
  <2>13. InHand' BY <1>15, <2>1 DEF InHand, Control, Data, AnyOutlet
  <2> QED BY <2>11, <2>12, <2>13, TypedParts
<1>16. CASE UNCHANGED vars
  <2>1. Control' BY <1>16 DEF Control, Phases, ShutdownPhases, vars
  <2>2. Data' BY <1>16 DEF Data, vars
  <2>3. InHand' BY <1>16 DEF InHand, Control, Data, vars
  <2> QED BY <2>1, <2>2, <2>3, TypedParts
<1> QED BY <1>1, <1>2, <1>3, <1>4, <1>5, <1>6, <1>7, <1>8, <1>9, <1>10, <1>11, <1>12, <1>13, <1>14,
           <1>15, <1>16 DEF Next

\* Every variable keeps its type; in particular no more than MaxSlots slots are
\* in use, no queue exceeds its capacity and no more than a window is under way.
THEOREM TypeCorrect == Spec => []TypeOK
<1>1. Typed => TypeOK
  BY DEF Typed
<1> QED BY <1>1, TypedInit, TypedStep, PTL DEF Spec
-----------------------------------------------------------------------------
\* Where a connection is before it has a session: in the hands of the accept
\* loop, then in those of its goroutine (inlet.go:195-238, 372-422).
Ownership ==
    /\ acc \in {"reserve", "spawn"} => main[accConn] = "none" /\ conn[accConn] # "none"
    /\ \A c \in Ids : conn[c] = "none" => main[c] = "none"
    /\ \A c \in Ids : main[c] \in {"none", "insert"} => sess[c] = "absent"

SlotInv == Typed /\ Ownership /\ SlotAccounting

\* A step in which no slot changes hands.
Quiet == slots' = slots /\ \A c \in Ids : Holds(c)' <=> Holds(c)

LEMMA QuietKeepsAccount == SlotAccounting /\ Quiet => SlotAccounting'
<1> SUFFICES ASSUME SlotAccounting, Quiet PROVE SlotAccounting'
  OBVIOUS
<1>1. Holders' = Holders
  BY DEF Quiet, Holders
<1> QED BY <1>1 DEF SlotAccounting, Quiet

\* Whoever holds a slot gives it back: the count follows.
LEMMA ReleaseKeepsAccount ==
    ASSUME Typed, SlotAccounting, NEW c \in Ids, Holds(c), ~Holds(c)', ReleaseSlot,
           \A d \in Ids \ {c} : Holds(d)' <=> Holds(d)
    PROVE  SlotAccounting'
<1>1. Holders' = Holders \ {c}
  BY DEF Holders
<1>2. IsFiniteSet(Holders) /\ c \in Holders
  BY InletAssumption, FS_Subset DEF Holders
<1>3. Cardinality(Holders') = Cardinality(Holders) - 1
  BY <1>1, <1>2, FS_RemoveElement
<1>4. Cardinality(Holders) # 0
  BY <1>2, FS_EmptySet
<1> QED BY <1>3, <1>4 DEF SlotAccounting, ReleaseSlot

\* A new holder has reserved a slot: the count follows.
LEMMA ReserveKeepsAccount ==
    ASSUME Typed, SlotAccounting, NEW c \in Ids, ~Holds(c), Holds(c)', slots' = slots + 1,
           \A d \in Ids \ {c} : Holds(d)' <=> Holds(d)
    PROVE  SlotAccounting'
<1>1. Holders' = Holders \cup {c} /\ c \notin Holders
  BY DEF Holders
<1>2. IsFiniteSet(Holders)
  BY InletAssumption, FS_Subset DEF Holders
<1>3. Cardinality(Holders') = Cardinality(Holders) + 1
  BY <1>1, <1>2, FS_AddElement
<1> QED BY <1>3 DEF SlotAccounting

LEMMA SlotInit == Init => Ownership /\ SlotAccounting
<1> SUFFICES ASSUME Init PROVE Ownership /\ SlotAccounting
  OBVIOUS
<1>1. Holders = {}
  BY DEF Init, Holders, Holds, ShutdownPhases
<1>2. SlotAccounting
  BY <1>1, FS_EmptySet DEF SlotAccounting, Init
<1> QED BY <1>2 DEF Init, Ownership

\* closeSession moves a session within the phases that hold its slot.
LEMMA ClosingIsQuiet ==
    ASSUME Typed, Ownership, NEW c \in Ids, acc' = acc, accConn' = accConn
    PROVE  /\ MainCloses(c) /\ main[c] \notin {"none", "insert"} =>
                /\ \A d \in Ids : Holds(d)' <=> Holds(d)
                /\ \A d \in Ids : main'[d] = "none" <=> main[d] = "none"
                /\ \A d \in Ids : main'[d] \in {"none", "insert"} => sess'[d] = "absent"
           /\ \A who \in {"main", "loop", "input"} : Remove(c, who) /\ main' = main =>
                /\ \A d \in Ids : Holds(d)' <=> Holds(d)
                /\ \A d \in Ids : main'[d] \in {"none", "insert"} => sess'[d] = "absent"
<1> USE DEF Typed, TypeOK, Ownership, Holds, ShutdownPhases
<1>1. ASSUME MainCloses(c), main[c] \notin {"none", "insert"}
      PROVE  /\ \A d \in Ids : Holds(d)' <=> Holds(d)
             /\ \A d \in Ids : main'[d] = "none" <=> main[d] = "none"
             /\ \A d \in Ids : main'[d] \in {"none", "insert"} => sess'[d] = "absent"
  <2>1. CASE sess[c] = "live"
    <3>1. sess' = [sess EXCEPT ![c] = "removed"] /\ main' = [main EXCEPT ![c] = "shutting"]
      BY <1>1, <2>1 DEF MainCloses, Remove
    <3>2. \A d \in Ids : Holds(d)' <=> Holds(d)
      BY <1>1, <2>1, <3>1
    <3>3. \A d \in Ids : main'[d] = "none" <=> main[d] = "none"
      BY <1>1, <3>1
    <3>4. \A d \in Ids : main'[d] \in {"none", "insert"} => sess'[d] = "absent"
      BY <3>1
    <3> QED BY <3>2, <3>3, <3>4
  <2>2. CASE sess[c] # "live" BY <1>1, <2>2 DEF MainCloses, Remove, sessVars
  <2> QED BY <2>1, <2>2
<1>2. ASSUME NEW who \in {"main", "loop", "input"}, Remove(c, who), main' = main
      PROVE  /\ \A d \in Ids : Holds(d)' <=> Holds(d)
             /\ \A d \in Ids : main'[d] \in {"none", "insert"} => sess'[d] = "absent"
  BY <1>2 DEF Remove
<1> QED BY <1>1, <1>2

\* ... and so leaves the account alone, whether or not it closes the connection too
LEMMA MainClosingOwns ==
    ASSUME Typed, Ownership, NEW c \in Ids, MainCloses(c), main[c] \notin {"none", "insert"},
           UNCHANGED <<acc, accConn, slots>>, conn' = [conn EXCEPT ![c] = "closed"]
    PROVE  Quiet /\ Ownership'
<1>1. /\ \A d \in Ids : Holds(d)' <=> Holds(d)
      /\ \A d \in Ids : main'[d] = "none" <=> main[d] = "none"
      /\ \A d \in Ids : main'[d] \in {"none", "insert"} => sess'[d] = "absent"
  BY ClosingIsQuiet
<1>2. \A d \in Ids : conn'[d] = "none" => conn[d] = "none"
  BY DEF Typed, TypeOK
<1>3. \A d \in Ids : conn[d] # "none" => conn'[d] # "none"
  BY DEF Typed, TypeOK
<1>4. acc \in {"reserve", "spawn"} => accConn \in Ids
  BY DEF Typed, InHand
<1> QED BY <1>1, <1>2, <1>3, <1>4 DEF Quiet, Ownership

LEMMA SlotStep == SlotInv /\ [Next \/ AnyOutlet]_vars => Ownership' /\ SlotAccounting'
<1> SUFFICES ASSUME Typed, Ownership, SlotAccounting, [Next \/ AnyOutlet]_vars
             PROVE  Ownership' /\ SlotAccounting'
  BY DEF SlotInv
<1>0. ASSUME Quiet, Ownership' PROVE Ownership' /\ SlotAccounting'
  BY <1>0, QuietKeepsAccount
<1> USE DEF Typed, TypeOK, InHand, Ownership, Quiet, Holds, ShutdownPhases, stopVars, sessVars, goVars, dataVars
<1>1. ASSUME NEW c \in Ids, Accept(c) PROVE Quiet /\ Ownership'
  BY <1>1 DEF Accept
<1>2. ASSUME NEW c \in Ids, Insert(c) PROVE Ownership' /\ SlotAccounting'
  <2>1. sess[c] = "absent" /\ ~(acc = "spawn" /\ accConn = c) /\ acc' = acc /\ accConn' = accConn
    BY <1>2 DEF Insert
  <2>2. CASE ~Stopped
    <3>1. Quiet
      BY <1>2, <2>1, <2>2 DEF Insert
    <3>2. main' = [main EXCEPT ![c] = "spawn"] /\ sess' = [sess EXCEPT ![c] = "live"] /\ conn' = conn
      BY <1>2, <2>2 DEF Insert
    <3>3. Ownership'
      BY <1>2, <2>1, <3>2 DEF Insert
    <3> QED BY <1>0, <3>1, <3>3
  <2>3. CASE Stopped
    <3>1. Holds(c) /\ ~Holds(c)' /\ ReleaseSlot
      BY <1>2, <2>1, <2>3 DEF Insert
    <3>2. \A d \in Ids \ {c} : Holds(d)' <=> Holds(d)
      BY <1>2, <2>1, <2>3 DEF Insert
    <3>3. main' = [main EXCEPT ![c] = "gone"] /\ sess' = sess /\ conn' = [conn EXCEPT ![c] = "closed"]
      BY <1>2, <2>3 DEF Insert
    <3>4. Ownership'
      BY <1>2, <2>1, <3>3 DEF Insert
    <3> QED BY <3>1, <3>2, <3>4, ReleaseKeepsAccount
  <2> QED BY <2>2, <2>3
<1>3. ASSUME NEW c \in Ids, StartLoop(c) PROVE Quiet /\ Ownership'
  <2>1. CASE ~Stopped BY <1>3, <2>1 DEF StartLoop
  <2>2. CASE Stopped
    <3>1. /\ MainCloses(c) /\ main[c] \notin {"none", "insert"}
          /\ acc' = acc /\ accConn' = accConn /\ slots' = slots
          /\ conn' = [conn EXCEPT ![c] = "closed"]
      BY <1>3, <2>2 DEF StartLoop
    <3> HIDE DEF Typed, Ownership, Quiet
    <3> QED BY <3>1, MainClosingOwns
  <2> QED BY <2>1, <2>2
<1>4. ASSUME NEW c \in Ids, OnStart(c) PROVE Quiet /\ Ownership'
  <2>1. CASE ~Closed(c) BY <1>4, <2>1 DEF OnStart
  <2>2. CASE Closed(c)
    <3>1. /\ MainCloses(c) /\ main[c] \notin {"none", "insert"}
          /\ acc' = acc /\ accConn' = accConn /\ slots' = slots
          /\ conn' = [conn EXCEPT ![c] = "closed"]
      BY <1>4, <2>2 DEF OnStart
    <3> HIDE DEF Typed, Ownership, Quiet
    <3> QED BY <3>1, MainClosingOwns
  <2> QED BY <2>1, <2>2
<1>5. ASSUME NEW c \in Ids, AwaitReady(c) PROVE Quiet /\ Ownership'
  BY <1>5 DEF AwaitReady
<1>6. ASSUME NEW c \in Ids, AwaitFails(c) PROVE Quiet /\ Ownership'
  BY <1>6, ClosingIsQuiet DEF AwaitFails
<1>7. ASSUME NEW c \in Ids, ReadFails(c) PROVE Quiet /\ Ownership'
  BY <1>7, ClosingIsQuiet DEF ReadFails
<1>8. ASSUME NEW c \in Ids, LockPeerData(c) PROVE Quiet /\ Ownership'
  BY <1>8 DEF LockPeerData
<1>9. ASSUME NEW c \in Ids, SendPeerData(c) PROVE Quiet /\ Ownership'
  BY <1>9 DEF SendPeerData
<1>10. ASSUME NEW c \in Ids, PeerDataFails(c) PROVE Quiet /\ Ownership'
  BY <1>10, ClosingIsQuiet DEF PeerDataFails
<1>11. ASSUME NEW c \in Ids, ReadPayload(c) PROVE Quiet /\ Ownership'
  BY <1>11 DEF ReadPayload
<1>12. ASSUME NEW c \in Ids, LoopStep(c) PROVE Quiet /\ Ownership'
  <2>0. ASSUME LoopCloses(c), main' = main, acc' = acc, accConn' = accConn
        PROVE  /\ \A d \in Ids : Holds(d)' <=> Holds(d)
               /\ \A d \in Ids : main'[d] \in {"none", "insert"} => sess'[d] = "absent"
    <3>1. CASE Remove(c, "loop") BY <2>0, <3>1, ClosingIsQuiet
    <3>2. CASE UNCHANGED sessVars BY <2>0, <3>2
    <3> QED BY <2>0, <3>1, <3>2 DEF LoopCloses
  <2>1. CASE Pop(c) BY <2>1 DEF Pop
  <2>2. CASE OnConnected(c) BY <2>2 DEF OnConnected
  <2>3. CASE OnRefusedOrDisconnect(c) BY <2>0, <2>3 DEF OnRefusedOrDisconnect
  <2>4. CASE OnRecvData(c) BY <2>4 DEF OnRecvData
  <2>5. CASE WriteDone(c) BY <2>5 DEF WriteDone
  <2>6. CASE WriteFails(c) BY <2>0, <2>6 DEF WriteFails
  <2> QED BY <1>12, <2>1, <2>2, <2>3, <2>4, <2>5, <2>6 DEF LoopStep
<1>13. ASSUME NEW c \in Ids, ShutClose(c) PROVE Quiet /\ Ownership'
  BY <1>13 DEF ShutClose
<1>14. ASSUME NEW c \in Ids, ShutBye(c) PROVE Quiet /\ Ownership'
  BY <1>14 DEF ShutBye
<1>15. ASSUME NEW c \in Ids, ShutConn(c) PROVE Quiet /\ Ownership'
  BY <1>15 DEF ShutConn
<1>16. ASSUME NEW c \in Ids, ShutSlot(c) PROVE Ownership' /\ SlotAccounting'
  <2>1. Holds(c) /\ ~Holds(c)' /\ ReleaseSlot
    BY <1>16 DEF ShutSlot
  <2>2. \A d \in Ids \ {c} : Holds(d)' <=> Holds(d)
    BY <1>16 DEF ShutSlot
  <2>3. Ownership'
    BY <1>16 DEF ShutSlot
  <2> QED BY <2>1, <2>2, <2>3, ReleaseKeepsAccount
<1>17. ASSUME NEW c \in Ids, ClientCloses(c) PROVE Quiet /\ Ownership'
  BY <1>17 DEF ClientCloses
<1>18. CASE AcceptEnds
  BY <1>0, <1>18 DEF AcceptEnds
<1>19. CASE Reserve
  <2>0. PICK c \in Ids : c = accConn
    BY <1>19 DEF Reserve
  <2>1. CASE ~StopChClosed /\ slots < MaxSlots
    <3>1. ~Holds(c) /\ Holds(c)' /\ slots' = slots + 1
      BY <1>19, <2>0, <2>1 DEF Reserve
    <3>2. \A d \in Ids \ {c} : Holds(d)' <=> Holds(d)
      BY <1>19, <2>0, <2>1 DEF Reserve
    <3>3. Ownership'
      BY <1>19, <2>0, <2>1 DEF Reserve
    <3> QED BY <3>1, <3>2, <3>3, ReserveKeepsAccount
  <2>2. CASE ~(~StopChClosed /\ slots < MaxSlots)
    <3>1. Quiet
      BY <1>19, <2>0, <2>2 DEF Reserve
    <3>2. Ownership'
      BY <1>19, <2>0, <2>2 DEF Reserve
    <3> QED BY <1>0, <3>1, <3>2
  <2> QED BY <2>1, <2>2
<1>20. CASE Spawn
  <2>0. PICK c \in Ids : c = accConn
    BY <1>20 DEF Spawn
  <2>1. sess[c] = "absent" /\ main[c] = "none"
    BY <1>20, <2>0 DEF Spawn
  <2>2. CASE ~Stopped
    <3>1. Quiet
      BY <1>20, <2>0, <2>1, <2>2 DEF Spawn
    <3>2. Ownership'
      BY <1>20, <2>0, <2>1, <2>2 DEF Spawn
    <3> QED BY <1>0, <3>1, <3>2
  <2>3. CASE Stopped
    <3>1. Holds(c) /\ ~Holds(c)' /\ ReleaseSlot
      BY <1>20, <2>0, <2>1, <2>3 DEF Spawn
    <3>2. \A d \in Ids \ {c} : Holds(d)' <=> Holds(d)
      BY <1>20, <2>0, <2>3 DEF Spawn
    <3>3. Ownership'
      BY <1>20, <2>0, <2>1, <2>3 DEF Spawn
    <3> QED BY <3>1, <3>2, <3>3, ReleaseKeepsAccount
  <2> QED BY <2>2, <2>3
<1>21. CASE Input
  <2>1. CASE UNCHANGED sessVars
    BY <1>0, <1>21, <2>1 DEF Input
  <2>2. ASSUME NEW c \in Ids, Overflow(c) PROVE Quiet /\ Ownership'
    BY <1>21, <2>2, ClosingIsQuiet DEF Input, Overflow
  <2>3. Head(o2i) \in InMessages /\ Head(o2i).id \in Ids
    BY <1>21, HeadTailProperties DEF Input, InMessages
  <2> QED BY <1>0, <1>21, <2>1, <2>2, <2>3 DEF Input
<1>22. CASE StopBegin \/ StopListener \/ StopReturn
  BY <1>0, <1>22 DEF StopBegin, StopListener, StopReturn
<1>23. CASE StopMark
  BY <1>0, <1>23 DEF StopMark
<1>24. CASE AnyOutlet \/ UNCHANGED vars
  BY <1>0, <1>24 DEF AnyOutlet, vars
<1> HIDE DEF Typed, TypeOK, InHand, Ownership, Quiet, Holds
<1> QED BY <1>0, <1>1, <1>2, <1>3, <1>4, <1>5, <1>6, <1>7, <1>8, <1>9, <1>10, <1>11, <1>12, <1>13, <1>14,
           <1>15, <1>16, <1>17, <1>18, <1>19, <1>20, <1>21, <1>22, <1>23, <1>24
        DEF Next, MainStep, Shutdown

\* The slots in use are exactly those of the connections that own one, whichever
\* goroutine closes a session and however Stop interleaves (inlet.go:454-479).
THEOREM SlotsBalance == Spec => []SlotAccounting
<1>1. Init => SlotInv
  BY TypedInit, SlotInit DEF SlotInv
<1>2. SlotInv /\ [Next \/ AnyOutlet]_vars => SlotInv'
  BY TypedStep, SlotStep DEF SlotInv
<1>3. SlotInv => SlotAccounting
  BY DEF SlotInv
<1> QED BY <1>1, <1>2, <1>3, PTL DEF Spec

-----------------------------------------------------------------------------
\* A session on its way out is shut down by the goroutine that removed it, and
\* that goroutine does not end before it is through (inlet.go:578-600).
ClosersKnown ==
    \A c \in Ids :
      /\ by[c] = "nobody" <=> sess[c] \in {"absent", "live"}
      /\ sess[c] \in ShutdownPhases /\ by[c] = "main" => main[c] = "shutting"
      /\ sess[c] \in ShutdownPhases /\ by[c] = "loop" => loop[c] = "shutting"
      /\ main[c] \in {"none", "insert", "spawn"} => loop[c] = "none"

\* ctxMu is held across a wait for credit or a write only (inlet.go:623-640).
LocksHeld ==
    \A c \in Ids :
      /\ ctxMu[c] = "main" => main[c] = "credit"
      /\ ctxMu[c] = "loop" => loop[c] = "write"

\* A connection whose goroutine has ended is closed, or a shutdown will close it.
ConnsClosed ==
    \A c \in Ids :
      /\ main[c] = "none" /\ conn[c] \in {"open", "hungup"} => acc \in {"reserve", "spawn"} /\ accConn = c
      /\ main[c] \notin {"none", "insert", "gone"} => sess[c] # "absent"
      /\ main[c] = "gone" => conn[c] = "closed" \/ sess[c] \in ShutdownPhases
      /\ sess[c] \in {"unlinked", "done"} => conn[c] = "closed"

\* Stop's mark keeps sessions out, and what it has waited for stays as it is.
StopHolds ==
    /\ Stopped => \A c \in Ids : sess[c] # "live"
    /\ stopPc = "returned" => GoroutinesGone /\ \A c \in Ids : by[c] = "stop" => sess[c] = "done"

StopInv == ClosersKnown /\ LocksHeld /\ ConnsClosed /\ StopHolds

LEMMA StopInvInit == Init => StopInv
BY DEF Init, StopInv, ClosersKnown, LocksHeld, ConnsClosed, StopHolds, Stopped, ShutdownPhases

\* closeSession, called by the connection goroutine, keeps the invariant.
LEMMA MainClosingKeeps ==
    ASSUME Typed, Ownership, StopInv, NEW c \in Ids, MainCloses(c),
           main[c] \notin {"none", "insert", "gone", "shutting"},
           UNCHANGED <<stopPc, acc, accConn, loop>>,
           conn' = conn \/ conn' = [conn EXCEPT ![c] = "closed"],
           \/ ctxMu' = ctxMu /\ main[c] # "credit"
           \/ ctxMu' = [ctxMu EXCEPT ![c] = "free"]
    PROVE  StopInv'
<1> USE DEF Typed, TypeOK, Ownership, StopInv
<1>1. LocksHeld'
  <2>1. \A d \in Ids \ {c} : main'[d] = main[d] BY DEF MainCloses
  <2> QED BY <2>1 DEF LocksHeld
<1>2. StopHolds'
  <2>1. CASE sess[c] = "live" BY <2>1 DEF MainCloses, Remove, StopHolds, Stopped, GoroutinesGone
  <2>2. CASE sess[c] # "live" BY <2>2 DEF MainCloses, Remove, sessVars, StopHolds, Stopped, GoroutinesGone
  <2> QED BY <2>1, <2>2
<1>3. CASE sess[c] = "live"
  <2>1. /\ sess' = [sess EXCEPT ![c] = "removed"] /\ by' = [by EXCEPT ![c] = "main"]
        /\ main' = [main EXCEPT ![c] = "shutting"]
    BY <1>3 DEF MainCloses, Remove
  <2>2. ClosersKnown' BY <1>3, <2>1 DEF ClosersKnown, ShutdownPhases
  <2>3. ConnsClosed' BY <1>3, <2>1 DEF ConnsClosed, ShutdownPhases
  <2> QED BY <1>1, <1>2, <2>2, <2>3
<1>4. CASE sess[c] # "live"
  <2>1. UNCHANGED <<sess, by>> /\ main' = [main EXCEPT ![c] = "gone"]
    BY <1>4 DEF MainCloses, Remove, sessVars
  <2>2. ClosersKnown' BY <2>1 DEF ClosersKnown
  <2>3. ConnsClosed' BY <1>4, <2>1 DEF ConnsClosed, Phases, ShutdownPhases
  <2> QED BY <1>1, <1>2, <2>2, <2>3
<1> QED BY <1>3, <1>4

\* closeSession, called by the message loop, keeps the invariant.
LEMMA LoopClosingKeeps ==
    ASSUME Typed, Ownership, StopInv, NEW c \in Ids, LoopCloses(c),
           loop[c] \in {"lock", "write"},
           UNCHANGED <<stopPc, acc, accConn, main>>,
           conn' = conn \/ conn' = [conn EXCEPT ![c] = "closed"],
           \/ ctxMu' = ctxMu /\ loop[c] # "write"
           \/ ctxMu' = [ctxMu EXCEPT ![c] = "free"]
    PROVE  StopInv'
<1> USE DEF Typed, TypeOK, Ownership, StopInv
<1>1. LocksHeld'
  <2>1. \A d \in Ids \ {c} : loop'[d] = loop[d] BY DEF LoopCloses
  <2> QED BY <2>1 DEF LocksHeld
<1>2. StopHolds'
  <2>1. CASE sess[c] = "live" BY <2>1 DEF LoopCloses, Remove, StopHolds, Stopped, GoroutinesGone
  <2>2. CASE sess[c] # "live"
    <3>1. UNCHANGED <<sess, by>> /\ loop' = [loop EXCEPT ![c] = "gone"]
      BY <2>2 DEF LoopCloses, Remove, sessVars
    <3> QED BY <3>1 DEF StopHolds, Stopped, GoroutinesGone
  <2> QED BY <2>1, <2>2
<1>3. CASE sess[c] = "live"
  <2>1. /\ sess' = [sess EXCEPT ![c] = "removed"] /\ by' = [by EXCEPT ![c] = "loop"]
        /\ loop' = [loop EXCEPT ![c] = "shutting"]
    BY <1>3 DEF LoopCloses, Remove
  <2>2. ClosersKnown' BY <1>3, <2>1 DEF ClosersKnown, ShutdownPhases
  <2>3. ConnsClosed' BY <1>3, <2>1 DEF ConnsClosed, ShutdownPhases
  <2> QED BY <1>1, <1>2, <2>2, <2>3
<1>4. CASE sess[c] # "live"
  <2>1. UNCHANGED <<sess, by>> /\ loop' = [loop EXCEPT ![c] = "gone"]
    BY <1>4 DEF LoopCloses, Remove, sessVars
  <2>2. ClosersKnown' BY <2>1 DEF ClosersKnown
  <2>3. ConnsClosed' BY <1>4, <2>1 DEF ConnsClosed, Phases, ShutdownPhases
  <2> QED BY <1>1, <1>2, <2>2, <2>3
<1> QED BY <1>3, <1>4

LEMMA StopInvStep == SlotInv /\ StopInv /\ [Next \/ AnyOutlet]_vars => StopInv'
<1> SUFFICES ASSUME Typed, Ownership, StopInv, [Next \/ AnyOutlet]_vars PROVE StopInv'
  BY DEF SlotInv
<1> USE DEF Typed, TypeOK, InHand, Ownership, StopInv, ClosersKnown, LocksHeld, ConnsClosed, StopHolds, Stopped,
            GoroutinesGone, Phases, ShutdownPhases, stopVars, sessVars, goVars, dataVars
<1>1. ASSUME NEW c \in Ids, Accept(c) PROVE StopInv'
  BY <1>1 DEF Accept
<1>2. ASSUME NEW c \in Ids, Insert(c) PROVE StopInv'
  <2>1. CASE ~Stopped
    <3>1. /\ main' = [main EXCEPT ![c] = "spawn"] /\ sess' = [sess EXCEPT ![c] = "live"]
          /\ UNCHANGED <<stopPc, acc, accConn, by, loop, ctxMu, conn>>
      BY <1>2, <2>1 DEF Insert
    <3> QED BY <1>2, <2>1, <3>1 DEF Insert
  <2>2. CASE Stopped
    <3>1. /\ main' = [main EXCEPT ![c] = "gone"] /\ conn' = [conn EXCEPT ![c] = "closed"]
          /\ UNCHANGED <<stopPc, acc, accConn, sess, by, loop, ctxMu>>
      BY <1>2, <2>2 DEF Insert
    <3> QED BY <1>2, <2>2, <3>1 DEF Insert
  <2> QED BY <2>1, <2>2
<1>3. ASSUME NEW c \in Ids, StartLoop(c) PROVE StopInv'
  <2>1. CASE ~Stopped
    <3>1. /\ loop' = [loop EXCEPT ![c] = "pop"] /\ main' = [main EXCEPT ![c] = "start"]
          /\ UNCHANGED <<stopPc, acc, accConn, sess, by, ctxMu, conn>>
      BY <1>3, <2>1 DEF StartLoop
    <3>2. ClosersKnown' /\ LocksHeld'
      BY <1>3, <3>1 DEF StartLoop
    <3> QED BY <1>3, <2>1, <3>1, <3>2 DEF StartLoop
  <2>2. CASE Stopped BY <1>3, <2>2, MainClosingKeeps DEF StartLoop
  <2> QED BY <2>1, <2>2
<1>4. ASSUME NEW c \in Ids, OnStart(c) PROVE StopInv'
  <2>1. CASE ~Closed(c)
    <3>0. /\ main[c] = "start" /\ main' = [main EXCEPT ![c] = "await"]
          /\ UNCHANGED <<stopPc, acc, accConn, sess, by, loop, ctxMu, conn>>
      BY <1>4, <2>1 DEF OnStart
    <3>1. ClosersKnown' BY <3>0 DEF StopInv
    <3>2. LocksHeld' BY <3>0 DEF StopInv
    <3>3. ConnsClosed' BY <3>0 DEF StopInv
    <3>4. StopHolds' BY <3>0 DEF StopInv
    <3> QED BY <3>1, <3>2, <3>3, <3>4
  <2>2. CASE Closed(c) BY <1>4, <2>2, MainClosingKeeps DEF OnStart
  <2> QED BY <2>1, <2>2
<1>5. ASSUME NEW c \in Ids, AwaitReady(c) PROVE StopInv'
  BY <1>5 DEF AwaitReady
<1>6. ASSUME NEW c \in Ids, AwaitFails(c) PROVE StopInv'
  BY <1>6, MainClosingKeeps DEF AwaitFails
<1>7. ASSUME NEW c \in Ids, ReadFails(c) PROVE StopInv'
  BY <1>7, MainClosingKeeps DEF ReadFails
<1>8. ASSUME NEW c \in Ids, LockPeerData(c) PROVE StopInv'
  BY <1>8 DEF LockPeerData
<1>9. ASSUME NEW c \in Ids, SendPeerData(c) PROVE StopInv'
  BY <1>9 DEF SendPeerData
<1>10. ASSUME NEW c \in Ids, PeerDataFails(c) PROVE StopInv'
  BY <1>10, MainClosingKeeps DEF PeerDataFails
<1>11. ASSUME NEW c \in Ids, ReadPayload(c) PROVE StopInv'
  BY <1>11 DEF ReadPayload
<1>12. ASSUME NEW c \in Ids, LoopStep(c) PROVE StopInv'
  <2>1. CASE Pop(c)
    <3>1. loop[c] = "pop" /\ \E pc \in {"lock", "gone"} : loop' = [loop EXCEPT ![c] = pc]
      BY <2>1 DEF Pop
    <3>2. UNCHANGED <<stopPc, acc, accConn, sess, by, main, ctxMu, conn>>
      BY <2>1 DEF Pop
    <3> QED BY <3>1, <3>2
  <2>2. CASE OnConnected(c) BY <2>2 DEF OnConnected
  <2>3. CASE OnRefusedOrDisconnect(c) BY <2>3, LoopClosingKeeps DEF OnRefusedOrDisconnect
  <2>4. CASE OnRecvData(c) BY <2>4 DEF OnRecvData
  <2>5. CASE WriteDone(c) BY <2>5 DEF WriteDone
  <2>6. CASE WriteFails(c) BY <2>6, LoopClosingKeeps DEF WriteFails
  <2> QED BY <1>12, <2>1, <2>2, <2>3, <2>4, <2>5, <2>6 DEF LoopStep
<1>13. ASSUME NEW c \in Ids, ShutClose(c) PROVE StopInv'
  BY <1>13 DEF ShutClose
<1>14. ASSUME NEW c \in Ids, ShutBye(c) PROVE StopInv'
  BY <1>14 DEF ShutBye
<1>15. ASSUME NEW c \in Ids, ShutConn(c) PROVE StopInv'
  BY <1>15 DEF ShutConn
<1>16. ASSUME NEW c \in Ids, ShutSlot(c) PROVE StopInv'
  <2>1. ClosersKnown' BY <1>16 DEF ShutSlot
  <2>2. LocksHeld' BY <1>16 DEF ShutSlot
  <2>3. ConnsClosed' BY <1>16 DEF ShutSlot
  <2>4. StopHolds' BY <1>16 DEF ShutSlot
  <2> QED BY <2>1, <2>2, <2>3, <2>4
<1>17. ASSUME NEW c \in Ids, ClientCloses(c) PROVE StopInv'
  BY <1>17 DEF ClientCloses
<1>18. CASE AcceptEnds
  BY <1>18 DEF AcceptEnds
<1>19. CASE Reserve
  BY <1>19 DEF Reserve
<1>20. CASE Spawn
  <2>0. PICK c \in Ids : c = accConn
    BY <1>20 DEF Spawn
  <2>1. CASE ~Stopped
    <3>1. /\ main' = [main EXCEPT ![c] = "insert"] /\ acc = "spawn" /\ main[c] = "none"
          /\ UNCHANGED <<stopPc, sess, by, loop, ctxMu, conn>>
      BY <1>20, <2>0, <2>1 DEF Spawn
    <3> QED BY <2>0, <2>1, <3>1
  <2>2. CASE Stopped
    <3>1. /\ conn' = [conn EXCEPT ![c] = "closed"] /\ acc' = "gone" /\ acc = "spawn"
          /\ UNCHANGED <<stopPc, sess, by, main, loop, ctxMu>>
      BY <1>20, <2>0, <2>2 DEF Spawn
    <3> QED BY <2>0, <2>2, <3>1
  <2> QED BY <2>1, <2>2
<1>21. CASE Input
  <2>1. CASE UNCHANGED sessVars
    BY <1>21, <2>1 DEF Input
  <2>2. ASSUME NEW c \in Ids, Overflow(c) PROVE StopInv'
    <3>0. /\ sess[c] = "live" /\ sess' = [sess EXCEPT ![c] = "removed"] /\ by' = [by EXCEPT ![c] = "input"]
          /\ UNCHANGED <<stopPc, acc, accConn, main, loop, ctxMu, conn>>
      BY <1>21, <2>2 DEF Input, Overflow, Remove
    <3>1. ClosersKnown' BY <3>0 DEF StopInv
    <3>2. LocksHeld' BY <3>0 DEF StopInv
    <3>3. ConnsClosed' BY <3>0 DEF StopInv
    <3>4. StopHolds' BY <3>0 DEF StopInv
    <3> QED BY <3>1, <3>2, <3>3, <3>4
  <2>3. Head(o2i) \in InMessages /\ Head(o2i).id \in Ids
    BY <1>21, HeadTailProperties DEF Input, InMessages
  <2> QED BY <1>21, <2>1, <2>2, <2>3 DEF Input
<1>22. CASE StopBegin \/ StopListener
  BY <1>22 DEF StopBegin, StopListener
<1>23. CASE StopMark
  BY <1>23 DEF StopMark
<1>24. CASE StopReturn
  BY <1>24 DEF StopReturn
<1>25. CASE AnyOutlet \/ UNCHANGED vars
  <2>0. UNCHANGED <<stopPc, acc, accConn, sess, by, main, loop, ctxMu, conn>>
    BY <1>25 DEF AnyOutlet, vars
  <2>1. ClosersKnown' BY <2>0 DEF StopInv
  <2>2. LocksHeld' BY <2>0 DEF StopInv
  <2>3. ConnsClosed' BY <2>0 DEF StopInv
  <2>4. StopHolds' BY <2>0 DEF StopInv
  <2> QED BY <2>1, <2>2, <2>3, <2>4
<1> HIDE DEF Typed, TypeOK, InHand, Ownership, StopInv
<1> QED BY <1>1, <1>2, <1>3, <1>4, <1>5, <1>6, <1>7, <1>8, <1>9, <1>10, <1>11, <1>12, <1>13, <1>14,
           <1>15, <1>16, <1>17, <1>18, <1>19, <1>20, <1>21, <1>22, <1>23, <1>24, <1>25
        DEF Next, MainStep, Shutdown

\* What the invariant says of the moment Stop returns.
LEMMA StopInvComplete == SlotInv /\ StopInv => StopComplete
<1> SUFFICES ASSUME SlotInv, StopInv, stopPc = "returned" PROVE StopComplete
  BY DEF StopComplete
<1> DEFINE left == {c \in Ids : by[c] = "input" /\ sess[c] # "done"}
<1> USE DEF SlotInv, Typed, TypeOK, Ownership, StopInv, StopHolds, Stopped, GoroutinesGone, Phases, ShutdownPhases
<1>1. GoroutinesGone /\ \A c \in Ids : sess[c] # "live"
  OBVIOUS
<1>2. ASSUME NEW c \in Ids PROVE sess[c] \in ShutdownPhases <=> by[c] = "input" /\ sess[c] # "done"
  <2>1. sess[c] \in {"absent", "done"} \cup ShutdownPhases  BY <1>1
  <2>2. by[c] = "nobody" <=> sess[c] \in {"absent", "live"}  BY DEF ClosersKnown
  <2>3. by[c] \in {"nobody", "main", "loop", "input", "stop"} /\ main[c] # "shutting" /\ loop[c] # "shutting"
    BY <1>1
  <2>4. sess[c] \in ShutdownPhases => by[c] \notin {"main", "loop", "stop"}
    BY <2>3 DEF ClosersKnown
  <2> QED BY <2>1, <2>2, <2>3, <2>4
<1>3. \A c \in Ids : Holds(c) <=> sess[c] \in ShutdownPhases
  BY <1>1 DEF Holds
<1>6. Holders = left
  BY <1>2, <1>3 DEF Holders
<1>4. \A c \in Ids \ left : sess[c] \in {"absent", "done"} /\ conn[c] \in {"none", "closed"}
  BY <1>1, <1>2 DEF ConnsClosed
<1>5. \A c \in Ids : ctxMu[c] = "free"
  BY <1>1 DEF LocksHeld
<1> QED BY <1>1, <1>6, <1>4, <1>5 DEF StopComplete, SlotAccounting, sessions

\* Whenever Stop returns, nothing of the inlet is left but what Input itself is
\* still shutting down (inlet.go:117-142).
THEOREM StopIsComplete == Spec => []StopComplete
<1>1. Init => SlotInv /\ StopInv
  BY TypedInit, SlotInit, StopInvInit DEF SlotInv
<1>2. SlotInv /\ StopInv /\ [Next \/ AnyOutlet]_vars => (SlotInv /\ StopInv)'
  BY TypedStep, SlotStep, StopInvStep DEF SlotInv
<1> QED BY <1>1, <1>2, StopInvComplete, PTL DEF Spec

-----------------------------------------------------------------------------
\* Appending tells two messages apart; taking one off is not appending.
LEMMA AppendsDiffer ==
    /\ \A S : \A q \in Seq(S) : \A m, n \in S : Append(q, m) = Append(q, n) => m = n
    /\ \A S : \A q \in Seq(S) : \A n \in S : q # Append(q, n)
    /\ \A S : \A q \in Seq(S) : \A n \in S : q # <<>> => Tail(q) # Append(q, n)
<1>1. ASSUME NEW S, NEW q \in Seq(S), NEW m \in S, NEW n \in S, Append(q, m) = Append(q, n)
      PROVE  m = n
  <2>1. Append(q, m)[Len(q) + 1] = m /\ Append(q, n)[Len(q) + 1] = n
    OBVIOUS
  <2> QED BY <1>1, <2>1
<1>2. ASSUME NEW S, NEW q \in Seq(S), NEW n \in S
      PROVE  Len(Append(q, n)) = Len(q) + 1 /\ Len(q) \in Nat
  OBVIOUS
<1>3. ASSUME NEW S, NEW q \in Seq(S), NEW n \in S
      PROVE  q # Append(q, n)
  BY <1>2
<1>4. ASSUME NEW S, NEW q \in Seq(S), NEW n \in S, q # <<>>
      PROVE  Tail(q) # Append(q, n)
  <2>1. Len(Tail(q)) = Len(q) - 1
    BY <1>4
  <2> QED BY <1>2, <2>1
<1> QED BY <1>1, <1>3, <1>4

\* What the inlet may send
Sends == [type : {"I2OConnect", "I2ODisconnect", "I2ORecvDataResult"}, id : Ids]
           \cup [type : {"I2OSendData"}, id : Ids, n : Nat]

Sent == i2o \in Seq(Sends)

LEMMA SendsTyped ==
    \A c \in Ids :
      /\ Connect(c) \in Sends /\ RecvResult(c) \in Sends /\ Disconnect(c) \in Sends
      /\ \A n \in Nat : SendData(c, n) \in Sends
BY DEF Connect, RecvResult, Disconnect, SendData, Sends

\* What a session may say, and when: a connect only from onStart and a payload
\* only with credit, both before the session is closed (inlet.go:611-615, 666).
Speaks(c, m) ==
    \/ m \in {RecvResult(c), Disconnect(c)}
    \/ m = Connect(c) /\ ~Closed(c)
    \/ ~Closed(c) /\ \E n \in 0 .. MaxUp : m = SendData(c, n)

\* A step of the inlet sends one message or none, and takes one or none.
LEMMA OneSent ==
    ASSUME Typed, Next
    PROVE  \/ i2o' = i2o
           \/ \E c \in Ids, m \in Sends : Speaks(c, m) /\ i2o' = Append(i2o, m)
<1> USE DEF Output, stopVars, sessVars, goVars, dataVars
<1>1. ASSUME NEW c \in Ids, OnStart(c) \/ SendPeerData(c) \/ WriteDone(c) \/ ShutBye(c)
      PROVE  i2o' = i2o \/ \E m \in Sends : Speaks(c, m) /\ i2o' = Append(i2o, m)
  <2>1. CASE OnStart(c)
    BY <2>1, SendsTyped DEF OnStart, Speaks
  <2>2. CASE SendPeerData(c)
    <3>1. i2o' = Append(i2o, SendData(c, up[c])) /\ ~Closed(c)
      BY <2>2 DEF SendPeerData
    <3>2. up[c] \in 0 .. MaxUp /\ up[c] \in Nat
      BY InletAssumption DEF Typed, TypeOK
    <3> QED BY <3>1, <3>2, SendsTyped DEF Speaks
  <2>3. CASE WriteDone(c)
    BY <2>3, SendsTyped DEF WriteDone, Acknowledge, Speaks
  <2>4. CASE ShutBye(c)
    BY <2>4, SendsTyped DEF ShutBye, Speaks
  <2> QED BY <1>1, <2>1, <2>2, <2>3, <2>4
<1>2. ASSUME NEW c \in Ids,
             \/ Accept(c) \/ Insert(c) \/ StartLoop(c) \/ AwaitReady(c) \/ AwaitFails(c) \/ ReadFails(c)
             \/ LockPeerData(c) \/ PeerDataFails(c) \/ ReadPayload(c) \/ Pop(c) \/ OnConnected(c)
             \/ OnRefusedOrDisconnect(c) \/ OnRecvData(c) \/ WriteFails(c) \/ ShutClose(c)
             \/ ShutConn(c) \/ ShutSlot(c) \/ ClientCloses(c)
      PROVE  i2o' = i2o
  BY <1>2 DEF Accept, Insert, StartLoop, AwaitReady, AwaitFails, ReadFails, LockPeerData, PeerDataFails,
              ReadPayload, Pop, OnConnected, OnRefusedOrDisconnect, OnRecvData, WriteFails, ShutClose,
              ShutConn, ShutSlot, ClientCloses
<1>3. CASE AcceptEnds \/ Reserve \/ Spawn \/ Input \/ StopBegin \/ StopMark \/ StopListener \/ StopReturn
  BY <1>3 DEF AcceptEnds, Reserve, Spawn, Input, StopBegin, StopMark, StopListener, StopReturn
<1> QED BY <1>1, <1>2, <1>3 DEF Next, MainStep, LoopStep, Shutdown

LEMMA OneTaken ==
    ASSUME Next
    PROVE  o2i' = o2i \/ (o2i # <<>> /\ o2i' = Tail(o2i))
<1>1. ASSUME NEW c \in Ids,
             Accept(c) \/ MainStep(c) \/ ReadPayload(c) \/ LoopStep(c) \/ Shutdown(c) \/ ClientCloses(c)
      PROVE  o2i' = o2i
  BY <1>1 DEF Accept, MainStep, Insert, StartLoop, OnStart, AwaitReady, AwaitFails, ReadFails, LockPeerData,
              SendPeerData, PeerDataFails, ReadPayload, LoopStep, Pop, OnConnected, OnRefusedOrDisconnect,
              OnRecvData, WriteDone, WriteFails, Shutdown, ShutClose, ShutBye, ShutConn, ShutSlot, ClientCloses
<1>2. CASE AcceptEnds \/ Reserve \/ Spawn \/ StopBegin \/ StopMark \/ StopListener \/ StopReturn
  BY <1>2 DEF AcceptEnds, Reserve, Spawn, StopBegin, StopMark, StopListener, StopReturn
<1>3. CASE Input
  BY <1>3 DEF Input
<1> QED BY <1>1, <1>2, <1>3 DEF Next

\* A step leaves the route alone, takes the first message off it, or sends one.
LEMMA OneMessage ==
    ASSUME Typed, [Next \/ AnyOutlet]_vars
    PROVE  \/ i2o' = i2o
           \/ i2o # <<>> /\ i2o' = Tail(i2o)
           \/ \E c \in Ids, m \in Sends : Speaks(c, m) /\ i2o' = Append(i2o, m)
BY OneSent DEF AnyOutlet, vars

LEMMA SentInit == Init => Sent
BY DEF Init, Sent

LEMMA SentStep == Typed /\ Sent /\ [Next \/ AnyOutlet]_vars => Sent'
<1> SUFFICES ASSUME Typed, i2o \in Seq(Sends), [Next \/ AnyOutlet]_vars PROVE i2o' \in Seq(Sends)
  BY DEF Sent
<1>1. i2o # <<>> => Tail(i2o) \in Seq(Sends)
  OBVIOUS
<1>2. \A m \in Sends : Append(i2o, m) \in Seq(Sends)
  OBVIOUS
<1> QED BY <1>1, <1>2, OneMessage

\* A session that has said goodbye sends no connect and no payload.
LEMMA GoodbyeIsLast ==
    ASSUME Typed, Sent, [Next \/ AnyOutlet]_vars, NEW c \in Ids, Closed(c)
    PROVE  \A n \in 0 .. MaxUp : i2o' # Append(i2o, Connect(c)) /\ i2o' # Append(i2o, SendData(c, n))
<1> SUFFICES ASSUME NEW n \in 0 .. MaxUp, NEW w \in {Connect(c), SendData(c, n)}, i2o' = Append(i2o, w)
             PROVE  FALSE
  OBVIOUS
<1>1. w \in Sends /\ i2o \in Seq(Sends)
  BY SendsTyped, InletAssumption DEF Sent
<1>2. PICK d \in Ids, m \in Sends : Speaks(d, m) /\ i2o' = Append(i2o, m)
  BY <1>1, OneMessage, AppendsDiffer
<1>3. m = w
  BY <1>1, <1>2, AppendsDiffer
<1>4. m.id = d
  BY <1>2 DEF Speaks, Connect, RecvResult, Disconnect, SendData
<1>5. w.id = c /\ w.type \notin {"I2ODisconnect", "I2ORecvDataResult"}
  BY DEF Connect, SendData
<1>7. ~Closed(d)
  BY <1>2, <1>3, <1>5 DEF Speaks, RecvResult, Disconnect
<1> QED BY <1>3, <1>4, <1>5, <1>7

\* Nothing but acknowledgements follows the goodbye of a session, whatever the
\* outlet does and however Stop, the client and the loops end the session.
THEOREM GoodbyeIsTheEnd == Spec => SilentAfterGoodbye
<1>1. Typed /\ Sent /\ [Next \/ AnyOutlet]_vars =>
        [\A c \in Ids :
           sess[c] \in {"bye", "unlinked", "done"} =>
             \A n \in 0 .. MaxUp : i2o' # Append(i2o, Connect(c)) /\ i2o' # Append(i2o, SendData(c, n))]_vars
  BY GoodbyeIsLast DEF Closed
<1> QED BY <1>1, TypedInit, TypedStep, SentInit, SentStep, PTL DEF Spec, SilentAfterGoodbye

-----------------------------------------------------------------------------
\* What one step of the inlet does for one session, in the terms in which the
\* other end and the route between them see it.
Early == {"none", "insert", "spawn", "start"}
Over == {"shutting", "gone"}
Holding == {"lock", "credit"}

\* Goroutines go on in one direction only, and a session enters the map once.
Advances(c) ==
    /\ main'[c] \in Early => main[c] \in Early
    /\ main'[c] = "read" => main[c] \in {"read", "credit"} \/ ready[c]
    /\ main[c] \in Over => main'[c] \in Over
    /\ loop[c] \in Over => loop'[c] \in Over
    /\ sess'[c] = "live" => sess[c] = "live" \/ main[c] = "insert"

\* No payload is taken or sent.
KeepsPace(c) ==
    main'[c] \in Over \/ (main[c] \notin Over /\ (main[c] \in Holding <=> main'[c] \in Holding))

Rests(c) ==
    /\ UNCHANGED <<ready[c], flow[c], inputQ[c], cur[c], up[c], down[c]>> /\ KeepsPace(c)
    /\ \/ i2o' = i2o
       \/ \E m \in Sends :
            /\ i2o' = Append(i2o, m)
            /\ m.id = c => 
                 \/ m.type = "I2ODisconnect"
                 \/ m.type = "I2OConnect" /\ main[c] \in Early /\ main'[c] \notin Early
    /\ \/ o2i' = o2i
       \/ o2i # <<>> /\ o2i' = Tail(o2i) /\ (Head(o2i).id # c \/ sess'[c] # "live")

Empties(c) ==
    /\ sess[c] # "live" /\ sess'[c] # "live" /\ flow'[c] = 0 /\ inputQ'[c] = <<>>
    /\ UNCHANGED <<ready[c], cur[c], up[c], down[c], i2o, o2i>> /\ KeepsPace(c)

TakesPayload(c) ==
    /\ main[c] = "read" /\ main'[c] = "lock" /\ up'[c] = up[c] + 1
    /\ UNCHANGED <<ready[c], flow[c], inputQ[c], cur[c], down[c], i2o, o2i>>

SendsPayload(c) ==
    /\ main[c] = "credit" /\ main'[c] = "read" /\ flow'[c] = flow[c] + 1
    /\ i2o' = Append(i2o, SendData(c, up[c]))
    /\ UNCHANGED <<ready[c], inputQ[c], cur[c], up[c], down[c], o2i>>

PopsMessage(c) ==
    /\ loop[c] = "pop" /\ inputQ[c] # <<>>
    /\ cur'[c] = Head(inputQ[c]) /\ inputQ'[c] = Tail(inputQ[c])
    /\ UNCHANGED <<ready[c], flow[c], up[c], down[c], i2o, o2i>> /\ KeepsPace(c)

BecomesReady(c) ==
    /\ cur[c] \in InMessages /\ cur[c].type = "O2IConnect" /\ cur[c].ok /\ cur'[c] = None /\ ready'[c]
    /\ UNCHANGED <<flow[c], inputQ[c], up[c], down[c], i2o, o2i>> /\ KeepsPace(c)

GivesUp(c) ==
    /\ cur'[c] = None /\ loop'[c] \in Over /\ sess'[c] # "live"
    /\ UNCHANGED <<ready[c], flow[c], inputQ[c], up[c], down[c], i2o, o2i>> /\ KeepsPace(c)

WritesPayload(c) ==
    /\ cur[c] \in InMessages /\ cur[c].type = "O2IRecvData" /\ cur'[c] = None
    /\ down'[c] = Append(down[c], cur[c].n) /\ i2o' = Append(i2o, RecvResult(c))
    /\ UNCHANGED <<ready[c], flow[c], inputQ[c], up[c], o2i>> /\ KeepsPace(c)

GetsCredit(c) ==
    /\ sess[c] = "live" /\ o2i # <<>> /\ o2i' = Tail(o2i)
    /\ Head(o2i).id = c /\ Head(o2i).type = "O2ISendDataResult"
    /\ flow'[c] = IF flow[c] = 0 THEN 0 ELSE flow[c] - 1
    /\ UNCHANGED <<ready[c], inputQ[c], cur[c], up[c], down[c], i2o>> /\ KeepsPace(c)

GetsMessage(c) ==
    /\ sess[c] = "live" /\ o2i # <<>> /\ o2i' = Tail(o2i)
    /\ Head(o2i).id = c /\ Head(o2i).type # "O2ISendDataResult"
    /\ inputQ'[c] = Append(inputQ[c], Head(o2i))
    /\ UNCHANGED <<ready[c], flow[c], cur[c], up[c], down[c], i2o>> /\ KeepsPace(c)

Effect(c) ==
    \/ Rests(c) \/ Empties(c) \/ TakesPayload(c) \/ SendsPayload(c) \/ PopsMessage(c)
    \/ BecomesReady(c) \/ GivesUp(c) \/ WritesPayload(c) \/ GetsCredit(c) \/ GetsMessage(c)

\* Each goroutine moves along its own phases.
LEMMA SessionAdvances ==
    ASSUME SlotInv, StopInv, Next, NEW c \in Ids
    PROVE  Advances(c)
<1>0. Control /\ Data /\ InHand /\ Ownership /\ ClosersKnown
  BY TypedParts DEF SlotInv, StopInv
<1> USE <1>0 DEF stopVars, sessVars, goVars, dataVars, Advances, Early, Over, Control, InHand
<1>1. ASSUME NEW d \in Ids, Accept(d) \/ ReadPayload(d) \/ ClientCloses(d) PROVE Advances(c)
  BY <1>1 DEF Accept, ReadPayload, ClientCloses
<1>2. ASSUME NEW d \in Ids, MainStep(d) PROVE Advances(c)
  <2>1. CASE Insert(d)
    BY <2>1 DEF Insert
  <2>2. CASE StartLoop(d)
    BY <2>2 DEF StartLoop, MainCloses, Remove, ClosersKnown
  <2>3. CASE OnStart(d)
    BY <2>3 DEF OnStart, MainCloses, Remove
  <2>4. CASE AwaitReady(d) \/ LockPeerData(d) \/ SendPeerData(d)
    BY <2>4 DEF AwaitReady, LockPeerData, SendPeerData
  <2>5. CASE AwaitFails(d) \/ ReadFails(d) \/ PeerDataFails(d)
    <3>1. MainCloses(d) /\ main[d] \notin Over /\ UNCHANGED loop
      BY <2>5 DEF AwaitFails, ReadFails, PeerDataFails
    <3> QED BY <3>1 DEF MainCloses, Remove
  <2> QED BY <1>2, <2>1, <2>2, <2>3, <2>4, <2>5 DEF MainStep
<1>3. ASSUME NEW d \in Ids, LoopStep(d) PROVE Advances(c)
  <2>1. CASE Pop(d) \/ OnConnected(d) \/ OnRecvData(d) \/ WriteDone(d)
    BY <2>1 DEF Pop, OnConnected, OnRecvData, WriteDone
  <2>2. CASE OnRefusedOrDisconnect(d) \/ WriteFails(d)
    <3>1. LoopCloses(d) /\ loop[d] \notin Over /\ UNCHANGED main
      BY <2>2 DEF OnRefusedOrDisconnect, WriteFails
    <3> QED BY <3>1 DEF LoopCloses, Remove
  <2> QED BY <1>3, <2>1, <2>2 DEF LoopStep
<1>4. ASSUME NEW d \in Ids, Shutdown(d) PROVE Advances(c)
  BY <1>4 DEF Shutdown, ShutClose, ShutBye, ShutConn, ShutSlot
<1>5. CASE AcceptEnds \/ Reserve \/ StopBegin \/ StopMark \/ StopListener \/ StopReturn
  BY <1>5 DEF AcceptEnds, Reserve, StopBegin, StopMark, StopListener, StopReturn
<1>6. CASE Spawn
  <2>1. main[accConn] = "none" /\ accConn \in Ids
    BY <1>6 DEF Spawn, Ownership
  <2> QED BY <1>6, <2>1 DEF Spawn
<1>7. CASE Input
  <2>1. UNCHANGED goVars
    BY <1>7 DEF Input
  <2>2. UNCHANGED sess \/ \E d : sess' = [sess EXCEPT ![d] = "removed"]
    BY <1>7 DEF Input, Overflow, Remove
  <2> QED BY <2>1, <2>2
<1> QED BY <1>1, <1>2, <1>3, <1>4, <1>5, <1>6, <1>7 DEF Next

\* Leaving the data of a session alone is resting, if its pace is kept.
LEMMA SilentRests ==
    ASSUME UNCHANGED <<ready, dataVars, cur, i2o, o2i>>, NEW c \in Ids, KeepsPace(c)
    PROVE  Rests(c)
BY DEF Rests, dataVars

LEMMA ClosingKeepsPace ==
    ASSUME Control, NEW c \in Ids, NEW d \in Ids
    PROVE  /\ MainCloses(d) => KeepsPace(c)
           /\ main' = main => KeepsPace(c)
           /\ LoopCloses(d) => sess'[d] # "live" /\ loop'[d] \in Over
<1>1. MainCloses(d) => \E pc \in Over : main' = [main EXCEPT ![d] = pc]
  BY DEF MainCloses, Over
<1>2. ASSUME NEW pc \in Over, main' = [main EXCEPT ![d] = pc] PROVE KeepsPace(c)
  BY <1>2 DEF KeepsPace, Over, Holding, Control
<1>3. main' = main => KeepsPace(c)
  BY DEF KeepsPace
<1>4. ASSUME LoopCloses(d) PROVE sess'[d] # "live" /\ loop'[d] \in Over
  <2>1. CASE Remove(d, "loop") /\ loop' = [loop EXCEPT ![d] = "shutting"]
    BY <2>1 DEF Remove, Over, Control
  <2>2. CASE sess[d] # "live" /\ loop' = [loop EXCEPT ![d] = "gone"] /\ UNCHANGED sessVars
    BY <2>2 DEF Over, Control, sessVars
  <2> QED BY <1>4, <2>1, <2>2 DEF LoopCloses
<1> QED BY <1>1, <1>2, <1>3, <1>4

\* Every step of the inlet is, for every session, one of these.
LEMMA SessionStep ==
    ASSUME SlotInv, StopInv, Next, NEW c \in Ids
    PROVE  Effect(c)
<1>0. Control /\ Data /\ InHand /\ Ownership /\ ClosersKnown
  BY TypedParts DEF SlotInv, StopInv
<1> USE <1>0 DEF stopVars, sessVars, goVars, dataVars, Effect
<1>1. ASSUME NEW d \in Ids, Accept(d) \/ ClientCloses(d) PROVE Effect(c)
  BY <1>1, SilentRests, ClosingKeepsPace DEF Accept, ClientCloses
<1>2. ASSUME NEW d \in Ids, MainStep(d) PROVE Effect(c)
  <2>1. CASE Insert(d) \/ AwaitReady(d) \/ LockPeerData(d)
    <3>1. UNCHANGED <<ready, dataVars, cur, i2o, o2i>>
      BY <2>1 DEF Insert, AwaitReady, LockPeerData
    <3>2. KeepsPace(c)
      BY <2>1 DEF Insert, AwaitReady, LockPeerData, KeepsPace, Over, Holding, Control
    <3> QED BY <3>1, <3>2, SilentRests
  <2>2. CASE AwaitFails(d) \/ ReadFails(d) \/ PeerDataFails(d)
    <3>1. UNCHANGED <<ready, dataVars, cur, i2o, o2i>> /\ MainCloses(d)
      BY <2>2 DEF AwaitFails, ReadFails, PeerDataFails
    <3> QED BY <3>1, SilentRests, ClosingKeepsPace
  <2>3. CASE StartLoop(d)
    <3>1. UNCHANGED <<ready, dataVars, cur, i2o, o2i>>
      BY <2>3 DEF StartLoop
    <3>2. KeepsPace(c)
      <4>1. MainCloses(d) \/ (main[d] = "spawn" /\ main' = [main EXCEPT ![d] = "start"])
        BY <2>3 DEF StartLoop
      <4> QED BY <4>1, ClosingKeepsPace DEF KeepsPace, Over, Holding, Control
    <3> QED BY <3>1, <3>2, SilentRests
  <2>4. CASE OnStart(d)
    <3>1. CASE UNCHANGED i2o /\ MainCloses(d)
      BY <2>4, <3>1, SilentRests, ClosingKeepsPace DEF OnStart
    <3>2. CASE Output(Connect(d)) /\ main' = [main EXCEPT ![d] = "await"]
      <4>1. UNCHANGED <<ready, dataVars, cur, o2i>> /\ main[d] = "start"
        BY <2>4 DEF OnStart
      <4>2. KeepsPace(c)
        BY <3>2, <4>1 DEF KeepsPace, Over, Holding, Control
      <4>3. Connect(d) \in Sends /\ Connect(d).id = d /\ Connect(d).type = "I2OConnect"
        BY SendsTyped DEF Connect
      <4>4. d = c => main[c] \in Early /\ main'[c] \notin Early
        BY <3>2, <4>1 DEF Early, Control
      <4> QED BY <3>2, <4>1, <4>2, <4>3, <4>4 DEF Rests, Output
    <3> QED BY <2>4, <3>1, <3>2 DEF OnStart
  <2>5. CASE SendPeerData(d)
    <3>1. /\ main[d] = "credit" /\ main' = [main EXCEPT ![d] = "read"] /\ flow' = [flow EXCEPT ![d] = @ + 1]
          /\ i2o' = Append(i2o, SendData(d, up[d])) /\ UNCHANGED <<ready, inputQ, cur, up, down, o2i>>
      BY <2>5 DEF SendPeerData, Output
    <3>2. CASE d = c
      BY <3>1, <3>2 DEF SendsPayload, Control, Data
    <3>3. CASE d # c
      <4>1. up[d] \in Nat
        BY InletAssumption DEF Data
      <4>2. SendData(d, up[d]) \in Sends /\ SendData(d, up[d]).id = d
        BY <4>1, SendsTyped DEF SendData
      <4> QED BY <3>1, <3>3, <4>2 DEF Rests, KeepsPace, Over, Control, Data
    <3> QED BY <3>2, <3>3
  <2> QED BY <1>2, <2>1, <2>2, <2>3, <2>4, <2>5 DEF MainStep
<1>3. ASSUME NEW d \in Ids, ReadPayload(d) PROVE Effect(c)
  <2>1. CASE d = c
    BY <1>3, <2>1 DEF ReadPayload, TakesPayload, Control, Data
  <2>2. CASE d # c
    BY <1>3, <2>2 DEF ReadPayload, Rests, KeepsPace, Over, Control, Data
  <2> QED BY <2>1, <2>2
<1>4. ASSUME NEW d \in Ids, LoopStep(d) PROVE Effect(c)
  <2>0. main' = main /\ UNCHANGED <<flow, up, o2i>>
    BY <1>4 DEF LoopStep, Pop, OnConnected, OnRefusedOrDisconnect, OnRecvData, WriteDone, WriteFails
  <2>1. KeepsPace(c)
    BY <2>0, ClosingKeepsPace
  <2>2. CASE Pop(d)
    <3>1. CASE UNCHANGED <<cur, inputQ>>
      BY <2>1, <2>2, <3>1, SilentRests DEF Pop
    <3>2. CASE inputQ[d] # <<>> /\ cur' = [cur EXCEPT ![d] = Head(inputQ[d])] /\ inputQ' = [inputQ EXCEPT ![d] = Tail(@)]
      BY <2>0, <2>1, <2>2, <3>2 DEF Pop, PopsMessage, Rests, Data
    <3> QED BY <2>2, <3>1, <3>2 DEF Pop
  <2>3. CASE OnConnected(d)
    <3>1. /\ loop[d] = "lock" /\ cur[d].type = "O2IConnect" /\ cur[d].ok /\ ready' = [ready EXCEPT ![d] = TRUE]
          /\ cur' = [cur EXCEPT ![d] = None] /\ UNCHANGED <<inputQ, down, i2o>>
      BY <2>3 DEF OnConnected
    <3>2. cur[d] \in InMessages
      BY <3>1 DEF InHand
    <3>4. CASE d = c
      BY <2>0, <2>1, <3>1, <3>2, <3>4 DEF BecomesReady, Control, Data
    <3>5. CASE d # c
      BY <2>0, <2>1, <3>1, <3>5 DEF Rests, Control, Data
    <3> QED BY <3>4, <3>5
  <2>4. CASE OnRefusedOrDisconnect(d) \/ WriteFails(d)
    <3>1. LoopCloses(d) /\ cur' = [cur EXCEPT ![d] = None] /\ UNCHANGED <<ready, inputQ, down, i2o>>
      BY <2>4 DEF OnRefusedOrDisconnect, WriteFails
    <3>2. CASE d = c
      BY <2>0, <2>1, <3>1, <3>2, ClosingKeepsPace DEF GivesUp, Data
    <3>3. CASE d # c
      BY <2>0, <2>1, <3>1, <3>3 DEF Rests, Data
    <3> QED BY <3>2, <3>3
  <2>5. CASE OnRecvData(d)
    BY <2>0, <2>1, <2>5, SilentRests DEF OnRecvData
  <2>6. CASE WriteDone(d)
    <3>1. /\ loop[d] = "write" /\ down' = [down EXCEPT ![d] = Append(@, cur[d].n)] /\ cur' = [cur EXCEPT ![d] = None]
          /\ i2o' = Append(i2o, RecvResult(d)) /\ UNCHANGED <<ready, inputQ>>
      BY <2>6 DEF WriteDone, Acknowledge, Output
    <3>2. cur[d] \in InMessages /\ cur[d].type = "O2IRecvData"
      BY <3>1 DEF InHand
    <3>3. RecvResult(d) \in Sends /\ RecvResult(d).id = d
      BY SendsTyped DEF RecvResult
    <3>4. CASE d = c
      BY <2>0, <2>1, <3>1, <3>2, <3>4 DEF WritesPayload, Data
    <3>5. CASE d # c
      BY <2>0, <2>1, <3>1, <3>3, <3>5 DEF Rests, Data
    <3> QED BY <3>4, <3>5
  <2> QED BY <1>4, <2>2, <2>3, <2>4, <2>5, <2>6 DEF LoopStep
<1>5. ASSUME NEW d \in Ids, Shutdown(d) PROVE Effect(c)
  <2>1. KeepsPace(c)
    BY <1>5 DEF Shutdown, ShutClose, ShutBye, ShutConn, ShutSlot, KeepsPace, Over, Control
  <2>2. CASE ShutClose(d)
    <3>1. /\ sess[d] = "removed" /\ sess' = [sess EXCEPT ![d] = "closed"] /\ flow' = [flow EXCEPT ![d] = 0]
          /\ inputQ' = [inputQ EXCEPT ![d] = <<>>] /\ UNCHANGED <<ready, cur, up, down, i2o, o2i>>
      BY <2>2 DEF ShutClose
    <3>2. CASE d = c
      BY <2>1, <3>1, <3>2 DEF Empties, Control, Data
    <3>3. CASE d # c
      BY <2>1, <3>1, <3>3 DEF Rests, Data
    <3> QED BY <3>2, <3>3
  <2>3. CASE ShutBye(d)
    <3>1. Disconnect(d) \in Sends /\ Disconnect(d).type = "I2ODisconnect"
      BY SendsTyped DEF Disconnect
    <3>2. UNCHANGED <<ready, cur, dataVars, o2i>> /\ i2o' = Append(i2o, Disconnect(d))
      BY <2>3 DEF ShutBye, Output
    <3> QED BY <2>1, <3>1, <3>2 DEF Rests
  <2>4. CASE ShutConn(d) \/ ShutSlot(d)
    BY <2>1, <2>4, SilentRests DEF ShutConn, ShutSlot
  <2> QED BY <1>5, <2>2, <2>3, <2>4 DEF Shutdown
<1>6. CASE AcceptEnds \/ Reserve \/ StopBegin \/ StopMark \/ StopListener \/ StopReturn
  BY <1>6, SilentRests, ClosingKeepsPace DEF AcceptEnds, Reserve, StopBegin, StopMark, StopListener, StopReturn
<1>7. CASE Spawn
  <2>1. main[accConn] = "none" /\ accConn \in Ids /\ UNCHANGED <<ready, dataVars, cur, i2o, o2i>>
    BY <1>7 DEF Spawn, Ownership, InHand
  <2>2. KeepsPace(c)
    BY <1>7, <2>1 DEF Spawn, KeepsPace, Over, Holding, Control
  <2> QED BY <2>1, <2>2, SilentRests
<1>8. CASE Input
  <2> DEFINE m == Head(o2i)
  <2>1. /\ o2i # <<>> /\ o2i' = Tail(o2i) /\ UNCHANGED <<ready, cur, up, down, i2o>> /\ main' = main
    BY <1>8 DEF Input
  <2>2. KeepsPace(c)
    BY <2>1, ClosingKeepsPace
  <2>3. m.id \in Ids
    <3>1. \A q \in Seq(InMessages) : q # <<>> => Head(q) \in InMessages
      OBVIOUS
    <3> QED BY <2>1, <3>1 DEF InHand, InMessages
  <2> HIDE DEF m
  <2>4. \/ sess[m.id] # "live" /\ UNCHANGED <<sessVars, flow, inputQ>>
        \/ /\ sess[m.id] = "live" /\ m.type = "O2ISendDataResult"
           /\ flow' = [flow EXCEPT ![m.id] = IF @ = 0 THEN 0 ELSE @ - 1] /\ UNCHANGED <<sessVars, inputQ>>
        \/ /\ sess[m.id] = "live" /\ m.type # "O2ISendDataResult"
           /\ inputQ' = [inputQ EXCEPT ![m.id] = Append(@, m)] /\ UNCHANGED <<sessVars, flow>>
        \/ sess' = [sess EXCEPT ![m.id] = "removed"] /\ UNCHANGED <<flow, inputQ>>
    BY <1>8 DEF Input, Overflow, Remove, m
  <2>5. CASE m.id = c
    <3>1. sess'[c] # "live" /\ UNCHANGED <<flow, inputQ>> => Rests(c)
      BY <2>1, <2>2 DEF Rests
    <3>2. CASE sess[c] = "live" /\ m.type = "O2ISendDataResult"
            /\ flow' = [flow EXCEPT ![c] = IF @ = 0 THEN 0 ELSE @ - 1] /\ UNCHANGED <<sessVars, inputQ>>
      BY <2>1, <2>2, <2>5, <3>2 DEF GetsCredit, Data, m
    <3>3. CASE sess[c] = "live" /\ m.type # "O2ISendDataResult"
            /\ inputQ' = [inputQ EXCEPT ![c] = Append(@, m)] /\ UNCHANGED <<sessVars, flow>>
      BY <2>1, <2>2, <2>5, <3>3 DEF GetsMessage, Data, m
    <3> QED BY <2>4, <2>5, <3>1, <3>2, <3>3 DEF Control
  <2>6. CASE m.id # c
    <3>1. flow'[c] = flow[c] /\ inputQ'[c] = inputQ[c]
      BY <2>4, <2>6 DEF Data
    <3> QED BY <2>1, <2>2, <2>6, <3>1 DEF Rests, m
  <2> QED BY <2>5, <2>6
<1> QED BY <1>1, <1>2, <1>3, <1>4, <1>5, <1>6, <1>7, <1>8 DEF Next

\* What goes out on the route comes from the session it names.
LEMMA WhoSpeaks ==
    ASSUME SlotInv, StopInv, Sent, Next, NEW m \in Sends, i2o' = Append(i2o, m)
    PROVE  /\ m.id \in Ids
           /\ m.type = "I2OSendData" => SendsPayload(m.id) /\ m.n = up[m.id]
           /\ m.type = "I2ORecvDataResult" => WritesPayload(m.id)
           /\ m.type = "I2OConnect" => Rests(m.id) /\ main[m.id] \in Early /\ main'[m.id] \notin Early
<1> DEFINE c == m.id
<1>1. c \in Ids
  BY DEF Sends
<1>2. Effect(c)
  BY <1>1, SessionStep
<1>3. i2o \in Seq(Sends) /\ i2o' # i2o
  BY AppendsDiffer DEF Sent
<1>4. \A w \in Sends : i2o' = Append(i2o, w) => w = m
  BY <1>3, AppendsDiffer
<1>5. RecvResult(c) \in Sends /\ RecvResult(c).type = "I2ORecvDataResult"
  BY <1>1, SendsTyped DEF RecvResult
<1>6. up[c] \in Nat
  BY <1>1, InletAssumption, TypedParts DEF SlotInv, Data
<1>7. SendData(c, up[c]) \in Sends /\ SendData(c, up[c]).type = "I2OSendData" /\ SendData(c, up[c]).n = up[c]
  BY <1>1, <1>6, SendsTyped DEF SendData
<1>8. ~Empties(c) /\ ~TakesPayload(c) /\ ~PopsMessage(c) /\ ~BecomesReady(c) /\ ~GivesUp(c)
        /\ ~GetsCredit(c) /\ ~GetsMessage(c)
  BY <1>3 DEF Empties, TakesPayload, PopsMessage, BecomesReady, GivesUp, GetsCredit, GetsMessage
<1> HIDE DEF c
<1>9. CASE Rests(c)
  <2>1. c = m.id
    BY DEF c
  <2>2. \/ m.type = "I2ODisconnect"
        \/ m.type = "I2OConnect" /\ main[c] \in Early /\ main'[c] \notin Early
    BY <1>3, <1>4, <1>9, <2>1 DEF Rests
  <2> QED BY <1>1, <1>9, <2>1, <2>2
<1>10. CASE SendsPayload(c)
  <2>1. m = SendData(c, up[c])
    BY <1>4, <1>7, <1>10 DEF SendsPayload
  <2> QED BY <1>1, <1>7, <1>10, <2>1 DEF c
<1>11. CASE WritesPayload(c)
  <2>1. m = RecvResult(c)
    BY <1>4, <1>5, <1>11 DEF WritesPayload
  <2> QED BY <1>1, <1>5, <1>11, <2>1 DEF c
<1> QED BY <1>2, <1>8, <1>9, <1>10, <1>11 DEF Effect

-----------------------------------------------------------------------------
\* The loop has no message in hand before and between messages.
HandsFree == \A c \in Ids : loop[c] \in {"none", "pop"} => cur[c] = None

LEMMA HandsFreeInit == Init => HandsFree
BY DEF Init, HandsFree

LEMMA HandsFreeStep == SlotInv /\ StopInv /\ HandsFree /\ [Next \/ AnyOutlet]_vars => HandsFree'
<1> SUFFICES ASSUME SlotInv, StopInv, HandsFree, [Next \/ AnyOutlet]_vars PROVE HandsFree'
  OBVIOUS
<1>0. Control /\ Data /\ InHand /\ ClosersKnown
  BY TypedParts DEF SlotInv, StopInv
<1> USE <1>0 DEF stopVars, sessVars, goVars, dataVars, HandsFree
<1>1. ASSUME NEW c \in Ids, LoopStep(c) PROVE HandsFree'
  <2>1. CASE Pop(c)
    <3>1. \/ loop' = [loop EXCEPT ![c] = "lock"] /\ \A d \in Ids \ {c} : cur'[d] = cur[d]
          \/ loop' = [loop EXCEPT ![c] = "gone"] /\ cur' = cur
      BY <2>1 DEF Pop, Data
    <3> QED BY <3>1 DEF Control
  <2>2. CASE OnRecvData(c)
    BY <2>2 DEF OnRecvData, Control
  <2>3. CASE OnConnected(c) \/ OnRefusedOrDisconnect(c) \/ WriteDone(c) \/ WriteFails(c)
    <3>1. cur' = [cur EXCEPT ![c] = None] /\ \E pc : loop' = [loop EXCEPT ![c] = pc]
      BY <2>3 DEF OnConnected, OnRefusedOrDisconnect, WriteDone, WriteFails, LoopCloses
    <3> QED BY <3>1 DEF Control, Data
  <2> QED BY <1>1, <2>1, <2>2, <2>3 DEF LoopStep
<1>2. ASSUME NEW c \in Ids, StartLoop(c) PROVE HandsFree'
  <2>1. loop[c] = "none" /\ UNCHANGED cur
    BY <1>2 DEF StartLoop, ClosersKnown
  <2> QED BY <1>2, <2>1 DEF StartLoop, Control
<1>3. ASSUME NEW c \in Ids, ShutSlot(c) PROVE HandsFree'
  BY <1>3 DEF ShutSlot, Control
<1>4. ASSUME NEW c \in Ids,
             \/ Accept(c) \/ Insert(c) \/ OnStart(c) \/ AwaitReady(c) \/ AwaitFails(c) \/ ReadFails(c)
             \/ LockPeerData(c) \/ SendPeerData(c) \/ PeerDataFails(c) \/ ReadPayload(c) \/ ShutClose(c)
             \/ ShutBye(c) \/ ShutConn(c) \/ ClientCloses(c)
      PROVE  UNCHANGED <<loop, cur>>
  BY <1>4 DEF Accept, Insert, OnStart, AwaitReady, AwaitFails, ReadFails, LockPeerData, SendPeerData,
              PeerDataFails, ReadPayload, ShutClose, ShutBye, ShutConn, ClientCloses
<1>5. CASE \/ AcceptEnds \/ Reserve \/ Spawn \/ Input \/ StopBegin \/ StopMark \/ StopListener \/ StopReturn
           \/ AnyOutlet \/ UNCHANGED vars
  BY <1>5 DEF AcceptEnds, Reserve, Spawn, Input, StopBegin, StopMark, StopListener, StopReturn, AnyOutlet, vars
<1> QED BY <1>1, <1>2, <1>3, <1>4, <1>5 DEF Next, MainStep, Shutdown

\* A message of a session is handled by that session.
Fed ==
    \A c \in Ids :
      /\ \A k \in 1 .. Len(inputQ[c]) : inputQ[c][k].id = c
      /\ cur[c] # None => cur[c].id = c

\* Payloads are read once the session is ready, and charged once they are read.
Paced ==
    \A c \in Ids :
      /\ main[c] = "read" \/ main[c] \in Holding \/ up[c] # 0 => ready[c]
      /\ main[c] \in Holding \/ flow[c] # 0 => up[c] # 0

\* What is on the route is there for a reason, a connect once at most.
Asked ==
    /\ \A k \in 1 .. Len(i2o) :
         /\ i2o[k].type = "I2OSendData" => up[i2o[k].id] # 0
         /\ i2o[k].type = "I2ORecvDataResult" => down[i2o[k].id] # <<>>
         /\ i2o[k].type = "I2OConnect" => main[i2o[k].id] \notin Early
    /\ \A j, k \in 1 .. Len(i2o) :
         i2o[j].type = "I2OConnect" /\ i2o[k].type = "I2OConnect" /\ i2o[j].id = i2o[k].id => j = k

Reasons == HandsFree /\ Fed /\ Paced /\ Asked

\* The messages of a sequence after one is appended, or taken off its head
LEMMA Elements ==
    ASSUME NEW S, NEW q \in Seq(S)
    PROVE  /\ \A m \in S : \A k \in 1 .. Len(Append(q, m)) :
                \/ k \in 1 .. Len(q) /\ Append(q, m)[k] = q[k]
                \/ k = Len(q) + 1 /\ Append(q, m)[k] = m
           /\ Len(q) + 1 \notin 1 .. Len(q)
           /\ q # <<>> =>
                /\ Head(q) \in S /\ Head(q) = q[1] /\ 1 \in 1 .. Len(q)
                /\ \A k \in 1 .. Len(Tail(q)) :
                     k \in Int /\ k + 1 \in 1 .. Len(q) /\ Tail(q)[k] = q[k + 1]
OBVIOUS

LEMMA ReasonsInit == Init => Reasons
<1>1. Len(<<>>) = 0
  OBVIOUS
<1> QED BY <1>1, HandsFreeInit DEF Init, Reasons, Fed, Paced, Asked, Holding

LEMMA FedStep == SlotInv /\ StopInv /\ Fed /\ Next => Fed'
<1> SUFFICES ASSUME SlotInv, StopInv, Fed, Next, NEW c \in Ids
             PROVE  /\ \A k \in 1 .. Len(inputQ'[c]) : inputQ'[c][k].id = c
                    /\ cur'[c] # None => cur'[c].id = c
  BY DEF Fed
<1>0. inputQ[c] \in Seq(InMessages) /\ o2i \in Seq(InMessages)
  BY TypedParts DEF SlotInv, Data, InHand
<1>1. CASE Rests(c) \/ TakesPayload(c) \/ SendsPayload(c) \/ GetsCredit(c)
  BY <1>1 DEF Rests, TakesPayload, SendsPayload, GetsCredit, Fed
<1>2. CASE BecomesReady(c) \/ GivesUp(c) \/ WritesPayload(c)
  BY <1>2 DEF BecomesReady, GivesUp, WritesPayload, Fed
<1>3. CASE Empties(c)
  <2>1. Len(<<>>) = 0
    OBVIOUS
  <2> QED BY <1>3, <2>1 DEF Empties, Fed
<1>4. CASE PopsMessage(c)
  BY <1>0, <1>4, Elements DEF PopsMessage, Fed
<1>5. CASE GetsMessage(c)
  BY <1>0, <1>5, Elements DEF GetsMessage, Fed
<1> QED BY <1>1, <1>2, <1>3, <1>4, <1>5, SessionStep DEF Effect

LEMMA PacedStep == SlotInv /\ StopInv /\ Paced /\ Next => Paced'
<1> SUFFICES ASSUME SlotInv, StopInv, Paced, Next, NEW c \in Ids
             PROVE  /\ main'[c] = "read" \/ main'[c] \in Holding \/ up'[c] # 0 => ready'[c]
                    /\ main'[c] \in Holding \/ flow'[c] # 0 => up'[c] # 0
  BY DEF Paced
<1>0. up[c] \in Nat /\ flow[c] \in Nat
  BY InletAssumption, TypedParts DEF SlotInv, Data
<1>1. main'[c] = "read" => main[c] \in {"read", "credit"} \/ ready[c]
  BY SessionAdvances DEF Advances
<1> USE <1>0, <1>1 DEF Paced, Holding, Over, KeepsPace
<1>2. CASE Rests(c)
  BY <1>2 DEF Rests
<1>3. CASE Empties(c)
  BY <1>3 DEF Empties
<1>4. CASE TakesPayload(c)
  BY <1>4 DEF TakesPayload
<1>5. CASE SendsPayload(c)
  BY <1>5 DEF SendsPayload
<1>6. CASE PopsMessage(c) \/ GivesUp(c) \/ WritesPayload(c) \/ GetsMessage(c)
  BY <1>6 DEF PopsMessage, GivesUp, WritesPayload, GetsMessage
<1>7. CASE BecomesReady(c)
  BY <1>7 DEF BecomesReady
<1>8. CASE GetsCredit(c)
  BY <1>8 DEF GetsCredit
<1> QED BY <1>2, <1>3, <1>4, <1>5, <1>6, <1>7, <1>8, SessionStep DEF Effect

\* What the reasons rest on never goes away.
LEMMA ReasonsStay ==
    ASSUME SlotInv, StopInv, Next, NEW c \in Ids
    PROVE  /\ up[c] # 0 => up'[c] # 0
           /\ down[c] # <<>> => down'[c] # <<>>
           /\ main[c] \notin Early => main'[c] \notin Early
<1>0. up[c] \in Nat /\ down[c] \in Seq(Nat)
  BY InletAssumption, TypedParts DEF SlotInv, Data
<1>1. main[c] \notin Early => main'[c] \notin Early
  BY SessionAdvances DEF Advances
<1>2. up'[c] = up[c] \/ up'[c] = up[c] + 1
  BY SessionStep DEF Effect, Rests, Empties, TakesPayload, SendsPayload, PopsMessage, BecomesReady, GivesUp,
                     WritesPayload, GetsCredit, GetsMessage
<1>3. down'[c] = down[c] \/ \E n \in Nat : down'[c] = Append(down[c], n)
  <2>1. WritesPayload(c) => \E n \in Nat : down'[c] = Append(down[c], n)
    BY PayloadHasNumber DEF WritesPayload
  <2> QED BY <2>1, SessionStep DEF Effect, Rests, Empties, TakesPayload, SendsPayload, PopsMessage, BecomesReady,
                     GivesUp, GetsCredit, GetsMessage
<1> QED BY <1>0, <1>1, <1>2, <1>3

LEMMA AskedStep == SlotInv /\ StopInv /\ Sent /\ Paced /\ Asked /\ Next => Asked'
<1> SUFFICES ASSUME SlotInv, StopInv, Sent, Paced, Asked, Next PROVE Asked'
  OBVIOUS
<1>0. i2o \in Seq(Sends) /\ \A k \in 1 .. Len(i2o) : i2o[k] \in Sends /\ i2o[k].id \in Ids
  BY DEF Sent, Sends
<1>1. CASE i2o' = i2o
  BY <1>0, <1>1, ReasonsStay DEF Asked
<1>2. CASE i2o # <<>> /\ i2o' = Tail(i2o)
  <2>1. \A k \in 1 .. Len(i2o') : k \in Int /\ k + 1 \in 1 .. Len(i2o) /\ i2o'[k] = i2o[k + 1]
    BY <1>0, <1>2, Elements
  <2>2. ASSUME NEW k \in 1 .. Len(i2o')
        PROVE  /\ i2o'[k].type = "I2OSendData" => up'[i2o'[k].id] # 0
               /\ i2o'[k].type = "I2ORecvDataResult" => down'[i2o'[k].id] # <<>>
               /\ i2o'[k].type = "I2OConnect" => main'[i2o'[k].id] \notin Early
    <3>1. k + 1 \in 1 .. Len(i2o) /\ i2o'[k] = i2o[k + 1]
      BY <2>1
    <3> QED BY <1>0, <3>1, ReasonsStay DEF Asked
  <2>3. ASSUME NEW j \in 1 .. Len(i2o'), NEW k \in 1 .. Len(i2o'), i2o'[j].type = "I2OConnect",
               i2o'[k].type = "I2OConnect", i2o'[j].id = i2o'[k].id
        PROVE  j = k
    <3>1. j + 1 = k + 1
      BY <2>1, <2>3 DEF Asked
    <3> QED BY <2>1, <3>1
  <2> QED BY <2>2, <2>3 DEF Asked
<1>3. ASSUME NEW m \in Sends, i2o' = Append(i2o, m) PROVE Asked'
  <2>1. \A k \in 1 .. Len(i2o') : (k \in 1 .. Len(i2o) /\ i2o'[k] = i2o[k]) \/ (k = Len(i2o) + 1 /\ i2o'[k] = m)
    BY <1>0, <1>3, Elements
  <2>2. m.id \in Ids /\ (m.type = "I2OSendData" => up'[m.id] # 0)
    BY <1>3, WhoSpeaks, ReasonsStay DEF SendsPayload, Paced, Holding
  <2>3. m.type = "I2ORecvDataResult" => down'[m.id] # <<>>
    <3>1. down[m.id] \in Seq(Nat)
      BY <2>2, TypedParts DEF SlotInv, Data
    <3>2. \A q \in Seq(Nat) : \A n \in Nat : Append(q, n) # <<>>
      OBVIOUS
    <3> QED BY <1>3, <3>1, <3>2, WhoSpeaks, PayloadHasNumber DEF WritesPayload
  <2>4. m.type = "I2OConnect" => main[m.id] \in Early /\ main'[m.id] \notin Early
    BY <1>3, WhoSpeaks
  <2>5. \A k \in 1 .. Len(i2o') :
          /\ i2o'[k].type = "I2OSendData" => up'[i2o'[k].id] # 0
          /\ i2o'[k].type = "I2ORecvDataResult" => down'[i2o'[k].id] # <<>>
          /\ i2o'[k].type = "I2OConnect" => main'[i2o'[k].id] \notin Early
    BY <1>0, <2>1, <2>2, <2>3, <2>4, ReasonsStay DEF Asked
  <2>6. \A j, k \in 1 .. Len(i2o') :
          i2o'[j].type = "I2OConnect" /\ i2o'[k].type = "I2OConnect" /\ i2o'[j].id = i2o'[k].id => j = k
    BY <2>1, <2>4 DEF Asked
  <2> QED BY <2>5, <2>6 DEF Asked
<1> QED BY <1>1, <1>2, <1>3, OneMessage DEF SlotInv

LEMMA ReasonsStep == SlotInv /\ StopInv /\ Sent /\ Reasons /\ [Next \/ AnyOutlet]_vars => Reasons'
<1> SUFFICES ASSUME SlotInv, StopInv, Sent, Reasons, [Next \/ AnyOutlet]_vars PROVE Reasons'
  OBVIOUS
<1>1. HandsFree'
  BY HandsFreeStep DEF Reasons
<1>2. CASE Next
  BY <1>1, <1>2, FedStep, PacedStep, AskedStep DEF Reasons
<1>3. CASE AnyOutlet \/ UNCHANGED vars
  <2>1. UNCHANGED <<inputQ, cur, main, up, down, ready, flow>>
    BY <1>3 DEF AnyOutlet, vars, goVars, dataVars
  <2>2. i2o' = i2o \/ (i2o # <<>> /\ i2o' = Tail(i2o))
    BY <1>3 DEF AnyOutlet, vars
  <2>3. i2o # <<>> => \A k \in 1 .. Len(Tail(i2o)) : k \in Int /\ k + 1 \in 1 .. Len(i2o) /\ Tail(i2o)[k] = i2o[k + 1]
    BY Elements DEF Sent
  <2>4. Asked'
    <3>1. Asked
      BY DEF Reasons
    <3>2. CASE i2o' = i2o
      BY <2>1, <3>1, <3>2 DEF Asked
    <3>3. CASE i2o # <<>> /\ i2o' = Tail(i2o)
      <4>1. \A k \in 1 .. Len(i2o') : k \in Int /\ k + 1 \in 1 .. Len(i2o) /\ i2o'[k] = i2o[k + 1]
        BY <2>3, <3>3
      <4>2. ASSUME NEW j \in 1 .. Len(i2o'), NEW k \in 1 .. Len(i2o'), i2o'[j].type = "I2OConnect",
                   i2o'[k].type = "I2OConnect", i2o'[j].id = i2o'[k].id
            PROVE  j = k
        <5>1. j + 1 = k + 1
          BY <3>1, <4>1, <4>2 DEF Asked
        <5> QED BY <4>1, <5>1
      <4>3. ASSUME NEW k \in 1 .. Len(i2o')
            PROVE  /\ i2o'[k].type = "I2OSendData" => up'[i2o'[k].id] # 0
                   /\ i2o'[k].type = "I2ORecvDataResult" => down'[i2o'[k].id] # <<>>
                   /\ i2o'[k].type = "I2OConnect" => main'[i2o'[k].id] \notin Early
        <5>1. k + 1 \in 1 .. Len(i2o) /\ i2o'[k] = i2o[k + 1]
          BY <4>1
        <5> QED BY <2>1, <3>1, <5>1 DEF Asked
      <4> QED BY <4>2, <4>3 DEF Asked
    <3> QED BY <2>2, <3>2, <3>3
  <2>5. Fed' /\ Paced'
    BY <2>1 DEF Reasons, Fed, Paced
  <2> QED BY <1>1, <2>4, <2>5 DEF Reasons
<1> QED BY <1>2, <1>3

\* All that is known of an inlet
InletInv == SlotInv /\ StopInv /\ Sent /\ Reasons

LEMMA InletInvInit == Init => InletInv
BY TypedInit, SlotInit, StopInvInit, SentInit, ReasonsInit DEF InletInv, SlotInv

LEMMA InletInvStep == InletInv /\ [Next \/ AnyOutlet]_vars => InletInv'
BY TypedStep, SlotStep, StopInvStep, SentStep, ReasonsStep DEF InletInv, SlotInv

-----------------------------------------------------------------------------
\* Where payloads enter and leave the inlet: one of one session in a step
LEMMA TakenOrWritten ==
    ASSUME SlotInv, Next
    PROVE  \/ UNCHANGED <<up, down>>
           \/ \E c \in Ids : up' = [up EXCEPT ![c] = @ + 1] /\ UNCHANGED down
           \/ \E c \in Ids : /\ cur[c] \in InMessages /\ cur[c].type = "O2IRecvData"
                             /\ down' = [down EXCEPT ![c] = Append(@, cur[c].n)] /\ UNCHANGED up
<1> USE DEF dataVars
<1>1. ASSUME NEW c \in Ids, ReadPayload(c)
      PROVE  up' = [up EXCEPT ![c] = @ + 1] /\ UNCHANGED down
  BY <1>1 DEF ReadPayload
<1>2. ASSUME NEW c \in Ids, WriteDone(c)
      PROVE  /\ cur[c] \in InMessages /\ cur[c].type = "O2IRecvData"
             /\ down' = [down EXCEPT ![c] = Append(@, cur[c].n)] /\ UNCHANGED up
  BY <1>2 DEF WriteDone, SlotInv, Typed, InHand
<1>3. ASSUME NEW c \in Ids,
             \/ Accept(c) \/ MainStep(c) \/ Pop(c) \/ OnConnected(c) \/ OnRefusedOrDisconnect(c)
             \/ OnRecvData(c) \/ WriteFails(c) \/ Shutdown(c) \/ ClientCloses(c)
      PROVE  UNCHANGED <<up, down>>
  BY <1>3 DEF Accept, MainStep, Insert, StartLoop, OnStart, AwaitReady, AwaitFails, ReadFails, LockPeerData,
              SendPeerData, PeerDataFails, Pop, OnConnected, OnRefusedOrDisconnect, OnRecvData, WriteFails,
              Shutdown, ShutClose, ShutBye, ShutConn, ShutSlot, ClientCloses
<1>4. CASE AcceptEnds \/ Reserve \/ Spawn \/ Input \/ StopBegin \/ StopMark \/ StopListener \/ StopReturn
  BY <1>4 DEF AcceptEnds, Reserve, Spawn, Input, StopBegin, StopMark, StopListener, StopReturn
<1> QED BY <1>1, <1>2, <1>3, <1>4 DEF Next, LoopStep
=============================================================================
