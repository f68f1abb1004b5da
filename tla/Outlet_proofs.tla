---------------------------- MODULE Outlet_proofs ----------------------------
(***************************************************************************)
(* Proofs about Outlet, for any number of connect attempts, any queue      *)
(* capacity and window, and against any inlet (AnyInlet).                  *)
(***************************************************************************)
EXTENDS Outlet, SequenceTheorems, TLAPS

\* Who may be closing what
Closing ==
    [pc : {"no", "end", "close", "bye", "over"},
     who : {"nobody", "input", "worker", "stop"}, bye : BOOLEAN]

Closings == [Attempts -> Closing]

\* The types in two halves: where everybody is, and what is carried
Located ==
    /\ stopPc \in {"no", "marked", "returned"}
    /\ sessions \in [Ids -> Attempts \cup {None}]
    /\ connecting \in [Ids -> Attempts \cup {None}]
    /\ idOf \in [Attempts -> Ids \cup {None}]
    /\ go \in [Attempts -> {"none", "dial", "refuse", "install", "announce", "finish", "gone"}]
    /\ worker \in [Attempts -> {"none", "pop", "take", "write", "gone"}]
    /\ tgt \in [Attempts -> Attempts \cup {None}]
    /\ reader \in [Attempts -> {"none", "read", "credit", "emit", "remove", "bye", "close", "gone"}]
    /\ closing \in Closings
    /\ ended \in [Attempts -> BOOLEAN]
    /\ conn \in [Attempts -> {"none", "open", "hungup", "closed"}]

Carried ==
    /\ cur \in [Attempts -> InMessages \cup {None}]
    /\ flow \in [Attempts -> 0 .. Window]
    /\ inputQ \in [Attempts -> Seq(InMessages)]
    /\ \A a \in Attempts : Len(inputQ[a]) <= QueueCap
    /\ up \in [Attempts -> Seq(Nat)] /\ down \in [Attempts -> 0 .. MaxDown]
    /\ i2o \in Seq(FromInlet)

\* What the types rest on: a goroutine has an id, and the worker what it works on
InHand ==
    \A a \in Attempts :
      /\ go[a] # "none" => idOf[a] \in Ids
      /\ go[a] = "none" => worker[a] = "none"
      /\ go[a] \in {"none", "dial", "install", "announce"} => reader[a] = "none"
      /\ worker[a] = "take" => cur[a] \in InMessages
      /\ worker[a] = "write" => cur[a] \in InMessages /\ cur[a].type = "I2OSendData" /\ tgt[a] \in Attempts

Typed == Located /\ Carried /\ InHand

LEMMA TypesHold == Typed => TypeOK
BY DEF Typed, Located, Carried, TypeOK, Closings, Closing

LEMMA TypedInit == Init => Typed
<1> SUFFICES ASSUME Init PROVE Typed
  OBVIOUS
<1>1. Located
  BY OutletAssumption DEF Init, Located, NotClosing, Closings, Closing
<1>2. Carried
  <2>1. \A S : <<>> \in Seq(S) /\ Len(<<>>) = 0
    OBVIOUS
  <2> QED BY <2>1, OutletAssumption DEF Init, Carried
<1>3. InHand
  BY DEF Init, InHand
<1> QED BY <1>1, <1>2, <1>3 DEF Typed

-----------------------------------------------------------------------------
\* Ending a session, with and without closing its connection (outlet.go:392-449)

LEMMA EndTypes ==
    ASSUME Located, Carried, NEW b \in Attempts, End(b)
    PROVE  /\ ended' \in [Attempts -> BOOLEAN] /\ flow' \in [Attempts -> 0 .. Window]
           /\ inputQ' \in [Attempts -> Seq(InMessages)]
           /\ \A a \in Attempts : Len(inputQ'[a]) <= QueueCap
<1>1. <<>> \in Seq(InMessages) /\ Len(<<>>) = 0
  OBVIOUS
<1> QED BY <1>1, OutletAssumption DEF Located, Carried, End

\* The variables that ending a session changes keep their types.
Endings ==
    /\ sessions \in [Ids -> Attempts \cup {None}]
    /\ ended \in [Attempts -> BOOLEAN] /\ flow \in [Attempts -> 0 .. Window]
    /\ inputQ \in [Attempts -> Seq(InMessages)] /\ \A a \in Attempts : Len(inputQ[a]) <= QueueCap

LEMMA DetachTypes ==
    ASSUME Located, Carried, NEW c \in Ids, Detach(c)
    PROVE  Endings'
<1>1. sessions[c] \in Attempts
  BY DEF Detach, Located
<1>2. End(sessions[c])
  BY DEF Detach
<1>3. sessions' \in [Ids -> Attempts \cup {None}]
  BY DEF Detach, Located
<1> QED BY <1>1, <1>2, <1>3, EndTypes DEF Endings

LEMMA DetachAndCloseTypes ==
    ASSUME Located, Carried, NEW c \in Ids, NEW who \in {"input", "worker"}, NEW bye \in BOOLEAN,
           DetachAndClose(c, who, bye)
    PROVE  Endings' /\ closing' \in Closings
<1>1. CASE Detach(c) /\ closing' = [closing EXCEPT ![sessions[c]] = [pc |-> "close", who |-> who, bye |-> bye]]
  BY <1>1, DetachTypes DEF Located, Closings, Closing
<1>2. CASE UNCHANGED <<sessions, endVars, dataVars>>
  BY <1>2 DEF endVars, dataVars, Endings, Located, Carried
<1> QED BY <1>1, <1>2 DEF DetachAndClose

\* A message is taken from the route.
LEMMA TakesTypes ==
    ASSUME Carried, NEW type, Takes(type)
    PROVE  i2o' \in Seq(FromInlet) /\ Head(i2o) \in FromInlet /\ Head(i2o).type = type /\ Head(i2o).id \in Ids
<1>1. i2o # <<>> /\ i2o \in Seq(FromInlet)
  BY DEF Takes, Carried
<1>2. Head(i2o) \in FromInlet /\ Tail(i2o) \in Seq(FromInlet)
  BY <1>1
<1>3. \A m \in FromInlet : m.id \in Ids
  BY DEF FromInlet
<1> QED BY <1>2, <1>3 DEF Takes

\* A message that finds its session is queued or ends it.
LEMMA PushTypes ==
    ASSUME Located, Carried, NEW m \in InMessages, sessions[m.id] # None, PushOrTerminate(m)
    PROVE  Endings' /\ closing' \in Closings
<1>0. m.id \in Ids
  BY DEF InMessages, FromInlet
<1>1. sessions[m.id] \in Attempts
  BY <1>0 DEF Located
<1>2. CASE Full(sessions[m.id]) /\ Overflow(m.id)
  BY <1>0, <1>2, DetachAndCloseTypes DEF Overflow
<1>3. CASE /\ ~Full(sessions[m.id])
           /\ inputQ' = [inputQ EXCEPT ![sessions[m.id]] = Append(@, m)]
           /\ UNCHANGED <<sessions, endVars, flow>>
  <2>1. inputQ[sessions[m.id]] \in Seq(InMessages) /\ Len(inputQ[sessions[m.id]]) \in Nat
    BY <1>1 DEF Carried
  <2>2. Append(inputQ[sessions[m.id]], m) \in Seq(InMessages)
    BY <2>1
  <2>3. Len(Append(inputQ[sessions[m.id]], m)) = Len(inputQ[sessions[m.id]]) + 1
    BY <2>1
  <2>4. Len(inputQ[sessions[m.id]]) + 1 <= QueueCap
    BY <1>1, <1>3, <2>1, OutletAssumption DEF Full, Carried
  <2>5. inputQ' \in [Attempts -> Seq(InMessages)]
    BY <1>1, <1>3, <2>2 DEF Carried
  <2>6. \A a \in Attempts : Len(inputQ'[a]) <= QueueCap
    BY <1>1, <1>3, <2>2, <2>3, <2>4 DEF Carried
  <2> QED BY <1>3, <2>5, <2>6 DEF endVars, Endings, Located, Carried
<1> QED BY <1>2, <1>3 DEF PushOrTerminate

\* A closing that goes on
LEMMA ClosingMoves ==
    ASSUME closing \in Closings, NEW a \in Attempts, NEW pc \in {"close", "bye", "over"}
    PROVE  [closing EXCEPT ![a].pc = pc] \in Closings
<1>1. closing[a] \in Closing /\ [closing[a] EXCEPT !.pc = pc] \in Closing
  BY DEF Closings, Closing
<1> QED BY <1>1 DEF Closings

-----------------------------------------------------------------------------
LEMMA TypedStep == Typed /\ [Next \/ AnyInlet]_vars => Typed'
<1> SUFFICES ASSUME Typed, [Next \/ AnyInlet]_vars PROVE Typed'
  OBVIOUS
<1>0. Located /\ Carried /\ InHand
  BY DEF Typed
<1> USE <1>0 DEF mapVars, goVars, workVars, endVars, dataVars, countVars
<1>1. CASE InConnect
  <2>1. Head(i2o).id \in Ids /\ i2o' \in Seq(FromInlet)
    BY <1>1, TakesTypes DEF InConnect
  <2>2. Located'
    <3>1. CASE UNCHANGED <<mapVars, goVars>>
      BY <1>1, <3>1 DEF InConnect, Located
    <3>2. ASSUME NEW a \in Attempts, go' = [go EXCEPT ![a] = "dial"],
                 idOf' = [idOf EXCEPT ![a] = Head(i2o).id],
                 connecting' = [connecting EXCEPT ![Head(i2o).id] = a], UNCHANGED <<sessions, reader>>
          PROVE  Located'
      <4>1. UNCHANGED <<stopPc, workVars, endVars, conn>>
        BY <1>1 DEF InConnect
      <4> QED BY <2>1, <3>2, <4>1 DEF Located
    <3> QED BY <1>1, <3>1, <3>2 DEF InConnect
  <2>3. Carried' BY <1>1, <2>1 DEF InConnect, Carried
  <2>4. InHand'
    <3>1. CASE UNCHANGED <<mapVars, goVars>>
      BY <1>1, <3>1 DEF InConnect, InHand
    <3>2. ASSUME NEW a \in Attempts, go[a] = "none", go' = [go EXCEPT ![a] = "dial"],
                 idOf' = [idOf EXCEPT ![a] = Head(i2o).id], UNCHANGED <<reader, workVars>>
          PROVE  InHand'
      BY <2>1, <3>2 DEF InHand, Located
    <3> QED BY <1>1, <3>1, <3>2 DEF InConnect
  <2> QED BY <2>2, <2>3, <2>4 DEF Typed
<1>2. CASE InSendData \/ InDisconnect
  <2>1. Takes("I2OSendData") \/ Takes("I2ODisconnect")
    BY <1>2 DEF InSendData, InDisconnect
  <2>2. Head(i2o) \in InMessages /\ Head(i2o).id \in Ids /\ i2o' \in Seq(FromInlet)
    BY <2>1, TakesTypes DEF InMessages
  <2>3. \/ sessions[Head(i2o).id] # None /\ PushOrTerminate(Head(i2o))
        \/ UNCHANGED <<sessions, endVars, dataVars>>
    BY <1>2 DEF InSendData, InDisconnect
  <2>4. Endings' /\ closing' \in Closings
    BY <2>2, <2>3, PushTypes DEF Endings, Located, Carried
  <2>5. connecting' \in [Ids -> Attempts \cup {None}]
    BY <1>2, <2>2 DEF InSendData, InDisconnect, CancelAttempt, Located
  <2>6. UNCHANGED <<stopPc, goVars, workVars, conn, countVars, o2i>>
    BY <1>2 DEF InSendData, InDisconnect
  <2>7. Located' BY <2>4, <2>5, <2>6 DEF Located, Endings
  <2>8. Carried' BY <2>2, <2>4, <2>6 DEF Carried, Endings
  <2>9. InHand' BY <2>6 DEF InHand
  <2> QED BY <2>7, <2>8, <2>9 DEF Typed
<1>3. CASE InRecvResult
  <2>1. Located' BY <1>3 DEF InRecvResult, Located
  <2>2. i2o' \in Seq(FromInlet)
    BY <1>3, TakesTypes DEF InRecvResult
  <2>3. flow' \in [Attempts -> 0 .. Window]
    BY <1>3, OutletAssumption DEF InRecvResult, Carried
  <2>4. Carried' BY <1>3, <2>2, <2>3 DEF InRecvResult, Carried
  <2>5. InHand' BY <1>3 DEF InRecvResult, InHand
  <2> QED BY <2>1, <2>4, <2>5 DEF Typed
<1>4. ASSUME NEW a \in Attempts, GoStep(a) PROVE Typed'
  <2>0. idOf[a] \in Ids
    BY <1>4 DEF GoStep, Dial, DialFails, Refuse, Install, Announce, Finish, InHand
  <2>1. CASE Dial(a)
    <3>1. Located' BY <2>0, <2>1 DEF Dial, Located
    <3>2. Carried' BY <2>1 DEF Dial, Carried
    <3>3. InHand' BY <2>0, <2>1 DEF Dial, InHand, Located
    <3> QED BY <3>1, <3>2, <3>3 DEF Typed
  <2>2. CASE DialFails(a)
    <3>1. Located' BY <2>0, <2>2 DEF DialFails, Located
    <3>2. Carried' BY <2>2 DEF DialFails, Carried
    <3>3. InHand' BY <2>0, <2>2 DEF DialFails, InHand, Located
    <3> QED BY <3>1, <3>2, <3>3 DEF Typed
  <2>3. CASE Refuse(a)
    <3>1. Located' BY <2>0, <2>3 DEF Refuse, Located
    <3>2. Carried' BY <2>3 DEF Refuse, Carried
    <3>3. InHand' BY <2>0, <2>3 DEF Refuse, InHand, Located
    <3> QED BY <3>1, <3>2, <3>3 DEF Typed
  <2>4. CASE Install(a)
    <3>1. Located'
      <4>1. CASE MayInstall(a)
        <5>1. /\ connecting' = [connecting EXCEPT ![idOf[a]] = None]
              /\ sessions' = [sessions EXCEPT ![idOf[a]] = a]
              /\ worker' = [worker EXCEPT ![a] = "pop"] /\ go' = [go EXCEPT ![a] = "announce"]
              /\ UNCHANGED <<stopPc, conn, idOf, reader, tgt, endVars>>
          BY <2>4, <4>1 DEF Install
        <5> QED BY <2>0, <5>1 DEF Located
      <4>2. CASE ~MayInstall(a)
        BY <2>4, <4>2 DEF Install, Located
      <4> QED BY <4>1, <4>2
    <3>2. Carried' BY <2>4 DEF Install, Carried
    <3>3. InHand' BY <2>0, <2>4 DEF Install, InHand, Located
    <3> QED BY <3>1, <3>2, <3>3 DEF Typed
  <2>5. CASE Announce(a)
    <3>1. Located' BY <2>0, <2>5 DEF Announce, Located
    <3>2. Carried' BY <2>5 DEF Announce, Carried
    <3>3. InHand' BY <2>0, <2>5 DEF Announce, InHand, Located
    <3> QED BY <3>1, <3>2, <3>3 DEF Typed
  <2>6. CASE Finish(a)
    <3>1. Located' BY <2>0, <2>6 DEF Finish, Located
    <3>2. Carried' BY <2>6 DEF Finish, Carried
    <3>3. InHand' BY <2>0, <2>6 DEF Finish, InHand, Located
    <3> QED BY <3>1, <3>2, <3>3 DEF Typed
  <2> QED BY <1>4, <2>1, <2>2, <2>3, <2>4, <2>5, <2>6 DEF GoStep
<1>5. ASSUME NEW a \in Attempts, WorkerStep(a) PROVE Typed'
  <2>0. idOf[a] \in Ids /\ go[a] # "none"
    BY <1>5 DEF WorkerStep, Pop, TakeSendData, WriteDone, WriteFails, TakeDisconnect, InHand, Located
  <2>1. CASE Pop(a)
    <3>0. inputQ[a] # <<>> => Head(inputQ[a]) \in InMessages /\ Tail(inputQ[a]) \in Seq(InMessages)
                                /\ Len(Tail(inputQ[a])) <= QueueCap
      <4>1. inputQ[a] \in Seq(InMessages) /\ Len(inputQ[a]) <= QueueCap
        BY DEF Carried
      <4>2. inputQ[a] # <<>> => Len(Tail(inputQ[a])) = Len(inputQ[a]) - 1 /\ Len(inputQ[a]) \in Nat
        BY <4>1
      <4> QED BY <4>1, <4>2, OutletAssumption
    <3>1. Located' BY <2>1 DEF Pop, Located
    <3>2. Carried' BY <2>1, <3>0 DEF Pop, Dequeue, Carried
    <3>3. InHand'
      <4>1. CASE inputQ[a] # <<>> /\ cur' = [cur EXCEPT ![a] = Head(inputQ[a])]
                 /\ worker' = [worker EXCEPT ![a] = "take"]
        BY <2>1, <3>0, <4>1 DEF Pop, InHand, Located, Carried
      <4>2. CASE worker' = [worker EXCEPT ![a] = "gone"] /\ UNCHANGED cur
        BY <2>0, <2>1, <4>2 DEF Pop, InHand, Located
      <4> QED BY <2>1, <4>1, <4>2 DEF Pop
    <3> QED BY <3>1, <3>2, <3>3 DEF Typed
  <2>2. CASE TakeSendData(a)
    <3>0. sessions[idOf[a]] \in Attempts \cup {None}
      BY <2>0 DEF Located
    <3>1. Located'
      <4>1. tgt' \in [Attempts -> Attempts \cup {None}]
        BY <2>2, <3>0 DEF TakeSendData, Located
      <4>2. worker' \in [Attempts -> {"none", "pop", "take", "write", "gone"}]
        BY <2>2 DEF TakeSendData, Located
      <4>3. UNCHANGED <<stopPc, sessions, connecting, idOf, go, reader, closing, ended, conn>>
        BY <2>2 DEF TakeSendData
      <4> QED BY <4>1, <4>2, <4>3 DEF Located
    <3>2. Carried' BY <2>2 DEF TakeSendData, Carried
    <3>3. InHand' BY <2>0, <2>2 DEF TakeSendData, InHand, Located, Carried
    <3> QED BY <3>1, <3>2, <3>3 DEF Typed
  <2>3. CASE WriteDone(a)
    <3>0. cur[a].n \in Nat /\ tgt[a] \in Attempts
      BY <2>3 DEF WriteDone, InHand, InMessages, FromInlet
    <3>1. Located' BY <2>3 DEF WriteDone, Located
    <3>2. up' \in [Attempts -> Seq(Nat)]
      <4>1. Append(up[tgt[a]], cur[a].n) \in Seq(Nat)
        BY <3>0 DEF Carried
      <4> QED BY <2>3, <3>0, <4>1 DEF WriteDone, Carried
    <3>3. Carried' BY <2>3, <3>2 DEF WriteDone, Carried
    <3>4. InHand' BY <2>3 DEF WriteDone, InHand, Located, Carried
    <3> QED BY <3>1, <3>3, <3>4 DEF Typed
  <2>4. CASE WriteFails(a) \/ TakeDisconnect(a)
    <3>1. \E bye \in BOOLEAN : DetachAndClose(idOf[a], "worker", bye)
      BY <2>4 DEF WriteFails, TakeDisconnect
    <3>2. Endings' /\ closing' \in Closings
      BY <2>0, <3>1, DetachAndCloseTypes
    <3>3. WorkerEnds(a) /\ UNCHANGED <<stopPc, connecting, goVars, conn, countVars, i2o, o2i>>
      BY <2>4 DEF WriteFails, TakeDisconnect
    <3>4. Located' BY <3>2, <3>3 DEF WorkerEnds, Located, Endings
    <3>5. Carried' BY <3>2, <3>3 DEF WorkerEnds, Carried, Endings
    <3>6. InHand' BY <2>0, <3>3 DEF WorkerEnds, InHand, Located, Carried
    <3> QED BY <3>4, <3>5, <3>6 DEF Typed
  <2> QED BY <1>5, <2>1, <2>2, <2>3, <2>4 DEF WorkerStep
<1>6. ASSUME NEW a \in Attempts, Read(a) \/ ReaderStep(a) PROVE Typed'
  <2>0. idOf[a] \in Ids
    BY <1>6 DEF Read, ReaderStep, ReadFails, AcquireCredit, Emit, ReaderRemoves, ReaderSaysBye,
                ReaderCloses, InHand, Located
  <2>1. CASE Read(a)
    <3>1. Located' BY <2>1 DEF Read, ReaderGoes, Located
    <3>2. Carried' BY <2>1, OutletAssumption DEF Read, ReaderGoes, Carried
    <3>3. InHand' BY <2>0, <2>1 DEF Read, ReaderGoes, InHand, Located
    <3> QED BY <3>1, <3>2, <3>3 DEF Typed
  <2>2. CASE ReadFails(a)
    <3>1. Located' BY <2>2 DEF ReadFails, ReaderGoes, Located
    <3>2. Carried' BY <2>2 DEF ReadFails, ReaderGoes, Carried
    <3>3. InHand' BY <2>0, <2>2 DEF ReadFails, ReaderGoes, InHand, Located
    <3> QED BY <3>1, <3>2, <3>3 DEF Typed
  <2>3. CASE AcquireCredit(a)
    <3>1. Located' BY <2>3 DEF AcquireCredit, ReaderGoes, Located
    <3>2. flow' \in [Attempts -> 0 .. Window]
      <4>1. flow[a] \in 0 .. Window /\ (flow[a] < Window => flow[a] + 1 \in 0 .. Window)
        BY OutletAssumption DEF Carried
      <4> QED BY <2>3, <4>1 DEF AcquireCredit, Carried
    <3>4. Carried' BY <2>3, <3>2 DEF AcquireCredit, ReaderGoes, Carried
    <3>3. InHand' BY <2>0, <2>3 DEF AcquireCredit, ReaderGoes, InHand, Located
    <3> QED BY <3>1, <3>4, <3>3 DEF Typed
  <2>4. CASE Emit(a)
    <3>1. Located' BY <2>4 DEF Emit, ReaderGoes, Located
    <3>2. Carried' BY <2>4 DEF Emit, ReaderGoes, Carried
    <3>3. InHand' BY <2>0, <2>4 DEF Emit, ReaderGoes, InHand, Located
    <3> QED BY <3>1, <3>2, <3>3 DEF Typed
  <2>5. CASE ReaderRemoves(a)
    <3>1. Endings'
      BY <2>0, <2>5, DetachTypes DEF ReaderRemoves, Endings, Located, Carried
    <3>2. Located' BY <2>5, <3>1 DEF ReaderRemoves, ReaderGoes, Located, Endings
    <3>3. Carried' BY <2>5, <3>1 DEF ReaderRemoves, ReaderGoes, Carried, Endings
    <3>4. InHand' BY <2>0, <2>5 DEF ReaderRemoves, ReaderGoes, InHand, Located
    <3> QED BY <3>2, <3>3, <3>4 DEF Typed
  <2>6. CASE ReaderSaysBye(a)
    <3>1. Located' BY <2>6 DEF ReaderSaysBye, ReaderGoes, Located
    <3>2. Carried' BY <2>6 DEF ReaderSaysBye, ReaderGoes, Carried
    <3>3. InHand' BY <2>0, <2>6 DEF ReaderSaysBye, ReaderGoes, InHand, Located
    <3> QED BY <3>1, <3>2, <3>3 DEF Typed
  <2>7. CASE ReaderCloses(a)
    <3>1. Located' BY <2>7 DEF ReaderCloses, ReaderGoes, Located
    <3>2. Carried' BY <2>7 DEF ReaderCloses, ReaderGoes, Carried
    <3>3. InHand' BY <2>0, <2>7 DEF ReaderCloses, ReaderGoes, InHand, Located
    <3> QED BY <3>1, <3>2, <3>3 DEF Typed
  <2> QED BY <1>6, <2>1, <2>2, <2>3, <2>4, <2>5, <2>6, <2>7 DEF ReaderStep
<1>7. ASSUME NEW a \in Attempts, CloseStep(a) PROVE Typed'
  <2>1. CASE StopEnds(a)
    <3>1. Located'
      <4>1. closing' \in Closings
        BY <2>1, ClosingMoves DEF StopEnds, Located
      <4> QED BY <2>1, <4>1 DEF StopEnds, End, Located
    <3>2. Carried' BY <2>1, EndTypes DEF StopEnds, Carried
    <3>3. InHand' BY <2>1 DEF StopEnds, InHand
    <3> QED BY <3>1, <3>2, <3>3 DEF Typed
  <2>2. CASE CloseConn(a)
    <3>1. Located'
      <4>1. closing' \in Closings
        <5>1. CASE closing[a].bye
          BY <2>2, <5>1, ClosingMoves DEF CloseConn, Located
        <5>2. CASE ~closing[a].bye
          BY <2>2, <5>2, ClosingMoves DEF CloseConn, Located
        <5> QED BY <5>1, <5>2
      <4> QED BY <2>2, <4>1 DEF CloseConn, Located
    <3>2. Carried' BY <2>2 DEF CloseConn, Carried
    <3>3. InHand' BY <2>2 DEF CloseConn, InHand
    <3> QED BY <3>1, <3>2, <3>3 DEF Typed
  <2>3. CASE SayBye(a)
    <3>1. Located' BY <2>3, ClosingMoves DEF SayBye, Located
    <3>2. Carried' BY <2>3 DEF SayBye, Carried
    <3>3. InHand' BY <2>3 DEF SayBye, InHand
    <3> QED BY <3>1, <3>2, <3>3 DEF Typed
  <2> QED BY <1>7, <2>1, <2>2, <2>3 DEF CloseStep
<1>8. ASSUME NEW a \in Attempts, TargetCloses(a) PROVE Typed'
  <2>1. Located' BY <1>8 DEF TargetCloses, Located
  <2>2. Carried' BY <1>8 DEF TargetCloses, Carried
  <2>3. InHand' BY <1>8 DEF TargetCloses, InHand
  <2> QED BY <2>1, <2>2, <2>3 DEF Typed
<1>9. CASE StopMark \/ StopReturn
  <2>1. ASSUME StopMark PROVE Located'
    <3>1. /\ sessions' \in [Ids -> Attempts \cup {None}] /\ connecting' \in [Ids -> Attempts \cup {None}]
          /\ stopPc' = "marked" /\ UNCHANGED <<goVars, workVars, ended, conn>>
      BY <2>1 DEF StopMark
    <3>2. closing' \in Closings
      <4>1. [pc |-> "end", who |-> "stop", bye |-> FALSE] \in Closing
        BY DEF Closing
      <4> QED BY <2>1, <4>1 DEF StopMark, Located, Closings
    <3> QED BY <3>1, <3>2 DEF Located
  <2>2. ASSUME StopReturn PROVE Located'
    BY <2>2 DEF StopReturn, Located
  <2>3. Located' BY <1>9, <2>1, <2>2
  <2>4. Carried' BY <1>9 DEF StopMark, StopReturn, Carried
  <2>5. InHand' BY <1>9 DEF StopMark, StopReturn, InHand
  <2> QED BY <2>3, <2>4, <2>5 DEF Typed
<1>10. CASE AnyInlet
  <2>1. i2o' \in Seq(FromInlet)
    <3>1. \A m \in FromInlet : Append(i2o, m) \in Seq(FromInlet)
      BY DEF Carried
    <3> QED BY <1>10, <3>1 DEF AnyInlet, Carried
  <2>2. Located' BY <1>10 DEF AnyInlet, Located
  <2>3. Carried' BY <1>10, <2>1 DEF AnyInlet, Carried
  <2>4. InHand' BY <1>10 DEF AnyInlet, InHand
  <2> QED BY <2>2, <2>3, <2>4 DEF Typed
<1>11. CASE UNCHANGED vars
  BY <1>11 DEF vars, Typed, Located, Carried, InHand
<1> QED BY <1>1, <1>2, <1>3, <1>4, <1>5, <1>6, <1>7, <1>8, <1>9, <1>10, <1>11 DEF Next, Input

\* For any inlet, any number of attempts and any capacity, every goroutine is
\* where the code has it and no queue or window exceeds its limit.
THEOREM TypeCorrect == Spec => []TypeOK
<1>1. Spec => []Typed
  BY TypedInit, TypedStep, PTL DEF Spec
<1> QED BY <1>1, TypesHold, PTL

-----------------------------------------------------------------------------
\* An attempt that has not begun has touched nothing, and a session in the map
\* is one of an attempt for this id.
Fresh ==
    \A a \in Attempts :
      go[a] = "none" => conn[a] = "none" /\ closing[a] = NotClosing /\ \A c \in Ids : sessions[c] # a

Keyed == \A c \in Ids : sessions[c] # None => idOf[sessions[c]] = c

\* Who is answerable for a connection that is open, more closely than Managed
Answerable(a) ==
    \/ sessions[idOf[a]] = a
    \/ go[a] = "install"
    \/ closing[a].pc \in {"end", "close"}
    \/ reader[a] \in {"bye", "close"}

Answered == \A a \in Attempts : conn[a] \in {"open", "hungup"} => Answerable(a)

\* Ids are used once, as an inlet does while its process runs (session_id.go).
OneAttemptPerId ==
    \A a, b \in Attempts :
      go[a] # "none" /\ go[b] # "none" /\ idOf[a] = idOf[b] => a = b

ManagedInv == Typed /\ Fresh /\ Keyed /\ Answered

LEMMA ManagedInit == Init => ManagedInv
<1> SUFFICES ASSUME Init PROVE ManagedInv
  OBVIOUS
<1>1. Fresh /\ Keyed /\ Answered
  BY OutletAssumption DEF Init, Fresh, Keyed, Answered
<1> QED BY <1>1, TypedInit DEF ManagedInv

\* A session that is detached has its connection closed by whoever detaches it;
\* nobody else's connection changes hands.
LEMMA DetachAnswered ==
    ASSUME ManagedInv, NEW c \in Ids, NEW who \in {"input", "worker"}, NEW bye \in BOOLEAN,
           DetachAndClose(c, who, bye), UNCHANGED <<goVars, conn>>
    PROVE  Fresh' /\ Keyed' /\ Answered'
<1> USE DEF ManagedInv, Typed, goVars
<1>1. CASE Detach(c) /\ closing' = [closing EXCEPT ![sessions[c]] = [pc |-> "close", who |-> who, bye |-> bye]]
  <2>1. sessions[c] \in Attempts /\ sessions' = [sessions EXCEPT ![c] = None]
    BY <1>1 DEF Detach, Located
  <2>2. Fresh'
    BY <1>1, <2>1, OutletAssumption DEF Fresh, Located
  <2>3. Keyed'
    BY <2>1 DEF Keyed, Located
  <2>4. ASSUME NEW a \in Attempts, conn'[a] \in {"open", "hungup"} PROVE Answerable(a)'
    <3>1. Answerable(a) /\ idOf[a] \in Ids
      BY <2>4 DEF Answered, Fresh, InHand
    <3>2. CASE sessions[c] = a
      BY <1>1, <3>2 DEF Answerable, Located, Closings
    <3>3. CASE sessions[c] # a
      BY <1>1, <2>1, <3>1, <3>3 DEF Answerable, Located
    <3> QED BY <3>2, <3>3
  <2> QED BY <2>2, <2>3, <2>4 DEF Answered
<1>2. CASE UNCHANGED <<sessions, endVars, dataVars>>
  BY <1>2 DEF Fresh, Keyed, Answered, Answerable, endVars
<1> QED BY <1>1, <1>2 DEF DetachAndClose

\* A step that leaves sessions, connections and closings alone, and moves no
\* goroutine out of the places where it is answerable
LEMMA QuietAnswered ==
    ASSUME ManagedInv, UNCHANGED <<sessions, idOf, conn, closing>>,
           \A a \in Attempts : /\ go'[a] = "none" => go[a] = "none"
                               /\ go[a] = "install" => go'[a] = "install"
                               /\ reader[a] \in {"bye", "close"} => reader'[a] \in {"bye", "close"}
    PROVE  Fresh' /\ Keyed' /\ Answered'
BY DEF ManagedInv, Fresh, Keyed, Answered, Answerable

LEMMA ManagedStep ==
    ManagedInv /\ OneAttemptPerId /\ [Next \/ AnyInlet]_vars => ManagedInv'
<1> SUFFICES ASSUME ManagedInv, OneAttemptPerId, [Next \/ AnyInlet]_vars PROVE ManagedInv'
  OBVIOUS
<1>0. Located /\ Carried /\ InHand /\ Typed' /\ Fresh /\ Keyed /\ Answered
  BY TypedStep DEF ManagedInv, Typed
<1> SUFFICES Fresh' /\ Keyed' /\ Answered'
  BY <1>0 DEF ManagedInv
<1> USE <1>0 DEF mapVars, goVars, workVars, endVars, dataVars, countVars
<1>1. CASE InConnect
  <2>1. CASE UNCHANGED goVars
    BY <1>1, <2>1, QuietAnswered DEF InConnect
  <2>2. ASSUME NEW a \in Attempts, go[a] = "none", go' = [go EXCEPT ![a] = "dial"],
               idOf' = [idOf EXCEPT ![a] = Head(i2o).id]
        PROVE  Fresh' /\ Keyed' /\ Answered'
    <3>1. UNCHANGED <<sessions, reader, conn, closing>>
      BY <1>1, <2>2 DEF InConnect
    <3>2. conn[a] = "none" /\ \A c \in Ids : sessions[c] # a
      BY <2>2 DEF Fresh
    <3>3. Fresh'
      BY <2>2, <3>1 DEF Fresh, Located
    <3>4. Keyed'
      BY <2>2, <3>1, <3>2 DEF Keyed, Located
    <3>5. Answered'
      BY <2>2, <3>1, <3>2 DEF Answered, Answerable, Located
    <3> QED BY <3>3, <3>4, <3>5
  <2> QED BY <1>1, <2>1, <2>2 DEF InConnect
<1>2. CASE InSendData \/ InDisconnect
  <2>1. Head(i2o).id \in Ids
    BY <1>2, TakesTypes DEF InSendData, InDisconnect
  <2>2. UNCHANGED <<goVars, conn>>
    BY <1>2 DEF InSendData, InDisconnect
  <2>3. UNCHANGED <<sessions, closing>> \/ DetachAndClose(Head(i2o).id, "input", TRUE)
    BY <1>2 DEF InSendData, InDisconnect, PushOrTerminate, Overflow
  <2> QED BY <2>1, <2>2, <2>3, QuietAnswered, DetachAnswered
<1>3. CASE InRecvResult
  BY <1>3, QuietAnswered DEF InRecvResult
<1>4. ASSUME NEW a \in Attempts, GoStep(a) PROVE Fresh' /\ Keyed' /\ Answered'
  <2>0. idOf[a] \in Ids /\ go[a] # "none"
    BY <1>4 DEF GoStep, Dial, DialFails, Refuse, Install, Announce, Finish, InHand
  <2>1. CASE Dial(a)
    BY <2>0, <2>1 DEF Dial, Fresh, Keyed, Answered, Answerable, Located
  <2>2. CASE DialFails(a)
    BY <2>2, QuietAnswered DEF DialFails, Located
  <2>3. CASE Refuse(a)
    BY <2>3, QuietAnswered DEF Refuse, Located
  <2>4. CASE Install(a) /\ MayInstall(a)
    <3>1. /\ sessions[idOf[a]] = None /\ sessions' = [sessions EXCEPT ![idOf[a]] = a]
          /\ go' = [go EXCEPT ![a] = "announce"] /\ UNCHANGED <<idOf, reader, conn, closing>>
      BY <2>4 DEF Install, MayInstall
    <3>2. Fresh'
      BY <2>0, <3>1 DEF Fresh, Located
    <3>3. Keyed'
      BY <2>0, <3>1 DEF Keyed, Located
    <3>4. ASSUME NEW b \in Attempts, conn'[b] \in {"open", "hungup"} PROVE Answerable(b)'
      <4>1. Answerable(b) /\ idOf[b] \in Ids
        BY <3>1, <3>4 DEF Answered, Fresh, InHand
      <4> QED BY <2>0, <3>1, <4>1, OutletAssumption DEF Answerable, Located
    <3> QED BY <3>2, <3>3, <3>4 DEF Answered
  <2>5. CASE Install(a) /\ ~MayInstall(a)
    BY <2>0, <2>5 DEF Install, Fresh, Keyed, Answered, Answerable, Located
  <2>6. CASE Announce(a)
    BY <2>0, <2>6 DEF Announce, InHand, Fresh, Keyed, Answered, Answerable, Located
  <2>7. CASE Finish(a)
    BY <2>7, QuietAnswered DEF Finish, Located
  <2> QED BY <1>4, <2>1, <2>2, <2>3, <2>4, <2>5, <2>6, <2>7 DEF GoStep
<1>5. ASSUME NEW a \in Attempts, WorkerStep(a) PROVE Fresh' /\ Keyed' /\ Answered'
  <2>0. idOf[a] \in Ids
    BY <1>5 DEF WorkerStep, Pop, TakeSendData, WriteDone, WriteFails, TakeDisconnect, InHand, Located
  <2>1. CASE Pop(a) \/ TakeSendData(a) \/ WriteDone(a)
    BY <2>1, QuietAnswered DEF Pop, TakeSendData, WriteDone
  <2>2. CASE WriteFails(a) \/ TakeDisconnect(a)
    <3>1. \E bye \in BOOLEAN : DetachAndClose(idOf[a], "worker", bye)
      BY <2>2 DEF WriteFails, TakeDisconnect
    <3>2. UNCHANGED <<goVars, conn>>
      BY <2>2 DEF WriteFails, TakeDisconnect
    <3> QED BY <2>0, <3>1, <3>2, DetachAnswered
  <2> QED BY <1>5, <2>1, <2>2 DEF WorkerStep
<1>6. ASSUME NEW a \in Attempts, Read(a) \/ ReaderStep(a) PROVE Fresh' /\ Keyed' /\ Answered'
  <2>0. idOf[a] \in Ids /\ go[a] # "none"
    BY <1>6 DEF Read, ReaderStep, ReadFails, AcquireCredit, Emit, ReaderRemoves, ReaderSaysBye,
                ReaderCloses, InHand, Located
  <2>1. CASE Read(a) \/ ReadFails(a) \/ AcquireCredit(a) \/ Emit(a) \/ ReaderSaysBye(a)
    <3>1. UNCHANGED <<sessions, idOf, go, conn, closing>>
      BY <2>1 DEF Read, ReadFails, AcquireCredit, Emit, ReaderSaysBye
    <3>2. \A b \in Attempts : reader[b] \in {"bye", "close"} => reader'[b] \in {"bye", "close"}
      BY <2>1 DEF Read, ReadFails, AcquireCredit, Emit, ReaderSaysBye, ReaderGoes, Located
    <3> QED BY <3>1, <3>2, QuietAnswered
  <2>2. CASE ReaderRemoves(a)
    <3>1. /\ reader' = [reader EXCEPT ![a] = "bye"] /\ UNCHANGED <<idOf, go, conn, closing>>
          /\ sessions' = [sessions EXCEPT ![idOf[a]] = None] \/ UNCHANGED sessions
      BY <2>2 DEF ReaderRemoves, ReaderGoes, Detach
    <3>2. Fresh'
      BY <2>0, <3>1, OutletAssumption DEF Fresh, Located
    <3>3. Keyed'
      BY <2>0, <3>1 DEF Keyed, Located
    <3>4. ASSUME NEW b \in Attempts, conn'[b] \in {"open", "hungup"} PROVE Answerable(b)'
      <4>1. Answerable(b) /\ idOf[b] \in Ids /\ go[b] # "none"
        BY <3>1, <3>4 DEF Answered, Fresh, InHand
      <4>2. CASE b = a
        BY <3>1, <4>2 DEF Answerable, Located
      <4>3. CASE b # a
        <5>1. idOf[b] # idOf[a]
          BY <2>0, <4>1, <4>3 DEF OneAttemptPerId
        <5> QED BY <2>0, <3>1, <4>1, <4>3, <5>1 DEF Answerable, Located
      <4> QED BY <4>2, <4>3
    <3> QED BY <3>2, <3>3, <3>4 DEF Answered
  <2>3. CASE ReaderCloses(a)
    BY <2>0, <2>3 DEF ReaderCloses, ReaderGoes, Fresh, Keyed, Answered, Answerable, Located
  <2> QED BY <1>6, <2>1, <2>2, <2>3 DEF ReaderStep
<1>7. ASSUME NEW a \in Attempts, CloseStep(a) PROVE Fresh' /\ Keyed' /\ Answered'
  <2>0. go[a] # "none"
    BY <1>7 DEF CloseStep, StopEnds, CloseConn, SayBye, Fresh, NotClosing
  <2>1. CASE StopEnds(a)
    BY <2>0, <2>1 DEF StopEnds, Fresh, Keyed, Answered, Answerable, Located
  <2>2. CASE CloseConn(a)
    BY <2>0, <2>2 DEF CloseConn, Fresh, Keyed, Answered, Answerable, Located
  <2>3. CASE SayBye(a)
    BY <2>0, <2>3 DEF SayBye, Fresh, Keyed, Answered, Answerable, Located
  <2> QED BY <1>7, <2>1, <2>2, <2>3 DEF CloseStep
<1>8. ASSUME NEW a \in Attempts, TargetCloses(a) PROVE Fresh' /\ Keyed' /\ Answered'
  BY <1>8 DEF TargetCloses, Fresh, Keyed, Answered, Answerable, Located
<1>9. CASE StopMark
  <2>1. /\ sessions' = [c \in Ids |-> None] /\ UNCHANGED <<goVars, conn>>
        /\ closing' = [a \in Attempts |->
                     IF \E c \in Ids : sessions[c] = a
                       THEN [pc |-> "end", who |-> "stop", bye |-> FALSE] ELSE closing[a]]
    BY <1>9 DEF StopMark
  <2>2. Fresh'
    BY <2>1, OutletAssumption DEF Fresh
  <2>3. Keyed'
    BY <2>1 DEF Keyed
  <2>4. ASSUME NEW a \in Attempts, conn'[a] \in {"open", "hungup"} PROVE Answerable(a)'
    <3>1. Answerable(a) /\ idOf[a] \in Ids
      BY <2>1, <2>4 DEF Answered, Fresh, InHand
    <3>2. CASE sessions[idOf[a]] = a
      BY <2>1, <3>1, <3>2 DEF Answerable
    <3>3. CASE sessions[idOf[a]] # a
      BY <2>1, <3>1, <3>3 DEF Answerable
    <3> QED BY <3>2, <3>3
  <2> QED BY <2>2, <2>3, <2>4 DEF Answered
<1>10. CASE StopReturn \/ AnyInlet \/ UNCHANGED vars
  BY <1>10, QuietAnswered DEF StopReturn, AnyInlet, vars
<1> QED BY <1>1, <1>2, <1>3, <1>4, <1>5, <1>6, <1>7, <1>8, <1>9, <1>10 DEF Next, Input

LEMMA InvImpliesManaged == ManagedInv => Managed
BY DEF ManagedInv, Answered, Answerable, Managed, Closer

\* However connects, disconnects, failing writes, overflowing queues and Stop are
\* interleaved, no target connection is left without somebody who closes it, as
\* long as an id is used once.
THEOREM ConnectionsManaged == Spec /\ []OneAttemptPerId => []Managed
<1>1. Spec /\ []OneAttemptPerId => []ManagedInv
  BY ManagedInit, ManagedStep, PTL DEF Spec
<1> QED BY <1>1, InvImpliesManaged, PTL

-----------------------------------------------------------------------------
\* What Stop has brought about: from its mark on the maps stay empty, and it
\* returns when the goroutines are gone and its own closings are over.  Every
\* closing has somebody who runs it.
StopHolds ==
    /\ Stopped => \A c \in Ids : sessions[c] = None /\ connecting[c] = None
    /\ stopPc = "returned" => \A a \in Attempts : go[a] \in {"none", "gone"}
    /\ stopPc = "returned" => \A a \in Attempts : closing[a].who = "stop" => closing[a].pc = "over"
    /\ \A a \in Attempts : closing[a].pc # "no" => closing[a].who # "nobody"

LEMMA StopHoldsInit == Init => StopHolds
BY DEF Init, StopHolds, Stopped, NotClosing

\* Detaching a session is not possible once Stop has begun.
LEMMA DetachStops ==
    ASSUME Typed, StopHolds, NEW c \in Ids, NEW who \in {"input", "worker"}, NEW bye \in BOOLEAN,
           DetachAndClose(c, who, bye), connecting' \in {connecting, [connecting EXCEPT ![c] = None]},
           UNCHANGED <<stopPc, go>>
    PROVE  StopHolds'
<1> USE DEF Typed, Stopped
<1>1. CASE Detach(c) /\ closing' = [closing EXCEPT ![sessions[c]] = [pc |-> "close", who |-> who, bye |-> bye]]
  <2>1. stopPc = "no"
    BY <1>1 DEF Detach, StopHolds, Located
  <2>2. sessions[c] \in Attempts
    BY <1>1 DEF Detach, Located
  <2> QED BY <1>1, <2>1, <2>2 DEF StopHolds, Located
<1>2. CASE UNCHANGED <<sessions, endVars, dataVars>>
  BY <1>2 DEF StopHolds, endVars, Located
<1> QED BY <1>1, <1>2 DEF DetachAndClose

\* A step that starts nothing and leaves closings alone
LEMMA QuietStops ==
    ASSUME Typed, StopHolds, UNCHANGED <<stopPc, closing>>,
           \A c \in Ids : /\ sessions'[c] \in {sessions[c], None}
                          /\ connecting'[c] \in {connecting[c], None},
           \A a \in Attempts : go[a] \in {"none", "gone"} => go'[a] = go[a]
    PROVE  StopHolds'
BY DEF StopHolds, Stopped

LEMMA StopHoldsStep == Typed /\ StopHolds /\ [Next \/ AnyInlet]_vars => StopHolds'
<1> SUFFICES ASSUME Typed, StopHolds, [Next \/ AnyInlet]_vars PROVE StopHolds'
  OBVIOUS
<1>0. Located /\ Carried /\ InHand
  BY DEF Typed
<1> USE <1>0 DEF mapVars, goVars, workVars, endVars, dataVars, countVars
<1>1. CASE InConnect
  <2>1. CASE UNCHANGED <<mapVars, goVars>>
    BY <1>1, <2>1, QuietStops DEF InConnect
  <2>2. CASE ~Stopped /\ UNCHANGED <<stopPc, closing>>
    BY <2>2 DEF StopHolds, Stopped
  <2> QED BY <1>1, <2>1, <2>2 DEF InConnect
<1>2. CASE InSendData \/ InDisconnect
  <2>1. Head(i2o).id \in Ids
    BY <1>2, TakesTypes DEF InSendData, InDisconnect
  <2>2. connecting' \in {connecting, [connecting EXCEPT ![Head(i2o).id] = None]} /\ UNCHANGED <<stopPc, go>>
    BY <1>2 DEF InSendData, InDisconnect, CancelAttempt
  <2>3. UNCHANGED <<sessions, closing>> \/ DetachAndClose(Head(i2o).id, "input", TRUE)
    BY <1>2 DEF InSendData, InDisconnect, PushOrTerminate, Overflow
  <2>4. CASE UNCHANGED <<sessions, closing>>
    BY <2>1, <2>2, <2>4, QuietStops DEF Located
  <2> QED BY <2>1, <2>2, <2>3, <2>4, DetachStops
<1>3. CASE InRecvResult
  BY <1>3, QuietStops DEF InRecvResult
<1>4. ASSUME NEW a \in Attempts, GoStep(a) PROVE StopHolds'
  <2>1. CASE Install(a) /\ MayInstall(a)
    BY <2>1 DEF Install, MayInstall, StopHolds, Stopped
  <2>2. CASE Install(a) /\ ~MayInstall(a)
    BY <2>2, QuietStops DEF Install, Located
  <2>3. CASE Dial(a) \/ DialFails(a) \/ Refuse(a) \/ Announce(a)
    BY <2>3, QuietStops DEF Dial, DialFails, Refuse, Announce, Located
  <2>4. CASE Finish(a)
    <3>1. /\ UNCHANGED <<stopPc, closing, sessions>> /\ go[a] = "finish"
          /\ connecting' = [c \in Ids |-> IF c = idOf[a] /\ connecting[c] = a THEN None ELSE connecting[c]]
          /\ go' = [go EXCEPT ![a] = "gone"]
      BY <2>4 DEF Finish
    <3>2. \A b \in Attempts : go[b] \in {"none", "gone"} => go'[b] = go[b]
      BY <3>1 DEF Located
    <3>3. \A c \in Ids : connecting'[c] \in {connecting[c], None}
      BY <3>1
    <3> QED BY <3>1, <3>2, <3>3, QuietStops
  <2> QED BY <1>4, <2>1, <2>2, <2>3, <2>4 DEF GoStep
<1>5. ASSUME NEW a \in Attempts, WorkerStep(a) PROVE StopHolds'
  <2>0. idOf[a] \in Ids
    BY <1>5 DEF WorkerStep, Pop, TakeSendData, WriteDone, WriteFails, TakeDisconnect, InHand, Located
  <2>1. CASE Pop(a) \/ TakeSendData(a) \/ WriteDone(a)
    BY <2>1, QuietStops DEF Pop, TakeSendData, WriteDone
  <2>2. CASE WriteFails(a) \/ TakeDisconnect(a)
    <3>1. \E bye \in BOOLEAN : DetachAndClose(idOf[a], "worker", bye)
      BY <2>2 DEF WriteFails, TakeDisconnect
    <3>2. UNCHANGED <<stopPc, connecting, go>>
      BY <2>2 DEF WriteFails, TakeDisconnect
    <3> QED BY <2>0, <3>1, <3>2, DetachStops
  <2> QED BY <1>5, <2>1, <2>2 DEF WorkerStep
<1>6. ASSUME NEW a \in Attempts, Read(a) \/ ReaderStep(a) PROVE StopHolds'
  <2>1. UNCHANGED <<stopPc, closing, connecting, go>>
    BY <1>6 DEF Read, ReaderStep, ReadFails, AcquireCredit, Emit, ReaderRemoves, ReaderSaysBye, ReaderCloses
  <2>2. sessions' = [sessions EXCEPT ![idOf[a]] = None] \/ UNCHANGED sessions
    BY <1>6 DEF Read, ReaderStep, ReadFails, AcquireCredit, Emit, ReaderRemoves, ReaderSaysBye,
                ReaderCloses, Detach
  <2> QED BY <2>1, <2>2, QuietStops DEF Located
<1>7. ASSUME NEW a \in Attempts, CloseStep(a) PROVE StopHolds'
  <2>1. /\ closing[a].pc \in {"end", "close", "bye"} /\ UNCHANGED <<stopPc, mapVars, go>>
        /\ \E pc \in {"close", "bye", "over"} : closing' = [closing EXCEPT ![a].pc = pc]
    BY <1>7 DEF CloseStep, StopEnds, CloseConn, SayBye
  <2>2. /\ closing'[a].who = closing[a].who
        /\ \A b \in Attempts \ {a} : closing'[b] = closing[b]
    BY <2>1 DEF Located
  <2>3. stopPc = "returned" => closing[a].who # "stop"
    BY <2>1 DEF StopHolds
  <2>4. closing[a].who # "nobody"
    BY <2>1 DEF StopHolds
  <2> QED BY <2>1, <2>2, <2>3, <2>4 DEF StopHolds, Stopped
<1>8. ASSUME NEW a \in Attempts, TargetCloses(a) PROVE StopHolds'
  BY <1>8, QuietStops DEF TargetCloses
<1>9. CASE StopMark
  BY <1>9 DEF StopMark, StopHolds, Stopped, Located
<1>10. CASE StopReturn
  BY <1>10 DEF StopReturn, StopHolds, Stopped
<1>11. CASE AnyInlet \/ UNCHANGED vars
  BY <1>11, QuietStops DEF AnyInlet, vars
<1> QED BY <1>1, <1>2, <1>3, <1>4, <1>5, <1>6, <1>7, <1>8, <1>9, <1>10, <1>11 DEF Next, Input

LEMMA InvImpliesStopComplete == ManagedInv /\ StopHolds => StopComplete
<1> SUFFICES ASSUME ManagedInv, StopHolds, stopPc = "returned", NEW a \in Attempts
             PROVE  /\ go[a] \in {"none", "gone"}
                    /\ \A c \in Ids : sessions[c] = None /\ connecting[c] = None
                    /\ conn[a] \in {"open", "hungup"} =>
                         closing[a].who \in {"input", "worker"} \/ reader[a] \in {"bye", "close"}
  BY DEF StopComplete
<1>1. go[a] \in {"none", "gone"} /\ \A c \in Ids : sessions[c] = None /\ connecting[c] = None
  BY DEF StopHolds, Stopped
<1>2. ASSUME conn[a] \in {"open", "hungup"}
      PROVE  closing[a].who \in {"input", "worker"} \/ reader[a] \in {"bye", "close"}
  <2>1. Answerable(a) /\ idOf[a] \in Ids
    BY <1>2 DEF ManagedInv, Typed, InHand, Fresh, Answered
  <2>2. closing[a].pc \in {"end", "close"} \/ reader[a] \in {"bye", "close"}
    BY <1>1, <2>1, OutletAssumption DEF Answerable
  <2>3. closing[a].pc \in {"end", "close"} => closing[a].who \notin {"stop", "nobody"}
    BY DEF StopHolds
  <2> QED BY <2>2, <2>3 DEF ManagedInv, Typed, Located, Closings, Closing
<1> QED BY <1>1, <1>2

\* When Stop returns nothing is left that could install a session or that Stop
\* has to close, whatever goroutines it met on its way, for any number of
\* attempts, as long as an id is used once.
THEOREM StopIsComplete == Spec /\ []OneAttemptPerId => []StopComplete
<1>1. Spec /\ []OneAttemptPerId => []ManagedInv
  BY ManagedInit, ManagedStep, PTL DEF Spec
<1>2. ManagedInv => Typed
  BY DEF ManagedInv
<1>3. Spec /\ []OneAttemptPerId => []StopHolds
  BY <1>1, <1>2, StopHoldsInit, StopHoldsStep, PTL DEF Spec
<1> QED BY <1>1, <1>3, InvImpliesStopComplete, PTL

-----------------------------------------------------------------------------
\* An attempt that is dialling loses its place only by its own doing, by a
\* disconnect of its session or by Stop: an earlier attempt for the same id that
\* finishes late does not take the place from it (outlet.go:241-248).
OwnPlace ==
    \A c \in Ids :
      connecting[c] # None /\ connecting'[c] # connecting[c] =>
        \/ Install(connecting[c]) \/ Finish(connecting[c])
        \/ InDisconnect /\ Head(i2o).id = c
        \/ StopMark

OldAttemptsHarmless == [][OwnPlace]_vars

LEMMA PlacesKept == Typed /\ [Next \/ AnyInlet]_vars => [OwnPlace]_vars
<1> SUFFICES ASSUME Typed, [Next \/ AnyInlet]_vars, NEW c \in Ids,
                    connecting[c] # None, connecting'[c] # connecting[c]
             PROVE  \/ Install(connecting[c]) \/ Finish(connecting[c])
                    \/ InDisconnect /\ Head(i2o).id = c
                    \/ StopMark
  BY DEF OwnPlace
<1> USE DEF Typed, mapVars, goVars, workVars, endVars, dataVars, countVars
<1>1. CASE InConnect
  <2>1. connecting' \in {connecting, [connecting EXCEPT ![Head(i2o).id] = connecting'[Head(i2o).id]]}
    BY <1>1, TakesTypes DEF InConnect, Located
  <2>2. connecting' # connecting => connecting[Head(i2o).id] = None
    BY <1>1 DEF InConnect
  <2> QED BY <2>1, <2>2 DEF Located
<1>2. CASE InDisconnect
  BY <1>2, TakesTypes DEF InDisconnect, CancelAttempt, Located
<1>3. CASE InSendData \/ InRecvResult \/ AnyInlet \/ StopReturn \/ UNCHANGED vars
  BY <1>3 DEF InSendData, InRecvResult, AnyInlet, StopReturn, vars
<1>4. ASSUME NEW a \in Attempts, GoStep(a)
      PROVE  Install(connecting[c]) \/ Finish(connecting[c])
  <2>1. CASE Install(a)
    <3>1. MayInstall(a) /\ connecting' = [connecting EXCEPT ![idOf[a]] = None]
      BY <2>1 DEF Install
    <3>2. c = idOf[a]
      BY <3>1 DEF Located
    <3> QED BY <2>1, <3>1, <3>2 DEF MayInstall
  <2>2. CASE Finish(a)
    <3>1. connecting' = [d \in Ids |-> IF d = idOf[a] /\ connecting[d] = a THEN None ELSE connecting[d]]
      BY <2>2 DEF Finish
    <3>2. connecting[c] = a
      BY <3>1
    <3> QED BY <2>2, <3>2
  <2>3. CASE Dial(a) \/ DialFails(a) \/ Refuse(a) \/ Announce(a)
    BY <2>3 DEF Dial, DialFails, Refuse, Announce
  <2> QED BY <1>4, <2>1, <2>2, <2>3 DEF GoStep
<1>5. ASSUME NEW a \in Attempts,
             WorkerStep(a) \/ Read(a) \/ ReaderStep(a) \/ CloseStep(a) \/ TargetCloses(a)
      PROVE  FALSE
  BY <1>5 DEF WorkerStep, Pop, TakeSendData, WriteDone, WriteFails, TakeDisconnect, Read, ReaderStep,
              ReadFails, AcquireCredit, Emit, ReaderRemoves, ReaderSaysBye, ReaderCloses, CloseStep,
              StopEnds, CloseConn, SayBye, TargetCloses
<1> QED BY <1>1, <1>2, <1>3, <1>4, <1>5 DEF Next, Input

\* For any number of attempts for any ids, against any inlet.
THEOREM OldAttemptsDoNoHarm == Spec => OldAttemptsHarmless
<1>1. Spec => []Typed
  BY TypedInit, TypedStep, PTL DEF Spec
<1> QED BY <1>1, PlacesKept, PTL DEF Spec, OldAttemptsHarmless

-----------------------------------------------------------------------------
\* What ending the session of an id does to the maps, windows and queues,
\* whoever ends it; nothing if the id has no session
Drops(c) ==
    \/ UNCHANGED <<sessions, flow, inputQ>>
    \/ /\ sessions[c] \in Attempts
       /\ sessions' = [sessions EXCEPT ![c] = None]
       /\ flow' = [flow EXCEPT ![sessions[c]] = 0]
       /\ inputQ' = [inputQ EXCEPT ![sessions[c]] = <<>>]

LEMMA DetachDrops ==
    ASSUME Typed, NEW c \in Ids
    PROVE  /\ Detach(c) => Drops(c)
           /\ \A who, bye : DetachAndClose(c, who, bye) => Drops(c)
<1>1. Detach(c) => Drops(c)
  BY DEF Typed, Located, Detach, End, Drops
<1>2. UNCHANGED <<sessions, endVars, dataVars>> => Drops(c)
  BY DEF Drops, dataVars
<1> QED BY <1>1, <1>2 DEF DetachAndClose

\* How far an attempt is: it has an id once it has begun, a worker once it is
\* installed, and a reader once it is announced (outlet.go:183-262).
Begun ==
    \A a \in Attempts :
      /\ go[a] = "none" => idOf[a] = None
      /\ go[a] \in {"none", "dial", "refuse", "install"} => worker[a] = "none"
      /\ go[a] = "announce" \/ reader[a] # "none" => worker[a] # "none"
      /\ worker[a] = "none" => \A c \in Ids : sessions[c] # a
      /\ worker[a] = "write" => worker[tgt[a]] # "none"
      /\ closing[a].pc = "end" => Stopped

LEMMA BegunInit == Init => Begun
BY OutletAssumption DEF Init, Begun, NotClosing

LEMMA ClosingEnds ==
    ASSUME closing \in Closings, NEW c, NEW who, NEW bye, DetachAndClose(c, who, bye)
    PROVE  \A a \in Attempts : closing'[a].pc = "end" => closing[a].pc = "end"
BY DEF DetachAndClose, endVars, Closings

LEMMA BegunStep ==
    ManagedInv /\ Begun /\ [Next \/ AnyInlet]_vars => Begun'
<1> SUFFICES ASSUME ManagedInv, Begun, [Next \/ AnyInlet]_vars PROVE Begun'
  OBVIOUS
<1>0. Located /\ Carried /\ InHand /\ Fresh /\ Keyed /\ Typed
  BY DEF ManagedInv, Typed
<1> USE <1>0, OutletAssumption DEF mapVars, goVars, workVars, endVars, dataVars, countVars, Begun, Stopped
<1>1. CASE InConnect
  <2>1. CASE UNCHANGED goVars
    <3>1. UNCHANGED <<sessions, worker, tgt, closing, stopPc>>
      BY <1>1 DEF InConnect
    <3> QED BY <2>1, <3>1
  <2>2. ASSUME NEW a \in Attempts, go[a] = "none", go' = [go EXCEPT ![a] = "dial"],
               idOf' = [idOf EXCEPT ![a] = Head(i2o).id], UNCHANGED <<sessions, reader>>
        PROVE  Begun'
    BY <1>1, <2>2 DEF InConnect, Located
  <2> QED BY <1>1, <2>1, <2>2 DEF InConnect
<1>2. CASE InSendData \/ InDisconnect
  <2>1. Head(i2o).id \in Ids
    BY <1>2, TakesTypes DEF InSendData, InDisconnect
  <2>2. UNCHANGED <<goVars, worker, tgt, stopPc>>
    BY <1>2 DEF InSendData, InDisconnect
  <2>3. UNCHANGED <<sessions, closing>> \/ DetachAndClose(Head(i2o).id, "input", TRUE)
    BY <1>2 DEF InSendData, InDisconnect, PushOrTerminate, Overflow
  <2>4. CASE DetachAndClose(Head(i2o).id, "input", TRUE)
    <3>1. \A c \in Ids : sessions'[c] \in {sessions[c], None}
      BY <2>1, <2>4, DetachDrops DEF Drops, Located
    <3>2. \A a \in Attempts : closing'[a].pc = "end" => closing[a].pc = "end"
      BY <2>4, ClosingEnds DEF Located
    <3> QED BY <2>2, <3>1, <3>2
  <2>5. CASE UNCHANGED <<sessions, closing>>
    BY <2>2, <2>5
  <2> QED BY <2>3, <2>4, <2>5
<1>3. CASE InRecvResult
  BY <1>3 DEF InRecvResult
<1>4. ASSUME NEW a \in Attempts, GoStep(a) PROVE Begun'
  <2>0. idOf[a] \in Ids /\ go[a] # "none"
    BY <1>4 DEF GoStep, Dial, DialFails, Refuse, Install, Announce, Finish, InHand
  <2>1. CASE Dial(a)
    BY <2>1 DEF Dial, Located
  <2>2. CASE DialFails(a)
    BY <2>2 DEF DialFails, Located
  <2>3. CASE Refuse(a)
    BY <2>3 DEF Refuse, Located
  <2>4. CASE Install(a) /\ MayInstall(a)
    <3>1. /\ sessions' = [sessions EXCEPT ![idOf[a]] = a] /\ worker' = [worker EXCEPT ![a] = "pop"]
          /\ go' = [go EXCEPT ![a] = "announce"] /\ UNCHANGED <<idOf, reader, tgt, closing, stopPc>>
      BY <2>4 DEF Install
    <3> QED BY <2>0, <3>1 DEF Located
  <2>5. CASE Install(a) /\ ~MayInstall(a)
    BY <2>5 DEF Install, Located
  <2>6. CASE Announce(a)
    BY <2>6 DEF Announce, Located
  <2>7. CASE Finish(a)
    BY <2>7 DEF Finish, Located
  <2> QED BY <1>4, <2>1, <2>2, <2>3, <2>4, <2>5, <2>6, <2>7 DEF GoStep
<1>5. ASSUME NEW a \in Attempts, WorkerStep(a) PROVE Begun'
  <2>0. idOf[a] \in Ids /\ worker[a] # "none"
    BY <1>5 DEF WorkerStep, Pop, TakeSendData, WriteDone, WriteFails, TakeDisconnect, InHand, Located
  <2>1. CASE Pop(a)
    <3>1. UNCHANGED <<goVars, sessions, tgt, closing, stopPc>>
      BY <2>1 DEF Pop
    <3>2. worker' = [worker EXCEPT ![a] = worker'[a]] /\ worker'[a] \in {"take", "gone"}
      BY <2>1 DEF Pop, Located
    <3>3. \A b \in Attempts : worker'[b] = "none" <=> worker[b] = "none"
      BY <2>0, <3>2 DEF Located
    <3>4. ASSUME NEW b \in Attempts, worker'[b] = "write"
          PROVE  tgt'[b] \in Attempts /\ worker[tgt'[b]] # "none"
      <4>1. worker[b] = "write"
        BY <2>0, <3>2, <3>4 DEF Located
      <4> QED BY <3>1, <4>1 DEF InHand
    <3> QED BY <3>1, <3>3, <3>4
  <2>2. CASE TakeSendData(a)
    <3>1. UNCHANGED <<goVars, sessions, closing, stopPc>>
      BY <2>2 DEF TakeSendData
    <3>2. \/ /\ sessions[idOf[a]] # None
             /\ tgt' = [tgt EXCEPT ![a] = sessions[idOf[a]]] /\ worker' = [worker EXCEPT ![a] = "write"]
          \/ worker' = [worker EXCEPT ![a] = "pop"] /\ tgt' = tgt
      BY <2>2 DEF TakeSendData
    <3>3. sessions[idOf[a]] # None => worker[sessions[idOf[a]]] # "none" /\ sessions[idOf[a]] \in Attempts
      BY <2>0 DEF Located
    <3>4. \A b \in Attempts : worker'[b] = "none" <=> worker[b] = "none"
      BY <2>0, <3>2 DEF Located
    <3>5. ASSUME NEW b \in Attempts, worker'[b] = "write"
          PROVE  tgt'[b] \in Attempts /\ worker[tgt'[b]] # "none"
      <4>1. CASE b = a
        BY <2>0, <3>2, <3>3, <3>5, <4>1 DEF Located
      <4>2. CASE b # a
        BY <3>2, <3>5, <4>2 DEF Located, InHand
      <4> QED BY <4>1, <4>2
    <3> QED BY <3>1, <3>4, <3>5
  <2>3. CASE WriteDone(a)
    BY <2>0, <2>3 DEF WriteDone, Located
  <2>4. CASE WriteFails(a) \/ TakeDisconnect(a)
    <3>1. \E bye \in BOOLEAN : DetachAndClose(idOf[a], "worker", bye)
      BY <2>4 DEF WriteFails, TakeDisconnect
    <3>2. UNCHANGED <<goVars, stopPc>> /\ WorkerEnds(a)
      BY <2>4 DEF WriteFails, TakeDisconnect
    <3>3. \A c \in Ids : sessions'[c] \in {sessions[c], None}
      BY <2>0, <3>1, DetachDrops DEF Drops, Located
    <3>4. \A b \in Attempts : closing'[b].pc = "end" => closing[b].pc = "end"
      BY <3>1, ClosingEnds DEF Located
    <3> QED BY <2>0, <3>2, <3>3, <3>4 DEF WorkerEnds, Located
  <2> QED BY <1>5, <2>1, <2>2, <2>3, <2>4 DEF WorkerStep
<1>6. ASSUME NEW a \in Attempts, Read(a) \/ ReaderStep(a) PROVE Begun'
  <2>0. idOf[a] \in Ids /\ reader[a] # "none"
    BY <1>6 DEF Read, ReaderStep, ReadFails, AcquireCredit, Emit, ReaderRemoves, ReaderSaysBye,
                ReaderCloses, InHand, Located
  <2>1. UNCHANGED <<idOf, go, worker, tgt, closing, stopPc>>
    BY <1>6 DEF Read, ReaderStep, ReadFails, AcquireCredit, Emit, ReaderRemoves, ReaderSaysBye, ReaderCloses
  <2>2. \A b \in Attempts : reader'[b] # "none" => reader[b] # "none"
    BY <2>0, <1>6 DEF Read, ReaderStep, ReadFails, AcquireCredit, Emit, ReaderRemoves, ReaderSaysBye,
                      ReaderCloses, ReaderGoes, Located
  <2>3. \A c \in Ids : sessions'[c] \in {sessions[c], None}
    BY <2>0, <1>6, DetachDrops
       DEF Read, ReaderStep, ReadFails, AcquireCredit, Emit, ReaderRemoves, ReaderSaysBye, ReaderCloses,
           Drops, Located
  <2> QED BY <2>1, <2>2, <2>3
<1>7. ASSUME NEW a \in Attempts, CloseStep(a) \/ TargetCloses(a) PROVE Begun'
  <2>1. UNCHANGED <<goVars, worker, tgt, sessions, stopPc>>
    BY <1>7 DEF CloseStep, StopEnds, CloseConn, SayBye, TargetCloses
  <2>2. \A b \in Attempts : closing'[b].pc = "end" => closing[b].pc = "end"
    <3>1. \/ closing' = closing
          \/ \E pc \in {"close", "bye", "over"} : closing' = [closing EXCEPT ![a].pc = pc]
      BY <1>7 DEF CloseStep, StopEnds, CloseConn, SayBye, TargetCloses
    <3>2. ASSUME NEW pc \in {"close", "bye", "over"}, closing' = [closing EXCEPT ![a].pc = pc]
          PROVE  \A b \in Attempts : closing'[b].pc = "end" => closing[b].pc = "end"
      BY <3>2 DEF Located, Closings, Closing
    <3> QED BY <3>1, <3>2
  <2> QED BY <2>1, <2>2
<1>8. CASE StopMark
  BY <1>8 DEF StopMark
<1>9. CASE StopReturn \/ AnyInlet \/ UNCHANGED vars
  BY <1>9 DEF StopReturn, AnyInlet, vars
<1> QED BY <1>1, <1>2, <1>3, <1>4, <1>5, <1>6, <1>7, <1>8, <1>9 DEF Next, Input

\* What an attempt has carried: nothing before it is installed, and what its
\* worker and its queue hold is for its own id (outlet.go:284-318).
Idle ==
    \A a \in Attempts :
      /\ worker[a] = "none" => up[a] = <<>> /\ inputQ[a] = <<>>
      /\ worker[a] \notin {"take", "write"} => cur[a] = None
      /\ reader[a] = "none" => down[a] = 0 /\ flow[a] = 0

Addressed ==
    \A a \in Attempts :
      /\ \A k \in 1 .. Len(inputQ[a]) : inputQ[a][k].id = idOf[a]
      /\ cur[a] # None => cur[a].id = idOf[a]

LEMMA IdleInit == Init => Idle /\ Addressed
<1>1. Len(<<>>) = 0
  OBVIOUS
<1> QED BY <1>1, OutletAssumption DEF Init, Idle, Addressed

\* A step that leaves the worker's side alone, but for a session that is dropped
LEMMA DropsIdle ==
    ASSUME Typed, Idle, Addressed, NEW c \in Ids, Drops(c), UNCHANGED <<up, down>>,
           \A a \in Attempts : /\ worker'[a] = "none" => worker[a] = "none"
                               /\ cur'[a] \in {cur[a], None}
                               /\ worker'[a] \notin {"take", "write"} => cur'[a] = None
                               /\ reader'[a] = "none" => reader[a] = "none"
                               /\ idOf'[a] = idOf[a]
    PROVE  Idle' /\ Addressed'
<1>1. Len(<<>>) = 0
  OBVIOUS
<1>2. Located /\ Carried
  BY DEF Typed
<1>3. \A a \in Attempts : inputQ'[a] \in {inputQ[a], <<>>} /\ flow'[a] \in {flow[a], 0}
  BY <1>2 DEF Drops, Carried
<1>4. Idle'
  BY <1>3 DEF Idle
<1>5. Addressed'
  BY <1>1, <1>3 DEF Addressed
<1> QED BY <1>4, <1>5

LEMMA UntouchedIdle ==
    ASSUME Idle, Addressed, UNCHANGED <<up, down, worker, cur, reader, idOf, flow, inputQ>>
    PROVE  Idle' /\ Addressed'
BY DEF Idle, Addressed

LEMMA IdleStep ==
    ManagedInv /\ Begun /\ Idle /\ Addressed /\ [Next \/ AnyInlet]_vars => Idle' /\ Addressed'
<1> SUFFICES ASSUME ManagedInv, Begun, Idle, Addressed, [Next \/ AnyInlet]_vars PROVE Idle' /\ Addressed'
  OBVIOUS
<1>0. Located /\ Carried /\ InHand /\ Fresh /\ Keyed /\ Typed
  BY DEF ManagedInv, Typed
<1> USE <1>0, OutletAssumption DEF mapVars, goVars, workVars, endVars, dataVars, countVars
<1>1. CASE InConnect
  <2>1. CASE UNCHANGED goVars
    BY <1>1, <2>1, UntouchedIdle DEF InConnect
  <2>2. ASSUME NEW a \in Attempts, go[a] = "none", go' = [go EXCEPT ![a] = "dial"],
               idOf' = [idOf EXCEPT ![a] = Head(i2o).id], UNCHANGED <<sessions, reader>>
        PROVE  Idle' /\ Addressed'
    <3>1. worker[a] = "none" /\ inputQ[a] = <<>> /\ cur[a] = None
      BY <2>2 DEF Begun, Idle
    <3>2. UNCHANGED <<up, down, worker, cur, reader, flow, inputQ>>
      BY <1>1, <2>2 DEF InConnect
    <3>3. Len(<<>>) = 0
      OBVIOUS
    <3>4. Idle'
      BY <3>2 DEF Idle
    <3>5. Addressed'
      BY <2>2, <3>1, <3>2, <3>3 DEF Addressed, Located
    <3> QED BY <3>4, <3>5
  <2> QED BY <1>1, <2>1, <2>2 DEF InConnect
<1>2. CASE InSendData \/ InDisconnect
  <2> DEFINE m == Head(i2o)
             b == sessions[m.id]
  <2>1. m \in InMessages /\ m.id \in Ids
    BY <1>2, TakesTypes DEF InSendData, InDisconnect, InMessages
  <2>2. UNCHANGED <<goVars, workVars, countVars>>
    BY <1>2 DEF InSendData, InDisconnect
  <2>3. \/ Drops(m.id)
        \/ b # None /\ inputQ' = [inputQ EXCEPT ![b] = Append(@, m)] /\ flow' = flow
    BY <1>2, <2>1, DetachDrops DEF InSendData, InDisconnect, PushOrTerminate, Overflow, Drops
  <2>4. CASE Drops(m.id)
    BY <2>1, <2>2, <2>4, DropsIdle DEF Idle
  <2>5. CASE b # None /\ inputQ' = [inputQ EXCEPT ![b] = Append(@, m)] /\ flow' = flow
    <3>1. b \in Attempts /\ idOf[b] = m.id /\ worker[b] # "none"
      BY <2>1, <2>5 DEF Located, Keyed, Begun
    <3>2. inputQ[b] \in Seq(InMessages)
      BY <3>1 DEF Carried
    <3>3. \A S : \A q \in Seq(S) : \A x \in S :
            \A k \in 1 .. Len(Append(q, x)) : Append(q, x)[k] = x \/ (k \in 1 .. Len(q) /\ Append(q, x)[k] = q[k])
      OBVIOUS
    <3>4. \A k \in 1 .. Len(inputQ'[b]) :
            inputQ'[b][k] = m \/ (k \in 1 .. Len(inputQ[b]) /\ inputQ'[b][k] = inputQ[b][k])
      BY <2>1, <2>5, <3>1, <3>2, <3>3 DEF Carried
    <3>5. \A a \in Attempts \ {b} : inputQ'[a] = inputQ[a]
      BY <2>5 DEF Carried
    <3>6. Idle'
      BY <2>2, <2>5, <3>1, <3>5 DEF Idle
    <3>7. Addressed'
      <4>1. \A k \in 1 .. Len(inputQ'[b]) : inputQ'[b][k].id = idOf[b]
        BY <3>1, <3>4 DEF Addressed
      <4> QED BY <2>2, <3>1, <3>5, <4>1 DEF Addressed
    <3> QED BY <3>6, <3>7
  <2> QED BY <2>3, <2>4, <2>5
<1>3. CASE InRecvResult
  <2>1. UNCHANGED <<up, down, worker, cur, reader, idOf, inputQ>>
    BY <1>3 DEF InRecvResult
  <2>2. \A a \in Attempts : flow'[a] \in {flow[a], flow[a] - 1} /\ (flow[a] = 0 => flow'[a] = 0)
    BY <1>3 DEF InRecvResult
  <2> QED BY <2>1, <2>2 DEF Idle, Addressed
<1>4. ASSUME NEW a \in Attempts, GoStep(a) PROVE Idle' /\ Addressed'
  <2>1. UNCHANGED <<up, down, cur, idOf, flow, inputQ>>
    BY <1>4 DEF GoStep, Dial, DialFails, Refuse, Install, Announce, Finish
  <2>2. worker' = worker \/ (worker[a] = "none" /\ worker' = [worker EXCEPT ![a] = "pop"])
    BY <1>4 DEF GoStep, Dial, DialFails, Refuse, Install, Announce, Finish, Begun
  <2>3. reader' = reader \/ reader' = [reader EXCEPT ![a] = "read"]
    BY <1>4 DEF GoStep, Dial, DialFails, Refuse, Install, Announce, Finish
  <2>4. \A b \in Attempts : /\ worker'[b] = "none" => worker[b] = "none"
                            /\ worker'[b] \notin {"take", "write"} => worker[b] \notin {"take", "write"}
                            /\ reader'[b] = "none" => reader[b] = "none"
    BY <2>2, <2>3 DEF Located
  <2> QED BY <2>1, <2>4 DEF Idle, Addressed
<1>5. ASSUME NEW a \in Attempts, WorkerStep(a) PROVE Idle' /\ Addressed'
  <2>0. idOf[a] \in Ids /\ worker[a] # "none"
    BY <1>5 DEF WorkerStep, Pop, TakeSendData, WriteDone, WriteFails, TakeDisconnect, InHand, Located
  <2>1. CASE Pop(a) /\ inputQ[a] # <<>>
    <3>1. /\ cur' = [cur EXCEPT ![a] = Head(inputQ[a])] /\ inputQ' = [inputQ EXCEPT ![a] = Tail(inputQ[a])]
          /\ worker' = [worker EXCEPT ![a] = "take"] /\ UNCHANGED <<up, down, reader, idOf, flow>>
      BY <2>1 DEF Pop, Dequeue
    <3>2. \A S : \A q \in Seq(S) : q # <<>> =>
            /\ Head(q) = q[1] /\ 1 \in 1 .. Len(q)
            /\ \A k \in 1 .. Len(Tail(q)) : k + 1 \in 1 .. Len(q) /\ Tail(q)[k] = q[k + 1]
      OBVIOUS
    <3>3. inputQ[a] \in Seq(InMessages)
      BY DEF Carried
    <3>4. cur'[a].id = idOf[a] /\ \A k \in 1 .. Len(inputQ'[a]) : inputQ'[a][k].id = idOf[a]
      <4>1. Head(inputQ[a]).id = idOf[a]
        BY <2>1, <3>2, <3>3 DEF Addressed
      <4>2. \A k \in 1 .. Len(Tail(inputQ[a])) : Tail(inputQ[a])[k].id = idOf[a]
        BY <2>1, <3>2, <3>3 DEF Addressed
      <4> QED BY <3>1, <4>1, <4>2 DEF Carried
    <3>5. \A b \in Attempts \ {a} : cur'[b] = cur[b] /\ inputQ'[b] = inputQ[b] /\ worker'[b] = worker[b]
      BY <3>1 DEF Carried, Located
    <3>6. worker'[a] = "take"
      BY <3>1 DEF Located
    <3>7. Idle'
      BY <3>1, <3>5, <3>6 DEF Idle
    <3>8. Addressed'
      BY <3>1, <3>4, <3>5 DEF Addressed
    <3> QED BY <3>7, <3>8
  <2>2. CASE Pop(a) /\ inputQ[a] = <<>>
    <3>1. worker' = [worker EXCEPT ![a] = "gone"] /\ UNCHANGED <<cur, inputQ, up, down, reader, idOf, flow>>
      BY <2>2 DEF Pop
    <3>2. worker[a] = "pop"
      BY <2>2 DEF Pop
    <3> QED BY <2>0, <3>1, <3>2 DEF Idle, Addressed, Located
  <2>3. CASE TakeSendData(a)
    <3>1. UNCHANGED <<inputQ, up, down, reader, idOf, flow>>
      BY <2>3 DEF TakeSendData
    <3>2. \/ worker' = [worker EXCEPT ![a] = "write"] /\ cur' = cur
          \/ worker' = [worker EXCEPT ![a] = "pop"] /\ cur' = [cur EXCEPT ![a] = None]
      BY <2>3 DEF TakeSendData
    <3>3. worker[a] = "take"
      BY <2>3 DEF TakeSendData
    <3>4. Idle'
      BY <3>1, <3>2, <3>3 DEF Idle, Located, Carried
    <3>5. Addressed'
      BY <3>1, <3>2, <3>3 DEF Addressed, Carried
    <3> QED BY <3>4, <3>5
  <2>4. CASE WriteDone(a)
    <3>1. /\ UNCHANGED <<inputQ, down, reader, idOf, flow>> /\ worker[a] = "write"
          /\ up' = [up EXCEPT ![tgt[a]] = Append(@, cur[a].n)]
          /\ worker' = [worker EXCEPT ![a] = "pop"] /\ cur' = [cur EXCEPT ![a] = None]
      BY <2>4 DEF WriteDone
    <3>2. \A b \in Attempts \ {tgt[a]} : up'[b] = up[b]
      BY <3>1 DEF Carried
    <3>3. worker[tgt[a]] # "none"
      BY <3>1 DEF Begun
    <3>4. \A b \in Attempts : worker'[b] = "none" => worker[b] = "none"
      BY <3>1 DEF Located
    <3>5. \A b \in Attempts : worker'[b] \notin {"take", "write"} => cur'[b] = None
      BY <3>1 DEF Idle, Located, Carried
    <3>6. Idle'
      BY <3>1, <3>2, <3>3, <3>4, <3>5 DEF Idle
    <3>7. Addressed'
      BY <3>1 DEF Addressed, Carried
    <3> QED BY <3>6, <3>7
  <2>5. CASE WriteFails(a) \/ TakeDisconnect(a)
    <3>1. \E bye \in BOOLEAN : DetachAndClose(idOf[a], "worker", bye)
      BY <2>5 DEF WriteFails, TakeDisconnect
    <3>2. UNCHANGED <<up, down, reader, idOf>> /\ WorkerEnds(a)
      BY <2>5 DEF WriteFails, TakeDisconnect
    <3>3. Drops(idOf[a])
      BY <2>0, <3>1, DetachDrops
    <3>4. \A b \in Attempts : /\ worker'[b] = "none" => worker[b] = "none"
                              /\ cur'[b] \in {cur[b], None}
                              /\ worker'[b] \notin {"take", "write"} => cur'[b] = None
      BY <2>0, <3>2 DEF WorkerEnds, Idle, Located, Carried
    <3> QED BY <2>0, <3>2, <3>3, <3>4, DropsIdle
  <2> QED BY <1>5, <2>1, <2>2, <2>3, <2>4, <2>5 DEF WorkerStep
<1>6. ASSUME NEW a \in Attempts, Read(a) \/ ReaderStep(a) PROVE Idle' /\ Addressed'
  <2>0. idOf[a] \in Ids /\ reader[a] # "none"
    BY <1>6 DEF Read, ReaderStep, ReadFails, AcquireCredit, Emit, ReaderRemoves, ReaderSaysBye,
                ReaderCloses, InHand, Located
  <2>1. UNCHANGED <<idOf, worker, cur, up>>
    BY <1>6 DEF Read, ReaderStep, ReadFails, AcquireCredit, Emit, ReaderRemoves, ReaderSaysBye, ReaderCloses
  <2>2. \A b \in Attempts : reader'[b] = "none" => reader[b] = "none" /\ b # a
    BY <2>0, <1>6 DEF Read, ReaderStep, ReadFails, AcquireCredit, Emit, ReaderRemoves, ReaderSaysBye,
                      ReaderCloses, ReaderGoes, Located
  <2>3. CASE ReaderRemoves(a)
    <3>1. Drops(idOf[a]) /\ UNCHANGED <<up, down>>
      BY <2>0, <2>3, DetachDrops DEF ReaderRemoves, Drops
    <3>2. \A b \in Attempts : worker'[b] \notin {"take", "write"} => cur'[b] = None
      BY <2>1 DEF Idle
    <3> QED BY <2>0, <2>1, <2>2, <3>1, <3>2, DropsIdle
  <2>4. CASE ~ReaderRemoves(a)
    <3>1. UNCHANGED inputQ
      BY <1>6, <2>4 DEF Read, ReaderStep, ReadFails, AcquireCredit, Emit, ReaderSaysBye, ReaderCloses
    <3>2. \A b \in Attempts \ {a} : down'[b] = down[b] /\ flow'[b] = flow[b]
      BY <1>6, <2>4 DEF Read, ReaderStep, ReadFails, AcquireCredit, Emit, ReaderSaysBye, ReaderCloses, Carried
    <3> QED BY <2>1, <2>2, <3>1, <3>2 DEF Idle, Addressed
  <2> QED BY <2>3, <2>4
<1>7. ASSUME NEW a \in Attempts, CloseStep(a) \/ TargetCloses(a) PROVE Idle' /\ Addressed'
  <2>1. UNCHANGED <<up, down, worker, cur, reader, idOf>>
    BY <1>7 DEF CloseStep, StopEnds, CloseConn, SayBye, TargetCloses
  <2>2. UNCHANGED <<flow, inputQ>> \/ (flow' = [flow EXCEPT ![a] = 0] /\ inputQ' = [inputQ EXCEPT ![a] = <<>>])
    BY <1>7 DEF CloseStep, StopEnds, CloseConn, SayBye, TargetCloses, End
  <2>3. \A b \in Attempts : inputQ'[b] \in {inputQ[b], <<>>} /\ flow'[b] \in {flow[b], 0}
    BY <2>2 DEF Carried
  <2>4. Len(<<>>) = 0
    OBVIOUS
  <2>5. Idle'
    BY <2>1, <2>3 DEF Idle
  <2>6. Addressed'
    BY <2>1, <2>3, <2>4 DEF Addressed
  <2> QED BY <2>5, <2>6
<1>8. CASE StopMark \/ StopReturn \/ AnyInlet \/ UNCHANGED vars
  BY <1>8, UntouchedIdle DEF StopMark, StopReturn, AnyInlet, vars
<1> QED BY <1>1, <1>2, <1>3, <1>4, <1>5, <1>6, <1>7, <1>8 DEF Next, Input

\* The worker writes to its own session when an id is used once.
OwnTarget == \A a \in Attempts : worker[a] = "write" => tgt[a] = a

LEMMA OwnTargetInit == Init => OwnTarget
BY DEF Init, OwnTarget

LEMMA OwnTargetStep ==
    ManagedInv /\ Begun /\ OneAttemptPerId /\ OwnTarget /\ [Next \/ AnyInlet]_vars => OwnTarget'
<1> SUFFICES ASSUME ManagedInv, Begun, OneAttemptPerId, OwnTarget, [Next \/ AnyInlet]_vars PROVE OwnTarget'
  OBVIOUS
<1>0. Located /\ Carried /\ InHand /\ Fresh /\ Keyed /\ Typed
  BY DEF ManagedInv, Typed
<1> USE <1>0, OutletAssumption DEF mapVars, goVars, workVars, endVars, dataVars, countVars, OwnTarget
<1>1. ASSUME NEW a \in Attempts, WorkerStep(a) PROVE OwnTarget'
  <2>1. CASE TakeSendData(a)
    <3>1. idOf[a] \in Ids /\ go[a] # "none"
      BY <2>1 DEF TakeSendData, InHand, Located
    <3>2. sessions[idOf[a]] # None => sessions[idOf[a]] = a
      BY <3>1 DEF Keyed, OneAttemptPerId, InHand, Fresh, Located
    <3> QED BY <2>1, <3>2 DEF TakeSendData, Located
  <2>2. CASE Pop(a) \/ WriteDone(a) \/ WriteFails(a) \/ TakeDisconnect(a)
    <3>1. \E pc \in {"take", "pop", "gone"} : worker' = [worker EXCEPT ![a] = pc]
      BY <2>2 DEF Pop, WriteDone, WriteFails, TakeDisconnect, WorkerEnds
    <3>2. tgt' = tgt \/ tgt' = [tgt EXCEPT ![a] = None]
      BY <2>2 DEF Pop, WriteDone, WriteFails, TakeDisconnect, WorkerEnds
    <3>3. worker'[a] # "write" /\ \A b \in Attempts \ {a} : worker'[b] = worker[b]
      BY <3>1 DEF Located
    <3>4. \A b \in Attempts \ {a} : tgt'[b] = tgt[b]
      BY <3>2 DEF Located, Carried
    <3> QED BY <3>3, <3>4
  <2> QED BY <1>1, <2>1, <2>2 DEF WorkerStep
<1>2. ASSUME NEW a \in Attempts, Install(a) PROVE OwnTarget'
  BY <1>2 DEF Install, Located
<1>3. ASSUME NEW a \in Attempts, GoStep(a) \/ Read(a) \/ ReaderStep(a) \/ CloseStep(a) \/ TargetCloses(a), ~Install(a)
      PROVE UNCHANGED <<worker, tgt>>
  BY <1>3 DEF GoStep, Dial, DialFails, Refuse, Announce, Finish, Read, ReaderStep, ReadFails, AcquireCredit,
              Emit, ReaderRemoves, ReaderSaysBye, ReaderCloses, CloseStep, StopEnds, CloseConn, SayBye, TargetCloses
<1>4. CASE Input \/ StopMark \/ StopReturn \/ AnyInlet \/ UNCHANGED vars
  BY <1>4 DEF Input, InConnect, InSendData, InDisconnect, InRecvResult, StopMark, StopReturn, AnyInlet, vars
<1> QED BY <1>1, <1>2, <1>3, <1>4 DEF Next

-----------------------------------------------------------------------------
\* What one step of the outlet does for one attempt, in the terms in which the
\* other end and the route between them see it.  Ids are used once here.
Over == {"remove", "bye", "close", "gone"}
Holding == {"credit", "emit"}

Sends ==
    [type : {"O2IConnect"}, id : Ids, ok : BOOLEAN]
      \cup [type : {"O2IRecvData"}, id : Ids, n : Nat]
      \cup [type : {"O2IDisconnect", "O2ISendDataResult"}, id : Ids]

\* No payload is taken or sent.
KeepsPace(a) ==
    /\ reader[a] = "emit" <=> reader'[a] = "emit"
    /\ reader'[a] \in Over \/ (reader[a] \notin Over /\ (reader[a] \in Holding <=> reader'[a] \in Holding))

\* No session is installed and no write begun.
Steady(a) ==
    /\ worker'[a] = "write" => worker[a] = "write"
    /\ \A c \in Ids : sessions'[c] = a => sessions[c] = a

Begins(a) ==
    /\ go[a] = "none" /\ i2o # <<>> /\ i2o' = Tail(i2o) /\ Head(i2o).type = "I2OConnect"
    /\ idOf' = [idOf EXCEPT ![a] = Head(i2o).id] /\ sessions[Head(i2o).id] = None /\ connecting[Head(i2o).id] = None
    /\ UNCHANGED <<sessions, worker, reader, cur, flow, inputQ, up, down, o2i>>

Rests(a) ==
    /\ UNCHANGED <<idOf[a], cur[a], inputQ[a], flow[a], up[a], down[a]>> /\ KeepsPace(a) /\ Steady(a)
    /\ \/ i2o' = i2o
       \/ /\ i2o # <<>> /\ i2o' = Tail(i2o)
          /\ Head(i2o).id # idOf[a] \/ Head(i2o).type = "I2OConnect" \/ sessions'[idOf[a]] # a
    /\ \/ o2i' = o2i
       \/ \E m \in Sends :
            o2i' = Append(o2i, m) /\ (m.id = idOf[a] => m.type \in {"O2IConnect", "O2IDisconnect"})

Loses(a) ==
    /\ sessions'[idOf[a]] # a
    /\ worker'[a] = "write" => cur'[a] = cur[a]
    /\ UNCHANGED <<idOf[a], up[a], down[a], o2i>> /\ KeepsPace(a) /\ Steady(a)
    /\ i2o' = i2o \/ (i2o # <<>> /\ i2o' = Tail(i2o))

GetsMessage(a) ==
    /\ sessions[idOf[a]] = a /\ i2o # <<>> /\ i2o' = Tail(i2o)
    /\ Head(i2o).id = idOf[a] /\ Head(i2o) \in InMessages
    /\ inputQ'[a] = Append(inputQ[a], Head(i2o))
    /\ UNCHANGED <<idOf[a], cur[a], flow[a], up[a], down[a], o2i>> /\ KeepsPace(a) /\ Steady(a)

GetsCredit(a) ==
    /\ sessions[idOf[a]] = a /\ i2o # <<>> /\ i2o' = Tail(i2o)
    /\ Head(i2o).id = idOf[a] /\ Head(i2o).type = "I2ORecvDataResult"
    /\ flow'[a] = IF flow[a] = 0 THEN 0 ELSE flow[a] - 1
    /\ UNCHANGED <<idOf[a], cur[a], inputQ[a], up[a], down[a], o2i>> /\ KeepsPace(a) /\ Steady(a)

Installs(a) ==
    /\ go[a] = "install" /\ sessions[idOf[a]] = None /\ sessions'[idOf[a]] = a /\ worker'[a] = "pop"
    /\ UNCHANGED <<idOf[a], reader[a], cur[a], inputQ[a], flow[a], up[a], down[a], i2o, o2i>>

PopsMessage(a) ==
    /\ worker[a] = "pop" /\ inputQ[a] # <<>>
    /\ cur'[a] = Head(inputQ[a]) /\ inputQ'[a] = Tail(inputQ[a])
    /\ UNCHANGED <<idOf[a], flow[a], up[a], down[a], i2o, o2i>> /\ KeepsPace(a) /\ Steady(a)

BeginsWrite(a) ==
    /\ worker[a] = "take" /\ cur[a] \in InMessages /\ cur[a].type = "I2OSendData" /\ sessions[idOf[a]] = a
    /\ UNCHANGED <<sessions, idOf[a], cur[a], inputQ[a], flow[a], up[a], down[a], i2o, o2i>> /\ KeepsPace(a)

WritesPayload(a) ==
    /\ worker[a] = "write" /\ worker'[a] = "pop"
    /\ cur[a] \in InMessages /\ cur[a].type = "I2OSendData" /\ cur'[a] = None
    /\ up'[a] = Append(up[a], cur[a].n) /\ o2i' = Append(o2i, SendDataResult(idOf[a]))
    /\ UNCHANGED <<idOf[a], inputQ[a], flow[a], down[a], i2o>> /\ KeepsPace(a) /\ Steady(a)

TakesPayload(a) ==
    /\ reader[a] = "read" /\ reader'[a] = "credit" /\ down'[a] = down[a] + 1
    /\ UNCHANGED <<idOf[a], cur[a], inputQ[a], flow[a], up[a], i2o, o2i>> /\ Steady(a)

GetsRoom(a) ==
    /\ reader[a] = "credit" /\ reader'[a] = "emit" /\ flow'[a] = flow[a] + 1
    /\ UNCHANGED <<idOf[a], cur[a], inputQ[a], up[a], down[a], i2o, o2i>> /\ Steady(a)

SendsPayload(a) ==
    /\ reader[a] = "emit" /\ reader'[a] = "read" /\ o2i' = Append(o2i, RecvData(idOf[a], down[a]))
    /\ UNCHANGED <<idOf[a], cur[a], inputQ[a], flow[a], up[a], down[a], i2o>> /\ Steady(a)

Effect(a) ==
    \/ Rests(a) \/ Loses(a) \/ GetsMessage(a) \/ GetsCredit(a) \/ Installs(a) \/ PopsMessage(a)
    \/ BeginsWrite(a) \/ WritesPayload(a) \/ TakesPayload(a) \/ GetsRoom(a) \/ SendsPayload(a)

LEMMA SendsTyped ==
    \A c \in Ids :
      /\ Disconnect(c) \in Sends /\ Disconnect(c).id = c /\ Disconnect(c).type = "O2IDisconnect"
      /\ SendDataResult(c) \in Sends /\ SendDataResult(c).id = c
      /\ SendDataResult(c).type = "O2ISendDataResult"
      /\ \A ok \in BOOLEAN : /\ Connected(c, ok) \in Sends /\ Connected(c, ok).id = c
                             /\ Connected(c, ok).type = "O2IConnect" /\ Connected(c, ok).ok = ok
      /\ \A n \in Nat : /\ RecvData(c, n) \in Sends /\ RecvData(c, n).id = c
                        /\ RecvData(c, n).type = "O2IRecvData" /\ RecvData(c, n).n = n
BY DEF Disconnect, SendDataResult, Connected, RecvData, Sends

\* The session of an id ends; for every attempt this is losing it or nothing.
LEMMA DropsEffect ==
    ASSUME ManagedInv, NEW c \in Ids, Drops(c), NEW a \in Attempts, KeepsPace(a),
           UNCHANGED <<idOf[a], cur[a], worker[a], up[a], down[a], o2i>>,
           \/ i2o' = i2o
           \/ /\ i2o # <<>> /\ i2o' = Tail(i2o)
              /\ Head(i2o).id # idOf[a] \/ (Head(i2o).id = c /\ sessions'[c] # a)
    PROVE  Rests(a) \/ Loses(a)
<1>0. Located /\ Carried /\ Keyed
  BY DEF ManagedInv, Typed
<1>1. Steady(a)
  BY <1>0, OutletAssumption DEF Drops, Steady, Located
<1>2. CASE sessions[c] = a /\ sessions' = [sessions EXCEPT ![c] = None]
  <2>1. idOf[a] = c
    BY <1>0, <1>2, OutletAssumption DEF Keyed
  <2>2. sessions'[c] # a
    BY <1>0, <1>2, OutletAssumption DEF Located
  <2> QED BY <1>1, <2>1, <2>2 DEF Loses
<1>3. CASE flow'[a] = flow[a] /\ inputQ'[a] = inputQ[a]
  BY <1>1, <1>3 DEF Rests
<1> QED BY <1>0, <1>2, <1>3 DEF Drops, Carried

\* Every step of the outlet is, for every attempt that has begun, one of these.
LEMMA AttemptStep ==
    ASSUME ManagedInv, StopHolds, Begun, OneAttemptPerId, OwnTarget, Next, NEW a \in Attempts, go[a] # "none"
    PROVE  Effect(a)
<1>0. Located /\ Carried /\ InHand /\ Fresh /\ Keyed /\ Typed
  BY DEF ManagedInv, Typed
<1>z. idOf[a] \in Ids
  BY <1>0 DEF InHand
<1> USE <1>0, <1>z DEF mapVars, goVars, workVars, endVars, dataVars, countVars, Effect
<1>k. reader' = reader => KeepsPace(a)
  BY DEF KeepsPace
<1>s. worker' = worker /\ sessions' = sessions => Steady(a)
  BY DEF Steady
<1>o. ASSUME NEW b \in Attempts, reader[b] # "emit", NEW pc \in Over, reader' = [reader EXCEPT ![b] = pc]
      PROVE  KeepsPace(a)
  BY <1>o DEF KeepsPace, Over, Located
<1>1. CASE InConnect
  <2>1. /\ UNCHANGED <<sessions, workVars, reader, cur, inputQ, flow, up, down>> /\ Head(i2o).type = "I2OConnect"
        /\ i2o # <<>> /\ i2o' = Tail(i2o)
    BY <1>1 DEF InConnect, Takes
  <2>2. idOf'[a] = idOf[a]
    <3>1. idOf' = idOf \/ \E b \in Attempts : go[b] = "none" /\ idOf' = [idOf EXCEPT ![b] = Head(i2o).id]
      BY <1>1 DEF InConnect
    <3> QED BY <3>1 DEF Located
  <2>3. o2i' = o2i \/ o2i' = Append(o2i, Connected(Head(i2o).id, FALSE))
    BY <1>1 DEF InConnect, Output
  <2>4. Head(i2o).id \in Ids
    BY <1>1, TakesTypes DEF InConnect
  <2> QED BY <1>k, <1>s, <2>1, <2>2, <2>3, <2>4, SendsTyped DEF Rests
<1>2. CASE InSendData \/ InDisconnect
  <2> DEFINE m == Head(i2o)
             b == sessions[m.id]
  <2>1. m \in InMessages /\ m.id \in Ids
    BY <1>2, TakesTypes DEF InSendData, InDisconnect, InMessages
  <2>2. UNCHANGED <<goVars, workVars, countVars, o2i>> /\ i2o # <<>> /\ i2o' = Tail(i2o)
    BY <1>2 DEF InSendData, InDisconnect, Takes
  <2>3. \/ Drops(m.id) /\ (b = None \/ Detach(m.id))
        \/ b # None /\ inputQ' = [inputQ EXCEPT ![b] = Append(@, m)] /\ flow' = flow /\ sessions' = sessions
    BY <1>2, <2>1, DetachDrops DEF InSendData, InDisconnect, PushOrTerminate, Overflow, DetachAndClose, Drops
  <2>4. CASE Drops(m.id) /\ (b = None \/ Detach(m.id))
    <3>1. sessions'[m.id] # a
      BY <2>1, <2>4, OutletAssumption DEF Detach, Drops, Located
    <3> QED BY <1>k, <2>1, <2>2, <2>4, <3>1, DropsEffect
  <2>5. CASE b # None /\ inputQ' = [inputQ EXCEPT ![b] = Append(@, m)] /\ flow' = flow /\ sessions' = sessions
    <3>1. b \in Attempts /\ idOf[b] = m.id
      BY <2>1, <2>5 DEF Located, Keyed
    <3>2. CASE a = b
      BY <1>k, <1>s, <2>1, <2>2, <2>5, <3>1, <3>2 DEF GetsMessage, Carried
    <3>3. CASE a # b
      BY <1>k, <1>s, <2>1, <2>2, <2>5, <3>1, <3>3 DEF Rests, Carried
    <3> QED BY <3>2, <3>3
  <2> QED BY <2>3, <2>4, <2>5
<1>3. CASE InRecvResult
  <2> DEFINE m == Head(i2o)
  <2>1. m.id \in Ids /\ m.type = "I2ORecvDataResult"
    BY <1>3, TakesTypes DEF InRecvResult
  <2>2. /\ UNCHANGED <<sessions, goVars, workVars, countVars, inputQ, o2i>> /\ i2o # <<>> /\ i2o' = Tail(i2o)
        /\ flow' = [x \in Attempts |-> IF x = sessions[m.id] /\ flow[x] > 0 THEN flow[x] - 1 ELSE flow[x]]
    BY <1>3 DEF InRecvResult, Takes
  <2>3. CASE sessions[m.id] = a
    <3>1. idOf[a] = m.id
      BY <2>1, <2>3, OutletAssumption DEF Keyed
    <3>2. flow[a] \in Nat
      BY OutletAssumption DEF Carried
    <3>3. flow'[a] = IF flow[a] = 0 THEN 0 ELSE flow[a] - 1
      BY <2>2, <2>3, <3>2
    <3> QED BY <1>k, <1>s, <2>1, <2>2, <2>3, <3>1, <3>3 DEF GetsCredit
  <2>4. CASE sessions[m.id] # a
    BY <1>k, <1>s, <2>1, <2>2, <2>4 DEF Rests
  <2> QED BY <2>3, <2>4
<1>4. ASSUME NEW b \in Attempts, GoStep(b) PROVE Effect(a)
  <2>1. UNCHANGED <<idOf, cur, inputQ, flow, up, down, i2o>> /\ go[b] # "none"
    BY <1>4 DEF GoStep, Dial, DialFails, Refuse, Install, Announce, Finish
  <2>2. CASE Install(b) /\ MayInstall(b)
    <3>1. /\ sessions' = [sessions EXCEPT ![idOf[b]] = b] /\ worker' = [worker EXCEPT ![b] = "pop"]
          /\ UNCHANGED <<reader, o2i>> /\ go[b] = "install" /\ sessions[idOf[b]] = None
      BY <2>2 DEF Install, MayInstall
    <3>2. idOf[b] \in Ids
      BY <3>1 DEF InHand
    <3>3. CASE a = b
      BY <2>1, <3>1, <3>2, <3>3 DEF Installs, Located
    <3>4. CASE a # b
      <4>1. Steady(a)
        BY <3>1, <3>4 DEF Steady, Located
      <4> QED BY <1>k, <2>1, <3>1, <4>1 DEF Rests
    <3> QED BY <3>3, <3>4
  <2>3. CASE (Install(b) /\ ~MayInstall(b)) \/ Dial(b) \/ DialFails(b) \/ Finish(b)
    <3>1. UNCHANGED <<sessions, worker, reader, o2i>>
      BY <2>3 DEF Install, Dial, DialFails, Finish
    <3> QED BY <1>k, <1>s, <2>1, <3>1 DEF Rests
  <2>4. CASE Refuse(b) \/ Announce(b)
    <3>1. UNCHANGED <<sessions, worker>> /\ \E ok \in BOOLEAN : o2i' = Append(o2i, Connected(idOf[b], ok))
      BY <2>4 DEF Refuse, Announce, Output
    <3>2. idOf[b] \in Ids
      BY <2>1 DEF InHand
    <3>3. KeepsPace(a)
      <4>1. reader' = reader \/ (reader[b] = "none" /\ reader' = [reader EXCEPT ![b] = "read"])
        BY <2>4 DEF Refuse, Announce, InHand
      <4> QED BY <1>k, <4>1 DEF KeepsPace, Over, Holding, Located
    <3> QED BY <1>s, <2>1, <3>1, <3>2, <3>3, SendsTyped DEF Rests
  <2> QED BY <1>4, <2>2, <2>3, <2>4 DEF GoStep
<1>5. ASSUME NEW b \in Attempts, WorkerStep(b) PROVE Effect(a)
  <2>0. idOf[b] \in Ids /\ go[b] # "none"
    BY <1>5 DEF WorkerStep, Pop, TakeSendData, WriteDone, WriteFails, TakeDisconnect, InHand, Located
  <2>1. UNCHANGED <<idOf, reader, down, i2o>> /\ KeepsPace(a)
    BY <1>5, <1>k DEF WorkerStep, Pop, TakeSendData, WriteDone, WriteFails, TakeDisconnect
  <2>2. CASE Pop(b)
    <3>1. UNCHANGED <<sessions, flow, up, o2i>> /\ worker[b] = "pop"
      BY <2>2 DEF Pop
    <3>2. worker'[b] # "write" /\ \A x \in Attempts \ {b} : worker'[x] = worker[x]
      BY <2>2 DEF Pop, Located
    <3>3. Steady(a)
      BY <3>1, <3>2 DEF Steady
    <3>4. CASE UNCHANGED <<cur, inputQ>>
      BY <2>1, <3>1, <3>3, <3>4 DEF Rests
    <3>5. CASE inputQ[b] # <<>> /\ cur' = [cur EXCEPT ![b] = Head(inputQ[b])] /\ inputQ' = [inputQ EXCEPT ![b] = Tail(@)]
      <4>1. CASE a = b
        BY <2>1, <3>1, <3>3, <3>5, <4>1 DEF PopsMessage, Carried
      <4>2. CASE a # b
        BY <2>1, <3>1, <3>3, <3>5, <4>2 DEF Rests, Carried
      <4> QED BY <4>1, <4>2
    <3> QED BY <2>2, <3>4, <3>5 DEF Pop, Dequeue
  <2>3. CASE TakeSendData(b)
    <3>1. UNCHANGED <<sessions, flow, up, o2i, inputQ>> /\ worker[b] = "take" /\ cur[b].type = "I2OSendData"
      BY <2>3 DEF TakeSendData
    <3>2. CASE sessions[idOf[b]] # None /\ worker' = [worker EXCEPT ![b] = "write"] /\ UNCHANGED cur
      <4>1. sessions[idOf[b]] = b
        <5>1. sessions[idOf[b]] \in Attempts /\ idOf[sessions[idOf[b]]] = idOf[b]
          BY <2>0, <3>2 DEF Keyed, Located
        <5>2. go[sessions[idOf[b]]] # "none"
          BY <2>0, <5>1, OutletAssumption DEF Fresh
        <5> QED BY <2>0, <5>1, <5>2 DEF OneAttemptPerId
      <4>2. CASE a = b
        BY <2>1, <3>1, <3>2, <4>1, <4>2 DEF BeginsWrite, InHand
      <4>3. CASE a # b
        <5>1. Steady(a)
          BY <3>1, <3>2, <4>3 DEF Steady, Located
        <5> QED BY <2>1, <3>1, <3>2, <5>1 DEF Rests
      <4> QED BY <4>2, <4>3
    <3>3. CASE sessions[idOf[b]] = None /\ cur' = [cur EXCEPT ![b] = None] /\ worker' = [worker EXCEPT ![b] = "pop"]
      <4>1. Steady(a)
        BY <3>1, <3>3 DEF Steady, Located
      <4>2. CASE a = b
        BY <2>1, <3>1, <3>3, <4>1, <4>2, OutletAssumption DEF Loses, Located
      <4>3. CASE a # b
        BY <2>1, <3>1, <3>3, <4>1, <4>3 DEF Rests, Carried
      <4> QED BY <4>2, <4>3
    <3> QED BY <2>3, <3>2, <3>3 DEF TakeSendData
  <2>4. CASE WriteDone(b)
    <3>1. /\ UNCHANGED <<sessions, inputQ, flow>> /\ worker[b] = "write" /\ tgt[b] = b
          /\ up' = [up EXCEPT ![b] = Append(@, cur[b].n)] /\ o2i' = Append(o2i, SendDataResult(idOf[b]))
          /\ worker' = [worker EXCEPT ![b] = "pop"] /\ cur' = [cur EXCEPT ![b] = None]
      BY <2>4 DEF WriteDone, OwnTarget, Output
    <3>2. cur[b] \in InMessages /\ cur[b].type = "I2OSendData"
      BY <3>1 DEF InHand
    <3>3. Steady(a)
      BY <3>1 DEF Steady, Located
    <3>4. CASE a = b
      BY <2>1, <3>1, <3>2, <3>3, <3>4 DEF WritesPayload, Located, Carried
    <3>5. CASE a # b
      <4>1. idOf[b] # idOf[a]
        BY <2>0, <3>5 DEF OneAttemptPerId
      <4>2. cur'[a] = cur[a] /\ up'[a] = up[a]
        BY <3>1, <3>5 DEF Carried
      <4>3. SendDataResult(idOf[b]) \in Sends /\ SendDataResult(idOf[b]).id = idOf[b]
        BY <2>0, SendsTyped
      <4> QED BY <2>1, <3>1, <3>3, <4>1, <4>2, <4>3 DEF Rests
    <3> QED BY <3>4, <3>5
  <2>5. CASE WriteFails(b) \/ TakeDisconnect(b)
    <3>1. /\ \E bye \in BOOLEAN : DetachAndClose(idOf[b], "worker", bye)
          /\ WorkerEnds(b) /\ UNCHANGED <<up, o2i>>
      BY <2>5 DEF WriteFails, TakeDisconnect
    <3>2. Drops(idOf[b])
      BY <2>0, <3>1, DetachDrops
    <3>3. CASE a = b
      <4>1. sessions'[idOf[a]] # a
        BY <3>1, <3>3, OutletAssumption DEF DetachAndClose, Detach, Located
      <4>2. worker'[a] = "gone"
        BY <3>1, <3>3 DEF WorkerEnds, Located
      <4>3. Steady(a)
        BY <3>2, <3>3, <4>2, OutletAssumption DEF Steady, Drops, Located
      <4> QED BY <2>1, <3>1, <4>1, <4>2, <4>3 DEF Loses
    <3>4. CASE a # b
      <4>1. worker'[a] = worker[a] /\ cur'[a] = cur[a]
        BY <3>1, <3>4 DEF WorkerEnds, Located, Carried
      <4> QED BY <2>0, <2>1, <3>1, <3>2, <4>1, DropsEffect
    <3> QED BY <3>3, <3>4
  <2> QED BY <1>5, <2>2, <2>3, <2>4, <2>5 DEF WorkerStep
<1>6. ASSUME NEW b \in Attempts, Read(b) \/ ReaderStep(b) PROVE Effect(a)
  <2>0. idOf[b] \in Ids /\ go[b] # "none"
    BY <1>6 DEF Read, ReaderStep, ReadFails, AcquireCredit, Emit, ReaderRemoves, ReaderSaysBye,
                ReaderCloses, InHand, Located
  <2>1. UNCHANGED <<idOf, worker, cur, up, i2o>>
    BY <1>6 DEF Read, ReaderStep, ReadFails, AcquireCredit, Emit, ReaderRemoves, ReaderSaysBye, ReaderCloses
  <2>2. CASE Read(b)
    <3>1. /\ reader[b] = "read" /\ reader' = [reader EXCEPT ![b] = "credit"] /\ down' = [down EXCEPT ![b] = @ + 1]
          /\ UNCHANGED <<sessions, flow, inputQ, o2i>>
      BY <2>2 DEF Read, ReaderGoes
    <3>2. CASE a = b
      BY <1>s, <2>1, <3>1, <3>2 DEF TakesPayload, Located, Carried
    <3>3. CASE a # b
      BY <1>s, <2>1, <3>1, <3>3 DEF Rests, KeepsPace, Located, Carried
    <3> QED BY <3>2, <3>3
  <2>3. CASE AcquireCredit(b)
    <3>1. UNCHANGED <<sessions, inputQ, down, o2i>> /\ reader[b] = "credit"
      BY <2>3 DEF AcquireCredit
    <3>2. CASE flow' = [flow EXCEPT ![b] = @ + 1] /\ reader' = [reader EXCEPT ![b] = "emit"]
      <4>1. CASE a = b
        BY <1>s, <2>1, <3>1, <3>2, <4>1 DEF GetsRoom, Located, Carried
      <4>2. CASE a # b
        BY <1>s, <2>1, <3>1, <3>2, <4>2 DEF Rests, KeepsPace, Located, Carried
      <4> QED BY <4>1, <4>2
    <3>3. CASE reader' = [reader EXCEPT ![b] = "remove"] /\ UNCHANGED flow
      BY <1>s, <2>1, <3>1, <3>3 DEF Rests, KeepsPace, Over, Located
    <3> QED BY <2>3, <3>2, <3>3 DEF AcquireCredit, ReaderGoes
  <2>4. CASE Emit(b)
    <3>1. /\ UNCHANGED <<sessions, inputQ, flow, down>> /\ reader[b] = "emit" /\ reader' = [reader EXCEPT ![b] = "read"]
          /\ o2i' = Append(o2i, RecvData(idOf[b], down[b]))
      BY <2>4 DEF Emit, Output, ReaderGoes
    <3>2. CASE a = b
      BY <1>s, <2>1, <3>1, <3>2 DEF SendsPayload, Located
    <3>3. CASE a # b
      <4>1. idOf[b] # idOf[a] /\ down[b] \in Nat
        BY <2>0, <3>3, OutletAssumption DEF OneAttemptPerId, Carried
      <4>2. RecvData(idOf[b], down[b]) \in Sends /\ RecvData(idOf[b], down[b]).id = idOf[b]
        BY <2>0, <4>1, SendsTyped
      <4>3. KeepsPace(a)
        BY <3>1, <3>3 DEF KeepsPace, Located
      <4> QED BY <1>s, <2>1, <3>1, <4>1, <4>2, <4>3 DEF Rests
    <3> QED BY <3>2, <3>3
  <2>5. CASE ReadFails(b) \/ ReaderCloses(b)
    <3>1. UNCHANGED <<sessions, inputQ, flow, down, o2i>> /\ reader[b] # "emit"
            /\ \E pc \in Over : reader' = [reader EXCEPT ![b] = pc]
      BY <2>5 DEF ReadFails, ReaderCloses, ReaderGoes, Over
    <3>2. KeepsPace(a)
      BY <1>o, <3>1
    <3> QED BY <1>s, <2>1, <3>1, <3>2 DEF Rests
  <2>6. CASE ReaderRemoves(b)
    <3>1. reader' = [reader EXCEPT ![b] = "bye"] /\ Drops(idOf[b]) /\ UNCHANGED <<down, o2i>> /\ reader[b] # "emit"
      BY <2>0, <2>6, DetachDrops DEF ReaderRemoves, ReaderGoes, Drops
    <3>2. KeepsPace(a)
      BY <1>o, <3>1 DEF Over
    <3> QED BY <2>0, <2>1, <3>1, <3>2, DropsEffect
  <2>7. CASE ReaderSaysBye(b)
    <3>1. UNCHANGED <<sessions, inputQ, flow, down>> /\ reader' = [reader EXCEPT ![b] = "close"]
          /\ o2i' = Append(o2i, Disconnect(idOf[b])) /\ reader[b] # "emit"
      BY <2>7 DEF ReaderSaysBye, Output, ReaderGoes
    <3>2. KeepsPace(a)
      BY <1>o, <3>1 DEF Over
    <3> QED BY <1>s, <2>0, <2>1, <3>1, <3>2, SendsTyped DEF Rests
  <2> QED BY <1>6, <2>2, <2>3, <2>4, <2>5, <2>6, <2>7 DEF ReaderStep
<1>7. ASSUME NEW b \in Attempts, CloseStep(b) \/ TargetCloses(b) PROVE Effect(a)
  <2>1. UNCHANGED <<sessions, idOf, worker, cur, reader, up, down, i2o>>
    BY <1>7 DEF CloseStep, StopEnds, CloseConn, SayBye, TargetCloses
  <2>2. CASE StopEnds(b)
    <3>1. Stopped /\ o2i' = o2i
      BY <2>2 DEF StopEnds, Begun
    <3>2. CASE a = b
      BY <1>k, <1>s, <2>1, <3>1, <3>2, OutletAssumption DEF StopHolds, Loses
    <3>3. CASE a # b
      BY <1>k, <1>s, <2>1, <2>2, <3>1, <3>3 DEF StopEnds, End, Rests, Carried
    <3> QED BY <3>2, <3>3
  <2>3. CASE CloseConn(b) \/ TargetCloses(b)
    BY <1>k, <1>s, <2>1, <2>3 DEF CloseConn, TargetCloses, Rests
  <2>4. CASE SayBye(b)
    <3>1. idOf[b] \in Ids
      BY <2>4 DEF SayBye, Fresh, InHand, NotClosing
    <3>2. UNCHANGED <<inputQ, flow>> /\ o2i' = Append(o2i, Disconnect(idOf[b]))
      BY <2>4 DEF SayBye, Output
    <3> QED BY <1>k, <1>s, <2>1, <3>1, <3>2, SendsTyped DEF Rests
  <2> QED BY <1>7, <2>2, <2>3, <2>4 DEF CloseStep
<1>8. CASE StopMark
  <2>1. sessions' = [c \in Ids |-> None] /\ UNCHANGED <<goVars, workVars, dataVars, countVars, i2o, o2i>>
    BY <1>8 DEF StopMark
  <2>2. Steady(a)
    BY <2>1, OutletAssumption DEF Steady
  <2> QED BY <1>k, <2>1, <2>2 DEF Rests
<1>9. CASE StopReturn
  BY <1>9, <1>k, <1>s DEF StopReturn, Rests
<1> QED BY <1>1, <1>2, <1>3, <1>4, <1>5, <1>6, <1>7, <1>8, <1>9 DEF Next, Input

\* An attempt that has not begun stays as it is, or begins with a connect.
LEMMA AttemptBegins ==
    ASSUME Typed, Next, NEW a \in Attempts, go[a] = "none"
    PROVE  Begins(a) \/ (go'[a] = "none" /\ idOf'[a] = idOf[a])
<1>0. Located /\ Carried /\ InHand
  BY DEF Typed
<1> USE <1>0 DEF mapVars, goVars, workVars, endVars, dataVars, countVars
<1>1. CASE InConnect
  <2>1. CASE UNCHANGED goVars
    BY <1>1, <2>1
  <2>2. ASSUME NEW b \in Attempts, go[b] = "none", go' = [go EXCEPT ![b] = "dial"],
               idOf' = [idOf EXCEPT ![b] = Head(i2o).id], UNCHANGED <<sessions, reader, o2i>>,
               sessions[Head(i2o).id] = None, connecting[Head(i2o).id] = None
        PROVE  Begins(a) \/ (go'[a] = "none" /\ idOf'[a] = idOf[a])
    <3>1. UNCHANGED <<worker, cur, flow, inputQ, up, down>> /\ i2o # <<>> /\ i2o' = Tail(i2o)
            /\ Head(i2o).type = "I2OConnect"
      BY <1>1 DEF InConnect, Takes
    <3> QED BY <2>2, <3>1 DEF Begins, Located
  <2> QED BY <1>1, <2>1, <2>2 DEF InConnect
<1>2. ASSUME NEW b \in Attempts, GoStep(b) PROVE go'[a] = "none" /\ idOf'[a] = idOf[a]
  <2>1. go[b] # "none" /\ idOf' = idOf /\ \E pc : go' = [go EXCEPT ![b] = pc]
    BY <1>2 DEF GoStep, Dial, DialFails, Refuse, Install, Announce, Finish
  <2> QED BY <2>1 DEF Located
<1>3. CASE InSendData \/ InDisconnect \/ InRecvResult \/ StopMark \/ StopReturn
  BY <1>3 DEF InSendData, InDisconnect, InRecvResult, StopMark, StopReturn
<1>4. ASSUME NEW b \in Attempts, WorkerStep(b) \/ Read(b) \/ ReaderStep(b) \/ CloseStep(b) \/ TargetCloses(b)
      PROVE  UNCHANGED <<go, idOf>>
  BY <1>4 DEF WorkerStep, Pop, TakeSendData, WriteDone, WriteFails, TakeDisconnect, Read, ReaderStep, ReadFails,
              AcquireCredit, Emit, ReaderRemoves, ReaderSaysBye, ReaderCloses, CloseStep, StopEnds, CloseConn,
              SayBye, TargetCloses
<1> QED BY <1>1, <1>2, <1>3, <1>4 DEF Next, Input

\* What an attempt has been through stays true of it.
LEMMA AttemptPersists ==
    ASSUME ManagedInv, Begun, [Next \/ AnyInlet]_vars, NEW a \in Attempts
    PROVE  /\ go[a] # "none" => go'[a] # "none" /\ idOf'[a] = idOf[a]
           /\ reader[a] # "none" => reader'[a] # "none"
           /\ worker[a] # "none" => worker'[a] # "none"
<1>0. Located /\ Carried /\ InHand
  BY DEF ManagedInv, Typed
<1> USE <1>0 DEF mapVars, goVars, workVars, endVars, dataVars, countVars
<1>1. CASE InConnect
  BY <1>1 DEF InConnect, Located
<1>2. ASSUME NEW b \in Attempts, GoStep(b)
      PROVE  /\ go[a] # "none" => go'[a] # "none" /\ idOf'[a] = idOf[a]
             /\ reader[a] # "none" => reader'[a] # "none"
             /\ worker[a] # "none" => worker'[a] # "none"
  <2>1. idOf' = idOf /\ \E pc \in {"install", "refuse", "announce", "finish", "gone"} : go' = [go EXCEPT ![b] = pc]
    BY <1>2 DEF GoStep, Dial, DialFails, Refuse, Install, Announce, Finish
  <2>2. reader' = reader \/ reader' = [reader EXCEPT ![b] = "read"]
    BY <1>2 DEF GoStep, Dial, DialFails, Refuse, Install, Announce, Finish
  <2>3. worker' = worker \/ worker' = [worker EXCEPT ![b] = "pop"]
    BY <1>2 DEF GoStep, Dial, DialFails, Refuse, Install, Announce, Finish
  <2> QED BY <2>1, <2>2, <2>3 DEF Located
<1>3. ASSUME NEW b \in Attempts, WorkerStep(b)
      PROVE  UNCHANGED <<go, idOf, reader>> /\ (worker[a] # "none" => worker'[a] # "none")
  <2>1. UNCHANGED <<go, idOf, reader>>
    BY <1>3 DEF WorkerStep, Pop, TakeSendData, WriteDone, WriteFails, TakeDisconnect
  <2>2. \E pc \in {"pop", "take", "write", "gone"} : worker' = [worker EXCEPT ![b] = pc]
    BY <1>3 DEF WorkerStep, Pop, TakeSendData, WriteDone, WriteFails, TakeDisconnect, WorkerEnds
  <2> QED BY <2>1, <2>2 DEF Located
<1>4. ASSUME NEW b \in Attempts, Read(b) \/ ReaderStep(b)
      PROVE  UNCHANGED <<go, idOf, worker>> /\ (reader[a] # "none" => reader'[a] # "none")
  <2>1. UNCHANGED <<go, idOf, worker>>
    BY <1>4 DEF Read, ReaderStep, ReadFails, AcquireCredit, Emit, ReaderRemoves, ReaderSaysBye, ReaderCloses
  <2>2. \E pc \in {"read", "credit", "emit", "remove", "bye", "close", "gone"} : reader' = [reader EXCEPT ![b] = pc]
    BY <1>4 DEF Read, ReaderStep, ReadFails, AcquireCredit, Emit, ReaderRemoves, ReaderSaysBye, ReaderCloses, ReaderGoes
  <2> QED BY <2>1, <2>2 DEF Located
<1>5. ASSUME NEW b \in Attempts, CloseStep(b) \/ TargetCloses(b) PROVE UNCHANGED <<go, idOf, reader, worker>>
  BY <1>5 DEF CloseStep, StopEnds, CloseConn, SayBye, TargetCloses
<1>6. CASE InSendData \/ InDisconnect \/ InRecvResult \/ StopMark \/ StopReturn \/ AnyInlet \/ UNCHANGED vars
  BY <1>6 DEF InSendData, InDisconnect, InRecvResult, StopMark, StopReturn, AnyInlet, vars
<1> QED BY <1>1, <1>2, <1>3, <1>4, <1>5, <1>6 DEF Next, Input

\* What the outlet says has an attempt behind it that is far enough.
Spoken(m) == m.type = "O2IRecvData" \/ (m.type = "O2IConnect" /\ m.ok)

Backed(m) ==
    \E a \in Attempts :
      /\ go[a] # "none" /\ idOf[a] = m.id
      /\ Spoken(m) => reader[a] # "none"
      /\ m.type = "O2ISendDataResult" => worker[a] # "none"

Placed ==
    \A c \in Ids : connecting[c] # None => go[connecting[c]] # "none" /\ idOf[connecting[c]] = c

Told == o2i \in Seq(Sends) /\ \A k \in 1 .. Len(o2i) : Backed(o2i[k])

LEMMA ToldInit == Init => Placed /\ Told
<1>1. Len(<<>>) = 0
  OBVIOUS
<1> QED BY <1>1 DEF Init, Placed, Told

LEMMA PlacedStep == ManagedInv /\ Begun /\ Placed /\ [Next \/ AnyInlet]_vars => Placed'
<1> SUFFICES ASSUME ManagedInv, Begun, Placed, [Next \/ AnyInlet]_vars,
                    NEW c \in Ids, connecting'[c] # None
             PROVE  go'[connecting'[c]] # "none" /\ idOf'[connecting'[c]] = c
  BY DEF Placed
<1>0. Located /\ Carried /\ InHand
  BY DEF ManagedInv, Typed
<1> USE <1>0 DEF mapVars, goVars, workVars, endVars, dataVars, countVars
<1>1. CASE connecting'[c] = connecting[c]
  <2>1. connecting[c] \in Attempts
    BY <1>1 DEF Located
  <2> QED BY <1>1, <2>1, AttemptPersists DEF Placed
<1>2. CASE InConnect
  <2>1. ASSUME NEW a \in Attempts, go[a] = "none", go' = [go EXCEPT ![a] = "dial"],
               idOf' = [idOf EXCEPT ![a] = Head(i2o).id], connecting' = [connecting EXCEPT ![Head(i2o).id] = a]
        PROVE  go'[connecting'[c]] # "none" /\ idOf'[connecting'[c]] = c
    <3>1. CASE c = Head(i2o).id
      BY <2>1, <3>1 DEF Located
    <3>2. CASE c # Head(i2o).id
      BY <1>1, <2>1, <3>2 DEF Located
    <3> QED BY <3>1, <3>2
  <2> QED BY <1>1, <1>2, <2>1 DEF InConnect
<1>3. ASSUME NEW a \in Attempts, GoStep(a) PROVE connecting'[c] = connecting[c]
  <2>1. \/ connecting' = connecting \/ (\E d \in Ids : connecting' = [connecting EXCEPT ![d] = None])
        \/ connecting' = [d \in Ids |-> IF d = idOf[a] /\ connecting[d] = a THEN None ELSE connecting[d]]
    <3>1. Install(a) => connecting' = connecting \/ (\E d \in Ids : connecting' = [connecting EXCEPT ![d] = None])
      BY DEF Install, InHand
    <3> QED BY <1>3, <3>1 DEF GoStep, Dial, DialFails, Refuse, Announce, Finish
  <2> QED BY <2>1 DEF Located
<1>4. CASE InDisconnect
  BY <1>1, <1>4 DEF InDisconnect, CancelAttempt, Located
<1>5. CASE InSendData \/ InRecvResult \/ StopReturn \/ AnyInlet \/ UNCHANGED vars
  BY <1>1, <1>5 DEF InSendData, InRecvResult, StopReturn, AnyInlet, vars
<1>6. CASE StopMark
  BY <1>6 DEF StopMark
<1>7. ASSUME NEW b \in Attempts, WorkerStep(b) \/ Read(b) \/ ReaderStep(b) \/ CloseStep(b) \/ TargetCloses(b)
      PROVE  UNCHANGED connecting
  BY <1>7 DEF WorkerStep, Pop, TakeSendData, WriteDone, WriteFails, TakeDisconnect, Read, ReaderStep, ReadFails,
              AcquireCredit, Emit, ReaderRemoves, ReaderSaysBye, ReaderCloses, CloseStep, StopEnds, CloseConn,
              SayBye, TargetCloses
<1> QED BY <1>1, <1>2, <1>3, <1>4, <1>5, <1>6, <1>7 DEF Next, Input

\* A step of the outlet sends one message or none, and takes one or none.
LEMMA OneSent ==
    ASSUME ManagedInv, Begun, Placed, Next
    PROVE  \/ o2i' = o2i
           \/ \E m \in Sends : o2i' = Append(o2i, m) /\ Backed(m)'
<1>0. Located /\ Carried /\ InHand /\ Keyed /\ Fresh
  BY DEF ManagedInv, Typed
<1> USE <1>0 DEF mapVars, goVars, workVars, endVars, dataVars, countVars
<1>1. CASE InConnect
  <2>1. CASE UNCHANGED <<goVars, mapVars>> /\ Output(Connected(Head(i2o).id, FALSE))
              /\ (sessions[Head(i2o).id] # None \/ connecting[Head(i2o).id] # None)
    <3> DEFINE c == Head(i2o).id
               m == Connected(c, FALSE)
    <3>1. c \in Ids
      BY <1>1, TakesTypes DEF InConnect
    <3>2. m \in Sends /\ m.id = c /\ ~Spoken(m) /\ m.type # "O2ISendDataResult"
      BY <3>1, SendsTyped DEF Spoken
    <3>3. \E a \in Attempts : go[a] # "none" /\ idOf[a] = c
      <4>1. CASE sessions[c] # None
        BY <3>1, <4>1 DEF Keyed, Fresh, Located
      <4>2. CASE connecting[c] # None
        BY <3>1, <4>2 DEF Placed, Located
      <4> QED BY <2>1, <4>1, <4>2
    <3>4. ASSUME NEW w, w = m PROVE Backed(w)'
      BY <2>1, <3>2, <3>3, <3>4 DEF Backed
    <3>5. o2i' = Append(o2i, m)
      BY <2>1 DEF Output
    <3> QED BY <3>2, <3>4, <3>5
  <2> QED BY <1>1, <2>1 DEF InConnect
<1>2. ASSUME NEW a \in Attempts, GoStep(a)
      PROVE  o2i' = o2i \/ \E m \in Sends : o2i' = Append(o2i, m) /\ Backed(m)'
  <2>0. go[a] # "none" /\ idOf[a] \in Ids /\ go'[a] # "none" /\ idOf'[a] = idOf[a]
    <3>1. go[a] # "none"
      BY <1>2 DEF GoStep, Dial, DialFails, Refuse, Install, Announce, Finish
    <3> QED BY <3>1, AttemptPersists DEF InHand
  <2>1. CASE Refuse(a)
    <3>1. o2i' = Append(o2i, Connected(idOf[a], FALSE))
      BY <2>1 DEF Refuse, Output
    <3>2. ASSUME NEW w \in Sends, w.id = idOf[a], w.type = "O2IConnect", w.ok = FALSE PROVE Backed(w)'
      BY <2>0, <3>2 DEF Backed, Spoken
    <3> QED BY <2>0, <3>1, <3>2, SendsTyped
  <2>2. CASE Announce(a)
    <3>1. o2i' = Append(o2i, Connected(idOf[a], TRUE)) /\ reader'[a] # "none"
      BY <2>2 DEF Announce, Output, Located
    <3>2. ASSUME NEW w \in Sends, w.id = idOf[a], w.type = "O2IConnect" PROVE Backed(w)'
      BY <2>0, <3>1, <3>2 DEF Backed
    <3> QED BY <2>0, <3>1, <3>2, SendsTyped
  <2>3. CASE Dial(a) \/ DialFails(a) \/ Install(a) \/ Finish(a)
    BY <2>3 DEF Dial, DialFails, Install, Finish
  <2> QED BY <1>2, <2>1, <2>2, <2>3 DEF GoStep
<1>3. ASSUME NEW a \in Attempts, WorkerStep(a)
      PROVE  o2i' = o2i \/ \E m \in Sends : o2i' = Append(o2i, m) /\ Backed(m)'
  <2>1. CASE WriteDone(a)
    <3>1. worker[a] = "write" /\ o2i' = Append(o2i, SendDataResult(idOf[a]))
      BY <2>1 DEF WriteDone, Output
    <3>2. go[a] # "none" /\ idOf[a] \in Ids
      BY <3>1 DEF InHand
    <3> QED BY <3>1, <3>2, SendsTyped, AttemptPersists DEF Backed, Spoken
  <2>2. CASE Pop(a) \/ TakeSendData(a) \/ WriteFails(a) \/ TakeDisconnect(a)
    BY <2>2 DEF Pop, TakeSendData, WriteFails, TakeDisconnect
  <2> QED BY <1>3, <2>1, <2>2 DEF WorkerStep
<1>4. ASSUME NEW a \in Attempts, Read(a) \/ ReaderStep(a)
      PROVE  o2i' = o2i \/ \E m \in Sends : o2i' = Append(o2i, m) /\ Backed(m)'
  <2>0. go[a] # "none" /\ idOf[a] \in Ids /\ reader[a] # "none"
    BY <1>4 DEF Read, ReaderStep, ReadFails, AcquireCredit, Emit, ReaderRemoves, ReaderSaysBye,
                ReaderCloses, InHand, Located
  <2>1. CASE Emit(a)
    <3>1. o2i' = Append(o2i, RecvData(idOf[a], down[a])) /\ down[a] \in Nat
      BY <2>1, OutletAssumption DEF Emit, Output, Carried
    <3> QED BY <2>0, <3>1, SendsTyped, AttemptPersists DEF Backed, Spoken
  <2>2. CASE ReaderSaysBye(a)
    <3>1. o2i' = Append(o2i, Disconnect(idOf[a]))
      BY <2>2 DEF ReaderSaysBye, Output
    <3> QED BY <2>0, <3>1, SendsTyped, AttemptPersists DEF Backed, Spoken
  <2>3. CASE Read(a) \/ ReadFails(a) \/ AcquireCredit(a) \/ ReaderRemoves(a) \/ ReaderCloses(a)
    BY <2>3 DEF Read, ReadFails, AcquireCredit, ReaderRemoves, ReaderCloses
  <2> QED BY <1>4, <2>1, <2>2, <2>3 DEF ReaderStep
<1>5. ASSUME NEW a \in Attempts, CloseStep(a)
      PROVE  o2i' = o2i \/ \E m \in Sends : o2i' = Append(o2i, m) /\ Backed(m)'
  <2>1. CASE SayBye(a)
    <3>1. o2i' = Append(o2i, Disconnect(idOf[a])) /\ go[a] # "none" /\ idOf[a] \in Ids
      BY <2>1 DEF SayBye, Output, Fresh, NotClosing, InHand
    <3> QED BY <3>1, SendsTyped, AttemptPersists DEF Backed, Spoken
  <2>2. CASE StopEnds(a) \/ CloseConn(a)
    BY <2>2 DEF StopEnds, CloseConn
  <2> QED BY <1>5, <2>1, <2>2 DEF CloseStep
<1>6. ASSUME NEW a \in Attempts, TargetCloses(a) PROVE o2i' = o2i
  BY <1>6 DEF TargetCloses
<1>7. CASE InSendData \/ InDisconnect \/ InRecvResult \/ StopMark \/ StopReturn
  BY <1>7 DEF InSendData, InDisconnect, InRecvResult, StopMark, StopReturn
<1> QED BY <1>1, <1>2, <1>3, <1>4, <1>5, <1>6, <1>7 DEF Next, Input

LEMMA OneTaken ==
    ASSUME Next
    PROVE  i2o' = i2o \/ (i2o # <<>> /\ i2o' = Tail(i2o))
<1>1. CASE Input
  BY <1>1 DEF Input, InConnect, InSendData, InDisconnect, InRecvResult, Takes
<1>2. ASSUME NEW a \in Attempts,
             GoStep(a) \/ WorkerStep(a) \/ Read(a) \/ ReaderStep(a) \/ CloseStep(a) \/ TargetCloses(a)
      PROVE  i2o' = i2o
  BY <1>2 DEF GoStep, Dial, DialFails, Refuse, Install, Announce, Finish, WorkerStep, Pop, TakeSendData, WriteDone,
              WriteFails, TakeDisconnect, Read, ReaderStep, ReadFails, AcquireCredit, Emit, ReaderRemoves,
              ReaderSaysBye, ReaderCloses, CloseStep, StopEnds, CloseConn, SayBye, TargetCloses
<1>3. CASE StopMark \/ StopReturn
  BY <1>3 DEF StopMark, StopReturn
<1> QED BY <1>1, <1>2, <1>3 DEF Next

\* A step leaves the way back alone, takes the first message off it, or adds one.
LEMMA OneAnswer ==
    ASSUME ManagedInv, Begun, Placed, [Next \/ AnyInlet]_vars
    PROVE  \/ o2i' = o2i
           \/ o2i # <<>> /\ o2i' = Tail(o2i)
           \/ \E m \in Sends : o2i' = Append(o2i, m) /\ Backed(m)'
BY OneSent DEF AnyInlet, vars

LEMMA ToldStep == ManagedInv /\ Begun /\ Placed /\ Told /\ [Next \/ AnyInlet]_vars => Told'
<1> SUFFICES ASSUME ManagedInv, Begun, Placed, Told, [Next \/ AnyInlet]_vars PROVE Told'
  OBVIOUS
<1>1. \A m : Backed(m) => Backed(m)'
  BY AttemptPersists DEF Backed
<1>2. o2i \in Seq(Sends) /\ \A k \in 1 .. Len(o2i) : Backed(o2i[k])
  BY DEF Told
<1>3. \A q \in Seq(Sends) : q # <<>> =>
        Tail(q) \in Seq(Sends) /\ \A k \in 1 .. Len(Tail(q)) : k + 1 \in 1 .. Len(q) /\ Tail(q)[k] = q[k + 1]
  OBVIOUS
<1>4. \A q \in Seq(Sends) : \A m \in Sends :
        /\ Append(q, m) \in Seq(Sends)
        /\ \A k \in 1 .. Len(Append(q, m)) :
             (k \in 1 .. Len(q) /\ Append(q, m)[k] = q[k]) \/ Append(q, m)[k] = m
  OBVIOUS
<1>5. o2i' \in Seq(Sends)
  BY <1>2, <1>3, <1>4, OneAnswer
<1>6. ASSUME NEW k \in 1 .. Len(o2i'), NEW m, m = o2i'[k] PROVE Backed(m)'
  <2>1. CASE o2i' = o2i
    BY <1>1, <1>2, <1>6, <2>1
  <2>2. CASE o2i # <<>> /\ o2i' = Tail(o2i)
    BY <1>1, <1>2, <1>3, <1>6, <2>2
  <2>3. ASSUME NEW w \in Sends, o2i' = Append(o2i, w), Backed(w)' PROVE Backed(m)'
    BY <1>1, <1>2, <1>4, <1>6, <2>3
  <2> QED BY <2>1, <2>2, <2>3, OneAnswer
<1> QED BY <1>5, <1>6 DEF Told, Backed

\* All that is known of an outlet
OutletInv ==
    ManagedInv /\ StopHolds /\ Begun /\ Idle /\ Addressed /\ OwnTarget /\ Placed /\ Told

LEMMA OutletInvInit == Init => OutletInv
BY ManagedInit, StopHoldsInit, BegunInit, IdleInit, OwnTargetInit, ToldInit DEF OutletInv

LEMMA OutletInvStep == OutletInv /\ OneAttemptPerId /\ [Next \/ AnyInlet]_vars => OutletInv'
BY ManagedStep, StopHoldsStep, BegunStep, IdleStep, OwnTargetStep, PlacedStep, ToldStep DEF OutletInv, ManagedInv

-----------------------------------------------------------------------------
\* Where payloads enter and leave the outlet: one of one attempt in a step
LEMMA TakenOrWritten ==
    ASSUME ManagedInv, OwnTarget, Next
    PROVE  \/ UNCHANGED <<up, down>>
           \/ \E a \in Attempts : down' = [down EXCEPT ![a] = @ + 1] /\ UNCHANGED up /\ go[a] # "none"
           \/ \E a \in Attempts : /\ worker[a] = "write" /\ cur[a] \in InMessages /\ cur[a].type = "I2OSendData"
                                  /\ up' = [up EXCEPT ![a] = Append(@, cur[a].n)] /\ UNCHANGED down
                                  /\ go[a] # "none"
<1> USE DEF countVars
<1>1. ASSUME NEW a \in Attempts, Read(a)
      PROVE  down' = [down EXCEPT ![a] = @ + 1] /\ UNCHANGED up /\ go[a] # "none"
  BY <1>1 DEF Read, ManagedInv, Typed, InHand
<1>2. ASSUME NEW a \in Attempts, WriteDone(a)
      PROVE  /\ worker[a] = "write" /\ cur[a] \in InMessages /\ cur[a].type = "I2OSendData"
             /\ up' = [up EXCEPT ![a] = Append(@, cur[a].n)] /\ UNCHANGED down
             /\ go[a] # "none"
  BY <1>2 DEF WriteDone, OwnTarget, ManagedInv, Typed, InHand
<1>3. ASSUME NEW a \in Attempts,
             \/ GoStep(a) \/ Pop(a) \/ TakeSendData(a) \/ WriteFails(a) \/ TakeDisconnect(a) \/ ReaderStep(a)
             \/ CloseStep(a) \/ TargetCloses(a)
      PROVE  UNCHANGED <<up, down>>
  BY <1>3 DEF GoStep, Dial, DialFails, Refuse, Install, Announce, Finish, Pop, TakeSendData, WriteFails,
              TakeDisconnect, ReaderStep, ReadFails, AcquireCredit, Emit, ReaderRemoves, ReaderSaysBye,
              ReaderCloses, CloseStep, StopEnds, CloseConn, SayBye, TargetCloses
<1>4. CASE Input \/ StopMark \/ StopReturn
  BY <1>4 DEF Input, InConnect, InSendData, InDisconnect, InRecvResult, StopMark, StopReturn
<1> QED BY <1>1, <1>2, <1>3, <1>4 DEF Next, WorkerStep
=============================================================================
