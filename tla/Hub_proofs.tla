----------------------------- MODULE Hub_proofs -----------------------------
(***************************************************************************)
(* Hub, for any players, connections and tunnels: types, one session per   *)
(* player, nothing left behind by a session that closes after its login.   *)
(***************************************************************************)
EXTENDS Hub, TLAPS

\* The type invariant without the queues, and what the steps need of it
Typed ==
    /\ hub \in [Players -> Sessions \cup {None}]
    /\ bound \in [Players -> Sessions \cup {None}]
    /\ playerID \in [Sessions -> Players \cup {None}]
    /\ reader \in [Sessions -> {"read", "register", "bind", "replace", "evict", "tell",
                                "push", "wait", "bounce", "over"}]
    /\ peer \in [Sessions -> Sessions \cup {None}]
    /\ closer \in [Sessions -> {"no", "lookup", "delete", "unbind", "clear", "tell", "done"}]

Stores ==
    /\ runtime \subseteq Tunnels
    /\ queue \in [Sessions -> Seq({"answer", "push"})]
    /\ \A s \in Sessions : Len(queue[s]) <= QueueCap
    /\ early \subseteq Sessions

\* Whoever is in the middle of something for a player is known by that player
Known ==
    \A s \in Sessions :
        /\ reader[s] \notin {"read", "over"} => playerID[s] # None
        /\ closer[s] \in {"delete", "unbind", "clear", "tell"} => playerID[s] # None
        /\ reader[s] \in {"evict", "push", "wait"} => peer[s] # None

Telling ==
    /\ tell \in [Tellers -> [todo : SUBSET (Tunnels \X Players), to : Sessions \cup {None}, waits : BOOLEAN]]
    /\ \A w \in Tellers : tell[w].waits => tell[w].to # None

TypeInv == Typed /\ Stores /\ Known /\ Telling

\* What a step may do to queues and to the progress of closings
QueuesKept ==
    /\ closer' \in [Sessions -> {"no", "lookup", "delete", "unbind", "clear", "tell", "done"}]
    /\ queue' \in [Sessions -> Seq({"answer", "push"})]
    /\ \A s \in Sessions : Len(queue'[s]) <= QueueCap
    /\ \A s \in Sessions :
          closer'[s] = closer[s] \/ (closer[s] = "no" /\ closer'[s] = "lookup")

\* BeginClose empties one queue and enters the session's once
LEMMA BeginCloseKeeps ==
    ASSUME NEW c \in Sessions, Typed, Stores, BeginClose(c)
    PROVE  QueuesKept /\ closer'[c] # "no"
  <1>1. QueueCap \in Nat  BY HubAssumption
  <1>2. closer[c] \in {"no", "lookup", "delete", "unbind", "clear", "tell", "done"}  BY DEF Typed
  <1>3. closer' = [closer EXCEPT ![c] = IF closer[c] = "no" THEN "lookup" ELSE closer[c]]
    BY DEF BeginClose
  <1>4. \A s \in Sessions : queue'[s] = IF s = c THEN <<>> ELSE queue[s]
    BY DEF BeginClose, Stores
  <1>5. queue' \in [Sessions -> Seq({"answer", "push"})]
    BY DEF BeginClose, Stores
  <1>6. \A s \in Sessions : Len(queue'[s]) <= QueueCap
    BY <1>1, <1>4 DEF Stores
  <1> QED BY <1>2, <1>3, <1>5, <1>6 DEF Typed, QueuesKept

\* writeQueue.Push keeps the queue within its capacity
LEMMA PushKeeps ==
    ASSUME NEW c \in Sessions, NEW m \in {"answer", "push"}, Typed, Stores,
           Accepts(c), Push(c, m), UNCHANGED closer
    PROVE  QueuesKept
  <1>1. QueueCap \in Nat /\ Len(queue[c]) < QueueCap  BY HubAssumption DEF Accepts
  <1>2. queue[c] \in Seq({"answer", "push"})  BY DEF Stores
  <1>3. Append(queue[c], m) \in Seq({"answer", "push"}) /\ Len(Append(queue[c], m)) = Len(queue[c]) + 1
    BY <1>2
  <1>4. Len(queue[c]) \in Nat  BY <1>2
  <1>5. queue' = [queue EXCEPT ![c] = Append(queue[c], m)]  BY DEF Push
  <1>6. queue' \in [Sessions -> Seq({"answer", "push"})]  BY <1>3, <1>5 DEF Stores
  <1>7. \A s \in Sessions : queue'[s] = IF s = c THEN Append(queue[c], m) ELSE queue[s]
    BY <1>5 DEF Stores
  <1>8. ASSUME NEW s \in Sessions PROVE Len(queue'[s]) <= QueueCap
    <2>1. CASE s = c
      <3>1. Len(queue'[s]) = Len(queue[c]) + 1  BY <2>1, <1>7, <1>3
      <3> QED BY <3>1, <1>1, <1>4
    <2>2. CASE s # c  BY <2>2, <1>7 DEF Stores
    <2> QED BY <2>1, <2>2
  <1> QED BY <1>6, <1>8 DEF QueuesKept, Typed

\* The writer takes the head of a queue
LEMMA DeliverKeeps ==
    ASSUME NEW c \in Sessions, Typed, Stores, Deliver(c)
    PROVE  QueuesKept
  <1>1. QueueCap \in Nat  BY HubAssumption
  <1>2. queue[c] \in Seq({"answer", "push"}) /\ queue[c] # <<>>  BY DEF Stores, Deliver
  <1>3. Tail(queue[c]) \in Seq({"answer", "push"}) /\ Len(Tail(queue[c])) <= Len(queue[c])
    BY <1>2
  <1>4. Len(queue[c]) \in Nat /\ Len(Tail(queue[c])) \in Nat  BY <1>2, <1>3
  <1>5. queue' = [queue EXCEPT ![c] = Tail(queue[c])]  BY DEF Deliver
  <1>6. queue' \in [Sessions -> Seq({"answer", "push"})]  BY <1>3, <1>5 DEF Stores
  <1>7. \A s \in Sessions : queue'[s] = IF s = c THEN Tail(queue[c]) ELSE queue[s]
    BY <1>5 DEF Stores
  <1>8. ASSUME NEW s \in Sessions PROVE Len(queue'[s]) <= QueueCap
    <2>1. CASE s = c
      <3>1. Len(queue'[s]) = Len(Tail(queue[c]))  BY <2>1, <1>7
      <3> QED BY <3>1, <1>1, <1>4, <1>3, <2>1 DEF Stores
    <2>2. CASE s # c  BY <2>2, <1>7 DEF Stores
    <2> QED BY <2>1, <2>2
  <1> QED BY <1>6, <1>8 DEF QueuesKept, Typed, Deliver

LEMMA PeersArePlayers ==
    \A x : /\ PeersOf(x) \subseteq Players /\ TunnelsOf(x) \subseteq Tunnels
          /\ UpdatesOf(x) \subseteq Tunnels \X Players
  BY HubAssumption DEF PeersOf, TunnelsOf, UpdatesOf

LEMMA TellersAre == Web \in Tellers /\ \A s \in Sessions : {<<"login", s>>, <<"close", s>>} \subseteq Tellers
  BY DEF Tellers

\* A goroutine is told whom to tell
LEMMA TodoTyped ==
    ASSUME Telling, NEW w \in Tellers, NEW us \in SUBSET (Tunnels \X Players),
           tell' = [tell EXCEPT ![w].todo = us]
    PROVE  Telling'
  <1>1. tell[w] \in [todo : SUBSET (Tunnels \X Players), to : Sessions \cup {None}, waits : BOOLEAN]  BY DEF Telling
  <1> DEFINE told == [todo |-> us, to |-> tell[w].to, waits |-> tell[w].waits]
  <1>2. [tell[w] EXCEPT !.todo = us] = told
    BY <1>1
  <1>3. tell' = [tell EXCEPT ![w] = told]
    BY <1>2
  <1> QED BY <1>1, <1>3 DEF Telling

LEMMA InitTyped == Init => TypeInv
  <1> SUFFICES ASSUME Init PROVE TypeInv  OBVIOUS
  <1>1. \A s \in Sessions : Len(queue[s]) <= QueueCap
    BY HubAssumption DEF Init
  <1>2. Stores  BY <1>1 DEF Init, Stores
  <1>3. Typed  BY DEF Init, Typed, Silent
  <1>4. Known /\ Telling  BY DEF Init, Known, Telling, Silent
  <1> QED BY <1>2, <1>3, <1>4 DEF TypeInv

\* The actions that touch queues or begin a Close
LEMMA QueueStep ==
    ASSUME TypeInv,
           \/ \E s \in Sessions :
                 \/ Answer(s) \/ CloseOld(s) \/ Ack(s) \/ Forward(s) \/ Bounce(s)
                 \/ ReadFails(s) \/ Deliver(s) \/ WriteFails(s)
           \/ \E w \in Tellers : PushUpdate(w)
    PROVE  QueuesKept
  <1> USE DEF TypeInv
  <1>1. ASSUME NEW s \in Sessions, Answer(s) PROVE QueuesKept
    BY <1>1, BeginCloseKeeps, PushKeeps DEF Answer, Leave
  <1>2. ASSUME NEW s \in Sessions, CloseOld(s) PROVE QueuesKept
    <2>1. peer[s] \in Sessions  BY <1>2 DEF CloseOld, Typed
    <2> QED BY <1>2, <2>1, BeginCloseKeeps DEF CloseOld
  <1>3. ASSUME NEW s \in Sessions, Ack(s) PROVE QueuesKept
    BY <1>3, BeginCloseKeeps, PushKeeps DEF Ack, Leave
  <1>4. ASSUME NEW s \in Sessions, Forward(s) PROVE QueuesKept
    <2>1. peer[s] \in Sessions  BY <1>4 DEF Forward, Typed, Known
    <2> QED BY <1>4, <2>1, BeginCloseKeeps, PushKeeps DEF Forward
  <1>5. ASSUME NEW s \in Sessions, Bounce(s) PROVE QueuesKept
    <2>1. CASE UNCHANGED <<queue, closer>>
      BY <2>1 DEF QueuesKept, Typed, Stores
    <2>2. CASE hub[playerID[s]] # None
      <3>1. hub[playerID[s]] \in Sessions  BY <1>5, <2>2 DEF Bounce, Typed, Known
      <3> QED BY <1>5, <2>1, <3>1, BeginCloseKeeps, PushKeeps DEF Bounce, Leave
    <2> QED BY <1>5, <2>1, <2>2 DEF Bounce
  <1>6. ASSUME NEW s \in Sessions, ReadFails(s) PROVE QueuesKept
    BY <1>6, BeginCloseKeeps DEF ReadFails, Leave
  <1>7. ASSUME NEW s \in Sessions, Deliver(s) PROVE QueuesKept
    BY <1>7, DeliverKeeps
  <1>8. ASSUME NEW s \in Sessions, WriteFails(s) PROVE QueuesKept
    BY <1>8, BeginCloseKeeps DEF WriteFails
  <1>9. ASSUME NEW w \in Tellers, PushUpdate(w) PROVE QueuesKept
    <2>1. tell[w].to \in Sessions  BY <1>9 DEF PushUpdate, Telling
    <2> QED BY <1>9, <2>1, BeginCloseKeeps, PushKeeps DEF PushUpdate
  <1> QED BY <1>1, <1>2, <1>3, <1>4, <1>5, <1>6, <1>7, <1>8, <1>9

LEMMA StepTyped == TypeInv /\ [Next]_vars => TypeInv'
  <1> SUFFICES ASSUME TypeInv, [Next]_vars PROVE TypeInv'  OBVIOUS
  <1>1. ASSUME NEW s \in Sessions, Answer(s) PROVE TypeInv'
    <2>0. QueuesKept  BY <1>1, QueueStep
    <2>1. Typed'  BY <2>0, <1>1 DEF Answer, TypeInv, Typed, Leave, QueuesKept
    <2>2. Stores'  BY <2>0, <1>1 DEF Answer, TypeInv, Stores, Leave, QueuesKept
    <2>3. Known'  BY <2>0, <1>1 DEF Answer, TypeInv, Typed, Known, Leave, QueuesKept
    <2>4. Telling'  BY <2>0, <1>1 DEF Answer, TypeInv, Typed, Telling, Leave
    <2> QED BY <2>1, <2>2, <2>3, <2>4 DEF TypeInv
  <1>2. ASSUME NEW s \in Sessions, Login(s) PROVE TypeInv'
    <2>1. Typed'  BY <1>2, HubAssumption DEF Login, TypeInv, Typed
    <2>2. Stores'  BY <1>2 DEF Login, TypeInv, Stores
    <2>3. Known'  BY <1>2, HubAssumption DEF Login, TypeInv, Typed, Known
    <2>4. Telling'  BY <1>2, HubAssumption DEF Login, TypeInv, Typed, Telling
    <2> QED BY <2>1, <2>2, <2>3, <2>4 DEF TypeInv
  <1>3. ASSUME NEW s \in Sessions, Register(s) PROVE TypeInv'
    <2>1. Typed'  BY <1>3 DEF Register, TypeInv, Typed
    <2>2. Stores'  BY <1>3 DEF Register, TypeInv, Stores
    <2>3. Known'  BY <1>3 DEF Register, TypeInv, Typed, Known
    <2>4. Telling'  BY <1>3 DEF Register, TypeInv, Typed, Telling
    <2> QED BY <2>1, <2>2, <2>3, <2>4 DEF TypeInv
  <1>4. ASSUME NEW s \in Sessions, Bind(s) PROVE TypeInv'
    <2>1. Typed'  BY <1>4 DEF Bind, TypeInv, Typed, Known
    <2>2. Stores'  BY <1>4 DEF Bind, TypeInv, Stores
    <2>3. Known'  BY <1>4 DEF Bind, TypeInv, Typed, Known
    <2>4. Telling'  BY <1>4 DEF Bind, TypeInv, Typed, Telling
    <2> QED BY <2>1, <2>2, <2>3, <2>4 DEF TypeInv
  <1>5. ASSUME NEW s \in Sessions, CloseOld(s) PROVE TypeInv'
    <2>0. QueuesKept  BY <1>5, QueueStep
    <2>1. Typed'  BY <2>0, <1>5 DEF CloseOld, TypeInv, Typed, QueuesKept
    <2>2. Stores'  BY <2>0, <1>5 DEF CloseOld, TypeInv, Stores, QueuesKept
    <2>3. Known'  BY <2>0, <1>5 DEF CloseOld, TypeInv, Typed, Known, QueuesKept
    <2>4. Telling'  BY <2>0, <1>5 DEF CloseOld, TypeInv, Typed, Telling
    <2> QED BY <2>1, <2>2, <2>3, <2>4 DEF TypeInv
  <1>6. ASSUME NEW s \in Sessions, Announce(s) PROVE TypeInv'
    <2>1. Typed'  BY <1>6 DEF Announce, TypeInv, Typed
    <2>2. Stores'  BY <1>6 DEF Announce, TypeInv, Stores
    <2>3. Known'  BY <1>6 DEF Announce, TypeInv, Typed, Known
    <2>4. Telling'  BY <1>6, TodoTyped, TellersAre, PeersArePlayers DEF Announce, TypeInv
    <2> QED BY <2>1, <2>2, <2>3, <2>4 DEF TypeInv
  <1>7. ASSUME NEW s \in Sessions, Ack(s) PROVE TypeInv'
    <2>0. QueuesKept  BY <1>7, QueueStep
    <2>1. Typed'  BY <2>0, <1>7 DEF Ack, TypeInv, Typed, Leave, QueuesKept
    <2>2. Stores'  BY <2>0, <1>7 DEF Ack, TypeInv, Stores, Leave, QueuesKept
    <2>3. Known'  BY <2>0, <1>7 DEF Ack, TypeInv, Typed, Known, Leave, QueuesKept
    <2>4. Telling'  BY <2>0, <1>7 DEF Ack, TypeInv, Typed, Telling, Leave
    <2> QED BY <2>1, <2>2, <2>3, <2>4 DEF TypeInv
  <1>8. ASSUME NEW s \in Sessions, Route(s) PROVE TypeInv'
    <2>1. Typed'  BY <1>8, PeersArePlayers DEF Route, TypeInv, Typed
    <2>2. Stores'  BY <1>8 DEF Route, TypeInv, Stores
    <2>3. Known'  BY <1>8, PeersArePlayers DEF Route, TypeInv, Typed, Known
    <2>4. Telling'  BY <1>8, PeersArePlayers DEF Route, TypeInv, Typed, Telling
    <2> QED BY <2>1, <2>2, <2>3, <2>4 DEF TypeInv
  <1>9. ASSUME NEW s \in Sessions, Forward(s) PROVE TypeInv'
    <2>0. QueuesKept  BY <1>9, QueueStep
    <2>1. Typed'  BY <2>0, <1>9 DEF Forward, TypeInv, Typed, QueuesKept
    <2>2. Stores'  BY <2>0, <1>9 DEF Forward, TypeInv, Stores, QueuesKept
    <2>3. Known'  BY <2>0, <1>9 DEF Forward, TypeInv, Typed, Known, QueuesKept
    <2>4. Telling'  BY <2>0, <1>9 DEF Forward, TypeInv, Typed, Telling
    <2> QED BY <2>1, <2>2, <2>3, <2>4 DEF TypeInv
  <1>10. ASSUME NEW s \in Sessions, PeerClosed(s) PROVE TypeInv'
    <2>1. Typed'  BY <1>10 DEF PeerClosed, TypeInv, Typed
    <2>2. Stores'  BY <1>10 DEF PeerClosed, TypeInv, Stores
    <2>3. Known'  BY <1>10 DEF PeerClosed, TypeInv, Typed, Known
    <2>4. Telling'  BY <1>10 DEF PeerClosed, TypeInv, Typed, Telling
    <2> QED BY <2>1, <2>2, <2>3, <2>4 DEF TypeInv
  <1>11. ASSUME NEW s \in Sessions, Bounce(s) PROVE TypeInv'
    <2>0. QueuesKept  BY <1>11, QueueStep
    <2>1. Typed'  BY <2>0, <1>11 DEF Bounce, TypeInv, Typed, Leave, QueuesKept
    <2>2. Stores'  BY <2>0, <1>11 DEF Bounce, TypeInv, Stores, Leave, QueuesKept
    <2>3. Known'  BY <2>0, <1>11 DEF Bounce, TypeInv, Typed, Known, Leave, QueuesKept
    <2>4. Telling'  BY <2>0, <1>11 DEF Bounce, TypeInv, Typed, Telling, Leave
    <2> QED BY <2>1, <2>2, <2>3, <2>4 DEF TypeInv
  <1>12. ASSUME NEW s \in Sessions, Report(s) PROVE TypeInv'
    <2>1. Typed'  BY <1>12 DEF Report, TypeInv, Typed
    <2>2. Stores'  BY <1>12, PeersArePlayers DEF Report, TypeInv, Stores
    <2>3. Known'  BY <1>12 DEF Report, TypeInv, Typed, Known
    <2>4. Telling'  BY <1>12 DEF Report, TypeInv, Typed, Telling
    <2> QED BY <2>1, <2>2, <2>3, <2>4 DEF TypeInv
  <1>13. ASSUME NEW s \in Sessions, ReadFails(s) PROVE TypeInv'
    <2>0. QueuesKept  BY <1>13, QueueStep
    <2>1. Typed'  BY <2>0, <1>13 DEF ReadFails, TypeInv, Typed, Leave, QueuesKept
    <2>2. Stores'  BY <2>0, <1>13 DEF ReadFails, TypeInv, Stores, Leave, QueuesKept
    <2>3. Known'  BY <2>0, <1>13 DEF ReadFails, TypeInv, Typed, Known, Leave, QueuesKept
    <2>4. Telling'  BY <2>0, <1>13 DEF ReadFails, TypeInv, Typed, Telling, Leave
    <2> QED BY <2>1, <2>2, <2>3, <2>4 DEF TypeInv
  <1>14. ASSUME NEW s \in Sessions, Deliver(s) PROVE TypeInv'
    <2>0. QueuesKept  BY <1>14, QueueStep
    <2>1. Typed'  BY <2>0, <1>14 DEF Deliver, TypeInv, Typed, QueuesKept
    <2>2. Stores'  BY <2>0, <1>14 DEF Deliver, TypeInv, Stores, QueuesKept
    <2>3. Known'  BY <2>0, <1>14 DEF Deliver, TypeInv, Typed, Known, QueuesKept
    <2>4. Telling'  BY <2>0, <1>14 DEF Deliver, TypeInv, Typed, Telling
    <2> QED BY <2>1, <2>2, <2>3, <2>4 DEF TypeInv
  <1>15. ASSUME NEW s \in Sessions, WriteFails(s) PROVE TypeInv'
    <2>0. QueuesKept  BY <1>15, QueueStep
    <2>1. Typed'  BY <2>0, <1>15 DEF WriteFails, TypeInv, Typed, QueuesKept
    <2>2. Stores'  BY <2>0, <1>15 DEF WriteFails, TypeInv, Stores, QueuesKept
    <2>3. Known'  BY <2>0, <1>15 DEF WriteFails, TypeInv, Typed, Known, QueuesKept
    <2>4. Telling'  BY <2>0, <1>15 DEF WriteFails, TypeInv, Typed, Telling
    <2> QED BY <2>1, <2>2, <2>3, <2>4 DEF TypeInv
  <1>16. ASSUME NEW s \in Sessions, Lookup(s) PROVE TypeInv'
    <2>1. Typed'  BY <1>16 DEF Lookup, TypeInv, Typed
    <2>2. Stores'  BY <1>16 DEF Lookup, TypeInv, Stores
    <2>3. Known'  BY <1>16 DEF Lookup, TypeInv, Typed, Known
    <2>4. Telling'  BY <1>16 DEF Lookup, TypeInv, Typed, Telling
    <2> QED BY <2>1, <2>2, <2>3, <2>4 DEF TypeInv
  <1>17. ASSUME NEW s \in Sessions, Delete(s) PROVE TypeInv'
    <2>1. Typed'  BY <1>17 DEF Delete, TypeInv, Typed
    <2>2. Stores'  BY <1>17 DEF Delete, TypeInv, Stores
    <2>3. Known'  BY <1>17 DEF Delete, TypeInv, Typed, Known
    <2>4. Telling'  BY <1>17 DEF Delete, TypeInv, Typed, Telling
    <2> QED BY <2>1, <2>2, <2>3, <2>4 DEF TypeInv
  <1>18. ASSUME NEW s \in Sessions, Unbind(s) PROVE TypeInv'
    <2>1. Typed'  BY <1>18 DEF Unbind, TypeInv, Typed
    <2>2. Stores'  BY <1>18 DEF Unbind, TypeInv, Stores
    <2>3. Known'  BY <1>18 DEF Unbind, TypeInv, Typed, Known
    <2>4. Telling'  BY <1>18 DEF Unbind, TypeInv, Typed, Telling
    <2> QED BY <2>1, <2>2, <2>3, <2>4 DEF TypeInv
  <1>19. ASSUME NEW s \in Sessions, Clear(s) PROVE TypeInv'
    <2>1. Typed'  BY <1>19 DEF Clear, TypeInv, Typed
    <2>2. Stores'  BY <1>19 DEF Clear, TypeInv, Stores
    <2>3. Known'  BY <1>19 DEF Clear, TypeInv, Typed, Known
    <2>4. Telling'  BY <1>19, TodoTyped, TellersAre, PeersArePlayers DEF Clear, TypeInv
    <2> QED BY <2>1, <2>2, <2>3, <2>4 DEF TypeInv
  <1>20. ASSUME NEW s \in Sessions, Finish(s) PROVE TypeInv'
    <2>1. Typed'  BY <1>20 DEF Finish, TypeInv, Typed
    <2>2. Stores'  BY <1>20 DEF Finish, TypeInv, Stores
    <2>3. Known'  BY <1>20 DEF Finish, TypeInv, Typed, Known
    <2>4. Telling'  BY <1>20 DEF Finish, TypeInv, Typed, Telling
    <2> QED BY <2>1, <2>2, <2>3, <2>4 DEF TypeInv
  <1>21. ASSUME NEW t \in Tunnels, TunnelChanges(t) PROVE TypeInv'
    <2>1. Typed'  BY <1>21 DEF TunnelChanges, TypeInv, Typed
    <2>2. Stores'  BY <1>21 DEF TunnelChanges, TypeInv, Stores
    <2>3. Known'  BY <1>21 DEF TunnelChanges, TypeInv, Typed, Known
    <2>4. {t} \X Ends[t] \in SUBSET (Tunnels \X Players)  BY HubAssumption
    <2>5. Telling'  BY <2>4, <1>21, TodoTyped, TellersAre DEF TunnelChanges, TypeInv
    <2> QED BY <2>1, <2>2, <2>3, <2>5 DEF TypeInv
  <1>22. ASSUME NEW w \in Tellers, LoadTarget(w) PROVE TypeInv'
    <2>1. Typed'  BY <1>22 DEF LoadTarget, TypeInv, Typed
    <2>2. Stores'  BY <1>22 DEF LoadTarget, TypeInv, Stores
    <2>3. Known'  BY <1>22 DEF LoadTarget, TypeInv, Typed, Known
    <2>4. Telling'
      <3>1. tell[w] \in [todo : SUBSET (Tunnels \X Players), to : Sessions \cup {None}, waits : BOOLEAN]
        BY DEF TypeInv, Telling
      <3>2. PICK u \in tell[w].todo : tell' = [tell EXCEPT ![w].todo = tell[w].todo \ {u}, ![w].to = hub[u[2]]]
        BY <1>22 DEF LoadTarget
      <3>3. u[2] \in Players /\ hub[u[2]] \in Sessions \cup {None}
        BY <3>1 DEF TypeInv, Typed
      <3>4. ~tell[w].waits
        BY <1>22 DEF LoadTarget, TypeInv, Telling
      <3> DEFINE told == [tell[w] EXCEPT !.todo = tell[w].todo \ {u}, !.to = hub[u[2]]]
      <3>5. tell[w].todo \ {u} \in SUBSET (Tunnels \X Players)
        BY <3>1
      <3>6. told \in [todo : SUBSET (Tunnels \X Players), to : Sessions \cup {None}, waits : BOOLEAN]
        BY <3>1, <3>3, <3>5, Zenon
      <3>7. told.waits = tell[w].waits
        BY <3>1, SMT
      <3>8. tell' = [tell EXCEPT ![w] = told]
        BY <3>2
      <3> HIDE DEF told
      <3> QED BY <3>4, <3>6, <3>7, <3>8 DEF TypeInv, Telling
    <2> QED BY <2>1, <2>2, <2>3, <2>4 DEF TypeInv
  <1>23. ASSUME NEW w \in Tellers, PushUpdate(w) PROVE TypeInv'
    <2>0. QueuesKept  BY <1>23, QueueStep
    <2>1. Typed'  BY <2>0, <1>23 DEF PushUpdate, TypeInv, Typed, QueuesKept
    <2>2. Stores'  BY <2>0, <1>23 DEF PushUpdate, TypeInv, Stores, QueuesKept
    <2>3. Known'  BY <2>0, <1>23 DEF PushUpdate, TypeInv, Typed, Known, QueuesKept
    <2>4. Telling'
      <3>1. tell[w] \in [todo : SUBSET (Tunnels \X Players), to : Sessions \cup {None}, waits : BOOLEAN]
        BY DEF TypeInv, Telling
      <3>2. CASE tell' = [tell EXCEPT ![w].to = None]
        <4> DEFINE left == [tell[w] EXCEPT !.to = None]
        <4>1. left \in [todo : SUBSET (Tunnels \X Players), to : Sessions \cup {None}, waits : BOOLEAN]
          BY <3>1, Zenon
        <4>2. left.to = None /\ left.waits = FALSE
          BY <3>1, <1>23, SMT DEF PushUpdate
        <4>3. tell' = [tell EXCEPT ![w] = left]
          BY <3>2
        <4> HIDE DEF left
        <4> QED BY <4>1, <4>2, <4>3 DEF TypeInv, Telling
      <3>3. CASE tell' = [tell EXCEPT ![w].waits = TRUE]
        <4> DEFINE told == [tell[w] EXCEPT !.waits = TRUE]
        <4>1. told \in [todo : SUBSET (Tunnels \X Players), to : Sessions \cup {None}, waits : BOOLEAN]
          BY <3>1, Zenon
        <4>2. told.to = tell[w].to /\ tell[w].to # None
          BY <3>1, <1>23, SMT DEF PushUpdate
        <4>3. tell' = [tell EXCEPT ![w] = told]
          BY <3>3
        <4> HIDE DEF told
        <4> QED BY <4>1, <4>2, <4>3 DEF TypeInv, Telling
      <3> QED BY <3>2, <3>3, <1>23 DEF PushUpdate
    <2> QED BY <2>1, <2>2, <2>3, <2>4 DEF TypeInv
  <1>24. ASSUME NEW w \in Tellers, TargetClosed(w) PROVE TypeInv'
    <2>1. Typed'  BY <1>24 DEF TargetClosed, TypeInv, Typed
    <2>2. Stores'  BY <1>24 DEF TargetClosed, TypeInv, Stores
    <2>3. Known'  BY <1>24 DEF TargetClosed, TypeInv, Typed, Known
    <2>4. Telling'  BY <1>24 DEF TargetClosed, TypeInv, Typed, Telling
    <2> QED BY <2>1, <2>2, <2>3, <2>4 DEF TypeInv
  <1>25. CASE UNCHANGED vars
    BY <1>25 DEF vars, TypeInv, Typed, Stores, Known, Telling
  <1> QED BY <1>1, <1>2, <1>3, <1>4, <1>5, <1>6, <1>7, <1>8, <1>9, <1>10, <1>11, <1>12, <1>13, <1>14, <1>15, <1>16, <1>17, <1>18, <1>19, <1>20, <1>21, <1>22, <1>23, <1>24, <1>25
       DEF Next, Client, LoginStep, RouteStep, CloseStep, TellStep

-----------------------------------------------------------------------------
\* TypeOK: every variable keeps its type and no queue exceeds its capacity
THEOREM TypeCorrect == Spec => []TypeOK
  <1>1. TypeInv => TypeOK
    BY DEF TypeInv, Typed, Stores, Telling, TypeOK
  <1> QED BY <1>1, InitTyped, StepTyped, PTL DEF Spec

-----------------------------------------------------------------------------
\* Only CloseOld and Announce end a "replace", and Close never goes back
LEMMA StepOneSession == TypeInv /\ OneSession /\ [Next]_vars => OneSession'
  <1> SUFFICES ASSUME TypeInv, OneSession, [Next]_vars,
                      NEW s \in Sessions, Bound(s)', bound'[playerID'[s]] # s, closer'[s] = "no"
               PROVE  \E r \in Sessions : reader'[r] = "replace" /\ peer'[r] = s
    BY DEF OneSession
  <1> USE DEF TypeInv
  <1>1. ASSUME NEW r \in Sessions, Answer(r) PROVE \E x \in Sessions : reader'[x] = "replace" /\ peer'[x] = s
    <2>0. QueuesKept  BY <1>1, QueueStep
    <2>1. Bound(s) /\ bound[playerID[s]] # s /\ closer[s] = "no"
      BY <2>0, <1>1 DEF Answer, Bound, Typed, Known, Leave, QueuesKept
    <2>2. PICK x \in Sessions : reader[x] = "replace" /\ peer[x] = s
      BY <2>1 DEF OneSession
    <2> QED BY <2>2, <1>1 DEF Answer, Typed, Leave
  <1>2. ASSUME NEW r \in Sessions, Login(r) PROVE \E x \in Sessions : reader'[x] = "replace" /\ peer'[x] = s
    <2>1. Bound(s) /\ bound[playerID[s]] # s /\ closer[s] = "no"
      BY <1>2 DEF Login, Bound, Typed, Known
    <2>2. PICK x \in Sessions : reader[x] = "replace" /\ peer[x] = s
      BY <2>1 DEF OneSession
    <2> QED BY <2>2, <1>2 DEF Login, Typed
  <1>3. ASSUME NEW r \in Sessions, Register(r) PROVE \E x \in Sessions : reader'[x] = "replace" /\ peer'[x] = s
    <2>1. Bound(s) /\ bound[playerID[s]] # s /\ closer[s] = "no"
      BY <1>3 DEF Register, Bound, Typed, Known
    <2>2. PICK x \in Sessions : reader[x] = "replace" /\ peer[x] = s
      BY <2>1 DEF OneSession
    <2> QED BY <2>2, <1>3 DEF Register, Typed
  <1>4. ASSUME NEW r \in Sessions, Bind(r) PROVE \E x \in Sessions : reader'[x] = "replace" /\ peer'[x] = s
    <2>1. r # s  BY <1>4 DEF Bind, Typed, Known
    <2>2. Bound(s) /\ playerID' = playerID /\ closer[s] = "no"  BY <2>1, <1>4 DEF Bind, Bound, Typed
    <2>3. CASE bound[playerID[s]] = s
      <3>1. playerID[r] = playerID[s]  BY <2>1, <2>2, <2>3, <1>4 DEF Bind, Typed, Known
      <3> QED BY <2>1, <2>2, <2>3, <3>1, <1>4 DEF Bind, Typed
    <2>4. CASE bound[playerID[s]] # s
      <3>1. PICK x \in Sessions : reader[x] = "replace" /\ peer[x] = s
        BY <2>2, <2>4 DEF OneSession
      <3>2. x # r  BY <3>1, <1>4 DEF Bind
      <3> QED BY <3>1, <3>2, <1>4 DEF Bind, Typed
    <2> QED BY <2>3, <2>4
  <1>5. ASSUME NEW r \in Sessions, CloseOld(r) PROVE \E x \in Sessions : reader'[x] = "replace" /\ peer'[x] = s
    <2>0. QueuesKept /\ closer'[peer[r]] # "no"
      BY <1>5, QueueStep, BeginCloseKeeps DEF CloseOld, Typed
    <2>1. Bound(s) /\ bound[playerID[s]] # s /\ closer[s] = "no"
      BY <2>0, <1>5 DEF CloseOld, Bound, Typed, QueuesKept
    <2>2. PICK x \in Sessions : reader[x] = "replace" /\ peer[x] = s
      BY <2>1 DEF OneSession
    <2>3. x # r  BY <2>0, <2>2
    <2> QED BY <2>2, <2>3, <1>5 DEF CloseOld, Typed
  <1>6. ASSUME NEW r \in Sessions, Announce(r) PROVE \E x \in Sessions : reader'[x] = "replace" /\ peer'[x] = s
    <2>1. Bound(s) /\ bound[playerID[s]] # s /\ closer[s] = "no"
      BY <1>6 DEF Announce, Bound, Typed, Known
    <2>2. PICK x \in Sessions : reader[x] = "replace" /\ peer[x] = s
      BY <2>1 DEF OneSession
    <2>3. x # r  BY <2>1, <2>2, <1>6, HubAssumption DEF Announce
    <2> QED BY <2>2, <2>3, <1>6 DEF Announce, Typed
  <1>7. ASSUME NEW r \in Sessions, Ack(r) PROVE \E x \in Sessions : reader'[x] = "replace" /\ peer'[x] = s
    <2>0. QueuesKept  BY <1>7, QueueStep
    <2>1. Bound(s) /\ bound[playerID[s]] # s /\ closer[s] = "no"
      BY <2>0, <1>7 DEF Ack, Bound, Typed, Known, Leave, QueuesKept
    <2>2. PICK x \in Sessions : reader[x] = "replace" /\ peer[x] = s
      BY <2>1 DEF OneSession
    <2> QED BY <2>2, <1>7 DEF Ack, Typed, Leave
  <1>8. ASSUME NEW r \in Sessions, Route(r) PROVE \E x \in Sessions : reader'[x] = "replace" /\ peer'[x] = s
    <2>1. Bound(s) /\ bound[playerID[s]] # s /\ closer[s] = "no"
      BY <1>8 DEF Route, Bound, Typed, Known
    <2>2. PICK x \in Sessions : reader[x] = "replace" /\ peer[x] = s
      BY <2>1 DEF OneSession
    <2> QED BY <2>2, <1>8 DEF Route, Typed
  <1>9. ASSUME NEW r \in Sessions, Forward(r) PROVE \E x \in Sessions : reader'[x] = "replace" /\ peer'[x] = s
    <2>0. QueuesKept  BY <1>9, QueueStep
    <2>1. Bound(s) /\ bound[playerID[s]] # s /\ closer[s] = "no"
      BY <2>0, <1>9 DEF Forward, Bound, Typed, Known, QueuesKept
    <2>2. PICK x \in Sessions : reader[x] = "replace" /\ peer[x] = s
      BY <2>1 DEF OneSession
    <2> QED BY <2>2, <1>9 DEF Forward, Typed
  <1>10. ASSUME NEW r \in Sessions, PeerClosed(r) PROVE \E x \in Sessions : reader'[x] = "replace" /\ peer'[x] = s
    <2>1. Bound(s) /\ bound[playerID[s]] # s /\ closer[s] = "no"
      BY <1>10 DEF PeerClosed, Bound, Typed, Known
    <2>2. PICK x \in Sessions : reader[x] = "replace" /\ peer[x] = s
      BY <2>1 DEF OneSession
    <2> QED BY <2>2, <1>10 DEF PeerClosed, Typed
  <1>11. ASSUME NEW r \in Sessions, Bounce(r) PROVE \E x \in Sessions : reader'[x] = "replace" /\ peer'[x] = s
    <2>0. QueuesKept  BY <1>11, QueueStep
    <2>1. Bound(s) /\ bound[playerID[s]] # s /\ closer[s] = "no"
      BY <2>0, <1>11 DEF Bounce, Bound, Typed, Known, Leave, QueuesKept
    <2>2. PICK x \in Sessions : reader[x] = "replace" /\ peer[x] = s
      BY <2>1 DEF OneSession
    <2> QED BY <2>2, <1>11 DEF Bounce, Typed, Leave
  <1>12. ASSUME NEW r \in Sessions, Report(r) PROVE \E x \in Sessions : reader'[x] = "replace" /\ peer'[x] = s
    <2>1. Bound(s) /\ bound[playerID[s]] # s /\ closer[s] = "no"
      BY <1>12 DEF Report, Bound, Typed, Known
    <2>2. PICK x \in Sessions : reader[x] = "replace" /\ peer[x] = s
      BY <2>1 DEF OneSession
    <2> QED BY <2>2, <1>12 DEF Report, Typed
  <1>13. ASSUME NEW r \in Sessions, ReadFails(r) PROVE \E x \in Sessions : reader'[x] = "replace" /\ peer'[x] = s
    <2>0. QueuesKept  BY <1>13, QueueStep
    <2>1. Bound(s) /\ bound[playerID[s]] # s /\ closer[s] = "no"
      BY <2>0, <1>13 DEF ReadFails, Bound, Typed, Known, Leave, QueuesKept
    <2>2. PICK x \in Sessions : reader[x] = "replace" /\ peer[x] = s
      BY <2>1 DEF OneSession
    <2> QED BY <2>2, <1>13 DEF ReadFails, Typed, Leave
  <1>14. ASSUME NEW r \in Sessions, Deliver(r) PROVE \E x \in Sessions : reader'[x] = "replace" /\ peer'[x] = s
    <2>0. QueuesKept  BY <1>14, QueueStep
    <2>1. Bound(s) /\ bound[playerID[s]] # s /\ closer[s] = "no"
      BY <2>0, <1>14 DEF Deliver, Bound, Typed, Known, QueuesKept
    <2>2. PICK x \in Sessions : reader[x] = "replace" /\ peer[x] = s
      BY <2>1 DEF OneSession
    <2> QED BY <2>2, <1>14 DEF Deliver, Typed
  <1>15. ASSUME NEW r \in Sessions, WriteFails(r) PROVE \E x \in Sessions : reader'[x] = "replace" /\ peer'[x] = s
    <2>0. QueuesKept  BY <1>15, QueueStep
    <2>1. Bound(s) /\ bound[playerID[s]] # s /\ closer[s] = "no"
      BY <2>0, <1>15 DEF WriteFails, Bound, Typed, Known, QueuesKept
    <2>2. PICK x \in Sessions : reader[x] = "replace" /\ peer[x] = s
      BY <2>1 DEF OneSession
    <2> QED BY <2>2, <1>15 DEF WriteFails, Typed
  <1>16. ASSUME NEW r \in Sessions, Lookup(r) PROVE \E x \in Sessions : reader'[x] = "replace" /\ peer'[x] = s
    <2>1. Bound(s) /\ bound[playerID[s]] # s /\ closer[s] = "no"
      BY <1>16 DEF Lookup, Bound, Typed, Known
    <2>2. PICK x \in Sessions : reader[x] = "replace" /\ peer[x] = s
      BY <2>1 DEF OneSession
    <2> QED BY <2>2, <1>16 DEF Lookup, Typed
  <1>17. ASSUME NEW r \in Sessions, Delete(r) PROVE \E x \in Sessions : reader'[x] = "replace" /\ peer'[x] = s
    <2>1. Bound(s) /\ bound[playerID[s]] # s /\ closer[s] = "no"
      BY <1>17 DEF Delete, Bound, Typed, Known
    <2>2. PICK x \in Sessions : reader[x] = "replace" /\ peer[x] = s
      BY <2>1 DEF OneSession
    <2> QED BY <2>2, <1>17 DEF Delete, Typed
  <1>18. ASSUME NEW r \in Sessions, Unbind(r) PROVE \E x \in Sessions : reader'[x] = "replace" /\ peer'[x] = s
    <2>1. Bound(s) /\ bound[playerID[s]] # s /\ closer[s] = "no"
      BY <1>18 DEF Unbind, Bound, Typed, Known
    <2>2. PICK x \in Sessions : reader[x] = "replace" /\ peer[x] = s
      BY <2>1 DEF OneSession
    <2> QED BY <2>2, <1>18 DEF Unbind, Typed
  <1>19. ASSUME NEW r \in Sessions, Clear(r) PROVE \E x \in Sessions : reader'[x] = "replace" /\ peer'[x] = s
    <2>1. Bound(s) /\ bound[playerID[s]] # s /\ closer[s] = "no"
      BY <1>19 DEF Clear, Bound, Typed, Known
    <2>2. PICK x \in Sessions : reader[x] = "replace" /\ peer[x] = s
      BY <2>1 DEF OneSession
    <2> QED BY <2>2, <1>19 DEF Clear, Typed
  <1>20. ASSUME NEW r \in Sessions, Finish(r) PROVE \E x \in Sessions : reader'[x] = "replace" /\ peer'[x] = s
    <2>1. Bound(s) /\ bound[playerID[s]] # s /\ closer[s] = "no"
      BY <1>20 DEF Finish, Bound, Typed, Known
    <2>2. PICK x \in Sessions : reader[x] = "replace" /\ peer[x] = s
      BY <2>1 DEF OneSession
    <2> QED BY <2>2, <1>20 DEF Finish, Typed
  <1>21. ASSUME NEW t \in Tunnels, TunnelChanges(t) PROVE \E x \in Sessions : reader'[x] = "replace" /\ peer'[x] = s
    <2>1. Bound(s) /\ bound[playerID[s]] # s /\ closer[s] = "no"
      BY <1>21 DEF TunnelChanges, Bound, Typed, Known
    <2>2. PICK x \in Sessions : reader[x] = "replace" /\ peer[x] = s
      BY <2>1 DEF OneSession
    <2> QED BY <2>2, <1>21 DEF TunnelChanges, Typed
  <1>22. ASSUME NEW w \in Tellers, LoadTarget(w) PROVE \E x \in Sessions : reader'[x] = "replace" /\ peer'[x] = s
    <2>1. Bound(s) /\ bound[playerID[s]] # s /\ closer[s] = "no"
      BY <1>22 DEF LoadTarget, Bound, Typed, Known
    <2>2. PICK x \in Sessions : reader[x] = "replace" /\ peer[x] = s
      BY <2>1 DEF OneSession
    <2> QED BY <2>2, <1>22 DEF LoadTarget, Typed
  <1>23. ASSUME NEW w \in Tellers, PushUpdate(w) PROVE \E x \in Sessions : reader'[x] = "replace" /\ peer'[x] = s
    <2>0. QueuesKept  BY <1>23, QueueStep
    <2>1. Bound(s) /\ bound[playerID[s]] # s /\ closer[s] = "no"
      BY <2>0, <1>23 DEF PushUpdate, Bound, Typed, Known, QueuesKept
    <2>2. PICK x \in Sessions : reader[x] = "replace" /\ peer[x] = s
      BY <2>1 DEF OneSession
    <2> QED BY <2>2, <1>23 DEF PushUpdate, Typed
  <1>24. ASSUME NEW w \in Tellers, TargetClosed(w) PROVE \E x \in Sessions : reader'[x] = "replace" /\ peer'[x] = s
    <2>1. Bound(s) /\ bound[playerID[s]] # s /\ closer[s] = "no"
      BY <1>24 DEF TargetClosed, Bound, Typed, Known
    <2>2. PICK x \in Sessions : reader[x] = "replace" /\ peer[x] = s
      BY <2>1 DEF OneSession
    <2> QED BY <2>2, <1>24 DEF TargetClosed, Typed
  <1>25. CASE UNCHANGED vars
    BY <1>25 DEF vars, OneSession, Bound
  <1> QED BY <1>1, <1>2, <1>3, <1>4, <1>5, <1>6, <1>7, <1>8, <1>9, <1>10, <1>11, <1>12, <1>13, <1>14, <1>15, <1>16, <1>17, <1>18, <1>19, <1>20, <1>21, <1>22, <1>23, <1>24, <1>25
       DEF Next, Client, LoginStep, RouteStep, CloseStep, TellStep

\* OneSession: a player who is bound to a new session has no other that acts
\* for him and that nobody closes
THEOREM PlayerHasOneSession == Spec => []OneSession
  <1>1. Init => OneSession
    BY DEF Init, OneSession, Bound
  <1> QED BY <1>1, InitTyped, StepTyped, StepOneSession, PTL DEF Spec

-----------------------------------------------------------------------------
\* What the tables say of sessions, and what a Close has done to them by now.
\* A Close that looked the session up after it was bound finds what it has to
\* remove; one that came earlier does not.
Leaves(s) ==
    /\ \A p \in Players : hub[p] = s \/ bound[p] = s => playerID[s] = p
    /\ s \notin early =>
          /\ closer[s] \notin {"no", "lookup"} => Bound(s)
          /\ closer[s] \in {"unbind", "clear", "tell", "done"} => \A p \in Players : hub[p] # s
          /\ closer[s] \in {"clear", "tell", "done"} => \A p \in Players : bound[p] # s

Left == \A s \in Sessions : Leaves(s)

\* A step that does not touch the tables
Quiet ==
    /\ UNCHANGED <<hub, bound, playerID, early>>
    /\ \A s \in Sessions :
          /\ Bound(s) => Bound(s)'
          /\ \/ closer'[s] = closer[s]
             \/ closer'[s] = "lookup"
             \/ closer[s] \in {"clear", "tell"} /\ closer'[s] \in {"tell", "done"}

\* All but six actions leave the tables alone
LEMMA QuietSteps ==
    ASSUME TypeInv, [Next]_vars
    PROVE  \/ Quiet
           \/ \E s \in Sessions :
                 Login(s) \/ Register(s) \/ Bind(s) \/ Lookup(s) \/ Delete(s) \/ Unbind(s)
  <1> USE DEF TypeInv
  <1>1. ASSUME NEW r \in Sessions, Answer(r) PROVE Quiet
    <2>1. QueuesKept  BY <1>1, QueueStep
    <2> QED BY <2>1, <1>1 DEF Answer, Quiet, QueuesKept, Bound, Typed, Leave
  <1>2. ASSUME NEW r \in Sessions, CloseOld(r) PROVE Quiet
    <2>1. QueuesKept  BY <1>2, QueueStep
    <2> QED BY <2>1, <1>2 DEF CloseOld, Quiet, QueuesKept, Bound, Typed
  <1>3. ASSUME NEW r \in Sessions, Ack(r) PROVE Quiet
    <2>1. QueuesKept  BY <1>3, QueueStep
    <2> QED BY <2>1, <1>3 DEF Ack, Quiet, QueuesKept, Bound, Typed, Leave
  <1>4. ASSUME NEW r \in Sessions, Forward(r) PROVE Quiet
    <2>1. QueuesKept  BY <1>4, QueueStep
    <2> QED BY <2>1, <1>4 DEF Forward, Quiet, QueuesKept, Bound, Typed
  <1>5. ASSUME NEW r \in Sessions, Bounce(r) PROVE Quiet
    <2>1. QueuesKept  BY <1>5, QueueStep
    <2> QED BY <2>1, <1>5 DEF Bounce, Quiet, QueuesKept, Bound, Typed, Leave
  <1>6. ASSUME NEW r \in Sessions, ReadFails(r) PROVE Quiet
    <2>1. QueuesKept  BY <1>6, QueueStep
    <2> QED BY <2>1, <1>6 DEF ReadFails, Quiet, QueuesKept, Bound, Typed, Leave
  <1>7. ASSUME NEW r \in Sessions, Deliver(r) PROVE Quiet
    <2>1. QueuesKept  BY <1>7, QueueStep
    <2> QED BY <2>1, <1>7 DEF Deliver, Quiet, QueuesKept, Bound, Typed
  <1>8. ASSUME NEW r \in Sessions, WriteFails(r) PROVE Quiet
    <2>1. QueuesKept  BY <1>8, QueueStep
    <2> QED BY <2>1, <1>8 DEF WriteFails, Quiet, QueuesKept, Bound, Typed
  <1>9. ASSUME NEW r \in Sessions, Announce(r) PROVE Quiet
    BY <1>9 DEF Announce, Quiet, Bound, Typed
  <1>10. ASSUME NEW r \in Sessions, Route(r) PROVE Quiet
    BY <1>10 DEF Route, Quiet, Bound, Typed
  <1>11. ASSUME NEW r \in Sessions, PeerClosed(r) PROVE Quiet
    BY <1>11 DEF PeerClosed, Quiet, Bound, Typed
  <1>12. ASSUME NEW r \in Sessions, Report(r) PROVE Quiet
    BY <1>12 DEF Report, Quiet, Bound, Typed
  <1>13. ASSUME NEW r \in Sessions, Clear(r) PROVE Quiet
    BY <1>13 DEF Clear, Quiet, Bound, Typed
  <1>14. ASSUME NEW r \in Sessions, Finish(r) PROVE Quiet
    BY <1>14 DEF Finish, Quiet, Bound, Typed
  <1>15. ASSUME NEW t \in Tunnels, TunnelChanges(t) PROVE Quiet
    BY <1>15 DEF TunnelChanges, Quiet, Bound
  <1>16. ASSUME NEW w \in Tellers, LoadTarget(w) \/ TargetClosed(w) PROVE Quiet
    BY <1>16 DEF LoadTarget, TargetClosed, Quiet, Bound
  <1>17. ASSUME NEW w \in Tellers, PushUpdate(w) PROVE Quiet
    <2>1. QueuesKept  BY <1>17, QueueStep
    <2> QED BY <2>1, <1>17 DEF PushUpdate, Quiet, QueuesKept, Bound
  <1>18. CASE UNCHANGED vars
    BY <1>18 DEF vars, Quiet, Bound
  <1> QED BY <1>1, <1>2, <1>3, <1>4, <1>5, <1>6, <1>7, <1>8, <1>9,
       <1>10, <1>11, <1>12, <1>13, <1>14, <1>15, <1>16, <1>17, <1>18
       DEF Next, Client, LoginStep, RouteStep, CloseStep, TellStep

\* The six others; a session that has left the tables does not return to them,
\* for it was bound before and a connection logs in once
LEMMA StepLeft == TypeInv /\ Left /\ [Next]_vars => Left'
  <1> SUFFICES ASSUME TypeInv, Left, [Next]_vars, NEW s \in Sessions PROVE Leaves(s)'
    BY DEF Left
  <1> USE DEF TypeInv
  <1>1. Leaves(s) /\ s # None  BY HubAssumption DEF Left
  <1>2. ASSUME NEW r \in Sessions, Login(r) PROVE Leaves(s)'
    BY <1>1, <1>2, HubAssumption DEF Login, Leaves, Bound, Typed, Known
  <1>3. ASSUME NEW r \in Sessions, Register(r) PROVE Leaves(s)'
    BY <1>1, <1>3 DEF Register, Leaves, Bound, Typed, Known
  <1>4. ASSUME NEW r \in Sessions, Bind(r) PROVE Leaves(s)'
    BY <1>1, <1>4 DEF Bind, Leaves, Bound, Typed, Known
  <1>5. ASSUME NEW r \in Sessions, Lookup(r) PROVE Leaves(s)'
    BY <1>1, <1>5 DEF Lookup, Leaves, Bound, Typed
  <1>6. ASSUME NEW r \in Sessions, Delete(r) PROVE Leaves(s)'
    BY <1>1, <1>6 DEF Delete, Leaves, Bound, Typed, Known
  <1>7. ASSUME NEW r \in Sessions, Unbind(r) PROVE Leaves(s)'
    BY <1>1, <1>7 DEF Unbind, Leaves, Bound, Typed, Known
  <1>8. CASE Quiet
    BY <1>1, <1>8 DEF Quiet, Leaves
  <1> QED BY <1>2, <1>3, <1>4, <1>5, <1>6, <1>7, <1>8, QuietSteps

\* NoGhost: a session whose Close found it logged in is in no table once the
\* Close is past them
THEOREM NothingLeftBehind == Spec => []NoGhost
  <1>1. Init => Left
    BY HubAssumption DEF Init, Left, Leaves, Bound
  <1>2. Left => NoGhost
    BY DEF Left, Leaves, NoGhost
  <1> QED BY <1>1, <1>2, InitTyped, StepTyped, StepLeft, PTL DEF Spec
=============================================================================
