------------------------------- MODULE Tunnel -------------------------------
(***************************************************************************)
(* A TCP tunnel end to end: an Inlet and the Outlet of the other player,   *)
(* joined by the route between them.  A message goes through the sender's  *)
(* and the server's write queues and connections to the goroutine that     *)
(* calls Input on the other side (server/session.go handleFrame,           *)
(* client/client.go readLoop), so each direction keeps its order.  The     *)
(* connections stay up here; an id is used for one connect only.           *)
(***************************************************************************)
EXTENDS Naturals, Sequences, FiniteSets

CONSTANTS Ids, MaxSlots, QueueCap, Window, MaxUp, MaxDown, None

VARIABLES
    \* the inlet
    iStop, acc, accConn, slots, sess, by, main, loop, iCur, ctxMu, ready, iFlow, iQ, iConn,
    iUp, iDown,
    \* the outlet
    oStop, sessions, connecting, idOf, go, worker, oCur, tgt, reader, closing, ended, oFlow, oQ,
    oConn, oUp, oDown,
    \* the two directions of the route
    i2o, o2i

inletVars ==
    <<iStop, acc, accConn, slots, sess, by, main, loop, iCur, ctxMu, ready, iFlow, iQ, iConn,
      iUp, iDown>>
outletVars ==
    <<oStop, sessions, connecting, idOf, go, worker, oCur, tgt, reader, closing, ended, oFlow, oQ,
      oConn, oUp, oDown>>
vars == <<inletVars, outletVars, i2o, o2i>>

In == INSTANCE Inlet WITH
        stopPc <- iStop, cur <- iCur, flow <- iFlow, inputQ <- iQ, conn <- iConn,
        up <- iUp, down <- iDown

Out == INSTANCE Outlet WITH
        Attempts <- Ids, stopPc <- oStop, cur <- oCur, flow <- oFlow, inputQ <- oQ, conn <- oConn,
        up <- oUp, down <- oDown

\* What both ends assume, and that no message is mistaken for none
ASSUME TunnelAssumption ==
    /\ IsFiniteSet(Ids)
    /\ MaxSlots \in Nat /\ QueueCap \in Nat \ {0} /\ Window \in Nat \ {0}
    /\ MaxUp \in Nat /\ MaxDown \in Nat
    /\ None \notin Ids /\ None \notin In!InMessages /\ None \notin Out!InMessages

Init == In!Init /\ Out!Init

Next ==
    \/ In!Next /\ UNCHANGED outletVars
    \/ Out!Next /\ UNCHANGED inletVars

Spec == Init /\ [][Next]_vars

-----------------------------------------------------------------------------
\* The outlet's attempt for a session id, if it has taken the connect up
HasAttempt(c) == \E a \in Ids : idOf[a] = c
AttemptOf(c) == CHOOSE a \in Ids : idOf[a] = c

AtTarget(f, default) == [c \in Ids |-> IF HasAttempt(c) THEN f[AttemptOf(c)] ELSE default]

UpPipe == INSTANCE BytePipe WITH sent <- iUp, got <- AtTarget(oUp, <<>>)
DownPipe == INSTANCE BytePipe WITH sent <- AtTarget(oDown, 0), got <- iDown

\* What a local client sends reaches the target once and in order, and what the
\* target sends reaches the client once and in order, through two queues, two
\* windows and every way a session can end.
UpIsPipe == UpPipe!PipeSpec
DownIsPipe == DownPipe!PipeSpec

Count(q, type, c) == Cardinality({k \in 1 .. Len(q) : q[k].type = type /\ q[k].id = c})
Held(m, type) == IF m # None /\ m.type = type THEN 1 ELSE 0

\* Uplink payloads and their acknowledgements anywhere between the inlet's window and itself
UpInTransit(c) ==
    LET a == AttemptOf(c)
    IN  Count(i2o, "I2OSendData", c) + Count(oQ[a], "I2OSendData", c) + Held(oCur[a], "I2OSendData")
          + Count(o2i, "O2ISendDataResult", c)

DownInTransit(c) ==
    LET a == AttemptOf(c)
    IN  (IF reader[a] = "emit" THEN 1 ELSE 0)
          + Count(o2i, "O2IRecvData", c) + Count(iQ[c], "O2IRecvData", c) + Held(iCur[c], "O2IRecvData")
          + Count(i2o, "I2ORecvDataResult", c)

\* While both ends of a session are up no credit is lost or made up: what a
\* window counts as unacknowledged is exactly the payloads and acknowledgements
\* under way (common.go:33-70).  Lost credit would stall the session for good.
CreditConserved ==
    \A c \in Ids :
      sess[c] = "live" /\ sessions[c] # None =>
        /\ iFlow[c] = UpInTransit(c)
        /\ oFlow[sessions[c]] = DownInTransit(c)

\* The inlet waits for credit that has not come.
Starved(c) == main[c] = "credit" /\ iFlow[c] = Window

\* Whenever the inlet's session is over the outlet reclaims its side for good,
\* the target connection included, whatever was under way between them.
NoOrphanTarget ==
    \A c \in Ids : sess[c] = "done" ~> [](\A a \in Ids : idOf[a] = c => Out!Gone(a))

\* Whenever the outlet's side is over the inlet's session ends as well, except
\* while its sender waits for credit under ctxMu (inlet.go:625, common.go:50).
NoOrphanSession ==
    \A c \in Ids :
      (\E a \in Ids : idOf[a] = c /\ Out!Gone(a)) ~> sess[c] = "done" \/ []Starved(c)

\* A payload taken from the local client reaches the target, or the session ends.
Delivered ==
    \A c \in Ids :
      \A n \in 1 .. MaxUp :
        iUp[c] = n ~> Len(AtTarget(oUp, <<>>)[c]) >= n \/ sess[c] = "done" \/ []Starved(c)
=============================================================================
