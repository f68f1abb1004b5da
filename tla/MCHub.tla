------------------------------- MODULE MCHub -------------------------------
(***************************************************************************)
(* Hub with two connections of one player and one of another, and a tunnel *)
(* between the two players.  The run starts with one of the sets AtStart   *)
(* logged in, all quiet, a state Hub reaches by itself; of the things that *)
(* clients, connections and web requests do on their own, MaxEvents happen.*)
(***************************************************************************)
EXTENDS Hub, TLC

CONSTANTS p, q, p1, p2, q1, MaxEvents, AtStart

TwoAndOne == p1 :> p @@ p2 :> p @@ q1 :> q

BetweenThem == [t \in Tunnels |-> Players]

VARIABLE events

mcVars == <<vars, events>>

\* Steps nobody else can tell from a later one: they only read what cannot
\* change any more and change what only their own goroutine, or one that waits
\* for its Close, reads (Clear also removes reports, which no property is about)
Local ==
    \/ \E s \in Sessions : Announce(s) \/ Clear(s) \/ Finish(s) \/ PeerClosed(s)
    \/ \E w \in Tellers : TargetClosed(w)

Event ==
    \/ \E s \in Sessions :
          Login(s) \/ Answer(s) \/ Route(s) \/ Report(s) \/ ReadFails(s) \/ WriteFails(s)
    \/ \E t \in Tunnels : TunnelChanges(t)

Reaction ==
    \/ \E s \in Sessions :
          \/ Register(s) \/ Bind(s) \/ CloseOld(s) \/ Ack(s)
          \/ Forward(s) \/ Bounce(s) \/ Deliver(s)
          \/ Lookup(s) \/ Delete(s) \/ Unbind(s)
    \/ \E w \in Tellers : LoadTarget(w) \/ PushUpdate(w)

\* The sessions in S, one per player at most, are logged in and nothing goes on
SessionIn(S, x) == LET own == {s \in S : Owner[s] = x}
                   IN  IF own = {} THEN None ELSE CHOOSE s \in own : TRUE

LoggedIn(S) ==
    /\ hub = [x \in Players |-> SessionIn(S, x)]
    /\ bound = hub
    /\ runtime = {}
    /\ playerID = [s \in Sessions |-> IF s \in S THEN Owner[s] ELSE None]
    /\ queue = [s \in Sessions |-> <<>>]
    /\ reader = [s \in Sessions |-> "read"] /\ peer = [s \in Sessions |-> None]
    /\ closer = [s \in Sessions |-> "no"]
    /\ tell = [w \in Tellers |-> Silent]
    /\ early = {}

MCInit == (\E S \in AtStart : LoggedIn(S)) /\ events = 0

\* Local steps are taken at once, which leaves out interleavings but no outcome
MCNext ==
    \/ Local /\ UNCHANGED events
    \/ /\ ~ENABLED Local
       /\ \/ Event /\ events < MaxEvents /\ events' = events + 1
          \/ Reaction /\ UNCHANGED events

MCSpec == MCInit /\ [][MCNext]_mcVars /\ Fairness
=============================================================================
