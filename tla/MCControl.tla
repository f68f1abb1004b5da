----------------------------- MODULE MCControl -----------------------------
(***************************************************************************)
(* Control with one tunnel, two players and the server.  The run starts    *)
(* empty, or with a tunnel configured and its players logged in; MaxEvents *)
(* things happen that somebody decides on: a web request, a connection     *)
(* made or broken, a restart of the server.                                *)
(***************************************************************************)
EXTENDS Control, TLC

CONSTANTS p, q, p1, p2, q1, MaxEvents,
    WebConfs    \* the configurations that web requests ask for

TwoAndOne == p1 :> p @@ p2 :> p @@ q1 :> q

Config(e, s, r, x) == [enabled |-> e, sender |-> s, receiver |-> r, source |-> x]

Off(k) == [k EXCEPT !.enabled = FALSE]

\* From one player to another, within one player, into and out of the server,
\* the latter also with an address that is not free there
Across == Config(TRUE, p, q, "a")
Loop == Config(TRUE, p, p, "a")
Inward == Config(TRUE, p, Server, "a")
InwardTaken == Config(TRUE, p, Server, "b")
Outward == Config(TRUE, Server, p, "a")
OutwardOther == Config(TRUE, Server, q, "a")

SomeConfs == {Across, Off(Across), Loop, Off(Loop)} \cup
             {Inward, Off(Inward), InwardTaken, Off(InwardTaken)} \cup
             {Outward, Off(Outward), OutwardOther, Off(OutwardOther)}

\* What is configured and who is logged in at the start
Starts == {<<Across, {p1, q1}>>, <<Loop, {p1}>>, <<Inward, {p1}>>, <<Outward, {p1, q1}>>}

Usual == {Across, Off(Across), InwardTaken, OutwardOther}

OnTheServer == {<<Server, "b">>}

VARIABLE events

mcVars == <<vars, events>>

\* The tunnel is k, the sessions in S are logged in, and nothing goes on: a
\* state that Control reaches by itself
SettledWith(k, S) ==
    LET runs == k.enabled /\ Ends(k) \subseteq {Owner[c] : c \in S} \cup {Server}
        sent == [k EXCEPT !.enabled = runs]
        Knows(h) == Self(h) \in Ends(k) /\ h \in S \cup {Server}
        Holds(h) == [tunnels  |-> [t \in Tunnels |-> IF Knows(h) THEN sent ELSE None],
                     inlets   |-> [t \in Tunnels |-> IF Knows(h) /\ runs /\ k.receiver = Self(h) THEN k ELSE None],
                     outlets  |-> [t \in Tunnels |-> IF Knows(h) /\ runs /\ k.sender = Self(h) THEN k ELSE None]]
    IN  /\ conf = [t \in Tunnels |-> k] /\ fresh = {}
        /\ record = [t \in Tunnels |-> IF runs THEN "up" ELSE "none"]
        /\ bound = [x \in Players |-> IF \E c \in S : Owner[c] = x THEN CHOOSE c \in S : Owner[c] = x ELSE None]
        /\ reader = [c \in Conns |-> IF c \in S THEN "read" ELSE "off"]
        /\ closer = [c \in Conns |-> "no"]
        /\ evicted = NoneFor(Conns) /\ reply = NoneFor(Conns) /\ held = NoneFor(Conns)
        /\ tell = [w \in Tellers |-> Idle] /\ mixed = FALSE
        /\ link = [c \in Conns |-> IF c \in S THEN "up" ELSE "off"]
        /\ client = [c \in Conns |-> IF c \in S THEN "in" ELSE "off"]
        /\ down = [c \in Conns |-> <<>>] /\ up = [c \in Conns |-> <<>>]
        /\ mgr = [h \in Hosts |-> Holds(h)]
        /\ listening = UNION {Sockets(mgr[h], h) : h \in Hosts}

MCInit ==
    /\ Init \/ \E x \in Starts : SettledWith(x[1], x[2])
    /\ events = 0

MCEvent ==
    /\ Event
    /\ \A t \in Tunnels : conf'[t] \in WebConfs \cup {None, conf[t]}
    /\ events < MaxEvents /\ events' = events + 1

MCNext == (MCEvent /\ KeepsServer) \/ (Reaction /\ UNCHANGED events)

MCSpec == MCInit /\ [][MCNext]_mcVars

\* Both connections of p are alike.
Symmetry == Permutations({p1, p2})
=============================================================================
