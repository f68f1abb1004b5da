-------------------------------- MODULE Hub --------------------------------
(***************************************************************************)
(* The server's directory of players (server/session.go and the session    *)
(* part of manager/player_manager.go): who is logged in, over which        *)
(* connection, and what happens when connections log in, replace each      *)
(* other and close.                                                        *)
(*                                                                         *)
(* Two tables hold the session of a player: hub.sessions, by which         *)
(* messages find their way, and PlayerManager.players, which says whether  *)
(* a player is online.  They have no lock in common.                       *)
(*                                                                         *)
(* Goroutines: for each session its reader, its writer and whoever is the  *)
(* first to call Close; and the goroutine of a web request that changes a  *)
(* tunnel.  Close is a sync.Once: the first caller runs it and every other *)
(* caller waits for its end, so it is a process of its own here and all    *)
(* callers wait for it.                                                    *)
(*                                                                         *)
(* A message in a write queue is "answer" (to a request; LoginAck is one)  *)
(* or "push" (tunnel update, tunnel traffic).  Tunnels have two different  *)
(* players for ends; the server's own ends belong to proxy/manager.go.     *)
(***************************************************************************)
EXTENDS Naturals, Sequences, FiniteSets

CONSTANTS
    Players,
    Sessions,   \* connections, each accepted once
    Owner,      \* Owner[s]: the player whose key the client of s presents
    Tunnels,
    Ends,       \* Ends[t]: the tunnel's sender and receiver
    QueueCap,   \* sessionWriteQueueCapacity
    None

Web == <<"web", None>>

\* Whoever can be in the middle of telling players about a tunnel
Tellers == ({"login", "close"} \X Sessions) \cup {Web}

ASSUME HubAssumption ==
    /\ Owner \in [Sessions -> Players]
    /\ Ends \in [Tunnels -> SUBSET Players]
    /\ QueueCap \in Nat \ {0}
    /\ None \notin Sessions \cup Players

VARIABLES
    hub,        \* Hub.sessions
    bound,      \* PlayerState.Session; the player is Online when there is one
    runtime,    \* TunnelRuntimeStore: tunnels with a report
    playerID,   \* Session.playerID
    queue,      \* Session.writeQueue
    reader,     \* where the reader of s is
    peer,       \* the session the reader deals with: pushes to, or waits for
    closer,     \* where the Close of s is; the queue is closed unless "no"
    tell,       \* progress of broadcastPlayerTunnelStates and BroadcastTunnel
    early       \* history: sessions whose Close looked them up before they were bound

vars == <<hub, bound, runtime, playerID, queue, reader, peer, closer, tell, early>>

-----------------------------------------------------------------------------

Silent == [todo |-> {}, to |-> None, waits |-> FALSE]

Init ==
    /\ hub = [p \in Players |-> None] /\ bound = [p \in Players |-> None]
    /\ runtime = {}
    /\ playerID = [s \in Sessions |-> None]
    /\ queue = [s \in Sessions |-> <<>>]
    /\ reader = [s \in Sessions |-> "read"] /\ peer = [s \in Sessions |-> None]
    /\ closer = [s \in Sessions |-> "no"]
    /\ tell = [w \in Tellers |-> Silent]
    /\ early = {}

\* ByPlayer
TunnelsOf(p) == {t \in Tunnels : p \in Ends[t]}

\* Players at the other ends of a player's tunnels
PeersOf(p) == UNION {Ends[t] : t \in TunnelsOf(p)} \ {p}

\* What the others are told when a player comes or goes, one push per tunnel
UpdatesOf(p) == {u \in Tunnels \X Players : {p, u[2]} \subseteq Ends[u[1]] /\ u[2] # p}

\* writeQueue.Push succeeds
Accepts(s) == closer[s] = "no" /\ Len(queue[s]) < QueueCap

Push(s, m) == queue' = [queue EXCEPT ![s] = Append(@, m)]

\* The session's once has been entered: closeCh and the write queue are closed.
\* The writer's Pop returns nothing from now on.
BeginClose(s) ==
    /\ closer' = [closer EXCEPT ![s] = IF @ = "no" THEN "lookup" ELSE @]
    /\ queue' = [queue EXCEPT ![s] = <<>>]

\* readLoop returns and Run calls Close
Leave(s) ==
    /\ BeginClose(s)
    /\ reader' = [reader EXCEPT ![s] = "over"]

-----------------------------------------------------------------------------
\* The reader: handleFrame, one request or push after the other

\* A ping, a registration, a login that is refused: answered and nothing else
Answer(s) ==
    /\ reader[s] = "read"
    /\ \/ Accepts(s) /\ Push(s, "answer") /\ UNCHANGED <<reader, closer>>
       \/ ~Accepts(s) /\ Leave(s)
    /\ UNCHANGED <<hub, bound, runtime, playerID, peer, tell, early>>

\* onLogin, with a key that is found
Login(s) ==
    /\ reader[s] = "read" /\ playerID[s] = None
    /\ playerID' = [playerID EXCEPT ![s] = Owner[s]]
    /\ reader' = [reader EXCEPT ![s] = "register"]
    /\ UNCHANGED <<hub, bound, runtime, queue, peer, closer, tell, early>>

Register(s) ==
    /\ reader[s] = "register"
    /\ hub' = [hub EXCEPT ![playerID[s]] = s]
    /\ reader' = [reader EXCEPT ![s] = "bind"]
    /\ UNCHANGED <<bound, runtime, playerID, queue, peer, closer, tell, early>>

\* BindClient: the new session takes the place of the old one under the lock ...
Bind(s) ==
    /\ reader[s] = "bind"
    /\ bound' = [bound EXCEPT ![playerID[s]] = s]
    /\ peer' = [peer EXCEPT ![s] = bound[playerID[s]]]
    /\ reader' = [reader EXCEPT ![s] = "replace"]
    /\ UNCHANGED <<hub, runtime, playerID, queue, closer, tell, early>>

\* ... and closes it without the lock
CloseOld(s) ==
    /\ reader[s] = "replace" /\ peer[s] # None
    /\ BeginClose(peer[s])
    /\ reader' = [reader EXCEPT ![s] = "evict"]
    /\ UNCHANGED <<hub, bound, runtime, playerID, peer, tell, early>>

\* BindClient has returned; the answer is made up and the peers are told
Announce(s) ==
    /\ \/ reader[s] = "replace" /\ peer[s] = None
       \/ reader[s] = "evict" /\ closer[peer[s]] = "done"
    /\ tell' = [tell EXCEPT ![<<"login", s>>].todo = UpdatesOf(playerID[s])]
    /\ peer' = [peer EXCEPT ![s] = None]
    /\ reader' = [reader EXCEPT ![s] = "tell"]
    /\ UNCHANGED <<hub, bound, runtime, playerID, queue, closer, early>>

\* onLogin returns and handleFrame queues the LoginAck
Ack(s) ==
    /\ reader[s] = "tell" /\ tell[<<"login", s>>] = Silent
    /\ \/ /\ Accepts(s) /\ Push(s, "answer")
          /\ reader' = [reader EXCEPT ![s] = "read"] /\ UNCHANGED closer
       \/ ~Accepts(s) /\ Leave(s)
    /\ UNCHANGED <<hub, bound, runtime, playerID, peer, tell, early>>

\* handlePush of a message for the other end of one of the player's tunnels
Route(s) ==
    /\ reader[s] = "read" /\ playerID[s] # None
    /\ \E p \in PeersOf(playerID[s]) :
          /\ peer' = [peer EXCEPT ![s] = hub[p]]
          /\ reader' = [reader EXCEPT ![s] = IF hub[p] = None THEN "bounce" ELSE "push"]
    /\ UNCHANGED <<hub, bound, runtime, playerID, queue, closer, tell, early>>

Forward(s) ==
    /\ reader[s] = "push"
    /\ \/ /\ Accepts(peer[s]) /\ Push(peer[s], "push")
          /\ reader' = [reader EXCEPT ![s] = "read"]
          /\ peer' = [peer EXCEPT ![s] = None] /\ UNCHANGED closer
       \/ /\ ~Accepts(peer[s]) /\ BeginClose(peer[s])
          /\ reader' = [reader EXCEPT ![s] = "wait"] /\ UNCHANGED peer
    /\ UNCHANGED <<hub, bound, runtime, playerID, tell, early>>

\* The Close of the unreachable session has returned
PeerClosed(s) ==
    /\ reader[s] = "wait" /\ closer[peer[s]] = "done"
    /\ reader' = [reader EXCEPT ![s] = "bounce"]
    /\ peer' = [peer EXCEPT ![s] = None]
    /\ UNCHANGED <<hub, bound, runtime, playerID, queue, closer, tell, early>>

\* handleOfflineProxy: some messages are answered on behalf of the peer, over
\* whatever session the player has now; an answer that cannot be queued ends
\* this one
Bounce(s) ==
    /\ reader[s] = "bounce"
    /\ \/ /\ reader' = [reader EXCEPT ![s] = "read"]   \* no answer, or nobody to take it
          /\ UNCHANGED <<queue, closer>>
       \/ /\ hub[playerID[s]] # None
          /\ \/ /\ Accepts(hub[playerID[s]]) /\ Push(hub[playerID[s]], "push")
                /\ reader' = [reader EXCEPT ![s] = "read"] /\ UNCHANGED closer
             \/ ~Accepts(hub[playerID[s]]) /\ Leave(s)
    /\ UNCHANGED <<hub, bound, runtime, playerID, peer, tell, early>>

\* handleTunnelRuntimeReport
Report(s) ==
    /\ reader[s] = "read" /\ playerID[s] # None
    /\ \E t \in TunnelsOf(playerID[s]) : runtime' = runtime \cup {t}
    /\ UNCHANGED <<hub, bound, playerID, queue, reader, peer, closer, tell, early>>

\* The connection ends, is silent for too long or sends what cannot be decoded
ReadFails(s) ==
    /\ reader[s] = "read"
    /\ Leave(s)
    /\ UNCHANGED <<hub, bound, runtime, playerID, peer, tell, early>>

-----------------------------------------------------------------------------
\* The writer

Deliver(s) ==
    /\ queue[s] # <<>>
    /\ queue' = [queue EXCEPT ![s] = Tail(@)]
    /\ UNCHANGED <<hub, bound, runtime, playerID, reader, peer, closer, tell, early>>

WriteFails(s) ==
    /\ queue[s] # <<>>
    /\ BeginClose(s)
    /\ UNCHANGED <<hub, bound, runtime, playerID, reader, peer, tell, early>>

-----------------------------------------------------------------------------
\* Close, after the queue

Bound(s) == playerID[s] # None /\ reader[s] \notin {"register", "bind"}

\* Mutant of Lookup: a session that was replaced is taken to be unregistered
LookupOnline(s) ==
    /\ closer[s] = "lookup"
    /\ closer' = [closer EXCEPT ![s] =
          IF playerID[s] = None THEN "done"
          ELSE IF bound[playerID[s]] = s THEN "delete" ELSE "unbind"]
    /\ early' = IF Bound(s) THEN early ELSE early \cup {s}
    /\ UNCHANGED <<hub, bound, runtime, playerID, queue, reader, peer, tell>>

\* Mutant of Lookup: the peers are told without leaving the tables first
LookupLater(s) ==
    /\ closer[s] = "lookup"
    /\ closer' = [closer EXCEPT ![s] = IF playerID[s] = None THEN "done" ELSE "clear"]
    /\ early' = IF Bound(s) THEN early ELSE early \cup {s}
    /\ UNCHANGED <<hub, bound, runtime, playerID, queue, reader, peer, tell>>

\* Reads playerID and, if there is one, the hub's entry
Lookup(s) ==
    /\ closer[s] = "lookup"
    /\ closer' = [closer EXCEPT ![s] =
          IF playerID[s] = None THEN "done"
          ELSE IF hub[playerID[s]] = s THEN "delete" ELSE "unbind"]
    /\ early' = IF Bound(s) THEN early ELSE early \cup {s}
    /\ UNCHANGED <<hub, bound, runtime, playerID, queue, reader, peer, tell>>

\* sync.Map.Delete does not look at what it deletes
Delete(s) ==
    /\ closer[s] = "delete"
    /\ hub' = [hub EXCEPT ![playerID[s]] = None]
    /\ closer' = [closer EXCEPT ![s] = "unbind"]
    /\ UNCHANGED <<bound, runtime, playerID, queue, reader, peer, tell, early>>

\* Mutant of Unbind: whoever is bound is unbound
UnbindAny(s) ==
    /\ closer[s] = "unbind"
    /\ bound' = [bound EXCEPT ![playerID[s]] = None]
    /\ closer' = [closer EXCEPT ![s] = "clear"]
    /\ UNCHANGED <<hub, runtime, playerID, queue, reader, peer, tell, early>>

Unbind(s) ==
    /\ closer[s] = "unbind"
    /\ bound' = [bound EXCEPT ![playerID[s]] = IF @ = s THEN None ELSE @]
    /\ closer' = [closer EXCEPT ![s] = "clear"]
    /\ UNCHANGED <<hub, runtime, playerID, queue, reader, peer, tell, early>>

\* clearPlayerTunnelRuntime, and the broadcast begins
Clear(s) ==
    /\ closer[s] = "clear"
    /\ runtime' = runtime \ TunnelsOf(playerID[s])
    /\ tell' = [tell EXCEPT ![<<"close", s>>].todo = UpdatesOf(playerID[s])]
    /\ closer' = [closer EXCEPT ![s] = "tell"]
    /\ UNCHANGED <<hub, bound, playerID, queue, reader, peer, early>>

\* The broadcast is over and the connection is closed
Finish(s) ==
    /\ closer[s] = "tell" /\ tell[<<"close", s>>] = Silent
    /\ closer' = [closer EXCEPT ![s] = "done"]
    /\ UNCHANGED <<hub, bound, runtime, playerID, queue, reader, peer, tell, early>>

-----------------------------------------------------------------------------
\* broadcastPlayerTunnelStates and BroadcastTunnel

\* A tunnel was added, changed or deleted: both ends are told
TunnelChanges(t) ==
    /\ tell[Web] = Silent
    /\ tell' = [tell EXCEPT ![Web].todo = {t} \X Ends[t]]
    /\ UNCHANGED <<hub, bound, runtime, playerID, queue, reader, peer, closer, early>>

\* pushTunnelUpdate: load the session of the next player, push, close on failure
LoadTarget(w) ==
    /\ tell[w].to = None
    /\ \E u \in tell[w].todo :
          tell' = [tell EXCEPT ![w].todo = @ \ {u}, ![w].to = hub[u[2]]]
    /\ UNCHANGED <<hub, bound, runtime, playerID, queue, reader, peer, closer, early>>

PushUpdate(w) ==
    LET target == tell[w].to
    IN  /\ target # None /\ ~tell[w].waits
        /\ \/ /\ Accepts(target) /\ Push(target, "push")
              /\ tell' = [tell EXCEPT ![w].to = None] /\ UNCHANGED closer
           \/ /\ ~Accepts(target) /\ BeginClose(target)
              /\ tell' = [tell EXCEPT ![w].waits = TRUE]
        /\ UNCHANGED <<hub, bound, runtime, playerID, reader, peer, early>>

TargetClosed(w) ==
    /\ tell[w].waits /\ closer[tell[w].to] = "done"
    /\ tell' = [tell EXCEPT ![w].to = None, ![w].waits = FALSE]
    /\ UNCHANGED <<hub, bound, runtime, playerID, queue, reader, peer, closer, early>>

-----------------------------------------------------------------------------

LoginStep(s) == Register(s) \/ Bind(s) \/ CloseOld(s) \/ Announce(s) \/ Ack(s)
RouteStep(s) == Forward(s) \/ PeerClosed(s) \/ Bounce(s)
CloseStep(s) == Lookup(s) \/ Delete(s) \/ Unbind(s) \/ Clear(s) \/ Finish(s)
TellStep(w) == LoadTarget(w) \/ PushUpdate(w) \/ TargetClosed(w)

Client(s) == Answer(s) \/ Login(s) \/ Route(s) \/ Report(s) \/ ReadFails(s)

Next ==
    \/ \E s \in Sessions :
          \/ Client(s) \/ LoginStep(s) \/ RouteStep(s)
          \/ Deliver(s) \/ WriteFails(s) \/ CloseStep(s)
    \/ \E t \in Tunnels : TunnelChanges(t)
    \/ \E w \in Tellers : TellStep(w)

Spec == Init /\ [][Next]_vars

\* Goroutines that can run do.  Nothing is assumed of clients, of their
\* connections or of web requests.
Fairness ==
    /\ \A s \in Sessions : WF_vars(LoginStep(s)) /\ WF_vars(RouteStep(s)) /\ WF_vars(CloseStep(s))
    /\ \A w \in Tellers : WF_vars(TellStep(w))

FairSpec == Spec /\ Fairness

-----------------------------------------------------------------------------

TypeOK ==
    /\ hub \in [Players -> Sessions \cup {None}]
    /\ bound \in [Players -> Sessions \cup {None}]
    /\ runtime \subseteq Tunnels
    /\ playerID \in [Sessions -> Players \cup {None}]
    /\ queue \in [Sessions -> Seq({"answer", "push"})]
    /\ \A s \in Sessions : Len(queue[s]) <= QueueCap
    /\ reader \in [Sessions -> {"read", "register", "bind", "replace", "evict", "tell",
                                "push", "wait", "bounce", "over"}]
    /\ peer \in [Sessions -> Sessions \cup {None}]
    /\ closer \in [Sessions -> {"no", "lookup", "delete", "unbind", "clear", "tell", "done"}]
    /\ tell \in [Tellers -> [todo : SUBSET (Tunnels \X Players), to : Sessions \cup {None}, waits : BOOLEAN]]
    /\ early \subseteq Sessions

(***************************************************************************)
(* A player has one session.  A session that logged in and is not the      *)
(* player's any more has been closed, or the login that took its place is  *)
(* about to close it: no connection is left that acts for a player who is  *)
(* bound to another one (BindClient, Unbind).                              *)
(***************************************************************************)
OneSession ==
    \A s \in Sessions :
        Bound(s) /\ bound[playerID[s]] # s =>
            \/ closer[s] # "no"
            \/ \E r \in Sessions : reader[r] = "replace" /\ peer[r] = s

(***************************************************************************)
(* A session that closes after its login leaves nothing behind: once it    *)
(* tells the peers, neither table refers to it, and none ever will, however*)
(* its Close is interleaved with the logins and closings of other sessions *)
(* of the same player (unregisterPlayer, Unbind).                          *)
(***************************************************************************)
NoGhost ==
    \A s \in Sessions \ early :
        closer[s] \in {"clear", "tell", "done"} =>
            \A p \in Players : hub[p] # s /\ bound[p] # s

\* A session registered after its Close had looked for it
Zombie(s) == s \in early /\ \E p \in Players : hub[p] = s

(***************************************************************************)
(* Closes do not wait for each other: Close calls the Close of sessions it *)
(* cannot push to, which may be closing and unable to push to a third, yet *)
(* each Close returns and so does each login that waits for one -- because *)
(* a session is out of the directory before its Close looks for others.    *)
(* It holds as long as no session registers after its own Close.           *)
(***************************************************************************)
ClosesReturn ==
    [](\A s \in Sessions : ~Zombie(s)) =>
        \A s \in Sessions : closer[s] # "no" ~> closer[s] = "done"

=============================================================================
