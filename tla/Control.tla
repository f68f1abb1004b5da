------------------------------ MODULE Control ------------------------------
(***************************************************************************)
(* How a tunnel's configuration becomes listeners: the server's tunnel     *)
(* manager and hub (manager/tunnel_manager.go, server/session.go), the     *)
(* proxy manager of the server and of every client (proxy/manager.go), the *)
(* clients' connection loop (client/client.go) and the run time record that*)
(* the web page shows (manager/tunnel_runtime.go, web/server.go).          *)
(*                                                                         *)
(* A tunnel runs when it is enabled and both its ends are available, so    *)
(* logins, disconnects and web requests all end in notifications: a push   *)
(* to a client, or a call of the server's own proxy manager.  They are     *)
(* computed and sent outside the managers' locks by whichever goroutine    *)
(* caused them, a "teller" here.                                           *)
(*                                                                         *)
(* The steps inside a login and a Close that concern only the directory of *)
(* sessions, and full write queues, are Hub's; here a login registers and  *)
(* binds in one step.  A client handles one message in one step: its read  *)
(* loop is the only goroutine that uses its manager until the session      *)
(* closes.  Only inlets report a state that anybody reads.                 *)
(***************************************************************************)
EXTENDS Naturals, Sequences, FiniteSets

CONSTANTS
    Server,     \* player 0, and the proxy manager of the server
    Players,
    Conns,      \* connections; the slot of one that is over is used again
    Owner,      \* Owner[c]: the player whose client makes connection c
    Tunnels,
    Confs,      \* the tunnel configurations that are ever stored
    Taken,      \* <<player, address>>: addresses another program listens on
    Requests,   \* web requests that can be under way at once
    None

Hosts == Conns \cup {Server}

Tellers == ({"login", "close"} \X Conns) \cup ({"web"} \X Requests)

\* What is recorded, and reported, of an inlet
States == {"none", "up", "down", "failed"}

ASSUME ControlAssumption ==
    /\ Server \notin Players \cup Conns
    /\ Owner \in [Conns -> Players]
    /\ IsFiniteSet(Tunnels)
    /\ \A k \in Confs : /\ k = [enabled |-> k.enabled, sender |-> k.sender,
                                 receiver |-> k.receiver, source |-> k.source]
                        /\ k.enabled \in BOOLEAN
                        /\ {k.sender, k.receiver} \subseteq Players \cup {Server}
                        /\ [k EXCEPT !.enabled = FALSE] \in Confs
    /\ None \notin Confs \cup Conns \cup [tunnel : Tunnels, state : States]

VARIABLES
    \* server
    conf,       \* TunnelManager.lookup
    fresh,      \* ids not given to a tunnel yet (AUTOINCREMENT)
    record,     \* TunnelRuntimeStore, as far as InletRunning and InletError go
    bound,      \* the player's session, in Hub.sessions and PlayerManager
    reader,     \* where the session's read loop is
    evicted,    \* the session that the login in the reader replaces
    reply,      \* the LoginAck under construction
    held,       \* the report the reader has checked and not stored yet
    closer,     \* where the session's Close is
    tell,       \* progress of the tellers
    mixed,      \* history: two tellers were at work at once
    \* connections and clients
    link,       \* the connection
    down,       \* server to client: the write queue and what is on the wire
    up,         \* client to server
    client,     \* runOne: the client's side of the connection
    \* proxy managers
    mgr,        \* tunnels, inlets and outlets of the Manager of a host
    listening   \* sockets that listen: [host, tunnel, conf]

serverVars == <<conf, fresh, record, bound, reader, evicted, reply, held, closer>>
linkVars == <<link, down, up, client>>
vars == <<serverVars, tell, mixed, linkVars, mgr, listening>>

-----------------------------------------------------------------------------
\* Players and tunnels

\* The player a manager works for (selfPlayerID)
Self(h) == IF h = Server THEN Server ELSE Owner[h]

Ends(k) == {k.sender, k.receiver}

OtherEnd(k, p) == IF k.sender = p THEN k.receiver ELSE k.sender

\* playerAvailable
Available(p) == p = Server \/ bound[p] # None

\* runtimeTunnelPB: the configuration as it is sent
Effective(k) == [k EXCEPT !.enabled = @ /\ Available(k.sender) /\ Available(k.receiver)]

TunnelsOf(p) == {t \in Tunnels : conf[t] # None /\ p \in Ends(conf[t])}

\* validatePortConflictLocked
PortFree(t, k) ==
    \A u \in Tunnels \ {t} :
        conf[u] # None /\ conf[u].receiver = k.receiver => conf[u].source # k.source

\* OutletDescription; InletDescription names every field modelled here
OutletDesc(k) == <<k.sender, k.enabled>>

-----------------------------------------------------------------------------
\* The proxy manager: what its critical sections do to its maps

NewManager == [tunnels |-> [t \in Tunnels |-> None],
               inlets  |-> [t \in Tunnels |-> None],
               outlets |-> [t \in Tunnels |-> None]]

\* shouldRunInlet, shouldRunOutlet
RunsInlet(h, k) == k # None /\ k.enabled /\ k.receiver = Self(h)
RunsOutlet(h, k) == k # None /\ k.enabled /\ k.sender = Self(h)

\* shouldStopInlet, shouldStopOutlet
StopsInlet(h, old, k) == old # None /\ (~RunsInlet(h, k) \/ old # k)
StopsOutlet(h, old, k) ==
    old # None /\ (~RunsOutlet(h, k) \/ OutletDesc(old) # OutletDesc(k))

\* The first critical section of UpdateTunnel: k is None for a deletion
Applied(h, t, k) ==
    [tunnels |-> [mgr[h].tunnels EXCEPT ![t] = k],
     inlets  |-> [mgr[h].inlets EXCEPT ![t] = IF StopsInlet(h, @, k) THEN None ELSE @],
     outlets |-> [mgr[h].outlets EXCEPT ![t] = IF StopsOutlet(h, @, k) THEN None ELSE @]]

\* startOutletIfNeeded.  The outlet keeps k: it routes its messages by it.
WithOutlet(h, m, t, k) ==
    IF /\ RunsOutlet(h, k) /\ m.outlets[t] = None
       /\ RunsOutlet(h, m.tunnels[t]) /\ OutletDesc(m.tunnels[t]) = OutletDesc(k)
    THEN [m EXCEPT !.outlets[t] = k] ELSE m

\* Mutant of MayInlet: whatever the manager wants by now
MayInletBlindly(h, m, t, k) == RunsInlet(h, k) /\ m.inlets[t] = None

\* The condition under which startInletIfNeeded starts, and again installs, an inlet
MayInlet(h, m, t, k) ==
    /\ RunsInlet(h, k) /\ m.inlets[t] = None
    /\ RunsInlet(h, m.tunnels[t]) /\ m.tunnels[t] = k

Listener(h, t, k) == [host |-> h, tunnel |-> t, conf |-> k]

\* A socket can be opened on the player's machine
AddressFree(h, k, open) ==
    /\ <<Self(h), k.source>> \notin Taken
    /\ \A l \in open : Self(l.host) = Self(h) => l.conf.source # k.source

Report(t, s) == [tunnel |-> t, state |-> s]

\* UpdateTunnel from beginning to end, by a goroutine nobody interferes with:
\* the manager afterwards, the sockets, and the reports in their order
Handled(h, t, k) ==
    LET stops   == StopsInlet(h, mgr[h].inlets[t], k)
        open    == IF stops THEN listening \ {Listener(h, t, mgr[h].inlets[t])} ELSE listening
        applied == WithOutlet(h, Applied(h, t, k), t, k)
        tries   == MayInlet(h, applied, t, k)
        starts  == tries /\ AddressFree(h, k, open)
        after   == IF starts THEN [applied EXCEPT !.inlets[t] = k] ELSE applied
        When(b, s) == IF b THEN <<Report(t, s)>> ELSE <<>>
    IN  [mgr     |-> after,
         open    |-> IF starts THEN open \cup {Listener(h, t, k)} ELSE open,
         reports |-> When(stops, "down") \o When(tries /\ ~starts, "failed") \o When(starts, "up")
                       \o When(k # None /\ after.inlets[t] # None, "up")]

-----------------------------------------------------------------------------
\* Tellers

Idle == [jobs |-> <<>>, at |-> "next", sends |-> None, inHand |-> None]

Job(t, k, p, del) == [tunnel |-> t, conf |-> k, to |-> p, del |-> del]

\* TunnelManager.notify
Notify(t, k, del) ==
    IF k.sender = k.receiver THEN <<Job(t, k, k.sender, del)>>
    ELSE <<Job(t, k, k.sender, del), Job(t, k, k.receiver, del)>>

\* Mutant of NotifyUpdate: the players that are no end of the tunnel any more are not told
NotifyUpdateNew(t, old, k) == Notify(t, k, FALSE)

\* What Update tells: the ends the tunnel has lost, then those it has
NotifyUpdate(t, old, k) ==
    LET Lost(was, is) == IF was = is THEN <<>> ELSE <<Job(t, k, was, TRUE)>>
    IN  Lost(old.sender, k.sender) \o Lost(old.receiver, k.receiver) \o Notify(t, k, FALSE)

\* The elements of a finite set, in some order
Listed(S) == CHOOSE s \in [1 .. Cardinality(S) -> S] : \A x \in S : \E i \in DOMAIN s : s[i] = x

\* broadcastPlayerTunnelStates: the other end of every tunnel of the player,
\* with the configurations of this moment
Broadcast(p) ==
    Listed({Job(t, conf[t], OtherEnd(conf[t], p), FALSE) :
              t \in {u \in TunnelsOf(p) : conf[u].sender # conf[u].receiver}})

\* At work: what w tells, or what it has cleared, may depend on others
Active(w) ==
    \/ w[1] = "login" /\ reader[w[2]] = "tell"
    \/ w[1] = "close" /\ closer[w[2]] \in {"clear", "tell"}
    \/ w[1] = "web" /\ tell[w] # Idle

Mixes(w) == mixed' = (mixed \/ \E v \in Tellers \ {w} : Active(v))

Finished(w) == [tell EXCEPT ![w] = [Idle EXCEPT !.jobs = Tail(tell[w].jobs)]]

\* BroadcastTunnel, or one round of broadcastPlayerTunnelStates: the update is
\* made up with the presence of this moment ...
MakeUpdate(w) ==
    /\ tell[w].at = "next" /\ tell[w].jobs # <<>>
    /\ LET j == Head(tell[w].jobs)
           k == Effective(j.conf)
       IN  tell' = IF j.to # Server \/ Server \in Ends(k)   \* syncServerTunnelUpdate
                   THEN [tell EXCEPT ![w].at = IF j.to = Server THEN "apply" ELSE "push",
                                     ![w].sends = k]
                   ELSE Finished(w)
    /\ UNCHANGED <<serverVars, mixed, linkVars, mgr, listening>>

\* ... and sent: pushTunnelUpdate, to the session the player has by now
Push(w) ==
    LET j == Head(tell[w].jobs)
        c == bound[j.to]
        m == [tunnel |-> j.tunnel, conf |-> IF j.del THEN None ELSE tell[w].sends]
    IN  /\ tell[w].at = "push"
        /\ down' = IF c # None /\ closer[c] = "no"
                   THEN [down EXCEPT ![c] = Append(@, m)] ELSE down
        /\ tell' = Finished(w)
        /\ UNCHANGED <<serverVars, mixed, link, up, client, mgr, listening>>

-----------------------------------------------------------------------------
\* UpdateTunnel of the server's own manager, which several tellers may call at
\* once.  A report goes straight to the record, with the step it reports on.

Apply(w) ==
    LET j == Head(tell[w].jobs)
        k == IF j.del THEN None ELSE tell[w].sends
        old == mgr[Server].inlets[j.tunnel]
    IN  /\ tell[w].at = "apply"
        /\ mgr' = [mgr EXCEPT ![Server] = Applied(Server, j.tunnel, k)]
        /\ tell' = [tell EXCEPT ![w].at = "stop",
                                ![w].inHand = IF StopsInlet(Server, old, k) THEN old ELSE None]
        /\ UNCHANGED <<serverVars, mixed, linkVars, listening>>

Stop(w) ==
    LET j == Head(tell[w].jobs)
        stops == tell[w].inHand # None
    IN  /\ tell[w].at = "stop"
        /\ listening' = IF stops THEN listening \ {Listener(Server, j.tunnel, tell[w].inHand)}
                        ELSE listening
        /\ record' = IF stops THEN [record EXCEPT ![j.tunnel] = "down"] ELSE record
        /\ tell' = IF j.del THEN Finished(w)
                   ELSE [tell EXCEPT ![w].at = "start", ![w].inHand = None]
        /\ UNCHANGED <<conf, fresh, bound, reader, evicted, reply, held, closer, mixed, linkVars, mgr>>

\* The outlet is started, and the inlet's socket opened
Start(w) ==
    LET j == Head(tell[w].jobs)
        k == tell[w].sends
        m == WithOutlet(Server, mgr[Server], j.tunnel, k)
    IN  /\ tell[w].at = "start"
        /\ mgr' = [mgr EXCEPT ![Server] = m]
        /\ \/ /\ MayInlet(Server, m, j.tunnel, k) /\ AddressFree(Server, k, listening)
              /\ listening' = listening \cup {Listener(Server, j.tunnel, k)}
              /\ tell' = [tell EXCEPT ![w].at = "install", ![w].inHand = k]
              /\ UNCHANGED record
           \/ /\ MayInlet(Server, m, j.tunnel, k) /\ ~AddressFree(Server, k, listening)
              /\ record' = [record EXCEPT ![j.tunnel] = "failed"]
              /\ tell' = [tell EXCEPT ![w].at = "reaffirm"]
              /\ UNCHANGED listening
           \/ /\ ~MayInlet(Server, m, j.tunnel, k)
              /\ tell' = [tell EXCEPT ![w].at = "reaffirm"]
              /\ UNCHANGED <<record, listening>>
        /\ UNCHANGED <<conf, fresh, bound, reader, evicted, reply, held, closer, mixed, linkVars>>

\* Mutant of Install: an inlet that comes too late is left alone
InstallOrForget(w) ==
    LET j == Head(tell[w].jobs)
        k == tell[w].sends
        ok == MayInlet(Server, mgr[Server], j.tunnel, k)
    IN  /\ tell[w].at = "install"
        /\ mgr' = IF ok THEN [mgr EXCEPT ![Server].inlets[j.tunnel] = k] ELSE mgr
        /\ record' = [record EXCEPT ![j.tunnel] = IF ok THEN "up" ELSE "down"]
        /\ tell' = [tell EXCEPT ![w].at = "reaffirm", ![w].inHand = None]
        /\ UNCHANGED <<conf, fresh, bound, reader, evicted, reply, held, closer, mixed, linkVars, listening>>

\* The inlet is installed, unless the manager has come to want something else
Install(w) ==
    LET j == Head(tell[w].jobs)
        k == tell[w].sends
        ok == MayInlet(Server, mgr[Server], j.tunnel, k)
    IN  /\ tell[w].at = "install"
        /\ mgr' = IF ok THEN [mgr EXCEPT ![Server].inlets[j.tunnel] = k] ELSE mgr
        /\ listening' = IF ok THEN listening ELSE listening \ {Listener(Server, j.tunnel, k)}
        /\ record' = [record EXCEPT ![j.tunnel] = IF ok THEN "up" ELSE "down"]
        /\ tell' = [tell EXCEPT ![w].at = "reaffirm", ![w].inHand = None]
        /\ UNCHANGED <<conf, fresh, bound, reader, evicted, reply, held, closer, mixed, linkVars>>

\* reaffirmRuntime
Reaffirmed(t) ==
    IF mgr[Server].inlets[t] # None THEN [record EXCEPT ![t] = "up"] ELSE record

Reaffirm(w) ==
    /\ tell[w].at = "reaffirm"
    /\ record' = Reaffirmed(Head(tell[w].jobs).tunnel)
    /\ tell' = Finished(w)
    /\ UNCHANGED <<conf, fresh, bound, reader, evicted, reply, held, closer, mixed, linkVars, mgr, listening>>

TellStep(w) ==
    MakeUpdate(w) \/ Push(w) \/ Apply(w) \/ Stop(w) \/ Start(w) \/ Install(w) \/ Reaffirm(w)

-----------------------------------------------------------------------------
\* Web requests: TunnelManager

\* Clearing a record while a report on the tunnel waits to be stored mixes as well
HeldOn(t) == \E c \in Conns : held[c] # None /\ held[c].tunnel = t

Add(r, t, k) ==
    LET w == <<"web", r>>
    IN  /\ tell[w] = Idle
        /\ t \in fresh /\ PortFree(t, k)
        /\ conf' = [conf EXCEPT ![t] = k]
        /\ fresh' = fresh \ {t}
        /\ tell' = [tell EXCEPT ![w].jobs = Notify(t, k, FALSE)]
        /\ Mixes(w)
        /\ UNCHANGED <<record, bound, reader, evicted, reply, held, closer, linkVars, mgr, listening>>

\* A Delete of the tunnel is between store and memory
Erased(t) == \E r \in Requests : tell[<<"web", r>>].at = "erase" /\ Head(tell[<<"web", r>>].jobs).tunnel = t

\* shouldClearRuntimeOnUpdate
Update(r, t, k) ==
    LET w == <<"web", r>>
    IN  /\ tell[w] = Idle
        /\ conf[t] # None /\ PortFree(t, k) /\ ~Erased(t)
        /\ conf' = [conf EXCEPT ![t] = k]
        /\ record' = IF k = conf[t] THEN record ELSE [record EXCEPT ![t] = "none"]
        /\ tell' = [tell EXCEPT ![w].jobs = NotifyUpdate(t, conf[t], k)]
        /\ mixed' = (mixed \/ HeldOn(t) \/ \E v \in Tellers \ {w} : Active(v))
        /\ UNCHANGED <<fresh, bound, reader, evicted, reply, held, closer, linkVars, mgr, listening>>

\* Delete: out of the store and the records ...
Erase(r, t) ==
    LET w == <<"web", r>>
    IN  /\ tell[w] = Idle
        /\ conf[t] # None /\ ~Erased(t)
        /\ record' = [record EXCEPT ![t] = "none"]
        /\ tell' = [tell EXCEPT ![w].at = "erase", ![w].jobs = Notify(t, conf[t], TRUE)]
        /\ Mixes(w)
        /\ UNCHANGED <<conf, fresh, bound, reader, evicted, reply, held, closer, linkVars, mgr, listening>>

\* ... and then out of the manager, with the configuration it has by now
Remove(r) ==
    LET w == <<"web", r>>
        t == Head(tell[w].jobs).tunnel
    IN  /\ tell[w].at = "erase"
        /\ conf' = [conf EXCEPT ![t] = None]
        /\ tell' = [tell EXCEPT ![w] = [Idle EXCEPT !.jobs = Notify(t, conf[t], TRUE)]]
        /\ UNCHANGED <<fresh, record, bound, reader, evicted, reply, held, closer, mixed, linkVars, mgr, listening>>

-----------------------------------------------------------------------------
\* Sessions of the server

CloseOf(c) == closer' = [closer EXCEPT ![c] = IF @ = "no" THEN "unbind" ELSE @]

\* onLogin: the session becomes the player's, and the one it replaces is closed
Bind(c) ==
    LET player == Owner[c]
    IN  /\ reader[c] = "hello"
        /\ bound' = [bound EXCEPT ![player] = c]
        /\ reader' = [reader EXCEPT ![c] = "bound"]
        /\ evicted' = [evicted EXCEPT ![c] = bound[player]]
        /\ IF bound[player] = None THEN UNCHANGED closer ELSE CloseOf(bound[player])
        /\ UNCHANGED <<conf, fresh, record, reply, held, tell, mixed, linkVars, mgr, listening>>

\* The answer is made up, and the other ends are told
Answer(c) ==
    LET w == <<"login", c>>
        player == Owner[c]
    IN  /\ reader[c] = "bound"
        /\ evicted[c] # None => closer[evicted[c]] = "done"
        /\ reply' = [reply EXCEPT ![c] =
              [t \in Tunnels |-> IF t \in TunnelsOf(player) THEN Effective(conf[t]) ELSE None]]
        /\ tell' = [tell EXCEPT ![w].jobs = Broadcast(player)]
        /\ reader' = [reader EXCEPT ![c] = "tell"]
        /\ evicted' = [evicted EXCEPT ![c] = None]
        /\ Mixes(w)
        /\ UNCHANGED <<conf, fresh, record, bound, held, closer, linkVars, mgr, listening>>

Ack(c) ==
    /\ reader[c] = "tell" /\ tell[<<"login", c>>] = Idle
    /\ down' = IF closer[c] = "no" THEN [down EXCEPT ![c] = Append(@, [ack |-> reply[c]])] ELSE down
    /\ reader' = [reader EXCEPT ![c] = "read"]
    /\ reply' = [reply EXCEPT ![c] = None]
    /\ UNCHANGED <<conf, fresh, record, bound, evicted, held, closer, tell, mixed, link, up, client, mgr, listening>>

\* handleTunnelRuntimeReport: a report is checked ...
TakeReport(c) ==
    /\ reader[c] = "read" /\ up[c] # <<>> /\ held[c] = None /\ closer[c] # "done"
    /\ LET r == Head(up[c])
           ok == conf[r.tunnel] # None /\ conf[r.tunnel].receiver = Owner[c]
       IN  /\ held' = [held EXCEPT ![c] = IF ok THEN r ELSE None]
           /\ mixed' = (mixed \/ (ok /\ closer[c] # "no"))
    /\ up' = [up EXCEPT ![c] = Tail(@)]
    /\ UNCHANGED <<conf, fresh, record, bound, reader, evicted, reply, closer, tell, link, down, client, mgr, listening>>

\* ... and stored
StoreReport(c) ==
    /\ held[c] # None
    /\ record' = [record EXCEPT ![held[c].tunnel] = held[c].state]
    /\ held' = [held EXCEPT ![c] = None]
    /\ UNCHANGED <<conf, fresh, bound, reader, evicted, reply, closer, tell, mixed, linkVars, mgr, listening>>

\* The connection is broken, or silent for sessionReadTimeout
ReadFails(c) ==
    /\ reader[c] \in {"hello", "read"} /\ held[c] = None /\ link[c] = "cut"
    /\ IF reader[c] = "hello" THEN closer' = [closer EXCEPT ![c] = "done"] ELSE CloseOf(c)
    /\ reader' = [reader EXCEPT ![c] = "over"]
    /\ UNCHANGED <<conf, fresh, record, bound, evicted, reply, held, tell, mixed, linkVars, mgr, listening>>

\* Close, while the player was logged in
Unbind(c) ==
    /\ closer[c] = "unbind"
    /\ bound' = [bound EXCEPT ![Owner[c]] = IF @ = c THEN None ELSE @]
    /\ closer' = [closer EXCEPT ![c] = "clear"]
    /\ Mixes(<<"close", c>>)
    /\ UNCHANGED <<conf, fresh, record, reader, evicted, reply, held, tell, linkVars, mgr, listening>>

\* The player has a session that was answered
Answered(p) == bound[p] # None /\ reader[bound[p]] = "read"

\* clearPlayerTunnelRuntime, and the broadcast begins
Clear(c) ==
    LET player == Owner[c]
    IN  /\ closer[c] = "clear"
        /\ record' = [t \in Tunnels |-> IF t \in TunnelsOf(player) THEN "none" ELSE record[t]]
        /\ tell' = [tell EXCEPT ![<<"close", c>>].jobs = Broadcast(player)]
        /\ closer' = [closer EXCEPT ![c] = "tell"]
        /\ mixed' = (mixed \/ Answered(player) \/ \E t \in TunnelsOf(player) : HeldOn(t))
        /\ UNCHANGED <<conf, fresh, bound, reader, evicted, reply, held, linkVars, mgr, listening>>

Closed(c) ==
    /\ closer[c] = "tell" /\ tell[<<"close", c>>] = Idle
    /\ closer' = [closer EXCEPT ![c] = "done"]
    /\ link' = [link EXCEPT ![c] = "cut"]
    /\ UNCHANGED <<conf, fresh, record, bound, reader, evicted, reply, held, tell, mixed, down, up, client, mgr, listening>>

SessionStep(c) ==
    \/ Bind(c) \/ Answer(c) \/ Ack(c) \/ TakeReport(c) \/ StoreReport(c) \/ ReadFails(c)
    \/ Unbind(c) \/ Clear(c) \/ Closed(c)

-----------------------------------------------------------------------------
\* Clients: RunContext makes one connection after the other

Clean(c) ==
    /\ client[c] \in {"off", "closed"} /\ reader[c] \in {"off", "over"} /\ closer[c] \in {"no", "done"}
    /\ held[c] = None /\ \A d \in Conns : evicted[d] # c

\* connect, and the LoginReq
Dial(c) ==
    /\ Clean(c)
    /\ \A d \in Conns : Owner[d] = Owner[c] => client[d] \in {"off", "closed"}
    /\ link' = [link EXCEPT ![c] = "up"]
    /\ client' = [client EXCEPT ![c] = "login"]
    /\ reader' = [reader EXCEPT ![c] = "hello"]
    /\ closer' = [closer EXCEPT ![c] = "no"]
    /\ down' = [down EXCEPT ![c] = <<>>] /\ up' = [up EXCEPT ![c] = <<>>]
    /\ UNCHANGED <<conf, fresh, record, bound, evicted, reply, held, tell, mixed, mgr, listening>>

IsAck(m) == "ack" \in DOMAIN m

\* Reports are written to the connection, if it is there
Reported(c, reports) == IF link[c] = "up" THEN up[c] \o reports ELSE up[c]

\* LoginAck: a new manager is given the tunnels (SyncTunnels)
LoggedIn(c) ==
    /\ client[c] = "login" /\ down[c] # <<>> /\ IsAck(Head(down[c]))
    /\ LET list == Head(down[c]).ack
           Wants(t) == RunsInlet(c, list[t])
           Runs(t) == Wants(t) /\ AddressFree(c, list[t], listening)
       IN  /\ mgr' = [mgr EXCEPT ![c] =
                 [tunnels |-> list,
                  inlets  |-> [t \in Tunnels |-> IF Runs(t) THEN list[t] ELSE None],
                  outlets |-> [t \in Tunnels |-> IF RunsOutlet(c, list[t]) THEN list[t] ELSE None]]]
           /\ listening' = listening \cup {Listener(c, t, list[t]) : t \in {u \in Tunnels : Runs(u)}}
           /\ up' = [up EXCEPT ![c] = Reported(c,
                 Listed({Report(t, IF Runs(t) THEN "up" ELSE "failed") : t \in {u \in Tunnels : Wants(u)}}))]
    /\ client' = [client EXCEPT ![c] = "in"]
    /\ down' = [down EXCEPT ![c] = Tail(@)]
    /\ UNCHANGED <<serverVars, tell, mixed, link>>

\* ModifyTunnelNtf
UpdateTunnel(c) ==
    /\ client[c] = "in" /\ down[c] # <<>>
    /\ LET m == Head(down[c])
           done == Handled(c, m.tunnel, m.conf)
       IN  /\ mgr' = [mgr EXCEPT ![c] = done.mgr]
           /\ listening' = done.open
           /\ up' = [up EXCEPT ![c] = Reported(c, done.reports)]
    /\ down' = [down EXCEPT ![c] = Tail(@)]
    /\ UNCHANGED <<serverVars, tell, mixed, link, client>>

\* Mutant of Silenced: the session's inlets are left to themselves
SilencedOnly(c) == listening

\* proxyMgr.Close stops everything the session has started
Silenced(c) == {l \in listening : l.host # c}

Leave(c) ==
    /\ client' = [client EXCEPT ![c] = "closed"]
    /\ mgr' = [mgr EXCEPT ![c] = NewManager]
    /\ listening' = Silenced(c)
    /\ link' = [link EXCEPT ![c] = "cut"]
    /\ UNCHANGED <<serverVars, tell, mixed, down, up>>

\* A push that arrives before the LoginAck: "login failed"
LoginFails(c) == client[c] = "login" /\ down[c] # <<>> /\ ~IsAck(Head(down[c])) /\ Leave(c)

\* The connection is broken; what is still on it is not always read
ConnectionLost(c) == client[c] \in {"login", "in"} /\ link[c] = "cut" /\ Leave(c)

ClientStep(c) == LoggedIn(c) \/ UpdateTunnel(c) \/ LoginFails(c) \/ ConnectionLost(c)

\* A failure of the network, or the client's process ends or pings in vain
Cut(c) ==
    /\ link[c] = "up"
    /\ link' = [link EXCEPT ![c] = "cut"]
    /\ UNCHANGED <<serverVars, tell, mixed, down, up, client, mgr, listening>>

-----------------------------------------------------------------------------
\* The server's process ends and starts again: SetRuntime syncs its manager
\* with the tunnels that have an end here, while no player is online

\* With nobody online only a tunnel from the server to itself runs
AtStart(t, k) == IF k # None /\ Server \in Ends(k)
                 THEN [k EXCEPT !.enabled = @ /\ Ends(k) = {Server}] ELSE None

StartManager(tunnels) ==
    LET want == [t \in Tunnels |-> AtStart(t, tunnels[t])]
        Runs(t) == RunsInlet(Server, want[t]) /\ <<Server, want[t].source>> \notin Taken
    IN  [tunnels |-> want,
         inlets  |-> [t \in Tunnels |-> IF Runs(t) THEN want[t] ELSE None],
         outlets |-> [t \in Tunnels |-> IF RunsOutlet(Server, want[t]) THEN want[t] ELSE None]]

RecordAtStart(tunnels) ==
    [t \in Tunnels |->
        IF ~RunsInlet(Server, AtStart(t, tunnels[t])) THEN "none"
        ELSE IF StartManager(tunnels).inlets[t] = None THEN "failed" ELSE "up"]

NoneFor(S) == [x \in S |-> None]

Sockets(m, h) == {Listener(h, t, m.inlets[t]) : t \in {u \in Tunnels : m.inlets[u] # None}}

Restart ==
    LET stored == [t \in Tunnels |-> IF Erased(t) THEN None ELSE conf[t]]
        started == StartManager(stored)
    IN  /\ conf' = stored
        /\ record' = RecordAtStart(stored)
        /\ bound' = NoneFor(Players)
        /\ reader' = [c \in Conns |-> IF reader[c] = "off" THEN "off" ELSE "over"]
        /\ closer' = [c \in Conns |-> IF reader[c] = "off" THEN "no" ELSE "done"]
        /\ evicted' = NoneFor(Conns) /\ reply' = NoneFor(Conns) /\ held' = NoneFor(Conns)
        /\ tell' = [w \in Tellers |-> Idle]
        /\ mixed' = FALSE
        /\ link' = [c \in Conns |-> IF link[c] = "up" THEN "cut" ELSE link[c]]
        /\ mgr' = [mgr EXCEPT ![Server] = started]
        /\ listening' = {l \in listening : l.host # Server} \cup Sockets(started, Server)
        /\ UNCHANGED <<fresh, down, up, client>>

Init ==
    /\ conf = NoneFor(Tunnels) /\ fresh = Tunnels
    /\ record = RecordAtStart(conf)
    /\ bound = NoneFor(Players)
    /\ reader = [c \in Conns |-> "off"] /\ closer = [c \in Conns |-> "no"]
    /\ evicted = NoneFor(Conns) /\ reply = NoneFor(Conns) /\ held = NoneFor(Conns)
    /\ tell = [w \in Tellers |-> Idle] /\ mixed = FALSE
    /\ link = [c \in Conns |-> "off"] /\ client = [c \in Conns |-> "off"]
    /\ down = [c \in Conns |-> <<>>] /\ up = [c \in Conns |-> <<>>]
    /\ mgr = [h \in Hosts |-> NewManager]
    /\ listening = {}

Web == \E r \in Requests, t \in Tunnels :
           Erase(r, t) \/ \E k \in Confs : Add(r, t, k) \/ Update(r, t, k)

Event == Web \/ Restart \/ \E c \in Conns : Dial(c) \/ Cut(c)

Reaction ==
    \/ \E w \in Tellers : TellStep(w)
    \/ \E r \in Requests : Remove(r)
    \/ \E c \in Conns : SessionStep(c) \/ ClientStep(c)

Next == Event \/ Reaction

Spec == Init /\ [][Next]_vars

-----------------------------------------------------------------------------

Tunnel == Confs \cup {None}

Managers == [tunnels : [Tunnels -> Tunnel], inlets : [Tunnels -> Tunnel], outlets : [Tunnels -> Tunnel]]

Jobs == [tunnel : Tunnels, conf : Confs, to : Players \cup {Server}, del : BOOLEAN]

TypeOK ==
    /\ conf \in [Tunnels -> Tunnel] /\ fresh \subseteq Tunnels
    /\ record \in [Tunnels -> States]
    /\ bound \in [Players -> Conns \cup {None}]
    /\ reader \in [Conns -> {"off", "hello", "bound", "tell", "read", "over"}]
    /\ evicted \in [Conns -> Conns \cup {None}]
    /\ reply \in [Conns -> [Tunnels -> Tunnel] \cup {None}]
    /\ held \in [Conns -> [tunnel : Tunnels, state : States] \cup {None}]
    /\ closer \in [Conns -> {"no", "unbind", "clear", "tell", "done"}]
    /\ tell \in [Tellers -> [jobs : Seq(Jobs), sends : Tunnel, inHand : Tunnel,
                             at : {"next", "push", "apply", "stop", "start", "install", "reaffirm", "erase"}]]
    /\ mixed \in BOOLEAN
    /\ link \in [Conns -> {"off", "up", "cut"}]
    /\ client \in [Conns -> {"off", "login", "in", "closed"}]
    /\ mgr \in [Hosts -> Managers]
    /\ listening \subseteq [host : Hosts, tunnel : Tunnels, conf : Confs]

(***************************************************************************)
(* A manager never runs what it does not want: whatever calls of           *)
(* UpdateTunnel, SyncTunnels and Close are interleaved, an installed inlet *)
(* or outlet fits the configuration the manager has stored last            *)
(* (manager.go:78-95, 154-165, 243-247, 300-306).                          *)
(***************************************************************************)
Fits ==
    \A h \in Hosts, t \in Tunnels :
        LET m == mgr[h]
        IN  /\ m.inlets[t] # None => RunsInlet(h, m.tunnels[t]) /\ m.inlets[t] = m.tunnels[t]
            /\ m.outlets[t] # None => /\ RunsOutlet(h, m.tunnels[t])
                                      /\ OutletDesc(m.outlets[t]) = OutletDesc(m.tunnels[t])

(***************************************************************************)
(* No socket is lost: one that listens belongs to an inlet that is         *)
(* installed, or is in the hands of a goroutine that will install or stop  *)
(* it; otherwise nobody could ever stop it again (manager.go:294-316).     *)
(***************************************************************************)
InHands(l) ==
    \E w \in Tellers :
        /\ tell[w].inHand = l.conf /\ tell[w].at \in {"stop", "install"}
        /\ Head(tell[w].jobs).tunnel = l.tunnel /\ l.host = Server

NoLostSocket ==
    \A l \in listening : mgr[l.host].inlets[l.tunnel] = l.conf \/ InHands(l)

-----------------------------------------------------------------------------
\* A tunnel that has an end on the server keeps one, and one that has none gets
\* none: the server is told of a tunnel's updates while the tunnel has an end
\* there, so it would go on running an end that was moved to a player.
KeepsServer ==
    \A t \in Tunnels : conf[t] # None /\ conf'[t] # None =>
        (Server \in Ends(conf[t]) <=> Server \in Ends(conf'[t]))

\* When nothing is under way

Quiet ==
    /\ \A w \in Tellers : tell[w] = Idle
    /\ \A c \in Conns :
          /\ reader[c] \in {"off", "read", "over"} /\ closer[c] \in {"no", "done"}
          /\ held[c] = None
          /\ link[c] = "up" => client[c] = "in" /\ down[c] = <<>> /\ up[c] = <<>>
          /\ link[c] = "cut" => client[c] = "closed" /\ reader[c] = "over"

\* Who is really there: the server, and the clients that are connected
Present == {Server} \cup {c \in Conns : client[c] = "in"}

ShouldRun(t) == conf[t] # None /\ conf[t].enabled /\ Ends(conf[t]) \subseteq {Self(h) : h \in Present}

CanListen(k) == <<k.receiver, k.source>> \notin Taken

(***************************************************************************)
(* When nothing is under way, and since the server started no two          *)
(* notifications overlapped, every manager runs exactly what the           *)
(* configuration and the presence of both ends' clients ask for, and nobody*)
(* else runs anything: whatever connections broke, logins replaced         *)
(* sessions, pushes were lost or came before a LoginAck, and wherever the  *)
(* server was stopped (README.md:7, tunnels are synchronised dynamically). *)
(***************************************************************************)
Converged ==
    Quiet /\ ~mixed =>
        \A h \in Hosts, t \in Tunnels :
            LET here == h \in Present /\ ShouldRun(t)
            IN  /\ mgr[h].inlets[t] =
                      IF here /\ conf[t].receiver = Self(h) /\ CanListen(conf[t]) THEN conf[t] ELSE None
                /\ mgr[h].outlets[t] # None <=> here /\ conf[t].sender = Self(h)

\* tunnelRuntimeStatus, as the web page shows it
Status(t) ==
    IF ~conf[t].enabled THEN "disabled"
    ELSE IF ~Effective(conf[t]).enabled THEN "waiting"
    ELSE IF record[t] = "failed" THEN "failed"
    ELSE IF record[t] = "up" THEN "running"
    ELSE "unconfirmed"

(***************************************************************************)
(* What the web page says is so: under the same conditions, a tunnel is    *)
(* shown as running exactly when its inlet listens, as failed exactly when *)
(* it should but cannot, and never stays unconfirmed (the comments at      *)
(* manager.go:173 and tunnel_manager.go:194).                              *)
(***************************************************************************)
StatusTruthful ==
    Quiet /\ ~mixed =>
        \A t \in {u \in Tunnels : conf[u] # None} :
            /\ Status(t) # "unconfirmed"
            /\ Status(t) = "running" <=> \E l \in listening : l.tunnel = t
            /\ Status(t) = "failed" => ~CanListen(conf[t])

=============================================================================
