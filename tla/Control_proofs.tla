--------------------------- MODULE Control_proofs ---------------------------
(***************************************************************************)
(* Proofs about Control, for any players, connections, tunnels and         *)
(* configurations, and any number of web requests and logins at once.      *)
(***************************************************************************)
EXTENDS Control, FiniteSetTheorems, SequenceTheorems, TLAPS

Reports == [tunnel : Tunnels, state : States]

\* What the server writes to a client
Pushes == [tunnel : Tunnels, conf : Tunnel] \cup [ack : [Tunnels -> Tunnel]]

Listeners == [host : Hosts, tunnel : Tunnels, conf : Confs]

Told == [jobs : Seq(Jobs), sends : Tunnel, inHand : Tunnel,
         at : {"next", "push", "apply", "stop", "start", "install", "reaffirm", "erase"}]

\* The types in parts: the server's tables, its sessions, the connections, the
\* managers, the tellers
Tables ==
    /\ conf \in [Tunnels -> Tunnel] /\ fresh \subseteq Tunnels
    /\ record \in [Tunnels -> States]
    /\ bound \in [Players -> Conns \cup {None}]
    /\ mixed \in BOOLEAN

Sessions ==
    /\ reader \in [Conns -> {"off", "hello", "bound", "tell", "read", "over"}]
    /\ evicted \in [Conns -> Conns \cup {None}]
    /\ reply \in [Conns -> [Tunnels -> Tunnel] \cup {None}]
    /\ held \in [Conns -> Reports \cup {None}]
    /\ closer \in [Conns -> {"no", "unbind", "clear", "tell", "done"}]

Links ==
    /\ link \in [Conns -> {"off", "up", "cut"}]
    /\ client \in [Conns -> {"off", "login", "in", "closed"}]
    /\ down \in [Conns -> Seq(Pushes)]
    /\ up \in [Conns -> Seq(Reports)]

Hosted == mgr \in [Hosts -> Managers] /\ listening \subseteq Listeners

Telling == tell \in [Tellers -> Told]

\* A teller in the middle of a job has one, and holds what it is about to install.
Working(x) ==
    /\ x.at # "next" => x.jobs # <<>>
    /\ x.at \in {"push", "apply", "stop", "start", "install"} => x.sends \in Confs
    /\ x.at = "install" => x.inHand = x.sends
    /\ x.at \notin {"stop", "install"} => x.inHand = None

Works == \A w \in Tellers : Working(tell[w]) /\ (tell[w].at = "erase" => w[1] = "web")

\* A teller tells only while its session is at it.
Silent ==
    \A c \in Conns : /\ reader[c] # "tell" => tell[<<"login", c>>] = Idle
                     /\ closer[c] # "tell" => tell[<<"close", c>>] = Idle

\* Only a session that has logged in is a player's or is being closed.
Standing ==
    \A c \in Conns :
      /\ reader[c] \in {"off", "hello"} => closer[c] = "no"
      /\ reader[c] = "over" => closer[c] # "no"
      /\ \A p \in Players : bound[p] = c => /\ Owner[c] = p
                                           /\ reader[c] \notin {"off", "hello"}
                                           /\ closer[c] \in {"no", "unbind"}

\* A tunnel that is being deleted is there, and deleted once.
Erasing ==
    \A r, s \in Requests :
      tell[<<"web", r>>].at = "erase" =>
        /\ conf[Head(tell[<<"web", r>>].jobs).tunnel] # None
        /\ tell[<<"web", s>>].at = "erase"
             /\ Head(tell[<<"web", s>>].jobs).tunnel = Head(tell[<<"web", r>>].jobs).tunnel => s = r

Replying == \A c \in Conns : reader[c] = "tell" => reply[c] \in [Tunnels -> Tunnel]

\* A connection carries one LoginAck, and none once the client is logged in.
NoAck(q) == \A i \in 1 .. Len(q) : ~IsAck(q[i])

OneAck(q) == \A i, j \in 1 .. Len(q) : IsAck(q[i]) /\ IsAck(q[j]) => i = j

Acks ==
    \A c \in Conns :
      /\ client[c] = "in" \/ reader[c] \in {"off", "hello", "bound", "tell"} => NoAck(down[c])
      /\ reader[c] \in {"hello", "bound", "tell"} => client[c] # "in"
      /\ OneAck(down[c])

ServerSide == Tables /\ Sessions /\ Telling /\ Works /\ Silent /\ Standing /\ Erasing /\ Replying

Typed == ServerSide /\ Links /\ Acks /\ Hosted

LEMMA TypesHold == Typed => TypeOK
BY DEF Typed, ServerSide, Tables, Sessions, Links, Hosted, Telling, TypeOK, Listeners, Reports, Told

-----------------------------------------------------------------------------
\* Constants and configurations

LEMMA HostFacts ==
    /\ Server \in Hosts /\ Server \notin Conns /\ Server \notin Players
    /\ \A c \in Conns : c \in Hosts /\ Owner[c] \in Players /\ Self(c) = Owner[c] /\ c # None
    /\ \A c \in Conns : <<"login", c>> \in Tellers /\ <<"close", c>> \in Tellers
    /\ \A r \in Requests : <<"web", r>> \in Tellers
    /\ \A k \in Confs : k # None
BY ControlAssumption DEF Hosts, Self, Tellers

LEMMA TellerNames ==
    /\ \A c : c \in Conns => <<"login", c>> \in Tellers
    /\ \A c : c \in Conns => <<"close", c>> \in Tellers
    /\ \A r : r \in Requests => <<"web", r>> \in Tellers
    /\ \A c, d : <<"login", c>> # <<"close", d>>
    /\ \A r, d : <<"web", r>> # <<"login", d>>
    /\ \A r, d : <<"web", r>> # <<"close", d>>
    /\ \A c, d : <<"login", c>> = <<"login", d>> => c = d
    /\ \A c, d : <<"close", c>> = <<"close", d>> => c = d
    /\ \A r, q : <<"web", r>> = <<"web", q>> => r = q
<1>1. \A x, y, z : <<x, y>> = <<x, z>> => y = z
  OBVIOUS
<1>2. \A x, y, a, b : x # a => <<x, y>> # <<a, b>>
  OBVIOUS
<1> QED BY <1>1, <1>2 DEF Tellers

\* What is sent is a configuration again (runtimeTunnelPB).
LEMMA EffectiveTypes ==
    ASSUME NEW k \in Confs
    PROVE  Effective(k) \in Confs /\ k.sender \in Players \cup {Server} /\ k.receiver \in Players \cup {Server}
<1>1. k.enabled \in BOOLEAN /\ [k EXCEPT !.enabled = FALSE] \in Confs
  BY ControlAssumption
<1>2. k = [enabled |-> k.enabled, sender |-> k.sender, receiver |-> k.receiver, source |-> k.source]
  BY ControlAssumption
<1>3. [k EXCEPT !.enabled = k.enabled] = k
  BY <1>2
<1>4. \/ Effective(k) = [k EXCEPT !.enabled = k.enabled]
      \/ Effective(k) = [k EXCEPT !.enabled = FALSE]
  <2>1. CASE Available(k.sender) /\ Available(k.receiver)
    BY <1>1, <2>1 DEF Effective
  <2>2. CASE ~(Available(k.sender) /\ Available(k.receiver))
    BY <1>1, <2>2 DEF Effective
  <2> QED BY <2>1, <2>2
<1> QED BY <1>1, <1>3, <1>4, ControlAssumption

\* An enumeration of a finite set lists its elements.
LEMMA ListedTypes ==
    ASSUME NEW S, IsFiniteSet(S)
    PROVE  Listed(S) \in Seq(S)
<1>1. Cardinality(S) \in Nat
  BY FS_CardinalityType
<1>2. PICK f : f \in Bijection(1 .. Cardinality(S), S)
  BY FS_CardinalityType DEF ExistsBijection
<1>3. f \in [1 .. Cardinality(S) -> S] /\ \A x \in S : \E i \in DOMAIN f : f[i] = x
  BY <1>2 DEF Bijection, Injection, Surjection
<1>4. Listed(S) \in [1 .. Cardinality(S) -> S]
  BY <1>3 DEF Listed
<1> QED BY <1>1, <1>4

LEMMA IdleTypes == Idle \in Told /\ Working(Idle)
BY DEF Idle, Told, Working, Tunnel

-----------------------------------------------------------------------------
\* What tellers are given to tell

LEMMA NotifyTypes ==
    ASSUME NEW t \in Tunnels, NEW k \in Confs, NEW del \in BOOLEAN
    PROVE  Notify(t, k, del) \in Seq(Jobs) /\ Notify(t, k, del) # <<>> /\ Head(Notify(t, k, del)).tunnel = t
<1>1. Job(t, k, k.sender, del) \in Jobs /\ Job(t, k, k.receiver, del) \in Jobs
  BY EffectiveTypes DEF Job, Jobs
<1>2. Job(t, k, k.sender, del).tunnel = t
  BY DEF Job
<1> HIDE DEF Jobs, Job
<1> QED BY <1>1, <1>2 DEF Notify

LEMMA NotifyUpdateTypes ==
    ASSUME NEW t \in Tunnels, NEW k \in Confs, NEW old \in Confs
    PROVE  NotifyUpdate(t, old, k) \in Seq(Jobs)
<1>1. \A p \in Players \cup {Server} : Job(t, k, p, TRUE) \in Jobs
  BY DEF Job, Jobs
<1>2. Notify(t, k, FALSE) \in Seq(Jobs)
  BY NotifyTypes
<1>3. old.sender \in Players \cup {Server} /\ old.receiver \in Players \cup {Server}
  BY EffectiveTypes
<1> DEFINE Lost(was, is) == IF was = is THEN <<>> ELSE <<Job(t, k, was, TRUE)>>
           A == Lost(old.sender, k.sender)
           B == Lost(old.receiver, k.receiver)
<1>4. ASSUME NEW p \in Players \cup {Server} PROVE <<Job(t, k, p, TRUE)>> \in Seq(Jobs)
  <2>1. Job(t, k, p, TRUE) \in Jobs
    BY <1>1
  <2>2. \A S : \A j \in S : <<j>> \in Seq(S)
    OBVIOUS
  <2> QED BY <2>1, <2>2
<1>5. <<>> \in Seq(Jobs)
  OBVIOUS
<1>6. A \in Seq(Jobs) /\ B \in Seq(Jobs)
  BY <1>3, <1>4, <1>5
<1>7. NotifyUpdate(t, old, k) = (A \o B) \o Notify(t, k, FALSE)
  BY DEF NotifyUpdate
<1> HIDE DEF A, B
<1>8. A \o B \in Seq(Jobs)
  BY <1>6, ConcatProperties
<1>9. (A \o B) \o Notify(t, k, FALSE) \in Seq(Jobs)
  BY <1>2, <1>8, ConcatProperties
<1> QED BY <1>7, <1>9

LEMMA BroadcastTypes ==
    ASSUME Tables, NEW p \in Players
    PROVE  Broadcast(p) \in Seq(Jobs)
<1> DEFINE Shared == {u \in TunnelsOf(p) : conf[u].sender # conf[u].receiver}
           AllTold == {Job(t, conf[t], OtherEnd(conf[t], p), FALSE) : t \in Shared}
<1>1. Shared \subseteq Tunnels /\ \A t \in Shared : conf[t] \in Confs
  BY DEF TunnelsOf, Tables, Tunnel
<1>2. \A t \in Shared : Job(t, conf[t], OtherEnd(conf[t], p), FALSE) \in Jobs
  BY <1>1, EffectiveTypes DEF Job, Jobs, OtherEnd
<1>3. IsFiniteSet(Shared)
  BY <1>1, ControlAssumption, FS_Subset
<1>4. IsFiniteSet(AllTold)
  <2> DEFINE f == [t \in Shared |-> Job(t, conf[t], OtherEnd(conf[t], p), FALSE)]
  <2>1. f \in Surjection(Shared, AllTold)
    BY DEF Surjection
  <2> HIDE DEF f, AllTold, Shared
  <2> QED BY <1>3, <2>1, FS_Surjection
<1>5. AllTold \subseteq Jobs
  BY <1>2
<1>6. Broadcast(p) = Listed(AllTold)
  BY DEF Broadcast
<1> HIDE DEF AllTold
<1>7. Listed(AllTold) \in Seq(AllTold)
  BY <1>4, ListedTypes
<1> QED BY <1>5, <1>6, <1>7

\* A job is done with.
LEMMA FinishedTypes ==
    ASSUME Telling, NEW w \in Tellers, tell[w].jobs # <<>>
    PROVE  /\ Finished(w) \in [Tellers -> Told] /\ Working(Finished(w)[w])
           /\ Finished(w)[w].at = "next"
           /\ \A v \in Tellers \ {w} : Finished(w)[v] = tell[v]
<1>1. Tail(tell[w].jobs) \in Seq(Jobs)
  BY DEF Telling, Told
<1>2. [Idle EXCEPT !.jobs = Tail(tell[w].jobs)] \in Told
  BY <1>1 DEF Idle, Told, Tunnel
<1>3. Working([Idle EXCEPT !.jobs = Tail(tell[w].jobs)])
  BY DEF Idle, Working
<1>4. [Idle EXCEPT !.jobs = Tail(tell[w].jobs)].at = "next"
  BY DEF Idle
<1> QED BY <1>2, <1>3, <1>4 DEF Finished, Telling

-----------------------------------------------------------------------------
\* What the critical sections of a manager do to a manager that fits

FitsIn(h, m) ==
    \A t \in Tunnels :
      /\ m.inlets[t] # None => RunsInlet(h, m.tunnels[t]) /\ m.inlets[t] = m.tunnels[t]
      /\ m.outlets[t] # None => /\ RunsOutlet(h, m.tunnels[t])
                                /\ OutletDesc(m.outlets[t]) = OutletDesc(m.tunnels[t])

LEMMA FitsByHost == (Fits <=> \A h \in Hosts : FitsIn(h, mgr[h])) /\ (Fits' <=> \A h \in Hosts : FitsIn(h, mgr'[h]))
BY DEF Fits, FitsIn

LEMMA NewManagerFits == NewManager \in Managers /\ \A h \in Hosts : FitsIn(h, NewManager)
BY DEF NewManager, Managers, Tunnel, FitsIn

LEMMA AppliedFits ==
    ASSUME NEW h \in Hosts, mgr[h] \in Managers, FitsIn(h, mgr[h]), NEW t \in Tunnels, NEW k \in Tunnel
    PROVE  /\ Applied(h, t, k) \in Managers /\ FitsIn(h, Applied(h, t, k))
           /\ Applied(h, t, k).inlets = [mgr[h].inlets EXCEPT
                 ![t] = IF StopsInlet(h, mgr[h].inlets[t], k) THEN None ELSE mgr[h].inlets[t]]
<1>1. mgr[h].inlets \in [Tunnels -> Tunnel] /\ mgr[h].outlets \in [Tunnels -> Tunnel]
        /\ mgr[h].tunnels \in [Tunnels -> Tunnel]
  BY DEF Managers
<1>2. None \in Tunnel
  BY DEF Tunnel
<1>3. Applied(h, t, k) \in Managers
  BY <1>1, <1>2 DEF Applied, Managers
<1>4. FitsIn(h, Applied(h, t, k))
  BY <1>1 DEF Applied, FitsIn, StopsInlet, StopsOutlet
<1> QED BY <1>3, <1>4 DEF Applied

LEMMA WithOutletFits ==
    ASSUME NEW h \in Hosts, NEW m \in Managers, FitsIn(h, m), NEW t \in Tunnels, NEW k \in Tunnel
    PROVE  /\ WithOutlet(h, m, t, k) \in Managers /\ FitsIn(h, WithOutlet(h, m, t, k))
           /\ WithOutlet(h, m, t, k).inlets = m.inlets /\ WithOutlet(h, m, t, k).tunnels = m.tunnels
<1>1. CASE WithOutlet(h, m, t, k) = m
  BY <1>1
<1>2. CASE /\ WithOutlet(h, m, t, k) = [m EXCEPT !.outlets[t] = k]
           /\ RunsOutlet(h, m.tunnels[t]) /\ OutletDesc(m.tunnels[t]) = OutletDesc(k)
  <2>1. [m EXCEPT !.outlets[t] = k] \in Managers
    BY DEF Managers
  <2>2. /\ [m EXCEPT !.outlets[t] = k].inlets = m.inlets /\ [m EXCEPT !.outlets[t] = k].tunnels = m.tunnels
        /\ [m EXCEPT !.outlets[t] = k].outlets = [m.outlets EXCEPT ![t] = k]
    BY DEF Managers
  <2>3. m.outlets \in [Tunnels -> Tunnel]
    BY DEF Managers
  <2> QED BY <1>2, <2>1, <2>2, <2>3 DEF FitsIn
<1> QED BY <1>1, <1>2 DEF WithOutlet

LEMMA InstallFits ==
    ASSUME NEW h \in Hosts, NEW m \in Managers, FitsIn(h, m), NEW t \in Tunnels, NEW k \in Tunnel,
           MayInlet(h, m, t, k)
    PROVE  /\ [m EXCEPT !.inlets[t] = k] \in Managers /\ FitsIn(h, [m EXCEPT !.inlets[t] = k])
           /\ [m EXCEPT !.inlets[t] = k].inlets = [m.inlets EXCEPT ![t] = k]
           /\ m.inlets[t] = None /\ k \in Confs
<1>1. [m EXCEPT !.inlets[t] = k] \in Managers
  BY DEF Managers
<1>2. /\ [m EXCEPT !.inlets[t] = k].outlets = m.outlets /\ [m EXCEPT !.inlets[t] = k].tunnels = m.tunnels
      /\ [m EXCEPT !.inlets[t] = k].inlets = [m.inlets EXCEPT ![t] = k]
  BY DEF Managers
<1>3. m.inlets \in [Tunnels -> Tunnel]
  BY DEF Managers
<1> QED BY <1>1, <1>2, <1>3 DEF FitsIn, MayInlet, RunsInlet, Tunnel

\* A host's sockets belong to its inlets.
Owned(h, m, open) == \A l \in open : l.host = h => m.inlets[l.tunnel] = l.conf

\* UpdateTunnel from beginning to end: the manager fits, reports are reports, and
\* no socket is left behind.
LEMMA HandledFits ==
    ASSUME NEW h \in Hosts, Hosted, FitsIn(h, mgr[h]), NEW t \in Tunnels, NEW k \in Tunnel
    PROVE  /\ Handled(h, t, k).mgr \in Managers /\ FitsIn(h, Handled(h, t, k).mgr)
           /\ Handled(h, t, k).open \subseteq Listeners
           /\ Handled(h, t, k).reports \in Seq(Reports)
           /\ \A l \in Handled(h, t, k).open : l.host # h => l \in listening
           /\ Owned(h, mgr[h], listening) => Owned(h, Handled(h, t, k).mgr, Handled(h, t, k).open)
<1> DEFINE old == mgr[h].inlets[t]
           stops == StopsInlet(h, old, k)
           open == IF stops THEN listening \ {Listener(h, t, old)} ELSE listening
           applied == WithOutlet(h, Applied(h, t, k), t, k)
           tries == MayInlet(h, applied, t, k)
           starts == tries /\ AddressFree(h, k, open)
           after == IF starts THEN [applied EXCEPT !.inlets[t] = k] ELSE applied
           When(b, s) == IF b THEN <<Report(t, s)>> ELSE <<>>
           opened == IF starts THEN open \cup {Listener(h, t, k)} ELSE open
           told == When(stops, "down") \o When(tries /\ ~starts, "failed") \o When(starts, "up")
                     \o When(k # None /\ after.inlets[t] # None, "up")
<1>1. Handled(h, t, k) = [mgr |-> after, open |-> opened, reports |-> told]
  BY DEF Handled
<1>2. mgr[h] \in Managers /\ mgr[h].inlets \in [Tunnels -> Tunnel]
  BY DEF Hosted, Managers
<1>3. /\ applied \in Managers /\ FitsIn(h, applied)
      /\ applied.inlets = [mgr[h].inlets EXCEPT ![t] = IF stops THEN None ELSE old]
  <2>1. /\ Applied(h, t, k) \in Managers /\ FitsIn(h, Applied(h, t, k))
        /\ Applied(h, t, k).inlets = [mgr[h].inlets EXCEPT ![t] = IF stops THEN None ELSE old]
    BY <1>2, AppliedFits
  <2> HIDE DEF stops, old
  <2> QED BY <2>1, WithOutletFits
<1>4. told \in Seq(Reports)
  <2>1. \A S : <<>> \in Seq(S) /\ \A x \in S : <<x>> \in Seq(S)
    OBVIOUS
  <2>2. \A s \in States : Report(t, s) \in Reports
    BY DEF Report, Reports
  <2>3. \A b \in BOOLEAN, s \in States : When(b, s) \in Seq(Reports)
    BY <2>1, <2>2
  <2>4. {"down", "failed", "up"} \subseteq States
    BY DEF States
  <2> HIDE DEF When, stops, tries, starts, after
  <2> DEFINE A == When(stops, "down")
             B == When(tries /\ ~starts, "failed")
             C == When(starts, "up")
             D == When(k # None /\ after.inlets[t] # None, "up")
  <2>5. stops \in BOOLEAN /\ tries \in BOOLEAN /\ starts \in BOOLEAN
    BY DEF stops, tries, starts, StopsInlet, MayInlet
  <2>6. A \in Seq(Reports) /\ B \in Seq(Reports) /\ C \in Seq(Reports) /\ D \in Seq(Reports)
    BY <2>3, <2>4, <2>5
  <2>7. told = ((A \o B) \o C) \o D
    OBVIOUS
  <2> HIDE DEF A, B, C, D, told
  <2>8. A \o B \in Seq(Reports)
    BY <2>6, ConcatProperties
  <2>9. (A \o B) \o C \in Seq(Reports)
    BY <2>6, <2>8, ConcatProperties
  <2>10. ((A \o B) \o C) \o D \in Seq(Reports)
    BY <2>6, <2>9, ConcatProperties
  <2> QED BY <2>7, <2>10
<1> HIDE DEF told, When
<1>5. starts => /\ [applied EXCEPT !.inlets[t] = k] \in Managers /\ FitsIn(h, [applied EXCEPT !.inlets[t] = k])
                /\ [applied EXCEPT !.inlets[t] = k].inlets = [applied.inlets EXCEPT ![t] = k]
                /\ applied.inlets[t] = None /\ k \in Confs
  <2> HIDE DEF applied
  <2> QED BY <1>3, InstallFits
<1>6. after \in Managers /\ FitsIn(h, after)
  BY <1>3, <1>5
<1>7. after.inlets = IF starts THEN [applied.inlets EXCEPT ![t] = k] ELSE applied.inlets
  BY <1>5
<1>8. Listener(h, t, k).host = h /\ Listener(h, t, k).tunnel = t /\ Listener(h, t, k).conf = k
        /\ Listener(h, t, old).host = h /\ (k \in Confs => Listener(h, t, k) \in Listeners)
  BY DEF Listener, Listeners
<1> HIDE DEF after, starts, applied, stops
<1>9. opened \subseteq Listeners /\ \A l \in opened : l.host # h => l \in listening
  BY <1>5, <1>8 DEF Hosted
<1>10. ASSUME Owned(h, mgr[h], listening), NEW l \in opened, l.host = h
       PROVE  after.inlets[l.tunnel] = l.conf
  <2>1. CASE starts /\ l = Listener(h, t, k)
    BY <1>2, <1>3, <1>7, <1>8, <2>1
  <2>2. CASE l \in open
    <3>1. l \in listening /\ mgr[h].inlets[l.tunnel] = l.conf /\ l \in Listeners
      BY <1>10, <2>2 DEF Owned, Hosted
    <3>2. l.tunnel \in Tunnels /\ l.conf # None /\ l = [host |-> l.host, tunnel |-> l.tunnel, conf |-> l.conf]
      BY <3>1, HostFacts DEF Listeners
    <3>3. stops => l.tunnel # t
      BY <1>10, <2>2, <3>1, <3>2 DEF Listener
    <3>4. applied.inlets[l.tunnel] = l.conf
      BY <1>2, <1>3, <3>1, <3>2, <3>3
    <3>5. starts => l.tunnel # t
      BY <1>5, <3>2, <3>4
    <3> QED BY <1>2, <1>3, <1>7, <3>2, <3>4, <3>5
  <2> QED BY <1>10, <2>1, <2>2
<1> HIDE DEF open, opened
<1> QED BY <1>1, <1>4, <1>6, <1>9, <1>10 DEF Owned

\* SyncTunnels of a new manager
Synced(c, list) ==
    [tunnels |-> list,
     inlets  |-> [t \in Tunnels |-> IF RunsInlet(c, list[t]) /\ AddressFree(c, list[t], listening)
                                      THEN list[t] ELSE None],
     outlets |-> [t \in Tunnels |-> IF RunsOutlet(c, list[t]) THEN list[t] ELSE None]]

LEMMA SyncedFits ==
    ASSUME NEW c \in Hosts, NEW list \in [Tunnels -> Tunnel]
    PROVE  Synced(c, list) \in Managers /\ FitsIn(c, Synced(c, list))
<1>1. Synced(c, list) \in Managers
  BY DEF Synced, Managers, Tunnel
<1>2. FitsIn(c, Synced(c, list))
  BY DEF Synced, FitsIn
<1> QED BY <1>1, <1>2

\* SetRuntime when the server starts (server/app.go)
LEMMA StartFits ==
    ASSUME NEW tunnels \in [Tunnels -> Tunnel]
    PROVE  /\ StartManager(tunnels) \in Managers /\ FitsIn(Server, StartManager(tunnels))
           /\ RecordAtStart(tunnels) \in [Tunnels -> States]
           /\ Sockets(StartManager(tunnels), Server) \subseteq Listeners
           /\ \A l \in Sockets(StartManager(tunnels), Server) :
                 l.host = Server /\ StartManager(tunnels).inlets[l.tunnel] = l.conf
<1>1. ASSUME NEW t \in Tunnels PROVE AtStart(t, tunnels[t]) \in Tunnel
  <2>1. CASE tunnels[t] = None \/ Server \notin Ends(tunnels[t])
    BY <2>1 DEF AtStart, Tunnel
  <2>2. CASE tunnels[t] \in Confs /\ Server \in Ends(tunnels[t])
    <3> DEFINE k == tunnels[t]
    <3>1. k = [enabled |-> k.enabled, sender |-> k.sender, receiver |-> k.receiver, source |-> k.source]
            /\ k.enabled \in BOOLEAN /\ [k EXCEPT !.enabled = FALSE] \in Confs
      BY <2>2, ControlAssumption
    <3>2. [k EXCEPT !.enabled = k.enabled] = k
      BY <3>1
    <3>3. AtStart(t, k) = [k EXCEPT !.enabled = k.enabled] \/ AtStart(t, k) = [k EXCEPT !.enabled = FALSE]
      <4>1. CASE Ends(k) = {Server}
        BY <2>2, <3>1, <4>1, HostFacts DEF AtStart
      <4>2. CASE Ends(k) # {Server}
        BY <2>2, <3>1, <4>2, HostFacts DEF AtStart
      <4> QED BY <4>1, <4>2
    <3> QED BY <2>2, <3>1, <3>2, <3>3 DEF Tunnel
  <2> QED BY <2>1, <2>2 DEF Tunnel
<1> DEFINE want == [t \in Tunnels |-> AtStart(t, tunnels[t])]
           in == [t \in Tunnels |-> IF RunsInlet(Server, want[t]) /\ <<Server, want[t].source>> \notin Taken
                                       THEN want[t] ELSE None]
           out == [t \in Tunnels |-> IF RunsOutlet(Server, want[t]) THEN want[t] ELSE None]
<1>2. want \in [Tunnels -> Tunnel]
  BY <1>1
<1>3. StartManager(tunnels) = [tunnels |-> want, inlets |-> in, outlets |-> out]
  BY DEF StartManager
<1> HIDE DEF want
<1>4. in \in [Tunnels -> Tunnel] /\ out \in [Tunnels -> Tunnel]
  BY <1>2 DEF Tunnel
<1>5. StartManager(tunnels) \in Managers
  BY <1>2, <1>3, <1>4 DEF Managers
<1>6. FitsIn(Server, StartManager(tunnels))
  BY <1>3 DEF FitsIn
<1>7. RecordAtStart(tunnels) \in [Tunnels -> States]
  BY DEF RecordAtStart, States
<1>8. \A l \in Sockets(StartManager(tunnels), Server) :
         l \in Listeners /\ l.host = Server /\ StartManager(tunnels).inlets[l.tunnel] = l.conf
  BY <1>5, HostFacts DEF Sockets, Listener, Listeners, Managers, Tunnel
<1> QED BY <1>5, <1>6, <1>7, <1>8

-----------------------------------------------------------------------------
\* The steps, and what a teller at work has before it

LEMMA StepCases ==
    ASSUME [Next]_vars
    PROVE  \/ \E w \in Tellers : TellStep(w)
           \/ \E r \in Requests : Remove(r)
           \/ \E r \in Requests, t \in Tunnels : Erase(r, t)
           \/ \E r \in Requests, t \in Tunnels, k \in Confs : Add(r, t, k) \/ Update(r, t, k)
           \/ \E c \in Conns : SessionStep(c)
           \/ \E c \in Conns : ClientStep(c)
           \/ \E c \in Conns : Dial(c) \/ Cut(c)
           \/ Restart
           \/ UNCHANGED vars
BY DEF Next, Event, Web, Reaction

LEMMA HeadJob ==
    ASSUME Telling, NEW w \in Tellers, tell[w].jobs # <<>>
    PROVE  /\ Head(tell[w].jobs) \in Jobs /\ Head(tell[w].jobs).tunnel \in Tunnels
           /\ Head(tell[w].jobs).conf \in Confs /\ Head(tell[w].jobs).del \in BOOLEAN
<1>1. tell[w].jobs \in Seq(Jobs)
  BY DEF Telling, Told
<1>2. Head(tell[w].jobs) \in Jobs
  BY <1>1
<1> QED BY <1>2 DEF Jobs

\* Whoever is at work has a job.
LEMMA WorkHasJob ==
    ASSUME Telling, Works, NEW w \in Tellers, tell[w].at # "next"
    PROVE  /\ tell[w].jobs # <<>> /\ Head(tell[w].jobs) \in Jobs /\ Head(tell[w].jobs).tunnel \in Tunnels
           /\ Head(tell[w].jobs).conf \in Confs
           /\ tell[w].sends \in Tunnel /\ tell[w].inHand \in Tunnel
<1>1. tell[w].jobs # <<>>
  BY DEF Works, Working
<1> QED BY <1>1, HeadJob DEF Telling, Told

LEMMA TablesStep == Typed /\ [Next]_vars => Tables'
<1> SUFFICES ASSUME Typed, [Next]_vars PROVE Tables'
  OBVIOUS
<1>0. Tables /\ Sessions /\ Hosted /\ Telling /\ Works /\ Erasing
  BY DEF Typed, ServerSide
<1> USE <1>0 DEF serverVars, linkVars
<1>1. ASSUME NEW w \in Tellers, TellStep(w) PROVE Tables'
  <2>1. CASE MakeUpdate(w) \/ Push(w) \/ Apply(w)
    BY <2>1 DEF MakeUpdate, Push, Apply, Tables
  <2>2. CASE Stop(w)
    <3>1. Head(tell[w].jobs).tunnel \in Tunnels
      BY <2>2, WorkHasJob DEF Stop
    <3> QED BY <2>2, <3>1 DEF Stop, Tables, States
  <2>3. CASE Start(w)
    <3>1. Head(tell[w].jobs).tunnel \in Tunnels
      BY <2>3, WorkHasJob DEF Start
    <3> QED BY <2>3, <3>1 DEF Start, Tables, States
  <2>4. CASE Install(w)
    <3>1. Head(tell[w].jobs).tunnel \in Tunnels
      BY <2>4, WorkHasJob DEF Install
    <3> QED BY <2>4, <3>1 DEF Install, Tables, States
  <2>5. CASE Reaffirm(w)
    <3>1. Head(tell[w].jobs).tunnel \in Tunnels
      BY <2>5, WorkHasJob DEF Reaffirm
    <3> QED BY <2>5, <3>1 DEF Reaffirm, Tables, States, Reaffirmed
  <2> QED BY <1>1, <2>1, <2>2, <2>3, <2>4, <2>5 DEF TellStep
<1>2. ASSUME NEW r \in Requests, Remove(r) PROVE Tables'
  BY <1>2 DEF Remove, Tables, Tunnel
<1>3. ASSUME NEW r \in Requests, NEW t \in Tunnels, Erase(r, t) PROVE Tables'
  BY <1>3 DEF Erase, Mixes, Tables, States
<1>4. ASSUME NEW r \in Requests, NEW t \in Tunnels, NEW k \in Confs, Add(r, t, k) \/ Update(r, t, k)
      PROVE  Tables'
  BY <1>4 DEF Add, Update, Mixes, Tables, Tunnel, States
<1>5. ASSUME NEW c \in Conns, SessionStep(c) PROVE Tables'
  <2>1. CASE Bind(c)
    BY <2>1 DEF Bind, Tables
  <2>2. CASE Answer(c)
    BY <2>2 DEF Answer, Mixes, Tables
  <2>3. CASE Ack(c) \/ TakeReport(c) \/ ReadFails(c) \/ Closed(c)
    BY <2>3 DEF Ack, TakeReport, ReadFails, Closed, Tables
  <2>4. CASE StoreReport(c)
    <3>1. held[c] \in Reports
      BY <2>4 DEF StoreReport, Sessions
    <3> QED BY <2>4, <3>1 DEF StoreReport, Tables, Reports
  <2>5. CASE Unbind(c)
    BY <2>5 DEF Unbind, Mixes, Tables
  <2>6. CASE Clear(c)
    BY <2>6 DEF Clear, Tables, States
  <2> QED BY <1>5, <2>1, <2>2, <2>3, <2>4, <2>5, <2>6 DEF SessionStep
<1>6. ASSUME NEW c \in Conns, ClientStep(c) \/ Dial(c) \/ Cut(c) PROVE Tables'
  BY <1>6 DEF ClientStep, LoggedIn, UpdateTunnel, LoginFails, ConnectionLost, Leave, Dial, Cut, Tables
<1>7. CASE Restart
  <2> DEFINE stored == [t \in Tunnels |-> IF Erased(t) THEN None ELSE conf[t]]
  <2>1. stored \in [Tunnels -> Tunnel]
    BY DEF Tables, Tunnel
  <2>2. /\ conf' = stored /\ record' = RecordAtStart(stored) /\ bound' = NoneFor(Players)
        /\ mixed' = FALSE /\ UNCHANGED fresh
    BY <1>7 DEF Restart
  <2> HIDE DEF stored
  <2>3. record' \in [Tunnels -> States]
    BY <2>1, <2>2, StartFits
  <2> QED BY <2>1, <2>2, <2>3 DEF Tables, NoneFor
<1>8. CASE UNCHANGED vars
  BY <1>8 DEF vars, Tables
<1> QED BY <1>1, <1>2, <1>3, <1>4, <1>5, <1>6, <1>7, <1>8, StepCases

LEMMA SessionsStep == Typed /\ [Next]_vars => Sessions' /\ Replying'
<1> SUFFICES ASSUME Typed, [Next]_vars PROVE Sessions' /\ Replying'
  OBVIOUS
<1>0. Tables /\ Sessions /\ Links /\ Replying
  BY DEF Typed, ServerSide
<1> USE <1>0 DEF serverVars, linkVars
<1>1. ASSUME NEW w \in Tellers, TellStep(w) PROVE Sessions' /\ Replying'
  BY <1>1 DEF TellStep, MakeUpdate, Push, Apply, Stop, Start, Install, Reaffirm, Sessions, Replying
<1>2. ASSUME NEW r \in Requests,
             Remove(r) \/ \E t \in Tunnels, k \in Confs : Add(r, t, k) \/ Update(r, t, k)
      PROVE  Sessions' /\ Replying'
  BY <1>2 DEF Remove, Add, Update, Sessions, Replying
<1>3. ASSUME NEW r \in Requests, NEW t \in Tunnels, Erase(r, t) PROVE Sessions' /\ Replying'
  BY <1>3 DEF Erase, Sessions, Replying
<1>4. ASSUME NEW c \in Conns, SessionStep(c) PROVE Sessions' /\ Replying'
  <2>1. CASE Bind(c)
    <3>1. Owner[c] \in Players
      BY HostFacts
    <3>2. bound[Owner[c]] \in Conns \cup {None}
      BY <3>1 DEF Tables
    <3>3. closer' \in [Conns -> {"no", "unbind", "clear", "tell", "done"}]
      BY <2>1 DEF Bind, CloseOf, Sessions
    <3> QED BY <2>1, <3>2, <3>3 DEF Bind, Sessions, Replying
  <2>2. CASE Answer(c)
    <3>1. \A t \in TunnelsOf(Owner[c]) : conf[t] \in Confs
      BY DEF TunnelsOf, Tables, Tunnel
    <3>2. [t \in Tunnels |-> IF t \in TunnelsOf(Owner[c]) THEN Effective(conf[t]) ELSE None] \in [Tunnels -> Tunnel]
      BY <3>1, EffectiveTypes DEF Tunnel
    <3>3. reply' = [reply EXCEPT ![c] =
                     [t \in Tunnels |-> IF t \in TunnelsOf(Owner[c]) THEN Effective(conf[t]) ELSE None]]
      BY <2>2 DEF Answer
    <3>4. /\ reader' = [reader EXCEPT ![c] = "tell"] /\ evicted' = [evicted EXCEPT ![c] = None]
          /\ UNCHANGED <<held, closer>>
      BY <2>2 DEF Answer
    <3> QED BY <3>2, <3>3, <3>4 DEF Sessions, Replying
  <2>3. CASE Ack(c)
    BY <2>3 DEF Ack, Sessions, Replying
  <2>4. CASE TakeReport(c)
    <3>1. Head(up[c]) \in Reports
      BY <2>4 DEF TakeReport, Links
    <3> QED BY <2>4, <3>1 DEF TakeReport, Sessions, Replying
  <2>5. CASE StoreReport(c)
    BY <2>5 DEF StoreReport, Sessions, Replying
  <2>6. CASE ReadFails(c)
    BY <2>6 DEF ReadFails, CloseOf, Sessions, Replying
  <2>7. CASE Unbind(c) \/ Clear(c) \/ Closed(c)
    BY <2>7 DEF Unbind, Clear, Closed, Sessions, Replying
  <2> QED BY <1>4, <2>1, <2>2, <2>3, <2>4, <2>5, <2>6, <2>7 DEF SessionStep
<1>5. ASSUME NEW c \in Conns, ClientStep(c) \/ Cut(c) PROVE Sessions' /\ Replying'
  BY <1>5 DEF ClientStep, LoggedIn, UpdateTunnel, LoginFails, ConnectionLost, Leave, Cut, Sessions, Replying
<1>6. ASSUME NEW c \in Conns, Dial(c) PROVE Sessions' /\ Replying'
  BY <1>6 DEF Dial, Sessions, Replying
<1>7. CASE Restart
  <2>1. /\ reader' = [c \in Conns |-> IF reader[c] = "off" THEN "off" ELSE "over"]
        /\ closer' = [c \in Conns |-> IF reader[c] = "off" THEN "no" ELSE "done"]
        /\ evicted' = NoneFor(Conns) /\ reply' = NoneFor(Conns) /\ held' = NoneFor(Conns)
    BY <1>7 DEF Restart
  <2> QED BY <2>1 DEF Sessions, Replying, NoneFor
<1>8. CASE UNCHANGED vars
  BY <1>8 DEF vars, Sessions, Replying
<1> QED BY <1>1, <1>2, <1>3, <1>4, <1>5, <1>6, <1>7, <1>8, StepCases

\* Messages to a client are a LoginAck or a tunnel's update, and a client's are reports.
\* What a queue of pushes with few answers in it does when it grows or shrinks
LEMMA AckQueues ==
    ASSUME NEW q \in Seq(Pushes)
    PROVE  /\ \A m \in Pushes : /\ NoAck(q) => OneAck(Append(q, m))
                                /\ ~IsAck(m) /\ NoAck(q) => NoAck(Append(q, m))
                                /\ ~IsAck(m) /\ OneAck(q) => OneAck(Append(q, m))
           /\ q # <<>> => /\ Head(q) \in Pushes
                          /\ NoAck(q) => NoAck(Tail(q)) /\ ~IsAck(Head(q))
                          /\ OneAck(q) => OneAck(Tail(q))
                          /\ OneAck(q) /\ IsAck(Head(q)) => NoAck(Tail(q))
<1>1. ASSUME NEW m \in Pushes
      PROVE  /\ NoAck(q) => OneAck(Append(q, m))
             /\ ~IsAck(m) /\ NoAck(q) => NoAck(Append(q, m))
             /\ ~IsAck(m) /\ OneAck(q) => OneAck(Append(q, m))
  <2>1. Len(Append(q, m)) = Len(q) + 1 /\ Len(q) \in Nat
    OBVIOUS
  <2>2. \A i \in 1 .. Len(q) + 1 : Append(q, m)[i] = IF i = Len(q) + 1 THEN m ELSE q[i]
    OBVIOUS
  <2> QED BY <2>1, <2>2 DEF NoAck, OneAck
<1>2. ASSUME q # <<>>
      PROVE  /\ Head(q) \in Pushes
             /\ NoAck(q) => NoAck(Tail(q)) /\ ~IsAck(Head(q))
             /\ OneAck(q) => OneAck(Tail(q))
             /\ OneAck(q) /\ IsAck(Head(q)) => NoAck(Tail(q))
  <2>1. Len(q) \in Nat \ {0} /\ Head(q) = q[1] /\ Head(q) \in Pushes /\ Len(Tail(q)) = Len(q) - 1
    BY <1>2
  <2>2. \A i \in 1 .. Len(q) - 1 : Tail(q)[i] = q[i + 1]
    BY <1>2
  <2>3. NoAck(q) => NoAck(Tail(q)) /\ ~IsAck(Head(q))
    BY <2>1, <2>2 DEF NoAck
  <2>4. OneAck(q) => OneAck(Tail(q))
    BY <2>1, <2>2 DEF OneAck
  <2>5. OneAck(q) /\ IsAck(Head(q)) => NoAck(Tail(q))
    BY <2>1, <2>2 DEF OneAck, NoAck
  <2> QED BY <2>1, <2>3, <2>4, <2>5
<1> QED BY <1>1, <1>2

LEMMA LinksStep == Typed /\ Fits /\ [Next]_vars => Links'
<1> SUFFICES ASSUME Typed, Fits, [Next]_vars PROVE Links'
  OBVIOUS
<1>0. Sessions /\ Links /\ Acks /\ Hosted /\ Telling /\ Works /\ Replying
  BY DEF Typed, ServerSide
<1> USE <1>0 DEF serverVars, linkVars
<1>1. \A S, q, m : q \in Seq(S) /\ m \in S => Append(q, m) \in Seq(S)
  OBVIOUS
<1>2. \A S, q : q \in Seq(S) /\ q # <<>> => Head(q) \in S /\ Tail(q) \in Seq(S)
  OBVIOUS
<1>3. ASSUME NEW w \in Tellers, TellStep(w) PROVE Links'
  <2>1. CASE Push(w)
    <3> DEFINE j == Head(tell[w].jobs)
               c == bound[j.to]
               m == [tunnel |-> j.tunnel, conf |-> IF j.del THEN None ELSE tell[w].sends]
    <3>1. j.tunnel \in Tunnels /\ tell[w].sends \in Tunnel
      BY <2>1, WorkHasJob DEF Push
    <3>2. m \in Pushes
      BY <3>1 DEF Pushes, Tunnel
    <3>3. down' = [down EXCEPT ![c] = Append(@, m)] \/ UNCHANGED down
      BY <2>1 DEF Push
    <3> HIDE DEF m, c
    <3>4. down' \in [Conns -> Seq(Pushes)]
      <4>1. down \in [Conns -> Seq(Pushes)]
        BY DEF Links
      <4>2. \A d \in Conns : Append(down[d], m) \in Seq(Pushes)
        BY <1>1, <3>2, <4>1
      <4> QED BY <3>3, <4>1, <4>2
    <3> QED BY <2>1, <3>4 DEF Push, Links
  <2>2. CASE MakeUpdate(w) \/ Apply(w) \/ Stop(w) \/ Start(w) \/ Install(w) \/ Reaffirm(w)
    BY <2>2 DEF MakeUpdate, Apply, Stop, Start, Install, Reaffirm, Links
  <2> QED BY <1>3, <2>1, <2>2 DEF TellStep
<1>4. ASSUME NEW r \in Requests,
             Remove(r) \/ \E t \in Tunnels : Erase(r, t) \/ \E k \in Confs : Add(r, t, k) \/ Update(r, t, k)
      PROVE  Links'
  BY <1>4 DEF Remove, Erase, Add, Update, Links
<1>5. ASSUME NEW c \in Conns, SessionStep(c) PROVE Links'
  <2>1. CASE Ack(c)
    <3>1. reply[c] \in [Tunnels -> Tunnel]
      BY <2>1 DEF Ack, Replying
    <3>2. [ack |-> reply[c]] \in Pushes
      BY <3>1 DEF Pushes
    <3>3. down' = [down EXCEPT ![c] = Append(@, [ack |-> reply[c]])] \/ UNCHANGED down
      BY <2>1 DEF Ack
    <3>4. down' \in [Conns -> Seq(Pushes)]
      <4>1. Append(down[c], [ack |-> reply[c]]) \in Seq(Pushes)
        BY <1>1, <3>2 DEF Links
      <4> QED BY <3>3, <4>1 DEF Links
    <3> QED BY <2>1, <3>4 DEF Ack, Links
  <2>2. CASE TakeReport(c)
    <3>1. up' \in [Conns -> Seq(Reports)]
      BY <1>2, <2>2 DEF TakeReport, Links
    <3> QED BY <2>2, <3>1 DEF TakeReport, Links
  <2>3. CASE Closed(c)
    BY <2>3 DEF Closed, Links
  <2>4. CASE Bind(c) \/ Answer(c) \/ StoreReport(c) \/ ReadFails(c) \/ Unbind(c) \/ Clear(c)
    BY <2>4 DEF Bind, Answer, StoreReport, ReadFails, Unbind, Clear, Links
  <2> QED BY <1>5, <2>1, <2>2, <2>3, <2>4 DEF SessionStep
<1>6. ASSUME NEW c \in Conns, LoggedIn(c) PROVE Links'
  <2> DEFINE list == Head(down[c]).ack
             said == {Report(t, IF RunsInlet(c, list[t]) /\ AddressFree(c, list[t], listening)
                                 THEN "up" ELSE "failed") : t \in {u \in Tunnels : RunsInlet(c, list[u])}}
  <2>1. up' = [up EXCEPT ![c] = Reported(c, Listed(said))]
    BY <1>6 DEF LoggedIn
  <2>2. IsFiniteSet(said)
    <3> DEFINE S == {u \in Tunnels : RunsInlet(c, list[u])}
               f == [t \in S |-> Report(t, IF RunsInlet(c, list[t]) /\ AddressFree(c, list[t], listening)
                                            THEN "up" ELSE "failed")]
    <3>1. f \in Surjection(S, said)
      BY DEF Surjection
    <3>2. IsFiniteSet(S)
      BY ControlAssumption, FS_Subset
    <3> HIDE DEF f, S, said
    <3> QED BY <3>1, <3>2, FS_Surjection
  <2>3. said \subseteq Reports
    BY DEF Report, Reports, States
  <2> HIDE DEF said
  <2>4. Listed(said) \in Seq(Reports)
    <3>1. Listed(said) \in Seq(said)
      BY <2>2, ListedTypes
    <3> QED BY <2>3, <3>1
  <2>5. Reported(c, Listed(said)) \in Seq(Reports)
    <3>1. up[c] \in Seq(Reports)
      BY DEF Links
    <3> QED BY <2>4, <3>1, ConcatProperties DEF Reported
  <2>6. up' \in [Conns -> Seq(Reports)]
    BY <2>1, <2>5 DEF Links
  <2>7. down' \in [Conns -> Seq(Pushes)]
    BY <1>2, <1>6 DEF LoggedIn, Links
  <2> QED BY <1>6, <2>6, <2>7 DEF LoggedIn, Links
<1>7. ASSUME NEW c \in Conns, UpdateTunnel(c) PROVE Links'
  <2> DEFINE m == Head(down[c])
  <2>1. m \in [tunnel : Tunnels, conf : Tunnel]
    <3>1. m \in Pushes
      BY <1>2, <1>7 DEF UpdateTunnel, Links
    <3>2. ~IsAck(m)
      BY <1>7, AckQueues DEF UpdateTunnel, Links, Acks
    <3> QED BY <3>1, <3>2 DEF Pushes, IsAck
  <2>2. Handled(c, m.tunnel, m.conf).reports \in Seq(Reports)
    BY <2>1, HostFacts, HandledFits, FitsByHost
  <2>3. Reported(c, Handled(c, m.tunnel, m.conf).reports) \in Seq(Reports)
    <3>1. up[c] \in Seq(Reports)
      BY DEF Links
    <3> QED BY <2>2, <3>1, ConcatProperties DEF Reported
  <2>4. up' = [up EXCEPT ![c] = Reported(c, Handled(c, m.tunnel, m.conf).reports)]
    BY <1>7 DEF UpdateTunnel
  <2>5. up' \in [Conns -> Seq(Reports)]
    BY <2>3, <2>4 DEF Links
  <2>6. down' \in [Conns -> Seq(Pushes)]
    BY <1>2, <1>7 DEF UpdateTunnel, Links
  <2> QED BY <1>7, <2>5, <2>6 DEF UpdateTunnel, Links
<1>8. ASSUME NEW c \in Conns, LoginFails(c) \/ ConnectionLost(c) \/ Cut(c) PROVE Links'
  BY <1>8 DEF LoginFails, ConnectionLost, Leave, Cut, Links
<1>9. ASSUME NEW c \in Conns, Dial(c) PROVE Links'
  <2>1. \A S : <<>> \in Seq(S)
    OBVIOUS
  <2> QED BY <1>9, <2>1 DEF Dial, Links
<1>10. CASE Restart
  BY <1>10 DEF Restart, Links
<1>11. CASE UNCHANGED vars
  BY <1>11 DEF vars, Links
<1> QED BY <1>3, <1>4, <1>5, <1>6, <1>7, <1>8, <1>9, <1>10, <1>11, StepCases DEF ClientStep

LEMMA AcksStep == Typed /\ [Next]_vars => Acks'
<1> SUFFICES ASSUME Typed, [Next]_vars PROVE Acks'
  OBVIOUS
<1>0. Sessions /\ Links /\ Acks /\ Telling /\ Works
  BY DEF Typed, ServerSide
<1> USE <1>0 DEF serverVars, linkVars
<1>1. \A c \in Conns : down[c] \in Seq(Pushes)
  BY DEF Links
<1>2. ASSUME NEW w \in Tellers, TellStep(w) PROVE Acks'
  <2>1. CASE Push(w)
    <3> DEFINE j == Head(tell[w].jobs)
               d == bound[j.to]
               m == [tunnel |-> j.tunnel, conf |-> IF j.del THEN None ELSE tell[w].sends]
    <3>1. m \in Pushes /\ ~IsAck(m)
      <4>1. j.tunnel \in Tunnels /\ tell[w].sends \in Tunnel
        BY <2>1, WorkHasJob DEF Push
      <4> QED BY <4>1 DEF Pushes, Tunnel, IsAck
    <3>2. down' = [down EXCEPT ![d] = Append(@, m)] \/ UNCHANGED down
      BY <2>1 DEF Push
    <3> HIDE DEF m, d
    <3>3. \A c \in Conns : down'[c] = down[c] \/ down'[c] = Append(down[c], m)
      BY <3>2 DEF Links
    <3>4. \A c \in Conns : (NoAck(down[c]) => NoAck(down'[c])) /\ (OneAck(down[c]) => OneAck(down'[c]))
      BY <1>1, <3>1, <3>3, AckQueues
    <3>5. UNCHANGED <<client, reader>>
      BY <2>1 DEF Push
    <3> QED BY <3>4, <3>5 DEF Acks
  <2>2. CASE MakeUpdate(w) \/ Apply(w) \/ Stop(w) \/ Start(w) \/ Install(w) \/ Reaffirm(w)
    BY <2>2 DEF MakeUpdate, Apply, Stop, Start, Install, Reaffirm, Acks
  <2> QED BY <1>2, <2>1, <2>2 DEF TellStep
<1>3. ASSUME NEW r \in Requests,
             Remove(r) \/ \E t \in Tunnels : Erase(r, t) \/ \E k \in Confs : Add(r, t, k) \/ Update(r, t, k)
      PROVE  Acks'
  BY <1>3 DEF Remove, Erase, Add, Update, Acks
<1>4. ASSUME NEW c \in Conns, SessionStep(c) PROVE Acks'
  <2>1. CASE Ack(c)
    <3>1. /\ reader[c] = "tell" /\ reader' = [reader EXCEPT ![c] = "read"] /\ UNCHANGED client
          /\ down' = [down EXCEPT ![c] = Append(@, [ack |-> reply[c]])] \/ UNCHANGED down
      BY <2>1 DEF Ack
    <3>2. NoAck(down[c]) /\ client[c] # "in"
      BY <3>1 DEF Acks
    <3>3. OneAck(Append(down[c], [ack |-> reply[c]]))
      <4>1. [ack |-> reply[c]] \in Pushes
        BY <3>1 DEF Pushes, ServerSide, Typed, Replying
      <4> QED BY <1>1, <3>2, <4>1, AckQueues
    <3>4. OneAck(down'[c]) /\ \A b \in Conns \ {c} : down'[b] = down[b]
      BY <3>1, <3>3 DEF Links, Acks
    <3> QED BY <3>1, <3>2, <3>4 DEF Acks, Sessions
  <2>2. CASE Bind(c) \/ Answer(c) \/ ReadFails(c)
    <3>1. UNCHANGED <<client, down>>
          /\ \/ reader[c] = "hello" /\ reader' = [reader EXCEPT ![c] = "bound"]
             \/ reader[c] = "bound" /\ reader' = [reader EXCEPT ![c] = "tell"]
             \/ reader' = [reader EXCEPT ![c] = "over"]
      BY <2>2 DEF Bind, Answer, ReadFails
    <3> QED BY <3>1 DEF Acks, Sessions
  <2>3. CASE TakeReport(c) \/ StoreReport(c) \/ Unbind(c) \/ Clear(c) \/ Closed(c)
    BY <2>3 DEF TakeReport, StoreReport, Unbind, Clear, Closed, Acks
  <2> QED BY <1>4, <2>1, <2>2, <2>3 DEF SessionStep
<1>5. ASSUME NEW c \in Conns, LoggedIn(c) PROVE Acks'
  <2>1. /\ down[c] # <<>> /\ IsAck(Head(down[c])) /\ down' = [down EXCEPT ![c] = Tail(@)]
        /\ client' = [client EXCEPT ![c] = "in"] /\ UNCHANGED reader
    BY <1>5 DEF LoggedIn
  <2>2. NoAck(Tail(down[c])) /\ OneAck(Tail(down[c])) /\ ~NoAck(down[c])
    BY <1>1, <2>1, AckQueues DEF Acks
  <2>3. reader[c] \notin {"off", "hello", "bound", "tell"}
    BY <2>2 DEF Acks
  <2> QED BY <2>1, <2>2, <2>3 DEF Acks, Links
<1>6. ASSUME NEW c \in Conns, UpdateTunnel(c) PROVE Acks'
  <2>1. down[c] # <<>> /\ down' = [down EXCEPT ![c] = Tail(@)] /\ UNCHANGED <<client, reader>>
    BY <1>6 DEF UpdateTunnel
  <2>2. (NoAck(down[c]) => NoAck(Tail(down[c]))) /\ (OneAck(down[c]) => OneAck(Tail(down[c])))
    BY <1>1, <2>1, AckQueues
  <2> QED BY <2>1, <2>2 DEF Acks, Links
<1>7. ASSUME NEW c \in Conns, LoginFails(c) \/ ConnectionLost(c) \/ Cut(c) PROVE Acks'
  BY <1>7 DEF LoginFails, ConnectionLost, Leave, Cut, Acks, Links
<1>8. ASSUME NEW c \in Conns, Dial(c) PROVE Acks'
  <2>1. NoAck(<<>>) /\ OneAck(<<>>)
    BY DEF NoAck, OneAck
  <2> QED BY <1>8, <2>1 DEF Dial, Acks, Links, Sessions
<1>9. CASE Restart
  <2>1. /\ reader' = [c \in Conns |-> IF reader[c] = "off" THEN "off" ELSE "over"]
        /\ UNCHANGED <<client, down>>
    BY <1>9 DEF Restart
  <2> QED BY <2>1 DEF Acks
<1>10. CASE UNCHANGED vars
  BY <1>10 DEF vars, Acks
<1> QED BY <1>2, <1>3, <1>4, <1>5, <1>6, <1>7, <1>8, <1>9, <1>10, StepCases DEF ClientStep

LEMMA TellingStep == Typed /\ [Next]_vars => Telling' /\ Works'
<1> SUFFICES ASSUME Typed, [Next]_vars PROVE Telling' /\ Works'
  OBVIOUS
<1>0. Tables /\ Sessions /\ Hosted /\ Telling /\ Works /\ Silent /\ Erasing
  BY DEF Typed, ServerSide
<1> USE <1>0 DEF serverVars, linkVars
<1>1. ASSUME NEW w \in Tellers, NEW x \in Told, Working(x), x.at = "erase" => w[1] = "web",
             tell' = [tell EXCEPT ![w] = x]
      PROVE  Telling' /\ Works'
  BY <1>1 DEF Telling, Works
<1>2. ASSUME NEW w \in Tellers, tell[w].jobs # <<>>, tell' = Finished(w)
      PROVE  Telling' /\ Works'
  BY <1>2, FinishedTypes DEF Telling, Works
<1>3. ASSUME NEW w \in Tellers, NEW q \in Seq(Jobs), tell[w] = Idle, tell' = [tell EXCEPT ![w].jobs = q]
      PROVE  Telling' /\ Works'
  <2>1. [Idle EXCEPT !.jobs = q] \in Told /\ Working([Idle EXCEPT !.jobs = q])
          /\ [Idle EXCEPT !.jobs = q].at = "next"
    BY DEF Idle, Told, Working, Tunnel
  <2>2. tell' = [tell EXCEPT ![w] = [Idle EXCEPT !.jobs = q]]
    BY <1>3
  <2> QED BY <1>1, <2>1, <2>2
<1>4. ASSUME NEW w \in Tellers, TellStep(w) PROVE Telling' /\ Works'
  <2>0. tell[w] \in Told /\ Working(tell[w])
    BY DEF Telling, Works
  <2>1. CASE MakeUpdate(w)
    <3> DEFINE j == Head(tell[w].jobs)
               k == Effective(j.conf)
               x == [tell[w] EXCEPT !.at = IF j.to = Server THEN "apply" ELSE "push", !.sends = k]
    <3>1. /\ tell[w].at = "next" /\ tell[w].jobs # <<>>
          /\ tell' = [tell EXCEPT ![w] = x] \/ tell' = Finished(w)
      BY <2>1 DEF MakeUpdate
    <3>2. k \in Confs
      BY <3>1, HeadJob, EffectiveTypes
    <3>3. x \in Told /\ Working(x) /\ x.at # "erase"
      BY <2>0, <3>1, <3>2 DEF Told, Working, Tunnel
    <3> HIDE DEF x
    <3> QED BY <1>1, <1>2, <3>1, <3>3
  <2>2. CASE Push(w) \/ Reaffirm(w)
    BY <1>2, <2>2, WorkHasJob DEF Push, Reaffirm
  <2>3. CASE Apply(w)
    <3> DEFINE j == Head(tell[w].jobs)
               old == mgr[Server].inlets[j.tunnel]
               k == IF j.del THEN None ELSE tell[w].sends
               hand == IF StopsInlet(Server, old, k) THEN old ELSE None
               x == [tell[w] EXCEPT !.at = "stop", !.inHand = hand]
    <3>1. tell[w].at = "apply" /\ tell' = [tell EXCEPT ![w] = x]
      BY <2>3 DEF Apply
    <3>2. hand \in Tunnel
      BY <3>1, WorkHasJob, HostFacts DEF Hosted, Managers, Tunnel
    <3> HIDE DEF hand
    <3>3. x \in Told /\ Working(x) /\ x.at # "erase"
      BY <2>0, <3>1, <3>2 DEF Told, Working
    <3> HIDE DEF x
    <3> QED BY <1>1, <3>1, <3>3
  <2>4. CASE Stop(w)
    <3> DEFINE x == [tell[w] EXCEPT !.at = "start", !.inHand = None]
    <3>1. tell[w].at = "stop" /\ (tell' = [tell EXCEPT ![w] = x] \/ tell' = Finished(w))
      BY <2>4 DEF Stop
    <3>2. x \in Told /\ Working(x) /\ x.at # "erase"
      BY <2>0, <3>1 DEF Told, Working, Tunnel
    <3> HIDE DEF x
    <3> QED BY <1>1, <1>2, <3>1, <3>2, WorkHasJob
  <2>5. CASE Start(w)
    <3> DEFINE x == [tell[w] EXCEPT !.at = "install", !.inHand = tell[w].sends]
               y == [tell[w] EXCEPT !.at = "reaffirm"]
    <3>1. tell[w].at = "start" /\ (tell' = [tell EXCEPT ![w] = x] \/ tell' = [tell EXCEPT ![w] = y])
      BY <2>5 DEF Start
    <3>2. x \in Told /\ Working(x) /\ x.at # "erase"
      BY <2>0, <3>1 DEF Told, Working
    <3>3. y \in Told /\ Working(y) /\ y.at # "erase"
      BY <2>0, <3>1 DEF Told, Working
    <3> HIDE DEF x, y
    <3> QED BY <1>1, <3>1, <3>2, <3>3
  <2>6. CASE Install(w)
    <3> DEFINE x == [tell[w] EXCEPT !.at = "reaffirm", !.inHand = None]
    <3>1. tell[w].at = "install" /\ tell' = [tell EXCEPT ![w] = x]
      BY <2>6 DEF Install
    <3>2. x \in Told /\ Working(x) /\ x.at # "erase"
      BY <2>0, <3>1 DEF Told, Working, Tunnel
    <3> HIDE DEF x
    <3> QED BY <1>1, <3>1, <3>2
  <2> QED BY <1>4, <2>1, <2>2, <2>3, <2>4, <2>5, <2>6 DEF TellStep
<1>5. ASSUME NEW r \in Requests, Remove(r) PROVE Telling' /\ Works'
  <2> DEFINE t == Head(tell[<<"web", r>>].jobs).tunnel
             q == Notify(t, conf[t], TRUE)
             x == [Idle EXCEPT !.jobs = q]
  <2>1. tell[<<"web", r>>].at = "erase" /\ tell' = [tell EXCEPT ![<<"web", r>>] = x]
    BY <1>5 DEF Remove
  <2>2. t \in Tunnels /\ conf[t] \in Confs
    BY <2>1, HostFacts, WorkHasJob DEF Erasing, Tables, Tunnel
  <2>3. q \in Seq(Jobs)
    BY <2>2, NotifyTypes
  <2> HIDE DEF q
  <2>4. x \in Told /\ Working(x) /\ x.at = "next"
    BY <2>3 DEF Idle, Told, Working, Tunnel
  <2> HIDE DEF x
  <2> QED BY <1>1, <2>1, <2>4, HostFacts
<1>6. ASSUME NEW r \in Requests, NEW t \in Tunnels, Erase(r, t) PROVE Telling' /\ Works'
  <2> DEFINE q == Notify(t, conf[t], TRUE)
             x == [Idle EXCEPT !.at = "erase", !.jobs = q]
  <2>1. conf[t] \in Confs /\ tell[<<"web", r>>] = Idle
        /\ tell' = [tell EXCEPT ![<<"web", r>>].at = "erase", ![<<"web", r>>].jobs = q]
    BY <1>6 DEF Erase, Tables, Tunnel
  <2>2. q \in Seq(Jobs) /\ q # <<>>
    BY <2>1, NotifyTypes
  <2> HIDE DEF q
  <2>3. x \in Told /\ Working(x)
    BY <2>2 DEF Idle, Told, Working, Tunnel
  <2>4. tell' = [tell EXCEPT ![<<"web", r>>] = x]
    BY <2>1, HostFacts DEF Telling
  <2> HIDE DEF x
  <2> QED BY <1>1, <2>3, <2>4, HostFacts
<1>7. ASSUME NEW r \in Requests, NEW t \in Tunnels, NEW k \in Confs, Add(r, t, k) \/ Update(r, t, k)
      PROVE  Telling' /\ Works'
  <2>1. CASE Add(r, t, k)
    <3>1. Notify(t, k, FALSE) \in Seq(Jobs)
      BY NotifyTypes
    <3> QED BY <1>3, <2>1, <3>1, HostFacts DEF Add
  <2>2. CASE Update(r, t, k)
    <3>1. conf[t] \in Confs
      BY <2>2 DEF Update, Tables, Tunnel
    <3>2. NotifyUpdate(t, conf[t], k) \in Seq(Jobs)
      BY <3>1, NotifyUpdateTypes
    <3> QED BY <1>3, <2>2, <3>2, HostFacts DEF Update
  <2> QED BY <1>7, <2>1, <2>2
<1>8. ASSUME NEW c \in Conns, SessionStep(c) PROVE Telling' /\ Works'
  <2>0. Broadcast(Owner[c]) \in Seq(Jobs)
    BY HostFacts, BroadcastTypes
  <2>1. CASE Answer(c)
    <3>1. tell[<<"login", c>>] = Idle
      BY <2>1 DEF Answer, Silent
    <3>2. tell' = [tell EXCEPT ![<<"login", c>>].jobs = Broadcast(Owner[c])]
      BY <2>1 DEF Answer
    <3> QED BY <1>3, <2>0, <3>1, <3>2, HostFacts
  <2>2. CASE Clear(c)
    <3>1. tell[<<"close", c>>] = Idle
      BY <2>2 DEF Clear, Silent
    <3>2. tell' = [tell EXCEPT ![<<"close", c>>].jobs = Broadcast(Owner[c])]
      BY <2>2 DEF Clear
    <3> QED BY <1>3, <2>0, <3>1, <3>2, HostFacts
  <2>3. CASE Bind(c) \/ Ack(c) \/ TakeReport(c) \/ StoreReport(c) \/ ReadFails(c) \/ Unbind(c) \/ Closed(c)
    BY <2>3 DEF Bind, Ack, TakeReport, StoreReport, ReadFails, Unbind, Closed, Telling, Works
  <2> QED BY <1>8, <2>1, <2>2, <2>3 DEF SessionStep
<1>9. ASSUME NEW c \in Conns, ClientStep(c) \/ Dial(c) \/ Cut(c) PROVE Telling' /\ Works'
  BY <1>9 DEF ClientStep, LoggedIn, UpdateTunnel, LoginFails, ConnectionLost, Leave, Dial, Cut, Telling, Works
<1>10. CASE Restart
  <2>1. tell' = [w \in Tellers |-> Idle]
    BY <1>10 DEF Restart
  <2>2. Idle.at = "next"
    BY DEF Idle
  <2> QED BY <2>1, <2>2, IdleTypes DEF Telling, Works
<1>11. CASE UNCHANGED vars
  BY <1>11 DEF vars, Telling, Works
<1> QED BY <1>4, <1>5, <1>6, <1>7, <1>8, <1>9, <1>10, <1>11, StepCases

\* A teller that makes a step has something to do and is not deleting; it changes
\* nothing of the others.
LEMMA AtWork ==
    ASSUME Typed, NEW w \in Tellers, TellStep(w)
    PROVE  /\ tell[w] # Idle /\ tell[w].at # "erase"
           /\ \A v \in Tellers \ {w} : tell'[v] = tell[v]
           /\ UNCHANGED <<conf, bound, reader, closer, client>>
           /\ tell'[w].at # "erase"
<1>0. Telling /\ Works
  BY DEF Typed, ServerSide
<1>1. tell[w].at # "next" \/ tell[w].jobs # <<>>
  BY DEF TellStep, MakeUpdate, Push, Apply, Stop, Start, Install, Reaffirm
<1>2. tell[w] # Idle /\ tell[w].at # "erase"
  <2>1. tell[w] # Idle
    BY <1>1 DEF Idle
  <2>2. tell[w].at # "erase"
    BY DEF TellStep, MakeUpdate, Push, Apply, Stop, Start, Install, Reaffirm
  <2> QED BY <2>1, <2>2
<1>3. \A v \in Tellers \ {w} : Finished(w)[v] = tell[v]
  BY <1>0 DEF Finished, Telling
<1>4. Finished(w)[w].at = "next"
  BY <1>0 DEF Finished, Telling, Idle
<1>5. ASSUME NEW v \in Tellers \ {w} PROVE tell'[v] = tell[v]
  <2>1. CASE MakeUpdate(w) \/ Push(w) \/ Reaffirm(w)
    BY <1>0, <1>3, <2>1 DEF MakeUpdate, Push, Reaffirm, Telling
  <2>2. CASE Apply(w) \/ Stop(w) \/ Install(w)
    BY <1>0, <1>3, <2>2 DEF Apply, Stop, Install, Telling
  <2>3. CASE Start(w)
    BY <1>0, <1>3, <2>3 DEF Start, Telling
  <2> QED BY <2>1, <2>2, <2>3 DEF TellStep
<1>6. UNCHANGED <<conf, bound, reader, closer, client>>
  BY DEF TellStep, MakeUpdate, Push, Apply, Stop, Start, Install, Reaffirm, serverVars, linkVars
<1>7. tell[w] \in Told
  BY <1>0 DEF Telling
<1>8. tell'[w].at # "erase"
  <2>1. CASE MakeUpdate(w)
    BY <1>0, <1>4, <1>7, <2>1 DEF MakeUpdate, Telling, Told
  <2>2. CASE Push(w) \/ Reaffirm(w)
    BY <1>4, <2>2 DEF Push, Reaffirm
  <2>3. CASE Apply(w)
    BY <1>0, <1>7, <2>3 DEF Apply, Telling, Told
  <2>4. CASE Stop(w)
    BY <1>0, <1>4, <1>7, <2>4 DEF Stop, Telling, Told
  <2>5. CASE Start(w)
    BY <1>0, <1>7, <2>5 DEF Start, Telling, Told
  <2>6. CASE Install(w)
    BY <1>0, <1>7, <2>6 DEF Install, Telling, Told
  <2> QED BY <2>1, <2>2, <2>3, <2>4, <2>5, <2>6 DEF TellStep
<1> QED BY <1>2, <1>5, <1>6, <1>8

LEMMA StandingStep == Typed /\ [Next]_vars => Standing'
<1> SUFFICES ASSUME Typed, [Next]_vars PROVE Standing'
  OBVIOUS
<1>0. Tables /\ Sessions /\ Standing /\ None \notin Conns
  BY ControlAssumption DEF Typed, ServerSide
<1> USE <1>0 DEF serverVars, linkVars
<1>1. ASSUME NEW w \in Tellers, TellStep(w) PROVE Standing'
  BY <1>1, AtWork DEF Standing
<1>2. ASSUME NEW r \in Requests,
             Remove(r) \/ \E t \in Tunnels : Erase(r, t) \/ \E k \in Confs : Add(r, t, k) \/ Update(r, t, k)
      PROVE  Standing'
  BY <1>2 DEF Remove, Erase, Add, Update, Standing
<1>3. ASSUME NEW c \in Conns, SessionStep(c) PROVE Standing'
  <2>0. Owner[c] \in Players
    BY HostFacts
  <2>1. CASE Bind(c)
    <3> DEFINE d == bound[Owner[c]]
    <3>1. reader[c] = "hello" /\ bound' = [bound EXCEPT ![Owner[c]] = c] /\ reader' = [reader EXCEPT ![c] = "bound"]
          /\ (d = None => UNCHANGED closer)
          /\ (d # None => closer' = [closer EXCEPT ![d] = IF @ = "no" THEN "unbind" ELSE @])
      BY <2>1 DEF Bind, CloseOf
    <3>2. d \in Conns \cup {None} /\ d # c
      BY <2>0, <3>1 DEF Tables, Standing
    <3>3. \A b \in Conns : b # d => closer'[b] = closer[b]
      BY <3>1 DEF Sessions
    <3>4. d # None => reader[d] \notin {"off", "hello"} /\ closer'[d] # "no"
      BY <2>0, <3>1, <3>2 DEF Standing, Sessions
    <3>5. \A p \in Players : bound'[p] = IF p = Owner[c] THEN c ELSE bound[p]
      BY <3>1 DEF Tables
    <3>6. \A b \in Conns : reader'[b] = IF b = c THEN "bound" ELSE reader[b]
      BY <3>1 DEF Sessions
    <3>7. \A p \in Players \ {Owner[c]} : bound[p] = d => d = None
      BY <2>0, <3>2 DEF Standing
    <3> HIDE DEF d
    <3> QED BY <2>0, <3>1, <3>2, <3>3, <3>4, <3>5, <3>6, <3>7 DEF Standing
  <2>2. CASE ReadFails(c)
    BY <2>2 DEF ReadFails, CloseOf, Standing, Sessions
  <2>3. CASE Unbind(c)
    BY <2>0, <2>3 DEF Unbind, Standing, Sessions, Tables
  <2>4. CASE Answer(c) \/ Ack(c) \/ TakeReport(c) \/ StoreReport(c)
    BY <2>4 DEF Answer, Ack, TakeReport, StoreReport, Standing, Sessions
  <2>5. CASE Clear(c) \/ Closed(c)
    BY <2>5 DEF Clear, Closed, Standing, Sessions
  <2> QED BY <1>3, <2>1, <2>2, <2>3, <2>4, <2>5 DEF SessionStep
<1>4. ASSUME NEW c \in Conns, ClientStep(c) \/ Cut(c) PROVE Standing'
  BY <1>4 DEF ClientStep, LoggedIn, UpdateTunnel, LoginFails, ConnectionLost, Leave, Cut, Standing
<1>5. ASSUME NEW c \in Conns, Dial(c) PROVE Standing'
  <2>1. \A p \in Players : bound[p] # c
    BY <1>5 DEF Dial, Clean, Standing
  <2>2. reader' = [reader EXCEPT ![c] = "hello"] /\ closer' = [closer EXCEPT ![c] = "no"] /\ UNCHANGED bound
    BY <1>5 DEF Dial
  <2> QED BY <2>1, <2>2 DEF Standing, Sessions
<1>6. CASE Restart
  <2>1. /\ reader' = [c \in Conns |-> IF reader[c] = "off" THEN "off" ELSE "over"]
        /\ closer' = [c \in Conns |-> IF reader[c] = "off" THEN "no" ELSE "done"]
        /\ bound' = NoneFor(Players)
    BY <1>6 DEF Restart
  <2> QED BY <2>1 DEF Standing, NoneFor
<1>7. CASE UNCHANGED vars
  BY <1>7 DEF vars, Standing
<1> QED BY <1>1, <1>2, <1>3, <1>4, <1>5, <1>6, <1>7, StepCases

LEMMA SilentStep == Typed /\ [Next]_vars => Silent'
<1> SUFFICES ASSUME Typed, [Next]_vars PROVE Silent'
  OBVIOUS
<1>0. Sessions /\ Telling /\ Silent /\ Standing
  BY DEF Typed, ServerSide
<1> USE <1>0 DEF serverVars, linkVars
<1>2. ASSUME NEW w \in Tellers, TellStep(w) PROVE Silent'
  BY TellerNames, <1>2, AtWork DEF Silent
<1>3. ASSUME NEW r \in Requests,
             \A v \in Tellers \ {<<"web", r>>} : tell'[v] = tell[v], UNCHANGED <<reader, closer>>
      PROVE  Silent'
  BY TellerNames, <1>3 DEF Silent
<1>4. ASSUME NEW r \in Requests,
             Remove(r) \/ \E t \in Tunnels : Erase(r, t) \/ \E k \in Confs : Add(r, t, k) \/ Update(r, t, k)
      PROVE  Silent'
  <2>1. \A v \in Tellers \ {<<"web", r>>} : tell'[v] = tell[v]
    BY <1>4 DEF Remove, Erase, Add, Update, Telling
  <2>2. UNCHANGED <<reader, closer>>
    BY <1>4 DEF Remove, Erase, Add, Update
  <2> QED BY <1>3, <2>1, <2>2
<1>5. ASSUME NEW c \in Conns, SessionStep(c) PROVE Silent'
  <2>1. CASE Answer(c)
    <3>1. /\ \A v \in Tellers \ {<<"login", c>>} : tell'[v] = tell[v]
          /\ reader' = [reader EXCEPT ![c] = "tell"] /\ UNCHANGED closer
      BY <2>1 DEF Answer, Telling
    <3> QED BY TellerNames, <3>1 DEF Silent, Sessions
  <2>2. CASE Clear(c)
    <3>1. /\ \A v \in Tellers \ {<<"close", c>>} : tell'[v] = tell[v]
          /\ closer' = [closer EXCEPT ![c] = "tell"] /\ UNCHANGED reader
      BY <2>2 DEF Clear, Telling
    <3> QED BY TellerNames, <3>1 DEF Silent, Sessions
  <2>3. CASE Bind(c) \/ ReadFails(c)
    <3>1. \A d \in Conns : /\ reader'[d] # "tell" => reader[d] # "tell"
                           /\ closer'[d] # "tell" => closer[d] # "tell"
      BY <2>3 DEF Bind, ReadFails, CloseOf, Standing, Sessions
    <3> QED BY <2>3, <3>1 DEF Bind, ReadFails, Silent
  <2>4. CASE Ack(c) \/ Closed(c)
    BY TellerNames, <2>4 DEF Ack, Closed, Silent, Sessions
  <2>5. CASE TakeReport(c) \/ StoreReport(c) \/ Unbind(c)
    BY <2>5 DEF TakeReport, StoreReport, Unbind, Silent, Sessions
  <2> QED BY <1>5, <2>1, <2>2, <2>3, <2>4, <2>5 DEF SessionStep
<1>6. ASSUME NEW c \in Conns, ClientStep(c) \/ Cut(c) PROVE Silent'
  BY <1>6 DEF ClientStep, LoggedIn, UpdateTunnel, LoginFails, ConnectionLost, Leave, Cut, Silent
<1>7. ASSUME NEW c \in Conns, Dial(c) PROVE Silent'
  BY <1>7 DEF Dial, Clean, Silent, Sessions
<1>8. CASE Restart
  <2>1. tell' = [w \in Tellers |-> Idle]
    BY <1>8 DEF Restart
  <2> QED BY TellerNames, <2>1 DEF Silent
<1>9. CASE UNCHANGED vars
  BY <1>9 DEF vars, Silent
<1> QED BY <1>2, <1>4, <1>5, <1>6, <1>7, <1>8, <1>9, StepCases

LEMMA ErasingStep == Typed /\ [Next]_vars => Erasing'
<1> SUFFICES ASSUME Typed, [Next]_vars PROVE Erasing'
  OBVIOUS
<1>0. Tables /\ Telling /\ Works /\ Erasing
  BY DEF Typed, ServerSide
<1> USE <1>0 DEF serverVars, linkVars
\* Requests that are not deleting after a step were deleting the same before it.
<1>2. ASSUME \A r \in Requests : tell'[<<"web", r>>].at = "erase" => tell'[<<"web", r>>] = tell[<<"web", r>>],
             \A t \in Tunnels : conf[t] # None => conf'[t] # None
      PROVE  Erasing'
  <2>1. \A r \in Requests : tell[<<"web", r>>].at = "erase" => Head(tell[<<"web", r>>].jobs).tunnel \in Tunnels
    BY TellerNames, WorkHasJob
  <2> QED BY <1>2, <2>1 DEF Erasing
<1>3. ASSUME NEW w \in Tellers, TellStep(w) PROVE Erasing'
  BY TellerNames, <1>2, <1>3, AtWork
<1>4. ASSUME NEW r \in Requests, Remove(r) PROVE Erasing'
  <2> DEFINE t == Head(tell[<<"web", r>>].jobs).tunnel
  <2>1. tell[<<"web", r>>].at = "erase" /\ conf' = [conf EXCEPT ![t] = None]
    BY <1>4 DEF Remove
  <2>2. tell' = [tell EXCEPT ![<<"web", r>>] = [Idle EXCEPT !.jobs = Notify(t, conf[t], TRUE)]]
    BY <1>4 DEF Remove
  <2>3. tell'[<<"web", r>>].at = "next" /\ \A s \in Requests \ {r} : tell'[<<"web", s>>] = tell[<<"web", s>>]
    BY TellerNames, <2>2 DEF Telling, Idle
  <2>4. \A s \in Requests \ {r} : tell[<<"web", s>>].at = "erase" => Head(tell[<<"web", s>>].jobs).tunnel # t
    BY <2>1 DEF Erasing
  <2>5. \A s \in Requests : tell[<<"web", s>>].at = "erase" => Head(tell[<<"web", s>>].jobs).tunnel \in Tunnels
    BY TellerNames, WorkHasJob
  <2> HIDE DEF t
  <2>6. ASSUME NEW s \in Requests, tell'[<<"web", s>>].at = "erase"
        PROVE  /\ tell'[<<"web", s>>] = tell[<<"web", s>>]
               /\ conf'[Head(tell[<<"web", s>>].jobs).tunnel] = conf[Head(tell[<<"web", s>>].jobs).tunnel]
    <3>1. tell'[<<"web", s>>] = tell[<<"web", s>>] /\ s # r
      BY <2>3, <2>6
    <3>2. Head(tell[<<"web", s>>].jobs).tunnel \in Tunnels \ {t}
      BY <2>4, <2>5, <2>6, <3>1
    <3> QED BY <2>1, <3>1, <3>2 DEF Tables
  <2> QED BY <2>6 DEF Erasing
<1>5. ASSUME NEW r \in Requests, NEW t \in Tunnels, Erase(r, t) PROVE Erasing'
  <2> DEFINE q == Notify(t, conf[t], TRUE)
  <2>1. /\ conf[t] # None /\ ~Erased(t) /\ tell[<<"web", r>>] = Idle /\ UNCHANGED conf
        /\ tell' = [tell EXCEPT ![<<"web", r>>].at = "erase", ![<<"web", r>>].jobs = q]
    BY <1>5 DEF Erase
  <2>2. Head(q).tunnel = t
    BY <2>1, NotifyTypes DEF Tables, Tunnel
  <2> HIDE DEF q
  <2>3. /\ tell'[<<"web", r>>].jobs = q
        /\ \A s \in Requests \ {r} : tell'[<<"web", s>>] = tell[<<"web", s>>]
    BY TellerNames, <2>1 DEF Telling, Told
  <2>4. \A s \in Requests : tell[<<"web", s>>].at = "erase" => Head(tell[<<"web", s>>].jobs).tunnel # t
    BY <2>1 DEF Erased
  <2>5. Head(tell'[<<"web", r>>].jobs).tunnel = t
    BY <2>2, <2>3
  <2>6. \A s \in Requests : tell'[<<"web", s>>].at = "erase" => conf'[Head(tell'[<<"web", s>>].jobs).tunnel] # None
    BY <2>1, <2>3, <2>5 DEF Erasing
  <2>7. ASSUME NEW s \in Requests, NEW u \in Requests,
               tell'[<<"web", s>>].at = "erase", tell'[<<"web", u>>].at = "erase",
               Head(tell'[<<"web", u>>].jobs).tunnel = Head(tell'[<<"web", s>>].jobs).tunnel
        PROVE  u = s
    <3>1. CASE s = r \/ u = r
      BY <2>3, <2>4, <2>5, <2>7, <3>1
    <3>2. CASE s # r /\ u # r
      BY <2>3, <2>7, <3>2 DEF Erasing
    <3> QED BY <3>1, <3>2
  <2> QED BY <2>6, <2>7 DEF Erasing
<1>6. ASSUME NEW r \in Requests, NEW t \in Tunnels, NEW k \in Confs, Add(r, t, k) \/ Update(r, t, k)
      PROVE  Erasing'
  <2>1. PICK q : tell' = [tell EXCEPT ![<<"web", r>>].jobs = q]
    BY <1>6 DEF Add, Update
  <2>2. tell[<<"web", r>>].at = "next"
    BY <1>6 DEF Add, Update, Idle
  <2>3. tell'[<<"web", r>>].at = "next" /\ \A s \in Requests \ {r} : tell'[<<"web", s>>] = tell[<<"web", s>>]
    BY TellerNames, <2>1, <2>2 DEF Telling, Told
  <2>4. \A u \in Tunnels : conf[u] # None => conf'[u] # None
    BY <1>6, HostFacts DEF Add, Update, Tables
  <2> QED BY <1>2, <2>3, <2>4
<1>7. ASSUME NEW c \in Conns, SessionStep(c) PROVE Erasing'
  <2>1. \A r \in Requests : tell'[<<"web", r>>] = tell[<<"web", r>>]
    BY TellerNames, <1>7 DEF SessionStep, Bind, Answer, Ack, TakeReport, StoreReport, ReadFails, Unbind, Clear, Closed, Telling
  <2>2. UNCHANGED conf
    BY <1>7 DEF SessionStep, Bind, Answer, Ack, TakeReport, StoreReport, ReadFails, Unbind, Clear, Closed
  <2> QED BY <1>2, <2>1, <2>2
<1>8. ASSUME NEW c \in Conns, ClientStep(c) \/ Dial(c) \/ Cut(c) PROVE Erasing'
  BY <1>8 DEF ClientStep, LoggedIn, UpdateTunnel, LoginFails, ConnectionLost, Leave, Dial, Cut, Erasing
<1>9. CASE Restart
  <2>1. tell' = [w \in Tellers |-> Idle]
    BY <1>9 DEF Restart
  <2>2. \A r \in Requests : tell'[<<"web", r>>].at = "next"
    BY TellerNames, <2>1 DEF Idle
  <2> QED BY <2>2 DEF Erasing
<1>10. CASE UNCHANGED vars
  BY <1>10 DEF vars, Erasing
<1> QED BY <1>3, <1>4, <1>5, <1>6, <1>7, <1>8, <1>9, <1>10, StepCases

-----------------------------------------------------------------------------
\* Managers and sockets

\* A client that is not logged in has an empty manager.
Clients == \A c \in Conns : client[c] # "in" => mgr[c] = NewManager

\* A step that leaves the managers and the sockets alone, and no socket in the
\* hands of a teller
LEMMA SocketsStay ==
    ASSUME Hosted, Fits, NoLostSocket, UNCHANGED <<mgr, listening>>,
           \A w \in Tellers : tell[w].at \in {"stop", "install"} => tell'[w] = tell[w]
    PROVE  Hosted' /\ Fits' /\ NoLostSocket'
BY DEF Hosted, Fits, NoLostSocket, InHands

\* A step of the goroutine that works for the connection of one client
LEMMA ClientSockets ==
    ASSUME NEW c \in Conns, Hosted, Fits, NoLostSocket, UNCHANGED tell,
           NEW m \in Managers, FitsIn(c, m), mgr' = [mgr EXCEPT ![c] = m],
           listening' \subseteq Listeners,
           \A l \in listening' : l.host # c => l \in listening,
           Owned(c, m, listening')
    PROVE  Hosted' /\ Fits' /\ NoLostSocket'
<1>1. Hosted' /\ mgr'[c] = m /\ \A h \in Hosts \ {c} : mgr'[h] = mgr[h]
  BY HostFacts DEF Hosted
<1>2. Fits'
  <2>1. \A h \in Hosts : FitsIn(h, mgr'[h])
    <3>1. \A h \in Hosts : FitsIn(h, mgr[h])
      BY FitsByHost
    <3> QED BY <1>1, <3>1
  <2> QED BY <2>1, FitsByHost
<1>3. ASSUME NEW l \in listening' PROVE (mgr[l.host].inlets[l.tunnel] = l.conf \/ InHands(l))'
  <2>1. CASE l.host = c
    BY <1>1, <2>1 DEF Owned
  <2>2. CASE l.host # c
    <3>1. l \in listening /\ l.host \in Hosts
      BY <2>2 DEF Hosted, Listeners
    <3>2. mgr'[l.host] = mgr[l.host] /\ (InHands(l) => InHands(l)')
      BY <1>1, <2>2, <3>1 DEF InHands
    <3> QED BY <3>1, <3>2 DEF NoLostSocket
  <2> QED BY <2>1, <2>2
<1> QED BY <1>1, <1>2, <1>3 DEF NoLostSocket

\* A step of a teller on the manager of the server
LEMMA ServerSockets ==
    ASSUME Hosted, Fits, NoLostSocket, NEW m \in Managers, FitsIn(Server, m),
           mgr' = [mgr EXCEPT ![Server] = m],
           listening' \subseteq Listeners,
           \A l \in listening' : l.host # Server => l \in listening,
           \A l \in listening' : l.host = Server => m.inlets[l.tunnel] = l.conf \/ InHands(l)'
    PROVE  Hosted' /\ Fits' /\ NoLostSocket'
<1>1. Hosted' /\ mgr'[Server] = m /\ \A h \in Hosts \ {Server} : mgr'[h] = mgr[h]
  BY HostFacts DEF Hosted
<1>2. Fits'
  <2>1. \A h \in Hosts : FitsIn(h, mgr'[h])
    <3>1. \A h \in Hosts : FitsIn(h, mgr[h])
      BY FitsByHost
    <3> QED BY <1>1, <3>1
  <2> QED BY <2>1, FitsByHost
<1>3. ASSUME NEW l \in listening' PROVE (mgr[l.host].inlets[l.tunnel] = l.conf \/ InHands(l))'
  <2>1. CASE l.host = Server
    BY <1>1, <2>1
  <2>2. CASE l.host # Server
    <3>1. l \in listening /\ l.host \in Hosts
      BY <2>2 DEF Hosted, Listeners
    <3>2. mgr'[l.host] = mgr[l.host] /\ ~InHands(l)
      BY <1>1, <2>2, <3>1 DEF InHands
    <3> QED BY <3>1, <3>2 DEF NoLostSocket
  <2> QED BY <2>1, <2>2
<1> QED BY <1>1, <1>2, <1>3 DEF NoLostSocket

LEMMA TellerSockets ==
    ASSUME Typed, Fits, NoLostSocket, NEW w \in Tellers, TellStep(w)
    PROVE  Hosted' /\ Fits' /\ NoLostSocket'
<1>0. Hosted /\ Telling /\ Works /\ mgr[Server] \in Managers /\ FitsIn(Server, mgr[Server])
        /\ tell[w] \in Told /\ Working(tell[w])
  BY HostFacts, FitsByHost DEF Typed, ServerSide, Hosted, Telling, Works
<1>1. \A v \in Tellers \ {w} : tell'[v] = tell[v]
  BY AtWork
<1>2. \A l \in listening : /\ l.tunnel \in Tunnels /\ l.conf \in Confs /\ l.conf # None
                           /\ l = Listener(l.host, l.tunnel, l.conf)
  BY <1>0, HostFacts DEF Hosted, Listeners, Listener
<1>3. mgr[Server].inlets \in [Tunnels -> Tunnel]
  BY <1>0 DEF Managers
<1> DEFINE j == Head(tell[w].jobs)
           t == j.tunnel
           k == tell[w].sends
\* In whose hands a socket is, before the step
<1>4. ASSUME NEW l \in listening, l.host = Server
      PROVE  \/ mgr[Server].inlets[l.tunnel] = l.conf
             \/ tell[w].at \in {"stop", "install"} /\ l = Listener(Server, t, tell[w].inHand)
             \/ InHands(l)'
  <2>1. CASE mgr[Server].inlets[l.tunnel] = l.conf
    BY <2>1
  <2>2. CASE InHands(l)
    <3>1. PICK v \in Tellers : /\ tell[v].inHand = l.conf /\ tell[v].at \in {"stop", "install"}
                               /\ Head(tell[v].jobs).tunnel = l.tunnel
      BY <2>2 DEF InHands
    <3>2. CASE v = w
      BY <1>2, <1>4, <3>1, <3>2
    <3>3. CASE v # w
      <4>1. tell'[v] = tell[v]
        BY <1>1, <3>3
      <4> QED BY <1>4, <3>1, <4>1 DEF InHands
    <3> QED BY <3>2, <3>3
  <2> QED BY <1>4, <2>1, <2>2 DEF NoLostSocket
<1>5. CASE MakeUpdate(w) \/ Push(w) \/ Reaffirm(w)
  <2>1. UNCHANGED <<mgr, listening>> /\ tell[w].at \notin {"stop", "install"}
    BY <1>5 DEF MakeUpdate, Push, Reaffirm
  <2> QED BY <1>0, <1>1, <2>1, SocketsStay
<1>6. CASE Apply(w)
  <2> DEFINE u == IF j.del THEN None ELSE k
             old == mgr[Server].inlets[t]
             stops == StopsInlet(Server, old, u)
             m == Applied(Server, t, u)
  <2>1. t \in Tunnels /\ k \in Tunnel /\ u \in Tunnel
    BY <1>0, <1>6, WorkHasJob DEF Apply, Tunnel
  <2>2. /\ tell[w].at = "apply" /\ mgr' = [mgr EXCEPT ![Server] = m] /\ UNCHANGED listening
        /\ tell' = [tell EXCEPT ![w].at = "stop", ![w].inHand = IF stops THEN old ELSE None]
    BY <1>6 DEF Apply
  <2> HIDE DEF u
  <2>3. m \in Managers /\ FitsIn(Server, m) /\ m.inlets = [mgr[Server].inlets EXCEPT ![t] = IF stops THEN None ELSE old]
    BY <1>0, <2>1, HostFacts, AppliedFits
  <2> HIDE DEF m, stops, t
  <2>4. /\ tell'[w].at = "stop" /\ tell'[w].inHand = IF stops THEN old ELSE None
        /\ tell'[w].jobs = tell[w].jobs
    BY <1>0, <2>2 DEF Told, Telling
  <2>5. ASSUME NEW l \in listening, l.host = Server
        PROVE  m.inlets[l.tunnel] = l.conf \/ InHands(l)'
    <3>1. CASE mgr[Server].inlets[l.tunnel] = l.conf /\ stops /\ l.tunnel = t
      <4>1. Head(tell'[w].jobs).tunnel = l.tunnel
        BY <2>4, <3>1 DEF t
      <4> QED BY <2>4, <2>5, <3>1, <4>1 DEF InHands
    <3>2. CASE mgr[Server].inlets[l.tunnel] = l.conf /\ ~(stops /\ l.tunnel = t)
      BY <1>2, <1>3, <2>1, <2>3, <2>5, <3>2
    <3> QED BY <1>4, <2>2, <2>5, <3>1, <3>2
  <2> QED BY <1>0, <2>2, <2>3, <2>5, ServerSockets DEF Hosted
<1>7. CASE Stop(w)
  <2> DEFINE hand == tell[w].inHand
  <2>1. /\ tell[w].at = "stop" /\ UNCHANGED mgr
        /\ listening' = IF hand # None THEN listening \ {Listener(Server, t, hand)} ELSE listening
    BY <1>7 DEF Stop
  <2>2. mgr' = [mgr EXCEPT ![Server] = mgr[Server]]
    BY <1>0, <2>1, HostFacts DEF Hosted
  <2>3. listening' \subseteq listening
    BY <2>1
  <2>4. ASSUME NEW l \in listening', l.host = Server
        PROVE  mgr[Server].inlets[l.tunnel] = l.conf \/ InHands(l)'
    <3>1. l \in listening
      BY <2>3
    <3>2. l # Listener(Server, t, hand)
      <4>1. CASE hand # None
        BY <2>1, <4>1
      <4>2. CASE hand = None
        BY <1>2, <3>1, <4>2 DEF Listener
      <4> QED BY <4>1, <4>2
    <3> QED BY <1>4, <2>4, <3>1, <3>2
  <2> QED BY <1>0, <2>2, <2>3, <2>4, ServerSockets DEF Hosted
<1>8. CASE Start(w)
  <2> DEFINE m == WithOutlet(Server, mgr[Server], t, k)
             x == [tell[w] EXCEPT !.at = "install", !.inHand = k]
             new == Listener(Server, t, k)
  <2>1. t \in Tunnels /\ k \in Confs /\ k \in Tunnel
    BY <1>0, <1>8, WorkHasJob DEF Start, Working, Tunnel
  <2>2. /\ tell[w].at = "start" /\ mgr' = [mgr EXCEPT ![Server] = m]
        /\ \/ listening' = listening \cup {new} /\ tell' = [tell EXCEPT ![w] = x]
           \/ listening' = listening
    BY <1>8 DEF Start
  <2>3. m \in Managers /\ FitsIn(Server, m) /\ m.inlets = mgr[Server].inlets
    BY <1>0, <2>1, HostFacts, WithOutletFits
  <2>4. new \in Listeners /\ new.host = Server /\ new.tunnel = t /\ new.conf = k
    BY <2>1, HostFacts DEF Listener, Listeners
  <2>5. tell' = [tell EXCEPT ![w] = x] => /\ tell'[w].at = "install" /\ tell'[w].inHand = k
                                          /\ tell'[w].jobs = tell[w].jobs
    BY <1>0 DEF Told, Telling
  <2> HIDE DEF m, x, new
  <2>6. ASSUME NEW l \in listening', l.host = Server
        PROVE  m.inlets[l.tunnel] = l.conf \/ InHands(l)'
    <3>1. CASE l \in listening
      BY <1>4, <2>2, <2>3, <2>6, <3>1
    <3>2. CASE l = new /\ tell' = [tell EXCEPT ![w] = x]
      BY <2>4, <2>5, <3>2 DEF InHands
    <3> QED BY <2>2, <2>6, <3>1, <3>2
  <2>7. listening' \subseteq Listeners /\ \A l \in listening' : l.host # Server => l \in listening
    BY <1>0, <2>2, <2>4 DEF Hosted
  <2> QED BY <1>0, <2>2, <2>3, <2>6, <2>7, ServerSockets
<1>9. CASE Install(w)
  <2> DEFINE m == [mgr[Server] EXCEPT !.inlets[t] = k]
             ok == MayInlet(Server, mgr[Server], t, k)
             late == Listener(Server, t, k)
  <2>1. t \in Tunnels /\ k \in Confs /\ k \in Tunnel /\ tell[w].inHand = k
    BY <1>0, <1>9, WorkHasJob DEF Install, Working, Tunnel
  <2>2. /\ tell[w].at = "install"
        /\ mgr' = IF ok THEN [mgr EXCEPT ![Server].inlets[t] = k] ELSE mgr
        /\ listening' = IF ok THEN listening ELSE listening \ {late}
    BY <1>9 DEF Install
  <2>3. CASE ok
    <3>1. /\ m \in Managers /\ FitsIn(Server, m) /\ m.inlets = [mgr[Server].inlets EXCEPT ![t] = k]
          /\ mgr[Server].inlets[t] = None
      BY <1>0, <2>1, <2>3, HostFacts, InstallFits
    <3>2. mgr' = [mgr EXCEPT ![Server] = m] /\ UNCHANGED listening
      BY <2>2, <2>3
    <3> HIDE DEF m
    <3>3. ASSUME NEW l \in listening, l.host = Server
          PROVE  m.inlets[l.tunnel] = l.conf \/ InHands(l)'
      <4>1. CASE mgr[Server].inlets[l.tunnel] = l.conf
        BY <1>2, <1>3, <3>1, <3>3, <4>1
      <4>2. CASE l = late
        BY <1>3, <2>1, <3>1, <4>2 DEF Listener
      <4> QED BY <1>4, <2>1, <3>3, <4>1, <4>2
    <3> QED BY <1>0, <3>1, <3>2, <3>3, ServerSockets DEF Hosted
  <2>4. CASE ~ok
    <3>1. mgr' = [mgr EXCEPT ![Server] = mgr[Server]]
      BY <1>0, <2>2, <2>4, HostFacts DEF Hosted
    <3>2. listening' = listening \ {late}
      BY <2>2, <2>4
    <3>3. ASSUME NEW l \in listening', l.host = Server
          PROVE  mgr[Server].inlets[l.tunnel] = l.conf \/ InHands(l)'
      BY <1>4, <2>1, <3>2, <3>3
    <3> QED BY <1>0, <3>1, <3>2, <3>3, ServerSockets DEF Hosted
  <2> QED BY <2>3, <2>4
<1> QED BY <1>5, <1>6, <1>7, <1>8, <1>9 DEF TellStep

\* What the client of a connection does to its manager and its sockets
LEMMA ClientStepSockets ==
    ASSUME Typed, Fits, NoLostSocket, Clients, NEW c \in Conns, ClientStep(c)
    PROVE  Hosted' /\ Fits' /\ NoLostSocket' /\ Clients'
<1>0. Hosted /\ Links /\ Acks /\ mgr[c] \in Managers /\ FitsIn(c, mgr[c])
        /\ c \in Hosts /\ c # Server
  BY HostFacts, FitsByHost DEF Typed, Hosted
<1> USE DEF serverVars
<1>1. \A l \in listening : l \in Listeners /\ l.tunnel \in Tunnels /\ l.conf \in Confs /\ l.conf # None
  BY <1>0, HostFacts DEF Hosted, Listeners
<1>2. Owned(c, mgr[c], listening)
  BY <1>0 DEF Owned, NoLostSocket, InHands
<1>3. down[c] # <<>> => Head(down[c]) \in Pushes
  BY <1>0 DEF Links
<1>4. CASE LoggedIn(c)
  <2> DEFINE list == Head(down[c]).ack
             m == Synced(c, list)
             runs == {t \in Tunnels : RunsInlet(c, list[t]) /\ AddressFree(c, list[t], listening)}
             new == {Listener(c, t, list[t]) : t \in runs}
  <2>1. list \in [Tunnels -> Tunnel]
    BY <1>3, <1>4 DEF LoggedIn, IsAck, Pushes
  <2>2. /\ client[c] = "login" /\ client' = [client EXCEPT ![c] = "in"] /\ UNCHANGED tell
        /\ mgr' = [mgr EXCEPT ![c] = m]
    BY <1>4 DEF LoggedIn, Synced
  <2>3. listening' = listening \cup new
    BY <1>4 DEF LoggedIn
  <2> HIDE DEF list
  <2>4. m \in Managers /\ FitsIn(c, m)
    BY <1>0, <2>1, SyncedFits
  <2>5. ASSUME NEW l \in new
        PROVE  l \in Listeners /\ l.host = c /\ m.inlets[l.tunnel] = l.conf
    <3>1. PICK t \in runs : l = Listener(c, t, list[t])
      BY <2>5
    <3>2. list[t] \in Confs
      BY <2>1, <3>1 DEF RunsInlet, Tunnel
    <3>3. l.host = c /\ l.tunnel = t /\ l.conf = list[t] /\ l \in Listeners
      BY <1>0, <3>1, <3>2 DEF Listener, Listeners
    <3> QED BY <3>1, <3>3 DEF Synced
  <2>6. \A l \in listening : l.host # c
    <3>1. mgr[c] = NewManager
      BY <2>2 DEF Clients
    <3> QED BY <1>1, <1>2, <3>1 DEF Owned, NewManager
  <2> HIDE DEF new, m
  <2>7. /\ listening' \subseteq Listeners /\ Owned(c, m, listening')
        /\ \A l \in listening' : l.host # c => l \in listening
    BY <1>1, <2>3, <2>5, <2>6 DEF Owned
  <2>8. Hosted' /\ Fits' /\ NoLostSocket'
    BY <1>0, <2>2, <2>4, <2>7, ClientSockets
  <2>9. Clients'
    BY <1>0, <2>2 DEF Clients, Links, Hosted
  <2> QED BY <2>8, <2>9
<1>5. CASE UpdateTunnel(c)
  <2> DEFINE t == Head(down[c]).tunnel
             k == Head(down[c]).conf
             m == Handled(c, t, k).mgr
  <2>1. client[c] = "in" /\ UNCHANGED <<client, tell>> /\ mgr' = [mgr EXCEPT ![c] = m]
          /\ listening' = Handled(c, t, k).open
    BY <1>5 DEF UpdateTunnel
  <2>2. t \in Tunnels /\ k \in Tunnel
    <3>1. ~IsAck(Head(down[c]))
      BY <1>0, <1>5, AckQueues DEF UpdateTunnel, Links, Acks
    <3> QED BY <1>3, <1>5, <3>1 DEF UpdateTunnel, Pushes, IsAck
  <2> HIDE DEF t, k
  <2>3. /\ m \in Managers /\ FitsIn(c, m) /\ listening' \subseteq Listeners
        /\ \A l \in listening' : l.host # c => l \in listening
        /\ Owned(c, m, listening')
    BY <1>0, <1>2, <2>1, <2>2, HandledFits
  <2> HIDE DEF m
  <2>4. Hosted' /\ Fits' /\ NoLostSocket'
    BY <1>0, <2>1, <2>3, ClientSockets
  <2>5. Clients'
    BY <1>0, <2>1 DEF Clients, Hosted
  <2> QED BY <2>4, <2>5
<1>6. CASE LoginFails(c) \/ ConnectionLost(c)
  <2>1. /\ client' = [client EXCEPT ![c] = "closed"] /\ mgr' = [mgr EXCEPT ![c] = NewManager]
        /\ listening' = Silenced(c) /\ UNCHANGED tell
    BY <1>6 DEF LoginFails, ConnectionLost, Leave
  <2>2. /\ listening' \subseteq Listeners /\ Owned(c, NewManager, listening')
        /\ \A l \in listening' : l.host # c => l \in listening
    BY <1>1, <2>1 DEF Silenced, Owned
  <2>3. Hosted' /\ Fits' /\ NoLostSocket'
    BY <1>0, <2>1, <2>2, NewManagerFits, ClientSockets
  <2>4. Clients'
    BY <1>0, <2>1 DEF Clients, Links, Hosted
  <2> QED BY <2>3, <2>4
<1> QED BY <1>4, <1>5, <1>6 DEF ClientStep

LEMMA SocketStep ==
    Typed /\ Fits /\ NoLostSocket /\ Clients /\ [Next]_vars => Hosted' /\ Fits' /\ NoLostSocket' /\ Clients'
<1> SUFFICES ASSUME Typed, Fits, NoLostSocket, Clients, [Next]_vars
             PROVE  Hosted' /\ Fits' /\ NoLostSocket' /\ Clients'
  OBVIOUS
<1>0. Tables /\ Hosted /\ Telling /\ Works /\ Silent /\ Links
  BY DEF Typed, ServerSide
<1> USE DEF serverVars, linkVars
<1>1. ASSUME NEW w \in Tellers, TellStep(w) PROVE Hosted' /\ Fits' /\ NoLostSocket' /\ Clients'
  <2>1. Clients'
    <3>1. UNCHANGED client
      BY <1>1, AtWork
    <3>2. \A h \in Conns : mgr'[h] = mgr[h]
      BY <1>0, <1>1, HostFacts DEF TellStep, MakeUpdate, Push, Apply, Stop, Start, Install, Reaffirm, Hosted
    <3> QED BY <3>1, <3>2 DEF Clients
  <2> QED BY <1>1, <2>1, TellerSockets
<1>idle. Idle.at = "next"
  BY DEF Idle
\* Whoever begins or ends something does it where no socket is in hand.
<1>2. ASSUME NEW w \in Tellers, tell[w].at \notin {"stop", "install"},
             \A v \in Tellers \ {w} : tell'[v] = tell[v], UNCHANGED <<mgr, listening, client>>
      PROVE  Hosted' /\ Fits' /\ NoLostSocket' /\ Clients'
  <2>1. \A v \in Tellers : tell[v].at \in {"stop", "install"} => tell'[v] = tell[v]
    BY <1>2
  <2>2. Clients'
    BY <1>2 DEF Clients
  <2> QED BY <1>0, <1>2, <2>1, <2>2, SocketsStay
<1>3. ASSUME NEW r \in Requests,
             Remove(r) \/ \E t \in Tunnels : Erase(r, t) \/ \E k \in Confs : Add(r, t, k) \/ Update(r, t, k)
      PROVE  Hosted' /\ Fits' /\ NoLostSocket' /\ Clients'
  <2>1. tell[<<"web", r>>].at \notin {"stop", "install"}
    BY <1>idle, <1>3 DEF Remove, Erase, Add, Update
  <2>2. \A v \in Tellers \ {<<"web", r>>} : tell'[v] = tell[v]
    BY <1>0, <1>3 DEF Remove, Erase, Add, Update, Telling
  <2>3. UNCHANGED <<mgr, listening, client>>
    BY <1>3 DEF Remove, Erase, Add, Update
  <2> QED BY <1>2, <2>1, <2>2, <2>3, TellerNames
<1>4. ASSUME NEW c \in Conns, SessionStep(c) PROVE Hosted' /\ Fits' /\ NoLostSocket' /\ Clients'
  <2>0. UNCHANGED <<mgr, listening, client>>
    BY <1>4 DEF SessionStep, Bind, Answer, Ack, TakeReport, StoreReport, ReadFails, Unbind, Clear, Closed
  <2>1. CASE Answer(c)
    <3>1. tell[<<"login", c>>].at \notin {"stop", "install"}
      BY <1>idle, <1>0, <2>1 DEF Answer, Silent
    <3>2. \A v \in Tellers \ {<<"login", c>>} : tell'[v] = tell[v]
      BY <1>0, <2>1 DEF Answer, Telling
    <3> QED BY <1>2, <2>0, <3>1, <3>2, TellerNames
  <2>2. CASE Clear(c)
    <3>1. tell[<<"close", c>>].at \notin {"stop", "install"}
      BY <1>idle, <1>0, <2>2 DEF Clear, Silent
    <3>2. \A v \in Tellers \ {<<"close", c>>} : tell'[v] = tell[v]
      BY <1>0, <2>2 DEF Clear, Telling
    <3> QED BY <1>2, <2>0, <3>1, <3>2, TellerNames
  <2>3. CASE UNCHANGED tell
    <3>1. Clients'
      BY <2>0 DEF Clients
    <3> QED BY <1>0, <2>0, <2>3, <3>1, SocketsStay
  <2>4. UNCHANGED tell \/ Answer(c) \/ Clear(c)
    BY <1>4 DEF SessionStep, Bind, Ack, TakeReport, StoreReport, ReadFails, Unbind, Closed
  <2> QED BY <2>1, <2>2, <2>3, <2>4
<1>5. ASSUME NEW c \in Conns, ClientStep(c) PROVE Hosted' /\ Fits' /\ NoLostSocket' /\ Clients'
  BY <1>5, ClientStepSockets
<1>6. ASSUME NEW c \in Conns, Dial(c) \/ Cut(c) PROVE Hosted' /\ Fits' /\ NoLostSocket' /\ Clients'
  <2>1. UNCHANGED <<mgr, listening, tell>>
    BY <1>6 DEF Dial, Cut
  <2>2. Clients'
    BY <1>0, <1>6 DEF Dial, Cut, Clean, Clients, Links
  <2> QED BY <1>0, <2>1, <2>2, SocketsStay
<1>7. CASE Restart
  <2> DEFINE stored == [t \in Tunnels |-> IF Erased(t) THEN None ELSE conf[t]]
             m == StartManager(stored)
  <2>1. stored \in [Tunnels -> Tunnel]
    BY <1>0 DEF Tables, Tunnel
  <2>2. /\ mgr' = [mgr EXCEPT ![Server] = m] /\ UNCHANGED client
        /\ listening' = {l \in listening : l.host # Server} \cup Sockets(m, Server)
    BY <1>7 DEF Restart
  <2> HIDE DEF stored
  <2>3. /\ m \in Managers /\ FitsIn(Server, m) /\ Sockets(m, Server) \subseteq Listeners
        /\ \A l \in Sockets(m, Server) : l.host = Server /\ m.inlets[l.tunnel] = l.conf
    BY <2>1, StartFits
  <2> HIDE DEF m
  <2>4. Hosted' /\ Fits' /\ NoLostSocket'
    <3>1. listening' \subseteq Listeners
      BY <1>0, <2>2, <2>3 DEF Hosted
    <3>2. /\ \A l \in listening' : l.host # Server => l \in listening
          /\ \A l \in listening' : l.host = Server => m.inlets[l.tunnel] = l.conf
      BY <2>2, <2>3
    <3> QED BY <1>0, <2>2, <2>3, <3>1, <3>2, ServerSockets
  <2>5. Clients'
    BY <1>0, <2>2, HostFacts DEF Clients, Hosted
  <2> QED BY <2>4, <2>5
<1>8. CASE UNCHANGED vars
  <2>1. UNCHANGED <<mgr, listening, client, tell>>
    BY <1>8 DEF vars
  <2> QED BY <1>0, <2>1, SocketsStay DEF Clients
<1> QED BY <1>1, <1>3, <1>4, <1>5, <1>6, <1>7, <1>8, StepCases

-----------------------------------------------------------------------------
\* The inductive invariant

IInv == Typed /\ Fits /\ NoLostSocket /\ Clients

LEMMA InitHolds == Init => IInv
<1> SUFFICES ASSUME Init PROVE IInv
  OBVIOUS
<1> USE DEF Init
<1>1. Tables
  <2>1. conf \in [Tunnels -> Tunnel]
    BY DEF NoneFor, Tunnel
  <2>2. record \in [Tunnels -> States]
    BY <2>1, StartFits
  <2> QED BY <2>1, <2>2 DEF Tables, NoneFor
<1>2. Sessions /\ Replying
  BY DEF Sessions, Replying, NoneFor
<1>3. Telling /\ Works
  <2>1. Idle.at = "next"
    BY DEF Idle
  <2> QED BY <2>1, IdleTypes DEF Telling, Works
<1>4. Silent /\ Erasing
  <2>1. Idle.at = "next"
    BY DEF Idle
  <2>2. \A w \in Tellers : tell[w] = Idle
    OBVIOUS
  <2> QED BY <2>1, <2>2, TellerNames DEF Silent, Erasing
<1>5. Standing
  BY ControlAssumption DEF Standing, NoneFor
<1>6. Links
  <2>1. \A S : <<>> \in Seq(S)
    OBVIOUS
  <2> QED BY <2>1 DEF Links
<1>7. Acks
  <2>1. NoAck(<<>>) /\ OneAck(<<>>)
    BY DEF NoAck, OneAck
  <2> QED BY <2>1 DEF Acks
<1>8. Hosted /\ Fits /\ Clients
  BY NewManagerFits, FitsByHost, HostFacts DEF Hosted, Clients
<1>9. NoLostSocket
  BY DEF NoLostSocket
<1> QED BY <1>1, <1>2, <1>3, <1>4, <1>5, <1>6, <1>7, <1>8, <1>9 DEF IInv, Typed, ServerSide

LEMMA StepHolds == IInv /\ [Next]_vars => IInv'
<1> SUFFICES ASSUME IInv, [Next]_vars PROVE IInv'
  OBVIOUS
<1>1. Typed /\ Fits /\ NoLostSocket /\ Clients
  BY DEF IInv
<1>2. ServerSide'
  BY <1>1, TablesStep, SessionsStep, TellingStep, SilentStep, StandingStep, ErasingStep DEF ServerSide
<1>3. Links' /\ Acks'
  BY <1>1, LinksStep, AcksStep
<1>4. Hosted' /\ Fits' /\ NoLostSocket' /\ Clients'
  BY <1>1, SocketStep
<1> QED BY <1>2, <1>3, <1>4 DEF IInv, Typed

THEOREM Invariance == Spec => []IInv
BY InitHolds, StepHolds, PTL DEF Spec

(***************************************************************************)
(* Type correctness: among others, a client takes one LoginAck from a      *)
(* connection and nothing else that is not a push, and a tunnel is deleted *)
(* once, from the server's tables as from its store (session.go:517-525,   *)
(* tunnel_manager.go:170-207).                                             *)
(***************************************************************************)
THEOREM TypeCorrect == Spec => []TypeOK
<1>1. IInv => TypeOK
  BY TypesHold DEF IInv
<1> QED BY <1>1, Invariance, PTL

(***************************************************************************)
(* No manager ever runs an inlet or an outlet that it does not want any    *)
(* more, however many goroutines call UpdateTunnel of the server's manager *)
(* at once, for any number of players, connections and tunnels.            *)
(***************************************************************************)
THEOREM ManagersFit == Spec => []Fits
<1>1. IInv => Fits
  BY DEF IInv
<1> QED BY <1>1, Invariance, PTL

(***************************************************************************)
(* No listening socket is ever lost: through logins, failed logins, broken *)
(* connections and restarts of the server, one that listens is installed   *)
(* or in the hands of the goroutine that will install or stop it.          *)
(***************************************************************************)
THEOREM SocketsKept == Spec => []NoLostSocket
<1>1. IInv => NoLostSocket
  BY DEF IInv
<1> QED BY <1>1, Invariance, PTL

-----------------------------------------------------------------------------
(***************************************************************************)
(* What everybody has been told.  Until two tellers have been at work at   *)
(* once, a manager has of every tunnel what it should have, or the job     *)
(* that will tell it is still to be done.                                  *)
(***************************************************************************)

Solo == \A v, w \in Tellers : Active(v) /\ Active(w) => v = w

\* w has to tell the player of the tunnel
Owes(w, t, p) == \E i \in 1 .. Len(tell[w].jobs) : tell[w].jobs[i].tunnel = t /\ tell[w].jobs[i].to = p

Pending(t, p) == \E w \in Tellers : Owes(w, t, p)

\* ... because the tunnel is being changed, so what the player has may be anything
Rewritten(t, p) == \E r \in Requests : Owes(<<"web", r>>, t, p)

\* The player at the other end has come or gone, and the one who will tell has
\* not begun yet.
Shaky(p, t) ==
    \E c \in Conns : /\ Owner[c] # p /\ Owner[c] \in Ends(conf[t])
                     /\ reader[c] = "bound" \/ closer[c] = "clear"

SameBut(k, l) == k # None /\ k.sender = l.sender /\ k.receiver = l.receiver /\ k.source = l.source

Expected(p, t, k) ==
    IF conf[t] = None \/ p \notin Ends(conf[t]) THEN k = None
    ELSE SameBut(k, conf[t]) /\ (k = Effective(conf[t]) \/ Shaky(p, t) \/ Pending(t, p))

\* The player may have been told that the tunnel is k
Right(p, t, k) == Rewritten(t, p) \/ Expected(p, t, k)

\* The connection is the player's, and its client has not failed to log in
Doomed(c) == client[c] = "login" /\ down[c] # <<>> /\ ~IsAck(Head(down[c]))

Live(c) == bound[Owner[c]] = c /\ closer[c] = "no" /\ link[c] = "up" /\ ~Doomed(c)

\* What a client's manager will have stored after each of the messages that are
\* on their way
After(view, m) == IF IsAck(m) THEN m.ack ELSE [view EXCEPT ![m.tunnel] = m.conf]

Course(c, v) ==
    /\ v \in [0 .. Len(down[c]) -> [Tunnels -> Tunnel]]
    /\ v[0] = mgr[c].tunnels
    /\ \A n \in 1 .. Len(down[c]) : v[n] = After(v[n - 1], down[c][n])

\* No two inlets that want the same address
Harmless(h, view) ==
    \A t, u \in Tunnels :
        t # u /\ RunsInlet(h, view[t]) /\ RunsInlet(h, view[u]) => view[t].source # view[u].source

ToldTo(c) ==
    /\ reader[c] = "tell" => \A t \in Tunnels : Right(Owner[c], t, reply[c][t])
    /\ reader[c] = "read" =>
         \E v : /\ Course(c, v)
                /\ \A n \in 0 .. Len(down[c]) : Harmless(c, v[n])
                /\ \A t \in Tunnels : Right(Owner[c], t, v[Len(down[c])][t])

ClientsTold == \A c \in Conns : Live(c) => ToldTo(c)

ServerTold == \A t \in Tunnels : Right(Server, t, mgr[Server].tunnels[t])

\* What a teller has to tell is what the tables hold, or will be followed by it.
JobOk(w, i) ==
    LET jobs == tell[w].jobs
        j == jobs[i]
        k == conf[j.tunnel]
    IN  /\ ~j.del => k # None /\ j.conf = k /\ j.to \in Ends(k)
        /\ j.del => /\ w[1] = "web"
                    /\ k # None /\ j.to \in Ends(k) =>
                          \E n \in (i + 1) .. Len(jobs) : jobs[n].tunnel = j.tunnel /\ jobs[n].to = j.to
        /\ j.to = Server => Server \in Ends(j.conf)
        /\ w[1] = "web" => j.tunnel = Head(jobs).tunnel

JobsOk == \A w \in Tellers : tell[w].at # "erase" => \A i \in 1 .. Len(tell[w].jobs) : JobOk(w, i)

EraseOk ==
    \A w \in Tellers : tell[w].at = "erase" =>
        LET t == Head(tell[w].jobs).tunnel IN tell[w].jobs = Notify(t, conf[t], TRUE)

\* The update in a teller's hands is as good as its job, unless the player it is
\* for is logging in and will be told everything.
Current(j, s) ==
    /\ SameBut(s, conf[j.tunnel])
    /\ \/ s = Effective(conf[j.tunnel]) \/ Shaky(j.to, j.tunnel)
       \/ j.to # Server /\ (bound[j.to] # None => reader[bound[j.to]] = "bound")

Applying == {"apply", "stop", "start", "install", "reaffirm"}

HandOk(w) ==
    LET j == Head(tell[w].jobs)
        s == tell[w].sends
        a == tell[w].at
    IN  /\ a = "push" => j.to # Server
        /\ a \in Applying => j.to = Server
        /\ a \in Applying \cup {"push"} /\ ~j.del => Current(j, s)
        /\ a \in Applying \ {"apply"} => mgr[Server].tunnels[j.tunnel] = IF j.del THEN None ELSE s
        /\ a \in {"start", "install", "reaffirm"} => ~j.del
        /\ a = "install" => <<Server, s.source>> \notin Taken

HandsOk == \A w \in Tellers : HandOk(w)

-----------------------------------------------------------------------------
\* What managers do about what they were told

InletDone(h, m, t) ==
    RunsInlet(h, m.tunnels[t]) /\ <<Self(h), m.tunnels[t].source>> \notin Taken => m.inlets[t] # None

OutletDone(h, m, t) == RunsOutlet(h, m.tunnels[t]) => m.outlets[t] # None

ClientsDone == \A c \in Conns, t \in Tunnels : Live(c) => InletDone(c, mgr[c], t) /\ OutletDone(c, mgr[c], t)

ServerDone ==
    \A t \in Tunnels :
      /\ \/ InletDone(Server, mgr[Server], t)
         \/ \E w \in Tellers : tell[w].at \in {"stop", "start", "install"} /\ Head(tell[w].jobs).tunnel = t
      /\ \/ OutletDone(Server, mgr[Server], t)
         \/ \E w \in Tellers : tell[w].at \in {"stop", "start"} /\ Head(tell[w].jobs).tunnel = t

\* No inlet runs, or is about to be installed, at an address that another program has.
Untaken ==
    /\ \A h \in Hosts, t \in Tunnels :
          mgr[h].inlets[t] # None => <<Self(h), mgr[h].inlets[t].source>> \notin Taken
    /\ \A w \in Tellers : tell[w].at = "install" => <<Server, tell[w].sends.source>> \notin Taken

\* Ports are not given twice.
Apart ==
    \A t, u \in Tunnels :
        t # u /\ conf[t] # None /\ conf[u] # None /\ conf[t].receiver = conf[u].receiver
            => conf[t].source # conf[u].source

FreshFree == \A t \in fresh : conf[t] = None

\* A connection that is up has a session, and a client has one connection.
SessionsOk ==
    \A c \in Conns :
      /\ reader[c] \in {"bound", "tell", "read"} /\ closer[c] = "no" => bound[Owner[c]] = c
      /\ (link[c] = "off" <=> reader[c] = "off") /\ (client[c] = "off" <=> link[c] = "off")
      /\ closer[c] = "done" \/ client[c] = "closed" => link[c] # "up"
      /\ \A d \in Conns : c # d /\ Owner[c] = Owner[d] /\ client[c] \in {"login", "in"} => client[d] \in {"off", "closed"}

\* Nobody was, is or will be told anything wrong.
AllTold == Solo /\ ClientsTold /\ ServerTold /\ JobsOk /\ EraseOk /\ HandsOk

\* Who was told has done something about it.
AllDone == ClientsDone /\ ServerDone

\* What holds even when notifications overlap
Plain == Apart /\ FreshFree /\ SessionsOk /\ Untaken

\* The invariant that convergence follows from
NotifyInv == Plain /\ (~mixed => AllTold /\ AllDone)

-----------------------------------------------------------------------------
\* Who is at work

LEMMA TellerActive == Typed => \A w \in Tellers : tell[w] # Idle => Active(w)
<1> SUFFICES ASSUME Typed, NEW w \in Tellers, tell[w] # Idle PROVE Active(w)
  OBVIOUS
<1>1. Silent
  BY DEF Typed, ServerSide
<1>2. CASE \E c \in Conns : w = <<"login", c>>
  <2>1. PICK c \in Conns : w = <<"login", c>>
    BY <1>2
  <2>2. reader[c] = "tell"
    BY <1>1, <2>1 DEF Silent
  <2> QED BY <2>1, <2>2 DEF Active
<1>3. CASE \E c \in Conns : w = <<"close", c>>
  <2>1. PICK c \in Conns : w = <<"close", c>>
    BY <1>3
  <2>2. closer[c] = "tell"
    BY <1>1, <2>1 DEF Silent
  <2> QED BY <2>1, <2>2 DEF Active
<1>4. CASE w[1] = "web"
  BY <1>4 DEF Active
<1> QED BY <1>2, <1>3, <1>4 DEF Tellers

LEMMA AtActive == Typed => \A w \in Tellers : tell[w].at # "next" \/ tell[w].jobs # <<>> => Active(w)
BY TellerActive DEF Idle

LEMMA SoloStep == Typed /\ (~mixed => Solo) /\ [Next]_vars => (~mixed' => Solo')
<1> SUFFICES ASSUME Typed, ~mixed => Solo, [Next]_vars, ~mixed' PROVE Solo'
  OBVIOUS
<1>0. Telling /\ Silent /\ Sessions
  BY DEF Typed, ServerSide
<1> USE DEF serverVars, linkVars
<1>a. ASSUME NEW w \in Tellers, ~mixed, Active(w) \/ \A v \in Tellers \ {w} : ~Active(v),
             \A v \in Tellers \ {w} : Active(v)' => Active(v)
      PROVE  Solo'
  BY <1>a DEF Solo
<1>b. ASSUME ~mixed, \A v \in Tellers : Active(v)' => Active(v) PROVE Solo'
  BY <1>b DEF Solo
<1>1. ASSUME NEW w \in Tellers, TellStep(w) PROVE Solo'
  <2>1. Active(w)
    BY <1>1, AtWork, TellerActive
  <2>2. UNCHANGED mixed
    BY <1>1 DEF TellStep, MakeUpdate, Push, Apply, Stop, Start, Install, Reaffirm
  <2>3. \A v \in Tellers \ {w} : Active(v)' => Active(v)
    BY <1>1, AtWork DEF Active
  <2> QED BY <1>a, <2>1, <2>2, <2>3
<1>2. ASSUME NEW r \in Requests,
             Remove(r) \/ \E t \in Tunnels : Erase(r, t) \/ \E k \in Confs : Add(r, t, k) \/ Update(r, t, k)
      PROVE  Solo'
  <2> DEFINE w == <<"web", r>>
  <2>1. w \in Tellers
    BY HostFacts
  <2>2. ~mixed /\ (Active(w) \/ \A v \in Tellers \ {w} : ~Active(v))
    <3>1. CASE Remove(r)
      BY <2>1, <3>1, AtActive DEF Remove
    <3>2. CASE ~Remove(r)
      BY <1>2, <3>2, HostFacts DEF Erase, Add, Update, Mixes
    <3> QED BY <3>1, <3>2
  <2>3. \A v \in Tellers \ {w} : tell'[v] = tell[v]
    BY <1>0, <1>2 DEF Remove, Erase, Add, Update, Telling
  <2>4. UNCHANGED <<reader, closer>>
    BY <1>2 DEF Remove, Erase, Add, Update
  <2>5. \A v \in Tellers \ {w} : Active(v)' => Active(v)
    BY <2>3, <2>4 DEF Active
  <2> HIDE DEF w
  <2> QED BY <1>a, <2>1, <2>2, <2>5
<1>3. ASSUME NEW c \in Conns, SessionStep(c) PROVE Solo'
  <2>1. CASE Answer(c)
    <3> DEFINE w == <<"login", c>>
    <3>1. w \in Tellers
      BY HostFacts
    <3>2. ~mixed /\ \A v \in Tellers \ {w} : ~Active(v)
      BY <2>1, HostFacts DEF Answer, Mixes
    <3>3. \A v \in Tellers \ {w} : tell'[v] = tell[v] /\ (v[1] = "login" /\ v[2] = c => v = w)
      BY <1>0, <2>1 DEF Answer, Telling, Tellers
    <3>4. \A v \in Tellers \ {w} : Active(v)' => Active(v)
      BY <1>0, <2>1, <3>3 DEF Answer, Active, Sessions, Tellers
    <3> HIDE DEF w
    <3> QED BY <1>a, <3>1, <3>2, <3>4
  <2>2. CASE Unbind(c)
    <3> DEFINE w == <<"close", c>>
    <3>1. w \in Tellers
      BY HostFacts
    <3>2. ~mixed /\ \A v \in Tellers \ {w} : ~Active(v)
      BY <2>2, HostFacts DEF Unbind, Mixes
    <3>3. \A v \in Tellers \ {w} : v[1] = "close" /\ v[2] = c => v = w
      BY DEF Tellers
    <3>4. \A v \in Tellers \ {w} : Active(v)' => Active(v)
      BY <1>0, <2>2, <3>3 DEF Unbind, Active, Sessions, Tellers
    <3> HIDE DEF w
    <3> QED BY <1>a, <3>1, <3>2, <3>4
  <2>3. CASE Clear(c)
    <3> DEFINE w == <<"close", c>>
    <3>1. w \in Tellers /\ Active(w) /\ ~mixed
      BY <2>3, HostFacts DEF Clear, Active
    <3>2. \A v \in Tellers \ {w} : tell'[v] = tell[v] /\ (v[1] = "close" /\ v[2] = c => v = w)
      BY <1>0, <2>3 DEF Clear, Telling, Tellers
    <3>3. \A v \in Tellers \ {w} : Active(v)' => Active(v)
      BY <1>0, <2>3, <3>2 DEF Clear, Active, Sessions, Tellers
    <3> HIDE DEF w
    <3> QED BY <1>a, <3>1, <3>3
  <2>4. CASE Bind(c) \/ Ack(c) \/ TakeReport(c) \/ StoreReport(c) \/ ReadFails(c) \/ Closed(c)
    <3>1. ~mixed /\ UNCHANGED tell
      <4>1. UNCHANGED tell
        BY <2>4 DEF Bind, Ack, TakeReport, StoreReport, ReadFails, Closed
      <4>2. ~mixed
        BY <2>4, Zenon DEF Bind, Ack, TakeReport, StoreReport, ReadFails, Closed
      <4> QED BY <4>1, <4>2
    <3>2. \A d \in Conns : /\ reader'[d] = "tell" => reader[d] = "tell"
                           /\ closer'[d] \in {"clear", "tell"} => closer[d] \in {"clear", "tell"}
      BY <1>0, <2>4 DEF Bind, Ack, TakeReport, StoreReport, ReadFails, Closed, CloseOf, Sessions
    <3>3. \A v \in Tellers : Active(v)' => Active(v)
      BY <3>1, <3>2 DEF Active, Tellers
    <3> QED BY <1>b, <3>1, <3>3
  <2> QED BY <1>3, <2>1, <2>2, <2>3, <2>4 DEF SessionStep
<1>4. ASSUME NEW c \in Conns, ClientStep(c) \/ Cut(c) PROVE Solo'
  <2>1. UNCHANGED <<tell, reader, closer, mixed>>
    BY <1>4 DEF ClientStep, LoggedIn, UpdateTunnel, LoginFails, ConnectionLost, Leave, Cut
  <2> QED BY <1>b, <2>1 DEF Active
<1>5. ASSUME NEW c \in Conns, Dial(c) PROVE Solo'
  <2>1. UNCHANGED <<tell, mixed>>
    BY <1>5 DEF Dial
  <2>2. \A d \in Conns : /\ reader'[d] = "tell" => reader[d] = "tell"
                         /\ closer'[d] \in {"clear", "tell"} => closer[d] \in {"clear", "tell"}
    BY <1>0, <1>5 DEF Dial, Sessions
  <2>3. \A v \in Tellers : Active(v)' => Active(v)
    BY <2>1, <2>2 DEF Active, Tellers
  <2> QED BY <1>b, <2>1, <2>3
<1>6. CASE Restart
  <2>1. \A w \in Tellers : ~Active(w)'
    BY <1>6 DEF Restart, Active, Tellers
  <2> QED BY <2>1 DEF Solo
<1>7. CASE UNCHANGED vars
  BY <1>7, <1>b DEF vars, Active
<1> QED BY <1>1, <1>2, <1>3, <1>4, <1>5, <1>6, <1>7, StepCases

-----------------------------------------------------------------------------
\* Connections and sessions, and the tables

LEMMA SessionsOkStep == Typed /\ SessionsOk /\ [Next]_vars => SessionsOk'
<1> SUFFICES ASSUME Typed, SessionsOk, [Next]_vars PROVE SessionsOk'
  OBVIOUS
<1>0. Tables /\ Sessions /\ Links /\ Standing
  BY DEF Typed, ServerSide
<1> USE DEF serverVars, linkVars
<1>own. \A c \in Conns : Owner[c] \in Players /\ c # None
  BY HostFacts
<1>1. ASSUME NEW w \in Tellers, TellStep(w) PROVE SessionsOk'
  <2>1. UNCHANGED link
    BY <1>1 DEF TellStep, MakeUpdate, Push, Apply, Stop, Start, Install, Reaffirm
  <2> QED BY <1>1, <2>1, AtWork DEF SessionsOk
<1>2. ASSUME NEW r \in Requests,
             Remove(r) \/ \E t \in Tunnels : Erase(r, t) \/ \E k \in Confs : Add(r, t, k) \/ Update(r, t, k)
      PROVE  SessionsOk'
  <2>1. UNCHANGED <<reader, closer, bound, link, client>>
    BY <1>2 DEF Remove, Erase, Add, Update
  <2> QED BY <2>1 DEF SessionsOk
<1>3. ASSUME NEW c \in Conns, SessionStep(c) PROVE SessionsOk'
  <2>1. CASE Bind(c)
    <3>1. /\ reader[c] = "hello" /\ reader' = [reader EXCEPT ![c] = "bound"]
          /\ bound' = [bound EXCEPT ![Owner[c]] = c] /\ UNCHANGED <<link, client>>
          /\ closer' = IF bound[Owner[c]] = None THEN closer
                       ELSE [closer EXCEPT ![bound[Owner[c]]] = IF @ = "no" THEN "unbind" ELSE @]
      BY <2>1 DEF Bind, CloseOf
    <3>2. \A d \in Conns : closer'[d] = closer[d] \/ (closer[d] = "no" /\ closer'[d] = "unbind")
      BY <1>0, <3>1 DEF Sessions
    <3>3. bound[Owner[c]] # None => bound[Owner[c]] \in Conns /\ closer'[bound[Owner[c]]] # "no"
      BY <1>0, <1>own, <3>1 DEF Sessions, Tables
    <3>4. ASSUME NEW d \in Conns, reader'[d] \in {"bound", "tell", "read"}, closer'[d] = "no"
          PROVE  bound'[Owner[d]] = d
      <4>1. CASE d = c
        BY <1>0, <1>own, <3>1, <4>1 DEF Tables
      <4>2. CASE d # c
        <5>1. reader[d] = reader'[d] /\ closer[d] = "no"
          BY <1>0, <3>1, <3>2, <3>4, <4>2 DEF Sessions
        <5>2. bound[Owner[d]] = d
          BY <3>4, <5>1 DEF SessionsOk
        <5>3. Owner[d] # Owner[c]
          BY <1>own, <3>3, <3>4, <5>2
        <5> QED BY <1>0, <1>own, <3>1, <5>2, <5>3 DEF Tables
      <4> QED BY <4>1, <4>2
    <3>5. \A d \in Conns : /\ reader'[d] = "off" <=> reader[d] = "off"
                           /\ closer'[d] = "done" <=> closer[d] = "done"
      BY <1>0, <3>1, <3>2 DEF Sessions
    <3> QED BY <3>1, <3>4, <3>5 DEF SessionsOk
  <2>2. CASE Answer(c) \/ Ack(c)
    <3>1. /\ reader[c] \in {"bound", "tell"} /\ UNCHANGED <<bound, closer, link, client>>
          /\ \E s \in {"tell", "read"} : reader' = [reader EXCEPT ![c] = s]
      BY <2>2 DEF Answer, Ack
    <3> QED BY <1>0, <3>1 DEF SessionsOk, Sessions
  <2>3. CASE TakeReport(c) \/ StoreReport(c)
    BY <2>3 DEF TakeReport, StoreReport, SessionsOk
  <2>4. CASE ReadFails(c)
    <3>1. /\ reader[c] \in {"hello", "read"} /\ link[c] = "cut" /\ reader' = [reader EXCEPT ![c] = "over"]
          /\ UNCHANGED <<bound, link, client>>
          /\ \E s \in {"done", "unbind", closer[c]} : closer' = [closer EXCEPT ![c] = s]
      BY <1>0, <2>4 DEF ReadFails, CloseOf, Sessions
    <3>2. closer'[c] # "no" /\ \A d \in Conns \ {c} : closer'[d] = closer[d]
      BY <1>0, <2>4 DEF ReadFails, CloseOf, Sessions
    <3> QED BY <1>0, <3>1, <3>2 DEF SessionsOk, Sessions
  <2>5. CASE Unbind(c)
    <3>1. /\ closer[c] = "unbind" /\ closer' = [closer EXCEPT ![c] = "clear"]
          /\ bound' = [bound EXCEPT ![Owner[c]] = IF @ = c THEN None ELSE @]
          /\ UNCHANGED <<reader, link, client>>
      BY <2>5 DEF Unbind
    <3>2. \A d \in Conns \ {c} : bound[Owner[d]] = d => bound'[Owner[d]] = d
      BY <1>0, <1>own, <3>1 DEF Tables
    <3>3. closer'[c] = "clear" /\ \A d \in Conns \ {c} : closer'[d] = closer[d]
      BY <1>0, <3>1 DEF Sessions
    <3> QED BY <3>1, <3>2, <3>3 DEF SessionsOk
  <2>6. CASE Clear(c)
    <3>1. closer[c] = "clear" /\ closer' = [closer EXCEPT ![c] = "tell"] /\ UNCHANGED <<bound, reader, link, client>>
      BY <2>6 DEF Clear
    <3> QED BY <1>0, <3>1 DEF SessionsOk, Sessions
  <2>7. CASE Closed(c)
    <3>1. /\ closer[c] = "tell" /\ closer' = [closer EXCEPT ![c] = "done"]
          /\ link' = [link EXCEPT ![c] = "cut"] /\ UNCHANGED <<bound, reader, client>>
      BY <2>7 DEF Closed
    <3>2. link[c] # "off"
      BY <1>0, <3>1 DEF SessionsOk, Standing
    <3> QED BY <1>0, <3>1, <3>2 DEF SessionsOk, Sessions, Links
  <2> QED BY <1>3, <2>1, <2>2, <2>3, <2>4, <2>5, <2>6, <2>7 DEF SessionStep
<1>4. ASSUME NEW c \in Conns, LoggedIn(c) \/ UpdateTunnel(c) PROVE SessionsOk'
  <2>1. /\ UNCHANGED <<bound, reader, closer, link>> /\ client[c] \in {"login", "in"}
        /\ client' = [client EXCEPT ![c] = "in"] \/ UNCHANGED client
    BY <1>4 DEF LoggedIn, UpdateTunnel
  <2>2. client'[c] \in {"login", "in"} /\ \A d \in Conns \ {c} : client'[d] = client[d]
    BY <1>0, <2>1 DEF Links
  <2> QED BY <2>1, <2>2 DEF SessionsOk
<1>5. ASSUME NEW c \in Conns, LoginFails(c) \/ ConnectionLost(c) PROVE SessionsOk'
  <2>1. /\ UNCHANGED <<bound, reader, closer>> /\ client[c] \in {"login", "in"}
        /\ client' = [client EXCEPT ![c] = "closed"] /\ link' = [link EXCEPT ![c] = "cut"]
    BY <1>5 DEF LoginFails, ConnectionLost, Leave
  <2>2. /\ client'[c] = "closed" /\ link'[c] = "cut" /\ link[c] # "off"
        /\ \A d \in Conns \ {c} : link'[d] = link[d] /\ client'[d] = client[d]
    BY <1>0, <2>1 DEF SessionsOk, Links
  <2> QED BY <2>1, <2>2 DEF SessionsOk
<1>6. ASSUME NEW c \in Conns, Cut(c) PROVE SessionsOk'
  <2>1. link[c] = "up" /\ link' = [link EXCEPT ![c] = "cut"] /\ UNCHANGED <<bound, reader, closer, client>>
    BY <1>6 DEF Cut
  <2> QED BY <1>0, <2>1 DEF SessionsOk, Links
<1>7. ASSUME NEW c \in Conns, Dial(c) PROVE SessionsOk'
  <2>1. /\ \A d \in Conns : Owner[d] = Owner[c] => client[d] \in {"off", "closed"}
        /\ link' = [link EXCEPT ![c] = "up"] /\ client' = [client EXCEPT ![c] = "login"]
        /\ reader' = [reader EXCEPT ![c] = "hello"] /\ closer' = [closer EXCEPT ![c] = "no"]
        /\ UNCHANGED bound
    BY <1>7 DEF Dial
  <2>2. /\ link'[c] = "up" /\ client'[c] = "login" /\ reader'[c] = "hello" /\ closer'[c] = "no"
        /\ \A d \in Conns \ {c} : link'[d] = link[d] /\ client'[d] = client[d]
                                   /\ reader'[d] = reader[d] /\ closer'[d] = closer[d]
    BY <1>0, <2>1 DEF Sessions, Links
  <2> QED BY <2>1, <2>2 DEF SessionsOk
<1>8. CASE Restart
  <2>1. /\ bound' = NoneFor(Players) /\ UNCHANGED client
        /\ \A c \in Conns : /\ reader'[c] = (IF reader[c] = "off" THEN "off" ELSE "over")
                            /\ closer'[c] = (IF reader[c] = "off" THEN "no" ELSE "done")
                            /\ link'[c] = (IF link[c] = "up" THEN "cut" ELSE link[c])
    BY <1>8 DEF Restart
  <2> QED BY <2>1 DEF SessionsOk
<1>9. CASE UNCHANGED vars
  BY <1>9 DEF vars, SessionsOk
<1> QED BY <1>1, <1>2, <1>3, <1>4, <1>5, <1>6, <1>7, <1>8, <1>9, StepCases DEF ClientStep

LEMMA ApartStep == Typed /\ Apart /\ FreshFree /\ [Next]_vars => Apart' /\ FreshFree'
<1> SUFFICES ASSUME Typed, Apart, FreshFree, [Next]_vars PROVE Apart' /\ FreshFree'
  OBVIOUS
<1>0. Tables
  BY DEF Typed, ServerSide
<1> USE DEF serverVars, linkVars
<1>1. CASE UNCHANGED <<conf, fresh>>
  BY <1>1 DEF Apart, FreshFree
<1>2. ASSUME NEW r \in Requests, NEW t \in Tunnels, NEW k \in Confs, Add(r, t, k) \/ Update(r, t, k)
      PROVE  Apart' /\ FreshFree'
  <2>1. /\ PortFree(t, k) /\ conf' = [conf EXCEPT ![t] = k]
        /\ \/ fresh' = fresh \ {t}
           \/ fresh' = fresh /\ conf[t] # None
    BY <1>2 DEF Add, Update
  <2>2. conf'[t] = k /\ \A u \in Tunnels \ {t} : conf'[u] = conf[u]
    BY <1>0, <2>1 DEF Tables
  <2>3. Apart'
    BY <2>1, <2>2 DEF Apart, PortFree
  <2>4. FreshFree'
    BY <1>0, <2>1, <2>2 DEF FreshFree, Tables
  <2> QED BY <2>3, <2>4
<1>3. ASSUME NEW r \in Requests, Remove(r) PROVE Apart' /\ FreshFree'
  <2>1. fresh' = fresh /\ \A u \in Tunnels : conf'[u] = conf[u] \/ conf'[u] = None
    BY <1>0, <1>3 DEF Remove, Tables
  <2> QED BY <1>0, <2>1 DEF Apart, FreshFree, Tables
<1>4. CASE Restart
  <2>1. fresh' = fresh /\ \A u \in Tunnels : conf'[u] = conf[u] \/ conf'[u] = None
    BY <1>4 DEF Restart
  <2> QED BY <1>0, <2>1 DEF Apart, FreshFree, Tables
<1>5. ASSUME NEW r \in Requests, NEW t \in Tunnels, Erase(r, t) PROVE UNCHANGED <<conf, fresh>>
  BY <1>5 DEF Erase
<1>6. ASSUME NEW w \in Tellers, TellStep(w) PROVE UNCHANGED <<conf, fresh>>
  BY <1>6 DEF TellStep, MakeUpdate, Push, Apply, Stop, Start, Install, Reaffirm
<1>7. ASSUME NEW c \in Conns, SessionStep(c) PROVE UNCHANGED <<conf, fresh>>
  BY <1>7 DEF SessionStep, Bind, Answer, Ack, TakeReport, StoreReport, ReadFails, Unbind, Clear, Closed
<1>8. ASSUME NEW c \in Conns, ClientStep(c) \/ Dial(c) \/ Cut(c) PROVE UNCHANGED <<conf, fresh>>
  BY <1>8 DEF ClientStep, LoggedIn, UpdateTunnel, LoginFails, ConnectionLost, Leave, Dial, Cut
<1>9. CASE UNCHANGED vars
  BY <1>1, <1>9 DEF vars
<1> QED BY <1>1, <1>2, <1>3, <1>4, <1>5, <1>6, <1>7, <1>8, <1>9, StepCases

-----------------------------------------------------------------------------
\* A connection that is live was so before, and little has happened to it.

Kept(c) == reader'[c] = reader[c] /\ reply'[c] = reply[c] /\ down'[c] = down[c] /\ mgr'[c] = mgr[c]

PushTo(w, c) == Push(w) /\ bound[Head(tell[w].jobs).to] = c

LEMMA LiveStep ==
    ASSUME Typed, [Next]_vars, NEW c \in Conns, Live(c)'
    PROVE  \/ reader'[c] = "bound"
           \/ /\ Live(c)
              /\ \/ Kept(c)
                 \/ Answer(c) \/ Ack(c) \/ LoggedIn(c) \/ UpdateTunnel(c)
                 \/ \E w \in Tellers : PushTo(w, c)
<1> DEFINE Goal == \/ reader'[c] = "bound"
                   \/ /\ Live(c)
                      /\ \/ Kept(c)
                         \/ Answer(c) \/ Ack(c) \/ LoggedIn(c) \/ UpdateTunnel(c)
                         \/ \E w \in Tellers : PushTo(w, c)
<1>0. Tables /\ Sessions /\ Links /\ Standing /\ Hosted
  BY DEF Typed, ServerSide
<1>own. Owner[c] \in Players /\ c # None /\ c \in Hosts /\ c # Server
  BY HostFacts
<1>live. bound'[Owner[c]] = c /\ closer'[c] = "no" /\ link'[c] = "up" /\ ~Doomed(c)'
  BY DEF Live
<1> USE DEF serverVars, linkVars
<1>a. ASSUME bound[Owner[c]] = c, closer[c] = "no", link[c] = "up", client'[c] = client[c], Kept(c) PROVE Goal
  BY <1>a, <1>live DEF Live, Doomed, Kept
<1>b. ASSUME NEW m, down'[c] = Append(down[c], m), client'[c] = client[c] PROVE ~Doomed(c)
  <2>1. down[c] \in Seq(Pushes)
    BY <1>0 DEF Links
  <2>2. down[c] # <<>> => Append(down[c], m) # <<>> /\ Head(Append(down[c], m)) = Head(down[c])
    BY <2>1
  <2> QED BY <1>b, <1>live, <2>2 DEF Doomed
<1>1. ASSUME NEW w \in Tellers, TellStep(w) PROVE Goal
  <2>1. UNCHANGED <<bound, reader, closer, client, link, reply>>
    BY <1>1, AtWork DEF TellStep, MakeUpdate, Push, Apply, Stop, Start, Install, Reaffirm
  <2>2. mgr'[c] = mgr[c]
    BY <1>0, <1>1, <1>own DEF TellStep, MakeUpdate, Push, Apply, Stop, Start, Install, Reaffirm, Hosted
  <2>3. CASE PushTo(w, c)
    <3> DEFINE m == [tunnel |-> Head(tell[w].jobs).tunnel, conf |-> IF Head(tell[w].jobs).del THEN None ELSE tell[w].sends]
    <3>1. down'[c] = down[c] \/ down'[c] = Append(down[c], m)
      BY <1>0, <2>3 DEF PushTo, Push, Links
    <3>2. ~Doomed(c)
      BY <1>b, <1>live, <2>1, <3>1 DEF Doomed
    <3> QED BY <1>live, <2>1, <2>3, <3>2 DEF Live
  <2>4. CASE ~PushTo(w, c)
    <3>1. down'[c] = down[c]
      BY <1>0, <1>1, <2>4 DEF TellStep, MakeUpdate, Push, PushTo, Apply, Stop, Start, Install, Reaffirm, Links
    <3> QED BY <1>a, <1>live, <2>1, <2>2, <3>1 DEF Kept
  <2> QED BY <2>3, <2>4
<1>2. ASSUME NEW r \in Requests,
             Remove(r) \/ \E t \in Tunnels : Erase(r, t) \/ \E k \in Confs : Add(r, t, k) \/ Update(r, t, k)
      PROVE  Goal
  <2>1. UNCHANGED <<bound, reader, closer, client, link, reply, down, mgr>>
    BY <1>2 DEF Remove, Erase, Add, Update
  <2> QED BY <1>a, <1>live, <2>1 DEF Kept
<1>3. ASSUME NEW d \in Conns, SessionStep(d) PROVE Goal
  <2>1. CASE Bind(d)
    <3>1. /\ reader' = [reader EXCEPT ![d] = "bound"]
          /\ bound' = [bound EXCEPT ![Owner[d]] = d] /\ UNCHANGED <<link, client, reply, down, mgr>>
          /\ closer' = IF bound[Owner[d]] = None THEN closer
                       ELSE [closer EXCEPT ![bound[Owner[d]]] = IF @ = "no" THEN "unbind" ELSE @]
      BY <2>1 DEF Bind, CloseOf
    <3>2. CASE d = c
      BY <1>0, <3>1, <3>2 DEF Sessions
    <3>3. CASE d # c
      <4>1. bound[Owner[c]] = c
        BY <1>0, <1>own, <1>live, <3>1, <3>3 DEF Tables
      <4>2. closer[c] = "no"
        BY <1>0, <1>live, <3>1 DEF Sessions
      <4>3. reader'[c] = reader[c]
        BY <1>0, <3>1, <3>3 DEF Sessions
      <4> QED BY <1>a, <1>live, <3>1, <4>1, <4>2, <4>3 DEF Kept
    <3> QED BY <3>2, <3>3
  <2>2. CASE Answer(d)
    <3>1. UNCHANGED <<bound, closer, link, client, down, mgr>>
      BY <2>2 DEF Answer
    <3>2. CASE d = c
      <4>1. Live(c)
        BY <1>live, <3>1 DEF Live, Doomed
      <4> QED BY <2>2, <3>2, <4>1
    <3>3. CASE d # c
      <4>1. reader'[c] = reader[c] /\ reply'[c] = reply[c]
        BY <1>0, <2>2, <3>3 DEF Answer, Sessions
      <4> QED BY <1>a, <1>live, <3>1, <4>1 DEF Kept
    <3> QED BY <3>2, <3>3
  <2>3. CASE Ack(d)
    <3>1. UNCHANGED <<bound, closer, link, client, mgr>>
      BY <2>3 DEF Ack
    <3>2. CASE d = c
      <4>1. down'[c] = Append(down[c], [ack |-> reply[c]])
        BY <1>0, <1>live, <2>3, <3>1, <3>2 DEF Ack, Links
      <4>2. Live(c)
        BY <1>b, <1>live, <3>1, <4>1 DEF Live
      <4> QED BY <2>3, <3>2, <4>2
    <3>3. CASE d # c
      <4>1. reader'[c] = reader[c] /\ reply'[c] = reply[c] /\ down'[c] = down[c]
        BY <1>0, <2>3, <3>3 DEF Ack, Sessions, Links
      <4> QED BY <1>a, <1>live, <3>1, <4>1 DEF Kept
    <3> QED BY <3>2, <3>3
  <2>4. CASE TakeReport(d) \/ StoreReport(d)
    <3>1. UNCHANGED <<bound, reader, closer, client, link, reply, down, mgr>>
      BY <2>4 DEF TakeReport, StoreReport
    <3> QED BY <1>a, <1>live, <3>1 DEF Kept
  <2>5. CASE ReadFails(d)
    <3>1. d # c /\ reader'[c] = reader[c] /\ closer'[c] = closer[c]
      BY <1>0, <1>live, <2>5 DEF ReadFails, CloseOf, Sessions
    <3>2. UNCHANGED <<bound, client, link, reply, down, mgr>>
      BY <2>5 DEF ReadFails
    <3> QED BY <1>a, <1>live, <3>1, <3>2 DEF Kept
  <2>6. CASE Unbind(d)
    <3>1. d # c /\ closer'[c] = closer[c]
      BY <1>0, <1>live, <2>6 DEF Unbind, Sessions
    <3>2. bound[Owner[c]] = c
      BY <1>0, <1>own, <1>live, <2>6 DEF Unbind, Tables
    <3>3. UNCHANGED <<reader, client, link, reply, down, mgr>>
      BY <2>6 DEF Unbind
    <3> QED BY <1>a, <1>live, <3>1, <3>2, <3>3 DEF Kept
  <2>7. CASE Clear(d)
    <3>1. d # c /\ closer'[c] = closer[c]
      BY <1>0, <1>live, <2>7 DEF Clear, Sessions
    <3>2. UNCHANGED <<bound, reader, client, link, reply, down, mgr>>
      BY <2>7 DEF Clear
    <3> QED BY <1>a, <1>live, <3>1, <3>2 DEF Kept
  <2>8. CASE Closed(d)
    <3>1. d # c /\ closer'[c] = closer[c] /\ link'[c] = link[c]
      BY <1>0, <1>live, <2>8 DEF Closed, Sessions, Links
    <3>2. UNCHANGED <<bound, reader, client, reply, down, mgr>>
      BY <2>8 DEF Closed
    <3> QED BY <1>a, <1>live, <3>1, <3>2 DEF Kept
  <2> QED BY <1>3, <2>1, <2>2, <2>3, <2>4, <2>5, <2>6, <2>7, <2>8 DEF SessionStep
<1>4. ASSUME NEW d \in Conns, ClientStep(d) PROVE Goal
  <2>1. UNCHANGED <<bound, reader, closer, reply>>
    BY <1>4 DEF ClientStep, LoggedIn, UpdateTunnel, LoginFails, ConnectionLost, Leave
  <2>2. CASE d = c
    <3>1. CASE LoggedIn(c) \/ UpdateTunnel(c)
      <4>1. link'[c] = link[c] /\ ~Doomed(c)
        BY <3>1 DEF LoggedIn, UpdateTunnel, Doomed
      <4> QED BY <1>live, <2>1, <3>1, <4>1 DEF Live
    <3>2. CASE LoginFails(c) \/ ConnectionLost(c)
      BY <1>0, <1>live, <3>2 DEF LoginFails, ConnectionLost, Leave, Links
    <3> QED BY <1>4, <2>2, <3>1, <3>2 DEF ClientStep
  <2>3. CASE d # c
    <3>1. client'[c] = client[c] /\ link'[c] = link[c] /\ down'[c] = down[c]
      BY <1>0, <1>4, <2>3 DEF ClientStep, LoggedIn, UpdateTunnel, LoginFails, ConnectionLost, Leave, Links
    <3>2. mgr'[c] = mgr[c]
      BY <1>0, <1>4, <1>own, <2>3 DEF ClientStep, LoggedIn, UpdateTunnel, LoginFails, ConnectionLost, Leave, Hosted
    <3> QED BY <1>a, <1>live, <2>1, <3>1, <3>2 DEF Kept
  <2> QED BY <2>2, <2>3
<1>5. ASSUME NEW d \in Conns, Dial(d) PROVE Goal
  <2>1. d # c
    BY <1>0, <1>own, <1>live, <1>5 DEF Dial, Clean, Standing
  <2>2. /\ reader'[c] = reader[c] /\ closer'[c] = closer[c] /\ client'[c] = client[c]
        /\ link'[c] = link[c] /\ down'[c] = down[c]
    BY <1>0, <1>5, <2>1 DEF Dial, Sessions, Links
  <2>3. UNCHANGED <<bound, reply, mgr>>
    BY <1>5 DEF Dial
  <2> QED BY <1>a, <1>live, <2>2, <2>3 DEF Kept
<1>6. ASSUME NEW d \in Conns, Cut(d) PROVE Goal
  <2>1. link'[c] = link[c] /\ UNCHANGED <<bound, reader, closer, client, reply, down, mgr>>
    BY <1>0, <1>live, <1>6 DEF Cut, Links
  <2> QED BY <1>a, <1>live, <2>1 DEF Kept
<1>7. ASSUME Restart PROVE Goal
  BY <1>own, <1>live, <1>7 DEF Restart, NoneFor
<1>8. ASSUME UNCHANGED vars PROVE Goal
  <2>1. UNCHANGED <<bound, reader, closer, client, link, reply, down, mgr>>
    BY <1>8 DEF vars
  <2> QED BY <1>a, <1>live, <2>1 DEF Kept
<1> HIDE DEF Goal
<1>9. Goal
  <2>1. CASE \E w \in Tellers : TellStep(w)
    BY <1>1, <2>1
  <2>2. CASE \/ \E r \in Requests : Remove(r)
             \/ \E r \in Requests, t \in Tunnels : Erase(r, t)
             \/ \E r \in Requests, t \in Tunnels, k \in Confs : Add(r, t, k) \/ Update(r, t, k)
    BY <1>2, <2>2
  <2>3. CASE \E d \in Conns : SessionStep(d) \/ ClientStep(d) \/ Dial(d) \/ Cut(d)
    BY <1>3, <1>4, <1>5, <1>6, <2>3
  <2> QED BY <1>7, <1>8, <2>1, <2>2, <2>3, StepCases
<1> QED BY <1>9 DEF Goal

-----------------------------------------------------------------------------
\* What the jobs are that are begun

\* Both ends are told of the tunnel, and nobody else.
LEMMA NotifyJobs ==
    ASSUME NEW t, NEW k, NEW del
    PROVE  LET q == Notify(t, k, del)
           IN  /\ Len(q) \in Nat
               /\ \A i \in 1 .. Len(q) : /\ q[i].tunnel = t /\ q[i].conf = k /\ q[i] = Job(t, k, q[i].to, del)
                                         /\ q[i].to \in Ends(k)
               /\ \A p \in Ends(k) : \E i \in 1 .. Len(q) : q[i].to = p
<1> DEFINE a == Job(t, k, k.sender, del)
           b == Job(t, k, k.receiver, del)
<1>1. a.tunnel = t /\ a.conf = k /\ a.to = k.sender /\ a = Job(t, k, a.to, del)
  BY DEF Job
<1>2. b.tunnel = t /\ b.conf = k /\ b.to = k.receiver /\ b = Job(t, k, b.to, del)
  BY DEF Job
<1>3. Notify(t, k, del) = IF k.sender = k.receiver THEN <<a>> ELSE <<a, b>>
  BY DEF Notify
<1> HIDE DEF a, b
<1>4. CASE k.sender = k.receiver
  <2>1. Notify(t, k, del) = <<a>>
    BY <1>3, <1>4
  <2>2. Len(<<a>>) = 1 /\ <<a>>[1] = a
    OBVIOUS
  <2>3. \A i \in 1 .. 1 : i = 1
    OBVIOUS
  <2> QED BY <1>1, <1>4, <2>1, <2>2, <2>3 DEF Ends
<1>5. CASE k.sender # k.receiver
  <2>1. Notify(t, k, del) = <<a, b>>
    BY <1>3, <1>5
  <2>2. Len(<<a, b>>) = 2 /\ <<a, b>>[1] = a /\ <<a, b>>[2] = b
    OBVIOUS
  <2>3. \A i \in 1 .. 2 : i = 1 \/ i = 2
    OBVIOUS
  <2> QED BY <1>1, <1>2, <2>1, <2>2, <2>3 DEF Ends
<1> QED BY <1>4, <1>5

\* Everybody is told who is an end of the tunnel or was one; an end that is told
\* that the tunnel is gone is told of it again later.
LEMMA UpdateJobs ==
    ASSUME NEW t \in Tunnels, NEW old \in Confs, NEW k \in Confs
    PROVE  LET q == NotifyUpdate(t, old, k)
           IN  /\ Len(q) \in Nat
               /\ \A i \in 1 .. Len(q) : /\ q[i].tunnel = t /\ q[i].conf = k
                                         /\ q[i].to \in Ends(old) \cup Ends(k)
                                         /\ ~q[i].del => q[i].to \in Ends(k)
               /\ \A i \in 1 .. Len(q) : q[i].del /\ q[i].to \in Ends(k) =>
                     \E n \in (i + 1) .. Len(q) : q[n].to = q[i].to
               /\ \A p \in Ends(old) \cup Ends(k) : \E i \in 1 .. Len(q) : q[i].to = p
<1> DEFINE Lost(was, is) == IF was = is THEN <<>> ELSE <<Job(t, k, was, TRUE)>>
           A == Lost(old.sender, k.sender)
           B == Lost(old.receiver, k.receiver)
           N == Notify(t, k, FALSE)
           q == NotifyUpdate(t, old, k)
           D == A \o B
<1>1. q = D \o N
  BY DEF NotifyUpdate
<1>2. ASSUME NEW was \in Ends(old), NEW is
      PROVE  /\ Len(Lost(was, is)) \in Nat
             /\ \A i \in 1 .. Len(Lost(was, is)) :
                   /\ Lost(was, is)[i].tunnel = t /\ Lost(was, is)[i].conf = k /\ Lost(was, is)[i].del
                   /\ Lost(was, is)[i].to = was
             /\ was # is => 1 \in 1 .. Len(Lost(was, is)) /\ Lost(was, is)[1].to = was
  <2> DEFINE j == Job(t, k, was, TRUE)
  <2>1. j.tunnel = t /\ j.conf = k /\ j.del /\ j.to = was
    BY DEF Job
  <2> HIDE DEF j
  <2>2. Len(<<j>>) = 1 /\ <<j>>[1] = j /\ \A i \in 1 .. 1 : i = 1
    OBVIOUS
  <2>3. Len(<<>>) = 0 /\ \A i \in 1 .. 0 : FALSE
    OBVIOUS
  <2>4. Lost(was, is) = IF was = is THEN <<>> ELSE <<j>>
    BY DEF j
  <2> HIDE DEF Lost
  <2>5. CASE was = is
    BY <2>3, <2>4, <2>5
  <2>6. CASE was # is
    BY <2>1, <2>2, <2>4, <2>6
  <2> QED BY <2>5, <2>6
<1>3. old.sender \in Ends(old) /\ old.receiver \in Ends(old)
  BY DEF Ends
<1>4. N \in Seq(Jobs) /\ A \in Seq(Jobs) /\ B \in Seq(Jobs)
  <2>1. \A p \in Players \cup {Server} : Job(t, k, p, TRUE) \in Jobs
    BY DEF Job, Jobs
  <2>2. old.sender \in Players \cup {Server} /\ old.receiver \in Players \cup {Server}
    BY EffectiveTypes
  <2>3. \A S : <<>> \in Seq(S) /\ \A j \in S : <<j>> \in Seq(S)
    OBVIOUS
  <2>4. A \in Seq(Jobs)
    BY <2>1, <2>2, <2>3
  <2>5. B \in Seq(Jobs)
    BY <2>1, <2>2, <2>3
  <2> QED BY <2>4, <2>5, NotifyTypes
<1> HIDE DEF Lost
<1>5. /\ Len(A) \in Nat /\ \A i \in 1 .. Len(A) : /\ A[i].tunnel = t /\ A[i].conf = k /\ A[i].del
                                                  /\ A[i].to = old.sender
      /\ old.sender # k.sender => 1 \in 1 .. Len(A) /\ A[1].to = old.sender
  BY <1>2, <1>3
<1>6. /\ Len(B) \in Nat /\ \A i \in 1 .. Len(B) : /\ B[i].tunnel = t /\ B[i].conf = k /\ B[i].del
                                                  /\ B[i].to = old.receiver
      /\ old.receiver # k.receiver => 1 \in 1 .. Len(B) /\ B[1].to = old.receiver
  BY <1>2, <1>3
<1> HIDE DEF A, B
<1>7. /\ D \in Seq(Jobs) /\ Len(D) = Len(A) + Len(B)
      /\ \A i \in 1 .. Len(A) : i \in 1 .. Len(D) /\ D[i] = A[i]
      /\ \A i \in 1 .. Len(B) : i + Len(A) \in 1 .. Len(D) /\ D[i + Len(A)] = B[i]
      /\ \A i \in 1 .. Len(D) : \/ i \in 1 .. Len(A)
                                \/ i - Len(A) \in 1 .. Len(B) /\ i = (i - Len(A)) + Len(A)
  BY <1>4, <1>5, <1>6
<1>8. /\ \A i \in 1 .. Len(D) : /\ D[i].tunnel = t /\ D[i].conf = k /\ D[i].del
                                /\ D[i].to \in Ends(old)
      /\ old.sender # k.sender => \E i \in 1 .. Len(D) : D[i].to = old.sender
      /\ old.receiver # k.receiver => \E i \in 1 .. Len(D) : D[i].to = old.receiver
  <2>1. ASSUME NEW i \in 1 .. Len(D)
        PROVE  /\ D[i].tunnel = t /\ D[i].conf = k /\ D[i].del
               /\ D[i].to \in Ends(old)
    <3>1. CASE i \in 1 .. Len(A)
      BY <1>3, <1>5, <1>7, <3>1
    <3>2. CASE i - Len(A) \in 1 .. Len(B) /\ i = (i - Len(A)) + Len(A)
      BY <1>3, <1>6, <1>7, <3>2
    <3> QED BY <1>7, <2>1, <3>1, <3>2
  <2>2. old.sender # k.sender => \E i \in 1 .. Len(D) : D[i].to = old.sender
    BY <1>5, <1>7
  <2>3. old.receiver # k.receiver => \E i \in 1 .. Len(D) : D[i].to = old.receiver
    BY <1>6, <1>7
  <2> QED BY <2>1, <2>2, <2>3
<1>9. /\ Len(N) \in Nat
      /\ \A i \in 1 .. Len(N) : /\ N[i].tunnel = t /\ N[i].conf = k /\ ~N[i].del /\ N[i].to \in Ends(k)
      /\ \A p \in Ends(k) : \E i \in 1 .. Len(N) : N[i].to = p
  <2>0. PICK no : no = FALSE
    OBVIOUS
  <2>1. \A p : ~Job(t, k, p, no).del
    BY <2>0 DEF Job
  <2>2. LET n0 == Notify(t, k, no)
        IN  /\ Len(n0) \in Nat
            /\ \A i \in 1 .. Len(n0) : /\ n0[i].tunnel = t /\ n0[i].conf = k /\ n0[i].to \in Ends(k)
                                      /\ n0[i] = Job(t, k, n0[i].to, no)
            /\ \A p \in Ends(k) : \E i \in 1 .. Len(n0) : n0[i].to = p
    BY NotifyJobs
  <2>3. N = Notify(t, k, no)
    BY <2>0
  <2> HIDE DEF N
  <2>4. \A i \in 1 .. Len(N) : ~N[i].del
    BY <2>1, <2>2, <2>3
  <2> QED BY <2>2, <2>3, <2>4
<1> HIDE DEF D, N
<1>10. /\ Len(D) \in Nat /\ Len(D \o N) = Len(D) + Len(N)
       /\ \A i \in 1 .. Len(D) : i \in 1 .. Len(D \o N) /\ (D \o N)[i] = D[i]
       /\ \A i \in 1 .. Len(N) : i + Len(D) \in 1 .. Len(D \o N) /\ (D \o N)[i + Len(D)] = N[i]
       /\ \A i \in 1 .. Len(D \o N) : \/ i \in 1 .. Len(D)
                                      \/ i - Len(D) \in 1 .. Len(N) /\ i = (i - Len(D)) + Len(D)
  <2>1. D \in Seq(Jobs) /\ N \in Seq(Jobs)
    BY <1>4, <1>7
  <2>2. Len(D) \in Nat /\ Len(N) \in Nat /\ Len(D \o N) = Len(D) + Len(N)
    BY <2>1
  <2>3. \A i \in 1 .. Len(D \o N) : (D \o N)[i] = IF i <= Len(D) THEN D[i] ELSE N[i - Len(D)]
    BY <2>1
  <2> QED BY <2>2, <2>3
<1> HIDE DEF q
<1>11. /\ Len(q) \in Nat /\ Len(q) = Len(D) + Len(N)
       /\ \A i \in 1 .. Len(D) : i \in 1 .. Len(q) /\ q[i] = D[i]
       /\ \A i \in 1 .. Len(N) : i + Len(D) \in 1 .. Len(q) /\ q[i + Len(D)] = N[i]
       /\ \A i \in 1 .. Len(q) : \/ i \in 1 .. Len(D)
                                 \/ i - Len(D) \in 1 .. Len(N) /\ i = (i - Len(D)) + Len(D)
  BY <1>1, <1>9, <1>10
<1>12. \A p \in Ends(k) : \E i \in 1 .. Len(N) : q[i + Len(D)].to = p /\ i + Len(D) \in 1 .. Len(q)
  BY <1>9, <1>11
<1>13. ASSUME NEW i \in 1 .. Len(q)
       PROVE  /\ q[i].tunnel = t /\ q[i].conf = k /\ q[i].to \in Ends(old) \cup Ends(k)
              /\ ~q[i].del => q[i].to \in Ends(k)
              /\ q[i].del => i \in 1 .. Len(D)
  <2>1. CASE i \in 1 .. Len(D)
    BY <1>8, <1>11, <2>1
  <2>2. CASE i - Len(D) \in 1 .. Len(N) /\ i = (i - Len(D)) + Len(D)
    <3>1. PICK m \in 1 .. Len(N) : i = m + Len(D)
      BY <2>2
    <3>2. q[i] = N[m]
      BY <1>11, <3>1
    <3>3. N[m].tunnel = t /\ N[m].conf = k /\ ~N[m].del /\ N[m].to \in Ends(k)
      BY <1>9
    <3> QED BY <3>2, <3>3
  <2> QED BY <1>11, <1>13, <2>1, <2>2
<1>14. ASSUME NEW i \in 1 .. Len(q), q[i].del, q[i].to \in Ends(k)
       PROVE  \E n \in (i + 1) .. Len(q) : q[n].to = q[i].to
  <2>1. i \in 1 .. Len(D)
    BY <1>13, <1>14
  <2>2. PICK n \in 1 .. Len(N) : q[n + Len(D)].to = q[i].to /\ n + Len(D) \in 1 .. Len(q)
    BY <1>12, <1>14
  <2>3. n + Len(D) \in (i + 1) .. Len(q)
    BY <1>9, <1>10, <1>11, <2>1, <2>2
  <2> QED BY <2>2, <2>3
<1>15. ASSUME NEW p \in Ends(old) \cup Ends(k) PROVE \E i \in 1 .. Len(q) : q[i].to = p
  <2>1. CASE p \in Ends(k)
    BY <1>12, <2>1
  <2>2. CASE p \notin Ends(k)
    <3>1. \/ p = old.sender /\ old.sender # k.sender
          \/ p = old.receiver /\ old.receiver # k.receiver
      BY <1>15, <2>2 DEF Ends
    <3>2. \E i \in 1 .. Len(D) : D[i].to = p
      BY <1>8, <3>1
    <3> QED BY <1>11, <3>2
  <2> QED BY <2>1, <2>2
<1> QED BY <1>11, <1>13, <1>14, <1>15 DEF q

LEMMA ListedAll ==
    ASSUME NEW S, IsFiniteSet(S)
    PROVE  /\ \A i \in 1 .. Len(Listed(S)) : Listed(S)[i] \in S
           /\ \A x \in S : \E i \in 1 .. Len(Listed(S)) : Listed(S)[i] = x
<1>1. Cardinality(S) \in Nat
  BY FS_CardinalityType
<1>2. PICK f : f \in Bijection(1 .. Cardinality(S), S)
  BY FS_CardinalityType DEF ExistsBijection
<1>3. f \in [1 .. Cardinality(S) -> S] /\ \A x \in S : \E i \in DOMAIN f : f[i] = x
  BY <1>2 DEF Bijection, Injection, Surjection
<1>4. Listed(S) \in [1 .. Cardinality(S) -> S] /\ \A x \in S : \E i \in DOMAIN Listed(S) : Listed(S)[i] = x
  BY <1>3 DEF Listed
<1> HIDE DEF Listed
<1>5. DOMAIN Listed(S) = 1 .. Cardinality(S) /\ Len(Listed(S)) = Cardinality(S)
  BY <1>1, <1>4
<1> QED BY <1>4, <1>5

\* The other end of every tunnel of the player is told, and nobody else.
LEMMA BroadcastJobs ==
    ASSUME Tables, NEW p \in Players
    PROVE  LET q == Broadcast(p)
           IN  /\ \A i \in 1 .. Len(q) :
                     /\ q[i].tunnel \in Tunnels /\ conf[q[i].tunnel] # None /\ q[i].conf = conf[q[i].tunnel]
                     /\ q[i].to \in Ends(q[i].conf) /\ ~q[i].del
               /\ \A t \in TunnelsOf(p) : conf[t].sender # conf[t].receiver =>
                     \E i \in 1 .. Len(q) : q[i].tunnel = t /\ q[i].to = OtherEnd(conf[t], p)
<1> DEFINE Shared == {u \in TunnelsOf(p) : conf[u].sender # conf[u].receiver}
           J(t) == Job(t, conf[t], OtherEnd(conf[t], p), FALSE)
           Said == {J(t) : t \in Shared}
<1>1. IsFiniteSet(Shared)
  BY ControlAssumption, FS_Subset DEF TunnelsOf
<1>2. IsFiniteSet(Said)
  <2> DEFINE f == [t \in Shared |-> J(t)]
  <2>1. f \in Surjection(Shared, Said)
    BY DEF Surjection
  <2> HIDE DEF f, Said, Shared
  <2> QED BY <1>1, <2>1, FS_Surjection
<1>3. Broadcast(p) = Listed(Said)
  BY DEF Broadcast
<1>4. \A t \in Shared : J(t).tunnel = t /\ J(t).conf = conf[t] /\ J(t).to = OtherEnd(conf[t], p) /\ ~J(t).del
  BY DEF Job
<1>5. \A t \in Shared : t \in Tunnels /\ conf[t] # None /\ OtherEnd(conf[t], p) \in Ends(conf[t])
  BY DEF TunnelsOf, OtherEnd, Ends
<1>6. \A x \in Said : \E t \in Shared : x = J(t)
  OBVIOUS
<1>7. \A t \in Shared : J(t) \in Said
  OBVIOUS
<1> HIDE DEF Said, J
<1>8. /\ \A i \in 1 .. Len(Listed(Said)) : Listed(Said)[i] \in Said
      /\ \A x \in Said : \E i \in 1 .. Len(Listed(Said)) : Listed(Said)[i] = x
  BY <1>2, ListedAll
<1>9. ASSUME NEW i \in 1 .. Len(Listed(Said))
      PROVE  LET x == Listed(Said)[i]
             IN  /\ x.tunnel \in Tunnels /\ conf[x.tunnel] # None /\ x.conf = conf[x.tunnel]
                 /\ x.to \in Ends(x.conf) /\ ~x.del
  <2>1. PICK t \in Shared : Listed(Said)[i] = J(t)
    BY <1>6, <1>8
  <2> QED BY <1>4, <1>5, <2>1
<1>10. ASSUME NEW t \in TunnelsOf(p), conf[t].sender # conf[t].receiver
       PROVE  \E i \in 1 .. Len(Listed(Said)) : Listed(Said)[i].tunnel = t /\ Listed(Said)[i].to = OtherEnd(conf[t], p)
  <2>1. t \in Shared
    BY <1>10
  <2>2. J(t) \in Said
    BY <1>7, <2>1
  <2> QED BY <1>4, <1>8, <2>1, <2>2
<1> QED BY <1>3, <1>9, <1>10

-----------------------------------------------------------------------------
\* What was right stays right.

\* A step that changes nothing that what is right depends on
Quietly ==
    /\ UNCHANGED <<conf, bound, tell>> /\ mgr'[Server] = mgr[Server]
    /\ \A c \in Conns : /\ reader[c] = "bound" <=> reader'[c] = "bound"
                        /\ closer[c] = "clear" <=> closer'[c] = "clear"

LEMMA QuietRight ==
    ASSUME Quietly, NEW p, NEW t, NEW k
    PROVE  Right(p, t, k)' <=> Right(p, t, k)
<1>1. Shaky(p, t)' <=> Shaky(p, t)
  BY DEF Quietly, Shaky
<1>2. (Pending(t, p)' <=> Pending(t, p)) /\ (Rewritten(t, p)' <=> Rewritten(t, p))
  BY DEF Quietly, Pending, Rewritten, Owes
<1>3. Effective(conf[t])' = Effective(conf[t]) /\ conf' = conf
  BY DEF Quietly, Effective, Available
<1> QED BY <1>1, <1>2, <1>3 DEF Right, Expected, SameBut

LEMMA RightGrows ==
    ASSUME NEW p, NEW t, NEW k, Right(p, t, k), conf'[t] = conf[t],
           Pending(t, p) => Pending(t, p)', Rewritten(t, p) => Rewritten(t, p)',
           conf[t] # None /\ p \in Ends(conf[t]) =>
              \/ Shaky(p, t)' \/ Pending(t, p)'
              \/ Effective(conf[t])' = Effective(conf[t]) /\ ~Shaky(p, t)
    PROVE  Right(p, t, k)'
BY DEF Right, Expected, SameBut

\* A configuration is sent as before while both its ends are there as before.
LEMMA EffectiveSame ==
    ASSUME NEW t, conf'[t] = conf[t],
           \A p \in Ends(conf[t]) : p # Server => (bound'[p] = None <=> bound[p] = None)
    PROVE  Effective(conf[t])' = Effective(conf[t])
<1>1. conf[t].sender \in Ends(conf[t]) /\ conf[t].receiver \in Ends(conf[t])
  BY DEF Ends
<1>2. /\ Available(conf[t].sender)' <=> Available(conf[t].sender)
      /\ Available(conf[t].receiver)' <=> Available(conf[t].receiver)
  BY <1>1 DEF Available
<1> QED BY <1>2 DEF Effective

\* A login that binds the player's session, and a Close that gives it up: the other
\* ends will be told.
LEMMA BindRight ==
    ASSUME Typed, NEW c \in Conns, Bind(c), NEW p, p # Owner[c], NEW t, NEW k, Right(p, t, k)
    PROVE  Right(p, t, k)'
<1>0. Tables /\ Sessions /\ Owner[c] \in Players
  BY HostFacts DEF Typed, ServerSide
<1>1. /\ reader'[c] = "bound" /\ UNCHANGED <<conf, tell>>
      /\ \A d \in Conns : /\ reader[d] = "bound" => reader'[d] = "bound"
                          /\ closer[d] = "clear" => closer'[d] = "clear"
      /\ \A x : x # Owner[c] => bound'[x] = bound[x]
  BY <1>0 DEF Bind, CloseOf, Sessions, Tables
<1>2. Shaky(p, t) => Shaky(p, t)'
  BY <1>1 DEF Shaky
<1>3. Owner[c] \in Ends(conf[t]) => Shaky(p, t)'
  BY <1>1 DEF Shaky
<1>4. Owner[c] \notin Ends(conf[t]) => Effective(conf[t])' = Effective(conf[t])
  BY <1>1, EffectiveSame
<1>5. (Pending(t, p) => Pending(t, p)') /\ (Rewritten(t, p) => Rewritten(t, p)')
  BY <1>1 DEF Pending, Rewritten, Owes
<1> QED BY <1>1, <1>2, <1>3, <1>4, <1>5, RightGrows

LEMMA UnbindRight ==
    ASSUME Typed, NEW c \in Conns, Unbind(c), NEW p, p # Owner[c] \/ bound[Owner[c]] # c,
           NEW t, NEW k, Right(p, t, k)
    PROVE  Right(p, t, k)'
<1>0. Tables /\ Sessions /\ Owner[c] \in Players
  BY HostFacts DEF Typed, ServerSide
<1>1. /\ closer'[c] = "clear" /\ UNCHANGED <<conf, tell, reader>>
      /\ \A d \in Conns : closer[d] = "clear" => closer'[d] = "clear"
      /\ \A x : x # Owner[c] => bound'[x] = bound[x]
      /\ bound[Owner[c]] # c => bound' = bound
  BY <1>0 DEF Unbind, Sessions, Tables
<1>2. Shaky(p, t) => Shaky(p, t)'
  BY <1>1 DEF Shaky
<1>3. p # Owner[c] /\ Owner[c] \in Ends(conf[t]) => Shaky(p, t)'
  BY <1>1 DEF Shaky
<1>4. bound[Owner[c]] # c \/ Owner[c] \notin Ends(conf[t]) => Effective(conf[t])' = Effective(conf[t])
  BY <1>1, EffectiveSame
<1>5. (Pending(t, p) => Pending(t, p)') /\ (Rewritten(t, p) => Rewritten(t, p)')
  BY <1>1 DEF Pending, Rewritten, Owes
<1> QED BY <1>1, <1>2, <1>3, <1>4, <1>5, RightGrows

\* Somebody begins to tell.
LEMMA OwesMore ==
    ASSUME Telling, NEW w \in Tellers, tell[w] = Idle, \A v \in Tellers \ {w} : tell'[v] = tell[v], NEW t, NEW p
    PROVE  /\ Pending(t, p) => Pending(t, p)'
           /\ Rewritten(t, p) => Rewritten(t, p)'
<1>1. ~Owes(w, t, p)
  BY DEF Owes, Idle
<1>2. \A v \in Tellers \ {w} : Owes(v, t, p)' <=> Owes(v, t, p)
  BY DEF Owes
<1>3. \A r \in Requests : <<"web", r>> \in Tellers
  BY HostFacts
<1> QED BY <1>1, <1>2, <1>3 DEF Pending, Rewritten

LEMMA BroadcastRight ==
    ASSUME Typed, NEW c \in Conns, NEW w \in Tellers, tell[w] = Idle,
           tell' = [tell EXCEPT ![w].jobs = Broadcast(Owner[c])], UNCHANGED <<conf, bound>>,
           \A d \in Conns \ {c} : reader'[d] = reader[d] /\ closer'[d] = closer[d],
           NEW p, NEW t \in Tunnels, NEW k, Right(p, t, k)
    PROVE  Right(p, t, k)'
<1>0. Tables /\ Telling /\ Owner[c] \in Players
  BY HostFacts DEF Typed, ServerSide
<1>1. /\ \A v \in Tellers \ {w} : tell'[v] = tell[v]
      /\ tell'[w].jobs = Broadcast(Owner[c])
  BY <1>0 DEF Telling, Told
<1>2. (Pending(t, p) => Pending(t, p)') /\ (Rewritten(t, p) => Rewritten(t, p)')
  BY <1>0, <1>1, OwesMore
<1>3. ASSUME conf[t] # None, Owner[c] # p, {p, Owner[c]} \subseteq Ends(conf[t]) PROVE Pending(t, p)'
  <2>1. t \in TunnelsOf(Owner[c]) /\ conf[t].sender # conf[t].receiver /\ OtherEnd(conf[t], Owner[c]) = p
    BY <1>3 DEF TunnelsOf, Ends, OtherEnd
  <2>2. \E i \in 1 .. Len(tell'[w].jobs) : tell'[w].jobs[i].tunnel = t /\ tell'[w].jobs[i].to = p
    BY <1>0, <1>1, <2>1, BroadcastJobs
  <2> QED BY <2>2 DEF Pending, Owes
<1>4. ASSUME conf[t] # None, p \in Ends(conf[t]), Shaky(p, t) PROVE Shaky(p, t)' \/ Pending(t, p)'
  BY <1>3, <1>4 DEF Shaky
<1>5. Effective(conf[t])' = Effective(conf[t]) /\ conf'[t] = conf[t]
  BY DEF Effective, Available
<1> QED BY <1>2, <1>4, <1>5, RightGrows

\* A job goes on: nobody's claim on it is touched.
LEMMA WorkRight ==
    ASSUME Typed, NEW w \in Tellers, tell'[w].jobs = tell[w].jobs, \A v \in Tellers \ {w} : tell'[v] = tell[v],
           UNCHANGED <<conf, bound, reader, closer>>, NEW p, NEW t, NEW k
    PROVE  Right(p, t, k)' <=> Right(p, t, k)
<1>1. Shaky(p, t)' <=> Shaky(p, t)
  BY DEF Shaky
<1>2. \A v \in Tellers : Owes(v, t, p)' <=> Owes(v, t, p)
  BY DEF Owes
<1>3. (Pending(t, p)' <=> Pending(t, p)) /\ (Rewritten(t, p)' <=> Rewritten(t, p))
  BY <1>2, HostFacts DEF Pending, Rewritten
<1>4. Effective(conf[t])' = Effective(conf[t])
  BY DEF Effective, Available
<1> QED BY <1>1, <1>3, <1>4 DEF Right, Expected, SameBut

LEMMA TailElements ==
    ASSUME NEW S, NEW q \in Seq(S), q # <<>>
    PROVE  /\ Tail(q) \in Seq(S) /\ Len(q) \in Nat \ {0} /\ Len(Tail(q)) = Len(q) - 1 /\ Head(q) = q[1]
           /\ \A i \in 2 .. Len(q) : i - 1 \in 1 .. Len(Tail(q)) /\ Tail(q)[i - 1] = q[i]
           /\ \A i \in 1 .. Len(Tail(q)) : i + 1 \in 2 .. Len(q) /\ Tail(q)[i] = q[i + 1]
<1>1. /\ Tail(q) \in Seq(S) /\ Len(q) \in Nat \ {0} /\ Len(Tail(q)) = Len(q) - 1 /\ Head(q) = q[1]
      /\ \A i \in 1 .. Len(q) - 1 : Tail(q)[i] = q[i + 1]
  OBVIOUS
<1>2. ASSUME NEW i \in 2 .. Len(q) PROVE i - 1 \in 1 .. Len(Tail(q)) /\ Tail(q)[i - 1] = q[i]
  <2>1. i - 1 \in 1 .. Len(q) - 1 /\ (i - 1) + 1 = i
    BY <1>1
  <2> QED BY <1>1, <2>1
<1> QED BY <1>1, <1>2

\* A job is done with: only who was told has no more claim on it.
LEMMA FinishRight ==
    ASSUME Typed, NEW w \in Tellers, tell[w].jobs # <<>>, tell' = Finished(w),
           UNCHANGED <<conf, bound, reader, closer>>, NEW p, NEW t,
           t # Head(tell[w].jobs).tunnel \/ p # Head(tell[w].jobs).to,
           NEW k, Right(p, t, k)
    PROVE  Right(p, t, k)'
<1>0. Telling /\ tell[w].jobs \in Seq(Jobs)
  BY DEF Typed, ServerSide, Telling, Told
<1>1. /\ \A v \in Tellers \ {w} : tell'[v] = tell[v]
      /\ tell'[w].jobs = Tail(tell[w].jobs)
  BY <1>0, FinishedTypes DEF Finished, Idle, Telling
<1>2. Owes(w, t, p) => Owes(w, t, p)'
  <2>1. SUFFICES ASSUME NEW i \in 1 .. Len(tell[w].jobs), tell[w].jobs[i].tunnel = t, tell[w].jobs[i].to = p
                 PROVE  Owes(w, t, p)'
    BY DEF Owes
  <2>2. i # 1
    BY <1>0, <2>1, TailElements
  <2>3. i - 1 \in 1 .. Len(Tail(tell[w].jobs)) /\ Tail(tell[w].jobs)[i - 1] = tell[w].jobs[i]
    BY <1>0, <2>2, TailElements
  <2> QED BY <1>1, <2>1, <2>3 DEF Owes
<1>3. \A v \in Tellers : Owes(v, t, p) => Owes(v, t, p)'
  BY <1>1, <1>2 DEF Owes
<1>4. (Pending(t, p) => Pending(t, p)') /\ (Rewritten(t, p) => Rewritten(t, p)')
  BY <1>3, HostFacts DEF Pending, Rewritten
<1>5. Effective(conf[t])' = Effective(conf[t]) /\ (Shaky(p, t) => Shaky(p, t)')
  BY DEF Effective, Available, Shaky
<1> QED BY <1>4, <1>5, RightGrows

\* Who has been told has the right thing, or is told again.
LEMMA LastRight ==
    ASSUME Typed, JobsOk, NEW w \in Tellers, HandOk(w), tell[w].at \in {"push"} \cup Applying, tell' = Finished(w),
           UNCHANGED <<conf, bound, reader, closer>>,
           NEW p, p = Head(tell[w].jobs).to,
           p = Server \/ (bound[p] # None /\ reader[bound[p]] # "bound"),
           NEW t, t = Head(tell[w].jobs).tunnel,
           NEW k, k = IF Head(tell[w].jobs).del THEN None ELSE tell[w].sends
    PROVE  Right(p, t, k)'
<1> DEFINE j == Head(tell[w].jobs)
<1>0. /\ Telling /\ Tables /\ tell[w].jobs \in Seq(Jobs) /\ tell[w].jobs # <<>> /\ tell[w].sends \in Tunnel
      /\ t \in Tunnels
  BY WorkHasJob DEF Typed, ServerSide, Telling, Told, Applying
<1>1. /\ \A v \in Tellers \ {w} : tell'[v] = tell[v]
      /\ tell'[w].jobs = Tail(tell[w].jobs)
  BY <1>0, FinishedTypes DEF Finished, Idle, Telling
<1>2. Effective(conf[t])' = Effective(conf[t]) /\ (Shaky(p, t) => Shaky(p, t)')
  BY DEF Effective, Available, Shaky
<1>3. 1 \in 1 .. Len(tell[w].jobs) /\ tell[w].jobs[1] = j
  BY <1>0
<1>4. JobOk(w, 1)
  BY <1>3 DEF JobsOk, Applying
<1>5. CASE ~j.del
  <2>1. conf[t] # None /\ p \in Ends(conf[t])
    BY <1>3, <1>4, <1>5 DEF JobOk
  <2>2. Current(j, tell[w].sends)
    BY <1>5 DEF HandOk
  <2>3. SameBut(k, conf[t]) /\ (k = Effective(conf[t]) \/ Shaky(p, t))
    BY <1>5, <2>2 DEF Current
  <2> QED BY <1>2, <2>1, <2>3 DEF Right, Expected, SameBut
<1>6. CASE j.del
  <2>1. k = None
    BY <1>6
  <2>2. CASE conf[t] = None \/ p \notin Ends(conf[t])
    BY <2>1, <2>2 DEF Right, Expected
  <2>3. CASE conf[t] # None /\ p \in Ends(conf[t])
    <3>1. PICK n \in 2 .. Len(tell[w].jobs) : tell[w].jobs[n].tunnel = t /\ tell[w].jobs[n].to = p
      BY <1>3, <1>4, <1>6, <2>3 DEF JobOk
    <3>2. n - 1 \in 1 .. Len(Tail(tell[w].jobs)) /\ Tail(tell[w].jobs)[n - 1] = tell[w].jobs[n]
      BY <1>0, TailElements
    <3>3. Owes(w, t, p)'
      BY <1>1, <3>1, <3>2 DEF Owes
    <3>4. w[1] = "web"
      BY <1>3, <1>4, <1>6 DEF JobOk
    <3>5. PICK r \in Requests : w = <<"web", r>>
      BY <3>4 DEF Tellers
    <3>6. Rewritten(t, p)'
      BY <3>3, <3>5 DEF Rewritten
    <3> QED BY <3>6 DEF Right
  <2> QED BY <2>2, <2>3
<1> QED BY <1>5, <1>6

\* A tunnel is added, changed or removed: all its ends, old and new, will be told.
LEMMA ConfRight ==
    ASSUME Typed, NEW r \in Requests, NEW u \in Tunnels, NEW new,
           \A v \in Tellers \ {<<"web", r>>} : tell'[v] = tell[v],
           conf' = [conf EXCEPT ![u] = new], UNCHANGED <<bound, reader, closer>>,
           \A x, y : Owes(<<"web", r>>, x, y) => Owes(<<"web", r>>, x, y)',
           \A x : (conf[u] # None /\ x \in Ends(conf[u])) \/ (new # None /\ x \in Ends(new)) => Owes(<<"web", r>>, u, x)',
           NEW p, NEW t \in Tunnels, NEW k, Right(p, t, k)
    PROVE  Right(p, t, k)'
<1>0. Tables
  BY DEF Typed, ServerSide
<1>1. \A v \in Tellers : Owes(v, t, p) => Owes(v, t, p)'
  <2>1. \A v \in Tellers \ {<<"web", r>>} : Owes(v, t, p) => Owes(v, t, p)'
    BY DEF Owes
  <2>2. Owes(<<"web", r>>, t, p) => Owes(<<"web", r>>, t, p)'
    OBVIOUS
  <2> QED BY <2>1, <2>2
<1>2. (Pending(t, p) => Pending(t, p)') /\ (Rewritten(t, p) => Rewritten(t, p)')
  BY <1>1, HostFacts DEF Pending, Rewritten
<1>3. CASE t # u
  <2>1. conf'[t] = conf[t]
    BY <1>0, <1>3 DEF Tables
  <2>2. Effective(conf[t])' = Effective(conf[t]) /\ (Shaky(p, t) => Shaky(p, t)')
    BY <2>1 DEF Effective, Available, Shaky
  <2> QED BY <1>2, <2>1, <2>2, RightGrows
<1>4. CASE t = u
  <2>1. conf'[t] = new
    BY <1>0, <1>4 DEF Tables
  <2>2. CASE (conf[u] # None /\ p \in Ends(conf[u])) \/ (new # None /\ p \in Ends(new))
    BY <1>4, <2>2 DEF Right, Rewritten
  <2>3. CASE ~((conf[u] # None /\ p \in Ends(conf[u])) \/ (new # None /\ p \in Ends(new)))
    BY <1>2, <1>4, <2>1, <2>3 DEF Right, Expected
  <2> QED BY <2>2, <2>3
<1> QED BY <1>3, <1>4

LEMMA WebRight ==
    ASSUME Typed, FreshFree, EraseOk, NEW r \in Requests,
           Remove(r) \/ \E t \in Tunnels : Erase(r, t) \/ \E k \in Confs : Add(r, t, k) \/ Update(r, t, k),
           NEW p, NEW t \in Tunnels, NEW k, Right(p, t, k)
    PROVE  Right(p, t, k)'
<1> DEFINE w == <<"web", r>>
<1>0. Tables /\ Telling /\ Works /\ w \in Tellers /\ tell[w] \in Told /\ Erasing
  BY HostFacts DEF Typed, ServerSide, Telling
<1>1. /\ \A v \in Tellers \ {w} : tell'[v] = tell[v]
      /\ UNCHANGED <<bound, reader, closer>>
  BY <1>0 DEF Remove, Erase, Add, Update, Telling
<1>2. ASSUME tell[w] = Idle PROVE \A x, y : Owes(w, x, y) => Owes(w, x, y)'
  BY <1>2 DEF Owes, Idle
<1>N. ASSUME NEW u, NEW k1, NEW del
      PROVE  \A x \in Ends(k1) : \E i \in 1 .. Len(Notify(u, k1, del)) :
                 Notify(u, k1, del)[i].to = x /\ Notify(u, k1, del)[i].tunnel = u
  BY NotifyJobs
<1>3. ASSUME Remove(r) PROVE Right(p, t, k)'
  <2>1. PICK u : u = Head(tell[w].jobs).tunnel
    OBVIOUS
  <2>2. PICK l : l = conf[u]
    OBVIOUS
  <2>3. PICK yes : yes = TRUE
    OBVIOUS
  <2>4. PICK q : q = Notify(u, l, yes)
    OBVIOUS
  <2>5. tell[w].at = "erase" /\ conf' = [conf EXCEPT ![u] = None] /\ tell' = [tell EXCEPT ![w] = [Idle EXCEPT !.jobs = q]]
    BY <1>3, <2>1, <2>2, <2>3, <2>4 DEF Remove
  <2>6. u \in Tunnels /\ tell[w].jobs = q
    BY <1>0, <2>1, <2>2, <2>3, <2>4, <2>5, WorkHasJob DEF EraseOk
  <2>7. tell'[w].jobs = q
    BY <1>0, <2>5 DEF Telling, Idle
  <2>8. \A x, y : Owes(w, x, y) => Owes(w, x, y)'
    BY <2>6, <2>7 DEF Owes
  <2>9. \A x \in Ends(l) : Owes(w, u, x)'
    <3>1. \A x \in Ends(l) : \E i \in 1 .. Len(q) : q[i].to = x /\ q[i].tunnel = u
      BY <1>N, <2>4
    <3> QED BY <2>7, <3>1 DEF Owes
  <2> QED BY <1>1, <2>2, <2>5, <2>6, <2>8, <2>9, ConfRight
<1>4. ASSUME NEW u \in Tunnels, Erase(r, u) PROVE Right(p, t, k)'
  <2>1. tell[w] = Idle /\ UNCHANGED conf
    BY <1>4 DEF Erase
  <2>2. (Pending(t, p) => Pending(t, p)') /\ (Rewritten(t, p) => Rewritten(t, p)')
    BY <1>0, <1>1, <2>1, OwesMore
  <2>3. Effective(conf[t])' = Effective(conf[t]) /\ (Shaky(p, t) => Shaky(p, t)')
    BY <1>1, <2>1 DEF Effective, Available, Shaky
  <2> QED BY <2>1, <2>2, <2>3, RightGrows
<1>5. ASSUME NEW u \in Tunnels, NEW l \in Confs, Add(r, u, l) PROVE Right(p, t, k)'
  <2> DEFINE q == Notify(u, l, FALSE)
  <2>1. /\ tell[w] = Idle /\ conf[u] = None /\ conf' = [conf EXCEPT ![u] = l]
        /\ tell' = [tell EXCEPT ![w].jobs = q]
    BY <1>5 DEF Add, FreshFree
  <2>2. tell'[w].jobs = q
    BY <1>0, <2>1 DEF Telling, Told
  <2>3. \A x \in Ends(l) : Owes(w, u, x)'
    <3>1. PICK no : no = FALSE
      OBVIOUS
    <3>2. q = Notify(u, l, no)
      BY <3>1
    <3> HIDE DEF q
    <3>3. \A x \in Ends(l) : \E i \in 1 .. Len(q) : q[i].to = x /\ q[i].tunnel = u
      BY <1>N, <3>2
    <3> QED BY <2>2, <3>3 DEF Owes
  <2> HIDE DEF q
  <2> QED BY <1>1, <1>2, <2>1, <2>3, ConfRight
<1>6. ASSUME NEW u \in Tunnels, NEW l \in Confs, Update(r, u, l) PROVE Right(p, t, k)'
  <2> DEFINE q == NotifyUpdate(u, conf[u], l)
  <2>1. /\ tell[w] = Idle /\ conf[u] \in Confs /\ conf' = [conf EXCEPT ![u] = l]
        /\ tell' = [tell EXCEPT ![w].jobs = q]
    BY <1>0, <1>6 DEF Update, Tables, Tunnel
  <2>2. tell'[w].jobs = q
    BY <1>0, <2>1 DEF Telling, Told
  <2>3. \A x \in Ends(conf[u]) \cup Ends(l) : Owes(w, u, x)'
    <3>1. \A x \in Ends(conf[u]) \cup Ends(l) : \E i \in 1 .. Len(q) : q[i].to = x /\ q[i].tunnel = u
      BY <2>1, UpdateJobs
    <3> QED BY <2>2, <3>1 DEF Owes
  <2> HIDE DEF q
  <2> QED BY <1>1, <1>2, <2>1, <2>3, ConfRight
<1> QED BY <1>3, <1>4, <1>5, <1>6

\* A teller at work is done with the job it is at, or keeps it.
Finishes(w) ==
    \/ Push(w) \/ Reaffirm(w)
    \/ Stop(w) /\ Head(tell[w].jobs).del

LEMMA TellCases ==
    ASSUME Typed, JobsOk, NEW w \in Tellers, TellStep(w)
    PROVE  /\ \/ Finishes(w) /\ tell' = Finished(w)
              \/ ~Finishes(w) /\ tell'[w].jobs = tell[w].jobs
           /\ tell[w].jobs # <<>> /\ tell[w].jobs \in Seq(Jobs)
           /\ JobOk(w, 1) /\ Head(tell[w].jobs) = tell[w].jobs[1]
<1>0. Telling /\ Works /\ tell[w] \in Told
  BY DEF Typed, ServerSide, Telling
<1>1. tell[w].jobs # <<>> /\ tell[w].jobs \in Seq(Jobs)
  BY <1>0, WorkHasJob DEF TellStep, MakeUpdate, Push, Apply, Stop, Start, Install, Reaffirm, Told
<1>2. JobOk(w, 1) /\ Head(tell[w].jobs) = tell[w].jobs[1]
  BY <1>1, AtWork, TailElements DEF JobsOk
<1>3. CASE MakeUpdate(w)
  <2> DEFINE j == Head(tell[w].jobs)
             k == Effective(j.conf)
  <2>1. Ends(k) = Ends(j.conf)
    <3>1. j.conf \in Confs
      BY <1>0, <1>1, HeadJob
    <3>2. j.conf = [enabled |-> j.conf.enabled, sender |-> j.conf.sender,
                    receiver |-> j.conf.receiver, source |-> j.conf.source]
      BY <3>1, ControlAssumption
    <3> HIDE DEF j
    <3> QED BY <3>2 DEF Effective, Ends
  <2>2. j.to = Server => Server \in Ends(k)
    BY <1>2, <2>1 DEF JobOk
  <2>3. tell' = [tell EXCEPT ![w].at = IF j.to = Server THEN "apply" ELSE "push", ![w].sends = k]
    BY <1>3, <2>2 DEF MakeUpdate
  <2>4. tell'[w].jobs = tell[w].jobs
    BY <1>0, <2>3 DEF Telling, Told
  <2>5. ~Finishes(w)
    BY <1>3 DEF Finishes, MakeUpdate, Push, Reaffirm, Stop
  <2> QED BY <1>1, <1>2, <2>4, <2>5
<1>4. CASE Push(w) \/ Reaffirm(w)
  BY <1>1, <1>2, <1>4 DEF Finishes, Push, Reaffirm
<1>5. CASE Apply(w) \/ Start(w) \/ Install(w)
  <2>1. ~Finishes(w)
    BY <1>5 DEF Finishes, Apply, Start, Install, Push, Reaffirm, Stop
  <2>2. tell'[w].jobs = tell[w].jobs
    <3>1. Apply(w) => tell'[w].jobs = tell[w].jobs
      BY <1>0 DEF Apply, Telling, Told
    <3>2. Start(w) => tell'[w].jobs = tell[w].jobs
      BY <1>0 DEF Start, Telling, Told
    <3>3. Install(w) => tell'[w].jobs = tell[w].jobs
      BY <1>0 DEF Install, Telling, Told
    <3> QED BY <1>5, <3>1, <3>2, <3>3
  <2> QED BY <1>1, <1>2, <2>1, <2>2
<1>6. CASE Stop(w)
  <2>1. CASE Head(tell[w].jobs).del
    BY <1>1, <1>2, <1>6, <2>1 DEF Finishes, Stop
  <2>2. CASE ~Head(tell[w].jobs).del
    <3>1. ~Finishes(w)
      BY <1>6, <2>2 DEF Finishes, Push, Reaffirm, Stop
    <3>2. tell'[w].jobs = tell[w].jobs
      BY <1>0, <1>6, <2>2 DEF Stop, Telling, Told
    <3> QED BY <1>1, <1>2, <3>1, <3>2
  <2> QED BY <2>1, <2>2
<1> QED BY <1>3, <1>4, <1>5, <1>6 DEF TellStep

\* The kinds of steps that there are
LEMMA StepKinds ==
    ASSUME Typed, [Next]_vars
    PROVE  \/ Quietly
           \/ \E c \in Conns : Bind(c) \/ Answer(c) \/ Unbind(c) \/ Clear(c)
           \/ \E r \in Requests :
                 Remove(r) \/ \E t \in Tunnels : Erase(r, t) \/ \E k \in Confs : Add(r, t, k) \/ Update(r, t, k)
           \/ \E w \in Tellers : TellStep(w)
           \/ Restart
<1>0. Sessions /\ Links /\ Hosted /\ Standing
  BY DEF Typed, ServerSide
<1> USE DEF serverVars, linkVars
<1>1. ASSUME NEW c \in Conns, Ack(c) \/ TakeReport(c) \/ StoreReport(c) \/ ReadFails(c) \/ Closed(c) PROVE Quietly
  <2>1. UNCHANGED <<conf, bound, tell, mgr>>
    BY <1>1 DEF Ack, TakeReport, StoreReport, ReadFails, Closed
  <2>2. \A d \in Conns : /\ reader[d] = "bound" <=> reader'[d] = "bound"
                         /\ closer[d] = "clear" <=> closer'[d] = "clear"
    <3>1. CASE Ack(c)
      BY <1>0, <3>1 DEF Ack, Sessions
    <3>2. CASE ReadFails(c)
      <4>1. reader[c] # "bound" /\ reader' = [reader EXCEPT ![c] = "over"]
        BY <3>2 DEF ReadFails
      <4>2. \/ closer' = [closer EXCEPT ![c] = "done"] /\ closer[c] = "no"
            \/ closer' = [closer EXCEPT ![c] = IF closer[c] = "no" THEN "unbind" ELSE closer[c]]
        BY <1>0, <3>2 DEF ReadFails, CloseOf, Standing
      <4>3. \A d \in Conns : reader[d] = "bound" <=> reader'[d] = "bound"
        BY <1>0, <4>1 DEF Sessions
      <4>4. \A d \in Conns : closer[d] = "clear" <=> closer'[d] = "clear"
        BY <1>0, <4>2 DEF Sessions
      <4> QED BY <4>3, <4>4
    <3>3. CASE Closed(c)
      BY <1>0, <3>3 DEF Closed, Sessions
    <3>4. CASE TakeReport(c) \/ StoreReport(c)
      BY <3>4 DEF TakeReport, StoreReport
    <3> QED BY <1>1, <3>1, <3>2, <3>3, <3>4
  <2> QED BY <2>1, <2>2 DEF Quietly
<1>2. ASSUME NEW c \in Conns, ClientStep(c) \/ Cut(c) PROVE Quietly
  <2>1. UNCHANGED <<conf, bound, tell, reader, closer>>
    BY <1>2 DEF ClientStep, LoggedIn, UpdateTunnel, LoginFails, ConnectionLost, Leave, Cut
  <2>2. mgr'[Server] = mgr[Server]
    BY <1>0, <1>2, HostFacts DEF ClientStep, LoggedIn, UpdateTunnel, LoginFails, ConnectionLost, Leave, Cut, Hosted
  <2> QED BY <2>1, <2>2 DEF Quietly
<1>3. ASSUME NEW c \in Conns, Dial(c) PROVE Quietly
  <2>1. UNCHANGED <<conf, bound, tell, mgr>>
    BY <1>3 DEF Dial
  <2>2. \A d \in Conns : /\ reader[d] = "bound" <=> reader'[d] = "bound"
                         /\ closer[d] = "clear" <=> closer'[d] = "clear"
    BY <1>0, <1>3 DEF Dial, Clean, Sessions
  <2> QED BY <2>1, <2>2 DEF Quietly
<1>4. CASE UNCHANGED vars
  BY <1>4 DEF vars, Quietly
<1> QED BY <1>1, <1>2, <1>3, <1>4, StepCases DEF SessionStep

\* A session's player: what is right stays so, while nothing is sent to it.
LEMMA PlayerRight ==
    ASSUME Typed, FreshFree, EraseOk, JobsOk, HandsOk, [Next]_vars, NEW c \in Conns, Live(c), Live(c)', Kept(c),
           reader'[c] # "bound", NEW t \in Tunnels, NEW k, Right(Owner[c], t, k)
    PROVE  Right(Owner[c], t, k)'
<1> DEFINE p == Owner[c]
<1>0. Tables /\ Sessions /\ Links
  BY DEF Typed, ServerSide
<1>own. p \in Players /\ c # None /\ p # Server /\ bound[p] = c /\ closer[c] = "no" /\ bound'[p] = c
  BY HostFacts DEF Live
<1>1. ASSUME Quietly PROVE Right(p, t, k)'
  BY <1>1, QuietRight
<1>2. ASSUME NEW d \in Conns, Bind(d) PROVE Right(p, t, k)'
  <2>1. p # Owner[d]
    BY <1>0, <1>own, <1>2 DEF Bind, Tables, Sessions
  <2> QED BY <1>2, <2>1, BindRight
<1>3. ASSUME NEW d \in Conns, Unbind(d) PROVE Right(p, t, k)'
  <2>1. p # Owner[d] \/ bound[Owner[d]] # d
    BY <1>own, <1>3 DEF Unbind
  <2> QED BY <1>3, <2>1, UnbindRight
<1>4. ASSUME NEW d \in Conns, Answer(d) PROVE Right(p, t, k)'
  <2>1. /\ tell[<<"login", d>>] = Idle /\ <<"login", d>> \in Tellers
        /\ tell' = [tell EXCEPT ![<<"login", d>>].jobs = Broadcast(Owner[d])] /\ UNCHANGED <<conf, bound>>
    BY <1>4, HostFacts DEF Answer, Typed, ServerSide, Silent
  <2>2. \A e \in Conns \ {d} : reader'[e] = reader[e] /\ closer'[e] = closer[e]
    BY <1>0, <1>4 DEF Answer, Sessions
  <2> QED BY <2>1, <2>2, BroadcastRight
<1>5. ASSUME NEW d \in Conns, Clear(d) PROVE Right(p, t, k)'
  <2>1. /\ tell[<<"close", d>>] = Idle /\ <<"close", d>> \in Tellers
        /\ tell' = [tell EXCEPT ![<<"close", d>>].jobs = Broadcast(Owner[d])] /\ UNCHANGED <<conf, bound>>
    BY <1>5, HostFacts DEF Clear, Typed, ServerSide, Silent
  <2>2. \A e \in Conns \ {d} : reader'[e] = reader[e] /\ closer'[e] = closer[e]
    BY <1>0, <1>5 DEF Clear, Sessions
  <2> QED BY <2>1, <2>2, BroadcastRight
<1>6. ASSUME NEW r \in Requests,
             Remove(r) \/ \E u \in Tunnels : Erase(r, u) \/ \E l \in Confs : Add(r, u, l) \/ Update(r, u, l)
      PROVE  Right(p, t, k)'
  BY <1>6, WebRight
<1>7. ASSUME NEW w \in Tellers, TellStep(w) PROVE Right(p, t, k)'
  <2>1. UNCHANGED <<conf, bound, reader, closer>> /\ \A v \in Tellers \ {w} : tell'[v] = tell[v]
    BY <1>7, AtWork
  <2>2. CASE ~Finishes(w) /\ tell'[w].jobs = tell[w].jobs
    BY <2>1, <2>2, WorkRight
  <2>3. CASE Finishes(w) /\ tell' = Finished(w)
    <3>1. tell[w].jobs # <<>>
      BY <1>7, TellCases
    <3>2. CASE t # Head(tell[w].jobs).tunnel \/ p # Head(tell[w].jobs).to
      BY <2>1, <2>3, <3>1, <3>2, FinishRight
    <3>3. CASE p = Head(tell[w].jobs).to
      <4>1. Push(w)
        BY <1>own, <2>3, <3>3 DEF Finishes, Stop, Reaffirm, HandsOk, HandOk, Applying
      <4>2. PICK m : down'[c] = Append(down[c], m)
        BY <1>0, <1>own, <3>3, <4>1 DEF Push, Links
      <4>3. down[c] \in Seq(Pushes) /\ down'[c] = down[c]
        BY <1>0 DEF Links, Kept
      <4>4. Len(Append(down[c], m)) = Len(down[c]) + 1 /\ Len(down[c]) \in Nat
        BY <4>3
      <4> QED BY <4>2, <4>3, <4>4
    <3> QED BY <3>2, <3>3
  <2> QED BY <1>7, <2>2, <2>3, TellCases
<1>8. ASSUME Restart PROVE Right(p, t, k)'
  BY <1>own, <1>8 DEF Restart, NoneFor
<1> HIDE DEF p
<1>9. Right(p, t, k)'
  BY <1>2, <1>3, <1>4, <1>5, <1>6, <1>7, <1>1, <1>8, StepKinds
<1> QED BY <1>9 DEF p

-----------------------------------------------------------------------------
\* What there is to tell, while one teller is at work

LEMMA AloneAtWork ==
    ASSUME Typed, Solo, NEW w \in Tellers, Active(w)
    PROVE  \A v \in Tellers \ {w} : tell[v] = Idle
BY TellerActive DEF Solo

LEMMA NoneAtWork ==
    ASSUME Typed, NEW w \in Tellers, \A v \in Tellers \ {w} : ~Active(v), tell[w] = Idle
    PROVE  \A v \in Tellers : tell[v] = Idle
BY TellerActive

LEMMA AloneJobs ==
    ASSUME NEW w \in Tellers, \A v \in Tellers \ {w} : tell'[v] = Idle,
           tell'[w].at # "erase" => \A i \in 1 .. Len(tell'[w].jobs) : JobOk(w, i)',
           tell'[w].at = "erase" =>
               tell'[w].jobs = Notify(Head(tell'[w].jobs).tunnel, conf'[Head(tell'[w].jobs).tunnel], TRUE),
           HandOk(w)'
    PROVE  JobsOk' /\ EraseOk' /\ HandsOk'
<1>1. \A v \in Tellers \ {w} : \A i \in 1 .. Len(tell'[v].jobs) : JobOk(v, i)'
  BY DEF Idle
<1>2. \A v \in Tellers \ {w} : HandOk(v)'
  BY DEF Idle, HandOk, Applying
<1>3. \A v \in Tellers \ {w} : tell'[v].at # "erase"
  BY DEF Idle
<1>4. JobsOk'
  BY <1>1 DEF JobsOk
<1>5. EraseOk'
  BY <1>3 DEF EraseOk
<1>6. HandsOk'
  BY <1>2 DEF HandsOk
<1> QED BY <1>4, <1>5, <1>6

LEMMA IdleJobs ==
    ASSUME \A w \in Tellers : tell'[w] = Idle
    PROVE  JobsOk' /\ EraseOk' /\ HandsOk'
<1>1. \A w \in Tellers : tell'[w].at = "next" /\ Len(tell'[w].jobs) = 0
  BY DEF Idle
<1>2. JobsOk' /\ EraseOk'
  <2>1. \A w \in Tellers : 1 .. Len(tell'[w].jobs) = {} /\ tell'[w].at # "erase"
    BY <1>1
  <2> QED BY <2>1 DEF JobsOk, EraseOk
<1>3. \A w \in Tellers : HandOk(w)'
  BY <1>1 DEF HandOk, Applying
<1> QED BY <1>2, <1>3 DEF HandsOk

\* A teller begins.
LEMMA BegunJobs ==
    ASSUME Typed, NEW w \in Tellers, \A v \in Tellers : tell[v] = Idle,
           NEW q \in Seq(Jobs), tell' = [tell EXCEPT ![w].jobs = q],
           \A i \in 1 .. Len(q) :
               LET k == conf'[q[i].tunnel]
               IN  /\ ~q[i].del => k # None /\ q[i].conf = k /\ q[i].to \in Ends(k)
                   /\ q[i].del => /\ w[1] = "web"
                                  /\ k # None /\ q[i].to \in Ends(k) =>
                                       \E n \in (i + 1) .. Len(q) : q[n].tunnel = q[i].tunnel /\ q[n].to = q[i].to
                   /\ q[i].to = Server => Server \in Ends(q[i].conf)
                   /\ w[1] = "web" => q[i].tunnel = Head(q).tunnel
    PROVE  JobsOk' /\ EraseOk' /\ HandsOk'
<1>1. tell'[w] = [Idle EXCEPT !.jobs = q] /\ \A v \in Tellers \ {w} : tell'[v] = Idle
  BY DEF Typed, ServerSide, Telling
<1>2. tell'[w].jobs = q /\ tell'[w].at = "next"
  BY <1>1 DEF Idle
<1>3. \A i \in 1 .. Len(tell'[w].jobs) : JobOk(w, i)'
  BY <1>2 DEF JobOk
<1>4. HandOk(w)'
  BY <1>2 DEF HandOk, Applying
<1> QED BY <1>1, <1>2, <1>3, <1>4, AloneJobs

LEMMA WebJobs ==
    ASSUME Typed, Solo, EraseOk, [KeepsServer]_vars, NEW r \in Requests, ~mixed',
           Remove(r) \/ \E t \in Tunnels : Erase(r, t) \/ \E k \in Confs : Add(r, t, k) \/ Update(r, t, k)
    PROVE  JobsOk' /\ EraseOk' /\ HandsOk'
<1> DEFINE w == <<"web", r>>
<1>0. Tables /\ Telling /\ Erasing /\ Works /\ w \in Tellers /\ w[1] = "web"
  BY HostFacts DEF Typed, ServerSide
<1>1. CASE Remove(r)
  <2> DEFINE t == Head(tell[w].jobs).tunnel
  <2>1. tell[w].at = "erase" /\ \A v \in Tellers \ {w} : tell[v] = Idle
    BY <1>0, <1>1, AtActive, AloneAtWork DEF Remove
  <2>2. t \in Tunnels /\ conf[t] \in Confs
    BY <1>0, <2>1, WorkHasJob DEF Tables, Tunnel, Erasing
  <2>3. tell' = [tell EXCEPT ![w] = [Idle EXCEPT !.jobs = Notify(t, conf[t], TRUE)]] /\ conf' = [conf EXCEPT ![t] = None]
    BY <1>1 DEF Remove
  <2>4. PICK q : q = Notify(t, conf[t], TRUE)
    OBVIOUS
  <2>5. /\ q \in Seq(Jobs) /\ Head(q).tunnel = t
        /\ \A i \in 1 .. Len(q) : q[i].tunnel = t /\ q[i].conf = conf[t] /\ q[i].to \in Ends(conf[t]) /\ q[i].del
    <3>1. PICK yes : yes = TRUE
      OBVIOUS
    <3>2. q = Notify(t, conf[t], yes) /\ yes \in BOOLEAN
      BY <2>4, <3>1
    <3> HIDE DEF t
    <3>3. q \in Seq(Jobs) /\ Head(q).tunnel = t
      BY <2>2, <3>2, NotifyTypes
    <3>4. \A i \in 1 .. Len(q) : q[i].tunnel = t /\ q[i].conf = conf[t] /\ q[i].to \in Ends(conf[t])
                                 /\ q[i] = Job(t, conf[t], q[i].to, yes)
      BY <3>2, NotifyJobs
    <3>5. \A x : Job(t, conf[t], x, yes).del = yes
      BY DEF Job
    <3>6. \A i \in 1 .. Len(q) : q[i].del
      BY <3>1, <3>4, <3>5
    <3> QED BY <3>3, <3>4, <3>6
  <2>6. tell'[w] = [Idle EXCEPT !.jobs = q] /\ \A v \in Tellers \ {w} : tell'[v] = Idle
    BY <1>0, <2>1, <2>3, <2>4 DEF Telling
  <2>7. tell'[w].jobs = q /\ tell'[w].at = "next"
    BY <2>6 DEF Idle
  <2>8. conf'[t] = None
    BY <1>0, <2>2, <2>3 DEF Tables
  <2>9. PICK u : u = t
    OBVIOUS
  <2>10. \A i \in 1 .. Len(tell'[w].jobs) : JobOk(w, i)'
    <3>1. \A i \in 1 .. Len(q) : /\ q[i].tunnel = u /\ q[i].del /\ Head(q).tunnel = u
                                 /\ q[i].to = Server => Server \in Ends(q[i].conf)
      BY <2>5, <2>9
    <3>2. conf'[u] = None
      BY <2>8, <2>9
    <3> HIDE DEF t, w
    <3> QED BY <1>0, <2>7, <3>1, <3>2 DEF JobOk
  <2>11. HandOk(w)'
    BY <2>7 DEF HandOk, Applying
  <2> HIDE DEF t, w
  <2> QED BY <1>0, <2>6, <2>7, <2>10, <2>11, AloneJobs
<1>2. ASSUME NEW t \in Tunnels, Erase(r, t) PROVE JobsOk' /\ EraseOk' /\ HandsOk'
  <2>1. tell[w] = Idle /\ conf[t] # None /\ conf' = conf
        /\ tell' = [tell EXCEPT ![w].at = "erase", ![w].jobs = Notify(t, conf[t], TRUE)]
    BY <1>2 DEF Erase
  <2>2. \A v \in Tellers : tell[v] = Idle
    <3>1. \A v \in Tellers \ {w} : ~Active(v)
      BY <1>2 DEF Erase, Mixes
    <3> HIDE DEF w
    <3> QED BY <1>0, <2>1, <3>1, NoneAtWork
  <2>3. PICK q : q = Notify(t, conf[t], TRUE)
    OBVIOUS
  <2>4. Head(q).tunnel = t
    <3>1. PICK yes : yes = TRUE
      OBVIOUS
    <3>2. q = Notify(t, conf[t], yes) /\ yes \in BOOLEAN
      BY <2>3, <3>1
    <3>3. conf[t] \in Confs
      BY <1>0, <2>1 DEF Tables, Tunnel
    <3> QED BY <3>2, <3>3, NotifyTypes
  <2>5. /\ tell'[w].jobs = q /\ tell'[w].at = "erase"
        /\ \A v \in Tellers \ {w} : tell'[v] = Idle
    BY <1>0, <2>1, <2>2, <2>3 DEF Telling, Idle
  <2>6. HandOk(w)'
    BY <2>5 DEF HandOk, Applying
  <2>7. tell'[w].jobs = Notify(Head(tell'[w].jobs).tunnel, conf'[Head(tell'[w].jobs).tunnel], TRUE)
    BY <2>1, <2>3, <2>4, <2>5
  <2> HIDE DEF w
  <2> QED BY <1>0, <2>5, <2>6, <2>7, AloneJobs
<1>3. ASSUME NEW t \in Tunnels, NEW k \in Confs, Add(r, t, k) PROVE JobsOk' /\ EraseOk' /\ HandsOk'
  <2>1. tell[w] = Idle /\ conf' = [conf EXCEPT ![t] = k] /\ tell' = [tell EXCEPT ![w].jobs = Notify(t, k, FALSE)]
    BY <1>3 DEF Add
  <2>2. \A v \in Tellers : tell[v] = Idle
    <3>1. \A v \in Tellers \ {w} : ~Active(v)
      BY <1>3 DEF Add, Mixes
    <3> HIDE DEF w
    <3> QED BY <1>0, <2>1, <3>1, NoneAtWork
  <2>3. PICK q : q = Notify(t, k, FALSE)
    OBVIOUS
  <2>4. /\ q \in Seq(Jobs) /\ Head(q).tunnel = t
        /\ \A i \in 1 .. Len(q) : q[i].tunnel = t /\ q[i].conf = k /\ q[i].to \in Ends(k) /\ ~q[i].del
    <3>1. PICK no : no = FALSE
      OBVIOUS
    <3>2. q = Notify(t, k, no) /\ no \in BOOLEAN
      BY <2>3, <3>1
    <3>3. q \in Seq(Jobs) /\ Head(q).tunnel = t
      BY <3>2, NotifyTypes
    <3>4. \A i \in 1 .. Len(q) : q[i].tunnel = t /\ q[i].conf = k /\ q[i].to \in Ends(k) /\ q[i] = Job(t, k, q[i].to, no)
      BY <3>2, NotifyJobs
    <3>5. \A x : Job(t, k, x, no).del = no
      BY DEF Job
    <3>6. \A i \in 1 .. Len(q) : ~q[i].del
      BY <3>1, <3>4, <3>5
    <3> QED BY <3>3, <3>4, <3>6
  <2>5. conf'[t] = k /\ k # None
    BY <1>0, <2>1, HostFacts DEF Tables
  <2>6. tell' = [tell EXCEPT ![w].jobs = q]
    BY <2>1, <2>3
  <2> HIDE DEF w
  <2> QED BY <1>0, <2>2, <2>4, <2>5, <2>6, BegunJobs
<1>4. ASSUME NEW t \in Tunnels, NEW k \in Confs, Update(r, t, k) PROVE JobsOk' /\ EraseOk' /\ HandsOk'
  <2>1. /\ tell[w] = Idle /\ conf' = [conf EXCEPT ![t] = k] /\ conf[t] # None
        /\ tell' = [tell EXCEPT ![w].jobs = NotifyUpdate(t, conf[t], k)]
    BY <1>4 DEF Update
  <2>2. \A v \in Tellers : tell[v] = Idle
    <3>1. \A v \in Tellers \ {w} : ~Active(v)
      BY <1>4 DEF Update
    <3> HIDE DEF w
    <3> QED BY <1>0, <2>1, <3>1, NoneAtWork
  <2>4. PICK old \in Confs : old = conf[t]
    BY <1>0, <2>1 DEF Tables, Tunnel
  <2> DEFINE q == NotifyUpdate(t, old, k)
  <2>6. /\ \A i \in 1 .. Len(q) : /\ q[i].tunnel = t /\ q[i].conf = k
                                  /\ q[i].to \in Ends(old) \cup Ends(k)
                                  /\ ~q[i].del => q[i].to \in Ends(k)
        /\ \A i \in 1 .. Len(q) : q[i].del /\ q[i].to \in Ends(k) =>
              \E n \in (i + 1) .. Len(q) : q[n].to = q[i].to
        /\ \E i \in 1 .. Len(q) : q[i].to = k.sender
    <3>1. k.sender \in Ends(k)
      BY DEF Ends
    <3>2. \A i \in 1 .. Len(q) : /\ q[i].tunnel = t /\ q[i].conf = k
                                 /\ q[i].to \in Ends(old) \cup Ends(k)
                                 /\ ~q[i].del => q[i].to \in Ends(k)
      BY UpdateJobs
    <3>5. \A p \in Ends(old) \cup Ends(k) : \E i \in 1 .. Len(q) : q[i].to = p
      BY UpdateJobs
    <3>3. \A i \in 1 .. Len(q) : q[i].del /\ q[i].to \in Ends(k) =>
             \E n \in (i + 1) .. Len(q) : q[n].to = q[i].to
      BY UpdateJobs
    <3>4. \E i \in 1 .. Len(q) : q[i].to = k.sender
      BY <3>1, <3>5
    <3> QED BY <3>2, <3>3, <3>4
  <2>5. q \in Seq(Jobs) /\ Head(q).tunnel = t
    <3>1. q \in Seq(Jobs)
      BY NotifyUpdateTypes
    <3> HIDE DEF q
    <3>2. 1 \in 1 .. Len(q) /\ Head(q) = q[1]
      BY <2>6, <3>1
    <3> QED BY <2>6, <3>1, <3>2
  <2>7. conf'[t] = k /\ k # None
    BY <1>0, <2>1, HostFacts DEF Tables
  <2>8. tell' = [tell EXCEPT ![w].jobs = q]
    BY <2>1, <2>4
  <2> HIDE DEF q
  <2>9. Server \in Ends(conf[t]) => Server \in Ends(k)
    <3>1. CASE KeepsServer
      BY <2>1, <2>7, <3>1 DEF KeepsServer
    <3>2. CASE UNCHANGED vars
      BY <2>7, <3>2 DEF vars, serverVars
    <3> QED BY <3>1, <3>2
  <2>10. \A i \in 1 .. Len(q) : q[i].to = Server => Server \in Ends(q[i].conf)
    BY <2>4, <2>6, <2>9
  <2>11. Len(q) \in Nat
    BY <2>5
  <2>12. \A i \in 1 .. Len(q) : \A n \in (i + 1) .. Len(q) : n \in 1 .. Len(q)
    BY <2>11
  <2>13. \A i \in 1 .. Len(q) : q[i].del /\ q[i].to \in Ends(k) =>
              \E n \in (i + 1) .. Len(q) : q[n].tunnel = q[i].tunnel /\ q[n].to = q[i].to
    BY <2>6, <2>12
  <2> HIDE DEF w
  <2> QED BY <1>0, <2>2, <2>5, <2>6, <2>7, <2>8, <2>10, <2>13, BegunJobs
<1> QED BY <1>1, <1>2, <1>3, <1>4

\* Somebody goes on.
LEMMA TellJobs ==
    ASSUME Typed, Fits, Solo, JobsOk, HandsOk, NEW w \in Tellers, TellStep(w)
    PROVE  JobsOk' /\ EraseOk' /\ HandsOk'
<1>j. PICK j : j = Head(tell[w].jobs)
  OBVIOUS
<1>s. PICK s : s = tell[w].sends
  OBVIOUS
<1> DEFINE t == j.tunnel
<1>0. /\ Telling /\ Works /\ Hosted /\ tell[w] \in Told /\ HandOk(w)
      /\ tell[w].jobs # <<>> /\ tell[w].jobs \in Seq(Jobs) /\ JobOk(w, 1) /\ j = tell[w].jobs[1]
      /\ t \in Tunnels /\ j.conf \in Confs /\ j.del \in BOOLEAN /\ j \in Jobs
      /\ mgr[Server] \in Managers /\ FitsIn(Server, mgr[Server])
  BY <1>j, TellCases, HeadJob, HostFacts, FitsByHost DEF Typed, ServerSide, Telling, HandsOk, Hosted
<1>1. /\ tell[w].at # "erase" /\ tell'[w].at # "erase" /\ UNCHANGED <<conf, bound, reader, closer>>
      /\ \A v \in Tellers \ {w} : tell'[v] = Idle
  BY AtWork, TellerActive, AloneAtWork
<1>2. tell'[w].jobs = tell[w].jobs \/ (tell' = Finished(w) /\ tell'[w].jobs = Tail(tell[w].jobs) /\ tell'[w].at = "next")
  <2>1. Finished(w)[w].jobs = Tail(tell[w].jobs) /\ Finished(w)[w].at = "next"
    BY <1>0, FinishedTypes DEF Finished, Idle, Telling
  <2> QED BY <2>1, TellCases
<1>3. ASSUME NEW i \in 1 .. Len(tell'[w].jobs) PROVE JobOk(w, i)'
  <2>1. CASE tell'[w].jobs = tell[w].jobs
    <3>1. JobOk(w, i)
      BY <1>1, <1>3, <2>1 DEF JobsOk
    <3> QED BY <1>1, <2>1, <3>1 DEF JobOk
  <2>2. CASE tell'[w].jobs = Tail(tell[w].jobs)
    <3> DEFINE q == tell[w].jobs
               l == Tail(q)
    <3>1. /\ Len(q) \in Nat \ {0} /\ Len(l) = Len(q) - 1 /\ i \in 1 .. Len(l) /\ l \in Seq(Jobs)
          /\ i + 1 \in 1 .. Len(q) /\ l[i] = q[i + 1]
          /\ 2 \in 1 .. Len(q) /\ l[1] = q[2]
          /\ \A n \in (i + 1) + 1 .. Len(q) : n - 1 \in (i + 1) .. Len(l) /\ l[n - 1] = q[n]
      <4>1. /\ Len(q) \in Nat \ {0} /\ Len(l) = Len(q) - 1 /\ l \in Seq(Jobs)
            /\ \A n \in 2 .. Len(q) : n - 1 \in 1 .. Len(l) /\ l[n - 1] = q[n]
            /\ \A n \in 1 .. Len(l) : n + 1 \in 2 .. Len(q) /\ l[n] = q[n + 1]
        BY <1>0, TailElements
      <4>2. i \in 1 .. Len(l)
        BY <1>3, <2>2
      <4> HIDE DEF l, q
      <4>3. 2 \in 2 .. Len(q) /\ 2 - 1 = 1 /\ i + 1 \in 2 .. Len(q) /\ l[i] = q[i + 1]
        BY <4>1, <4>2
      <4>4. \A n \in (i + 1) + 1 .. Len(q) : n \in 2 .. Len(q) /\ n - 1 \in (i + 1) .. Len(l)
        BY <4>1, <4>2
      <4> QED BY <4>1, <4>2, <4>3, <4>4
    <3>2. JobOk(w, i + 1) /\ JobOk(w, 2)
      BY <1>1, <3>1 DEF JobsOk
    <3>3. Head(l) = l[1]
      BY <3>1
    <3>4. tell'[w].jobs = l /\ tell[w].jobs = q
      BY <2>2
    <3> HIDE DEF q, l
    <3>5. PICK x : x = q[i + 1]
      OBVIOUS
    <3>6. /\ ~x.del => conf[x.tunnel] # None /\ x.conf = conf[x.tunnel] /\ x.to \in Ends(conf[x.tunnel])
          /\ x.to = Server => Server \in Ends(x.conf)
          /\ x.del => w[1] = "web"
          /\ w[1] = "web" => x.tunnel = Head(q).tunnel /\ q[2].tunnel = Head(q).tunnel
          /\ x.del /\ conf[x.tunnel] # None /\ x.to \in Ends(conf[x.tunnel]) =>
                \E n \in (i + 1) + 1 .. Len(q) : q[n].tunnel = x.tunnel /\ q[n].to = x.to
      BY <3>2, <3>4, <3>5 DEF JobOk
    <3>7. ASSUME x.del /\ conf[x.tunnel] # None /\ x.to \in Ends(conf[x.tunnel])
          PROVE  \E n \in (i + 1) .. Len(l) : l[n].tunnel = x.tunnel /\ l[n].to = x.to
      <4>1. PICK n \in (i + 1) + 1 .. Len(q) : q[n].tunnel = x.tunnel /\ q[n].to = x.to
        BY <3>6, <3>7
      <4>2. n - 1 \in (i + 1) .. Len(l) /\ l[n - 1] = q[n]
        BY <3>1
      <4> QED BY <4>1, <4>2
    <3> QED BY <1>1, <3>1, <3>3, <3>4, <3>5, <3>6, <3>7 DEF JobOk
  <2> QED BY <1>2, <2>1, <2>2
<1>4. ASSUME NEW x, Current(j, x) PROVE Current(j, x)'
  BY <1>1, <1>4 DEF Current, SameBut, Shaky, Effective, Available
<1>5. ASSUME tell'[w].jobs = tell[w].jobs, tell'[w].sends = tell[w].sends,
             tell'[w].at \in Applying \ {"apply"}, tell[w].at \in Applying,
             mgr'[Server].tunnels[t] = IF j.del THEN None ELSE s,
             tell'[w].at \in {"start", "install", "reaffirm"} => ~j.del,
             tell'[w].at = "install" => <<Server, s.source>> \notin Taken
      PROVE  HandOk(w)'
  <2>1. ~j.del => Current(j, s)'
    BY <1>0, <1>4, <1>5, <1>j, <1>s DEF HandOk
  <2>2. j.to = Server
    BY <1>0, <1>5, <1>j DEF HandOk
  <2>3. Head(tell'[w].jobs) = j /\ tell'[w].sends = s /\ tell'[w].at \in Applying \ {"apply"}
    BY <1>5, <1>j, <1>s
  <2> QED BY <1>5, <2>1, <2>2, <2>3 DEF HandOk, Applying
<1>7. HandOk(w)'
  <2>1. CASE tell'[w].at = "next"
    BY <2>1 DEF HandOk, Applying
  <2>2. CASE MakeUpdate(w)
    <3>k. PICK k : k = Effective(j.conf)
      OBVIOUS
    <3>1. CASE tell' = Finished(w)
      BY <2>1, <3>1, <1>0, FinishedTypes
    <3>2. CASE tell' = [tell EXCEPT ![w].at = IF j.to = Server THEN "apply" ELSE "push", ![w].sends = k]
      <4>1. /\ tell'[w].jobs = tell[w].jobs /\ tell'[w].sends = k
            /\ tell'[w].at = IF j.to = Server THEN "apply" ELSE "push"
        BY <1>0, <3>2 DEF Telling, Told
      <4>2. ~j.del => j.conf = conf[t] /\ conf[t] # None
        BY <1>0 DEF JobOk
      <4>3. SameBut(k, j.conf)
        <5>1. k \in Confs
          BY <1>0, <3>k, EffectiveTypes
        <5>2. j.conf = [enabled |-> j.conf.enabled, sender |-> j.conf.sender,
                        receiver |-> j.conf.receiver, source |-> j.conf.source]
          BY <1>0, ControlAssumption
        <5>3. k # None
          BY <5>1, HostFacts
        <5>4. k.sender = j.conf.sender /\ k.receiver = j.conf.receiver /\ k.source = j.conf.source
          BY <3>k, <5>2 DEF Effective
        <5> QED BY <5>3, <5>4 DEF SameBut
      <4>4. ~j.del => Current(j, k)
        BY <3>k, <4>2, <4>3 DEF Current
      <4>5. ~j.del => Current(j, k)'
        BY <1>4, <4>4
      <4>6. Head(tell'[w].jobs) = j
        BY <1>j, <4>1
      <4> QED BY <4>1, <4>5, <4>6 DEF HandOk, Applying
    <3> QED BY <1>j, <2>2, <3>1, <3>2, <3>k DEF MakeUpdate
  <2>3. CASE Push(w) \/ Reaffirm(w)
    <3>1. tell' = Finished(w)
      BY <2>3 DEF Push, Reaffirm
    <3> QED BY <1>0, <2>1, <3>1, FinishedTypes
  <2>4. CASE Apply(w)
    <3>k. PICK k : k = IF j.del THEN None ELSE s
      OBVIOUS
    <3>1. tell[w].at = "apply" /\ mgr' = [mgr EXCEPT ![Server] = Applied(Server, t, k)]
      BY <1>j, <1>s, <2>4, <3>k DEF Apply
    <3>2. tell'[w].jobs = tell[w].jobs /\ tell'[w].sends = tell[w].sends /\ tell'[w].at = "stop"
      BY <1>0, <2>4 DEF Apply, Telling, Told
    <3>3. mgr'[Server].tunnels[t] = k
      <4>1. mgr'[Server] = Applied(Server, t, k)
        BY <1>0, <3>1, HostFacts DEF Hosted
      <4>2. mgr[Server].tunnels \in [Tunnels -> Tunnel]
        BY <1>0 DEF Managers
      <4> HIDE DEF t
      <4> QED BY <1>0, <4>1, <4>2 DEF Applied
    <3> QED BY <1>5, <3>1, <3>2, <3>3, <3>k DEF Applying
  <2>5. CASE Stop(w)
    <3>1. CASE j.del
      <4>1. tell' = Finished(w)
        BY <1>j, <2>5, <3>1 DEF Stop
      <4> QED BY <1>0, <2>1, <4>1, FinishedTypes
    <3>2. CASE ~j.del
      <4>1. tell[w].at = "stop" /\ tell' = [tell EXCEPT ![w].at = "start", ![w].inHand = None] /\ mgr' = mgr
        BY <1>j, <2>5, <3>2 DEF Stop
      <4>2. tell'[w].jobs = tell[w].jobs /\ tell'[w].sends = tell[w].sends /\ tell'[w].at = "start"
        BY <1>0, <4>1 DEF Telling, Told
      <4>3. mgr'[Server].tunnels[t] = s
        BY <1>0, <1>j, <1>s, <3>2, <4>1 DEF HandOk, Applying
      <4> QED BY <1>5, <3>2, <4>1, <4>2, <4>3 DEF Applying
    <3> QED BY <3>1, <3>2
  <2>6. CASE Start(w)
    <3>1. tell[w].at = "start" /\ mgr' = [mgr EXCEPT ![Server] = WithOutlet(Server, mgr[Server], t, s)]
      BY <1>j, <1>s, <2>6 DEF Start
    <3>2. /\ tell'[w].jobs = tell[w].jobs /\ tell'[w].sends = tell[w].sends
          /\ \/ tell'[w].at = "install" /\ AddressFree(Server, s, listening)
             \/ tell'[w].at = "reaffirm"
      <4>1. \/ tell' = [tell EXCEPT ![w].at = "install", ![w].inHand = s] /\ AddressFree(Server, s, listening)
            \/ tell' = [tell EXCEPT ![w].at = "reaffirm"]
        BY <1>s, <2>6 DEF Start
      <4> QED BY <1>0, <4>1 DEF Telling, Told
    <3>3. ~j.del /\ mgr[Server].tunnels[t] = s
      BY <1>0, <1>j, <1>s, <3>1 DEF HandOk, Applying
    <3>4. mgr'[Server].tunnels[t] = s
      <4>1. mgr'[Server] = WithOutlet(Server, mgr[Server], t, s)
        BY <1>0, <3>1, HostFacts DEF Hosted
      <4>2. s \in Tunnel
        BY <1>0, <1>s DEF Told
      <4>3. WithOutlet(Server, mgr[Server], t, s).tunnels = mgr[Server].tunnels
        BY <1>0, <4>2, WithOutletFits, HostFacts
      <4> QED BY <3>3, <4>1, <4>3
    <3>5. tell'[w].at = "install" => <<Server, s.source>> \notin Taken
      BY <3>2 DEF AddressFree, Self
    <3> HIDE DEF t
    <3> QED BY <1>5, <3>1, <3>2, <3>3, <3>4, <3>5 DEF Applying
  <2>7. CASE Install(w)
    <3>1. /\ tell[w].at = "install" /\ tell' = [tell EXCEPT ![w].at = "reaffirm", ![w].inHand = None]
          /\ mgr' = [mgr EXCEPT ![Server].inlets[t] = s] \/ mgr' = mgr
      BY <1>j, <1>s, <2>7 DEF Install
    <3>2. tell'[w].jobs = tell[w].jobs /\ tell'[w].sends = tell[w].sends /\ tell'[w].at = "reaffirm"
      BY <1>0, <3>1 DEF Telling, Told
    <3>3. ~j.del /\ mgr[Server].tunnels[t] = s
      BY <1>0, <1>j, <1>s, <3>1 DEF HandOk, Applying
    <3>4. mgr'[Server].tunnels = mgr[Server].tunnels
      BY <1>0, <3>1, HostFacts DEF Hosted, Managers
    <3> QED BY <1>5, <3>1, <3>2, <3>3, <3>4 DEF Applying
  <2> QED BY <2>2, <2>3, <2>4, <2>5, <2>6, <2>7 DEF TellStep
<1> QED BY <1>1, <1>3, <1>7, AloneJobs

\* A login or a Close begins to tell.
LEMMA BroadcastBegun ==
    ASSUME Typed, NEW c \in Conns, NEW w \in Tellers, w[1] # "web", \A v \in Tellers : tell[v] = Idle,
           tell' = [tell EXCEPT ![w].jobs = Broadcast(Owner[c])], UNCHANGED conf
    PROVE  JobsOk' /\ EraseOk' /\ HandsOk'
<1>0. Tables /\ Owner[c] \in Players
  BY HostFacts DEF Typed, ServerSide
<1>1. PICK q : q = Broadcast(Owner[c])
  OBVIOUS
<1>2. q \in Seq(Jobs)
  BY <1>0, <1>1, BroadcastTypes
<1>3. \A i \in 1 .. Len(q) : /\ q[i].tunnel \in Tunnels /\ conf[q[i].tunnel] # None
                             /\ q[i].conf = conf[q[i].tunnel]
                             /\ q[i].to \in Ends(q[i].conf) /\ ~q[i].del
  BY <1>0, <1>1, BroadcastJobs
<1>4. tell' = [tell EXCEPT ![w].jobs = q]
  BY <1>1
<1> QED BY <1>2, <1>3, <1>4, BegunJobs

LEMMA SessionJobs ==
    ASSUME Typed, Solo, JobsOk, EraseOk, HandsOk, NEW c \in Conns, Answer(c) \/ Unbind(c) \/ Clear(c), ~mixed'
    PROVE  JobsOk' /\ EraseOk' /\ HandsOk'
<1>0. Silent /\ <<"login", c>> \in Tellers /\ <<"close", c>> \in Tellers
  BY HostFacts DEF Typed, ServerSide
<1>1. CASE Answer(c)
  <2> DEFINE w == <<"login", c>>
  <2>1. /\ tell[w] = Idle /\ \A v \in Tellers \ {w} : ~Active(v)
        /\ tell' = [tell EXCEPT ![w].jobs = Broadcast(Owner[c])] /\ UNCHANGED conf /\ w \in Tellers /\ w[1] # "web"
    BY <1>0, <1>1 DEF Answer, Silent, Mixes
  <2> HIDE DEF w
  <2>2. \A v \in Tellers : tell[v] = Idle
    BY <2>1, NoneAtWork
  <2> QED BY <2>1, <2>2, BroadcastBegun
<1>2. CASE Unbind(c)
  <2> DEFINE w == <<"close", c>>
  <2>1. /\ tell[w] = Idle /\ UNCHANGED tell /\ w \in Tellers
        /\ \A v \in Tellers \ {w} : ~Active(v)
    BY <1>0, <1>2 DEF Unbind, Silent, Mixes
  <2> HIDE DEF w
  <2>2. \A v \in Tellers : tell[v] = Idle
    BY <2>1, NoneAtWork
  <2>3. \A v \in Tellers : tell'[v] = Idle
    BY <2>1, <2>2
  <2> QED BY <2>3, IdleJobs
<1>3. CASE Clear(c)
  <2> DEFINE w == <<"close", c>>
  <2>1. /\ tell[w] = Idle /\ Active(w)
        /\ tell' = [tell EXCEPT ![w].jobs = Broadcast(Owner[c])] /\ UNCHANGED conf /\ w \in Tellers /\ w[1] # "web"
    BY <1>0, <1>3 DEF Clear, Silent, Active
  <2> HIDE DEF w
  <2>2. \A v \in Tellers : tell[v] = Idle
    BY <2>1, AloneAtWork
  <2> QED BY <2>1, <2>2, BroadcastBegun
<1> QED BY <1>1, <1>2, <1>3

\* Nothing happens to the tellers, and what is in their hands stays good.
LEMMA HandsStay ==
    ASSUME Typed, JobsOk, EraseOk, HandsOk, UNCHANGED <<conf, tell>>, mgr'[Server].tunnels = mgr[Server].tunnels,
           \A j \in Jobs, s \in Tunnel : conf[j.tunnel] # None /\ Current(j, s) => Current(j, s)'
    PROVE  JobsOk' /\ EraseOk' /\ HandsOk'
<1>1. JobsOk'
  <2>1. \A w \in Tellers : \A i \in 1 .. Len(tell[w].jobs) : JobOk(w, i) => JobOk(w, i)'
    BY DEF JobOk
  <2> QED BY <2>1 DEF JobsOk
<1>2. EraseOk'
  BY DEF EraseOk
<1>3. ASSUME NEW w \in Tellers PROVE HandOk(w)'
  <2>1. CASE tell[w].at = "next" \/ tell[w].at = "erase"
    BY <2>1 DEF HandOk, Applying
  <2>2. CASE tell[w].at \notin {"next", "erase"}
    <3>1. /\ Head(tell[w].jobs) \in Jobs /\ tell[w].sends \in Tunnel /\ tell[w].jobs # <<>>
          /\ tell[w].jobs \in Seq(Jobs)
      BY <2>2, WorkHasJob DEF Typed, ServerSide, Telling, Told
    <3>2. PICK j \in Jobs : j = Head(tell[w].jobs)
      BY <3>1
    <3>3. PICK s \in Tunnel : s = tell[w].sends
      BY <3>1
    <3>4. 1 \in 1 .. Len(tell[w].jobs) /\ j = tell[w].jobs[1]
      BY <3>1, <3>2
    <3>5. ~j.del => conf[j.tunnel] # None
      BY <2>2, <3>4 DEF JobsOk, JobOk
    <3>6. HandOk(w)
      BY DEF HandsOk
    <3>7. tell[w].at \in Applying \cup {"push"} /\ ~j.del => Current(j, s)'
      BY <3>2, <3>3, <3>5, <3>6 DEF HandOk
    <3> QED BY <3>2, <3>3, <3>6, <3>7 DEF HandOk
  <2> QED BY <2>1, <2>2
<1> QED BY <1>1, <1>2, <1>3 DEF HandsOk

LEMMA BindJobs ==
    ASSUME Typed, JobsOk, EraseOk, HandsOk, NEW c \in Conns, Bind(c)
    PROVE  JobsOk' /\ EraseOk' /\ HandsOk'
<1>0. Tables /\ Sessions /\ Standing /\ Owner[c] \in Players /\ c # None /\ Server \notin Players
  BY HostFacts DEF Typed, ServerSide
<1>1. /\ reader[c] = "hello" /\ reader' = [reader EXCEPT ![c] = "bound"]
      /\ bound' = [bound EXCEPT ![Owner[c]] = c]
      /\ UNCHANGED <<conf, tell, mgr>>
      /\ \A d \in Conns : closer[d] = "clear" => closer'[d] = "clear"
  BY <1>0 DEF Bind, CloseOf, Sessions
<1>2. reader'[c] = "bound" /\ \A d \in Conns : reader[d] = "bound" => reader'[d] = "bound"
  BY <1>0, <1>1 DEF Sessions
<1>3. bound'[Owner[c]] = c /\ \A p \in Players \ {Owner[c]} : bound'[p] = bound[p]
  BY <1>0, <1>1 DEF Tables
<1>4. ASSUME NEW j \in Jobs, NEW s \in Tunnel, conf[j.tunnel] # None, Current(j, s) PROVE Current(j, s)'
  <2>1. SameBut(s, conf'[j.tunnel]) /\ conf'[j.tunnel] = conf[j.tunnel]
    BY <1>1, <1>4 DEF Current
  <2>2. CASE Shaky(j.to, j.tunnel)
    <3>1. Shaky(j.to, j.tunnel)'
      BY <1>1, <1>2, <2>2 DEF Shaky
    <3> QED BY <2>1, <3>1 DEF Current, SameBut
  <2>3. CASE j.to # Server /\ (bound[j.to] # None => reader[bound[j.to]] = "bound")
    <3>1. j.to \in Players
      BY <2>3 DEF Jobs
    <3>2. bound'[j.to] # None => reader'[bound'[j.to]] = "bound"
      <4>1. CASE j.to = Owner[c]
        BY <1>2, <1>3, <4>1
      <4>2. CASE j.to # Owner[c]
        <5>1. bound'[j.to] = bound[j.to] /\ bound[j.to] \in Conns \cup {None}
          BY <1>0, <1>3, <3>1, <4>2 DEF Tables
        <5> QED BY <1>2, <2>3, <5>1
      <4> QED BY <4>1, <4>2
    <3> QED BY <2>1, <2>3, <3>2 DEF Current, SameBut
  <2>4. CASE s = Effective(conf[j.tunnel]) /\ Owner[c] \in Ends(conf[j.tunnel])
    <3>1. CASE j.to = Owner[c]
      BY <1>0, <1>2, <1>3, <2>1, <3>1 DEF Current, SameBut
    <3>2. CASE j.to # Owner[c]
      <4>1. Shaky(j.to, j.tunnel)'
        BY <1>1, <1>2, <2>4, <3>2 DEF Shaky
      <4> QED BY <2>1, <4>1 DEF Current, SameBut
    <3> QED BY <3>1, <3>2
  <2>5. CASE s = Effective(conf[j.tunnel]) /\ Owner[c] \notin Ends(conf[j.tunnel])
    <3>1. PICK t : t = j.tunnel
      OBVIOUS
    <3>2. conf[t] \in Confs
      BY <1>0, <1>4, <3>1 DEF Tables, Tunnel, Jobs
    <3>3. Ends(conf[t]) \subseteq Players \cup {Server}
      BY <3>2, EffectiveTypes DEF Ends
    <3>4. \A p \in Ends(conf[t]) : p # Server => bound'[p] = bound[p]
      BY <1>3, <2>5, <3>1, <3>3
    <3>5. Effective(conf[t])' = Effective(conf[t])
      BY <2>1, <3>1, <3>4, EffectiveSame
    <3> QED BY <2>1, <2>5, <3>1, <3>5 DEF Current, SameBut
  <2> QED BY <1>4, <2>2, <2>3, <2>4, <2>5 DEF Current
<1> QED BY <1>1, <1>4, HandsStay

LEMMA QuietJobs ==
    ASSUME Typed, JobsOk, EraseOk, HandsOk, Quietly
    PROVE  JobsOk' /\ EraseOk' /\ HandsOk'
<1>1. UNCHANGED <<conf, tell, bound>> /\ mgr'[Server].tunnels = mgr[Server].tunnels
  BY DEF Quietly
<1>2. \A d \in Conns : (reader[d] = "bound" <=> reader'[d] = "bound") /\ (closer[d] = "clear" <=> closer'[d] = "clear")
  BY DEF Quietly
<1>3. ASSUME NEW j \in Jobs, NEW s \in Tunnel, Current(j, s) PROVE Current(j, s)'
  <2>1. Effective(conf[j.tunnel])' = Effective(conf[j.tunnel]) /\ (Shaky(j.to, j.tunnel) => Shaky(j.to, j.tunnel)')
    BY <1>1, <1>2 DEF Effective, Available, Shaky
  <2>2. j.to # Server => (bound[j.to] # None => bound[j.to] \in Conns)
    BY DEF Typed, ServerSide, Tables, Jobs
  <2> QED BY <1>1, <1>2, <1>3, <2>1, <2>2 DEF Current, SameBut
<1> QED BY <1>1, <1>3, HandsStay

LEMMA JobsStep ==
    ASSUME Typed, Fits, Solo, JobsOk, EraseOk, HandsOk, [Next]_vars, [KeepsServer]_vars, ~mixed'
    PROVE  JobsOk' /\ EraseOk' /\ HandsOk'
<1>1. ASSUME Restart PROVE JobsOk' /\ EraseOk' /\ HandsOk'
  <2>1. \A w \in Tellers : tell'[w] = Idle
    BY <1>1 DEF Restart
  <2> QED BY <2>1, IdleJobs
<1> QED BY <1>1, StepKinds, QuietJobs, BindJobs, SessionJobs, WebJobs, TellJobs

-----------------------------------------------------------------------------
\* What the server's own manager has been told

\* A manager is told of a tunnel's update while the job is still the teller's.
LEMMA BeingTold ==
    ASSUME Typed, JobsOk, NEW w \in Tellers, HandOk(w), tell[w].at \in {"push"} \cup Applying,
           NEW p, p = Head(tell[w].jobs).to, p = Server,
           NEW t, t = Head(tell[w].jobs).tunnel,
           NEW k, k = IF Head(tell[w].jobs).del THEN None ELSE tell[w].sends
    PROVE  Right(p, t, k)
<1>0. tell[w].jobs \in Seq(Jobs) /\ tell[w].jobs # <<>>
  BY WorkHasJob DEF Typed, ServerSide, Telling, Told, Applying
<1>1. 1 \in 1 .. Len(tell[w].jobs) /\ Head(tell[w].jobs) = tell[w].jobs[1]
  BY <1>0
<1>2. JobOk(w, 1)
  BY <1>1 DEF JobsOk, Applying
<1>3. CASE Head(tell[w].jobs).del
  <2>1. PICK r \in Requests : w = <<"web", r>>
    BY <1>1, <1>2, <1>3 DEF JobOk, Tellers
  <2>2. Owes(w, t, p)
    BY <1>1 DEF Owes
  <2> QED BY <2>1, <2>2 DEF Right, Rewritten
<1>4. CASE ~Head(tell[w].jobs).del
  <2>1. conf[t] # None /\ p \in Ends(conf[t])
    BY <1>1, <1>2, <1>4 DEF JobOk
  <2>2. Current(Head(tell[w].jobs), tell[w].sends)
    BY <1>4 DEF HandOk
  <2>3. SameBut(k, conf[t]) /\ (k = Effective(conf[t]) \/ Shaky(p, t))
    BY <1>4, <2>2 DEF Current
  <2> QED BY <2>1, <2>3 DEF Right, Expected
<1> QED BY <1>3, <1>4

LEMMA TellServerTold ==
    ASSUME Typed, Fits, ServerTold, JobsOk, HandsOk, NEW w \in Tellers, TellStep(w)
    PROVE  ServerTold'
<1>p. PICK p : p = Server
  OBVIOUS
<1>u. PICK u : u = Head(tell[w].jobs).tunnel
  OBVIOUS
<1>s. PICK s : s = IF Head(tell[w].jobs).del THEN None ELSE tell[w].sends
  OBVIOUS
<1>0. /\ Hosted /\ mgr[Server] \in Managers /\ FitsIn(Server, mgr[Server]) /\ HandOk(w) /\ tell[w] \in Told
      /\ tell[w].jobs # <<>> /\ u \in Tunnels
  BY <1>u, TellCases, HeadJob, HostFacts, FitsByHost DEF Typed, ServerSide, Telling, HandsOk, Hosted
<1>1. UNCHANGED <<conf, bound, reader, closer>> /\ \A v \in Tellers \ {w} : tell'[v] = tell[v]
  BY AtWork
<1> SUFFICES ASSUME NEW t \in Tunnels PROVE Right(Server, t, mgr[Server].tunnels[t])'
  BY DEF ServerTold
<1>k. PICK k : k = mgr'[Server].tunnels[t]
  OBVIOUS
<1>2. CASE Apply(w)
  <2>1. tell[w].at = "apply" /\ mgr' = [mgr EXCEPT ![Server] = Applied(Server, u, s)]
    BY <1>2, <1>u, <1>s DEF Apply
  <2>2. mgr'[Server].tunnels = [mgr[Server].tunnels EXCEPT ![u] = s]
    <3>1. mgr'[Server] = Applied(Server, u, s)
      BY <1>0, <2>1, HostFacts DEF Hosted
    <3> QED BY <3>1 DEF Applied
  <2>3. tell'[w].jobs = tell[w].jobs
    BY <1>2, TellCases DEF Finishes, Apply, Push, Reaffirm, Stop
  <2>4. Right(p, t, k)
    <3>1. CASE t # u
      BY <1>0, <1>k, <1>p, <2>2, <3>1 DEF ServerTold, Managers
    <3>2. CASE t = u
      <4>1. k = s
        BY <1>0, <1>k, <2>2, <3>2 DEF Managers
      <4>2. p = Head(tell[w].jobs).to
        BY <1>0, <1>p, <2>1 DEF HandOk, Applying
      <4> QED BY <1>0, <1>p, <1>s, <1>u, <2>1, <3>2, <4>1, <4>2, BeingTold DEF Applying
    <3> QED BY <3>1, <3>2
  <2>5. Right(p, t, k)'
    BY <1>1, <2>3, <2>4, WorkRight
  <2> QED BY <1>k, <1>p, <2>5
<1>3. CASE ~Apply(w)
  <2>1. mgr'[Server].tunnels = mgr[Server].tunnels
    <3>1. CASE Start(w)
      <4>1. mgr' = [mgr EXCEPT ![Server] = WithOutlet(Server, mgr[Server], u, tell[w].sends)]
        BY <1>u, <3>1 DEF Start
      <4>2. mgr'[Server] = WithOutlet(Server, mgr[Server], u, tell[w].sends)
        BY <1>0, <4>1, HostFacts DEF Hosted
      <4>3. tell[w].sends \in Tunnel
        BY <1>0 DEF Told
      <4> QED BY <1>0, <4>2, <4>3, WithOutletFits, HostFacts
    <3>2. CASE Install(w)
      <4>1. mgr' = [mgr EXCEPT ![Server].inlets[u] = tell[w].sends] \/ mgr' = mgr
        BY <1>u, <3>2 DEF Install
      <4> QED BY <1>0, <4>1, HostFacts DEF Hosted, Managers
    <3>3. CASE MakeUpdate(w) \/ Push(w) \/ Stop(w) \/ Reaffirm(w)
      BY <3>3 DEF MakeUpdate, Push, Stop, Reaffirm
    <3> QED BY <1>3, <3>1, <3>2, <3>3 DEF TellStep
  <2>2. Right(p, t, k) /\ k = mgr[Server].tunnels[t]
    BY <1>k, <1>p, <2>1 DEF ServerTold
  <2>3. CASE tell'[w].jobs = tell[w].jobs
    <3>1. Right(p, t, k)'
      BY <1>1, <2>2, <2>3, WorkRight
    <3> QED BY <1>k, <1>p, <3>1
  <2>4. CASE Finishes(w) /\ tell' = Finished(w)
    <3>1. CASE t # u \/ p # Head(tell[w].jobs).to
      <4>1. Right(p, t, k)'
        BY <1>0, <1>1, <1>u, <2>2, <2>4, <3>1, FinishRight
      <4> QED BY <1>k, <1>p, <4>1
    <3>2. CASE t = u /\ p = Head(tell[w].jobs).to
      <4>1. ~Push(w)
        BY <1>0, <1>p, <3>2 DEF Push, HandOk
      <4>2. tell[w].at \in Applying \ {"apply"}
        BY <2>4, <4>1 DEF Finishes, Stop, Reaffirm, Applying
      <4>3. k = s
        BY <1>0, <1>s, <1>u, <2>2, <3>2, <4>2 DEF HandOk
      <4>4. Right(p, t, k)'
        BY <1>0, <1>1, <1>p, <1>s, <1>u, <2>4, <3>2, <4>2, <4>3, LastRight
      <4> QED BY <1>k, <1>p, <4>4
    <3> QED BY <3>1, <3>2
  <2> QED BY <2>3, <2>4, TellCases
<1> QED BY <1>2, <1>3

LEMMA RestartServerTold ==
    ASSUME Typed, Restart
    PROVE  ServerTold'
<1> DEFINE stored == [t \in Tunnels |-> IF Erased(t) THEN None ELSE conf[t]]
<1>0. Hosted /\ Tables /\ stored \in [Tunnels -> Tunnel]
  BY DEF Typed, ServerSide, Tables, Tunnel
<1>1. /\ conf' = stored /\ mgr' = [mgr EXCEPT ![Server] = StartManager(stored)]
      /\ bound' = [p \in Players |-> None]
  BY DEF Restart, NoneFor
<1> HIDE DEF stored
<1> SUFFICES ASSUME NEW t \in Tunnels PROVE Right(Server, t, mgr[Server].tunnels[t])'
  BY DEF ServerTold
<1>k. PICK k : k = AtStart(t, stored[t])
  OBVIOUS
<1>l. PICK l : l = stored[t]
  OBVIOUS
<1>p. PICK p : p = Server
  OBVIOUS
<1>2. mgr'[Server].tunnels[t] = k
  BY <1>0, <1>1, <1>k, HostFacts DEF Hosted, StartManager
<1>3. conf'[t] = l
  BY <1>1, <1>l
<1>4. CASE l = None \/ p \notin Ends(l)
  <2>1. k = None
    BY <1>4, <1>k, <1>l, <1>p DEF AtStart
  <2>2. Right(p, t, k)'
    BY <1>3, <1>4, <2>1 DEF Right, Expected
  <2> QED BY <1>2, <1>p, <2>2
<1>5. CASE l # None /\ p \in Ends(l)
  <2>1. l \in Confs
    BY <1>0, <1>5, <1>l DEF Tunnel
  <2>2. l = [enabled |-> l.enabled, sender |-> l.sender, receiver |-> l.receiver, source |-> l.source]
        /\ l.enabled \in BOOLEAN /\ [l EXCEPT !.enabled = FALSE] \in Confs
    BY <2>1, ControlAssumption
  <2>3. k = [l EXCEPT !.enabled = l.enabled /\ Ends(l) = {Server}]
    BY <1>5, <1>k, <1>l, <1>p DEF AtStart
  <2>4. Ends(l) = {Server} <=> (Available(l.sender)' /\ Available(l.receiver)')
    <3>1. {l.sender, l.receiver} \subseteq Players \cup {Server}
      BY <2>1, ControlAssumption
    <3>2. \A q \in Players \cup {Server} : Available(q)' <=> q = Server
      BY <1>1 DEF Available
    <3> QED BY <3>1, <3>2 DEF Ends
  <2>5. k = Effective(l)'
    BY <2>3, <2>4 DEF Effective
  <2>6. SameBut(k, l)
    <3>1. k.sender = l.sender /\ k.receiver = l.receiver /\ k.source = l.source
      BY <2>2, <2>3
    <3>2. k = l \/ k = [l EXCEPT !.enabled = FALSE]
      <4>1. CASE l.enabled /\ Ends(l) = {Server}
        <5>1. k = [l EXCEPT !.enabled = TRUE]
          BY <2>3, <4>1
        <5> QED BY <2>2, <4>1, <5>1
      <4>2. CASE ~(l.enabled /\ Ends(l) = {Server})
        BY <2>2, <2>3, <4>2
      <4> QED BY <4>1, <4>2
    <3>3. k # None
      BY <2>1, <2>2, <3>2, ControlAssumption
    <3> QED BY <3>1, <3>3 DEF SameBut
  <2>7. Right(p, t, k)'
    BY <1>3, <1>5, <2>5, <2>6 DEF Right, Expected
  <2> QED BY <1>2, <1>p, <2>7
<1> QED BY <1>4, <1>5

LEMMA ServerToldStep ==
    ASSUME Typed, Fits, FreshFree, ServerTold, JobsOk, EraseOk, HandsOk, [Next]_vars
    PROVE  ServerTold'
<1>p. PICK p : p = Server
  OBVIOUS
<1>0. Silent /\ \A c \in Conns : p # Owner[c]
  BY <1>p, HostFacts DEF Typed, ServerSide
<1>1. ASSUME mgr'[Server] = mgr[Server], \A t \in Tunnels, k \in Tunnel : Right(p, t, k) => Right(p, t, k)'
      PROVE  ServerTold'
  <2> SUFFICES ASSUME NEW t \in Tunnels PROVE Right(Server, t, mgr[Server].tunnels[t])'
    BY DEF ServerTold
  <2>1. PICK k \in Tunnel : k = mgr[Server].tunnels[t]
    BY HostFacts DEF Typed, Hosted, Managers
  <2>2. Right(p, t, k)
    BY <1>p, <2>1 DEF ServerTold
  <2>3. Right(p, t, k)'
    BY <1>1, <2>2
  <2> QED BY <1>1, <1>p, <2>1, <2>3
<1>2. ASSUME Quietly PROVE ServerTold'
  <2>1. mgr'[Server] = mgr[Server]
    BY <1>2 DEF Quietly
  <2> QED BY <1>1, <1>2, <2>1, QuietRight
<1>3. ASSUME NEW c \in Conns, Bind(c) PROVE ServerTold'
  <2>1. mgr'[Server] = mgr[Server]
    BY <1>3 DEF Bind
  <2> QED BY <1>0, <1>1, <1>3, <2>1, BindRight
<1>4. ASSUME NEW c \in Conns, Unbind(c) PROVE ServerTold'
  <2>1. mgr'[Server] = mgr[Server]
    BY <1>4 DEF Unbind
  <2> QED BY <1>0, <1>1, <1>4, <2>1, UnbindRight
<1>5. ASSUME NEW c \in Conns, Answer(c) PROVE ServerTold'
  <2>1. /\ tell[<<"login", c>>] = Idle /\ <<"login", c>> \in Tellers /\ mgr'[Server] = mgr[Server]
        /\ tell' = [tell EXCEPT ![<<"login", c>>].jobs = Broadcast(Owner[c])] /\ UNCHANGED <<conf, bound>>
    BY <1>0, <1>5, HostFacts DEF Answer, Silent, linkVars
  <2>2. \A e \in Conns \ {c} : reader'[e] = reader[e] /\ closer'[e] = closer[e]
    BY <1>5 DEF Answer, Typed, ServerSide, Sessions
  <2> QED BY <1>1, <2>1, <2>2, BroadcastRight
<1>6. ASSUME NEW c \in Conns, Clear(c) PROVE ServerTold'
  <2>1. /\ tell[<<"close", c>>] = Idle /\ <<"close", c>> \in Tellers /\ mgr'[Server] = mgr[Server]
        /\ tell' = [tell EXCEPT ![<<"close", c>>].jobs = Broadcast(Owner[c])] /\ UNCHANGED <<conf, bound>>
    BY <1>0, <1>6, HostFacts DEF Clear, Silent, linkVars
  <2>2. \A e \in Conns \ {c} : reader'[e] = reader[e] /\ closer'[e] = closer[e]
    BY <1>6 DEF Clear, Typed, ServerSide, Sessions
  <2> QED BY <1>1, <2>1, <2>2, BroadcastRight
<1>7. ASSUME NEW r \in Requests,
             Remove(r) \/ \E t \in Tunnels : Erase(r, t) \/ \E k \in Confs : Add(r, t, k) \/ Update(r, t, k)
      PROVE  ServerTold'
  <2>1. mgr'[Server] = mgr[Server]
    BY <1>7 DEF Remove, Erase, Add, Update
  <2> QED BY <1>1, <1>7, <2>1, WebRight
<1> QED BY <1>2, <1>3, <1>4, <1>5, <1>6, <1>7, StepKinds, TellServerTold, RestartServerTold

-----------------------------------------------------------------------------
\* What the clients' managers have been told

\* Only the tunnel that a web request is at work on is being changed.
LEMMA NotRewritten ==
    ASSUME Typed, Solo, JobsOk, NEW w \in Tellers, Active(w), NEW t, NEW p,
           w[1] = "web" => tell[w].at # "erase" /\ t # Head(tell[w].jobs).tunnel
    PROVE  ~Rewritten(t, p)
<1> SUFFICES ASSUME NEW r \in Requests, Owes(<<"web", r>>, t, p) PROVE FALSE
  BY DEF Rewritten
<1> DEFINE v == <<"web", r>>
<1>1. v \in Tellers /\ v[1] = "web"
  BY HostFacts
<1>2. PICK i \in 1 .. Len(tell[v].jobs) : tell[v].jobs[i].tunnel = t
  BY DEF Owes
<1> HIDE DEF v
<1>3. tell[v] # Idle
  BY <1>2 DEF Idle
<1>4. v = w
  BY <1>1, <1>3, AloneAtWork
<1>5. JobOk(w, i)
  BY <1>1, <1>2, <1>4 DEF JobsOk
<1> QED BY <1>1, <1>2, <1>4, <1>5 DEF JobOk

\* What is right asks for no address twice.
LEMMA HarmlessRight ==
    ASSUME Apart, NEW c \in Conns, NEW view,
           \A t \in Tunnels : RunsInlet(c, view[t]) => conf[t] # None /\ SameBut(view[t], conf[t])
    PROVE  Harmless(c, view)
<1> SUFFICES ASSUME NEW t \in Tunnels, NEW u \in Tunnels, t # u, RunsInlet(c, view[t]), RunsInlet(c, view[u])
             PROVE  view[t].source # view[u].source
  BY DEF Harmless
<1>1. \A x \in {t, u} : conf[x] # None /\ conf[x].receiver = Self(c) /\ conf[x].source = view[x].source
  BY DEF SameBut, RunsInlet
<1> QED BY <1>1 DEF Apart

LEMMA ExpectedSame ==
    ASSUME NEW p, NEW t, NEW k, k # None, Right(p, t, k), ~Rewritten(t, p)
    PROVE  conf[t] # None /\ SameBut(k, conf[t])
BY DEF Right, Expected

LEMMA ToldKept ==
    ASSUME Typed, FreshFree, EraseOk, JobsOk, HandsOk, [Next]_vars, NEW c \in Conns, Live(c), Live(c)', Kept(c),
           reader'[c] # "bound", ToldTo(c)
    PROVE  ToldTo(c)'
<1>1. reader'[c] = reader[c] /\ reply'[c] = reply[c] /\ down'[c] = down[c] /\ mgr'[c] = mgr[c]
  BY DEF Kept
<1>o. PICK p : p = Owner[c]
  OBVIOUS
<1>2. ASSUME NEW t \in Tunnels, NEW k, Right(p, t, k) PROVE Right(p, t, k)'
  BY <1>2, <1>o, PlayerRight
<1>3. ASSUME reader[c] = "tell", NEW t \in Tunnels PROVE Right(p, t, reply[c][t])'
  <2>1. PICK k : k = reply[c][t]
    OBVIOUS
  <2>2. Right(p, t, k)'
    BY <1>2, <1>3, <1>o, <2>1 DEF ToldTo
  <2> QED BY <1>1, <2>1, <2>2
<1>4. ASSUME reader[c] = "read"
      PROVE  \E v : /\ Course(c, v)' /\ \A n \in 0 .. Len(down'[c]) : Harmless(c, v[n])
                    /\ \A t \in Tunnels : Right(p, t, v[Len(down[c])][t])'
  <2>1. PICK v : /\ Course(c, v) /\ \A n \in 0 .. Len(down[c]) : Harmless(c, v[n])
                 /\ \A t \in Tunnels : Right(p, t, v[Len(down[c])][t])
    BY <1>4, <1>o DEF ToldTo
  <2>2. Course(c, v)'
    BY <1>1, <2>1 DEF Course
  <2>3. PICK l : l = Len(down[c])
    OBVIOUS
  <2>4. \A t \in Tunnels : Right(p, t, v[l][t])'
    <3> SUFFICES ASSUME NEW t \in Tunnels PROVE Right(p, t, v[l][t])'
      OBVIOUS
    <3>1. Right(p, t, v[l][t])
      BY <2>1, <2>3
    <3> QED BY <1>2, <3>1
  <2>5. \A t \in Tunnels : Right(p, t, v[Len(down[c])][t])'
    BY <1>1, <2>3, <2>4
  <2> QED BY <1>1, <2>1, <2>2, <2>5
<1>5. reader'[c] = "tell" => \A t \in Tunnels : Right(Owner[c], t, reply[c][t])'
  BY <1>1, <1>3, <1>o
<1>6. reader'[c] = "read" =>
         \E v : /\ Course(c, v)' /\ \A n \in 0 .. Len(down'[c]) : Harmless(c, v[n])
                /\ \A t \in Tunnels : Right(Owner[c], t, v[Len(down[c])][t])'
  BY <1>1, <1>4, <1>o
<1> QED BY <1>5, <1>6 DEF ToldTo, Harmless, RunsInlet, Self

LEMMA AnswerTold ==
    ASSUME Typed, NEW c \in Conns, Answer(c)
    PROVE  ToldTo(c)'
<1>0. Tables /\ Sessions
  BY DEF Typed, ServerSide
<1>1. /\ reply' = [reply EXCEPT ![c] =
              [t \in Tunnels |-> IF t \in TunnelsOf(Owner[c]) THEN Effective(conf[t]) ELSE None]]
      /\ reader' = [reader EXCEPT ![c] = "tell"] /\ UNCHANGED <<conf, bound>>
  BY DEF Answer
<1>2. reader'[c] = "tell" /\ reply'[c] = [t \in Tunnels |-> IF t \in TunnelsOf(Owner[c]) THEN Effective(conf[t]) ELSE None]
  BY <1>0, <1>1 DEF Sessions
<1>3. ASSUME NEW t \in Tunnels PROVE Right(Owner[c], t, reply[c][t])'
  <2>1. PICK k : k = reply'[c][t]
    OBVIOUS
  <2>p. PICK p : p = Owner[c]
    OBVIOUS
  <2>2. CASE conf[t] = None \/ p \notin Ends(conf[t])
    <3>1. k = None
      BY <1>2, <2>1, <2>2, <2>p DEF TunnelsOf
    <3>2. Right(p, t, k)'
      BY <1>1, <2>2, <3>1 DEF Right, Expected
    <3> QED BY <2>1, <2>p, <3>2
  <2>3. CASE conf[t] # None /\ p \in Ends(conf[t])
    <3>1. k = Effective(conf[t])
      BY <1>2, <2>1, <2>3, <2>p DEF TunnelsOf
    <3>2. SameBut(k, conf[t])
      <4>1. PICK l : l = conf[t]
        OBVIOUS
      <4>2. l \in Confs
        BY <1>0, <2>3, <4>1 DEF Tables, Tunnel
      <4>3. l = [enabled |-> l.enabled, sender |-> l.sender, receiver |-> l.receiver, source |-> l.source]
        BY <4>2, ControlAssumption
      <4>4. k \in Confs
        BY <3>1, <4>1, <4>2, EffectiveTypes
      <4>5. k.sender = l.sender /\ k.receiver = l.receiver /\ k.source = l.source
        BY <3>1, <4>1, <4>3 DEF Effective
      <4> QED BY <4>1, <4>4, <4>5, HostFacts DEF SameBut
    <3>3. Effective(conf[t])' = Effective(conf[t])
      BY <1>1 DEF Effective, Available
    <3>4. Right(p, t, k)'
      BY <1>1, <2>3, <3>1, <3>2, <3>3 DEF Right, Expected, SameBut
    <3> QED BY <2>1, <2>p, <3>4
  <2> QED BY <2>2, <2>3
<1> QED BY <1>2, <1>3 DEF ToldTo

\* A login that is answered on a connection that nothing has been sent on
LEMMA LoggingIn ==
    ASSUME Typed, Clients, SessionsOk, NEW c \in Conns, Live(c), reader[c] \in {"bound", "tell"}
    PROVE  down[c] = <<>> /\ mgr[c] = NewManager /\ client[c] = "login"
<1>0. Links /\ Acks /\ Sessions
  BY DEF Typed, ServerSide
<1>1. link[c] = "up" /\ ~Doomed(c)
  BY DEF Live
<1>2. client[c] = "login"
  <2>1. client[c] # "in"
    BY <1>0 DEF Acks
  <2>2. client[c] # "off" /\ client[c] # "closed"
    BY <1>1 DEF SessionsOk
  <2> QED BY <1>0, <2>1, <2>2 DEF Links
<1>3. down[c] = <<>>
  <2>1. SUFFICES ASSUME down[c] # <<>> PROVE FALSE
    OBVIOUS
  <2>2. IsAck(Head(down[c]))
    BY <1>1, <1>2, <2>1 DEF Doomed
  <2>3. down[c] \in Seq(Pushes)
    BY <1>0 DEF Links
  <2>4. Head(down[c]) = down[c][1] /\ 1 \in 1 .. Len(down[c])
    BY <2>1, <2>3
  <2> QED BY <1>0, <2>2, <2>4 DEF Acks, NoAck
<1> QED BY <1>2, <1>3 DEF Clients

LEMMA AckTold ==
    ASSUME Typed, Clients, SessionsOk, Apart, Solo, JobsOk, NEW c \in Conns, Live(c), Ack(c), ToldTo(c)
    PROVE  ToldTo(c)'
<1>0. Tables /\ Sessions /\ Links /\ Replying /\ Hosted /\ c \in Hosts /\ Self(c) = Owner[c] /\ mgr[c] \in Managers
  BY HostFacts DEF Typed, ServerSide, Hosted
<1>1. /\ reader[c] = "tell" /\ tell[<<"login", c>>] = Idle /\ closer[c] = "no"
      /\ down' = [down EXCEPT ![c] = Append(down[c], [ack |-> reply[c]])]
      /\ reader' = [reader EXCEPT ![c] = "read"] /\ UNCHANGED <<conf, bound, tell, mgr, closer>>
  BY DEF Ack, Live
<1>2. down[c] = <<>> /\ mgr[c] = NewManager
  BY <1>1, LoggingIn
<1>p. PICK p : p = Owner[c]
  OBVIOUS
<1>3. PICK list \in [Tunnels -> Tunnel] : list = reply[c]
  BY <1>0, <1>1 DEF Replying
<1>4. PICK none \in [Tunnels -> Tunnel] : none = mgr[c].tunnels
  BY <1>0 DEF Managers
<1>5. reader'[c] = "read" /\ down'[c] = <<[ack |-> list]>> /\ mgr'[c] = mgr[c]
  BY <1>0, <1>1, <1>2, <1>3 DEF Sessions, Links
<1>6. Quietly
  BY <1>0, <1>1 DEF Quietly, Sessions
<1>7. \A t \in Tunnels : Right(p, t, list[t]) /\ ~Rewritten(t, p)
  <2>1. \A t \in Tunnels : Right(p, t, list[t])
    BY <1>1, <1>3, <1>p DEF ToldTo
  <2>2. PICK w : w = <<"login", c>>
    OBVIOUS
  <2>3. w \in Tellers /\ Active(w) /\ w[1] # "web"
    BY <1>1, <2>2, HostFacts DEF Active
  <2> QED BY <2>1, <2>3, NotRewritten
<1>8. \A t \in Tunnels : Right(p, t, list[t])'
  <2> SUFFICES ASSUME NEW t \in Tunnels PROVE Right(p, t, list[t])'
    OBVIOUS
  <2> QED BY <1>6, <1>7, QuietRight
<1>9. Harmless(c, list)
  <2>1. ASSUME NEW t \in Tunnels, RunsInlet(c, list[t]) PROVE conf[t] # None /\ SameBut(list[t], conf[t])
    BY <1>7, <2>1, ExpectedSame DEF RunsInlet
  <2> QED BY <2>1, HarmlessRight
<1>10. Harmless(c, none)
  BY <1>2, <1>4 DEF Harmless, NewManager, RunsInlet
<1> DEFINE v == [n \in 0 .. 1 |-> IF n = 0 THEN none ELSE list]
<1>11. /\ Len(<<[ack |-> list]>>) = 1 /\ <<[ack |-> list]>>[1] = [ack |-> list]
       /\ \A n \in 0 .. 1 : n = 0 \/ n = 1
       /\ \A n \in 1 .. 1 : n = 1
  OBVIOUS
<1>12. v[0] = none /\ v[1] = list /\ v \in [0 .. 1 -> [Tunnels -> Tunnel]]
  BY <1>11
<1>13. After(none, [ack |-> list]) = list
  BY DEF After, IsAck
<1> HIDE DEF v
<1>14. Course(c, v)'
  <2>1. mgr'[c].tunnels = none
    BY <1>4, <1>5
  <2>2. \A n \in 1 .. 1 : v[n] = After(v[n - 1], <<[ack |-> list]>>[n])
    <3>1. v[1] = After(v[1 - 1], <<[ack |-> list]>>[1])
      BY <1>11, <1>12, <1>13
    <3> QED BY <1>11, <3>1
  <2> QED BY <1>5, <1>11, <1>12, <2>1, <2>2 DEF Course
<1>15. \A n \in 0 .. Len(down'[c]) : Harmless(c, v[n])
  BY <1>5, <1>9, <1>10, <1>11, <1>12
<1>16. \A t \in Tunnels : Right(p, t, v[Len(down[c])][t])'
  BY <1>5, <1>8, <1>11, <1>12
<1>17. \E x : Course(c, x)' /\ (\A n \in 0 .. Len(down'[c]) : Harmless(c, x[n]))
              /\ \A t \in Tunnels : Right(p, t, x[Len(down[c])][t])'
  BY <1>14, <1>15, <1>16
<1> QED BY <1>5, <1>17, <1>p DEF ToldTo, Harmless, RunsInlet, Self

\* A client handles the next message: the course gets shorter.
LEMMA HandledView ==
    ASSUME NEW h \in Hosts, Hosted, NEW t \in Tunnels, NEW k \in Tunnel
    PROVE  Handled(h, t, k).mgr.tunnels = [mgr[h].tunnels EXCEPT ![t] = k]
<1> DEFINE applied == WithOutlet(h, Applied(h, t, k), t, k)
<1>1. Applied(h, t, k).tunnels = [mgr[h].tunnels EXCEPT ![t] = k]
  BY DEF Applied
<1>2. applied.tunnels = Applied(h, t, k).tunnels
  BY DEF WithOutlet, Applied
<1>3. [applied EXCEPT !.inlets[t] = k].tunnels = applied.tunnels
  BY DEF WithOutlet, Applied
<1>4. Handled(h, t, k).mgr = applied \/ Handled(h, t, k).mgr = [applied EXCEPT !.inlets[t] = k]
  BY DEF Handled
<1> HIDE DEF applied
<1> QED BY <1>1, <1>2, <1>3, <1>4

LEMMA NextTold ==
    ASSUME Typed, NEW c \in Conns, LoggedIn(c) \/ UpdateTunnel(c), ToldTo(c)
    PROVE  /\ ToldTo(c)' /\ Quietly
           /\ down[c] # <<>> /\ mgr'[c].tunnels = After(mgr[c].tunnels, Head(down[c]))
           /\ UpdateTunnel(c) => ~IsAck(Head(down[c])) /\ Head(down[c]).tunnel \in Tunnels /\ Head(down[c]).conf \in Tunnel
<1>0. Links /\ Acks /\ Hosted /\ c \in Hosts /\ c # Server
  BY HostFacts DEF Typed
<1>1. /\ UNCHANGED <<conf, bound, tell, reader, closer, reply>> /\ down[c] # <<>>
      /\ down' = [down EXCEPT ![c] = Tail(down[c])]
  BY DEF LoggedIn, UpdateTunnel, serverVars
<1>2. mgr'[Server] = mgr[Server]
  BY <1>0, HostFacts DEF LoggedIn, UpdateTunnel, Hosted
<1>3. Quietly
  BY <1>1, <1>2 DEF Quietly
<1>4. /\ down[c] \in Seq(Pushes) /\ Head(down[c]) = down[c][1] /\ down'[c] = Tail(down[c])
      /\ Head(down[c]) \in Pushes /\ 1 \in 1 .. Len(down[c])
  BY <1>0, <1>1 DEF Links
<1>5. UpdateTunnel(c) => ~IsAck(Head(down[c])) /\ Head(down[c]).tunnel \in Tunnels /\ Head(down[c]).conf \in Tunnel
  <2> SUFFICES ASSUME UpdateTunnel(c)
               PROVE  ~IsAck(Head(down[c])) /\ Head(down[c]).tunnel \in Tunnels /\ Head(down[c]).conf \in Tunnel
    OBVIOUS
  <2>1. ~IsAck(Head(down[c]))
    BY <1>0, <1>4 DEF UpdateTunnel, Acks, NoAck
  <2>2. \A m \in [ack : [Tunnels -> Tunnel]] : IsAck(m)
    BY DEF IsAck
  <2> QED BY <1>4, <2>1, <2>2 DEF Pushes
<1>6. mgr'[c].tunnels = After(mgr[c].tunnels, Head(down[c]))
  <2>1. CASE LoggedIn(c)
    <3>1. IsAck(Head(down[c])) /\ mgr'[c].tunnels = Head(down[c]).ack
      BY <1>0, <2>1 DEF LoggedIn, Hosted
    <3> QED BY <3>1 DEF After
  <2>2. CASE UpdateTunnel(c)
    <3> DEFINE m == Head(down[c])
    <3>1. mgr' = [mgr EXCEPT ![c] = Handled(c, m.tunnel, m.conf).mgr]
      BY <2>2 DEF UpdateTunnel
    <3>2. mgr'[c] = Handled(c, m.tunnel, m.conf).mgr
      BY <1>0, <3>1 DEF Hosted
    <3>3. ~IsAck(m) /\ m.tunnel \in Tunnels /\ m.conf \in Tunnel
      BY <1>5, <2>2
    <3> HIDE DEF m
    <3>4. Handled(c, m.tunnel, m.conf).mgr.tunnels = [mgr[c].tunnels EXCEPT ![m.tunnel] = m.conf]
      BY <1>0, <3>3, HandledView
    <3>5. After(mgr[c].tunnels, m) = [mgr[c].tunnels EXCEPT ![m.tunnel] = m.conf]
      BY <3>3 DEF After
    <3>6. mgr'[c].tunnels = After(mgr[c].tunnels, m)
      BY <3>2, <3>4, <3>5
    <3> QED BY <3>6 DEF m
  <2> QED BY <2>1, <2>2
<1>o. PICK p : p = Owner[c]
  OBVIOUS
<1>7. ASSUME reader[c] = "read"
      PROVE  \E v : /\ Course(c, v)' /\ \A n \in 0 .. Len(down'[c]) : Harmless(c, v[n])
                    /\ \A t \in Tunnels : Right(p, t, v[Len(down[c])][t])'
  <2>1. PICK v : /\ Course(c, v) /\ \A n \in 0 .. Len(down[c]) : Harmless(c, v[n])
                 /\ \A t \in Tunnels : Right(p, t, v[Len(down[c])][t])
    BY <1>7, <1>o DEF ToldTo
  <2>2. PICK q \in Seq(Pushes) : q = down[c]
    BY <1>4
  <2>3. /\ Tail(q) \in Seq(Pushes) /\ Len(q) \in Nat \ {0} /\ Len(Tail(q)) = Len(q) - 1
        /\ \A n \in 1 .. Len(Tail(q)) : n + 1 \in 2 .. Len(q) /\ Tail(q)[n] = q[n + 1]
    BY <1>1, <2>2, TailElements
  <2> DEFINE l == Len(Tail(q))
             x == [n \in 0 .. l |-> v[n + 1]]
  <2>4. /\ \A n \in 0 .. l : n + 1 \in 1 .. Len(q) /\ n + 1 \in 0 .. Len(q) /\ x[n] = v[n + 1]
        /\ \A n \in 1 .. l : n - 1 \in 0 .. l /\ (n - 1) + 1 = n /\ n \in 0 .. l
        /\ l \in Nat /\ l + 1 = Len(q) /\ 0 \in 0 .. l /\ l \in 0 .. l /\ 0 + 1 = 1
    BY <2>3
  <2>5. /\ v \in [0 .. Len(q) -> [Tunnels -> Tunnel]] /\ v[0] = mgr[c].tunnels
        /\ \A n \in 1 .. Len(q) : v[n] = After(v[n - 1], q[n])
    BY <2>1, <2>2 DEF Course
  <2>6. x \in [0 .. l -> [Tunnels -> Tunnel]]
    BY <2>4, <2>5
  <2> HIDE DEF x
  <2>7. x[0] = mgr'[c].tunnels
    <3>1. x[0] = v[1] /\ 1 \in 1 .. Len(q)
      BY <2>4
    <3>2. v[1] = After(v[1 - 1], q[1])
      BY <2>5, <3>1
    <3>3. v[1] = After(v[0], q[1])
      BY <3>2
    <3> QED BY <1>4, <1>6, <2>2, <2>5, <3>1, <3>3
  <2>8. \A n \in 1 .. l : x[n] = After(x[n - 1], Tail(q)[n])
    <3> SUFFICES ASSUME NEW n \in 1 .. l PROVE x[n] = After(x[n - 1], Tail(q)[n])
      OBVIOUS
    <3>1. x[n] = v[n + 1] /\ x[n - 1] = v[n] /\ n + 1 \in 1 .. Len(q) /\ Tail(q)[n] = q[n + 1]
      BY <2>3, <2>4
    <3>2. v[n + 1] = After(v[(n + 1) - 1], q[n + 1])
      BY <2>5, <3>1
    <3>3. (n + 1) - 1 = n
      BY <2>4
    <3> QED BY <3>1, <3>2, <3>3
  <2>9. down'[c] = Tail(q) /\ Len(down'[c]) = l
    BY <1>4, <2>2
  <2>10. Course(c, x)'
    BY <2>6, <2>7, <2>8, <2>9 DEF Course
  <2>11. \A n \in 0 .. Len(down'[c]) : Harmless(c, x[n])
    BY <2>1, <2>2, <2>4, <2>9
  <2>12. \A t \in Tunnels : Right(p, t, x[l][t])'
    <3> SUFFICES ASSUME NEW t \in Tunnels PROVE Right(p, t, x[l][t])'
      OBVIOUS
    <3>1. x[l] = v[Len(q)]
      BY <2>4
    <3>2. Right(p, t, v[Len(q)][t])
      BY <2>1, <2>2
    <3>3. Right(p, t, v[Len(q)][t])'
      BY <1>3, <3>2, QuietRight
    <3> QED BY <3>1, <3>3
  <2>13. \A t \in Tunnels : Right(p, t, x[Len(down[c])][t])'
    BY <2>9, <2>12
  <2> QED BY <2>10, <2>11, <2>13
<1>8. ASSUME reader[c] = "tell", NEW t \in Tunnels PROVE Right(p, t, reply[c][t])'
  <2>1. PICK k : k = reply[c][t]
    OBVIOUS
  <2>2. Right(p, t, k)
    BY <1>8, <1>o, <2>1 DEF ToldTo
  <2>3. Right(p, t, k)'
    BY <1>3, <2>2, QuietRight
  <2> QED BY <1>1, <2>1, <2>3
<1>9. ToldTo(c)'
  BY <1>1, <1>7, <1>8, <1>o DEF ToldTo, Harmless, RunsInlet, Self
<1> QED BY <1>1, <1>3, <1>5, <1>6, <1>9

\* A client is sent an update: the course gets longer.
LEMMA PushTold ==
    ASSUME Typed, Clients, SessionsOk, Apart, Solo, JobsOk, HandsOk, NEW w \in Tellers, NEW c \in Conns,
           PushTo(w, c), Live(c), Live(c)', ToldTo(c)
    PROVE  ToldTo(c)'
<1>0. Links /\ Hosted /\ Standing /\ Tables /\ HandOk(w) /\ tell[w] \in Told /\ c # None
  BY HostFacts DEF Typed, ServerSide, HandsOk, Telling
<1>u. PICK u : u = Head(tell[w].jobs).tunnel
  OBVIOUS
<1>s. PICK s : s = IF Head(tell[w].jobs).del THEN None ELSE tell[w].sends
  OBVIOUS
<1>p. PICK p : p = Owner[c]
  OBVIOUS
<1>m. PICK m : m = [tunnel |-> u, conf |-> s]
  OBVIOUS
<1>1. /\ tell[w].at = "push" /\ tell' = Finished(w) /\ UNCHANGED <<conf, bound, reader, closer, mgr, client, reply>>
      /\ bound[Head(tell[w].jobs).to] = c /\ closer[c] = "no"
      /\ down' = [down EXCEPT ![c] = Append(down[c], m)]
  BY <1>0, <1>u, <1>s, <1>m DEF PushTo, Push, serverVars, Live
<1>2. /\ tell[w].jobs # <<>> /\ u \in Tunnels /\ s \in Tunnel /\ Head(tell[w].jobs) \in Jobs
      /\ Head(tell[w].jobs) = tell[w].jobs[1] /\ 1 \in 1 .. Len(tell[w].jobs)
  <2>1. tell[w].jobs # <<>> /\ u \in Tunnels /\ Head(tell[w].jobs) \in Jobs /\ tell[w].sends \in Tunnel
    BY <1>1, <1>u, WorkHasJob DEF Typed, ServerSide
  <2>2. tell[w].jobs \in Seq(Jobs)
    BY <1>0 DEF Told
  <2>3. s \in Tunnel
    BY <1>s, <2>1 DEF Tunnel
  <2> QED BY <2>1, <2>2, <2>3
<1>3. p = Head(tell[w].jobs).to
  <2>1. Head(tell[w].jobs).to \in Players
    BY <1>0, <1>1, <1>2 DEF HandOk, Jobs
  <2> QED BY <1>0, <1>1, <1>p, <2>1 DEF Standing
<1>4. ~IsAck(m) /\ m.tunnel = u /\ m.conf = s /\ m \in Pushes
  BY <1>2, <1>m DEF IsAck, Pushes
<1>5. down'[c] = Append(down[c], m) /\ down[c] \in Seq(Pushes) /\ reader'[c] = reader[c]
  BY <1>0, <1>1 DEF Links
<1>6. reader[c] # "tell"
  <2> SUFFICES ASSUME reader[c] = "tell" PROVE FALSE
    OBVIOUS
  <2>1. down[c] = <<>> /\ client[c] = "login"
    BY LoggingIn
  <2>2. down'[c] = <<m>> /\ <<m>> # <<>> /\ Head(<<m>>) = m
    BY <1>5, <2>1
  <2> QED BY <1>1, <1>4, <2>1, <2>2 DEF Live, Doomed
<1>7. ASSUME reader[c] = "read"
      PROVE  \E v : /\ Course(c, v)' /\ \A n \in 0 .. Len(down'[c]) : Harmless(c, v[n])
                    /\ \A t \in Tunnels : Right(p, t, v[Len(down[c])][t])'
  <2>1. PICK v : /\ Course(c, v) /\ \A n \in 0 .. Len(down[c]) : Harmless(c, v[n])
                 /\ \A t \in Tunnels : Right(p, t, v[Len(down[c])][t])
    BY <1>7, <1>p DEF ToldTo
  <2>2. PICK q \in Seq(Pushes) : q = down[c]
    BY <1>5
  <2>3. PICK l \in Nat : l = Len(q)
    OBVIOUS
  <2>4. /\ v \in [0 .. l -> [Tunnels -> Tunnel]] /\ v[0] = mgr[c].tunnels
        /\ \A n \in 1 .. l : v[n] = After(v[n - 1], q[n])
        /\ \A n \in 0 .. l : Harmless(c, v[n])
    BY <2>1, <2>2, <2>3 DEF Course
  <2>view. PICK view \in [Tunnels -> Tunnel] : view = v[l]
    BY <2>3, <2>4
  <2>5. \A t \in Tunnels : Right(p, t, view[t])
    BY <2>1, <2>2, <2>3, <2>view
  <2> DEFINE new == [view EXCEPT ![u] = s]
             x == [n \in 0 .. l + 1 |-> IF n = l + 1 THEN new ELSE v[n]]
  <2>6. new \in [Tunnels -> Tunnel] /\ After(view, m) = new
        /\ new[u] = s /\ \A t \in Tunnels \ {u} : new[t] = view[t]
    BY <1>2, <1>4, <2>view DEF After
  <2> HIDE DEF new
  <2>7. \A n \in 0 .. l : n # l + 1 /\ n \in 0 .. l + 1 /\ x[n] = v[n]
    BY <2>3
  <2>8. x[l + 1] = new /\ \A n \in 0 .. l + 1 : n = l + 1 \/ n \in 0 .. l
    BY <2>3
  <2>9. x \in [0 .. l + 1 -> [Tunnels -> Tunnel]]
    BY <2>4, <2>6, <2>8
  <2> HIDE DEF x
  <2>10. /\ Append(q, m) \in Seq(Pushes) /\ Len(Append(q, m)) = l + 1 /\ Append(q, m)[l + 1] = m
         /\ \A n \in 1 .. l : Append(q, m)[n] = q[n]
    BY <1>4, <2>3
  <2>11. down'[c] = Append(q, m) /\ Len(down'[c]) = l + 1
    BY <1>5, <2>2, <2>10
  <2>12. \A n \in 1 .. l + 1 : x[n] = After(x[n - 1], Append(q, m)[n])
    <3> SUFFICES ASSUME NEW n \in 1 .. l + 1 PROVE x[n] = After(x[n - 1], Append(q, m)[n])
      OBVIOUS
    <3>1. CASE n = l + 1
      <4>1. n - 1 = l /\ l \in 0 .. l
        BY <2>3, <3>1
      <4>2. x[n - 1] = view
        BY <2>7, <2>view, <4>1
      <4> QED BY <2>6, <2>8, <2>10, <3>1, <4>2
    <3>2. CASE n # l + 1
      <4>1. n \in 1 .. l /\ n \in 0 .. l /\ n - 1 \in 0 .. l
        BY <2>3, <3>2
      <4>2. x[n] = v[n] /\ x[n - 1] = v[n - 1] /\ Append(q, m)[n] = q[n]
        BY <2>7, <2>10, <4>1
      <4> QED BY <2>4, <4>1, <4>2
    <3> QED BY <3>1, <3>2
  <2>13. x[0] = mgr'[c].tunnels
    <3>1. 0 \in 0 .. l
      BY <2>3
    <3> QED BY <1>1, <2>4, <2>7, <3>1
  <2>14. Course(c, x)'
    BY <2>9, <2>11, <2>12, <2>13 DEF Course
  <2>15. \A t \in Tunnels \ {u} : ~Rewritten(t, p)
    <3>1. Active(w)
      BY <1>1, AtActive
    <3> QED BY <1>1, <1>u, <3>1, NotRewritten
  <2>16. Harmless(c, new)
    <3>1. ASSUME NEW t \in Tunnels, RunsInlet(c, new[t]) PROVE conf[t] # None /\ SameBut(new[t], conf[t])
      <4>1. CASE t # u
        BY <2>5, <2>6, <2>15, <3>1, <4>1, ExpectedSame DEF RunsInlet
      <4>2. CASE t = u
        <5>1. new[t] = s /\ s # None /\ ~Head(tell[w].jobs).del
          BY <1>s, <2>6, <3>1, <4>2 DEF RunsInlet
        <5>2. Current(Head(tell[w].jobs), tell[w].sends)
          BY <1>0, <1>1, <5>1 DEF HandOk
        <5>3. JobOk(w, 1)
          BY <1>1, <1>2 DEF JobsOk
        <5>4. conf[u] # None
          BY <1>2, <1>u, <5>1, <5>3 DEF JobOk
        <5> QED BY <1>s, <1>u, <4>2, <5>1, <5>2, <5>4 DEF Current
      <4> QED BY <4>1, <4>2
    <3> QED BY <3>1, HarmlessRight
  <2>17. \A n \in 0 .. Len(down'[c]) : Harmless(c, x[n])
    BY <2>4, <2>7, <2>8, <2>11, <2>16
  <2>18. ASSUME NEW t \in Tunnels PROVE Right(p, t, new[t])'
    <3>1. CASE t # u
      <4>1. Right(p, t, view[t])
        BY <2>5
      <4>2. Right(p, t, view[t])'
        BY <1>1, <1>2, <1>u, <3>1, <4>1, FinishRight
      <4>3. new[t] = view[t]
        BY <2>6, <3>1
      <4> QED BY <4>2, <4>3
    <3>2. CASE t = u
      <4>1. bound[p] = c /\ c # None /\ reader[bound[p]] # "bound"
        BY <1>0, <1>1, <1>3, <1>7
      <4>2. Right(p, u, s)'
        BY <1>0, <1>1, <1>3, <1>s, <1>u, <4>1, LastRight
      <4> QED BY <2>6, <3>2, <4>2
    <3> QED BY <3>1, <3>2
  <2>19. \A t \in Tunnels : Right(p, t, x[l + 1][t])'
    <3> SUFFICES ASSUME NEW t \in Tunnels PROVE Right(p, t, x[l + 1][t])'
      OBVIOUS
    <3> QED BY <2>8, <2>18
  <2>20. \A t \in Tunnels : Right(p, t, x[Len(down[c])][t])'
    BY <2>11, <2>19
  <2> QED BY <2>14, <2>17, <2>20
<1> QED BY <1>1, <1>6, <1>7, <1>p DEF ToldTo, Harmless, RunsInlet, Self

LEMMA ClientsToldStep ==
    ASSUME IInv, Plain, Solo, ClientsTold, JobsOk, EraseOk, HandsOk, [Next]_vars
    PROVE  ClientsTold'
<1>0. Typed /\ Clients /\ SessionsOk /\ Apart /\ FreshFree
  BY DEF IInv, Plain
<1> SUFFICES ASSUME NEW c \in Conns, Live(c)' PROVE ToldTo(c)'
  BY DEF ClientsTold
<1>1. CASE reader'[c] = "bound"
  BY <1>1 DEF ToldTo
<1>2. ASSUME reader'[c] # "bound", Live(c), Kept(c) PROVE ToldTo(c)'
  BY <1>0, <1>2, ToldKept DEF ClientsTold
<1>3. ASSUME Live(c), Answer(c) PROVE ToldTo(c)'
  BY <1>0, <1>3, AnswerTold
<1>4. ASSUME Live(c), Ack(c) PROVE ToldTo(c)'
  BY <1>0, <1>4, AckTold DEF ClientsTold
<1>5. ASSUME Live(c), LoggedIn(c) \/ UpdateTunnel(c) PROVE ToldTo(c)'
  BY <1>0, <1>5, NextTold DEF ClientsTold
<1>6. ASSUME NEW w \in Tellers, Live(c), PushTo(w, c) PROVE ToldTo(c)'
  BY <1>0, <1>6, PushTold DEF ClientsTold
<1> QED BY <1>0, <1>1, <1>2, <1>3, <1>4, <1>5, <1>6, LiveStep

-----------------------------------------------------------------------------
\* What managers do about what they were told

LEMMA HandledDone ==
    ASSUME NEW h \in Hosts, Hosted, FitsIn(h, mgr[h]), NEW t \in Tunnels, NEW k \in Tunnel, NEW m, m = Handled(h, t, k).mgr
    PROVE  /\ \A u \in Tunnels \ {t} : m.inlets[u] = mgr[h].inlets[u] /\ m.outlets[u] = mgr[h].outlets[u]
           /\ RunsOutlet(h, k) => m.outlets[t] # None
           /\ m.inlets[t] # None => \/ m.inlets[t] = mgr[h].inlets[t]
                                    \/ m.inlets[t] = k /\ <<Self(h), k.source>> \notin Taken
           /\ RunsInlet(h, k) /\ m.inlets[t] = None /\ <<Self(h), k.source>> \notin Taken =>
                 \E l \in listening : /\ Self(l.host) = Self(h) /\ l.conf.source = k.source
                                      /\ l # Listener(h, t, mgr[h].inlets[t])
<1> DEFINE old == mgr[h].inlets[t]
           stops == StopsInlet(h, old, k)
           open == IF stops THEN listening \ {Listener(h, t, old)} ELSE listening
           base == Applied(h, t, k)
           applied == WithOutlet(h, base, t, k)
           starts == MayInlet(h, applied, t, k) /\ AddressFree(h, k, open)
<1>1. m = IF starts THEN [applied EXCEPT !.inlets[t] = k] ELSE applied
  BY DEF Handled
<1>2. mgr[h] \in Managers
  BY DEF Hosted
<1>3. /\ base \in Managers /\ FitsIn(h, base)
      /\ base.inlets = [mgr[h].inlets EXCEPT ![t] = IF stops THEN None ELSE old]
  BY <1>2, AppliedFits
<1>4. /\ base.tunnels[t] = k
      /\ \A u \in Tunnels \ {t} : base.outlets[u] = mgr[h].outlets[u]
  BY <1>2 DEF Applied, Managers
<1>5. \A u \in Tunnels \ {t} : base.inlets[u] = mgr[h].inlets[u]
  BY <1>2, <1>3 DEF Managers
<1>6. base.inlets[t] = IF stops THEN None ELSE old
  BY <1>2, <1>3 DEF Managers
<1> HIDE DEF base
<1>7. applied.inlets = base.inlets /\ applied.tunnels = base.tunnels /\ applied \in Managers
  BY <1>3, WithOutletFits
<1>8. (\A u \in Tunnels \ {t} : applied.outlets[u] = mgr[h].outlets[u]) /\ (RunsOutlet(h, k) => applied.outlets[t] # None)
  BY <1>3, <1>4 DEF WithOutlet, Managers, RunsOutlet
<1> HIDE DEF applied
<1>9. /\ [applied EXCEPT !.inlets[t] = k].inlets = [base.inlets EXCEPT ![t] = k]
      /\ [applied EXCEPT !.inlets[t] = k].outlets = applied.outlets
  BY <1>7 DEF Managers
<1>10. base.inlets \in [Tunnels -> Tunnel]
  BY <1>3 DEF Managers
<1>11. CASE starts
  <2>1. m.inlets[t] = k /\ k # None /\ <<Self(h), k.source>> \notin Taken
    BY <1>1, <1>9, <1>10, <1>11 DEF MayInlet, RunsInlet, AddressFree
  <2>2. \A u \in Tunnels \ {t} : m.inlets[u] = mgr[h].inlets[u]
    BY <1>1, <1>5, <1>9, <1>10, <1>11
  <2>3. m.outlets = applied.outlets
    BY <1>1, <1>9, <1>11
  <2> HIDE DEF starts
  <2> QED BY <1>8, <2>1, <2>2, <2>3
<1>12. CASE ~starts
  <2>1. m.inlets = base.inlets /\ m.outlets = applied.outlets
    BY <1>1, <1>7, <1>12
  <2>2. ASSUME RunsInlet(h, k), m.inlets[t] = None, <<Self(h), k.source>> \notin Taken
        PROVE  \E l \in listening : /\ Self(l.host) = Self(h) /\ l.conf.source = k.source
                                    /\ l # Listener(h, t, old)
    <3>1. MayInlet(h, applied, t, k)
      BY <1>4, <1>7, <2>1, <2>2 DEF MayInlet
    <3>2. PICK l \in open : Self(l.host) = Self(h) /\ l.conf.source = k.source
      BY <1>12, <2>2, <3>1 DEF AddressFree
    <3>3. l \in listening
      BY <3>2
    <3>4. l # Listener(h, t, old)
      <4>1. CASE stops
        BY <3>2, <4>1
      <4>2. CASE ~stops
        <5>1. old = None
          BY <1>6, <2>1, <2>2, <4>2
        <5>2. l.conf # None
          BY <3>3, HostFacts DEF Hosted, Listeners
        <5> QED BY <5>1, <5>2 DEF Listener
      <4> QED BY <4>1, <4>2
    <3> QED BY <3>2, <3>3, <3>4
  <2>3. m.inlets[t] # None => m.inlets[t] = old
    BY <1>6, <2>1
  <2> HIDE DEF starts, stops, open
  <2> QED BY <1>5, <1>8, <2>1, <2>2, <2>3
<1> QED BY <1>11, <1>12

\* Nobody else listens where a client does.
LEMMA OnlyOwn ==
    ASSUME IInv, SessionsOk, NEW c \in Conns, client[c] \in {"login", "in"},
           NEW l \in listening, Self(l.host) = Owner[c]
    PROVE  /\ l.host = c /\ client[c] = "in" /\ l.tunnel \in Tunnels /\ l.conf \in Confs
           /\ mgr[c].inlets[l.tunnel] = l.conf
<1>1. l.host \in Hosts /\ l.tunnel \in Tunnels /\ l.conf \in Confs /\ l.conf # None
  BY HostFacts DEF IInv, Typed, Hosted, Listeners
<1>2. l.host # Server
  BY HostFacts DEF Self
<1>3. PICK d \in Conns : l.host = d /\ Owner[d] = Owner[c]
  BY <1>1, <1>2, HostFacts DEF Hosts
<1>4. mgr[d].inlets[l.tunnel] = l.conf
  BY <1>2, <1>3 DEF IInv, NoLostSocket, InHands
<1>5. client[d] = "in"
  <2>1. mgr[d] # NewManager
    BY <1>1, <1>4 DEF NewManager
  <2> QED BY <2>1 DEF IInv, Clients
<1>6. d = c
  BY <1>3, <1>5 DEF SessionsOk
<1> QED BY <1>1, <1>3, <1>4, <1>5, <1>6

LEMMA LoggedInDone ==
    ASSUME IInv, SessionsOk, NEW c \in Conns, LoggedIn(c), NEW t \in Tunnels
    PROVE  /\ InletDone(c, mgr'[c], t) /\ OutletDone(c, mgr'[c], t)
           /\ mgr'[c].inlets[t] # None => <<Self(c), mgr'[c].inlets[t].source>> \notin Taken
<1> DEFINE list == Head(down[c]).ack
<1>0. c \in Hosts /\ Self(c) = Owner[c] /\ mgr \in [Hosts -> Managers]
  BY HostFacts DEF IInv, Typed, Hosted
<1>1. client[c] = "login" /\
      mgr' = [mgr EXCEPT ![c] =
         [tunnels |-> list,
          inlets  |-> [u \in Tunnels |-> IF RunsInlet(c, list[u]) /\ AddressFree(c, list[u], listening) THEN list[u] ELSE None],
          outlets |-> [u \in Tunnels |-> IF RunsOutlet(c, list[u]) THEN list[u] ELSE None]]]
  BY DEF LoggedIn
<1> HIDE DEF list
<1>2. /\ mgr'[c].tunnels = list
      /\ mgr'[c].inlets[t] = IF RunsInlet(c, list[t]) /\ AddressFree(c, list[t], listening) THEN list[t] ELSE None
      /\ mgr'[c].outlets[t] = IF RunsOutlet(c, list[t]) THEN list[t] ELSE None
  BY <1>0, <1>1
<1>3. \A l \in listening : Self(l.host) # Owner[c]
  BY <1>1, OnlyOwn
<1>4. <<Self(c), list[t].source>> \notin Taken => AddressFree(c, list[t], listening)
  BY <1>0, <1>3 DEF AddressFree
<1>5. RunsInlet(c, list[t]) \/ RunsOutlet(c, list[t]) => list[t] # None
  BY DEF RunsInlet, RunsOutlet
<1>6. AddressFree(c, list[t], listening) => <<Self(c), list[t].source>> \notin Taken
  BY DEF AddressFree
<1> QED BY <1>2, <1>4, <1>5, <1>6 DEF InletDone, OutletDone

LEMMA UpdatedDone ==
    ASSUME IInv, SessionsOk, NEW c \in Conns, Live(c), ToldTo(c), UpdateTunnel(c),
           \A t \in Tunnels : InletDone(c, mgr[c], t) /\ OutletDone(c, mgr[c], t),
           NEW t \in Tunnels
    PROVE  InletDone(c, mgr'[c], t) /\ OutletDone(c, mgr'[c], t)
<1>0. /\ Typed /\ Fits /\ c \in Hosts /\ Self(c) = Owner[c] /\ Hosted /\ FitsIn(c, mgr[c])
      /\ Links /\ Sessions /\ Acks /\ Standing /\ mgr[c] \in Managers
  BY HostFacts, FitsByHost DEF IInv, Typed, ServerSide, Hosted
<1>1. client[c] = "in" /\ down[c] # <<>>
  BY DEF UpdateTunnel
<1>2. /\ mgr'[c].tunnels = After(mgr[c].tunnels, Head(down[c])) /\ ~IsAck(Head(down[c]))
      /\ Head(down[c]).tunnel \in Tunnels /\ Head(down[c]).conf \in Tunnel
  BY <1>0, NextTold
<1>u. PICK u \in Tunnels : u = Head(down[c]).tunnel
  BY <1>2
<1>k. PICK k \in Tunnel : k = Head(down[c]).conf
  BY <1>2
<1>m. PICK m : m = Handled(c, u, k).mgr
  OBVIOUS
<1>3. mgr'[c] = m
  <2>1. mgr' = [mgr EXCEPT ![c] = Handled(c, u, k).mgr]
    BY <1>u, <1>k DEF UpdateTunnel
  <2> QED BY <1>0, <1>m, <2>1 DEF Hosted
<1>4. m.tunnels = [mgr[c].tunnels EXCEPT ![u] = k]
  BY <1>2, <1>3, <1>u, <1>k DEF After
<1>5. reader[c] = "read"
  <2>1. reader[c] \notin {"off", "hello"} /\ reader[c] # "over"
    <3>1. bound[Owner[c]] = c /\ closer[c] = "no" /\ Owner[c] \in Players
      BY HostFacts DEF Live
    <3>2. reader[c] \notin {"off", "hello"}
      BY <1>0, <3>1 DEF Standing
    <3>3. reader[c] # "over"
      BY <1>0, <3>1 DEF Standing
    <3> QED BY <3>2, <3>3
  <2>2. reader[c] \notin {"bound", "tell"}
    BY <1>0, <1>1 DEF Acks
  <2> QED BY <1>0, <2>1, <2>2 DEF Sessions
<1>6. Harmless(c, m.tunnels)
  <2>1. PICK v : Course(c, v) /\ \A n \in 0 .. Len(down[c]) : Harmless(c, v[n])
    BY <1>5 DEF ToldTo
  <2>2. Len(down[c]) \in Nat \ {0} /\ Head(down[c]) = down[c][1]
    BY <1>0, <1>1 DEF Links
  <2>3. 1 \in 0 .. Len(down[c]) /\ 1 \in 1 .. Len(down[c]) /\ 1 - 1 = 0
    BY <2>2
  <2>4. v[1] = After(v[1 - 1], down[c][1]) /\ v[0] = mgr[c].tunnels
    BY <2>1, <2>3 DEF Course
  <2>5. v[1] = m.tunnels
    BY <1>2, <1>3, <2>2, <2>3, <2>4
  <2> QED BY <2>1, <2>3, <2>5
<1>7. /\ \A x \in Tunnels \ {u} : m.inlets[x] = mgr[c].inlets[x] /\ m.outlets[x] = mgr[c].outlets[x]
      /\ RunsOutlet(c, k) => m.outlets[u] # None
      /\ RunsInlet(c, k) /\ m.inlets[u] = None /\ <<Self(c), k.source>> \notin Taken =>
            \E l \in listening : /\ Self(l.host) = Self(c) /\ l.conf.source = k.source
                                 /\ l # Listener(c, u, mgr[c].inlets[u])
  BY <1>0, <1>m, HandledDone
<1>8. m.tunnels[u] = k /\ \A x \in Tunnels \ {u} : m.tunnels[x] = mgr[c].tunnels[x]
  BY <1>0, <1>4 DEF Managers
<1>9. CASE t # u
  BY <1>3, <1>7, <1>8, <1>9 DEF InletDone, OutletDone
<1>10. CASE t = u
  <2>1. OutletDone(c, m, u)
    BY <1>7, <1>8 DEF OutletDone
  <2>2. InletDone(c, m, u)
    <3> SUFFICES ASSUME RunsInlet(c, k), <<Self(c), k.source>> \notin Taken, m.inlets[u] = None PROVE FALSE
      BY <1>8 DEF InletDone
    <3>1. PICK l \in listening : /\ Self(l.host) = Self(c) /\ l.conf.source = k.source
                                 /\ l # Listener(c, u, mgr[c].inlets[u])
      BY <1>7
    <3>2. /\ l.host = c /\ l.tunnel \in Tunnels /\ l.conf \in Confs
          /\ mgr[c].inlets[l.tunnel] = l.conf
      BY <1>0, <1>1, <3>1, OnlyOwn
    <3>3. l = Listener(c, l.tunnel, l.conf)
      BY <1>0, <3>2 DEF Hosted, Listeners, Listener
    <3>4. l.tunnel # u
      BY <3>1, <3>2, <3>3
    <3>5. RunsInlet(c, mgr[c].tunnels[l.tunnel]) /\ l.conf = mgr[c].tunnels[l.tunnel]
      BY <1>0, <3>2, HostFacts DEF FitsIn
    <3>6. RunsInlet(c, m.tunnels[l.tunnel]) /\ m.tunnels[l.tunnel].source = m.tunnels[u].source
      BY <1>8, <3>1, <3>2, <3>4, <3>5
    <3> QED BY <1>6, <1>8, <3>2, <3>4, <3>6 DEF Harmless
  <2> QED BY <1>3, <1>10, <2>1, <2>2
<1> QED BY <1>9, <1>10

LEMMA ClientsDoneStep ==
    ASSUME IInv, Plain, ClientsTold, ClientsDone, [Next]_vars
    PROVE  ClientsDone'
<1>0. Typed /\ SessionsOk /\ Typed' /\ Clients' /\ Hosted
  BY StepHolds DEF IInv, Plain, Typed
<1> SUFFICES ASSUME NEW c \in Conns, NEW t \in Tunnels, Live(c)'
             PROVE  InletDone(c, mgr'[c], t) /\ OutletDone(c, mgr'[c], t)
  BY DEF ClientsDone, InletDone, OutletDone, RunsInlet, RunsOutlet, Self
<1>1. CASE reader'[c] = "bound"
  <2>1. client'[c] # "in"
    BY <1>0, <1>1 DEF Typed, Acks
  <2>2. mgr'[c].tunnels[t] = None
    BY <1>0, <2>1 DEF Clients, NewManager
  <2> QED BY <2>2 DEF InletDone, OutletDone, RunsInlet, RunsOutlet
<1>2. ASSUME Live(c), mgr'[c] = mgr[c] PROVE InletDone(c, mgr'[c], t) /\ OutletDone(c, mgr'[c], t)
  BY <1>2 DEF ClientsDone
<1>3. ASSUME Live(c), LoggedIn(c) PROVE InletDone(c, mgr'[c], t) /\ OutletDone(c, mgr'[c], t)
  BY <1>0, <1>3, LoggedInDone
<1>4. ASSUME Live(c), UpdateTunnel(c) PROVE InletDone(c, mgr'[c], t) /\ OutletDone(c, mgr'[c], t)
  <2>1. ToldTo(c) /\ \A x \in Tunnels : InletDone(c, mgr[c], x) /\ OutletDone(c, mgr[c], x)
    BY <1>4 DEF ClientsTold, ClientsDone
  <2> QED BY <1>0, <1>4, <2>1, UpdatedDone
<1>5. Kept(c) \/ Answer(c) \/ Ack(c) \/ (\E w \in Tellers : PushTo(w, c)) => mgr'[c] = mgr[c]
  BY DEF Kept, Answer, Ack, PushTo, Push
<1> QED BY <1>0, <1>1, <1>2, <1>3, <1>4, <1>5, LiveStep

-----------------------------------------------------------------------------
\* Steps that nobody's manager is concerned in, and those of tellers

\* Only tellers, and the start of the server, change what the server's manager
\* holds or what is in a teller's hands.
LEMMA ServerStays ==
    ASSUME Typed, [Next]_vars
    PROVE  \/ /\ mgr'[Server] = mgr[Server]
              /\ \A w \in Tellers : tell[w].at \in {"stop", "start", "install"} => tell'[w] = tell[w]
              /\ \A w \in Tellers : tell'[w].at = "install" => tell'[w] = tell[w]
           \/ \E w \in Tellers : TellStep(w)
           \/ Restart
<1>0. Tables /\ Hosted /\ Telling /\ Works /\ Silent
  BY DEF Typed, ServerSide
<1>idle. Idle.at = "next" /\ Idle \in Told
  BY IdleTypes DEF Idle
<1> DEFINE Stays == /\ mgr'[Server] = mgr[Server]
                    /\ \A w \in Tellers : tell[w].at \in {"stop", "start", "install"} => tell'[w] = tell[w]
                    /\ \A w \in Tellers : tell'[w].at = "install" => tell'[w] = tell[w]
\* Whoever begins or ends something holds no socket.
<1>1. ASSUME NEW w \in Tellers, tell[w].at \in {"next", "erase"}, tell'[w].at \in {"next", "erase"},
             \A v \in Tellers \ {w} : tell'[v] = tell[v], UNCHANGED mgr
      PROVE  Stays
  <2>1. \A v \in Tellers : v # w => tell'[v] = tell[v]
    BY <1>1
  <2> QED BY <1>1, <2>1
<1>2. ASSUME UNCHANGED tell, mgr'[Server] = mgr[Server] PROVE Stays
  BY <1>2
<1>3. ASSUME NEW r \in Requests,
             Remove(r) \/ \E t \in Tunnels : Erase(r, t) \/ \E k \in Confs : Add(r, t, k) \/ Update(r, t, k)
      PROVE  Stays
  <2> DEFINE w == <<"web", r>>
  <2>0. w \in Tellers /\ tell[w] \in Told
    BY <1>0, TellerNames DEF Telling
  <2>1. tell[w].at \in {"next", "erase"}
    BY <1>idle, <1>3 DEF Remove, Erase, Add, Update
  <2>2. \A v \in Tellers \ {w} : tell'[v] = tell[v]
    BY <1>0, <1>3 DEF Remove, Erase, Add, Update, Telling
  <2>3. UNCHANGED mgr
    BY <1>3 DEF Remove, Erase, Add, Update
  <2>4. tell'[w].at \in {"next", "erase"}
    <3>1. CASE Remove(r)
      <4>1. tell'[w] = [Idle EXCEPT !.jobs = Notify(Head(tell[w].jobs).tunnel, conf[Head(tell[w].jobs).tunnel], TRUE)]
        BY <1>0, <2>0, <3>1 DEF Remove, Telling
      <4> QED BY <4>1 DEF Idle
    <3>2. ASSUME NEW t \in Tunnels, Erase(r, t) PROVE tell'[w].at \in {"next", "erase"}
      BY <1>0, <2>0, <3>2 DEF Erase, Telling, Told
    <3>3. ASSUME NEW t \in Tunnels, NEW k \in Confs, Add(r, t, k) \/ Update(r, t, k)
          PROVE  tell'[w].at \in {"next", "erase"}
      <4>1. tell[w] = Idle
        BY <3>3 DEF Add, Update
      <4>2. PICK q : tell' = [tell EXCEPT ![w].jobs = q]
        BY <3>3 DEF Add, Update
      <4> HIDE DEF w
      <4>3. tell'[w].at = tell[w].at
        BY <1>0, <2>0, <4>2 DEF Telling, Told
      <4> QED BY <4>1, <4>3, <1>idle
    <3> QED BY <1>3, <3>1, <3>2, <3>3
  <2> HIDE DEF w
  <2> QED BY <2>0, <2>1, <2>2, <2>3, <2>4, <1>1
<1>4. ASSUME NEW c \in Conns, SessionStep(c) PROVE Stays
  <2>0. UNCHANGED mgr
    BY <1>4 DEF SessionStep, Bind, Answer, Ack, TakeReport, StoreReport, ReadFails, Unbind, Clear, Closed
  <2>1. ASSUME NEW w \in Tellers, tell[w] = Idle, NEW q, tell' = [tell EXCEPT ![w].jobs = q] PROVE Stays
    <3>1. tell'[w].at = tell[w].at /\ \A v \in Tellers \ {w} : tell'[v] = tell[v]
      BY <1>0, <2>1 DEF Telling, Told
    <3> QED BY <1>idle, <2>0, <2>1, <3>1, <1>1
  <2>2. CASE Answer(c)
    <3>1. tell[<<"login", c>>] = Idle
      BY <1>0, <2>2 DEF Answer, Silent
    <3>2. tell' = [tell EXCEPT ![<<"login", c>>].jobs = Broadcast(Owner[c])]
      BY <2>2 DEF Answer
    <3> QED BY <2>1, <3>1, <3>2, TellerNames
  <2>3. CASE Clear(c)
    <3>1. tell[<<"close", c>>] = Idle
      BY <1>0, <2>3 DEF Clear, Silent
    <3>2. tell' = [tell EXCEPT ![<<"close", c>>].jobs = Broadcast(Owner[c])]
      BY <2>3 DEF Clear
    <3> QED BY <2>1, <3>1, <3>2, TellerNames
  <2>4. UNCHANGED tell \/ Answer(c) \/ Clear(c)
    BY <1>4 DEF SessionStep, Bind, Ack, TakeReport, StoreReport, ReadFails, Unbind, Closed
  <2> QED BY <1>2, <2>0, <2>2, <2>3, <2>4
<1>5. ASSUME NEW c \in Conns, ClientStep(c) \/ Dial(c) \/ Cut(c) PROVE Stays
  <2>1. UNCHANGED tell
    BY <1>5 DEF ClientStep, LoggedIn, UpdateTunnel, LoginFails, ConnectionLost, Leave, Dial, Cut
  <2>2. mgr'[Server] = mgr[Server]
    BY <1>0, <1>5, HostFacts DEF ClientStep, LoggedIn, UpdateTunnel, LoginFails, ConnectionLost, Leave, Dial, Cut, Hosted
  <2> QED BY <1>2, <2>1, <2>2
<1>6. UNCHANGED vars => Stays
  BY <1>2 DEF vars
<1> HIDE DEF Stays
<1>7. Stays \/ (\E w \in Tellers : TellStep(w)) \/ Restart
  BY <1>3, <1>4, <1>5, <1>6, StepCases
<1> QED BY <1>7 DEF Stays

LEMMA ClientManagers ==
    ASSUME Typed, [Next]_vars, NEW c \in Conns
    PROVE  \/ mgr'[c] = mgr[c] \/ mgr'[c] = NewManager
           \/ LoggedIn(c) \/ UpdateTunnel(c)
<1>0. Hosted /\ c \in Hosts /\ c # Server
  BY HostFacts DEF Typed
<1> USE DEF serverVars, linkVars
<1>1. ASSUME NEW w \in Tellers, TellStep(w) PROVE mgr'[c] = mgr[c]
  BY <1>0, <1>1 DEF TellStep, MakeUpdate, Push, Apply, Stop, Start, Install, Reaffirm, Hosted
<1>2. ASSUME NEW r \in Requests,
             Remove(r) \/ \E t \in Tunnels : Erase(r, t) \/ \E k \in Confs : Add(r, t, k) \/ Update(r, t, k)
      PROVE  mgr'[c] = mgr[c]
  BY <1>2 DEF Remove, Erase, Add, Update
<1>3. ASSUME NEW d \in Conns, SessionStep(d) PROVE mgr'[c] = mgr[c]
  BY <1>3 DEF SessionStep, Bind, Answer, Ack, TakeReport, StoreReport, ReadFails, Unbind, Clear, Closed
<1>4. ASSUME NEW d \in Conns, ClientStep(d)
      PROVE  mgr'[c] = mgr[c] \/ mgr'[c] = NewManager \/ LoggedIn(c) \/ UpdateTunnel(c)
  <2>1. CASE d = c
    <3>1. Leave(c) => mgr'[c] = NewManager
      BY <1>0 DEF Leave, Hosted
    <3> QED BY <1>4, <2>1, <3>1 DEF ClientStep, LoginFails, ConnectionLost
  <2>2. CASE d # c
    <3>1. LoggedIn(d) \/ UpdateTunnel(d) => mgr'[c] = mgr[c]
      BY <1>0, <2>2 DEF LoggedIn, UpdateTunnel, Hosted
    <3>2. Leave(d) => mgr'[c] = mgr[c]
      BY <1>0, <2>2 DEF Leave, Hosted
    <3> QED BY <1>4, <3>1, <3>2 DEF ClientStep, LoginFails, ConnectionLost
  <2> QED BY <2>1, <2>2
<1>5. ASSUME NEW d \in Conns, Dial(d) \/ Cut(d) PROVE mgr'[c] = mgr[c]
  BY <1>5 DEF Dial, Cut
<1>6. Restart => mgr'[c] = mgr[c]
  BY <1>0 DEF Restart, Hosted
<1> QED BY <1>1, <1>2, <1>3, <1>4, <1>5, <1>6, StepCases DEF vars

-----------------------------------------------------------------------------
\* No inlet is started where another program listens.

LEMMA StartDone ==
    ASSUME NEW tunnels \in [Tunnels -> Tunnel], NEW m, m = StartManager(tunnels), NEW t \in Tunnels
    PROVE  /\ InletDone(Server, m, t) /\ OutletDone(Server, m, t)
           /\ m.inlets[t] # None => <<Server, m.inlets[t].source>> \notin Taken
<1> DEFINE k == AtStart(t, tunnels[t])
<1>1. /\ m.tunnels[t] = k
      /\ m.inlets[t] = IF RunsInlet(Server, k) /\ <<Server, k.source>> \notin Taken THEN k ELSE None
      /\ m.outlets[t] = IF RunsOutlet(Server, k) THEN k ELSE None
  BY DEF StartManager
<1>2. RunsInlet(Server, k) \/ RunsOutlet(Server, k) => k # None
  BY DEF RunsInlet, RunsOutlet
<1>3. Self(Server) = Server
  BY DEF Self
<1> HIDE DEF k
<1> QED BY <1>1, <1>2, <1>3 DEF InletDone, OutletDone

LEMMA RestartManager ==
    ASSUME Typed, Restart
    PROVE  \E tunnels \in [Tunnels -> Tunnel] : mgr'[Server] = StartManager(tunnels)
<1> DEFINE stored == [t \in Tunnels |-> IF Erased(t) THEN None ELSE conf[t]]
<1>1. stored \in [Tunnels -> Tunnel]
  BY DEF Typed, ServerSide, Tables, Tunnel
<1>2. mgr' = [mgr EXCEPT ![Server] = StartManager(stored)]
  BY DEF Restart
<1> HIDE DEF stored
<1>3. mgr'[Server] = StartManager(stored)
  BY <1>2, HostFacts DEF Typed, Hosted
<1> QED BY <1>1, <1>3

LEMMA ServerUntaken ==
    ASSUME Typed, Fits, Untaken, NEW w \in Tellers, TellStep(w)
    PROVE  /\ \A t \in Tunnels : mgr'[Server].inlets[t] # None =>
                 <<Server, mgr'[Server].inlets[t].source>> \notin Taken
           /\ tell'[w].at = "install" => <<Server, tell'[w].sends.source>> \notin Taken
<1> DEFINE j == Head(tell[w].jobs)
           t == j.tunnel
           k == tell[w].sends
           Free(m) == \A u \in Tunnels : m.inlets[u] # None => <<Server, m.inlets[u].source>> \notin Taken
<1>0. /\ Hosted /\ Telling /\ Works /\ mgr[Server] \in Managers /\ FitsIn(Server, mgr[Server]) /\ tell[w] \in Told
      /\ Server \in Hosts /\ Self(Server) = Server
  BY HostFacts, FitsByHost DEF Typed, ServerSide, Hosted, Telling, Self
<1>1. Free(mgr[Server])
  BY <1>0 DEF Untaken
<1>2. Finished(w)[w].at = "next"
  BY <1>0, AtWork, HeadJob DEF Finished, Idle, Telling
<1>3. CASE MakeUpdate(w) \/ Push(w) \/ Stop(w) \/ Reaffirm(w)
  <2>1. mgr'[Server] = mgr[Server]
    BY <1>3 DEF MakeUpdate, Push, Stop, Reaffirm
  <2>2. tell'[w].at # "install"
    <3>1. CASE tell' = Finished(w)
      BY <1>2, <3>1
    <3>2. CASE MakeUpdate(w) /\ tell' # Finished(w)
      <4>1. PICK x : tell' = [tell EXCEPT ![w].at = IF j.to = Server THEN "apply" ELSE "push", ![w].sends = x]
        BY <3>2 DEF MakeUpdate
      <4> HIDE DEF j
      <4> QED BY <1>0, <4>1 DEF Telling, Told
    <3>3. CASE Stop(w) /\ tell' # Finished(w)
      BY <1>0, <3>3 DEF Stop, Telling, Told
    <3> QED BY <1>3, <3>1, <3>2, <3>3 DEF Push, Reaffirm
  <2> QED BY <1>1, <2>1, <2>2
<1>4. CASE Apply(w)
  <2> DEFINE u == IF j.del THEN None ELSE k
  <2>0. t \in Tunnels /\ u \in Tunnel
    BY <1>0, <1>4, WorkHasJob DEF Apply, Tunnel
  <2>1. mgr' = [mgr EXCEPT ![Server] = Applied(Server, t, u)] /\ tell'[w].at = "stop"
    BY <1>0, <1>4 DEF Apply, Telling, Told
  <2> HIDE DEF u, t
  <2>2. Applied(Server, t, u).inlets = [mgr[Server].inlets EXCEPT
            ![t] = IF StopsInlet(Server, mgr[Server].inlets[t], u) THEN None ELSE mgr[Server].inlets[t]]
    BY <1>0, <2>0, AppliedFits
  <2>3. mgr'[Server].inlets = [mgr[Server].inlets EXCEPT
            ![t] = IF StopsInlet(Server, mgr[Server].inlets[t], u) THEN None ELSE mgr[Server].inlets[t]]
    BY <1>0, <2>1, <2>2 DEF Hosted
  <2>4. mgr[Server].inlets \in [Tunnels -> Tunnel]
    BY <1>0 DEF Managers
  <2> QED BY <1>1, <2>0, <2>1, <2>3, <2>4
<1>5. CASE Start(w)
  <2>0. t \in Tunnels /\ k \in Tunnel
    BY <1>0, <1>5, WorkHasJob DEF Start
  <2> DEFINE m == WithOutlet(Server, mgr[Server], t, k)
  <2>1. mgr' = [mgr EXCEPT ![Server] = m]
    BY <1>5 DEF Start
  <2>2. m.inlets = mgr[Server].inlets
    BY <1>0, <2>0, WithOutletFits
  <2>3. tell'[w].at = "install" => AddressFree(Server, k, listening) /\ tell'[w].sends = k
    BY <1>0, <1>5 DEF Start, Telling, Told
  <2> HIDE DEF m
  <2>4. mgr'[Server].inlets = mgr[Server].inlets
    BY <1>0, <2>1, <2>2 DEF Hosted
  <2> QED BY <1>0, <1>1, <2>3, <2>4 DEF AddressFree
<1>6. CASE Install(w)
  <2>0. t \in Tunnels /\ k \in Tunnel /\ tell[w].at = "install"
    BY <1>0, <1>6, WorkHasJob DEF Install
  <2>1. tell'[w].at # "install"
    BY <1>0, <1>6 DEF Install, Telling, Told
  <2>2. <<Server, k.source>> \notin Taken
    BY <2>0 DEF Untaken
  <2>3. mgr' = mgr \/ mgr' = [mgr EXCEPT ![Server].inlets[t] = k]
    BY <1>6 DEF Install
  <2> HIDE DEF t, k
  <2>4. CASE mgr' = [mgr EXCEPT ![Server].inlets[t] = k]
    <3>1. mgr'[Server].inlets = [mgr[Server].inlets EXCEPT ![t] = k]
      BY <1>0, <2>4 DEF Hosted, Managers
    <3>2. mgr[Server].inlets \in [Tunnels -> Tunnel]
      BY <1>0 DEF Managers
    <3> QED BY <1>1, <2>0, <2>1, <2>2, <3>1, <3>2
  <2> QED BY <1>1, <2>1, <2>3, <2>4
<1> QED BY <1>3, <1>4, <1>5, <1>6 DEF TellStep

LEMMA UntakenStep ==
    ASSUME IInv, SessionsOk, Untaken, [Next]_vars
    PROVE  Untaken'
<1>0. /\ Typed /\ Fits /\ Typed' /\ Hosted /\ Server \in Hosts /\ Self(Server) = Server
  BY StepHolds, HostFacts DEF IInv, Typed, Self
<1>1. \/ /\ mgr'[Server] = mgr[Server]
         /\ \A w \in Tellers : tell'[w].at = "install" => tell'[w] = tell[w]
      \/ \E w \in Tellers : TellStep(w)
      \/ Restart
  BY <1>0, ServerStays
\* Clients
<1>2. ASSUME NEW c \in Conns, NEW t \in Tunnels, mgr'[c].inlets[t] # None
      PROVE  <<Self(c), mgr'[c].inlets[t].source>> \notin Taken
  <2>0. c \in Hosts /\ FitsIn(c, mgr[c])
    BY <1>0, HostFacts, FitsByHost
  <2>1. mgr'[c] # NewManager
    BY <1>2 DEF NewManager
  <2>2. CASE mgr'[c] = mgr[c]
    BY <1>2, <2>0, <2>2 DEF Untaken
  <2>3. CASE LoggedIn(c)
    BY <1>2, <2>3, LoggedInDone
  <2>4. CASE UpdateTunnel(c)
    <3>1. /\ mgr' = [mgr EXCEPT ![c] = Handled(c, Head(down[c]).tunnel, Head(down[c]).conf).mgr]
          /\ client[c] = "in" /\ down[c] # <<>>
      BY <2>4 DEF UpdateTunnel
    <3>2. Head(down[c]).tunnel \in Tunnels /\ Head(down[c]).conf \in Tunnel
      <4>1. Acks /\ Links
        BY <1>0 DEF Typed
      <4>2. NoAck(down[c]) /\ down[c] \in Seq(Pushes)
        BY <3>1, <4>1 DEF Acks, Links
      <4>3. Head(down[c]) \in Pushes /\ ~IsAck(Head(down[c]))
        BY <3>1, <4>2, AckQueues
      <4> QED BY <4>3 DEF Pushes, IsAck
    <3>3. PICK u \in Tunnels : u = Head(down[c]).tunnel
      BY <3>2
    <3>4. PICK k \in Tunnel : k = Head(down[c]).conf
      BY <3>2
    <3>5. PICK m : m = Handled(c, u, k).mgr
      OBVIOUS
    <3>6. mgr'[c] = m
      BY <1>0, <2>0, <3>1, <3>3, <3>4, <3>5 DEF Hosted
    <3>7. /\ \A x \in Tunnels \ {u} : m.inlets[x] = mgr[c].inlets[x]
          /\ m.inlets[u] # None => \/ m.inlets[u] = mgr[c].inlets[u]
                                   \/ m.inlets[u] = k /\ <<Self(c), k.source>> \notin Taken
      BY <1>0, <2>0, <3>5, HandledDone
    <3>8. mgr[c].inlets[t] # None => <<Self(c), mgr[c].inlets[t].source>> \notin Taken
      BY <2>0 DEF Untaken
    <3> QED BY <1>2, <3>6, <3>7, <3>8
  <2> QED BY <1>0, <2>1, <2>2, <2>3, <2>4, ClientManagers
\* The server
<1>3. ASSUME NEW t \in Tunnels, mgr'[Server].inlets[t] # None
      PROVE  <<Server, mgr'[Server].inlets[t].source>> \notin Taken
  <2>1. CASE mgr'[Server] = mgr[Server]
    BY <1>0, <1>3, <2>1 DEF Untaken
  <2>2. ASSUME NEW w \in Tellers, TellStep(w) PROVE <<Server, mgr'[Server].inlets[t].source>> \notin Taken
    BY <1>0, <1>3, <2>2, ServerUntaken
  <2>3. CASE Restart
    BY <1>0, <1>3, <2>3, RestartManager, StartDone
  <2> QED BY <1>1, <2>1, <2>2, <2>3
<1>4. ASSUME NEW v \in Tellers, tell'[v].at = "install"
      PROVE  <<Server, tell'[v].sends.source>> \notin Taken
  <2>1. CASE tell'[v] = tell[v]
    BY <1>4, <2>1 DEF Untaken
  <2>2. ASSUME NEW w \in Tellers, TellStep(w) PROVE <<Server, tell'[v].sends.source>> \notin Taken
    <3>1. v # w => tell'[v] = tell[v]
      BY <1>0, <2>2, AtWork
    <3>2. v = w => <<Server, tell'[v].sends.source>> \notin Taken
      BY <1>0, <1>4, <2>2, ServerUntaken
    <3> QED BY <2>1, <3>1, <3>2
  <2>3. ~Restart
    BY <1>4 DEF Restart, Idle
  <2> QED BY <1>1, <1>4, <2>1, <2>2, <2>3
<1>5. \A h \in Hosts : h = Server \/ h \in Conns
  BY DEF Hosts
<1> QED BY <1>0, <1>2, <1>3, <1>4, <1>5 DEF Untaken, Self

-----------------------------------------------------------------------------
\* What the server's manager does about what it was told

\* Somebody is at the tunnel's inlet, at its outlet.
InletInWork(t) == \E w \in Tellers : tell[w].at \in {"stop", "start", "install"} /\ Head(tell[w].jobs).tunnel = t

OutletInWork(t) == \E w \in Tellers : tell[w].at \in {"stop", "start"} /\ Head(tell[w].jobs).tunnel = t

LEMMA ServerDoneParts ==
    /\ ServerDone <=> \A t \in Tunnels : /\ InletDone(Server, mgr[Server], t) \/ InletInWork(t)
                                         /\ OutletDone(Server, mgr[Server], t) \/ OutletInWork(t)
    /\ ServerDone' <=> \A t \in Tunnels : /\ InletDone(Server, mgr'[Server], t) \/ InletInWork(t)'
                                          /\ OutletDone(Server, mgr'[Server], t) \/ OutletInWork(t)'
  BY DEF ServerDone, InletInWork, OutletInWork, InletDone, OutletDone, RunsInlet, RunsOutlet, Self

\* A teller opens the inlet's socket, if it may: nobody else has taken the address.
LEMMA AddressOpen ==
    ASSUME IInv, Plain, Solo, ServerTold, JobsOk, HandsOk, NEW w \in Tellers, Start(w),
           NEW t, t = Head(tell[w].jobs).tunnel, NEW k, k = tell[w].sends,
           RunsInlet(Server, k), mgr[Server].inlets[t] = None, <<Server, k.source>> \notin Taken
    PROVE  AddressFree(Server, k, listening)
<1>0. /\ Typed /\ Fits /\ NoLostSocket /\ Apart /\ Hosted /\ FitsIn(Server, mgr[Server]) /\ Server \in Hosts
      /\ Self(Server) = Server /\ Telling
  BY HostFacts, FitsByHost DEF IInv, Typed, ServerSide, Plain, Self
<1>1. /\ tell[w].at = "start" /\ tell[w].jobs # <<>> /\ HandOk(w) /\ JobOk(w, 1) /\ TellStep(w)
      /\ Head(tell[w].jobs) = tell[w].jobs[1]
  BY <1>0, TellCases DEF Start, TellStep, HandsOk
<1>2. conf[t] # None /\ SameBut(k, conf[t])
  <2>1. ~Head(tell[w].jobs).del /\ Current(Head(tell[w].jobs), k)
    BY <1>1 DEF HandOk, Applying
  <2> QED BY <1>1, <2>1 DEF Current, JobOk
<1>3. Active(w) /\ \A v \in Tellers \ {w} : tell[v] = Idle
  BY <1>0, <1>1, AtActive, AloneAtWork
<1>4. SUFFICES ASSUME NEW l \in listening, Self(l.host) = Server, l.conf.source = k.source PROVE FALSE
  BY <1>0 DEF AddressFree
<1>5. l.host = Server /\ l.tunnel \in Tunnels /\ l.conf \in Confs /\ l.conf # None
  <2>1. l \in Listeners
    BY <1>0 DEF Hosted
  <2>2. l.host \in Conns => Self(l.host) # Server
    BY HostFacts
  <2> QED BY <1>4, <2>1, <2>2, HostFacts DEF Listeners, Hosts
<1>6. mgr[Server].inlets[l.tunnel] = l.conf
  <2>1. ~InHands(l)
    <3>1. \A v \in Tellers : tell[v].at \notin {"stop", "install"}
      BY <1>1, <1>3 DEF Idle
    <3> QED BY <3>1 DEF InHands
  <2> QED BY <1>0, <1>5, <2>1 DEF NoLostSocket
<1>7. l.tunnel # t
  BY <1>5, <1>6
<1>8. RunsInlet(Server, l.conf) /\ l.conf = mgr[Server].tunnels[l.tunnel]
  BY <1>0, <1>5, <1>6 DEF FitsIn
<1>9. conf[l.tunnel] # None /\ SameBut(l.conf, conf[l.tunnel])
  <2>1. Right(Server, l.tunnel, l.conf)
    BY <1>5, <1>8 DEF ServerTold
  <2>2. tell[w].at # "erase"
    BY <1>1
  <2>3. ~Rewritten(l.tunnel, Server)
    BY <1>0, <1>3, <1>7, <2>2, NotRewritten
  <2> QED BY <1>5, <2>1, <2>3, ExpectedSame
<1>10. t \in Tunnels
  BY <1>0, <1>1, HeadJob
<1>11. conf[t].receiver = conf[l.tunnel].receiver /\ conf[t].source = conf[l.tunnel].source
  BY <1>2, <1>4, <1>8, <1>9 DEF SameBut, RunsInlet
<1> QED BY <1>0, <1>2, <1>5, <1>7, <1>9, <1>10, <1>11 DEF Apart

LEMMA TellServerDone ==
    ASSUME IInv, Plain, Solo, ServerTold, JobsOk, HandsOk, ServerDone, NEW w \in Tellers, TellStep(w)
    PROVE  ServerDone'
<1>t. PICK t : t = Head(tell[w].jobs).tunnel
  OBVIOUS
<1>j. PICK j : j = Head(tell[w].jobs)
  OBVIOUS
<1>k. PICK k : k = tell[w].sends
  OBVIOUS
<1>0. /\ Typed /\ Fits /\ Hosted /\ Telling /\ Works /\ mgr[Server] \in Managers /\ FitsIn(Server, mgr[Server])
      /\ Server \in Hosts /\ Self(Server) = Server /\ tell[w] \in Told /\ HandOk(w)
  BY HostFacts, FitsByHost DEF IInv, Typed, ServerSide, Hosted, Telling, Self, HandsOk
<1>1. tell[w].jobs # <<>> /\ t \in Tunnels
  BY <1>0, <1>t, TellCases, HeadJob
<1>2. \A v \in Tellers \ {w} : tell[v] = Idle /\ tell'[v] = tell[v]
  BY <1>0, AtWork, TellerActive, AloneAtWork
<1>3. Finished(w)[w].at = "next"
  BY <1>0, <1>1, FinishedTypes
\* At work at a tunnel is only w.
<1>4. ASSUME NEW u \in Tunnels
      PROVE  /\ InletInWork(u) => tell[w].at \in {"stop", "start", "install"} /\ u = t
             /\ OutletInWork(u) => tell[w].at \in {"stop", "start"} /\ u = t
  BY <1>2, <1>t DEF InletInWork, OutletInWork, Idle
<1>5. ASSUME NEW u \in Tunnels
      PROVE  /\ InletDone(Server, mgr[Server], u) \/ InletInWork(u)
             /\ OutletDone(Server, mgr[Server], u) \/ OutletInWork(u)
  BY ServerDoneParts
\* The other tunnels are left alone.
<1>6. ASSUME NEW m, mgr'[Server] = m,
             \A u \in Tunnels \ {t} : /\ m.tunnels[u] = mgr[Server].tunnels[u]
                                      /\ m.inlets[u] = mgr[Server].inlets[u] /\ m.outlets[u] = mgr[Server].outlets[u],
             InletDone(Server, m, t) \/ InletInWork(t)', OutletDone(Server, m, t) \/ OutletInWork(t)'
      PROVE  ServerDone'
  <2> SUFFICES ASSUME NEW u \in Tunnels
               PROVE  /\ InletDone(Server, mgr'[Server], u) \/ InletInWork(u)'
                      /\ OutletDone(Server, mgr'[Server], u) \/ OutletInWork(u)'
    BY ServerDoneParts
  <2>1. CASE u = t
    BY <1>6, <2>1
  <2>2. CASE u # t
    <3>1. InletDone(Server, mgr[Server], u) /\ OutletDone(Server, mgr[Server], u)
      BY <1>4, <1>5, <2>2
    <3> QED BY <1>6, <2>2, <3>1 DEF InletDone, OutletDone
  <2> QED BY <2>1, <2>2
<1>7. ASSUME mgr'[Server] = mgr[Server], tell[w].at \notin {"stop", "start", "install"} PROVE ServerDone'
  BY <1>1, <1>4, <1>5, <1>6, <1>7
<1>8. CASE MakeUpdate(w) \/ Push(w) \/ Reaffirm(w)
  BY <1>7, <1>8 DEF MakeUpdate, Push, Reaffirm
<1>9. CASE Apply(w)
  <2> DEFINE x == IF j.del THEN None ELSE k
  <2>0. x \in Tunnel
    BY <1>0, <1>9, <1>k, WorkHasJob DEF Apply, Tunnel
  <2>m. PICK m : m = Applied(Server, t, x)
    OBVIOUS
  <2>1. mgr' = [mgr EXCEPT ![Server] = m]
    BY <1>9, <1>j, <1>k, <1>t, <2>m DEF Apply
  <2>2. tell'[w].at = "stop" /\ tell'[w].jobs = tell[w].jobs
    BY <1>0, <1>9 DEF Apply, Telling, Told
  <2> HIDE DEF x
  <2>3. mgr'[Server] = m
    BY <1>0, <2>1 DEF Hosted
  <2>4. /\ m.tunnels = [mgr[Server].tunnels EXCEPT ![t] = x]
        /\ m.inlets = [mgr[Server].inlets EXCEPT
              ![t] = IF StopsInlet(Server, mgr[Server].inlets[t], x) THEN None ELSE mgr[Server].inlets[t]]
        /\ m.outlets = [mgr[Server].outlets EXCEPT
              ![t] = IF StopsOutlet(Server, mgr[Server].outlets[t], x) THEN None ELSE mgr[Server].outlets[t]]
    BY <1>0, <1>1, <2>m DEF Applied, Managers
  <2>5. InletInWork(t)' /\ OutletInWork(t)'
    BY <1>t, <2>2 DEF InletInWork, OutletInWork
  <2>6. \A u \in Tunnels \ {t} : /\ m.tunnels[u] = mgr[Server].tunnels[u]
                                 /\ m.inlets[u] = mgr[Server].inlets[u] /\ m.outlets[u] = mgr[Server].outlets[u]
    BY <1>0, <2>4 DEF Managers
  <2> QED BY <1>6, <2>3, <2>5, <2>6
<1>10. CASE Stop(w)
  <2>0. mgr'[Server] = mgr[Server] /\ tell[w].at = "stop"
    BY <1>10 DEF Stop
  <2>1. CASE j.del
    <3>1. mgr[Server].tunnels[t] = None
      BY <1>0, <1>j, <1>t, <2>0, <2>1 DEF HandOk, Applying
    <3>2. InletDone(Server, mgr[Server], t) /\ OutletDone(Server, mgr[Server], t)
      BY <3>1 DEF InletDone, OutletDone, RunsInlet, RunsOutlet
    <3> QED BY <1>6, <2>0, <3>2
  <2>2. CASE ~j.del
    <3>1. tell'[w].at = "start" /\ tell'[w].jobs = tell[w].jobs
      BY <1>0, <1>10, <1>j, <2>2 DEF Stop, Telling, Told
    <3>2. InletInWork(t)' /\ OutletInWork(t)'
      BY <1>t, <3>1 DEF InletInWork, OutletInWork
    <3> QED BY <1>6, <2>0, <3>2
  <2> QED BY <2>1, <2>2
<1>11. CASE Start(w)
  <2>0. k \in Tunnel /\ tell[w].at = "start"
    BY <1>0, <1>11, <1>k, WorkHasJob DEF Start
  <2>m. PICK m : m = WithOutlet(Server, mgr[Server], t, k)
    OBVIOUS
  <2>1. mgr' = [mgr EXCEPT ![Server] = m]
    BY <1>11, <1>k, <1>t, <2>m DEF Start
  <2>2. mgr'[Server] = m
    BY <1>0, <2>1 DEF Hosted
  <2>3. m \in Managers /\ m.inlets = mgr[Server].inlets /\ m.tunnels = mgr[Server].tunnels
    BY <1>0, <1>1, <2>0, <2>m, WithOutletFits
  <2>4. mgr[Server].tunnels[t] = k
    BY <1>0, <1>j, <1>k, <1>t, <2>0 DEF HandOk, Applying
  <2>5. (\A u \in Tunnels \ {t} : m.outlets[u] = mgr[Server].outlets[u]) /\ (RunsOutlet(Server, k) => m.outlets[t] # None)
    BY <1>0, <1>1, <2>4, <2>m DEF WithOutlet, Managers, RunsOutlet
  <2>6. OutletDone(Server, m, t)
    BY <2>3, <2>4, <2>5 DEF OutletDone
  <2>7. InletDone(Server, m, t) \/ InletInWork(t)'
    <3>1. \/ MayInlet(Server, m, t, k) /\ AddressFree(Server, k, listening) /\ tell'[w].at = "install"
          \/ MayInlet(Server, m, t, k) /\ ~AddressFree(Server, k, listening)
          \/ ~MayInlet(Server, m, t, k)
      BY <1>0, <1>11, <1>k, <1>t, <2>m DEF Start, Telling, Told
    <3>2. tell'[w].jobs = tell[w].jobs
      BY <1>0, <1>11 DEF Start, Telling, Told
    <3>3. CASE tell'[w].at = "install"
      BY <1>t, <3>2, <3>3 DEF InletInWork
    <3>4. CASE MayInlet(Server, m, t, k) /\ ~AddressFree(Server, k, listening)
      <4>1. RunsInlet(Server, k) /\ mgr[Server].inlets[t] = None
        BY <2>3, <3>4 DEF MayInlet
      <4>2. <<Server, k.source>> \in Taken
        BY <1>11, <1>k, <1>t, <3>4, <4>1, AddressOpen
      <4> QED BY <1>0, <2>3, <2>4, <4>2 DEF InletDone
    <3>5. CASE ~MayInlet(Server, m, t, k)
      BY <2>3, <2>4, <3>5 DEF MayInlet, InletDone
    <3> QED BY <3>1, <3>3, <3>4, <3>5
  <2> QED BY <1>6, <2>2, <2>3, <2>5, <2>6, <2>7
<1>12. CASE Install(w)
  <2>0. k \in Tunnel /\ tell[w].at = "install"
    BY <1>0, <1>12, <1>k, WorkHasJob DEF Install
  <2>1. mgr[Server].tunnels[t] = k
    BY <1>0, <1>j, <1>k, <1>t, <2>0 DEF HandOk, Applying
  <2>2. OutletDone(Server, mgr[Server], t)
    BY <1>1, <1>4, <1>5, <2>0
  <2>3. CASE MayInlet(Server, mgr[Server], t, k)
    <3>m. PICK m : m = [mgr[Server] EXCEPT !.inlets[t] = k]
      OBVIOUS
    <3>1. mgr' = [mgr EXCEPT ![Server].inlets[t] = k]
      BY <1>12, <1>k, <1>t, <2>3 DEF Install
    <3>2. mgr'[Server] = m
      BY <1>0, <3>1, <3>m DEF Hosted
    <3>3. m.tunnels = mgr[Server].tunnels /\ m.outlets = mgr[Server].outlets /\ m.inlets = [mgr[Server].inlets EXCEPT ![t] = k]
      BY <1>0, <3>m DEF Managers
    <3>4. m.inlets[t] = k /\ \A u \in Tunnels \ {t} : m.inlets[u] = mgr[Server].inlets[u]
      BY <1>0, <1>1, <3>3 DEF Managers
    <3>5. InletDone(Server, m, t)
      BY <2>3, <3>4 DEF InletDone, MayInlet, RunsInlet
    <3>6. OutletDone(Server, m, t)
      BY <2>2, <3>3 DEF OutletDone
    <3> QED BY <1>6, <3>2, <3>3, <3>4, <3>5, <3>6
  <2>4. CASE ~MayInlet(Server, mgr[Server], t, k)
    <3>1. mgr' = mgr
      BY <1>12, <1>k, <1>t, <2>4 DEF Install
    <3>2. InletDone(Server, mgr[Server], t)
      BY <2>1, <2>4 DEF MayInlet, InletDone
    <3> QED BY <1>6, <2>2, <3>1, <3>2
  <2> QED BY <2>3, <2>4
<1> QED BY <1>8, <1>9, <1>10, <1>11, <1>12 DEF TellStep

LEMMA RestartServerDone ==
    ASSUME Typed, Restart
    PROVE  ServerDone'
<1>1. PICK tunnels \in [Tunnels -> Tunnel] : mgr'[Server] = StartManager(tunnels)
  BY RestartManager
<1> QED BY <1>1, StartDone, ServerDoneParts

LEMMA ServerDoneStep ==
    ASSUME IInv, Plain, Solo, ServerTold, JobsOk, HandsOk, ServerDone, [Next]_vars
    PROVE  ServerDone'
<1>1. Typed
  BY DEF IInv
<1>2. ASSUME mgr'[Server] = mgr[Server], \A w \in Tellers : tell[w].at \in {"stop", "start", "install"} => tell'[w] = tell[w]
      PROVE  ServerDone'
  <2>1. ASSUME NEW t PROVE (InletInWork(t) => InletInWork(t)') /\ (OutletInWork(t) => OutletInWork(t)')
    <3>1. InletInWork(t) => InletInWork(t)'
      BY <1>2 DEF InletInWork
    <3>2. OutletInWork(t) => OutletInWork(t)'
      BY <1>2 DEF OutletInWork
    <3> QED BY <3>1, <3>2
  <2> QED BY <1>2, <2>1, ServerDoneParts
<1> QED BY <1>1, <1>2, ServerStays, TellServerDone, RestartServerDone

-----------------------------------------------------------------------------
\* The invariant of the notifications

LEMMA MixedStays == Typed /\ [Next]_vars /\ mixed => mixed' \/ Restart
<1> SUFFICES ASSUME Typed, [Next]_vars, mixed, ~Restart PROVE mixed'
  OBVIOUS
<1>0. mixed = TRUE
  BY DEF Typed, ServerSide, Tables
<1>1. ASSUME NEW w \in Tellers, TellStep(w) PROVE mixed'
  BY <1>0, <1>1 DEF TellStep, MakeUpdate, Push, Apply, Stop, Start, Install, Reaffirm
<1>2. ASSUME NEW r \in Requests,
             Remove(r) \/ \E t \in Tunnels : Erase(r, t) \/ \E k \in Confs : Add(r, t, k) \/ Update(r, t, k)
      PROVE  mixed'
  BY <1>0, <1>2 DEF Remove, Erase, Add, Update, Mixes
<1>3. ASSUME NEW c \in Conns, SessionStep(c) PROVE mixed'
  BY <1>0, <1>3 DEF SessionStep, Bind, Answer, Ack, TakeReport, StoreReport, ReadFails, Unbind, Clear, Closed, Mixes
<1>4. ASSUME NEW c \in Conns, ClientStep(c) PROVE mixed'
  BY <1>0, <1>4 DEF ClientStep, LoggedIn, UpdateTunnel, LoginFails, ConnectionLost, Leave
<1>5. ASSUME NEW c \in Conns, Dial(c) \/ Cut(c) PROVE mixed'
  BY <1>0, <1>5 DEF Dial, Cut
<1> QED BY <1>0, <1>1, <1>2, <1>3, <1>4, <1>5, StepCases DEF vars

LEMMA PlainStep == IInv /\ Plain /\ [Next]_vars => Plain'
  BY SessionsOkStep, ApartStep, UntakenStep DEF IInv, Plain

LEMMA RestartTold ==
    ASSUME IInv, Restart
    PROVE  ClientsTold' /\ ServerTold' /\ JobsOk' /\ EraseOk' /\ HandsOk' /\ ClientsDone' /\ ServerDone'
<1>0. Typed
  BY DEF IInv
<1>1. \A w \in Tellers : tell'[w] = Idle
  BY DEF Restart
<1>2. \A c \in Conns : ~Live(c)'
  <2>1. \A p \in Players : bound'[p] = None
    BY DEF Restart, NoneFor
  <2> QED BY <2>1, HostFacts DEF Live
<1>3. ClientsTold' /\ ClientsDone'
  BY <1>2 DEF ClientsTold, ClientsDone
<1> QED BY <1>0, <1>1, <1>3, IdleJobs, RestartServerTold, RestartServerDone

LEMMA NotificationsStep == IInv /\ NotifyInv /\ [Next]_vars /\ [KeepsServer]_vars => NotifyInv'
<1> SUFFICES ASSUME IInv, NotifyInv, [Next]_vars, [KeepsServer]_vars PROVE NotifyInv'
  OBVIOUS
<1>1. Typed /\ Fits /\ Plain /\ FreshFree /\ Plain'
  BY PlainStep DEF IInv, NotifyInv, Plain
<1>2. ~mixed' => Solo'
  BY <1>1, SoloStep DEF NotifyInv, AllTold
<1>3. ASSUME ~mixed', Restart PROVE AllTold' /\ AllDone'
  BY <1>2, <1>3, RestartTold DEF AllTold, AllDone
<1>4. ASSUME ~mixed', ~Restart PROVE AllTold' /\ AllDone'
  <2>1. AllTold /\ AllDone
    BY <1>1, <1>4, MixedStays DEF NotifyInv
  <2>2. JobsOk' /\ EraseOk' /\ HandsOk'
    BY <1>1, <1>4, <2>1, JobsStep DEF AllTold
  <2>3. ServerTold' /\ ClientsTold'
    BY <1>1, <2>1, ServerToldStep, ClientsToldStep DEF AllTold
  <2>4. ClientsDone' /\ ServerDone'
    BY <1>1, <2>1, ClientsDoneStep, ServerDoneStep DEF AllTold, AllDone
  <2> QED BY <1>2, <1>4, <2>2, <2>3, <2>4 DEF AllTold, AllDone
<1> QED BY <1>1, <1>3, <1>4 DEF NotifyInv

LEMMA NotificationsInit == Init => NotifyInv
<1> SUFFICES ASSUME Init PROVE NotifyInv
  OBVIOUS
<1>1. /\ \A w \in Tellers : tell[w] = Idle
      /\ \A t \in Tunnels : conf[t] = None
      /\ \A p \in Players : bound[p] = None
      /\ \A h \in Hosts : mgr[h] = NewManager
      /\ \A c \in Conns : reader[c] = "off" /\ closer[c] = "no" /\ link[c] = "off" /\ client[c] = "off"
      /\ fresh = Tunnels
  BY DEF Init, NoneFor
<1>2. \A h \in Hosts, t \in Tunnels :
          mgr[h].tunnels[t] = None /\ mgr[h].inlets[t] = None /\ mgr[h].outlets[t] = None
  BY <1>1 DEF NewManager
<1>3. Idle.at = "next" /\ Idle.jobs = <<>>
  BY DEF Idle
<1>4. Solo
  BY <1>1 DEF Solo, Active, Tellers
<1>5. \A c \in Conns : ~Live(c)
  BY <1>1, HostFacts DEF Live
<1>6. ClientsTold /\ ClientsDone
  BY <1>5 DEF ClientsTold, ClientsDone
<1>7. ServerTold /\ ServerDone
  <2>1. ServerTold
    BY <1>1, <1>2, HostFacts DEF ServerTold, Right, Expected
  <2>2. ServerDone
    BY <1>2, HostFacts DEF ServerDone, InletDone, OutletDone, RunsInlet, RunsOutlet
  <2> QED BY <2>1, <2>2
<1>8. JobsOk /\ EraseOk /\ HandsOk
  <2>1. JobsOk
    BY <1>1, <1>3 DEF JobsOk
  <2>2. EraseOk
    BY <1>1, <1>3 DEF EraseOk
  <2>3. HandsOk
    BY <1>1, <1>3 DEF HandsOk, HandOk, Applying
  <2> QED BY <2>1, <2>2, <2>3
<1>9. Apart /\ FreshFree
  BY <1>1 DEF Apart, FreshFree
<1>10. Untaken
  BY <1>1, <1>2, <1>3 DEF Untaken
<1>11. SessionsOk
  BY <1>1 DEF SessionsOk
<1> QED BY <1>4, <1>6, <1>7, <1>8, <1>9, <1>10, <1>11 DEF NotifyInv, Plain, AllTold, AllDone

-----------------------------------------------------------------------------
\* When nothing is under way

LEMMA QuietConnections ==
    ASSUME Typed, Clients, SessionsOk, Quiet
    PROVE  /\ \A c \in Conns : client[c] = "in" => Live(c) /\ reader[c] = "read" /\ down[c] = <<>>
           /\ \A c \in Conns : client[c] # "in" => mgr[c] = NewManager
           /\ \A p \in Players \cup {Server} : Available(p) <=> \E h \in Present : Self(h) = p
<1>0. Standing /\ Links /\ Sessions /\ Tables
  BY DEF Typed, ServerSide
<1>1. ASSUME NEW c \in Conns, client[c] = "in" PROVE Live(c) /\ reader[c] = "read" /\ down[c] = <<>>
  <2>1. link[c] # "off" /\ reader[c] # "off"
    BY <1>1 DEF SessionsOk
  <2>2. link[c] # "cut"
    BY <1>1 DEF Quiet
  <2>3. link[c] = "up" /\ down[c] = <<>>
    BY <1>0, <1>1, <2>1, <2>2 DEF Links, Quiet
  <2>4. closer[c] = "no"
    BY <2>3 DEF SessionsOk, Quiet
  <2>5. reader[c] = "read"
    BY <2>1, <2>4, <1>0 DEF Quiet, Standing
  <2>6. bound[Owner[c]] = c
    BY <2>4, <2>5 DEF SessionsOk
  <2> QED BY <1>1, <2>3, <2>4, <2>5, <2>6 DEF Live, Doomed
<1>2. ASSUME NEW p \in Players, bound[p] # None PROVE \E h \in Present : Self(h) = p
  <2>1. PICK d \in Conns : d = bound[p]
    BY <1>0, <1>2 DEF Tables
  <2>2. Owner[d] = p /\ reader[d] \notin {"off", "hello"} /\ closer[d] \in {"no", "unbind"}
    BY <1>0, <2>1 DEF Standing
  <2>3. closer[d] = "no" /\ reader[d] # "over" /\ link[d] # "off"
    <3>1. closer[d] = "no"
      BY <2>2 DEF Quiet
    <3>2. reader[d] # "over"
      BY <1>0, <3>1 DEF Standing
    <3> QED BY <2>2, <3>1, <3>2 DEF SessionsOk
  <2>4. link[d] = "up"
    BY <1>0, <2>3 DEF Quiet, Links
  <2>5. client[d] = "in"
    BY <2>4 DEF Quiet
  <2>6. d \in Present /\ Self(d) = p
    BY <2>2, <2>5, HostFacts DEF Present
  <2> QED BY <2>6
<1>3. ASSUME NEW h \in Present, NEW p \in Players \cup {Server}, Self(h) = p PROVE Available(p)
  <2>1. CASE h = Server
    BY <1>3, <2>1 DEF Self, Available
  <2>2. CASE h \in Conns /\ client[h] = "in"
    <3>1. bound[p] = h /\ h # None
      BY <1>1, <1>3, <2>2, HostFacts DEF Live
    <3> QED BY <3>1 DEF Available
  <2> QED BY <2>1, <2>2 DEF Present
<1>4. \E h \in Present : Self(h) = Server
  BY DEF Present, Self
<1>5. ASSUME NEW p \in Players \cup {Server} PROVE Available(p) <=> \E h \in Present : Self(h) = p
  BY <1>2, <1>3, <1>4 DEF Available
<1> QED BY <1>1, <1>5 DEF Clients

\* Every manager that is there has been told what there is.
LEMMA QuietTold ==
    ASSUME Typed, Clients, SessionsOk, Quiet, ClientsTold, ServerTold, NEW h \in Present, NEW t \in Tunnels
    PROVE  mgr[h].tunnels[t] = IF conf[t] # None /\ Self(h) \in Ends(conf[t]) THEN Effective(conf[t]) ELSE None
<1>1. ASSUME NEW p PROVE ~Pending(t, p) /\ ~Rewritten(t, p)
  <2>1. \A w \in Tellers : Len(tell[w].jobs) = 0
    BY DEF Quiet, Idle
  <2>2. \A w \in Tellers : ~Owes(w, t, p)
    BY <2>1 DEF Owes
  <2> QED BY <2>2, TellerNames DEF Pending, Rewritten
<1>2. ~Shaky(Self(h), t)
  BY DEF Shaky, Quiet
<1>3. Right(Self(h), t, mgr[h].tunnels[t])
  <2>1. CASE h = Server
    BY <2>1 DEF ServerTold, Self
  <2>2. CASE h \in Conns /\ client[h] = "in"
    <3>1. Live(h) /\ reader[h] = "read" /\ down[h] = <<>> /\ Self(h) = Owner[h]
      BY <2>2, QuietConnections, HostFacts
    <3>2. PICK v : Course(h, v) /\ \A x \in Tunnels : Right(Owner[h], x, v[Len(down[h])][x])
      BY <2>2, <3>1 DEF ClientsTold, ToldTo
    <3>3. Len(down[h]) = 0
      BY <3>1
    <3>4. v[Len(down[h])] = mgr[h].tunnels
      BY <3>2, <3>3 DEF Course
    <3> QED BY <3>1, <3>2, <3>4
  <2> QED BY <2>1, <2>2 DEF Present
<1> QED BY <1>1, <1>2, <1>3 DEF Right, Expected

LEMMA QuietConverged == IInv /\ NotifyInv => Converged
<1> SUFFICES ASSUME IInv, NotifyInv, Quiet, ~mixed, NEW h \in Hosts, NEW t \in Tunnels
             PROVE  LET here == h \in Present /\ ShouldRun(t)
                    IN  /\ mgr[h].inlets[t] =
                              IF here /\ conf[t].receiver = Self(h) /\ CanListen(conf[t]) THEN conf[t] ELSE None
                        /\ mgr[h].outlets[t] # None <=> here /\ conf[t].sender = Self(h)
  BY DEF Converged
<1>0. /\ Typed /\ Clients /\ Fits /\ SessionsOk /\ Untaken /\ ClientsTold /\ ServerTold /\ ClientsDone /\ ServerDone
      /\ FitsIn(h, mgr[h]) /\ Tables
  BY FitsByHost DEF IInv, NotifyInv, Plain, AllTold, AllDone, Typed, ServerSide
<1>1. CASE h \notin Present
  <2>1. h \in Conns /\ client[h] # "in"
    BY <1>1 DEF Present, Hosts
  <2>2. mgr[h] = NewManager
    BY <1>0, <2>1, QuietConnections
  <2> QED BY <1>1, <2>2 DEF NewManager
<1>2. CASE h \in Present
  <2>k. PICK k : k = mgr[h].tunnels[t]
    OBVIOUS
  <2>l. PICK l : l = conf[t]
    OBVIOUS
  <2>1. k = IF l # None /\ Self(h) \in Ends(l) THEN Effective(l) ELSE None
    BY <1>0, <1>2, <2>k, <2>l, QuietTold
  <2>2. InletDone(h, mgr[h], t) /\ OutletDone(h, mgr[h], t)
    <3>1. CASE h = Server
      <4>1. \A w \in Tellers : tell[w].at = "next"
        BY DEF Quiet, Idle
      <4> QED BY <1>0, <3>1, <4>1 DEF ServerDone
    <3>2. CASE h \in Conns /\ client[h] = "in"
      <4>1. Live(h)
        BY <1>0, <3>2, QuietConnections
      <4> QED BY <1>0, <3>2, <4>1 DEF ClientsDone
    <3> QED BY <1>2, <3>1, <3>2 DEF Present
  <2>3. /\ mgr[h].inlets[t] # None => RunsInlet(h, k) /\ mgr[h].inlets[t] = k
        /\ mgr[h].outlets[t] # None => RunsOutlet(h, k)
        /\ mgr[h].inlets[t] # None => <<Self(h), mgr[h].inlets[t].source>> \notin Taken
    BY <1>0, <2>k DEF FitsIn, Untaken
  <2>4. CASE l # None /\ Self(h) \in Ends(l)
    <3>1. l \in Confs
      BY <1>0, <2>4, <2>l DEF Tables, Tunnel
    <3>2. /\ l = [enabled |-> l.enabled, sender |-> l.sender, receiver |-> l.receiver, source |-> l.source]
          /\ l.enabled \in BOOLEAN /\ Ends(l) \subseteq Players \cup {Server}
      BY <3>1, ControlAssumption DEF Ends
    <3>3. Available(l.sender) /\ Available(l.receiver) <=> Ends(l) \subseteq {Self(x) : x \in Present}
      BY <1>0, <3>2, QuietConnections DEF Ends
    <3>r. PICK run \in BOOLEAN : run = (l.enabled /\ Available(l.sender) /\ Available(l.receiver))
      BY <3>2
    <3>4. k = [l EXCEPT !.enabled = run]
      BY <2>1, <2>4, <3>r DEF Effective
    <3>5. /\ k # None /\ k.enabled = run /\ k.sender = l.sender /\ k.receiver = l.receiver /\ k.source = l.source
          /\ run => k = l
      <4>1. Effective(l) \in Confs
        BY <3>1, EffectiveTypes
      <4>2. k.enabled = run /\ k.sender = l.sender /\ k.receiver = l.receiver /\ k.source = l.source
        BY <3>2, <3>4
      <4>3. run => l.enabled = TRUE
        BY <3>2, <3>r
      <4>4. run = TRUE /\ l.enabled = TRUE => k = l
        BY <3>2, <3>4
      <4>5. k # None
        BY <2>1, <2>4, <4>1, HostFacts
      <4> QED BY <4>2, <4>3, <4>4, <4>5
    <3>6. ShouldRun(t) <=> run
      BY <2>4, <2>l, <3>3, <3>r DEF ShouldRun
    <3>7. /\ RunsInlet(h, k) <=> ShouldRun(t) /\ l.receiver = Self(h)
          /\ RunsOutlet(h, k) <=> ShouldRun(t) /\ l.sender = Self(h)
      BY <3>5, <3>6 DEF RunsInlet, RunsOutlet
    <3>8. CanListen(l) <=> <<l.receiver, l.source>> \notin Taken
      BY DEF CanListen
    <3>9. mgr[h].outlets[t] # None <=> ShouldRun(t) /\ l.sender = Self(h)
      BY <2>2, <2>3, <2>k, <3>7 DEF OutletDone
    <3>10. mgr[h].inlets[t] = IF ShouldRun(t) /\ l.receiver = Self(h) /\ CanListen(l) THEN l ELSE None
      <4>1. CASE ShouldRun(t) /\ l.receiver = Self(h) /\ CanListen(l)
        <5>1. RunsInlet(h, k) /\ <<Self(h), k.source>> \notin Taken /\ k = l
          BY <3>5, <3>6, <3>7, <3>8, <4>1
        <5>2. mgr[h].inlets[t] # None
          BY <2>2, <2>k, <5>1 DEF InletDone
        <5> QED BY <2>3, <4>1, <5>1, <5>2
      <4>2. CASE ~(ShouldRun(t) /\ l.receiver = Self(h) /\ CanListen(l))
        <5>1. mgr[h].inlets[t] = None
          BY <2>3, <3>5, <3>7, <3>8, <4>2
        <5> QED BY <4>2, <5>1
      <4> QED BY <4>1, <4>2
    <3> QED BY <1>2, <2>l, <3>9, <3>10
  <2>5. CASE ~(l # None /\ Self(h) \in Ends(l))
    <3>1. k = None
      BY <2>1, <2>5
    <3>2. mgr[h].inlets[t] = None /\ mgr[h].outlets[t] = None
      BY <2>3, <3>1 DEF RunsInlet, RunsOutlet
    <3>3. ~(ShouldRun(t) /\ (conf[t].receiver = Self(h) \/ conf[t].sender = Self(h)))
      BY <2>5, <2>l DEF ShouldRun, Ends
    <3> QED BY <3>2, <3>3
  <2> QED BY <2>4, <2>5
<1> QED BY <1>1, <1>2

(***************************************************************************)
(* In the end every manager runs what is configured: while web requests    *)
(* move no end to the server or away from it, whatever happens to          *)
(* connections, sessions and notifications between two moments at which    *)
(* nothing is under way, and unless two notifications overlapped since the *)
(* server started, each manager then runs exactly the inlets and outlets   *)
(* that the configuration and the presence of the clients ask for          *)
(* (session.go:199-252, 482-540, manager.go:51-316, server/app.go).        *)
(***************************************************************************)
THEOREM ConfigurationsConverge == Spec /\ [][KeepsServer]_vars => []Converged
<1>1. Init => IInv /\ NotifyInv
  BY InitHolds, NotificationsInit
<1>2. IInv /\ NotifyInv /\ [Next]_vars /\ [KeepsServer]_vars => (IInv /\ NotifyInv)'
  BY StepHolds, NotificationsStep
<1>3. IInv /\ NotifyInv => Converged
  BY QuietConverged
<1> QED BY <1>1, <1>2, <1>3, PTL DEF Spec

-----------------------------------------------------------------------------
\* The sockets of a host's inlets listen.
Opened(h) == \A t \in Tunnels : mgr[h].inlets[t] # None => Listener(h, t, mgr[h].inlets[t]) \in listening

\* A report is held by a session that reads, and is about a tunnel that was given an id.
HeldRight == \A c \in Conns : held[c] # None => reader[c] = "read" /\ held[c].tunnel \notin fresh

\* It is still the player's to make, or the tunnel is gone; and it is gone when the
\* session has been cleared.
HeldOk ==
    \A c \in Conns : held[c] # None =>
        LET k == conf[held[c].tunnel]
        IN  /\ k # None => k.receiver = Owner[c]
            /\ closer[c] \in {"tell", "done"} => k = None

\* What a teller is about to stop runs no more, and what it is about to install
\* can be installed.
SocketsInHand ==
    \A w \in Tellers :
        LET t == Head(tell[w].jobs).tunnel
            s == tell[w].sends
        IN  /\ tell[w].at = "stop" /\ tell[w].inHand # None => mgr[Server].inlets[t] = None
            /\ tell[w].at = "install" => /\ mgr[Server].inlets[t] = None /\ RunsInlet(Server, s)
                                         /\ Listener(Server, t, s) \in listening

\* An inlet that has moved from the server is stopped before the new receiver is told,
\* because whoever changes a tunnel tells its receiver last.
MovesAway ==
    \A w \in Tellers :
        LET t == Head(tell[w].jobs).tunnel
        IN  tell[w].at = "stop" /\ tell[w].inHand # None /\ conf[t] # None /\ conf[t].receiver # Server =>
                Pending(t, conf[t].receiver)

ReceiverLast ==
    \A w \in Tellers :
        LET jobs == tell[w].jobs
            k == conf[Head(jobs).tunnel]
        IN  w[1] = "web" /\ tell[w].at # "erase" /\ jobs # <<>> /\ k # None => jobs[Len(jobs)].to = k.receiver

\* What the record should say
Outcome(h, t) == IF mgr[h].inlets[t] # None THEN "up" ELSE "failed"

\* An inlet that could not be started was recorded, when it is left at that.
FailureKept ==
    \A w \in Tellers :
        LET t == Head(tell[w].jobs).tunnel
        IN  tell[w].at = "reaffirm" /\ RunsInlet(Server, mgr[Server].tunnels[t]) /\ mgr[Server].inlets[t] = None =>
                record[t] = "failed"

ServerRecorded ==
    \A t \in Tunnels :
        /\ conf[t] # None /\ conf[t].receiver = Server /\ ~Pending(t, Server)
        /\ RunsInlet(Server, mgr[Server].tunnels[t])
        => record[t] = Outcome(Server, t)

\* What the record will say of t when the reports of c have been stored is s: so
\* says the last report about t.
Says(c, t, s) ==
    /\ \A j \in 1 .. Len(up[c]) :
          up[c][j].tunnel = t /\ (\A l \in (j + 1) .. Len(up[c]) : up[c][l].tunnel # t) => up[c][j].state = s
    /\ (\A j \in 1 .. Len(up[c]) : up[c][j].tunnel # t) =>
          s = IF held[c] # None /\ held[c].tunnel = t THEN held[c].state ELSE record[t]

\* Another session of the player has not been cleared yet: its reports may still be stored.
Trailing(c) == \E d \in Conns : d # c /\ Owner[d] = Owner[c] /\ closer[d] \in {"unbind", "clear"}

\* The client has been told of t, and has an inlet to run.
Informed(c, t) ==
    /\ Live(c) /\ client[c] = "in"
    /\ conf[t] # None /\ conf[t].receiver = Owner[c] /\ ~Pending(t, Owner[c])
    /\ \A n \in 1 .. Len(down[c]) : down[c][n].tunnel # t
    /\ RunsInlet(c, mgr[c].tunnels[t])

ClientsRecorded ==
    \A c \in Conns, t \in Tunnels : Informed(c, t) /\ ~Trailing(c) => Says(c, t, Outcome(c, t))

\* What holds of reports and sockets even when notifications overlap
ReportsPlain == HeldRight /\ \A c \in Conns : Opened(c)

\* What holds until they do
ReportsTrue ==
    /\ HeldOk /\ Opened(Server) /\ SocketsInHand /\ MovesAway /\ ReceiverLast /\ FailureKept
    /\ ServerRecorded /\ ClientsRecorded

RecordInv == ReportsPlain /\ (~mixed => ReportsTrue)

-----------------------------------------------------------------------------
\* Reports in the hands of sessions

LEMMA HeldRightStep == Typed /\ FreshFree /\ HeldRight /\ [Next]_vars => HeldRight'
<1> SUFFICES ASSUME Typed, FreshFree, HeldRight, [Next]_vars PROVE HeldRight'
  OBVIOUS
<1>0. Tables /\ Sessions /\ Links
  BY DEF Typed, ServerSide
<1> USE DEF serverVars, linkVars
<1>a. ASSUME UNCHANGED held, fresh' \subseteq fresh,
             \A c \in Conns : reader[c] = "read" => reader'[c] = "read" \/ held[c] = None
      PROVE  HeldRight'
  BY <1>a DEF HeldRight
<1>1. ASSUME NEW w \in Tellers, TellStep(w) PROVE HeldRight'
  <2>1. UNCHANGED <<held, fresh, reader>>
    BY <1>1 DEF TellStep, MakeUpdate, Push, Apply, Stop, Start, Install, Reaffirm
  <2> QED BY <1>a, <2>1
<1>2. ASSUME NEW r \in Requests,
             Remove(r) \/ \E t \in Tunnels : Erase(r, t) \/ \E k \in Confs : Add(r, t, k) \/ Update(r, t, k)
      PROVE  HeldRight'
  <2>1. UNCHANGED <<held, reader>> /\ fresh' \subseteq fresh
    BY <1>2 DEF Remove, Erase, Add, Update
  <2> QED BY <1>a, <2>1
<1>3. ASSUME NEW c \in Conns, SessionStep(c) PROVE HeldRight'
  <2>1. CASE TakeReport(c)
    <3>1. PICK r \in Reports : r = Head(up[c])
      BY <1>0, <2>1 DEF TakeReport, Links
    <3>2. /\ reader[c] = "read" /\ UNCHANGED <<reader, fresh>> /\ r.tunnel \in Tunnels
          /\ held' = [held EXCEPT ![c] = IF conf[r.tunnel] # None /\ conf[r.tunnel].receiver = Owner[c] THEN r ELSE None]
      BY <2>1, <3>1 DEF TakeReport, Reports
    <3>3. held'[c] # None => held'[c] = r /\ r.tunnel \notin fresh
      BY <1>0, <3>2 DEF Sessions, FreshFree
    <3>4. \A d \in Conns \ {c} : held'[d] = held[d]
      BY <1>0, <3>2 DEF Sessions
    <3> QED BY <3>2, <3>3, <3>4 DEF HeldRight
  <2>2. CASE StoreReport(c)
    BY <1>0, <2>2 DEF StoreReport, HeldRight, Sessions
  <2>3. CASE Bind(c) \/ Answer(c) \/ Ack(c) \/ ReadFails(c)
    <3>1. UNCHANGED <<held, fresh>>
      BY <2>3 DEF Bind, Answer, Ack, ReadFails
    <3>2. \A d \in Conns : reader[d] = "read" => reader'[d] = "read" \/ held[d] = None
      BY <1>0, <2>3 DEF Bind, Answer, Ack, ReadFails, Sessions
    <3> QED BY <1>a, <3>1, <3>2
  <2>4. CASE Unbind(c) \/ Clear(c) \/ Closed(c)
    <3>1. UNCHANGED <<held, fresh, reader>>
      BY <2>4 DEF Unbind, Clear, Closed
    <3> QED BY <1>a, <3>1
  <2> QED BY <1>3, <2>1, <2>2, <2>3, <2>4 DEF SessionStep
<1>4. ASSUME NEW c \in Conns, ClientStep(c) \/ Dial(c) \/ Cut(c) PROVE HeldRight'
  <2>1. UNCHANGED <<held, fresh>>
    BY <1>4 DEF ClientStep, LoggedIn, UpdateTunnel, LoginFails, ConnectionLost, Leave, Dial, Cut
  <2>2. \A d \in Conns : reader[d] = "read" => reader'[d] = "read"
    BY <1>0, <1>4 DEF ClientStep, LoggedIn, UpdateTunnel, LoginFails, ConnectionLost, Leave, Dial, Clean, Cut, Sessions
  <2> QED BY <1>a, <2>1, <2>2
<1>5. CASE Restart
  BY <1>5 DEF Restart, NoneFor, HeldRight
<1>6. CASE UNCHANGED vars
  BY <1>6, <1>a DEF vars
<1> QED BY <1>1, <1>2, <1>3, <1>4, <1>5, <1>6, StepCases

\* A configuration that a report waits for does not change without notice, and
\* the reader ends before its session is cleared, or somebody overlaps.
LEMMA HeldOkStep == Typed /\ HeldRight /\ HeldOk /\ [Next]_vars /\ ~mixed' => HeldOk'
<1> SUFFICES ASSUME Typed, HeldRight, HeldOk, [Next]_vars, ~mixed' PROVE HeldOk'
  OBVIOUS
<1>0. Tables /\ Sessions /\ Links /\ mixed' # TRUE
  BY DEF Typed, ServerSide
<1> USE DEF serverVars, linkVars
<1>a. ASSUME UNCHANGED held,
             \A c \in Conns : held[c] # None =>
                 \/ conf'[held[c].tunnel] = None
                 \/ /\ conf'[held[c].tunnel] = conf[held[c].tunnel]
                    /\ closer'[c] \in {"tell", "done"} => closer[c] \in {"tell", "done"}
      PROVE  HeldOk'
  BY <1>a DEF HeldOk
<1>1. ASSUME NEW w \in Tellers, TellStep(w) PROVE HeldOk'
  <2>1. UNCHANGED <<held, conf, closer>>
    BY <1>1 DEF TellStep, MakeUpdate, Push, Apply, Stop, Start, Install, Reaffirm
  <2> QED BY <1>a, <2>1
<1>2. ASSUME NEW r \in Requests,
             Remove(r) \/ \E t \in Tunnels : Erase(r, t) \/ \E k \in Confs : Add(r, t, k) \/ Update(r, t, k)
      PROVE  HeldOk'
  <2>0. UNCHANGED <<held, closer>>
    BY <1>2 DEF Remove, Erase, Add, Update
  <2>1. CASE Remove(r)
    <3>1. \A t : t \in Tunnels => conf'[t] \in {conf[t], None}
      BY <1>0, <2>1 DEF Remove, Tables
    <3>2. \A c \in Conns : held[c] # None => held[c].tunnel \in Tunnels
      BY <1>0 DEF Sessions, Reports
    <3> QED BY <1>a, <2>0, <3>1, <3>2
  <2>2. CASE \E t \in Tunnels : Erase(r, t)
    <3>1. UNCHANGED conf
      BY <2>2 DEF Erase
    <3> QED BY <1>a, <2>0, <3>1
  <2>3. ASSUME NEW t \in Tunnels, NEW k \in Confs, Add(r, t, k) \/ Update(r, t, k) PROVE HeldOk'
    <3>1. conf' = [conf EXCEPT ![t] = k]
      BY <2>3 DEF Add, Update
    <3>2. t \in fresh \/ ~HeldOn(t)
      BY <1>0, <2>3 DEF Add, Update
    <3>3. \A c \in Conns : held[c] # None => held[c].tunnel # t
      BY <3>2 DEF HeldRight, HeldOn
    <3>4. \A c \in Conns : held[c] # None => conf'[held[c].tunnel] = conf[held[c].tunnel]
      BY <1>0, <3>1, <3>3 DEF Tables
    <3> QED BY <1>a, <2>0, <3>4
  <2> QED BY <1>2, <2>1, <2>2, <2>3
<1>3. ASSUME NEW c \in Conns, SessionStep(c) PROVE HeldOk'
  <2>1. CASE TakeReport(c)
    <3>1. PICK r \in Reports : r = Head(up[c])
      BY <1>0, <2>1 DEF TakeReport, Links
    <3>2. PICK ok \in BOOLEAN : ok <=> conf[r.tunnel] # None /\ conf[r.tunnel].receiver = Owner[c]
      OBVIOUS
    <3>3. /\ UNCHANGED <<conf, closer>> /\ held' = [held EXCEPT ![c] = IF ok THEN r ELSE None]
          /\ ok => closer[c] = "no"
      BY <1>0, <2>1, <3>1, <3>2 DEF TakeReport
    <3>4. held'[c] # None => ok /\ held'[c] = r
      BY <1>0, <3>3 DEF Sessions
    <3>5. \A d \in Conns \ {c} : held'[d] = held[d]
      BY <1>0, <3>3 DEF Sessions
    <3> QED BY <3>2, <3>3, <3>4, <3>5 DEF HeldOk
  <2>2. CASE StoreReport(c)
    BY <1>0, <2>2 DEF StoreReport, HeldOk, Sessions
  <2>3. CASE Bind(c) \/ Answer(c) \/ Ack(c) \/ Unbind(c) \/ Closed(c)
    <3>1. UNCHANGED <<held, conf>>
      BY <2>3 DEF Bind, Answer, Ack, Unbind, Closed
    <3>2. \A d \in Conns : closer'[d] \in {"tell", "done"} => closer[d] \in {"tell", "done"}
      BY <1>0, <2>3 DEF Bind, CloseOf, Answer, Ack, Unbind, Closed, Sessions
    <3> QED BY <1>a, <3>1, <3>2
  <2>4. CASE ReadFails(c)
    <3>1. UNCHANGED <<held, conf>> /\ held[c] = None
      BY <2>4 DEF ReadFails
    <3>2. \A d \in Conns \ {c} : closer'[d] = closer[d]
      BY <1>0, <2>4 DEF ReadFails, CloseOf, Sessions
    <3> QED BY <1>a, <3>1, <3>2
  <2>5. CASE Clear(c)
    <3>1. UNCHANGED <<held, conf>> /\ \A d \in Conns \ {c} : closer'[d] = closer[d]
      BY <1>0, <2>5 DEF Clear, Sessions
    <3>2. \A t \in TunnelsOf(Owner[c]) : ~HeldOn(t)
      BY <1>0, <2>5 DEF Clear
    <3>3. ASSUME held[c] # None PROVE conf[held[c].tunnel] = None
      <4>1. held[c].tunnel \in Tunnels /\ HeldOn(held[c].tunnel)
        BY <1>0, <3>3 DEF Sessions, Reports, HeldOn
      <4> QED BY <3>2, <3>3, <4>1 DEF HeldOk, TunnelsOf, Ends
    <3> QED BY <1>a, <3>1, <3>3
  <2> QED BY <1>3, <2>1, <2>2, <2>3, <2>4, <2>5 DEF SessionStep
<1>4. ASSUME NEW c \in Conns, ClientStep(c) \/ Dial(c) \/ Cut(c) PROVE HeldOk'
  <2>1. UNCHANGED <<held, conf>>
    BY <1>4 DEF ClientStep, LoggedIn, UpdateTunnel, LoginFails, ConnectionLost, Leave, Dial, Cut
  <2>2. \A d \in Conns : closer'[d] \in {"tell", "done"} => closer[d] \in {"tell", "done"}
    BY <1>0, <1>4 DEF ClientStep, LoggedIn, UpdateTunnel, LoginFails, ConnectionLost, Leave, Dial, Cut, Sessions
  <2> QED BY <1>a, <2>1, <2>2
<1>5. CASE Restart
  BY <1>5 DEF Restart, NoneFor, HeldOk
<1>6. CASE UNCHANGED vars
  BY <1>6, <1>a DEF vars
<1> QED BY <1>1, <1>2, <1>3, <1>4, <1>5, <1>6, StepCases

-----------------------------------------------------------------------------
\* Whoever changes a tunnel tells its receiver last

LEMMA LastOfBoth ==
    ASSUME NEW S, NEW a \in Seq(S), NEW b \in Seq(S), b # <<>>
    PROVE  /\ Len(b) \in 1 .. Len(b) /\ Len(a \o b) \in 1 .. Len(a \o b) /\ a \o b # <<>>
           /\ (a \o b)[Len(a \o b)] = b[Len(b)]
OBVIOUS

LEMMA NotifiedLast ==
    ASSUME NEW t \in Tunnels, NEW k \in Confs, NEW del
    PROVE  Notify(t, k, del) # <<>> /\ Notify(t, k, del)[Len(Notify(t, k, del))].to = k.receiver
<1> DEFINE a == Job(t, k, k.sender, del)
           b == Job(t, k, k.receiver, del)
<1>1. Notify(t, k, del) = IF k.sender = k.receiver THEN <<a>> ELSE <<a, b>>
  BY DEF Notify
<1>2. a.to = k.sender /\ b.to = k.receiver
  BY DEF Job
<1> HIDE DEF a, b
<1>3. <<a>> # <<>> /\ <<a>>[Len(<<a>>)] = a /\ <<a, b>> # <<>> /\ <<a, b>>[Len(<<a, b>>)] = b
  OBVIOUS
<1> QED BY <1>1, <1>2, <1>3

LEMMA UpdatedLast ==
    ASSUME NEW t \in Tunnels, NEW old \in Confs, NEW k \in Confs
    PROVE  LET q == NotifyUpdate(t, old, k)
           IN  q # <<>> /\ q[Len(q)].to = k.receiver /\ Head(q).tunnel = t
<1> DEFINE Lost(was, is) == IF was = is THEN <<>> ELSE <<Job(t, k, was, TRUE)>>
           D == Lost(old.sender, k.sender) \o Lost(old.receiver, k.receiver)
           N == Notify(t, k, FALSE)
<1>1. NotifyUpdate(t, old, k) = D \o N
  BY DEF NotifyUpdate
<1>2. N \in Seq(Jobs) /\ N # <<>>
  BY NotifyTypes
<1>3. D \in Seq(Jobs)
  <2>1. ASSUME NEW p \in Players \cup {Server} PROVE <<Job(t, k, p, TRUE)>> \in Seq(Jobs)
    <3>1. Job(t, k, p, TRUE) \in Jobs
      BY DEF Job, Jobs
    <3>2. \A S : \A j \in S : <<j>> \in Seq(S)
      OBVIOUS
    <3> QED BY <3>1, <3>2
  <2>2. old.sender \in Players \cup {Server} /\ old.receiver \in Players \cup {Server}
    BY EffectiveTypes
  <2>3. <<>> \in Seq(Jobs)
    OBVIOUS
  <2>4. Lost(old.sender, k.sender) \in Seq(Jobs) /\ Lost(old.receiver, k.receiver) \in Seq(Jobs)
    BY <2>1, <2>2, <2>3
  <2> HIDE DEF Lost
  <2> QED BY <2>4, ConcatProperties
<1>4. N[Len(N)].to = k.receiver
  BY NotifiedLast
<1> HIDE DEF D, N
<1>5. D \o N # <<>> /\ (D \o N)[Len(D \o N)] = N[Len(N)]
  BY <1>2, <1>3, LastOfBoth
<1>6. D \o N \in Seq(Jobs)
  BY <1>2, <1>3, ConcatProperties
<1>7. 1 \in 1 .. Len(D \o N) /\ Head(D \o N) = (D \o N)[1]
  BY <1>5, <1>6
<1>8. (D \o N)[1].tunnel = t
  BY <1>1, <1>7, UpdateJobs
<1> QED BY <1>1, <1>4, <1>5, <1>7, <1>8

LEMMA ReceiverLastStep ==
    ASSUME Typed, Solo, JobsOk, EraseOk, ReceiverLast, [Next]_vars, ~mixed'
    PROVE  ReceiverLast'
<1>0. Telling /\ Tables /\ mixed' # TRUE
  BY DEF Typed, ServerSide
<1>a. ASSUME UNCHANGED conf, \A w \in Tellers : w[1] = "web" => tell'[w] = tell[w] PROVE ReceiverLast'
  BY <1>a DEF ReceiverLast
<1>1. CASE Quietly
  BY <1>1, <1>a DEF Quietly
<1>2. ASSUME NEW c \in Conns, Bind(c) \/ Answer(c) \/ Unbind(c) \/ Clear(c) PROVE ReceiverLast'
  <2>1. UNCHANGED conf
    BY <1>2 DEF Bind, Answer, Unbind, Clear
  <2>2. \A w \in Tellers : w[1] = "web" => w # <<"login", c>> /\ w # <<"close", c>>
    OBVIOUS
  <2>3. \A w \in Tellers : w[1] = "web" => tell'[w] = tell[w]
    BY <1>0, <1>2, <2>2 DEF Bind, Answer, Unbind, Clear, Telling
  <2> QED BY <1>a, <2>1, <2>3
<1>3. ASSUME NEW r \in Requests,
             Remove(r) \/ \E t \in Tunnels : Erase(r, t) \/ \E k \in Confs : Add(r, t, k) \/ Update(r, t, k)
      PROVE  ReceiverLast'
  <2>w. PICK w \in Tellers : w = <<"web", r>>
    BY HostFacts
  <2>1. \A v \in Tellers \ {w} : tell[v] = Idle
    <3>1. CASE Remove(r)
      <4>1. Active(w)
        BY <2>w, <3>1, AtActive DEF Remove
      <4> QED BY <4>1, AloneAtWork
    <3>2. CASE \E t \in Tunnels : Erase(r, t) \/ \E k \in Confs : Add(r, t, k) \/ Update(r, t, k)
      <4>1. \A v \in Tellers \ {w} : ~Active(v)
        BY <1>0, <2>w, <3>2 DEF Erase, Add, Update, Mixes
      <4> QED BY <4>1, TellerActive
    <3> QED BY <1>3, <3>1, <3>2
  <2>2. \A v \in Tellers \ {w} : tell'[v] = Idle
    BY <1>0, <1>3, <2>1, <2>w DEF Remove, Erase, Add, Update, Telling
  <2>3. \A v \in Tellers \ {w} : tell'[v].jobs = <<>>
    BY <2>2 DEF Idle
  <2>4. SUFFICES ASSUME tell'[w].at # "erase"
                 PROVE  \/ conf'[Head(tell'[w].jobs).tunnel] = None
                        \/ tell'[w].jobs[Len(tell'[w].jobs)].to = conf'[Head(tell'[w].jobs).tunnel].receiver
    BY <2>3 DEF ReceiverLast
  <2>5. CASE Remove(r)
    <3>1. PICK t \in Tunnels : t = Head(tell[w].jobs).tunnel
      BY <1>0, <2>5, <2>w, WorkHasJob DEF Remove, Typed, ServerSide
    <3>2. tell'[w].jobs = Notify(t, conf[t], TRUE) /\ conf'[t] = None
      BY <1>0, <2>5, <2>w, <3>1 DEF Remove, Telling, Tables, Idle
    <3>3. conf[t] \in Confs
      BY <1>0, <2>5, <2>w, <3>1 DEF Remove, Typed, ServerSide, Erasing, Tables, Tunnel
    <3>4. Head(Notify(t, conf[t], TRUE)).tunnel = t
      BY <3>3, NotifyTypes
    <3> QED BY <3>2, <3>4
  <2>6. CASE \E t \in Tunnels : Erase(r, t)
    BY <1>0, <2>4, <2>6, <2>w DEF Erase, Telling, Told
  <2>7. ASSUME NEW t \in Tunnels, NEW k \in Confs, Add(r, t, k)
        PROVE  tell'[w].jobs[Len(tell'[w].jobs)].to = conf'[Head(tell'[w].jobs).tunnel].receiver
    <3>1. PICK no : no = FALSE
      OBVIOUS
    <3>2. tell'[w].jobs = Notify(t, k, no) /\ conf'[t] = k
      BY <1>0, <2>7, <2>w, <3>1 DEF Add, Telling, Told, Tables
    <3>3. Head(Notify(t, k, no)).tunnel = t
      BY <3>1, NotifyTypes
    <3> QED BY <3>2, <3>3, NotifiedLast
  <2>8. ASSUME NEW t \in Tunnels, NEW k \in Confs, Update(r, t, k)
        PROVE  tell'[w].jobs[Len(tell'[w].jobs)].to = conf'[Head(tell'[w].jobs).tunnel].receiver
    <3>1. tell'[w].jobs = NotifyUpdate(t, conf[t], k) /\ conf'[t] = k /\ conf[t] \in Confs
      BY <1>0, <2>8, <2>w DEF Update, Telling, Told, Tables, Tunnel
    <3> QED BY <3>1, UpdatedLast
  <2> QED BY <1>3, <2>5, <2>6, <2>7, <2>8
<1>4. ASSUME NEW w \in Tellers, TellStep(w) PROVE ReceiverLast'
  <2>1. /\ tell[w].at # "erase" /\ tell'[w].at # "erase" /\ UNCHANGED conf
        /\ \A v \in Tellers \ {w} : tell'[v] = tell[v]
    BY <1>4, AtWork
  <2>2. /\ tell'[w].jobs = tell[w].jobs \/ tell'[w].jobs = Tail(tell[w].jobs)
        /\ tell[w].jobs # <<>> /\ tell[w].jobs \in Seq(Jobs)
    <3>1. tell' = Finished(w) => tell'[w].jobs = Tail(tell[w].jobs)
      BY <1>0 DEF Finished, Telling, Idle
    <3> QED BY <1>4, <3>1, TellCases
  <2>3. ASSUME w[1] = "web", Tail(tell[w].jobs) # <<>>
        PROVE  /\ Head(Tail(tell[w].jobs)).tunnel = Head(tell[w].jobs).tunnel
               /\ Tail(tell[w].jobs)[Len(Tail(tell[w].jobs))] = tell[w].jobs[Len(tell[w].jobs)]
    <3>1. PICK q \in Seq(Jobs) : q = tell[w].jobs
      BY <2>2
    <3>2. /\ Len(q) >= 2 /\ Len(q) \in Nat /\ Head(Tail(q)) = q[2] /\ Tail(q)[Len(Tail(q))] = q[Len(q)]
      BY <2>2, <2>3, <3>1
    <3>3. 2 \in 1 .. Len(tell[w].jobs)
      BY <3>1, <3>2
    <3>4. tell[w].jobs[2].tunnel = Head(tell[w].jobs).tunnel
      BY <2>1, <2>3, <3>3 DEF JobsOk, JobOk
    <3> QED BY <3>1, <3>2, <3>4
  <2>4. SUFFICES ASSUME w[1] = "web", tell'[w].jobs # <<>>, conf[Head(tell'[w].jobs).tunnel] # None
                 PROVE  tell'[w].jobs[Len(tell'[w].jobs)].to = conf[Head(tell'[w].jobs).tunnel].receiver
    BY <2>1 DEF ReceiverLast
  <2>5. conf[Head(tell[w].jobs).tunnel] # None =>
            tell[w].jobs[Len(tell[w].jobs)].to = conf[Head(tell[w].jobs).tunnel].receiver
    BY <2>1, <2>2, <2>4 DEF ReceiverLast
  <2> QED BY <2>2, <2>3, <2>4, <2>5
<1>5. CASE Restart
  BY <1>5 DEF Restart, ReceiverLast, Idle
<1> QED BY <1>1, <1>2, <1>3, <1>4, <1>5, StepKinds

-----------------------------------------------------------------------------
\* What a manager's UpdateTunnel does about sockets, and what it reports

LEMMA HandledOpens ==
    ASSUME NEW h \in Hosts, Hosted, FitsIn(h, mgr[h]), NEW t \in Tunnels, NEW k \in Tunnel,
           NEW m, m = Handled(h, t, k).mgr, NEW open, open = Handled(h, t, k).open,
           NEW told, told = Handled(h, t, k).reports
    PROVE  /\ Opened(h) => \A u \in Tunnels : m.inlets[u] # None => Listener(h, u, m.inlets[u]) \in open
           /\ \A u \in Tunnels \ {t} : m.inlets[u] = mgr[h].inlets[u]
           /\ \A l \in listening : l.host # h => l \in open
           /\ told \in Seq(Reports) /\ \A i \in 1 .. Len(told) : told[i].tunnel = t
           /\ RunsInlet(h, k) => told # <<>> /\ told[Len(told)].state = IF m.inlets[t] # None THEN "up" ELSE "failed"
<1> DEFINE old == mgr[h].inlets[t]
           stops == StopsInlet(h, old, k)
           shut == IF stops THEN listening \ {Listener(h, t, old)} ELSE listening
           base == Applied(h, t, k)
           applied == WithOutlet(h, base, t, k)
           tries == MayInlet(h, applied, t, k)
           starts == tries /\ AddressFree(h, k, shut)
           When(b, s) == IF b THEN <<Report(t, s)>> ELSE <<>>
<1>1. /\ m = IF starts THEN [applied EXCEPT !.inlets[t] = k] ELSE applied
      /\ open = IF starts THEN shut \cup {Listener(h, t, k)} ELSE shut
      /\ told = When(stops, "down") \o When(tries /\ ~starts, "failed") \o When(starts, "up")
                  \o When(k # None /\ m.inlets[t] # None, "up")
  BY DEF Handled
<1>2. mgr[h] \in Managers
  BY DEF Hosted
<1>3. /\ base \in Managers /\ FitsIn(h, base)
      /\ base.inlets = [mgr[h].inlets EXCEPT ![t] = IF stops THEN None ELSE old]
  BY <1>2, AppliedFits
<1>4. base.tunnels[t] = k
  BY <1>2 DEF Applied, Managers
<1> HIDE DEF base
<1>5. applied.inlets = base.inlets /\ applied.tunnels = base.tunnels /\ applied \in Managers
  BY <1>3, WithOutletFits
<1> HIDE DEF applied
<1>6. base.inlets \in [Tunnels -> Tunnel] /\ mgr[h].inlets \in [Tunnels -> Tunnel]
  BY <1>2, <1>3 DEF Managers
<1>7. [applied EXCEPT !.inlets[t] = k].inlets = [base.inlets EXCEPT ![t] = k]
  BY <1>5 DEF Managers
<1>8. /\ \A u \in Tunnels \ {t} : m.inlets[u] = mgr[h].inlets[u]
      /\ m.inlets[t] = IF starts THEN k ELSE IF stops THEN None ELSE old
  <2>g. PICK g : g = mgr[h].inlets
    OBVIOUS
  <2>b. PICK b : b = base.inlets
    OBVIOUS
  <2>1. (\A u \in Tunnels \ {t} : b[u] = g[u]) /\ b[t] = IF stops THEN None ELSE old
    BY <1>3, <1>6, <2>b, <2>g
  <2>2. CASE starts
    <3>1. m.inlets = [b EXCEPT ![t] = k]
      BY <1>1, <1>7, <2>2, <2>b
    <3> QED BY <1>6, <2>1, <2>2, <2>b, <2>g, <3>1
  <2>3. CASE ~starts
    <3>1. m.inlets = b
      BY <1>1, <1>5, <2>3, <2>b
    <3> QED BY <2>1, <2>3, <2>g, <3>1
  <2> QED BY <2>2, <2>3
<1>9. starts => tries
  OBVIOUS
<1>10. tries <=> RunsInlet(h, k) /\ (stops \/ old = None)
  BY <1>3, <1>4, <1>5, <1>6 DEF MayInlet
<1>11. RunsInlet(h, k) => k # None
  BY DEF RunsInlet
<1>s. shut \subseteq open /\ \A l \in listening : l # Listener(h, t, old) => l \in shut
  BY <1>1
<1> HIDE DEF tries, shut
<1>12. ASSUME Opened(h), NEW u \in Tunnels, m.inlets[u] # None PROVE Listener(h, u, m.inlets[u]) \in open
  <2>1. CASE u # t
    <3>1. Listener(h, u, mgr[h].inlets[u]) \in listening /\ Listener(h, u, mgr[h].inlets[u]) # Listener(h, t, old)
      BY <1>8, <1>12, <2>1 DEF Opened, Listener
    <3> QED BY <1>8, <1>s, <2>1, <3>1
  <2>2. CASE u = t /\ starts
    BY <1>1, <1>8, <2>2
  <2>3. CASE u = t /\ ~starts
    <3>1. ~stops /\ m.inlets[t] = old
      BY <1>8, <1>12, <2>3
    <3>2. open = listening
      BY <1>1, <2>3, <3>1 DEF shut
    <3> QED BY <1>12, <2>3, <3>1, <3>2 DEF Opened
  <2> QED BY <2>1, <2>2, <2>3
<1>13. ASSUME NEW l \in listening, l.host # h PROVE l \in open
  BY <1>13, <1>s DEF Listener
<1> HIDE DEF starts, stops
<1>14. \A s \in States : Report(t, s) \in Reports /\ Report(t, s).tunnel = t /\ Report(t, s).state = s
  BY DEF Report, Reports
<1>15. PICK d \in Reports, f \in Reports, g \in Reports :
          /\ d = Report(t, "down") /\ f = Report(t, "failed") /\ g = Report(t, "up")
          /\ d.tunnel = t /\ f.tunnel = t /\ g.tunnel = t /\ f.state = "failed" /\ g.state = "up"
  BY <1>14 DEF States
<1>16. told = (IF stops THEN <<d>> ELSE <<>>) \o (IF tries /\ ~starts THEN <<f>> ELSE <<>>)
                \o (IF starts THEN <<g>> ELSE <<>>) \o (IF k # None /\ m.inlets[t] # None THEN <<g>> ELSE <<>>)
  BY <1>1, <1>15
<1>17. told \in Seq(Reports) /\ \A i \in 1 .. Len(told) : told[i].tunnel = t
  <2>1. told \in Seq({d, f, g})
    <3>1. <<>> \in Seq({d, f, g}) /\ <<d>> \in Seq({d, f, g}) /\ <<f>> \in Seq({d, f, g}) /\ <<g>> \in Seq({d, f, g})
      OBVIOUS
    <3>2. (IF stops THEN <<d>> ELSE <<>>) \in Seq({d, f, g})
      BY <3>1
    <3>3. (IF tries /\ ~starts THEN <<f>> ELSE <<>>) \in Seq({d, f, g})
      BY <3>1
    <3>4. (IF starts THEN <<g>> ELSE <<>>) \in Seq({d, f, g})
      BY <3>1
    <3>5. (IF k # None /\ m.inlets[t] # None THEN <<g>> ELSE <<>>) \in Seq({d, f, g})
      BY <3>1
    <3> QED BY <1>16, <3>2, <3>3, <3>4, <3>5, ConcatProperties
  <2>2. {d, f, g} \subseteq Reports /\ \A i \in 1 .. Len(told) : told[i] \in {d, f, g}
    BY <2>1
  <2> QED BY <1>15, <2>1, <2>2
<1>18. ASSUME RunsInlet(h, k)
       PROVE  told # <<>> /\ told[Len(told)].state = IF m.inlets[t] # None THEN "up" ELSE "failed"
  <2>1. CASE m.inlets[t] # None
    <3>1. told = ((IF stops THEN <<d>> ELSE <<>>) \o (IF tries /\ ~starts THEN <<f>> ELSE <<>>)
                \o (IF starts THEN <<g>> ELSE <<>>)) \o <<g>>
      BY <1>11, <1>16, <1>18, <2>1
    <3>2. told # <<>> /\ told[Len(told)] = g
      BY <3>1
    <3> QED BY <1>15, <2>1, <3>2
  <2>2. CASE m.inlets[t] = None
    <3>1. ~starts /\ tries
      BY <1>8, <1>10, <1>11, <1>18, <2>2
    <3>2. told = (IF stops THEN <<d>> ELSE <<>>) \o <<f>> \o <<>> \o <<>>
      BY <1>16, <2>2, <3>1
    <3>3. told # <<>> /\ told[Len(told)] = f
      BY <3>2
    <3> QED BY <1>15, <2>2, <3>3
  <2> QED BY <2>1, <2>2
<1>19. \A u \in Tunnels \ {t} : m.inlets[u] = mgr[h].inlets[u]
  BY <1>8
<1> QED BY <1>12, <1>13, <1>17, <1>18, <1>19

-----------------------------------------------------------------------------
\* Who is still to be told

LEMMA TellPending ==
    ASSUME Typed, JobsOk, NEW w \in Tellers, TellStep(w), NEW t, NEW p,
           t # Head(tell[w].jobs).tunnel \/ p # Head(tell[w].jobs).to \/ ~Finishes(w), Pending(t, p)
    PROVE  Pending(t, p)'
<1>0. Telling /\ tell[w].jobs # <<>> /\ tell[w].jobs \in Seq(Jobs)
  BY TellCases DEF Typed, ServerSide
<1>1. \A v \in Tellers \ {w} : tell'[v] = tell[v]
  BY AtWork
<1>2. PICK v \in Tellers : Owes(v, t, p)
  BY DEF Pending
<1>3. CASE v # w
  BY <1>1, <1>2, <1>3 DEF Owes, Pending
<1>4. CASE v = w /\ tell'[w].jobs = tell[w].jobs
  BY <1>2, <1>4 DEF Owes, Pending
<1>5. CASE v = w /\ Finishes(w) /\ tell' = Finished(w)
  <2>1. tell'[w].jobs = Tail(tell[w].jobs)
    BY <1>0, <1>5, FinishedTypes DEF Finished, Idle, Telling
  <2>2. PICK i \in 1 .. Len(tell[w].jobs) : tell[w].jobs[i].tunnel = t /\ tell[w].jobs[i].to = p
    BY <1>2, <1>5 DEF Owes
  <2>3. i # 1
    BY <1>0, <1>5, <2>2, TailElements
  <2>4. i - 1 \in 1 .. Len(Tail(tell[w].jobs)) /\ Tail(tell[w].jobs)[i - 1] = tell[w].jobs[i]
    BY <1>0, <2>3, TailElements
  <2> QED BY <2>1, <2>2, <2>4 DEF Owes, Pending
<1> QED BY <1>3, <1>4, <1>5, TellCases

\* An inlet that the server must stop because the receiver has changed
LEMMA MovedAway ==
    ASSUME Typed, Fits, Solo, ServerTold, JobsOk, ReceiverLast, NEW w \in Tellers, TellStep(w),
           NEW t \in Tunnels, t = Head(tell[w].jobs).tunnel,
           mgr[Server].inlets[t] # None, conf[t] # None, conf[t].receiver # Server
    PROVE  Pending(t, conf[t].receiver)
<1>0. /\ tell[w].jobs # <<>> /\ tell[w].jobs \in Seq(Jobs) /\ Self(Server) = Server
      /\ FitsIn(Server, mgr[Server]) /\ tell[w].at # "erase"
  BY TellCases, AtWork, FitsByHost, HostFacts DEF Self
<1>1. Active(w)
  BY AtWork, TellerActive
<1>2. PICK k : k = mgr[Server].tunnels[t]
  OBVIOUS
<1>3. k # None /\ k.receiver = Server
  BY <1>0, <1>2 DEF FitsIn, RunsInlet
<1>4. Right(Server, t, k)
  BY <1>2 DEF ServerTold
<1>5. Rewritten(t, Server)
  BY <1>3, <1>4 DEF Right, Expected, SameBut
<1>6. PICK r \in Requests : Owes(<<"web", r>>, t, Server)
  BY <1>5 DEF Rewritten
<1>7. <<"web", r>> = w
  <2>1. tell[<<"web", r>>] # Idle
    BY <1>6 DEF Owes, Idle
  <2> QED BY <1>1, <2>1, AloneAtWork, HostFacts
<1>8. w[1] = "web"
  BY <1>7
<1>9. PICK n : n = Len(tell[w].jobs)
  OBVIOUS
<1>10. n \in 1 .. Len(tell[w].jobs)
  BY <1>0, <1>9
<1>11. tell[w].jobs[n].to = conf[t].receiver
  BY <1>0, <1>8, <1>9 DEF ReceiverLast
<1>12. tell[w].jobs[n].tunnel = t
  BY <1>0, <1>8, <1>10 DEF JobsOk, JobOk
<1> QED BY <1>10, <1>11, <1>12 DEF Owes, Pending

\* The server's own manager: its sockets, and what is recorded of them
LEMMA TellRecorded ==
    ASSUME Typed, Fits, Solo, ServerTold, JobsOk, HandsOk, ReceiverLast, Opened(Server), SocketsInHand, MovesAway,
           FailureKept, ServerRecorded, NEW w \in Tellers, TellStep(w)
    PROVE  Opened(Server)' /\ SocketsInHand' /\ MovesAway' /\ FailureKept' /\ ServerRecorded'
<1>t. PICK t : t = Head(tell[w].jobs).tunnel
  OBVIOUS
<1>j. PICK j : j = Head(tell[w].jobs)
  OBVIOUS
<1>k. PICK k : k = tell[w].sends
  OBVIOUS
<1>0. /\ Hosted /\ Telling /\ Works /\ Tables /\ mgr[Server] \in Managers /\ FitsIn(Server, mgr[Server])
      /\ Server \in Hosts /\ Self(Server) = Server /\ tell[w] \in Told /\ HandOk(w)
  BY HostFacts, FitsByHost DEF Typed, ServerSide, Hosted, Telling, Self, HandsOk
<1>1. tell[w].jobs # <<>> /\ t \in Tunnels /\ Head(tell[w].jobs) = tell[w].jobs[1] /\ 1 \in 1 .. Len(tell[w].jobs)
  BY <1>0, <1>t, TellCases, HeadJob
<1>2. (\A v \in Tellers \ {w} : tell'[v] = Idle) /\ UNCHANGED conf
  BY AtWork, TellerActive, AloneAtWork
<1>3. Idle.at = "next" /\ Finished(w)[w].at = "next"
  BY <1>0, <1>1, FinishedTypes DEF Idle
\* Only w has anything in hand, and while it works for the server everything is open.
<1>4. ASSUME NEW m, mgr'[Server] = m, m.tunnels = mgr[Server].tunnels \/ tell[w].at = "apply",
             \A u \in Tunnels \ {t} : /\ m.tunnels[u] = mgr[Server].tunnels[u]
                                      /\ m.inlets[u] = mgr[Server].inlets[u] /\ record'[u] = record[u],
             m.inlets[t] # None => Listener(Server, t, m.inlets[t]) \in listening',
             \A l \in listening : l.tunnel # t => l \in listening',
             tell'[w].at \in {"stop", "install", "reaffirm"} => tell'[w].jobs = tell[w].jobs,
             tell'[w].at = "stop" /\ tell'[w].inHand # None =>
                 m.inlets[t] = None /\ (conf[t] # None /\ conf[t].receiver # Server => Pending(t, conf[t].receiver)'),
             tell'[w].at = "install" => /\ m.inlets[t] = None /\ RunsInlet(Server, tell'[w].sends)
                                        /\ Listener(Server, t, tell'[w].sends) \in listening',
             tell'[w].at = "reaffirm" /\ RunsInlet(Server, m.tunnels[t]) /\ m.inlets[t] = None => record'[t] = "failed",
             ~Pending(t, Server)' /\ conf[t] # None /\ conf[t].receiver = Server /\ RunsInlet(Server, m.tunnels[t]) =>
                 record'[t] = IF m.inlets[t] # None THEN "up" ELSE "failed"
      PROVE  Opened(Server)' /\ SocketsInHand' /\ MovesAway' /\ FailureKept' /\ ServerRecorded'
  <2>1. Opened(Server)'
    <3>1. ASSUME NEW u \in Tunnels \ {t}, m.inlets[u] # None PROVE Listener(Server, u, m.inlets[u]) \in listening'
      <4>1. Listener(Server, u, m.inlets[u]) \in listening /\ Listener(Server, u, m.inlets[u]).tunnel = u
        BY <1>4, <3>1 DEF Opened, Listener
      <4> QED BY <1>4, <4>1
    <3> QED BY <1>4, <3>1 DEF Opened
  <2>t. tell'[w].at \in {"stop", "install", "reaffirm"} => Head(tell'[w].jobs) = Head(tell[w].jobs)
    BY <1>4
  <2>2. SocketsInHand'
    <3>1. ASSUME NEW v \in Tellers, tell'[v].at \in {"stop", "install"}
          PROVE  /\ Head(tell'[v].jobs).tunnel = t
                 /\ tell'[v].at = "stop" /\ tell'[v].inHand # None => m.inlets[t] = None
                 /\ tell'[v].at = "install" => /\ m.inlets[t] = None /\ RunsInlet(Server, tell'[v].sends)
                                               /\ Listener(Server, t, tell'[v].sends) \in listening'
      <4>1. v = w
        BY <1>2, <1>3, <3>1
      <4>2. Head(tell'[w].jobs).tunnel = t
        BY <1>t, <2>t, <3>1, <4>1
      <4> QED BY <1>4, <4>1, <4>2
    <3>2. mgr'[Server] = m
      BY <1>4
    <3> QED BY <3>1, <3>2 DEF SocketsInHand, RunsInlet, Self
  <2>3. MovesAway'
    BY <1>2, <1>3, <1>4, <1>t DEF MovesAway
  <2>4. FailureKept'
    <3>1. ASSUME NEW v \in Tellers, tell'[v].at = "reaffirm"
          PROVE  /\ Head(tell'[v].jobs).tunnel = t
                 /\ RunsInlet(Server, m.tunnels[t]) /\ m.inlets[t] = None => record'[t] = "failed"
      <4>1. v = w
        BY <1>2, <1>3, <3>1
      <4>2. Head(tell'[w].jobs).tunnel = t
        BY <1>t, <2>t, <3>1, <4>1
      <4> QED BY <1>4, <3>1, <4>1, <4>2
    <3>2. mgr'[Server] = m
      BY <1>4
    <3> QED BY <3>1, <3>2 DEF FailureKept, RunsInlet, Self
  <2>5. ServerRecorded'
    <3>1. SUFFICES ASSUME NEW u \in Tunnels \ {t}, conf[u] # None, conf[u].receiver = Server, ~Pending(u, Server)',
                          RunsInlet(Server, m.tunnels[u])
                   PROVE  record'[u] = Outcome(Server, u)'
      BY <1>2, <1>4 DEF ServerRecorded, Outcome, RunsInlet, Self
    <3>2. ~Pending(u, Server)
      BY <1>t, <3>1, TellPending
    <3> QED BY <1>4, <3>1, <3>2 DEF ServerRecorded, Outcome
  <2> QED BY <2>1, <2>2, <2>3, <2>4, <2>5
\* Messages to clients
<1>5. ASSUME mgr' = mgr, listening' = listening, record' = record, tell'[w].at \in {"next", "push", "apply"},
             ~Finishes(w) \/ j.to # Server
      PROVE  Opened(Server)' /\ SocketsInHand' /\ MovesAway' /\ FailureKept' /\ ServerRecorded'
  <2>1. ~Pending(t, Server)' => ~Pending(t, Server)
    BY <1>5, <1>j, TellPending
  <2>2. PICK m : m = mgr[Server]
    OBVIOUS
  <2>3. m.inlets[t] # None => Listener(Server, t, m.inlets[t]) \in listening
    BY <1>1, <2>2 DEF Opened
  <2>4. ~Pending(t, Server)' /\ conf[t] # None /\ conf[t].receiver = Server /\ RunsInlet(Server, m.tunnels[t]) =>
                 record'[t] = IF m.inlets[t] # None THEN "up" ELSE "failed"
    BY <1>1, <1>5, <2>1, <2>2 DEF ServerRecorded, Outcome
  <2> QED BY <1>4, <1>5, <2>2, <2>3, <2>4
<1>6. CASE MakeUpdate(w)
  <2>1. tell'[w].at \in {"next", "push", "apply"}
    BY <1>0, <1>3, <1>6 DEF MakeUpdate, Telling, Told
  <2>2. ~Finishes(w)
    BY <1>6 DEF Finishes, MakeUpdate, Push, Reaffirm, Stop
  <2> QED BY <1>5, <1>6, <2>1, <2>2 DEF MakeUpdate, serverVars
<1>7. CASE Push(w)
  <2>1. j.to # Server
    BY <1>0, <1>7, <1>j DEF Push, HandOk
  <2> QED BY <1>3, <1>5, <1>7, <2>1 DEF Push, serverVars
\* While w works for the server, the server is still to be told.
<1>8. ASSUME tell[w].at \in Applying, tell'[w].jobs = tell[w].jobs PROVE Pending(t, Server)'
  <2>1. j.to = Server
    BY <1>0, <1>8, <1>j DEF HandOk
  <2> QED BY <1>1, <1>8, <1>j, <1>t, <2>1 DEF Owes, Pending
<1>9. CASE Apply(w)
  <2> DEFINE x == IF j.del THEN None ELSE k
             old == mgr[Server].inlets[t]
  <2>0. x \in Tunnel /\ tell[w].at = "apply"
    BY <1>0, <1>9, <1>k, WorkHasJob DEF Apply, Tunnel
  <2>m. PICK m : m = Applied(Server, t, x)
    OBVIOUS
  <2>1. mgr' = [mgr EXCEPT ![Server] = m]
    BY <1>9, <1>j, <1>k, <1>t, <2>m DEF Apply
  <2>2. /\ tell'[w].at = "stop" /\ tell'[w].jobs = tell[w].jobs
        /\ tell'[w].inHand = IF StopsInlet(Server, old, x) THEN old ELSE None
    BY <1>0, <1>9, <1>j, <1>k, <1>t DEF Apply, Telling, Told
  <2>3. UNCHANGED <<record, listening>>
    BY <1>9 DEF Apply, serverVars
  <2> HIDE DEF x
  <2>4. mgr'[Server] = m
    BY <1>0, <2>1 DEF Hosted
  <2>5. /\ m.tunnels = [mgr[Server].tunnels EXCEPT ![t] = x]
        /\ m.inlets = [mgr[Server].inlets EXCEPT ![t] = IF StopsInlet(Server, old, x) THEN None ELSE old]
    BY <1>0, <1>1, <2>m DEF Applied, Managers
  <2>6. /\ \A u \in Tunnels \ {t} : m.tunnels[u] = mgr[Server].tunnels[u] /\ m.inlets[u] = mgr[Server].inlets[u]
        /\ m.inlets[t] = IF StopsInlet(Server, old, x) THEN None ELSE old
    BY <1>0, <1>1, <2>5 DEF Managers
  <2>7. Pending(t, Server)'
    BY <1>8, <2>0, <2>2 DEF Applying
  <2>8. m.inlets[t] # None => Listener(Server, t, m.inlets[t]) \in listening
    BY <1>1, <2>6 DEF Opened
  <2>9. ASSUME tell'[w].inHand # None, conf[t] # None, conf[t].receiver # Server PROVE Pending(t, conf[t].receiver)'
    <3>1. old # None
      BY <2>2, <2>9
    <3>2. Pending(t, conf[t].receiver)
      BY <1>1, <1>t, <2>9, <3>1, MovedAway
    <3>3. ~Finishes(w)
      BY <2>0 DEF Finishes, Push, Reaffirm, Stop
    <3>4. PICK p : p = conf[t].receiver
      OBVIOUS
    <3> QED BY <1>2, <3>2, <3>3, <3>4, TellPending
  <2> HIDE DEF old
  <2> QED BY <1>4, <2>0, <2>2, <2>3, <2>4, <2>6, <2>7, <2>8, <2>9

<1>10. CASE Stop(w)
  <2>0. mgr' = mgr /\ tell[w].at = "stop" /\ conf' = conf
    BY <1>10 DEF Stop
  <2>m. PICK m : m = mgr[Server]
    OBVIOUS
  <2>1. /\ \A u \in Tunnels \ {t} : record'[u] = record[u]
        /\ \A l \in listening : l.tunnel # t => l \in listening'
        /\ tell[w].inHand = None => listening' = listening
    BY <1>0, <1>10, <1>t DEF Stop, Tables, Listener
  <2>2. tell[w].inHand # None => m.inlets[t] = None
    BY <1>t, <2>0, <2>m DEF SocketsInHand
  <2>3. m.inlets[t] # None => Listener(Server, t, m.inlets[t]) \in listening'
    BY <1>1, <2>1, <2>2, <2>m DEF Opened
  <2>4. CASE j.del
    <3>1. mgr[Server].tunnels[t] = None
      BY <1>0, <1>j, <1>t, <2>0, <2>4 DEF HandOk, Applying
    <3>2. tell'[w].at = "next"
      BY <1>3, <1>10, <1>j, <2>4 DEF Stop
    <3> QED BY <1>4, <2>0, <2>1, <2>3, <2>m, <3>1, <3>2 DEF RunsInlet
  <2>5. CASE ~j.del
    <3>1. tell'[w].at = "start" /\ tell'[w].jobs = tell[w].jobs
      BY <1>0, <1>10, <1>j, <2>5 DEF Stop, Telling, Told
    <3>2. Pending(t, Server)'
      BY <1>8, <2>0, <3>1 DEF Applying
    <3> QED BY <1>4, <2>0, <2>1, <2>3, <2>m, <3>1, <3>2
  <2> QED BY <2>4, <2>5
<1>11. CASE Start(w)
  <2>0. k \in Tunnel /\ tell[w].at = "start"
    BY <1>0, <1>11, <1>k, WorkHasJob DEF Start
  <2>m. PICK m : m = WithOutlet(Server, mgr[Server], t, k)
    OBVIOUS
  <2>1. mgr' = [mgr EXCEPT ![Server] = m]
    BY <1>11, <1>k, <1>t, <2>m DEF Start
  <2>2. mgr'[Server] = m
    BY <1>0, <2>1 DEF Hosted
  <2>3. m \in Managers /\ m.inlets = mgr[Server].inlets /\ m.tunnels = mgr[Server].tunnels
    BY <1>0, <1>1, <2>0, <2>m, WithOutletFits
  <2>4. mgr[Server].tunnels[t] = k
    BY <1>0, <1>j, <1>k, <1>t, <2>0 DEF HandOk, Applying
  <2>5. MayInlet(Server, m, t, k) <=> RunsInlet(Server, k) /\ m.inlets[t] = None
    BY <2>3, <2>4 DEF MayInlet
  <2>6. \/ /\ RunsInlet(Server, k) /\ m.inlets[t] = None
           /\ listening' = listening \cup {Listener(Server, t, k)} /\ tell'[w].at = "install" /\ record' = record
        \/ /\ RunsInlet(Server, k) /\ m.inlets[t] = None
           /\ listening' = listening /\ tell'[w].at = "reaffirm" /\ record' = [record EXCEPT ![t] = "failed"]
        \/ /\ ~(RunsInlet(Server, k) /\ m.inlets[t] = None)
           /\ listening' = listening /\ tell'[w].at = "reaffirm" /\ record' = record
    <3>1. tell' = [tell EXCEPT ![w].at = "install", ![w].inHand = k] => tell'[w].at = "install"
      BY <1>0 DEF Telling, Told
    <3>2. tell' = [tell EXCEPT ![w].at = "reaffirm"] => tell'[w].at = "reaffirm"
      BY <1>0 DEF Telling, Told
    <3> QED BY <1>11, <1>k, <1>t, <2>5, <2>m, <3>1, <3>2 DEF Start
  <2>7. tell'[w].jobs = tell[w].jobs /\ tell'[w].sends = k
    BY <1>0, <1>11, <1>k DEF Start, Telling, Told
  <2>8. Pending(t, Server)'
    BY <1>8, <2>0, <2>7 DEF Applying
  <2>9. /\ \A u \in Tunnels \ {t} : record'[u] = record[u]
        /\ tell'[w].at = "reaffirm" /\ RunsInlet(Server, m.tunnels[t]) /\ m.inlets[t] = None => record'[t] = "failed"
    BY <1>0, <1>1, <2>3, <2>4, <2>6 DEF Tables
  <2>10. m.inlets[t] # None => Listener(Server, t, m.inlets[t]) \in listening'
    BY <1>1, <2>3, <2>6 DEF Opened
  <2> QED BY <1>4, <2>2, <2>3, <2>6, <2>7, <2>8, <2>9, <2>10
<1>12. CASE Install(w)
  <2>0. k \in Tunnel /\ tell[w].at = "install"
    BY <1>0, <1>12, <1>k, WorkHasJob DEF Install
  <2>1. mgr[Server].tunnels[t] = k
    BY <1>0, <1>j, <1>k, <1>t, <2>0 DEF HandOk, Applying
  <2>2. mgr[Server].inlets[t] = None /\ RunsInlet(Server, k) /\ Listener(Server, t, k) \in listening
    BY <1>k, <1>t, <2>0 DEF SocketsInHand
  <2>3. MayInlet(Server, mgr[Server], t, k)
    BY <2>1, <2>2 DEF MayInlet
  <2>m. PICK m : m = [mgr[Server] EXCEPT !.inlets[t] = k]
    OBVIOUS
  <2>4. mgr' = [mgr EXCEPT ![Server].inlets[t] = k] /\ listening' = listening /\ record' = [record EXCEPT ![t] = "up"]
    BY <1>12, <1>k, <1>t, <2>3 DEF Install
  <2>5. mgr'[Server] = m
    BY <1>0, <2>4, <2>m DEF Hosted
  <2>6. m.tunnels = mgr[Server].tunnels /\ m.inlets = [mgr[Server].inlets EXCEPT ![t] = k]
    BY <1>0, <2>m DEF Managers
  <2>7. m.inlets[t] = k /\ \A u \in Tunnels \ {t} : m.inlets[u] = mgr[Server].inlets[u]
    BY <1>0, <1>1, <2>6 DEF Managers
  <2>8. tell'[w].at = "reaffirm" /\ tell'[w].jobs = tell[w].jobs
    BY <1>0, <1>12 DEF Install, Telling, Told
  <2>9. Pending(t, Server)'
    BY <1>8, <2>0, <2>8 DEF Applying
  <2>10. k # None /\ \A u \in Tunnels \ {t} : record'[u] = record[u]
    BY <1>0, <2>2, <2>4 DEF RunsInlet, Tables
  <2>11. m.inlets[t] # None => Listener(Server, t, m.inlets[t]) \in listening'
    BY <2>2, <2>4, <2>7
  <2>12. record'[t] = "up"
    BY <1>0, <1>1, <2>4 DEF Tables
  <2>13. \A l \in listening : l.tunnel # t => l \in listening'
    BY <2>4
  <2>14. m.inlets[t] # None
    BY <2>7, <2>10
  <2>15. \A u \in Tunnels \ {t} : m.tunnels[u] = mgr[Server].tunnels[u] /\ m.inlets[u] = mgr[Server].inlets[u] /\ record'[u] = record[u]
    BY <2>6, <2>7, <2>10
  <2>16. tell'[w].at # "stop" /\ tell'[w].at # "install"
    BY <2>8
  <2>17. m.tunnels = mgr[Server].tunnels
    BY <2>6
  <2>18. tell'[w].jobs = tell[w].jobs
    BY <2>8
  <2> QED BY <1>4, <2>5, <2>9, <2>11, <2>13, <2>14, <2>15, <2>16, <2>17, <2>18
<1>13. CASE Reaffirm(w)
  <2>0. mgr' = mgr /\ listening' = listening /\ tell[w].at = "reaffirm" /\ tell'[w].at = "next"
    BY <1>3, <1>13 DEF Reaffirm, serverVars
  <2>m. PICK m : m = mgr[Server]
    OBVIOUS
  <2>1. record' = IF m.inlets[t] # None THEN [record EXCEPT ![t] = "up"] ELSE record
    BY <1>13, <1>t, <2>m DEF Reaffirm, Reaffirmed
  <2>2. \A u \in Tunnels \ {t} : record'[u] = record[u]
    BY <1>0, <2>1 DEF Tables
  <2>3. RunsInlet(Server, m.tunnels[t]) => record'[t] = IF m.inlets[t] # None THEN "up" ELSE "failed"
    BY <1>0, <1>1, <1>t, <2>0, <2>1, <2>m DEF Tables, FailureKept
  <2>4. m.inlets[t] # None => Listener(Server, t, m.inlets[t]) \in listening
    BY <1>1, <2>m DEF Opened
  <2> QED BY <1>4, <2>0, <2>2, <2>3, <2>4, <2>m
<1> QED BY <1>6, <1>7, <1>9, <1>10, <1>11, <1>12, <1>13 DEF TellStep

-----------------------------------------------------------------------------
\* Sockets of clients

\* What a client's update does about sockets and reports (HandledOpens)
LEMMA UpdateOpens ==
    ASSUME Typed, Fits, NEW c \in Conns, UpdateTunnel(c)
    PROVE  \E t \in Tunnels, k \in Tunnel, told \in Seq(Reports) :
             /\ down[c] # <<>> /\ ~IsAck(Head(down[c])) /\ Head(down[c]).tunnel = t /\ Head(down[c]).conf = k
             /\ client[c] = "in" /\ down' = [down EXCEPT ![c] = Tail(@)]
             /\ mgr'[c].tunnels = [mgr[c].tunnels EXCEPT ![t] = k]
             /\ \A u \in Tunnels \ {t} : mgr'[c].inlets[u] = mgr[c].inlets[u]
             /\ Opened(c) => Opened(c)'
             /\ \A l \in listening : l.host # c => l \in listening'
             /\ up' = [up EXCEPT ![c] = Reported(c, told)]
             /\ \A i \in 1 .. Len(told) : told[i].tunnel = t
             /\ RunsInlet(c, k) => /\ told # <<>>
                                   /\ told[Len(told)].state = IF mgr'[c].inlets[t] # None THEN "up" ELSE "failed"
<1>0. Hosted /\ Links /\ Acks /\ c \in Hosts /\ FitsIn(c, mgr[c]) /\ mgr \in [Hosts -> Managers]
  BY HostFacts, FitsByHost DEF Typed, Hosted
<1>1. down[c] # <<>> /\ Head(down[c]) \in Pushes /\ client[c] = "in"
  BY <1>0 DEF UpdateTunnel, Links
<1>2. ~IsAck(Head(down[c]))
  BY <1>0, <1>1, AckQueues DEF Links, Acks
<1>3. Head(down[c]).tunnel \in Tunnels /\ Head(down[c]).conf \in Tunnel
  BY <1>1, <1>2 DEF Pushes, IsAck
<1>t. PICK t \in Tunnels : t = Head(down[c]).tunnel
  BY <1>3
<1>k. PICK k \in Tunnel : k = Head(down[c]).conf
  BY <1>3
<1>m. PICK m : m = Handled(c, t, k).mgr
  OBVIOUS
<1>o. PICK open : open = Handled(c, t, k).open
  OBVIOUS
<1>r. PICK told : told = Handled(c, t, k).reports
  OBVIOUS
<1>4. /\ mgr' = [mgr EXCEPT ![c] = m] /\ listening' = open
      /\ up' = [up EXCEPT ![c] = Reported(c, told)] /\ down' = [down EXCEPT ![c] = Tail(@)]
  BY <1>t, <1>k, <1>m, <1>o, <1>r DEF UpdateTunnel
<1>5. mgr'[c] = m
  BY <1>0, <1>4
<1>6. /\ Opened(c) => \A u \in Tunnels : m.inlets[u] # None => Listener(c, u, m.inlets[u]) \in open
      /\ \A l \in listening : l.host # c => l \in open
      /\ told \in Seq(Reports) /\ \A i \in 1 .. Len(told) : told[i].tunnel = t
      /\ RunsInlet(c, k) => told # <<>> /\ told[Len(told)].state = IF m.inlets[t] # None THEN "up" ELSE "failed"
  BY <1>0, <1>m, <1>o, <1>r, HandledOpens
<1>7. \A u \in Tunnels \ {t} : m.inlets[u] = mgr[c].inlets[u]
  BY <1>0, <1>m, HandledOpens
<1>8. m.tunnels = [mgr[c].tunnels EXCEPT ![t] = k]
  BY <1>0, <1>m, HandledView
<1>9. Opened(c) => Opened(c)'
  BY <1>4, <1>5, <1>6 DEF Opened
<1>10. told \in Seq(Reports)
  BY <1>6
<1>11. /\ Head(down[c]).tunnel = t /\ Head(down[c]).conf = k
       /\ mgr'[c].tunnels = [mgr[c].tunnels EXCEPT ![t] = k]
       /\ \A u \in Tunnels \ {t} : mgr'[c].inlets[u] = mgr[c].inlets[u]
       /\ \A l \in listening : l.host # c => l \in listening'
       /\ RunsInlet(c, k) => told # <<>> /\ told[Len(told)].state = IF mgr'[c].inlets[t] # None THEN "up" ELSE "failed"
  BY <1>t, <1>k, <1>4, <1>5, <1>6, <1>7, <1>8
<1>12. \A i \in 1 .. Len(told) : told[i].tunnel = t
  BY <1>6
<1>13. /\ down[c] # <<>> /\ ~IsAck(Head(down[c])) /\ Head(down[c]).tunnel = t /\ Head(down[c]).conf = k
       /\ client[c] = "in" /\ down' = [down EXCEPT ![c] = Tail(@)]
       /\ up' = [up EXCEPT ![c] = Reported(c, told)]
  BY <1>1, <1>2, <1>4, <1>t, <1>k
<1> DEFINE Done(u, l, said) ==
             /\ down[c] # <<>> /\ ~IsAck(Head(down[c])) /\ Head(down[c]).tunnel = u /\ Head(down[c]).conf = l
             /\ client[c] = "in" /\ down' = [down EXCEPT ![c] = Tail(@)]
             /\ mgr'[c].tunnels = [mgr[c].tunnels EXCEPT ![u] = l]
             /\ \A x \in Tunnels \ {u} : mgr'[c].inlets[x] = mgr[c].inlets[x]
             /\ Opened(c) => Opened(c)'
             /\ \A x \in listening : x.host # c => x \in listening'
             /\ up' = [up EXCEPT ![c] = Reported(c, said)]
             /\ \A i \in 1 .. Len(said) : said[i].tunnel = u
             /\ RunsInlet(c, l) => /\ said # <<>>
                                   /\ said[Len(said)].state = IF mgr'[c].inlets[u] # None THEN "up" ELSE "failed"
<1>14. Done(t, k, told)
  BY <1>9, <1>11, <1>12, <1>13
<1> HIDE DEF Done
<1>15. \E u \in Tunnels, l \in Tunnel, said \in Seq(Reports) : Done(u, l, said)
  BY <1>10, <1>14
<1> QED BY <1>15 DEF Done

LEMMA ClientsOpenStep ==
    ASSUME Typed, Fits, [Next]_vars, \A c \in Conns : Opened(c)
    PROVE  \A c \in Conns : Opened(c)'
<1>0. Hosted /\ Server \notin Conns
  BY HostFacts DEF Typed
<1> USE DEF serverVars, linkVars
<1>a. ASSUME NEW c \in Conns, mgr'[c] = mgr[c], \A l \in listening : l.host = c => l \in listening' PROVE Opened(c)'
  BY <1>a DEF Opened, Listener
<1> SUFFICES ASSUME NEW c \in Conns PROVE Opened(c)'
  OBVIOUS
<1>own. c \in Hosts /\ c # Server
  BY HostFacts
<1>1. ASSUME NEW w \in Tellers, TellStep(w) PROVE Opened(c)'
  <2>1. mgr'[c] = mgr[c]
    BY <1>0, <1>own, <1>1 DEF TellStep, MakeUpdate, Push, Apply, Stop, Start, Install, Reaffirm, Hosted
  <2>2. \A l \in listening : l.host # Server => l \in listening'
    <3>1. \A t, k : Listener(Server, t, k).host = Server
      BY DEF Listener
    <3>2. CASE Stop(w)
      BY <3>1, <3>2 DEF Stop
    <3>3. CASE Install(w)
      BY <3>1, <3>3 DEF Install
    <3>4. CASE Start(w)
      BY <3>4 DEF Start
    <3> QED BY <1>1, <3>2, <3>3, <3>4 DEF TellStep, MakeUpdate, Push, Apply, Reaffirm
  <2> QED BY <1>a, <1>own, <2>1, <2>2
<1>2. ASSUME NEW r \in Requests,
             Remove(r) \/ \E t \in Tunnels : Erase(r, t) \/ \E k \in Confs : Add(r, t, k) \/ Update(r, t, k)
      PROVE  Opened(c)'
  <2>1. UNCHANGED <<mgr, listening>>
    BY <1>2 DEF Remove, Erase, Add, Update
  <2> QED BY <1>a, <2>1
<1>3. ASSUME NEW d \in Conns, SessionStep(d) PROVE Opened(c)'
  <2>1. UNCHANGED <<mgr, listening>>
    BY <1>3 DEF SessionStep, Bind, Answer, Ack, TakeReport, StoreReport, ReadFails, Unbind, Clear, Closed
  <2> QED BY <1>a, <2>1
<1>4. ASSUME NEW d \in Conns, LoggedIn(d) PROVE Opened(c)'
  <2>1. PICK list : list = Head(down[d]).ack
    OBVIOUS
  <2>2. /\ mgr' = [mgr EXCEPT ![d] =
               [tunnels |-> list,
                inlets  |-> [t \in Tunnels |-> IF RunsInlet(d, list[t]) /\ AddressFree(d, list[t], listening)
                                               THEN list[t] ELSE None],
                outlets |-> [t \in Tunnels |-> IF RunsOutlet(d, list[t]) THEN list[t] ELSE None]]]
        /\ listening' = listening \cup
               {Listener(d, t, list[t]) : t \in {u \in Tunnels : RunsInlet(d, list[u]) /\ AddressFree(d, list[u], listening)}}
    BY <1>4, <2>1 DEF LoggedIn
  <2>3. CASE d = c
    <3>1. \A t \in Tunnels : mgr'[c].inlets[t] = IF RunsInlet(c, list[t]) /\ AddressFree(c, list[t], listening)
                                                 THEN list[t] ELSE None
      BY <1>0, <1>own, <2>2, <2>3 DEF Hosted
    <3> QED BY <2>2, <2>3, <3>1 DEF Opened
  <2>4. CASE d # c
    <3>1. mgr'[c] = mgr[c]
      BY <1>0, <1>own, <2>2, <2>4 DEF Hosted
    <3> QED BY <1>a, <2>2, <3>1
  <2> QED BY <2>3, <2>4
<1>5. ASSUME NEW d \in Conns, UpdateTunnel(d) PROVE Opened(c)'
  <2>1. CASE d = c
    BY <1>5, <2>1, UpdateOpens
  <2>2. CASE d # c
    <3>1. mgr'[c] = mgr[c]
      BY <1>0, <1>5, <1>own, <2>2 DEF Hosted, UpdateTunnel
    <3>2. \A l \in listening : l.host # d => l \in listening'
      BY <1>5, UpdateOpens
    <3> QED BY <1>a, <2>2, <3>1, <3>2
  <2> QED BY <2>1, <2>2
<1>6. ASSUME NEW d \in Conns, Leave(d) PROVE Opened(c)'
  <2>1. mgr' = [mgr EXCEPT ![d] = NewManager] /\ listening' = Silenced(d)
    BY <1>6 DEF Leave
  <2>2. CASE d = c
    BY <1>0, <1>own, <2>1, <2>2 DEF Opened, NewManager, Hosted
  <2>3. CASE d # c
    <3>1. mgr'[c] = mgr[c]
      BY <1>0, <1>own, <2>1, <2>3 DEF Hosted
    <3> QED BY <1>a, <2>1, <2>3, <3>1 DEF Silenced
  <2> QED BY <2>2, <2>3
<1>7. ASSUME NEW d \in Conns, Dial(d) \/ Cut(d) PROVE Opened(c)'
  <2>1. UNCHANGED <<mgr, listening>>
    BY <1>7 DEF Dial, Cut
  <2> QED BY <1>a, <2>1
<1>8. CASE Restart
  <2>1. mgr'[c] = mgr[c]
    BY <1>0, <1>8, <1>own DEF Restart, Hosted
  <2>2. \A l \in listening : l.host # Server => l \in listening'
    BY <1>8 DEF Restart
  <2> QED BY <1>a, <1>own, <2>1, <2>2
<1>9. CASE UNCHANGED vars
  <2>1. UNCHANGED <<mgr, listening>>
    BY <1>9 DEF vars
  <2> QED BY <1>a, <2>1
<1> QED BY <1>1, <1>2, <1>3, <1>4, <1>5, <1>6, <1>7, <1>8, <1>9, StepCases DEF ClientStep, LoginFails, ConnectionLost

-----------------------------------------------------------------------------
\* Who writes a record, and who is told of it

LEMMA RecordSteps ==
    ASSUME [Next]_vars
    PROVE  \/ \E w \in Tellers : TellStep(w)
           \/ \E r \in Requests :
                 Remove(r) \/ \E t \in Tunnels : Erase(r, t) \/ \E k \in Confs : Add(r, t, k) \/ Update(r, t, k)
           \/ \E c \in Conns : Answer(c) \/ Clear(c)
           \/ UNCHANGED <<conf, tell>> /\ (record' = record \/ \E c \in Conns : StoreReport(c))
           \/ Restart
<1> USE DEF serverVars, linkVars
<1>1. ASSUME NEW c \in Conns, SessionStep(c)
      PROVE  \/ Answer(c) \/ Clear(c)
             \/ UNCHANGED <<conf, tell>> /\ (record' = record \/ StoreReport(c))
  BY <1>1 DEF SessionStep, Bind, Ack, TakeReport, StoreReport, ReadFails, Unbind, Closed
<1>2. ASSUME NEW c \in Conns, ClientStep(c) \/ Dial(c) \/ Cut(c) PROVE UNCHANGED <<conf, tell, record>>
  BY <1>2 DEF ClientStep, LoggedIn, UpdateTunnel, LoginFails, ConnectionLost, Leave, Dial, Cut
<1>3. UNCHANGED vars => UNCHANGED <<conf, tell, record>>
  BY DEF vars
<1> QED BY <1>1, <1>2, <1>3, StepCases

\* Whoever begins something is alone, until two overlap.
LEMMA WebBegins ==
    ASSUME Typed, Solo, ~mixed', NEW r \in Requests, NEW w, w = <<"web", r>>,
           Remove(r) \/ \E t \in Tunnels : Erase(r, t) \/ \E k \in Confs : Add(r, t, k) \/ Update(r, t, k)
    PROVE  /\ w \in Tellers /\ tell'[w].at \in {"next", "erase"}
           /\ \A v \in Tellers \ {w} : tell[v] = Idle /\ tell'[v] = Idle
           /\ ~Remove(r) => tell[w] = Idle
<1>0. Telling /\ Tables /\ mixed' # TRUE /\ Idle \in Told /\ Idle.at = "next" /\ w \in Tellers
  BY IdleTypes, TellerNames DEF Typed, ServerSide, Idle
<1>1. \A v \in Tellers \ {w} : tell[v] = Idle
  <2>1. CASE Remove(r)
    <3>1. Active(w)
      BY <1>0, <2>1, AtActive DEF Remove
    <3> QED BY <1>0, <3>1, AloneAtWork
  <2>2. CASE ~Remove(r)
    <3>1. \A v \in Tellers \ {w} : ~Active(v)
      BY <1>0, <2>2 DEF Erase, Add, Update, Mixes
    <3> QED BY <3>1, TellerActive
  <2> QED BY <2>1, <2>2
<1>2. \A v \in Tellers \ {w} : tell'[v] = tell[v]
  BY <1>0 DEF Remove, Erase, Add, Update, Telling
<1>3. CASE Remove(r)
  <2>1. PICK x : tell' = [tell EXCEPT ![w] = [Idle EXCEPT !.jobs = x]]
    BY <1>3 DEF Remove
  <2>2. tell'[w].at = "next"
    BY <1>0, <2>1 DEF Telling, Idle
  <2> QED BY <1>0, <1>1, <1>2, <1>3, <2>2
<1>4. CASE \E t \in Tunnels : Erase(r, t)
  <2>1. PICK x : tell' = [tell EXCEPT ![w].at = "erase", ![w].jobs = x] /\ tell[w] = Idle
    BY <1>4 DEF Erase
  <2>2. tell'[w].at = "erase"
    BY <1>0, <2>1 DEF Telling, Told
  <2> QED BY <1>0, <1>1, <1>2, <2>1, <2>2
<1>5. CASE \E t \in Tunnels, k \in Confs : Add(r, t, k) \/ Update(r, t, k)
  <2>1. PICK x : tell' = [tell EXCEPT ![w].jobs = x] /\ tell[w] = Idle
    BY <1>5 DEF Add, Update
  <2>2. tell'[w].at = tell[w].at
    BY <1>0, <2>1 DEF Telling, Told
  <2> QED BY <1>0, <1>1, <1>2, <2>1, <2>2
<1> QED BY <1>3, <1>4, <1>5

LEMMA SessionBegins ==
    ASSUME Typed, Solo, ~mixed', NEW c \in Conns, NEW w,
           (w = <<"login", c>> /\ Answer(c)) \/ (w = <<"close", c>> /\ Clear(c))
    PROVE  /\ w \in Tellers /\ tell'[w].at = "next" /\ tell[w] = Idle
           /\ \A v \in Tellers \ {w} : tell[v] = Idle /\ tell'[v] = Idle
           /\ tell' = [tell EXCEPT ![w].jobs = Broadcast(Owner[c])]
<1>0. Telling /\ Silent /\ Tables /\ mixed' # TRUE /\ Idle \in Told /\ Idle.at = "next" /\ w \in Tellers
  BY IdleTypes, TellerNames DEF Typed, ServerSide, Idle
<1>1. \A v \in Tellers \ {w} : tell[v] = Idle
  <2>1. CASE Answer(c)
    <3>1. w = <<"login", c>> => \A v \in Tellers \ {w} : ~Active(v)
      BY <1>0, <2>1 DEF Answer, Mixes
    <3>2. ~Clear(c)
      <4>1. tell' = [tell EXCEPT ![<<"login", c>>].jobs = Broadcast(Owner[c])] /\ reader[c] = "bound" /\ reader'[c] = "tell"
        BY <2>1 DEF Answer, Typed, ServerSide, Sessions
      <4> QED BY <4>1 DEF Clear
    <3> QED BY <3>1, <3>2, TellerActive
  <2>2. CASE ~Answer(c)
    <3>1. Active(w)
      BY <2>2 DEF Clear, Active
    <3> QED BY <1>0, <3>1, AloneAtWork
  <2> QED BY <2>1, <2>2
<1>2. tell[w] = Idle
  BY <1>0 DEF Answer, Clear, Silent
<1>3. tell' = [tell EXCEPT ![w].jobs = Broadcast(Owner[c])]
  BY DEF Answer, Clear
<1> HIDE DEF Idle
<1>4. tell'[w].at = tell[w].at /\ \A v \in Tellers \ {w} : tell'[v] = tell[v]
  BY <1>0, <1>3 DEF Telling, Told
<1> QED BY <1>0, <1>1, <1>2, <1>3, <1>4

\* While somebody is in the middle of telling, only reports change the records.
LEMMA AtWorkStays ==
    ASSUME Typed, Solo, [Next]_vars, ~mixed', NEW w \in Tellers, tell'[w].at \notin {"next", "erase"},
           \A v \in Tellers : ~TellStep(v)
    PROVE  UNCHANGED <<conf, tell>> /\ (record' = record \/ \E c \in Conns : StoreReport(c))
<1>1. ~Restart
  BY DEF Restart, Idle
<1>2. ASSUME NEW r \in Requests,
             Remove(r) \/ \E t \in Tunnels : Erase(r, t) \/ \E k \in Confs : Add(r, t, k) \/ Update(r, t, k)
      PROVE  FALSE
  <2>1. PICK v : v = <<"web", r>>
    OBVIOUS
  <2>2. tell'[v].at \in {"next", "erase"} /\ \A x \in Tellers \ {v} : tell'[x] = Idle
    BY <1>2, <2>1, WebBegins
  <2> QED BY <2>2 DEF Idle
<1>3. ASSUME NEW c \in Conns, Answer(c) \/ Clear(c) PROVE FALSE
  <2>1. CASE Answer(c)
    <3>1. PICK v : v = <<"login", c>>
      OBVIOUS
    <3>2. tell'[v].at = "next" /\ \A x \in Tellers \ {v} : tell'[x] = Idle
      BY <2>1, <3>1, SessionBegins
    <3> QED BY <3>2 DEF Idle
  <2>2. CASE Clear(c)
    <3>1. PICK v : v = <<"close", c>>
      OBVIOUS
    <3>2. tell'[v].at = "next" /\ \A x \in Tellers \ {v} : tell'[x] = Idle
      BY <2>2, <3>1, SessionBegins
    <3> QED BY <3>2 DEF Idle
  <2> QED BY <1>3, <2>1, <2>2
<1> QED BY <1>1, <1>2, <1>3, RecordSteps

LEMMA UpdateTells ==
    ASSUME NEW t \in Tunnels, NEW old \in Confs, NEW k \in Confs, NEW p \in Ends(k)
    PROVE  \E i \in 1 .. Len(NotifyUpdate(t, old, k)) :
              NotifyUpdate(t, old, k)[i].tunnel = t /\ NotifyUpdate(t, old, k)[i].to = p
<1> DEFINE q == NotifyUpdate(t, old, k)
<1>1. \A i \in 1 .. Len(q) : /\ q[i].tunnel = t /\ q[i].conf = k
                             /\ q[i].to \in Ends(old) \cup Ends(k)
                             /\ ~q[i].del => q[i].to \in Ends(k)
  BY UpdateJobs
<1>2. \A x \in Ends(old) \cup Ends(k) : \E i \in 1 .. Len(q) : q[i].to = x
  BY UpdateJobs
<1> HIDE DEF q
<1>3. \E i \in 1 .. Len(q) : q[i].tunnel = t /\ q[i].to = p
  BY <1>1, <1>2
<1> QED BY <1>3 DEF q

\* A record of a tunnel changes when the receiver reports, or when it is cleared
\* because the receiver has gone; otherwise the receiver is to be told.
LEMMA RecordStays ==
    ASSUME Typed, Solo, EraseOk, FreshFree, HeldOk, [Next]_vars, ~mixed', ~Restart, \A w \in Tellers : ~TellStep(w),
           NEW t \in Tunnels, conf'[t] # None, NEW p, p = conf'[t].receiver
    PROVE  /\ Pending(t, p) => Pending(t, p)'
           /\ ~Pending(t, p)' =>
                /\ conf'[t] = conf[t]
                /\ \/ record'[t] = record[t]
                   \/ \E c \in Conns : Owner[c] = p /\ StoreReport(c) /\ held[c].tunnel = t
                   \/ \E c \in Conns : Owner[c] = p /\ Clear(c)
<1> DEFINE Goal == /\ Pending(t, p) => Pending(t, p)'
                   /\ ~Pending(t, p)' =>
                        /\ conf'[t] = conf[t]
                        /\ \/ record'[t] = record[t]
                           \/ \E c \in Conns : Owner[c] = p /\ StoreReport(c) /\ held[c].tunnel = t
                           \/ \E c \in Conns : Owner[c] = p /\ Clear(c)
<1>0. Telling /\ Tables /\ Sessions
  BY DEF Typed, ServerSide
<1>1. ASSUME NEW r \in Requests,
             Remove(r) \/ \E u \in Tunnels : Erase(r, u) \/ \E k \in Confs : Add(r, u, k) \/ Update(r, u, k)
      PROVE  Goal
  <2>w. PICK w : w = <<"web", r>>
    OBVIOUS
  <2>1. /\ w \in Tellers /\ \A v \in Tellers \ {w} : tell[v] = Idle /\ tell'[v] = Idle
        /\ ~Remove(r) => tell[w] = Idle
    BY <1>1, <2>w, WebBegins
  <2>2. ASSUME tell[w] = Idle PROVE Pending(t, p) => Pending(t, p)'
    <3>1. \A v \in Tellers \ {w} : tell'[v] = tell[v]
      BY <2>1
    <3> QED BY <1>0, <2>1, <2>2, <3>1, OwesMore
  <2>3. CASE Remove(r)
    <3>1. PICK u : u = Head(tell[w].jobs).tunnel
      OBVIOUS
    <3>2. /\ tell[w].at = "erase" /\ conf' = [conf EXCEPT ![u] = None] /\ record' = record
          /\ tell' = [tell EXCEPT ![w] = [Idle EXCEPT !.jobs = Notify(u, conf[u], TRUE)]]
      BY <2>3, <2>w, <3>1 DEF Remove
    <3>3. tell[w].jobs = Notify(u, conf[u], TRUE)
      BY <2>1, <3>1, <3>2 DEF EraseOk
    <3>4. tell'[w].jobs = tell[w].jobs
      BY <1>0, <2>1, <3>2, <3>3 DEF Telling, Idle
    <3>5. Pending(t, p) => Pending(t, p)'
      BY <2>1, <3>4 DEF Pending, Owes
    <3>6. conf'[t] = conf[t]
      BY <1>0, <3>2 DEF Tables
    <3> QED BY <3>2, <3>5, <3>6
  <2>4. ASSUME NEW u \in Tunnels, Erase(r, u) PROVE Goal
    <3>1. PICK yes : yes = TRUE
      OBVIOUS
    <3>2. /\ tell[w] = Idle /\ conf' = conf /\ record' = [record EXCEPT ![u] = "none"]
          /\ tell' = [tell EXCEPT ![w].at = "erase", ![w].jobs = Notify(u, conf[u], yes)]
      BY <2>4, <2>w, <3>1 DEF Erase
    <3>3. CASE u = t
      <4>1. tell'[w].jobs = Notify(t, conf[t], yes)
        BY <1>0, <2>1, <3>2, <3>3 DEF Telling, Told
      <4>2. p \in Ends(conf[t])
        BY <3>2 DEF Ends
      <4>3. \E i \in 1 .. Len(tell'[w].jobs) : tell'[w].jobs[i].tunnel = t /\ tell'[w].jobs[i].to = p
        BY <4>1, <4>2, NotifyJobs
      <4>4. Pending(t, p)'
        BY <2>1, <4>3 DEF Pending, Owes
      <4> QED BY <4>4
    <3>4. CASE u # t
      <4>1. record'[t] = record[t]
        BY <1>0, <3>2, <3>4 DEF Tables
      <4> QED BY <2>2, <3>2, <4>1
    <3> QED BY <3>3, <3>4
  <2>5. ASSUME NEW u \in Tunnels, NEW k \in Confs, Add(r, u, k) \/ Update(r, u, k) PROVE Goal
    <3>1. PICK no : no = FALSE
      OBVIOUS
    <3>2. /\ tell[w] = Idle /\ conf' = [conf EXCEPT ![u] = k]
          /\ \A x \in Tunnels \ {u} : record'[x] = record[x]
      BY <1>0, <2>5, <2>w DEF Add, Update, Tables
    <3>3. CASE u = t
      <4>1. conf'[t] = k /\ p \in Ends(k)
        BY <1>0, <3>2, <3>3 DEF Tables, Ends
      <4>2. \E i \in 1 .. Len(tell'[w].jobs) : tell'[w].jobs[i].tunnel = t /\ tell'[w].jobs[i].to = p
        <5>1. CASE Add(r, u, k)
          <6>1. tell'[w].jobs = Notify(t, k, no)
            BY <1>0, <2>1, <2>w, <3>1, <3>3, <5>1 DEF Add, Telling, Told
          <6> QED BY <4>1, <6>1, NotifyJobs
        <5>2. CASE Update(r, u, k)
          <6>1. tell'[w].jobs = NotifyUpdate(t, conf[t], k) /\ conf[t] \in Confs
            BY <1>0, <2>1, <2>w, <3>3, <5>2 DEF Update, Telling, Told, Tables, Tunnel
          <6> QED BY <4>1, <6>1, UpdateTells
        <5> QED BY <2>5, <5>1, <5>2
      <4>3. Pending(t, p)'
        BY <2>1, <4>2 DEF Pending, Owes
      <4> QED BY <4>3
    <3>4. CASE u # t
      <4>1. record'[t] = record[t] /\ conf'[t] = conf[t]
        BY <1>0, <3>2, <3>4 DEF Tables
      <4> QED BY <2>2, <3>2, <4>1
    <3> QED BY <3>3, <3>4
  <2> QED BY <1>1, <2>3, <2>4, <2>5
<1>2. ASSUME NEW c \in Conns, Answer(c) PROVE Goal
  <2>1. PICK w : w = <<"login", c>>
    OBVIOUS
  <2>2. w \in Tellers /\ tell[w] = Idle /\ \A v \in Tellers \ {w} : tell[v] = Idle /\ tell'[v] = Idle
    BY <1>2, <2>1, SessionBegins
  <2>3. \A v \in Tellers \ {w} : tell'[v] = tell[v]
    BY <2>2
  <2>4. Pending(t, p) => Pending(t, p)'
    BY <1>0, <2>2, <2>3, OwesMore
  <2>5. UNCHANGED <<conf, record>>
    BY <1>2 DEF Answer
  <2> QED BY <2>4, <2>5
<1>3. ASSUME NEW c \in Conns, Clear(c) PROVE Goal
  <2>1. PICK w : w = <<"close", c>>
    OBVIOUS
  <2>2. /\ w \in Tellers /\ tell[w] = Idle /\ \A v \in Tellers \ {w} : tell[v] = Idle /\ tell'[v] = Idle
        /\ tell' = [tell EXCEPT ![w].jobs = Broadcast(Owner[c])]
    BY <1>3, <2>1, SessionBegins
  <2>3. \A v \in Tellers \ {w} : tell'[v] = tell[v]
    BY <2>2
  <2>4. Pending(t, p) => Pending(t, p)'
    BY <1>0, <2>2, <2>3, OwesMore
  <2>5. /\ conf' = conf
        /\ t \notin TunnelsOf(Owner[c]) => record'[t] = record[t]
    BY <1>0, <1>3 DEF Clear, Tables
  <2>6. ASSUME t \in TunnelsOf(Owner[c]), Owner[c] # p PROVE Pending(t, p)'
    <3>1. conf[t] # None /\ conf[t].receiver = p /\ conf[t].sender = Owner[c] /\ OtherEnd(conf[t], Owner[c]) = p
      BY <2>5, <2>6 DEF TunnelsOf, Ends, OtherEnd
    <3>2. tell'[w].jobs = Broadcast(Owner[c])
      BY <1>0, <2>2 DEF Telling, Told
    <3>3. Owner[c] \in Players /\ conf[t].sender # conf[t].receiver
      BY <2>6, <3>1, HostFacts
    <3>4. \E i \in 1 .. Len(tell'[w].jobs) : tell'[w].jobs[i].tunnel = t /\ tell'[w].jobs[i].to = p
      BY <1>0, <2>6, <3>1, <3>2, <3>3, BroadcastJobs
    <3> QED BY <2>2, <3>4 DEF Pending, Owes
  <2> QED BY <1>3, <2>4, <2>5, <2>6
<1>4. ASSUME UNCHANGED <<conf, tell>>, record' = record \/ \E c \in Conns : StoreReport(c) PROVE Goal
  <2>1. Pending(t, p) => Pending(t, p)'
    BY <1>4 DEF Pending, Owes
  <2>2. ASSUME NEW c \in Conns, StoreReport(c), record'[t] # record[t] PROVE Owner[c] = p /\ held[c].tunnel = t
    <3>1. held[c] # None /\ record' = [record EXCEPT ![held[c].tunnel] = held[c].state]
      BY <2>2 DEF StoreReport
    <3>2. held[c].tunnel = t
      BY <1>0, <2>2, <3>1 DEF Tables
    <3>3. conf[t] = conf'[t]
      BY <1>4
    <3> QED BY <3>1, <3>2, <3>3 DEF HeldOk
  <2> QED BY <1>4, <2>1, <2>2
<1> HIDE DEF Goal
<1>5. Goal
  BY <1>1, <1>2, <1>3, <1>4, RecordSteps
<1> QED BY <1>5 DEF Goal

LEMMA ServerSocketsStay ==
    ASSUME Typed, Fits, [Next]_vars, ~Restart, \A w \in Tellers : ~TellStep(w)
    PROVE  \A l \in listening : l.host = Server => l \in listening'
<1> USE DEF serverVars, linkVars
<1>1. ASSUME NEW r \in Requests,
             Remove(r) \/ \E t \in Tunnels : Erase(r, t) \/ \E k \in Confs : Add(r, t, k) \/ Update(r, t, k)
      PROVE  UNCHANGED listening
  BY <1>1 DEF Remove, Erase, Add, Update
<1>2. ASSUME NEW c \in Conns, SessionStep(c) PROVE UNCHANGED listening
  BY <1>2 DEF SessionStep, Bind, Answer, Ack, TakeReport, StoreReport, ReadFails, Unbind, Clear, Closed
<1>3. ASSUME NEW c \in Conns, ClientStep(c) PROVE \A l \in listening : l.host = Server => l \in listening'
  <2>1. c # Server
    BY HostFacts
  <2>2. CASE LoggedIn(c)
    BY <2>2 DEF LoggedIn
  <2>3. CASE UpdateTunnel(c)
    <3>1. \A l \in listening : l.host # c => l \in listening'
      BY <2>3, UpdateOpens
    <3> QED BY <2>1, <3>1
  <2>4. CASE LoginFails(c) \/ ConnectionLost(c)
    BY <2>1, <2>4 DEF LoginFails, ConnectionLost, Leave, Silenced
  <2> QED BY <1>3, <2>2, <2>3, <2>4 DEF ClientStep
<1>4. ASSUME NEW c \in Conns, Dial(c) \/ Cut(c) PROVE UNCHANGED listening
  BY <1>4 DEF Dial, Cut
<1> QED BY <1>1, <1>2, <1>3, <1>4, StepCases DEF vars

LEMMA OthersRecorded ==
    ASSUME Typed, Fits, Solo, JobsOk, EraseOk, HandsOk, FreshFree, HeldOk, Opened(Server), SocketsInHand, MovesAway,
           FailureKept, ServerRecorded, [Next]_vars, ~mixed', ~Restart, \A w \in Tellers : ~TellStep(w)
    PROVE  Opened(Server)' /\ SocketsInHand' /\ MovesAway' /\ FailureKept' /\ ServerRecorded'
<1>0. /\ Hosted /\ Telling /\ Works /\ Tables /\ Sessions /\ Self(Server) = Server
      /\ \A c \in Conns : Owner[c] # Server
  BY HostFacts DEF Typed, ServerSide, Self
<1>1. mgr'[Server] = mgr[Server]
  BY ServerStays
<1>2. \A l \in listening : l.host = Server => l \in listening'
  BY ServerSocketsStay
<1>m. PICK m : m = mgr[Server]
  OBVIOUS
<1>3. Opened(Server)'
  BY <1>1, <1>2 DEF Opened, Listener
<1>4. ASSUME NEW w \in Tellers, tell'[w].at \notin {"next", "erase"} PROVE UNCHANGED <<conf, tell>>
  BY <1>4, AtWorkStays
<1>5. SocketsInHand'
  <2> SUFFICES ASSUME NEW w \in Tellers, tell'[w].at \in {"stop", "install"}
               PROVE  /\ tell'[w].at = "stop" /\ tell'[w].inHand # None => mgr'[Server].inlets[Head(tell'[w].jobs).tunnel] = None
                      /\ tell'[w].at = "install" =>
                            /\ mgr'[Server].inlets[Head(tell'[w].jobs).tunnel] = None /\ RunsInlet(Server, tell'[w].sends)
                            /\ Listener(Server, Head(tell'[w].jobs).tunnel, tell'[w].sends) \in listening'
    BY DEF SocketsInHand, RunsInlet, Self
  <2>1. tell'[w] = tell[w]
    BY <1>4
  <2>2. PICK x : x = tell[w]
    OBVIOUS
  <2>3. /\ x.at = "stop" /\ x.inHand # None => m.inlets[Head(x.jobs).tunnel] = None
        /\ x.at = "install" => /\ m.inlets[Head(x.jobs).tunnel] = None /\ RunsInlet(Server, x.sends)
                               /\ Listener(Server, Head(x.jobs).tunnel, x.sends) \in listening
    BY <1>m, <2>2 DEF SocketsInHand
  <2>4. \A t, k : Listener(Server, t, k).host = Server
    BY DEF Listener
  <2> QED BY <1>1, <1>2, <1>m, <2>1, <2>2, <2>3, <2>4
<1>6. MovesAway'
  <2> SUFFICES ASSUME NEW w \in Tellers, tell'[w].at = "stop", tell'[w].inHand # None, NEW t, t = Head(tell'[w].jobs).tunnel,
                      conf'[t] # None, conf'[t].receiver # Server
               PROVE  Pending(t, conf[t].receiver)'
    BY DEF MovesAway
  <2>1. UNCHANGED <<conf, tell>>
    BY <1>4
  <2>2. Pending(t, conf[t].receiver)
    BY <2>1 DEF MovesAway
  <2> QED BY <2>1, <2>2 DEF Pending, Owes
<1>7. FailureKept'
  <2> SUFFICES ASSUME NEW w \in Tellers, tell'[w].at = "reaffirm", NEW t, t = Head(tell'[w].jobs).tunnel,
                      RunsInlet(Server, mgr'[Server].tunnels[t]), mgr'[Server].inlets[t] = None
               PROVE  record'[t] = "failed"
    BY DEF FailureKept, RunsInlet, Self
  <2>1. UNCHANGED <<conf, tell>> /\ (record' = record \/ \E c \in Conns : StoreReport(c))
    BY AtWorkStays
  <2>2. tell[w].at = "reaffirm" /\ t = Head(tell[w].jobs).tunnel
    BY <2>1
  <2>3. record[t] = "failed"
    BY <1>1, <2>2 DEF FailureKept
  <2>4. conf[t] # None /\ conf[t].receiver = Server
    <3>1. tell[w].jobs # <<>> /\ HandOk(w) /\ ~Head(tell[w].jobs).del
      BY <1>0, <2>2 DEF Works, Working, HandsOk, HandOk
    <3>2. Head(tell[w].jobs) = tell[w].jobs[1] /\ 1 \in 1 .. Len(tell[w].jobs)
      BY <1>0, <3>1, HeadJob
    <3>3. conf[t] # None
      BY <2>2, <3>1, <3>2 DEF JobsOk, JobOk
    <3>4. PICK s : s = tell[w].sends
      OBVIOUS
    <3>5. m.tunnels[t] = s /\ SameBut(s, conf[t])
      BY <1>m, <2>2, <3>1, <3>4 DEF HandOk, Applying, Current
    <3>6. s.receiver = Server
      BY <1>0, <1>1, <1>m, <3>5 DEF RunsInlet
    <3> QED BY <3>3, <3>5, <3>6 DEF SameBut
  <2>5. ASSUME NEW c \in Conns, StoreReport(c) PROVE record'[t] = record[t]
    <3>1. held[c] # None /\ record' = [record EXCEPT ![held[c].tunnel] = held[c].state]
      BY <2>5 DEF StoreReport
    <3>2. held[c].tunnel # t
      BY <1>0, <2>4, <2>5, <3>1 DEF HeldOk
    <3>3. t \in Tunnels
      BY <1>0, <2>2, WorkHasJob DEF Works
    <3> QED BY <1>0, <3>1, <3>2, <3>3 DEF Tables
  <2> QED BY <2>1, <2>3, <2>5
<1>8. ServerRecorded'
  <2> SUFFICES ASSUME NEW t \in Tunnels, conf'[t] # None, conf'[t].receiver = Server, ~Pending(t, Server)',
                      RunsInlet(Server, m.tunnels[t])
               PROVE  record'[t] = Outcome(Server, t)'
    BY <1>1, <1>m DEF ServerRecorded, RunsInlet, Self
  <2>1. PICK p : p = Server
    OBVIOUS
  <2>2. /\ Pending(t, p) => Pending(t, p)'
        /\ ~Pending(t, p)' =>
             /\ conf'[t] = conf[t]
             /\ \/ record'[t] = record[t]
                \/ \E c \in Conns : Owner[c] = p /\ StoreReport(c) /\ held[c].tunnel = t
                \/ \E c \in Conns : Owner[c] = p /\ Clear(c)
    BY <2>1, RecordStays
  <2>3. ~Pending(t, Server)
    BY <2>1, <2>2
  <2>4. conf'[t] = conf[t] /\ record'[t] = record[t]
    BY <1>0, <2>1, <2>2
  <2>5. record[t] = Outcome(Server, t)
    BY <1>m, <2>3, <2>4 DEF ServerRecorded
  <2> QED BY <1>1, <2>4, <2>5 DEF Outcome
<1> QED BY <1>3, <1>5, <1>6, <1>7, <1>8

LEMMA RestartRecorded ==
    ASSUME Typed, Restart
    PROVE  /\ Opened(Server)' /\ SocketsInHand' /\ MovesAway' /\ FailureKept' /\ ServerRecorded'
           /\ ReceiverLast' /\ HeldOk' /\ ClientsRecorded'
<1>0. Hosted /\ Server \in Hosts /\ Self(Server) = Server
  BY HostFacts DEF Typed, Self
<1>1. \A w \in Tellers : tell'[w] = Idle
  BY DEF Restart
<1>2. Idle.at = "next" /\ Idle.jobs = <<>>
  BY DEF Idle
<1>3. SocketsInHand' /\ MovesAway' /\ FailureKept'
  BY <1>1, <1>2 DEF SocketsInHand, MovesAway, FailureKept
<1>4. ReceiverLast' /\ HeldOk'
  <2>1. \A c \in Conns : held'[c] = None
    BY DEF Restart, NoneFor
  <2> QED BY <1>1, <1>2, <2>1 DEF ReceiverLast, HeldOk
<1>5. ClientsRecorded'
  <2>1. \A c \in Conns : bound'[Owner[c]] # c
    BY HostFacts DEF Restart, NoneFor
  <2> QED BY <2>1 DEF ClientsRecorded, Informed, Live
<1>6. PICK stored : stored = [t \in Tunnels |-> IF Erased(t) THEN None ELSE conf[t]]
  OBVIOUS
<1>7. PICK m : m = StartManager(stored)
  OBVIOUS
<1>8. /\ record' = RecordAtStart(stored) /\ mgr' = [mgr EXCEPT ![Server] = m]
      /\ listening' = {l \in listening : l.host # Server} \cup Sockets(m, Server)
  BY <1>6, <1>7 DEF Restart
<1>9. mgr'[Server] = m
  BY <1>0, <1>8 DEF Hosted
<1>10. Opened(Server)'
  BY <1>8, <1>9 DEF Opened, Sockets
<1>11. ASSUME NEW t \in Tunnels, RunsInlet(Server, m.tunnels[t])
       PROVE  record'[t] = IF m.inlets[t] # None THEN "up" ELSE "failed"
  <2>1. m.tunnels[t] = AtStart(t, stored[t])
    BY <1>7 DEF StartManager
  <2>2. record'[t] = IF ~RunsInlet(Server, AtStart(t, stored[t])) THEN "none"
                     ELSE IF m.inlets[t] = None THEN "failed" ELSE "up"
    BY <1>7, <1>8 DEF RecordAtStart
  <2> QED BY <1>11, <2>1, <2>2
<1>12. ServerRecorded'
  BY <1>9, <1>11 DEF ServerRecorded, Outcome, RunsInlet, Self
<1> QED BY <1>3, <1>4, <1>5, <1>10, <1>12

-----------------------------------------------------------------------------
\* What clients have reported

LEMMA InReads ==
    ASSUME Typed, NEW c \in Conns, Live(c), client[c] = "in"
    PROVE  reader[c] = "read"
<1>0. Sessions /\ Standing /\ Acks
  BY DEF Typed, ServerSide
<1>1. bound[Owner[c]] = c /\ closer[c] = "no" /\ Owner[c] \in Players
  BY HostFacts DEF Live
<1>2. reader[c] \notin {"off", "hello"}
  BY <1>0, <1>1 DEF Standing
<1>3. reader[c] # "over"
  BY <1>0, <1>1 DEF Standing
<1>4. reader[c] \notin {"bound", "tell"}
  BY <1>0 DEF Acks
<1> QED BY <1>0, <1>2, <1>3, <1>4 DEF Sessions

LEMMA ClientComes ==
    ASSUME Typed, [Next]_vars, NEW c \in Conns, client'[c] = "in"
    PROVE  client[c] = "in" \/ LoggedIn(c)
<1>0. Links
  BY DEF Typed
<1> USE DEF serverVars, linkVars
<1>1. ASSUME NEW w \in Tellers, TellStep(w) PROVE client' = client
  BY <1>1, AtWork
<1>2. ASSUME NEW r \in Requests,
             Remove(r) \/ \E t \in Tunnels : Erase(r, t) \/ \E k \in Confs : Add(r, t, k) \/ Update(r, t, k)
      PROVE  client' = client
  BY <1>2 DEF Remove, Erase, Add, Update
<1>3. ASSUME NEW d \in Conns, SessionStep(d) PROVE client' = client
  BY <1>3 DEF SessionStep, Bind, Answer, Ack, TakeReport, StoreReport, ReadFails, Unbind, Clear, Closed
<1>4. ASSUME NEW d \in Conns, ClientStep(d) \/ Dial(d) \/ Cut(d) PROVE client[c] = "in" \/ LoggedIn(c)
  <2>1. CASE LoggedIn(d)
    <3>1. client' = [client EXCEPT ![d] = "in"]
      BY <2>1 DEF LoggedIn
    <3> QED BY <1>0, <2>1, <3>1 DEF Links
  <2>2. CASE UpdateTunnel(d) \/ Cut(d)
    BY <2>2 DEF UpdateTunnel, Cut
  <2>3. CASE LoginFails(d) \/ ConnectionLost(d)
    BY <1>0, <2>3 DEF LoginFails, ConnectionLost, Leave, Links
  <2>4. CASE Dial(d)
    BY <1>0, <2>4 DEF Dial, Links
  <2> QED BY <1>4, <2>1, <2>2, <2>3, <2>4 DEF ClientStep
<1>5. CASE Restart
  BY <1>5 DEF Restart
<1>6. UNCHANGED vars => client' = client
  BY DEF vars
<1> QED BY <1>1, <1>2, <1>3, <1>4, <1>5, <1>6, StepCases

\* A session that is still to be cleared is cleared before another of the player's
\* is answered, or it overlaps with it.
LEMMA TrailingStays ==
    ASSUME Typed, [Next]_vars, ~mixed', ~Restart, NEW c \in Conns, Live(c), client[c] = "in" \/ LoggedIn(c), Trailing(c)
    PROVE  Trailing(c)'
<1>0. Sessions /\ Standing /\ Tables /\ mixed' # TRUE
  BY DEF Typed, ServerSide
<1> USE DEF serverVars, linkVars
<1>1. PICK d \in Conns : d # c /\ Owner[d] = Owner[c] /\ closer[d] \in {"unbind", "clear"}
  BY DEF Trailing
<1>2. SUFFICES closer'[d] \in {"unbind", "clear"}
  BY <1>1 DEF Trailing
<1>3. ASSUME NEW w \in Tellers, TellStep(w) PROVE closer' = closer
  BY <1>3, AtWork
<1>4. ASSUME NEW r \in Requests,
             Remove(r) \/ \E t \in Tunnels : Erase(r, t) \/ \E k \in Confs : Add(r, t, k) \/ Update(r, t, k)
      PROVE  closer' = closer
  BY <1>4 DEF Remove, Erase, Add, Update
<1>5. ASSUME NEW e \in Conns, SessionStep(e) PROVE closer'[d] \in {"unbind", "clear"}
  <2>1. CASE Answer(e) \/ Ack(e) \/ TakeReport(e) \/ StoreReport(e)
    BY <1>1, <2>1 DEF Answer, Ack, TakeReport, StoreReport
  <2>2. CASE Bind(e) \/ Unbind(e)
    BY <1>0, <1>1, <2>2 DEF Bind, CloseOf, Unbind, Sessions
  <2>3. CASE ReadFails(e)
    <3>1. reader[e] = "hello" => closer[e] = "no"
      BY <1>0 DEF Standing
    <3> QED BY <1>0, <1>1, <2>3, <3>1 DEF ReadFails, CloseOf, Sessions
  <2>4. CASE Closed(e)
    BY <1>0, <1>1, <2>4 DEF Closed, Sessions
  <2>5. CASE Clear(e) /\ e # d
    BY <1>0, <1>1, <2>5 DEF Clear, Sessions
  <2>6. CASE Clear(e) /\ e = d
    <3>1. closer' # closer
      BY <1>0, <2>6 DEF Clear, Sessions
    <3>2. ~LoggedIn(c)
      BY <3>1 DEF LoggedIn
    <3>3. reader[c] = "read"
      BY <3>2, InReads
    <3>4. Answered(Owner[d])
      BY <1>1, <3>3, HostFacts DEF Answered, Live
    <3> QED BY <1>0, <2>6, <3>4 DEF Clear
  <2> QED BY <1>5, <2>1, <2>2, <2>3, <2>4, <2>5, <2>6 DEF SessionStep
<1>6. ASSUME NEW e \in Conns, ClientStep(e) \/ Cut(e) PROVE closer' = closer
  BY <1>6 DEF ClientStep, LoggedIn, UpdateTunnel, LoginFails, ConnectionLost, Leave, Cut
<1>7. ASSUME NEW e \in Conns, Dial(e) PROVE closer'[d] \in {"unbind", "clear"}
  BY <1>0, <1>1, <1>7 DEF Dial, Clean, Sessions
<1>8. UNCHANGED vars => closer' = closer
  BY DEF vars
<1> QED BY <1>1, <1>3, <1>4, <1>5, <1>6, <1>7, <1>8, StepCases

\* The reports of a client are written by itself and read by its session.
LEMMA ReportSteps ==
    ASSUME Typed, [Next]_vars, ~Restart, NEW c \in Conns
    PROVE  \/ up'[c] = up[c] /\ held'[c] = held[c]
           \/ TakeReport(c) \/ StoreReport(c) \/ LoggedIn(c) \/ UpdateTunnel(c) \/ Dial(c)
<1>0. Links /\ Sessions
  BY DEF Typed, ServerSide
<1> USE DEF serverVars, linkVars
<1>1. ASSUME NEW w \in Tellers, TellStep(w) PROVE UNCHANGED <<up, held>>
  BY <1>1 DEF TellStep, MakeUpdate, Push, Apply, Stop, Start, Install, Reaffirm
<1>2. ASSUME NEW r \in Requests,
             Remove(r) \/ \E t \in Tunnels : Erase(r, t) \/ \E k \in Confs : Add(r, t, k) \/ Update(r, t, k)
      PROVE  UNCHANGED <<up, held>>
  BY <1>2 DEF Remove, Erase, Add, Update
<1>3. ASSUME NEW d \in Conns, SessionStep(d)
      PROVE  (up'[c] = up[c] /\ held'[c] = held[c]) \/ TakeReport(c) \/ StoreReport(c)
  <2>1. CASE TakeReport(d) \/ StoreReport(d)
    BY <1>0, <2>1 DEF TakeReport, StoreReport, Links, Sessions
  <2>2. CASE ~(TakeReport(d) \/ StoreReport(d))
    <3>1. UNCHANGED <<up, held>>
      BY <1>3, <2>2 DEF SessionStep, Bind, Answer, Ack, ReadFails, Unbind, Clear, Closed
    <3> QED BY <3>1
  <2> QED BY <2>1, <2>2
<1>4. ASSUME NEW d \in Conns, ClientStep(d) \/ Dial(d) \/ Cut(d)
      PROVE  (up'[c] = up[c] /\ held'[c] = held[c]) \/ LoggedIn(c) \/ UpdateTunnel(c) \/ Dial(c)
  <2>1. held' = held
    BY <1>4 DEF ClientStep, LoggedIn, UpdateTunnel, LoginFails, ConnectionLost, Leave, Dial, Cut
  <2>2. CASE LoggedIn(d)
    <3>1. PICK x : up' = [up EXCEPT ![d] = x]
      BY <2>2 DEF LoggedIn
    <3> QED BY <1>0, <2>1, <2>2, <3>1 DEF Links
  <2>3. CASE UpdateTunnel(d)
    <3>1. PICK x : up' = [up EXCEPT ![d] = x]
      BY <2>3 DEF UpdateTunnel
    <3> QED BY <1>0, <2>1, <2>3, <3>1 DEF Links
  <2>4. CASE Dial(d)
    BY <1>0, <2>1, <2>4 DEF Dial, Links
  <2>5. CASE LoginFails(d) \/ ConnectionLost(d) \/ Cut(d)
    BY <2>1, <2>5 DEF LoginFails, ConnectionLost, Leave, Cut
  <2> QED BY <1>4, <2>2, <2>3, <2>4, <2>5 DEF ClientStep
<1>5. UNCHANGED vars => UNCHANGED <<up, held>>
  BY DEF vars
<1> QED BY <1>1, <1>2, <1>3, <1>4, <1>5, StepCases


\* What the reports in a queue say, as it moves
LEMMA SaysKept ==
    ASSUME NEW c \in Conns, NEW t \in Tunnels, NEW s, Says(c, t, s),
           up'[c] = up[c], held'[c] = held[c], record'[t] = record[t]
    PROVE  Says(c, t, s)'
BY DEF Says

LEMMA SaysTaken ==
    ASSUME Typed, NEW c \in Conns, NEW t \in Tunnels, NEW s, Says(c, t, s), TakeReport(c),
           conf[t] # None, conf[t].receiver = Owner[c]
    PROVE  Says(c, t, s)'
<1>0. Links /\ Sessions
  BY DEF Typed, ServerSide
<1>a. PICK a \in Seq(Reports) : a = up[c] /\ a # <<>>
  BY <1>0 DEF TakeReport, Links
<1>1. /\ Head(a) = a[1] /\ Head(a) \in Reports /\ Tail(a) \in Seq(Reports) /\ Len(Tail(a)) = Len(a) - 1
      /\ Len(a) \in Nat \ {0} /\ \A j \in 1 .. Len(Tail(a)) : Tail(a)[j] = a[j + 1]
  BY <1>a
<1>b. PICK b : b = Tail(a)
  OBVIOUS
<1>r. PICK r \in Reports : r = a[1]
  BY <1>1
<1>2. /\ up'[c] = b /\ held[c] = None /\ record' = record
      /\ held'[c] = IF conf[r.tunnel] # None /\ conf[r.tunnel].receiver = Owner[c] THEN r ELSE None
  BY <1>0, <1>1, <1>a, <1>b, <1>r DEF TakeReport, Links, Sessions
<1>3. /\ Len(b) = Len(a) - 1 /\ \A j \in 1 .. Len(b) : b[j] = a[j + 1] /\ j + 1 \in 1 .. Len(a)
      /\ \A j \in 2 .. Len(a) : j - 1 \in 1 .. Len(b) /\ a[j] = b[j - 1]
  BY <1>1, <1>b
<1>4. /\ \A j \in 1 .. Len(a) : a[j].tunnel = t /\ (\A l \in (j + 1) .. Len(a) : a[l].tunnel # t) => a[j].state = s
      /\ (\A j \in 1 .. Len(a) : a[j].tunnel # t) => s = record[t]
  BY <1>2, <1>a DEF Says
<1>5. ASSUME NEW j \in 1 .. Len(b), b[j].tunnel = t, \A l \in (j + 1) .. Len(b) : b[l].tunnel # t PROVE b[j].state = s
  <2>1. ASSUME NEW l \in (j + 2) .. Len(a) PROVE a[l].tunnel # t
    <3>1. l \in 2 .. Len(a) /\ l - 1 \in (j + 1) .. Len(b)
      BY <1>1, <1>3
    <3> QED BY <1>3, <1>5, <3>1
  <2>2. j + 1 \in 1 .. Len(a) /\ b[j] = a[j + 1] /\ (j + 1) + 1 = j + 2
    BY <1>3
  <2> QED BY <1>4, <1>5, <2>1, <2>2
<1>6. ASSUME \A j \in 1 .. Len(b) : b[j].tunnel # t
      PROVE  s = IF held'[c] # None /\ held'[c].tunnel = t THEN held'[c].state ELSE record'[t]
  <2>1. \A j \in 2 .. Len(a) : a[j].tunnel # t
    BY <1>3, <1>6
  <2>2. CASE r.tunnel = t
    <3>1. held'[c] = r /\ r # None
      <4>1. r # None
        BY ControlAssumption DEF Reports
      <4> QED BY <1>2, <2>2, <4>1
    <3>2. a[1].state = s
      BY <1>1, <1>4, <1>r, <2>1, <2>2
    <3> QED BY <1>r, <2>2, <3>1, <3>2
  <2>3. CASE r.tunnel # t
    <3>1. \A j \in 1 .. Len(a) : a[j].tunnel # t
      BY <1>1, <1>r, <2>1, <2>3
    <3> QED BY <1>2, <1>4, <2>3, <3>1
  <2> QED BY <2>2, <2>3
<1> QED BY <1>2, <1>5, <1>6 DEF Says

LEMMA SaysStored ==
    ASSUME Typed, NEW c \in Conns, NEW t \in Tunnels, NEW s, Says(c, t, s), StoreReport(c)
    PROVE  Says(c, t, s)'
<1>0. Tables /\ Sessions
  BY DEF Typed, ServerSide
<1>1. /\ held[c] # None /\ held'[c] = None /\ up' = up
      /\ record'[t] = IF held[c].tunnel = t THEN held[c].state ELSE record[t]
  BY <1>0 DEF StoreReport, Tables, Sessions, linkVars
<1> QED BY <1>1 DEF Says

LEMMA SaysMore ==
    ASSUME NEW c \in Conns, NEW t \in Tunnels, NEW s, NEW a \in Seq(Reports), NEW b \in Seq(Reports),
           up[c] = a, up'[c] = a \o b, held'[c] = held[c], record'[t] = record[t],
           \/ Says(c, t, s) /\ \A i \in 1 .. Len(b) : b[i].tunnel # t
           \/ /\ \E i \in 1 .. Len(b) : b[i].tunnel = t
              /\ \A i \in 1 .. Len(b) : b[i].tunnel = t /\ (\A l \in (i + 1) .. Len(b) : b[l].tunnel # t) => b[i].state = s
    PROVE  Says(c, t, s)'
<1>z. PICK z : z = a \o b
  OBVIOUS
<1>1. /\ Len(a) \in Nat /\ Len(b) \in Nat /\ Len(z) = Len(a) + Len(b)
      /\ \A i \in 1 .. Len(a) : z[i] = a[i] /\ i \in 1 .. Len(z)
      /\ \A i \in 1 .. Len(b) : z[Len(a) + i] = b[i] /\ Len(a) + i \in 1 .. Len(z)
      /\ \A i \in 1 .. Len(z) : i \in 1 .. Len(a) \/ i - Len(a) \in 1 .. Len(b)
  BY <1>z
<1>2. CASE Says(c, t, s) /\ \A i \in 1 .. Len(b) : b[i].tunnel # t
  <2>1. ASSUME NEW j \in 1 .. Len(z), z[j].tunnel = t, \A l \in (j + 1) .. Len(z) : z[l].tunnel # t PROVE z[j].state = s
    <3>1. j \in 1 .. Len(a)
      <4>1. CASE j - Len(a) \in 1 .. Len(b)
        <5>1. z[Len(a) + (j - Len(a))] = b[j - Len(a)] /\ Len(a) + (j - Len(a)) = j
          BY <1>1, <4>1
        <5> QED BY <1>2, <2>1, <4>1, <5>1
      <4> QED BY <1>1, <4>1
    <3>2. \A l \in (j + 1) .. Len(a) : a[l].tunnel # t
      <4>1. \A l \in (j + 1) .. Len(a) : l \in (j + 1) .. Len(z) /\ l \in 1 .. Len(a)
        BY <1>1, <3>1
      <4> QED BY <1>1, <2>1, <4>1
    <3> QED BY <1>1, <1>2, <2>1, <3>1, <3>2 DEF Says
  <2>2. ASSUME \A j \in 1 .. Len(z) : z[j].tunnel # t PROVE \A j \in 1 .. Len(a) : a[j].tunnel # t
    BY <1>1, <2>2
  <2> QED BY <1>2, <1>z, <2>1, <2>2 DEF Says
<1>3. ASSUME NEW i \in 1 .. Len(b), b[i].tunnel = t,
             \A n \in 1 .. Len(b) : b[n].tunnel = t /\ (\A l \in (n + 1) .. Len(b) : b[l].tunnel # t) => b[n].state = s
      PROVE  Says(c, t, s)'
  <2>1. ASSUME NEW j \in 1 .. Len(z), z[j].tunnel = t, \A l \in (j + 1) .. Len(z) : z[l].tunnel # t PROVE z[j].state = s
    <3>1. PICK n : n = j - Len(a)
      OBVIOUS
    <3>2. n \in 1 .. Len(b) /\ j = Len(a) + n
      <4>1. CASE j \in 1 .. Len(a)
        <5>1. Len(a) + i \in (j + 1) .. Len(z) /\ z[Len(a) + i] = b[i]
          BY <1>1, <4>1
        <5> QED BY <1>3, <2>1, <5>1
      <4> QED BY <1>1, <3>1, <4>1
    <3>3. ASSUME NEW l \in (n + 1) .. Len(b) PROVE b[l].tunnel # t
      <4>1. Len(a) + l \in (j + 1) .. Len(z) /\ l \in 1 .. Len(b)
        BY <1>1, <3>2
      <4>2. z[Len(a) + l] = b[l]
        BY <1>1, <4>1
      <4> QED BY <2>1, <4>1, <4>2
    <3>4. z[j] = b[n]
      BY <1>1, <3>2
    <3> QED BY <1>3, <2>1, <3>2, <3>3, <3>4
  <2>2. Len(a) + i \in 1 .. Len(z) /\ z[Len(a) + i].tunnel = t
    BY <1>1, <1>3
  <2>3. up'[c] = z /\ ~(\A j \in 1 .. Len(z) : z[j].tunnel # t)
    BY <1>z, <2>2
  <2> QED BY <2>1, <2>3 DEF Says
<1> QED BY <1>2, <1>3


\* A client that has logged in says of each inlet it should run whether it does.
LEMMA LoggedInSays ==
    ASSUME Typed, NEW c \in Conns, LoggedIn(c), link[c] = "up", NEW t \in Tunnels, RunsInlet(c, mgr'[c].tunnels[t]),
           NEW s, s = Outcome(c, t)'
    PROVE  Says(c, t, s)'
<1> DEFINE list == Head(down[c]).ack
           Runs(u) == RunsInlet(c, list[u]) /\ AddressFree(c, list[u], listening)
           said == {Report(u, IF Runs(u) THEN "up" ELSE "failed") : u \in {x \in Tunnels : RunsInlet(c, list[x])}}
<1>0. c \in Hosts /\ mgr \in [Hosts -> Managers] /\ Links
  BY HostFacts DEF Typed, Hosted
<1>1. mgr' = [mgr EXCEPT ![c] =
         [tunnels |-> list,
          inlets  |-> [u \in Tunnels |-> IF Runs(u) THEN list[u] ELSE None],
          outlets |-> [u \in Tunnels |-> IF RunsOutlet(c, list[u]) THEN list[u] ELSE None]]]
  BY DEF LoggedIn
<1>2. up' = [up EXCEPT ![c] = up[c] \o Listed(said)] /\ UNCHANGED <<held, record>>
  BY DEF LoggedIn, Reported, serverVars
<1>3. IsFiniteSet(said)
  <2> DEFINE S == {u \in Tunnels : RunsInlet(c, list[u])}
             f == [u \in S |-> Report(u, IF Runs(u) THEN "up" ELSE "failed")]
  <2>1. f \in Surjection(S, said)
    BY DEF Surjection
  <2>2. IsFiniteSet(S)
    BY ControlAssumption, FS_Subset
  <2> HIDE DEF f, S, said
  <2> QED BY <2>1, <2>2, FS_Surjection
<1>4. PICK run \in BOOLEAN : run = Runs(t)
  BY DEF AddressFree, RunsInlet
<1>5. s = IF run THEN "up" ELSE "failed"
  <2>1. mgr'[c].inlets[t] = IF run THEN list[t] ELSE None
    BY <1>0, <1>1, <1>4
  <2>2. run => list[t] # None
    BY <1>4 DEF RunsInlet
  <2> HIDE DEF list
  <2> QED BY <2>1, <2>2 DEF Outcome
<1>6. /\ said \subseteq Reports /\ Report(t, s) \in said /\ Report(t, s).tunnel = t
      /\ \A r \in said : r.tunnel = t => r.state = s
  <2>1. RunsInlet(c, list[t])
    <3>1. mgr'[c].tunnels = list
      BY <1>0, <1>1
    <3> HIDE DEF list
    <3>2. RunsInlet(c, list[t]) <=> RunsInlet(c, mgr'[c].tunnels[t])
      BY <3>1
    <3> QED BY <3>2
  <2>2. Report(t, s) \in said
    BY <1>4, <1>5, <2>1
  <2>3. said \subseteq Reports
    BY DEF Report, Reports, States
  <2>4. ASSUME NEW u \in Tunnels, Report(u, IF Runs(u) THEN "up" ELSE "failed").tunnel = t
        PROVE  Report(u, IF Runs(u) THEN "up" ELSE "failed").state = s
    <3>1. u = t
      BY <2>4 DEF Report
    <3> QED BY <1>4, <1>5, <3>1 DEF Report
  <2>5. \A r \in said : r.tunnel = t => r.state = s
    BY <2>4
  <2> QED BY <2>2, <2>3, <2>5 DEF Report
<1> HIDE DEF said
<1>b. PICK b : b = Listed(said)
  OBVIOUS
<1>8. /\ b \in Seq(Reports) /\ \A i \in 1 .. Len(b) : b[i] \in said
      /\ \E i \in 1 .. Len(b) : b[i] = Report(t, s)
  <2>1. b \in Seq(said)
    BY <1>3, <1>b, ListedTypes
  <2> QED BY <1>3, <1>6, <1>b, <2>1, ListedAll
<1>a. PICK a \in Seq(Reports) : a = up[c]
  BY <1>0 DEF Links
<1>9. up'[c] = a \o b
  BY <1>0, <1>2, <1>a, <1>b DEF Links
<1>10. /\ \E i \in 1 .. Len(b) : b[i].tunnel = t
       /\ \A i \in 1 .. Len(b) : b[i].tunnel = t /\ (\A l \in (i + 1) .. Len(b) : b[l].tunnel # t) => b[i].state = s
  BY <1>6, <1>8
<1> QED BY <1>2, <1>8, <1>9, <1>10, <1>a, SaysMore

\* One that handles a message says of its tunnel what has become of it.
LEMMA UpdateSays ==
    ASSUME Typed, Fits, NEW c \in Conns, UpdateTunnel(c), link[c] = "up", NEW t \in Tunnels,
           RunsInlet(c, mgr'[c].tunnels[t]),
           (\A n \in 1 .. Len(down[c]) : down[c][n].tunnel # t) /\ RunsInlet(c, mgr[c].tunnels[t]) =>
               Says(c, t, Outcome(c, t)),
           \A n \in 1 .. Len(down'[c]) : down'[c][n].tunnel # t,
           NEW s, s = Outcome(c, t)'
    PROVE  Says(c, t, s)'
<1>0. c \in Hosts /\ mgr \in [Hosts -> Managers] /\ Links
  BY HostFacts DEF Typed, Hosted
<1>1. PICK u \in Tunnels, k \in Tunnel, told \in Seq(Reports) :
             /\ down[c] # <<>> /\ ~IsAck(Head(down[c])) /\ Head(down[c]).tunnel = u /\ Head(down[c]).conf = k
             /\ client[c] = "in" /\ down' = [down EXCEPT ![c] = Tail(@)]
             /\ mgr'[c].tunnels = [mgr[c].tunnels EXCEPT ![u] = k]
             /\ \A x \in Tunnels \ {u} : mgr'[c].inlets[x] = mgr[c].inlets[x]
             /\ Opened(c) => Opened(c)'
             /\ \A l \in listening : l.host # c => l \in listening'
             /\ up' = [up EXCEPT ![c] = Reported(c, told)]
             /\ \A i \in 1 .. Len(told) : told[i].tunnel = u
             /\ RunsInlet(c, k) => /\ told # <<>>
                                   /\ told[Len(told)].state = IF mgr'[c].inlets[u] # None THEN "up" ELSE "failed"
  BY UpdateOpens
<1>a. PICK a \in Seq(Reports) : a = up[c]
  BY <1>0 DEF Links
<1>2. up'[c] = a \o told /\ UNCHANGED <<held, record>>
  BY <1>0, <1>1, <1>a DEF Links, Reported, UpdateTunnel, serverVars
<1>v. PICK view : view = mgr'[c].tunnels
  OBVIOUS
<1>3. mgr[c].tunnels \in [Tunnels -> Tunnel] /\ view = [mgr[c].tunnels EXCEPT ![u] = k] /\ RunsInlet(c, view[t])
  <2>1. RunsInlet(c, mgr'[c].tunnels[t]) <=> RunsInlet(c, view[t])
    BY <1>v
  <2> QED BY <1>0, <1>1, <1>v, <2>1 DEF Managers
<1>4. CASE u = t
  <2>1. RunsInlet(c, k)
    BY <1>3, <1>4
  <2>2. told # <<>> /\ told[Len(told)].state = s
    BY <1>1, <1>4, <2>1 DEF Outcome
  <2>3. Len(told) \in Nat \ {0}
    BY <2>2
  <2>4. /\ \E i \in 1 .. Len(told) : told[i].tunnel = t
        /\ \A i \in 1 .. Len(told) : told[i].tunnel = t /\ (\A l \in (i + 1) .. Len(told) : told[l].tunnel # t) => told[i].state = s
    BY <1>1, <1>4, <2>2, <2>3
  <2> QED BY <1>2, <1>a, <2>4, SaysMore
<1>5. CASE u # t
  <2>1. RunsInlet(c, mgr[c].tunnels[t])
    BY <1>3, <1>5
  <2>2. down[c] \in Seq(Pushes) /\ down'[c] = Tail(down[c])
    BY <1>0, <1>1 DEF Links
  <2>d. PICK d \in Seq(Pushes) : d = down[c] /\ d # <<>>
    BY <1>1, <2>2
  <2>t. Tail(d) \in Seq(Pushes)
    BY <2>d
  <2>e. PICK e \in Seq(Pushes) : e = Tail(d)
    BY <2>t
  <2>3. /\ Len(d) \in Nat /\ d[1] = Head(d)
        /\ \A n \in 2 .. Len(d) : n - 1 \in 1 .. Len(e) /\ d[n] = e[n - 1]
    BY <2>d, <2>e
  <2>4. \A n \in 1 .. Len(e) : e[n].tunnel # t
    BY <2>2, <2>d, <2>e
  <2>5. \A n \in 1 .. Len(down[c]) : down[c][n].tunnel # t
    <3>1. d[1].tunnel # t
      BY <1>1, <1>5, <2>3, <2>d
    <3>2. \A n \in 1 .. Len(d) : n = 1 \/ n \in 2 .. Len(d)
      BY <2>3
    <3>3. \A n \in 1 .. Len(d) : d[n].tunnel # t
      BY <2>3, <2>4, <3>1, <3>2
    <3> QED BY <2>d, <3>3
  <2>6. Says(c, t, Outcome(c, t))
    BY <2>1, <2>5
  <2>7. Outcome(c, t) = s
    BY <1>1, <1>5 DEF Outcome
  <2>8. Says(c, t, s)
    BY <2>6, <2>7
  <2>9. \A i \in 1 .. Len(told) : told[i].tunnel # t
    BY <1>1, <1>5
  <2> QED BY <1>2, <1>a, <2>8, <2>9, SaysMore
<1> QED BY <1>4, <1>5


\* What is told to others, and done on the server, is no business of a client
\* that has been told.
LEMMA TellSays ==
    ASSUME Typed, Fits, JobsOk, HandsOk, SocketsInHand, MovesAway, NEW w \in Tellers, TellStep(w),
           NEW c \in Conns, NEW t \in Tunnels, Informed(c, t)'
    PROVE  /\ Informed(c, t) /\ record'[t] = record[t] /\ up'[c] = up[c] /\ held'[c] = held[c]
           /\ mgr'[c] = mgr[c] /\ closer' = closer
<1>p. PICK p : p = Owner[c]
  OBVIOUS
<1>j. PICK j : j = Head(tell[w].jobs)
  OBVIOUS
<1>0. /\ Tables /\ Links /\ Hosted /\ Works /\ HandOk(w) /\ p \in Players /\ p # Server /\ c # Server /\ c # None
      /\ c \in Hosts /\ Server \in Hosts /\ Self(Server) = Server /\ FitsIn(Server, mgr[Server])
  BY <1>p, HostFacts, FitsByHost DEF Typed, ServerSide, HandsOk, Self
<1> USE DEF serverVars, linkVars
<1>1. UNCHANGED <<conf, bound, reader, closer, client, link, up, held>>
  BY DEF TellStep, MakeUpdate, Push, Apply, Stop, Start, Install, Reaffirm
<1>2. mgr'[c] = mgr[c]
  <2>1. CASE Apply(w) \/ Start(w) \/ Install(w)
    BY <1>0, <2>1 DEF Apply, Start, Install, Hosted
  <2>2. CASE MakeUpdate(w) \/ Push(w) \/ Stop(w) \/ Reaffirm(w)
    BY <2>2 DEF MakeUpdate, Push, Stop, Reaffirm
  <2> QED BY <2>1, <2>2 DEF TellStep
<1>3. /\ bound[p] = c /\ closer[c] = "no" /\ link[c] = "up" /\ client[c] = "in"
      /\ conf[t] # None /\ conf[t].receiver = p /\ ~Pending(t, p)' /\ RunsInlet(c, mgr[c].tunnels[t])
      /\ \A n \in 1 .. Len(down'[c]) : down'[c][n].tunnel # t
  BY <1>1, <1>2, <1>p DEF Informed, Live, RunsInlet, Self
<1>4. Live(c)
  BY <1>3, <1>p DEF Live, Doomed
<1>d. PICK d \in Seq(Pushes) : d = down[c]
  BY <1>0 DEF Links
<1>5. down'[c] = d \/ \E m : down'[c] = Append(d, m)
  <2>1. CASE Push(w)
    BY <1>0, <1>d, <2>1 DEF Push, Links
  <2>2. CASE ~Push(w)
    BY <1>d, <2>2 DEF TellStep, MakeUpdate, Apply, Stop, Start, Install, Reaffirm
  <2> QED BY <2>1, <2>2
<1>6. \A n \in 1 .. Len(d) : d[n].tunnel # t
  BY <1>3, <1>5
<1>7. ASSUME Pending(t, p) PROVE FALSE
  <2>1. t = j.tunnel /\ p = j.to /\ Finishes(w)
    BY <1>3, <1>7, <1>j, TellPending
  <2>2. Push(w)
    BY <1>0, <1>j, <2>1 DEF Finishes, Stop, Reaffirm, HandOk, Applying
  <2>3. PICK m : m = [tunnel |-> j.tunnel, conf |-> IF j.del THEN None ELSE tell[w].sends]
    OBVIOUS
  <2>4. down' = [down EXCEPT ![c] = Append(down[c], m)]
    BY <1>0, <1>3, <1>j, <2>1, <2>2, <2>3 DEF Push
  <2>5. down'[c] = Append(d, m) /\ m.tunnel = t
    BY <1>0, <1>d, <2>1, <2>3, <2>4 DEF Links
  <2>6. Len(d) \in Nat /\ Len(Append(d, m)) = Len(d) + 1 /\ Append(d, m)[Len(d) + 1] = m
    OBVIOUS
  <2>7. Len(d) + 1 \in 1 .. Len(down'[c])
    BY <2>5, <2>6
  <2> QED BY <1>3, <2>5, <2>6, <2>7
<1>8. Informed(c, t)
  BY <1>3, <1>4, <1>6, <1>7, <1>d, <1>p DEF Informed
<1>9. ASSUME record'[t] # record[t] PROVE FALSE
  <2>s. PICK s : s = tell[w].sends
    OBVIOUS
  <2>1. ASSUME Current(j, s), s.receiver = Server, j.tunnel = t PROVE FALSE
    BY <1>0, <1>3, <2>1 DEF Current, SameBut
  <2>2. CASE MakeUpdate(w) \/ Push(w) \/ Apply(w)
    BY <1>9, <2>2 DEF MakeUpdate, Push, Apply
  <2>3. CASE Stop(w)
    <3>1. tell[w].at = "stop" /\ tell[w].inHand # None /\ j.tunnel = t
      BY <1>0, <1>9, <1>j, <2>3 DEF Stop, Tables
    <3>2. Pending(t, p)
      BY <1>0, <1>3, <1>j, <3>1 DEF MovesAway
    <3> QED BY <1>7, <3>2
  <2>4. CASE Start(w)
    <3>1. tell[w].at = "start" /\ j.tunnel = t /\ RunsInlet(Server, s)
      BY <1>0, <1>9, <1>j, <2>4, <2>s DEF Start, MayInlet, Tables
    <3>2. Current(j, s)
      BY <1>0, <1>j, <2>s, <3>1 DEF HandOk, Applying
    <3> QED BY <1>0, <2>1, <3>1, <3>2 DEF RunsInlet
  <2>5. CASE Install(w)
    <3>1. tell[w].at = "install" /\ j.tunnel = t
      BY <1>0, <1>9, <1>j, <2>5 DEF Install, Tables
    <3>2. Current(j, s)
      BY <1>0, <1>j, <2>s, <3>1 DEF HandOk, Applying
    <3>3. RunsInlet(Server, s)
      BY <2>s, <3>1 DEF SocketsInHand
    <3> QED BY <1>0, <2>1, <3>1, <3>2, <3>3 DEF RunsInlet
  <2>6. CASE Reaffirm(w)
    <3>m. PICK m : m = mgr[Server]
      OBVIOUS
    <3>1. tell[w].at = "reaffirm" /\ j.tunnel = t /\ m.inlets[t] # None
      BY <1>0, <1>9, <1>j, <2>6, <3>m DEF Reaffirm, Reaffirmed, Tables
    <3>2. Current(j, s) /\ m.tunnels[t] = s
      BY <1>0, <1>j, <2>s, <3>1, <3>m DEF HandOk, Applying
    <3>3. RunsInlet(Server, s)
      BY <1>0, <3>1, <3>2, <3>m DEF FitsIn
    <3> QED BY <1>0, <2>1, <3>1, <3>2, <3>3 DEF RunsInlet
  <2> QED BY <2>2, <2>3, <2>4, <2>5, <2>6 DEF TellStep
<1> QED BY <1>1, <1>2, <1>8, <1>9


\* A client's reports reach the records, and only a session that trails behind
\* another can spoil that.
LEMMA OthersSay ==
    ASSUME Typed, SessionsOk, Solo, EraseOk, FreshFree, HeldRight, HeldOk, ClientsRecorded,
           [Next]_vars, ~mixed', ~Restart, \A w \in Tellers : ~TellStep(w),
           NEW c \in Conns, NEW t \in Tunnels, Live(c), client[c] = "in", Kept(c), Informed(c, t)', ~Trailing(c),
           NEW s, s = Outcome(c, t)'
    PROVE  Says(c, t, s)'
<1>0. Tables /\ Sessions /\ Links
  BY DEF Typed, ServerSide
<1>p. PICK p : p = Owner[c]
  OBVIOUS
<1>1. /\ conf'[t] # None /\ conf'[t].receiver = p /\ ~Pending(t, p)' /\ client'[c] = "in"
      /\ \A n \in 1 .. Len(down[c]) : down[c][n].tunnel # t
      /\ RunsInlet(c, mgr[c].tunnels[t]) /\ s = Outcome(c, t)
  BY <1>p DEF Informed, Kept, RunsInlet, Self, Outcome
<1>2. /\ Pending(t, p) => Pending(t, p)'
      /\ ~Pending(t, p)' =>
           /\ conf'[t] = conf[t]
           /\ \/ record'[t] = record[t]
              \/ \E d \in Conns : Owner[d] = p /\ StoreReport(d) /\ held[d].tunnel = t
              \/ \E d \in Conns : Owner[d] = p /\ Clear(d)
  BY <1>1, RecordStays
<1>3. ~Pending(t, p) /\ conf[t] # None /\ conf[t].receiver = p
  BY <1>1, <1>2
<1>4. Says(c, t, s)
  <2>1. Informed(c, t)
    BY <1>1, <1>3, <1>p DEF Informed
  <2> QED BY <1>1, <2>1 DEF ClientsRecorded
<1>5. CASE record'[t] = record[t]
  <2>1. CASE up'[c] = up[c] /\ held'[c] = held[c]
    BY <1>4, <1>5, <2>1, SaysKept
  <2>2. CASE TakeReport(c)
    BY <1>3, <1>4, <1>p, <2>2, SaysTaken
  <2>3. CASE StoreReport(c)
    BY <1>4, <2>3, SaysStored
  <2>4. ~LoggedIn(c)
    BY DEF LoggedIn
  <2>5. ~UpdateTunnel(c)
    <3>1. ASSUME UpdateTunnel(c) PROVE FALSE
      <4>1. PICK d \in Seq(Pushes) : d = down[c] /\ d # <<>>
        BY <1>0, <3>1 DEF UpdateTunnel, Links
      <4>2. down'[c] = Tail(d) /\ down'[c] = d
        BY <1>0, <3>1, <4>1 DEF UpdateTunnel, Links, Kept
      <4>3. Len(Tail(d)) = Len(d) - 1 /\ Len(d) \in Nat
        BY <4>1
      <4> QED BY <4>2, <4>3
    <3> QED BY <3>1
  <2>6. ~Dial(c)
    BY <1>0, <1>1 DEF Dial, Links
  <2> QED BY <2>1, <2>2, <2>3, <2>4, <2>5, <2>6, ReportSteps
<1>6. ASSUME NEW d \in Conns, Owner[d] = p, StoreReport(d), held[d].tunnel = t PROVE Says(c, t, s)'
  <2>1. CASE d = c
    BY <1>4, <1>6, <2>1, SaysStored
  <2>2. CASE d # c
    <3>1. held[d] # None /\ reader[d] = "read" /\ closer[d] \in {"no", "unbind", "clear", "tell", "done"}
      BY <1>0, <1>6 DEF StoreReport, HeldRight, Sessions
    <3>2. closer[d] # "no"
      BY <1>6, <1>p, <2>2, <3>1 DEF SessionsOk, Live
    <3>3. closer[d] \notin {"unbind", "clear"}
      BY <1>6, <1>p, <2>2 DEF Trailing
    <3>4. closer[d] \notin {"tell", "done"}
      BY <1>3, <1>6, <3>1 DEF HeldOk
    <3> QED BY <3>1, <3>2, <3>3, <3>4
  <2> QED BY <2>1, <2>2
<1>7. ASSUME NEW d \in Conns, Owner[d] = p, Clear(d) PROVE FALSE
  <2>1. closer[d] = "clear" /\ closer[c] = "no"
    BY <1>7 DEF Clear, Live
  <2> QED BY <1>7, <1>p, <2>1 DEF Trailing
<1> QED BY <1>1, <1>2, <1>5, <1>6, <1>7

LEMMA ClientsRecordedStep ==
    ASSUME Typed, Fits, SessionsOk, Solo, JobsOk, EraseOk, HandsOk, FreshFree, HeldRight, HeldOk, SocketsInHand,
           MovesAway, ClientsRecorded, [Next]_vars, ~mixed', ~Restart, Acks', Links'
    PROVE  ClientsRecorded'
<1> SUFFICES ASSUME NEW c \in Conns, NEW t \in Tunnels, Informed(c, t)', ~Trailing(c)', NEW s, s = Outcome(c, t)'
             PROVE  Says(c, t, s)'
  BY DEF ClientsRecorded
<1>1. Live(c)' /\ client'[c] = "in" /\ (client[c] = "in" \/ LoggedIn(c))
  BY ClientComes DEF Informed
<1>2. reader'[c] \notin {"hello", "bound", "tell"}
  BY <1>1 DEF Acks
<1>3. /\ Live(c)
      /\ Kept(c) \/ Answer(c) \/ Ack(c) \/ LoggedIn(c) \/ UpdateTunnel(c) \/ \E w \in Tellers : PushTo(w, c)
  BY <1>1, <1>2, LiveStep
<1>4. ~Trailing(c)
  BY <1>1, <1>3, TrailingStays
<1>5. link[c] = "up"
  BY <1>3 DEF Live
<1>6. RunsInlet(c, mgr'[c].tunnels[t])
  BY DEF Informed, RunsInlet, Self
<1>7. CASE LoggedIn(c)
  BY <1>5, <1>6, <1>7, LoggedInSays
<1>8. CASE UpdateTunnel(c)
  <2>1. /\ client[c] = "in" /\ UNCHANGED <<conf, tell>>
    BY <1>8 DEF UpdateTunnel, serverVars
  <2>2. conf[t] # None /\ conf[t].receiver = Owner[c] /\ ~Pending(t, Owner[c])
    BY <2>1 DEF Informed, Pending, Owes
  <2>3. (\A n \in 1 .. Len(down[c]) : down[c][n].tunnel # t) /\ RunsInlet(c, mgr[c].tunnels[t]) =>
            Says(c, t, Outcome(c, t))
    BY <1>3, <1>4, <2>1, <2>2 DEF Informed, ClientsRecorded
  <2>4. \A n \in 1 .. Len(down'[c]) : down'[c][n].tunnel # t
    BY DEF Informed
  <2> QED BY <1>5, <1>6, <1>8, <2>3, <2>4, UpdateSays
<1>9. ASSUME NEW w \in Tellers, TellStep(w) PROVE Says(c, t, s)'
  <2>1. /\ Informed(c, t) /\ record'[t] = record[t] /\ up'[c] = up[c] /\ held'[c] = held[c]
        /\ mgr'[c] = mgr[c] /\ closer' = closer
    BY <1>9, TellSays
  <2>2. Says(c, t, Outcome(c, t))
    BY <1>4, <2>1 DEF ClientsRecorded
  <2>3. Outcome(c, t) = s
    BY <2>1 DEF Outcome
  <2>4. Says(c, t, s)
    BY <2>2, <2>3
  <2> QED BY <2>1, <2>4, SaysKept
<1>10. CASE client[c] = "in" /\ ~UpdateTunnel(c) /\ \A w \in Tellers : ~TellStep(w)
  <2>1. ~Answer(c) /\ ~Ack(c) /\ ~LoggedIn(c)
    BY <1>10 DEF Answer, Ack, LoggedIn, Typed, Acks
  <2>2. Kept(c)
    BY <1>3, <1>10, <2>1 DEF PushTo, TellStep
  <2> QED BY <1>3, <1>4, <1>10, <2>2, OthersSay
<1> QED BY <1>1, <1>7, <1>8, <1>9, <1>10


-----------------------------------------------------------------------------
\* What the web page shows

LEMMA RecordStep == IInv /\ NotifyInv /\ RecordInv /\ [Next]_vars => RecordInv'
<1> SUFFICES ASSUME IInv, NotifyInv, RecordInv, [Next]_vars PROVE RecordInv'
  OBVIOUS
<1>1. /\ Typed /\ Fits /\ SessionsOk /\ FreshFree /\ ReportsPlain /\ HeldRight /\ \A c \in Conns : Opened(c)
  BY DEF IInv, NotifyInv, Plain, RecordInv, ReportsPlain
<1>2. Acks' /\ Links'
  BY StepHolds DEF IInv, Typed
<1>3. ReportsPlain'
  BY <1>1, HeldRightStep, ClientsOpenStep DEF ReportsPlain
<1>4. ASSUME Restart PROVE ReportsTrue'
  BY <1>1, <1>4, RestartRecorded DEF ReportsTrue
<1>5. ASSUME ~mixed', ~Restart PROVE ReportsTrue'
  <2>1. ~mixed
    BY <1>1, <1>5, MixedStays
  <2>2. Solo /\ ClientsTold /\ ServerTold /\ JobsOk /\ EraseOk /\ HandsOk
    BY <2>1 DEF NotifyInv, AllTold
  <2>3. /\ HeldOk /\ Opened(Server) /\ SocketsInHand /\ MovesAway /\ ReceiverLast /\ FailureKept
        /\ ServerRecorded /\ ClientsRecorded
    BY <2>1 DEF RecordInv, ReportsTrue
  <2>4. HeldOk' /\ ReceiverLast'
    BY <1>1, <1>5, <2>2, <2>3, HeldOkStep, ReceiverLastStep
  <2>5. ClientsRecorded'
    BY <1>1, <1>2, <1>5, <2>2, <2>3, ClientsRecordedStep
  <2>6. Opened(Server)' /\ SocketsInHand' /\ MovesAway' /\ FailureKept' /\ ServerRecorded'
    <3>1. ASSUME NEW w \in Tellers, TellStep(w)
          PROVE  Opened(Server)' /\ SocketsInHand' /\ MovesAway' /\ FailureKept' /\ ServerRecorded'
      BY <1>1, <2>2, <2>3, <3>1, TellRecorded
    <3>2. CASE \A w \in Tellers : ~TellStep(w)
      BY <1>1, <1>5, <2>2, <2>3, <3>2, OthersRecorded
    <3> QED BY <3>1, <3>2
  <2> QED BY <2>4, <2>5, <2>6 DEF ReportsTrue
<1> QED BY <1>3, <1>4, <1>5 DEF RecordInv

LEMMA RecordInit == Init => RecordInv
<1> SUFFICES ASSUME Init PROVE RecordInv
  OBVIOUS
<1>1. /\ \A w \in Tellers : tell[w] = Idle
      /\ \A t \in Tunnels : conf[t] = None
      /\ \A p \in Players : bound[p] = None
      /\ \A h \in Hosts : mgr[h] = NewManager
      /\ \A c \in Conns : held[c] = None
  BY DEF Init, NoneFor
<1>2. \A h \in Hosts, t \in Tunnels : mgr[h].tunnels[t] = None /\ mgr[h].inlets[t] = None
  BY <1>1 DEF NewManager
<1>3. Idle.at = "next" /\ Idle.jobs = <<>>
  BY DEF Idle
<1>4. ReportsPlain
  BY <1>1, <1>2, HostFacts DEF ReportsPlain, HeldRight, Opened
<1>5. HeldOk /\ Opened(Server)
  BY <1>1, <1>2, HostFacts DEF HeldOk, Opened
<1>6. SocketsInHand /\ MovesAway /\ ReceiverLast /\ FailureKept
  BY <1>1, <1>3 DEF SocketsInHand, MovesAway, ReceiverLast, FailureKept
<1>7. ServerRecorded
  BY <1>1 DEF ServerRecorded
<1>8. ClientsRecorded
  BY <1>1 DEF ClientsRecorded, Informed
<1> QED BY <1>4, <1>5, <1>6, <1>7, <1>8 DEF RecordInv, ReportsTrue

\* When nothing is under way, the record of a tunnel that should run says what its
\* receiver has made of it.
LEMMA QuietRecord ==
    ASSUME IInv, NotifyInv, RecordInv, Quiet, ~mixed, NEW t \in Tunnels, conf[t] # None, Effective(conf[t]).enabled,
           NEW h \in Present, Self(h) = conf[t].receiver
    PROVE  Opened(h) /\ record[t] = Outcome(h, t)
<1>0. /\ Typed /\ Clients /\ SessionsOk /\ ClientsTold /\ ServerTold /\ Tables
      /\ Opened(Server) /\ ServerRecorded /\ ClientsRecorded /\ \A c \in Conns : Opened(c)
  BY DEF IInv, NotifyInv, Plain, AllTold, RecordInv, ReportsTrue, ReportsPlain, Typed, ServerSide
<1>k. PICK k : k = Effective(conf[t])
  OBVIOUS
<1>l. PICK l \in Confs : l = conf[t]
  BY <1>0 DEF Tables, Tunnel
<1>1. k.receiver = l.receiver /\ k \in Confs /\ k # None /\ k.enabled
  <2>1. l = [enabled |-> l.enabled, sender |-> l.sender, receiver |-> l.receiver, source |-> l.source]
    BY ControlAssumption
  <2>2. k.receiver = l.receiver
    BY <1>k, <1>l, <2>1 DEF Effective
  <2> QED BY <1>k, <1>l, <2>2, EffectiveTypes, HostFacts
<1>2. \A p : ~Pending(t, p)
  <2>1. \A w \in Tellers : Len(tell[w].jobs) = 0
    BY DEF Quiet, Idle
  <2> QED BY <2>1 DEF Pending, Owes
<1>3. mgr[h].tunnels[t] = k
  BY <1>0, <1>k, QuietTold DEF Ends
<1>4. RunsInlet(h, mgr[h].tunnels[t])
  BY <1>1, <1>3, <1>l DEF RunsInlet
<1>5. CASE h = Server
  <2>1. conf[t].receiver = Server
    BY <1>5 DEF Self
  <2> QED BY <1>0, <1>2, <1>4, <1>5, <2>1 DEF ServerRecorded
<1>6. CASE h \in Conns /\ client[h] = "in"
  <2>1. Live(h) /\ down[h] = <<>> /\ Owner[h] = conf[t].receiver
    BY <1>0, <1>6, QuietConnections, HostFacts
  <2>2. Informed(h, t)
    BY <1>2, <1>4, <1>6, <2>1 DEF Informed
  <2>3. ~Trailing(h)
    BY DEF Trailing, Quiet
  <2>4. up[h] = <<>> /\ held[h] = None
    BY <1>6, <2>1 DEF Live, Quiet
  <2>5. Says(h, t, Outcome(h, t))
    BY <1>0, <1>6, <2>2, <2>3 DEF ClientsRecorded
  <2> QED BY <1>0, <1>6, <2>4, <2>5 DEF Says
<1> QED BY <1>5, <1>6 DEF Present

LEMMA QuietStatus == IInv /\ NotifyInv /\ RecordInv => StatusTruthful
<1> SUFFICES ASSUME IInv, NotifyInv, RecordInv, Quiet, ~mixed, NEW t \in Tunnels, conf[t] # None
             PROVE  /\ Status(t) # "unconfirmed"
                    /\ Status(t) = "running" <=> \E l \in listening : l.tunnel = t
                    /\ Status(t) = "failed" => ~CanListen(conf[t])
  BY DEF StatusTruthful
<1>0. Typed /\ Clients /\ SessionsOk /\ Hosted /\ Tables /\ NoLostSocket
  BY DEF IInv, NotifyInv, Plain, Typed, ServerSide
<1>l. PICK l \in Confs : l = conf[t]
  BY <1>0 DEF Tables, Tunnel
<1>1. /\ l.enabled \in BOOLEAN /\ l.sender \in Players \cup {Server} /\ l.receiver \in Players \cup {Server}
      /\ Effective(l).enabled <=> l.enabled /\ Available(l.sender) /\ Available(l.receiver)
  <2>1. /\ l = [enabled |-> l.enabled, sender |-> l.sender, receiver |-> l.receiver, source |-> l.source]
        /\ l.enabled \in BOOLEAN /\ {l.sender, l.receiver} \subseteq Players \cup {Server}
    BY ControlAssumption
  <2> QED BY <2>1 DEF Effective
<1>2. Effective(l).enabled <=> ShouldRun(t)
  <2>1. \A p \in Players \cup {Server} : Available(p) <=> \E h \in Present : Self(h) = p
    BY <1>0, QuietConnections
  <2> QED BY <1>1, <1>l, <2>1 DEF ShouldRun, Ends
<1>3. \A h \in Hosts : mgr[h].inlets[t] # None <=> h \in Present /\ ShouldRun(t) /\ l.receiver = Self(h) /\ CanListen(l)
  BY <1>l, HostFacts, QuietConverged DEF Converged
<1>4. ASSUME NEW x \in listening, x.tunnel = t PROVE ShouldRun(t) /\ CanListen(l)
  <2>1. x.host \in Hosts /\ x.conf \in Confs
    BY <1>0 DEF Hosted, Listeners
  <2>2. \A w \in Tellers : tell[w].at = "next"
    BY DEF Quiet, Idle
  <2>3. mgr[x.host].inlets[t] = x.conf
    BY <1>0, <1>4, <2>2 DEF NoLostSocket, InHands
  <2> QED BY <1>3, <2>1, <2>3, HostFacts
<1>5. CASE ~Effective(l).enabled
  <2>1. Status(t) \in {"disabled", "waiting"}
    BY <1>5, <1>l DEF Status
  <2> QED BY <1>2, <1>4, <1>5, <2>1
<1>6. CASE Effective(l).enabled
  <2>1. PICK h \in Present : Self(h) = l.receiver
    BY <1>2, <1>6, <1>l DEF ShouldRun, Ends
  <2>2. Opened(h) /\ record[t] = Outcome(h, t) /\ h \in Hosts
    BY <1>6, <1>l, <2>1, QuietRecord, HostFacts DEF Present
  <2>3. mgr[h].inlets[t] # None <=> CanListen(l)
    BY <1>2, <1>3, <1>6, <2>1, <2>2
  <2>4. Status(t) = IF CanListen(l) THEN "running" ELSE "failed"
    BY <1>1, <1>6, <1>l, <2>2, <2>3 DEF Status, Outcome
  <2>5. ASSUME CanListen(l) PROVE \E x \in listening : x.tunnel = t
    BY <2>2, <2>3, <2>5 DEF Opened, Listener
  <2> QED BY <1>4, <1>l, <2>4, <2>5
<1> QED BY <1>5, <1>6

(***************************************************************************)
(* The web page does not deceive: while web requests move no end to the    *)
(* server or away from it, and unless two notifications overlapped since   *)
(* the server started, whenever nothing is under way a tunnel is shown as  *)
(* running exactly when its inlet listens, as failed only when its address *)
(* is taken, and never as unconfirmed, whatever order the reports of       *)
(* clients that came and went were stored in (the comments at              *)
(* manager.go:173 and tunnel_manager.go:194, session.go:389-412).          *)
(***************************************************************************)
THEOREM StatusIsTruthful == Spec /\ [][KeepsServer]_vars => []StatusTruthful
<1>1. Init => IInv /\ NotifyInv /\ RecordInv
  BY InitHolds, NotificationsInit, RecordInit
<1>2. IInv /\ NotifyInv /\ RecordInv /\ [Next]_vars /\ [KeepsServer]_vars => (IInv /\ NotifyInv /\ RecordInv)'
  BY StepHolds, NotificationsStep, RecordStep
<1>3. IInv /\ NotifyInv /\ RecordInv => StatusTruthful
  BY QuietStatus
<1> QED BY <1>1, <1>2, <1>3, PTL DEF Spec
=============================================================================
