----------------------------- MODULE MCContexts -----------------------------
(***************************************************************************)
(* Contexts for a choice of clients: ones that are served, with payload    *)
(* right behind the request, and ones that are refused at each stage.      *)
(***************************************************************************)
EXTENDS Contexts

Greeting(offers) == [kind |-> "greeting", size |-> 2, offers |-> offers]
Login(right) == [kind |-> "login", size |-> 2, right |-> right]
Request(cmd, to) == [kind |-> "request", size |-> 2, cmd |-> cmd, to |-> to]
Header(method, to, right) ==
    [kind |-> "header", size |-> 2, method |-> method, to |-> to, right |-> right, host |-> "t", port |-> None, https |-> FALSE]
Salt == [kind |-> "salt", size |-> 1, sealed |-> TRUE]
Data(n) == [kind |-> "data", size |-> 1, n |-> n]
Chunk(to, data, sealed) ==
    [kind |-> "chunk", size |-> 2, to |-> to, sealed |-> sealed,
     body |-> data]
Packet(n, to, sealed) == [kind |-> "packet", size |-> 1, n |-> n, to |-> to, sealed |-> sealed]

Socks5(guarded, stream) == [mode |-> "SOCKS5", auth |-> guarded, stream |-> stream]
Http(guarded, stream) == [mode |-> "HTTP", auth |-> guarded, stream |-> stream]
Shadow(stream) == [mode |-> "Shadowsocks", auth |-> TRUE, stream |-> stream]
Packets(m, stream) == [mode |-> m, auth |-> FALSE, stream |-> stream]

Anyone == {"none"}
Both == {"none", "password"}

Socks5Clients ==
    <<Socks5(FALSE, <<Greeting(Anyone), Request("connect", "t"), Data(1), Data(2)>>),
     Socks5(TRUE, <<Greeting(Both), Login(TRUE), Request("connect", "t"), Data(1)>>),
     Socks5(TRUE, <<Greeting(Both), Login(FALSE), Request("connect", "t")>>),
     Socks5(TRUE, <<Greeting(Both), Request("connect", "t")>>),
     Socks5(TRUE, <<Greeting(Anyone), Request("connect", "t")>>),
     Socks5(FALSE, <<Request("connect", "t"), Data(1)>>),
     Socks5(FALSE, <<Greeting(Anyone), Login(TRUE), Data(1)>>),
     Socks5(FALSE, <<Greeting(Anyone), Request("bind", "t")>>),
     Socks5(FALSE, <<Greeting(Anyone), Request("connect", None)>>),
     Socks5(FALSE, <<Greeting(Anyone), Request("associate", "t"), Data(1)>>)>>

HttpClients ==
    <<Http(FALSE, <<Header("CONNECT", <<"t", 443>>, FALSE), Data(1), Data(2)>>),
     Http(TRUE, <<Header("GET", <<"t", 80>>, TRUE), Data(1), Data(2)>>),
     Http(TRUE, <<Header("GET", <<"t", 80>>, FALSE), Data(1)>>),
     Http(FALSE, <<[Header("GET", <<"t", 8080>>, FALSE) EXCEPT !.port = 8080]>>),
     Http(FALSE, <<[Header("GET", <<"t", 443>>, FALSE) EXCEPT !.https = TRUE]>>),
     Http(FALSE, <<[Header("GET", None, FALSE) EXCEPT !.host = None], Data(1)>>),
     Http(FALSE, <<[Header("GET", <<"t", 80>>, FALSE) EXCEPT !.size = 4]>>)>>

ShadowClients ==
    <<Shadow(<<Salt, Chunk("t", <<1>>, TRUE), Chunk(None, <<2>>, TRUE), Chunk(None, <<3>>, TRUE)>>),
     Shadow(<<Salt, Chunk("t", <<>>, TRUE), Chunk(None, <<1, 2>>, TRUE), Chunk(None, <<3>>, FALSE)>>),
     Shadow(<<Salt, Chunk(None, <<1>>, TRUE)>>)>>

PacketClients ==
    <<Packets("ShadowsocksUDP", <<Packet(1, "t", TRUE), Packet(2, "u", TRUE), Packet(3, "t", TRUE)>>),
     Packets("ShadowsocksUDP", <<Packet(1, "t", TRUE), Packet(2, "t", FALSE)>>),
     Packets("UDP", <<Packet(1, None, TRUE), Packet(2, None, TRUE)>>)>>

Clients == Socks5Clients \o HttpClients \o ShadowClients \o PacketClients
=============================================================================
