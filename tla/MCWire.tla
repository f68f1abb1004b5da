------------------------------- MODULE MCWire -------------------------------
(***************************************************************************)
(* Wire with a first message of any type and a datagram behind it.  A      *)
(* connect with every field set is too long for the server, not for the    *)
(* client.  The server also sends tunnels that have no endpoint.           *)
(***************************************************************************)
EXTENDS Wire

MCMaxFrame == [server |-> 10, client |-> 14]

MCFollowed == {"I2OConnect", "O2IRecvDataFrom", "Ping", "LoginAck"}

\* One cell, which cuts a frame behind its flag, half of them, or all
MCCut(n) == {1, (n + 1) \div 2, n}

\* The messages: every field set, or none.  A value is named for its field
\* and for the field of the message that holds its struct.
Named[type \in DOMAIN Fields, holder \in UNION {Fields[t] : t \in DOMAIN Fields} \cup DOMAIN Fields] ==
    [n \in Fields[type] |->
       LET nested == {f.nested : f \in {x \in Codecs[type].in : x.name = n}} \ {"none"}
       IN  IF nested = {} THEN <<holder, n>> ELSE <<Named[CHOOSE t \in nested : TRUE, n]>>]

Full(type) == [type |-> type, has |-> Named[type, type]]

Messages(types) ==
    {Held(m) : m \in UNION {{Full(t), [type |-> t, has |-> [n \in Fields[t] |-> Zero]]} : t \in types}}

\* Tunnels without an endpoint, whose point is sent with an empty address
MCUnbound ==
    LET none == <<Blank("TunnelPoint")>>
    IN  {[Full("LoginAck") EXCEPT !.has.TunnelList[1].Endpoint = none],
         [Full("ModifyTunnelNtf") EXCEPT !.has.Tunnel[1].Endpoint = none],
         [Full("ModifyTunnelNtf") EXCEPT !.has.Tunnel[1] = [Blank("Tunnel") EXCEPT !.Source = none, !.Endpoint = none,
                                                                                   !.ID = <<"Tunnel", "ID">>]]}

MCFirst == [client |-> Messages(ClientTypes), server |-> Messages(ServerTypes) \cup MCUnbound]

\* Behind one of a followed type that lacks nothing comes a datagram.
MCBehind == {Held([type |-> "O2IRecvDataFrom", has |-> Named["O2IRecvDataFrom", "MapEntry"]])}

MCLed == {Held(Full(t)) : t \in MCFollowed}
=============================================================================
