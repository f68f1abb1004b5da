------------------------------- MODULE Codec -------------------------------
(***************************************************************************)
(* What a control connection carries: the protocol messages and their      *)
(* encoding (proto), the frames around them (codec/frame.go) and the       *)
(* translation between proxy messages and protocol messages                *)
(* (proxy/common.go).                                                      *)
(*                                                                         *)
(* A message is its type and a value for every field of its struct: <<>>   *)
(* is the zero value of the field, anything else a token that stands for   *)
(* the value; a nested message, a list and a map are sequences of field    *)
(* values.  A byte stream is a sequence of cells; the flag, the length,    *)
(* the serial with the message id, and each encoded field are one cell     *)
(* each.  A number is read with the width it was written with.             *)
(***************************************************************************)
EXTENDS Integers, Sequences, SequencesExt

Zero == <<>>

\* A field as marshal writes it, or unmarshal reads it: number, Go name, wire
\* type, and the message type if it is a nested message, a list or a map.
Field(num, name, kind, nested) == [num |-> num, name |-> name, kind |-> kind, nested |-> nested]
V(num, name) == Field(num, name, "varint", "none")
B(num, name) == Field(num, name, "bytes", "none")
M(num, name, type) == Field(num, name, "bytes", type)

Pair == {V(1, "TunnelID"), V(2, "SessionID")}
TripleUint32 == {V(1, "TunnelID"), V(2, "SessionID"), V(3, "DataLen")}
BinaryTriplet == {V(1, "TunnelID"), V(2, "SessionID"), B(3, "Data")}

-----------------------------------------------------------------------------
\* Per message: the fields marshal appends, in order, and those unmarshal knows.

LoginReq ==
    [out |-> <<B(1, "Version"), B(2, "Username"), B(3, "Password"), B(4, "Platform"),
               V(5, "UpdaterVersion"), B(6, "UpgradeTaskID"), B(7, "UpgradeState"), B(8, "UpgradeError")>>,
     in |-> {B(1, "Version"), B(2, "Username"), B(3, "Password"), B(4, "Platform"),
             V(5, "UpdaterVersion"), B(6, "UpgradeTaskID"), B(7, "UpgradeState"), B(8, "UpgradeError")}]

RegisterReq ==
    [out |-> <<B(1, "Username"), B(2, "Password")>>, in |-> {B(1, "Username"), B(2, "Password")}]

LoginAck ==
    [out |-> <<V(1, "PlayerID"), M(2, "TunnelList", "Tunnel"), V(3, "SupportsTunnelRuntimeReport")>>,
     in |-> {V(1, "PlayerID"), M(2, "TunnelList", "Tunnel"), V(3, "SupportsTunnelRuntimeReport")}]

TunnelRuntimeReport ==
    [out |-> <<V(1, "TunnelID"), B(2, "Component"), V(3, "Running"), B(4, "Error")>>,
     in |-> {V(1, "TunnelID"), B(2, "Component"), V(3, "Running"), B(4, "Error")}]

ModifyTunnelNtf ==
    [out |-> <<V(1, "IsDelete"), M(2, "Tunnel", "Tunnel")>>,
     in |-> {V(1, "IsDelete"), M(2, "Tunnel", "Tunnel")}]

TunnelPoint == [out |-> <<B(1, "Addr")>>, in |-> {B(1, "Addr")}]

Tunnel ==
    [out |-> <<M(1, "Source", "TunnelPoint"), M(2, "Endpoint", "TunnelPoint"), V(3, "ID"),
               V(4, "Enabled"), V(5, "Sender"), V(6, "Receiver"), V(7, "TunnelType"),
               B(8, "Password"), B(9, "Username"), V(10, "IsCompressed"),
               B(11, "EncryptionMethod"), M(12, "CustomMapping", "MapEntry")>>,
     in |-> {M(1, "Source", "TunnelPoint"), M(2, "Endpoint", "TunnelPoint"), V(3, "ID"),
             V(4, "Enabled"), V(5, "Sender"), V(6, "Receiver"), V(7, "TunnelType"),
             B(8, "Password"), B(9, "Username"), V(10, "IsCompressed"),
             B(11, "EncryptionMethod"), M(12, "CustomMapping", "MapEntry")}]

MapEntry == [out |-> <<B(1, "key"), B(2, "value")>>, in |-> {B(1, "key"), B(2, "value")}]

UpgradeOffer ==
    [out |-> <<B(1, "TaskID"), B(2, "Version"), B(3, "Platform"), V(4, "Size"), B(5, "SHA256"),
               B(6, "Signature"), V(7, "ChunkSize")>>,
     in |-> {B(1, "TaskID"), B(2, "Version"), B(3, "Platform"), V(4, "Size"), B(5, "SHA256"),
             B(6, "Signature"), V(7, "ChunkSize")}]

UpgradeChunk ==
    [out |-> <<B(1, "TaskID"), V(2, "Offset"), B(3, "Data"), B(4, "SHA256"), V(5, "EOF")>>,
     in |-> {B(1, "TaskID"), V(2, "Offset"), B(3, "Data"), B(4, "SHA256"), V(5, "EOF")}]

UpgradeStatusReport ==
    [out |-> <<B(1, "TaskID"), B(2, "State"), V(3, "Offset"), B(4, "Error")>>,
     in |-> {B(1, "TaskID"), B(2, "State"), V(3, "Offset"), B(4, "Error")}]

Success == [out |-> <<>>, in |-> {}]

Error == [out |-> <<V(1, "Number"), B(2, "Message")>>, in |-> {V(1, "Number"), B(2, "Message")}]

Ping == [out |-> <<V(1, "Ticks")>>, in |-> {V(1, "Ticks")}]

Pong == Ping

\* Mutant of I2OConnect: two flags change places
I2OConnectSwapped ==
    [out |-> <<V(1, "TunnelID"), V(2, "SessionID"), V(3, "TunnelType"), V(5, "IsTCP"),
               V(4, "IsCompressed"), B(6, "Addr"), B(7, "EncryptionMethod"), B(8, "EncryptionKey"),
               B(9, "ClientAddr")>>,
     in |-> {V(1, "TunnelID"), V(2, "SessionID"), V(3, "TunnelType"), V(4, "IsTCP"),
             V(5, "IsCompressed"), B(6, "Addr"), B(7, "EncryptionMethod"), B(8, "EncryptionKey"),
             B(9, "ClientAddr")}]

I2OConnect ==
    [out |-> <<V(1, "TunnelID"), V(2, "SessionID"), V(3, "TunnelType"), V(4, "IsTCP"),
               V(5, "IsCompressed"), B(6, "Addr"), B(7, "EncryptionMethod"), B(8, "EncryptionKey"),
               B(9, "ClientAddr")>>,
     in |-> {V(1, "TunnelID"), V(2, "SessionID"), V(3, "TunnelType"), V(4, "IsTCP"),
             V(5, "IsCompressed"), B(6, "Addr"), B(7, "EncryptionMethod"), B(8, "EncryptionKey"),
             B(9, "ClientAddr")}]

O2IConnect ==
    [out |-> <<V(1, "TunnelID"), V(2, "SessionID"), V(3, "Success"), B(4, "ErrorInfo")>>,
     in |-> {V(1, "TunnelID"), V(2, "SessionID"), V(3, "Success"), B(4, "ErrorInfo")}]

I2OSendData ==
    [out |-> <<V(1, "TunnelID"), V(2, "SessionID"), B(3, "Data")>>, in |-> BinaryTriplet]

O2IRecvData ==
    [out |-> <<V(1, "TunnelID"), V(2, "SessionID"), B(3, "Data")>>, in |-> BinaryTriplet]

I2ODisconnect == [out |-> <<V(1, "TunnelID"), V(2, "SessionID")>>, in |-> Pair]

O2IDisconnect == [out |-> <<V(1, "TunnelID"), V(2, "SessionID")>>, in |-> Pair]

O2ISendDataResult ==
    [out |-> <<V(1, "TunnelID"), V(2, "SessionID"), V(3, "DataLen")>>, in |-> TripleUint32]

I2ORecvDataResult ==
    [out |-> <<V(1, "TunnelID"), V(2, "SessionID"), V(3, "DataLen")>>, in |-> TripleUint32]

I2OSendToData ==
    [out |-> <<V(1, "TunnelID"), V(2, "SessionID"), B(3, "Data"), B(4, "TargetAddr")>>,
     in |-> {V(1, "TunnelID"), V(2, "SessionID"), B(3, "Data"), B(4, "TargetAddr")}]

O2IRecvDataFrom ==
    [out |-> <<V(1, "TunnelID"), V(2, "SessionID"), B(3, "Data"), B(4, "RemoteAddr")>>,
     in |-> {V(1, "TunnelID"), V(2, "SessionID"), B(3, "Data"), B(4, "RemoteAddr")}]

-----------------------------------------------------------------------------
\* The fields of the structs (pb/types.go): of control messages, of proxy messages
ControlFields ==
    [LoginReq |-> {"Version", "Username", "Password", "Platform", "UpdaterVersion", "UpgradeTaskID",
                   "UpgradeState", "UpgradeError"},
     RegisterReq |-> {"Username", "Password"},
     LoginAck |-> {"PlayerID", "TunnelList", "SupportsTunnelRuntimeReport"},
     ModifyTunnelNtf |-> {"IsDelete", "Tunnel"},
     TunnelRuntimeReport |-> {"TunnelID", "Component", "Running", "Error"},
     UpgradeOffer |-> {"TaskID", "Version", "Platform", "Size", "SHA256", "Signature", "ChunkSize"},
     UpgradeChunk |-> {"TaskID", "Offset", "Data", "SHA256", "EOF"},
     UpgradeStatusReport |-> {"TaskID", "State", "Offset", "Error"},
     TunnelPoint |-> {"Addr"},
     Tunnel |-> {"Source", "Endpoint", "ID", "Enabled", "Sender", "Receiver", "TunnelType", "Password",
                 "Username", "IsCompressed", "EncryptionMethod", "CustomMapping"},
     MapEntry |-> {"key", "value"}]

ProxyFields ==
    [Success |-> {}, Error |-> {"Number", "Message"}, Ping |-> {"Ticks"}, Pong |-> {"Ticks"},
     I2OConnect |-> {"TunnelID", "SessionID", "TunnelType", "IsTCP", "IsCompressed", "Addr",
                     "EncryptionMethod", "EncryptionKey", "ClientAddr"},
     O2IConnect |-> {"TunnelID", "SessionID", "Success", "ErrorInfo"},
     I2OSendData |-> {"TunnelID", "SessionID", "Data"},
     O2IRecvData |-> {"TunnelID", "SessionID", "Data"},
     I2ODisconnect |-> {"TunnelID", "SessionID"}, O2IDisconnect |-> {"TunnelID", "SessionID"},
     O2ISendDataResult |-> {"TunnelID", "SessionID", "DataLen"},
     I2ORecvDataResult |-> {"TunnelID", "SessionID", "DataLen"},
     I2OSendToData |-> {"TunnelID", "SessionID", "Data", "TargetAddr"},
     O2IRecvDataFrom |-> {"TunnelID", "SessionID", "Data", "RemoteAddr"}]

Fields ==
    [type \in DOMAIN ControlFields \cup DOMAIN ProxyFields |->
       IF type \in DOMAIN ProxyFields THEN ProxyFields[type] ELSE ControlFields[type]]

\* The encoder and decoder of a message type (Encode and Decode of proto/ids.go)
Codecs ==
    [LoginReq |-> LoginReq, RegisterReq |-> RegisterReq, LoginAck |-> LoginAck,
     ModifyTunnelNtf |-> ModifyTunnelNtf, TunnelRuntimeReport |-> TunnelRuntimeReport,
     UpgradeOffer |-> UpgradeOffer, UpgradeChunk |-> UpgradeChunk,
     UpgradeStatusReport |-> UpgradeStatusReport, TunnelPoint |-> TunnelPoint, Tunnel |-> Tunnel,
     MapEntry |-> MapEntry, Success |-> Success, Error |-> Error, Ping |-> Ping, Pong |-> Pong,
     I2OConnect |-> I2OConnect, O2IConnect |-> O2IConnect, I2OSendData |-> I2OSendData,
     O2IRecvData |-> O2IRecvData, I2ODisconnect |-> I2ODisconnect, O2IDisconnect |-> O2IDisconnect,
     O2ISendDataResult |-> O2ISendDataResult, I2ORecvDataResult |-> I2ORecvDataResult,
     I2OSendToData |-> I2OSendToData, O2IRecvDataFrom |-> O2IRecvDataFrom]

MessageID ==
    [LoginReq |-> 1001, LoginAck |-> 1002, RegisterReq |-> 1003, ModifyTunnelNtf |-> 1008,
     TunnelRuntimeReport |-> 1009, UpgradeOffer |-> 1010, UpgradeStatusReport |-> 1011,
     UpgradeChunk |-> 1012, Success |-> 150001, Error |-> 150003, Ping |-> 150004, Pong |-> 150005,
     I2OConnect |-> 150006, O2IConnect |-> 150007, I2OSendData |-> 150008, O2IRecvData |-> 150009,
     I2ODisconnect |-> 150010, O2IDisconnect |-> 150011, O2ISendDataResult |-> 150012,
     I2ORecvDataResult |-> 150013, I2OSendToData |-> 150014, O2IRecvDataFrom |-> 150015]

\* The type Decode makes of a message id
TypeOf(id) ==
    CASE id = 1001 -> "LoginReq" [] id = 1002 -> "LoginAck" [] id = 1003 -> "RegisterReq"
      [] id = 1008 -> "ModifyTunnelNtf" [] id = 1009 -> "TunnelRuntimeReport"
      [] id = 1010 -> "UpgradeOffer" [] id = 1011 -> "UpgradeStatusReport" [] id = 1012 -> "UpgradeChunk"
      [] id = 150001 -> "Success" [] id = 150003 -> "Error" [] id = 150004 -> "Ping" [] id = 150005 -> "Pong"
      [] id = 150006 -> "I2OConnect" [] id = 150007 -> "O2IConnect" [] id = 150008 -> "I2OSendData"
      [] id = 150009 -> "O2IRecvData" [] id = 150010 -> "I2ODisconnect" [] id = 150011 -> "O2IDisconnect"
      [] id = 150012 -> "O2ISendDataResult" [] id = 150013 -> "I2ORecvDataResult"
      [] id = 150014 -> "I2OSendToData" [] id = 150015 -> "O2IRecvDataFrom"

-----------------------------------------------------------------------------
\* Messages nest three deep: a LoginAck or ModifyTunnelNtf holds tunnels, and a
\* tunnel its points and the entries of a map.  Inner(type, value) is what
\* marshals, or unmarshals, a nested message.
Nothing(type, value) == <<>>

\* append...Field: zero values and empty nested messages are left out
FieldCells(Inner(_, _), f, v) ==
    IF f.nested = "none"
    THEN IF v = Zero THEN <<>> ELSE <<[num |-> f.num, kind |-> f.kind, val |-> v]>>
    ELSE FlattenSeq([k \in 1 .. Len(v) |->
           IF Inner(f.nested, v[k]) = <<>> THEN <<>>
           ELSE <<[num |-> f.num, kind |-> f.kind, sub |-> Inner(f.nested, v[k])]>>])

MarshalWith(Inner(_, _), type, has) ==
    LET out == Codecs[type].out
    IN  FlattenSeq([k \in 1 .. Len(out) |-> FieldCells(Inner, out[k], has[out[k].name])])

MarshalFlat(type, has) == MarshalWith(Nothing, type, has)
MarshalTunnel(type, has) == MarshalWith(MarshalFlat, type, has)
Marshal(type, has) == MarshalWith(MarshalTunnel, type, has)

Repeated == {"TunnelList", "CustomMapping"}

\* What the cells of one field make of it: the last one counts, unless it is a
\* list or a map.
LastOf(cells, num) ==
    cells[CHOOSE k \in DOMAIN cells :
            cells[k].num = num /\ \A l \in DOMAIN cells : cells[l].num = num => l <= k]

ReadField(Inner(_, _), f, cells) ==
    IF \A k \in DOMAIN cells : cells[k].num # f.num THEN Zero
    ELSE IF f.nested = "none" THEN LastOf(cells, f.num).val
    ELSE IF f.name \in Repeated
         THEN FlattenSeq([k \in 1 .. Len(cells) |->
                IF cells[k].num = f.num THEN <<Inner(f.nested, cells[k].sub)>> ELSE <<>>])
    ELSE <<Inner(f.nested, LastOf(cells, f.num).sub)>>

\* A field that has no number stays zero, a number that is no field is skipped.
UnmarshalWith(Inner(_, _), type, cells) ==
    [n \in Fields[type] |->
       LET known == {f \in Codecs[type].in : f.name = n}
       IN  IF known = {} THEN Zero ELSE ReadField(Inner, CHOOSE f \in known : TRUE, cells)]

UnmarshalFlat(type, cells) == UnmarshalWith(Nothing, type, cells)
UnmarshalTunnel(type, cells) == UnmarshalWith(UnmarshalFlat, type, cells)
Unmarshal(type, cells) == UnmarshalWith(UnmarshalTunnel, type, cells)

\* A frame: flag, length, serial and message id, fields
Encode(serial, msg) ==
    LET payload == Marshal(msg.type, msg.has)
    IN  <<[k |-> "flag"], [k |-> "len", n |-> 1 + Len(payload)],
          [k |-> "head", serial |-> serial, id |-> MessageID[msg.type]]>>
        \o [i \in 1 .. Len(payload) |-> [k |-> "field", field |-> payload[i]]]

NoFrame(rest) == [kind |-> "none", rest |-> rest]
BadFrame == [kind |-> "error"]

\* Mutant of TryExtractFrame: a frame at the end of the buffer is not complete
TryExtractLate(buffer, maxSize) ==
    IF buffer = <<>> THEN NoFrame(buffer)
    ELSE IF buffer[1].k # "flag" THEN BadFrame
    ELSE IF Len(buffer) = 1 \/ Len(buffer) <= 2 + buffer[2].n THEN NoFrame(buffer)
    ELSE [kind |-> "frame", frame |-> SubSeq(buffer, 3, 2 + buffer[2].n),
          rest |-> SubSeq(buffer, 3 + buffer[2].n, Len(buffer))]

\* The first frame of a buffer (empty, cut in the header, too long, cut behind
\* the header, or complete) and what follows it
TryExtractFrame(buffer, maxSize) ==
    CASE buffer = <<>> -> NoFrame(buffer)
      [] buffer # <<>> /\ buffer[1].k # "flag" -> BadFrame
      [] Len(buffer) = 1 -> NoFrame(buffer)
      [] OTHER ->
           LET frameLen == buffer[2].n
           IN  IF frameLen >= maxSize THEN BadFrame
               ELSE IF Len(buffer) < 2 + frameLen THEN NoFrame(buffer)
               ELSE [kind |-> "frame", frame |-> SubSeq(buffer, 3, 2 + frameLen),
                     rest |-> SubSeq(buffer, 3 + frameLen, Len(buffer))]

Decode(frame) ==
    LET type == TypeOf(frame[1].id)
    IN  [serial |-> frame[1].serial,
         msg |-> [type |-> type,
                  has |-> Unmarshal(type, [i \in 1 .. Len(frame) - 1 |-> frame[i + 1].field])]]

-----------------------------------------------------------------------------
ProxyTypes ==
    {"I2OConnect", "I2OSendData", "I2OSendToData", "I2ORecvDataResult", "I2ODisconnect",
     "O2IConnect", "O2IRecvData", "O2IRecvDataFrom", "O2ISendDataResult", "O2IDisconnect"}

\* The ID of a proxy message is the SessionID of its protocol message; every
\* other field keeps its name.
BridgeToPB(message) ==
    [type |-> message.type,
     has |-> [n \in Fields[message.type] |-> message.has[IF n = "SessionID" THEN "ID" ELSE n]]]

BridgeFromPB(message) ==
    LET names == {IF n = "SessionID" THEN "ID" ELSE n : n \in Fields[message.type]}
    IN  [type |-> message.type,
         has |-> [n \in names |-> message.has[IF n = "ID" THEN "SessionID" ELSE n]]]

-----------------------------------------------------------------------------
\* What a value of a message type is: one for every field, and one message at
\* most in a field that is neither list nor map.
IsList(v) == Len(v) \in Nat /\ v = [k \in 1 .. Len(v) |-> v[k]]

ProperWith(Inner(_, _), type, has) ==
    /\ has = [n \in Fields[type] |-> has[n]]
    /\ \A f \in Codecs[type].in : f.nested # "none" =>
         /\ IsList(has[f.name]) /\ (f.name \in Repeated \/ Len(has[f.name]) <= 1)
         /\ \A k \in 1 .. Len(has[f.name]) : Inner(f.nested, has[f.name][k])

Nested(type, value) == FALSE
ProperFlat(type, has) == ProperWith(Nested, type, has)
ProperTunnel(type, has) == ProperWith(ProperFlat, type, has)
Proper(type, has) == ProperWith(ProperTunnel, type, has)

\* What a message means to its reader: a nested message all of whose fields are
\* zero is the same as none.  appendMessageField leaves it out, so it is read as
\* nil, and Manager takes a nil point of a tunnel for the address "".  Only the
\* points of a tunnel are ever blank (an endpoint of a SOCKS5, HTTP or Shadowsocks
\* tunnel): a tunnel has its ID, an entry of a map its key.
Blank(type) == [n \in Fields[type] |-> Zero]

SenseWith(Inner(_, _), type, has) ==
    [n \in Fields[type] |->
       LET nested == {f.nested : f \in {x \in Codecs[type].in : x.name = n}} \ {"none"}
           t == CHOOSE t \in nested : TRUE
       IN  IF nested = {} THEN has[n]
           ELSE FlattenSeq([k \in 1 .. Len(has[n]) |->
                  IF Inner(t, has[n][k]) = Blank(t) THEN <<>> ELSE <<Inner(t, has[n][k])>>])]

SenseFlat(type, has) == SenseWith(Nothing, type, has)
SenseTunnel(type, has) == SenseWith(SenseFlat, type, has)
Sense(type, has) == SenseWith(SenseTunnel, type, has)

IsMessage(m) == m = [type |-> m.type, has |-> m.has] /\ m.type \in DOMAIN MessageID

\* What the program gives the codec, proxy messages before BridgeToPB
Sendable(m) ==
    /\ IsMessage(m)
    /\ IF m.type \in ProxyTypes
       THEN m = BridgeFromPB(BridgeToPB(m)) /\ Proper(m.type, BridgeToPB(m).has)
       ELSE Proper(m.type, m.has)

\* Proxy messages hold no others.
SenseOf(m) == IF m.type \in ProxyTypes THEN m ELSE [m EXCEPT !.has = Sense(m.type, @)]
=============================================================================
