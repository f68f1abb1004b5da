------------------------------ MODULE MCOutlet ------------------------------
(***************************************************************************)
(* Outlet against the most general inlet that speaks the protocol: it      *)
(* sends payloads once it is told that the target is connected,            *)
(* acknowledges or ignores what it receives, and disconnects at any time.  *)
(* An id is used for one connect.                                          *)
(***************************************************************************)
EXTENDS Outlet

CONSTANTS MaxUp    \* payloads the inlet sends per session

VARIABLES remote, sent

mcVars == <<vars, remote, sent>>

ToOutlet(m) == i2o' = Append(i2o, m)

InletConnects(c) ==
    /\ remote[c] = "idle"
    /\ remote' = [remote EXCEPT ![c] = "asked"]
    /\ ToOutlet([type |-> "I2OConnect", id |-> c])
    /\ UNCHANGED <<o2i, sent>>

InletTakes ==
    /\ o2i # <<>> /\ o2i' = Tail(o2i)
    /\ LET m == Head(o2i)
       IN  \/ /\ m.type = "O2IConnect" /\ remote[m.id] = "asked"
              /\ remote' = [remote EXCEPT ![m.id] = IF m.ok THEN "up" ELSE "left"]
              /\ UNCHANGED i2o
           \/ /\ m.type = "O2IRecvData" /\ remote[m.id] = "up"
              /\ ToOutlet([type |-> "I2ORecvDataResult", id |-> m.id]) \/ UNCHANGED i2o
              /\ UNCHANGED remote
           \/ /\ m.type = "O2IDisconnect"
              /\ remote' = [remote EXCEPT ![m.id] = "left"] /\ UNCHANGED i2o
           \/ /\ \/ m.type \in {"O2IConnect", "O2IRecvData"} /\ remote[m.id] = "left"
                 \/ m.type = "O2ISendDataResult"
              /\ UNCHANGED <<remote, i2o>>
    /\ UNCHANGED sent

InletSends(c) ==
    /\ remote[c] = "up" /\ sent[c] < MaxUp
    /\ sent' = [sent EXCEPT ![c] = @ + 1]
    /\ ToOutlet([type |-> "I2OSendData", id |-> c, n |-> sent'[c]])
    /\ UNCHANGED <<o2i, remote>>

InletLeaves(c) ==
    /\ remote[c] \in {"asked", "up"}
    /\ remote' = [remote EXCEPT ![c] = "left"]
    /\ ToOutlet([type |-> "I2ODisconnect", id |-> c])
    /\ UNCHANGED <<o2i, sent>>

Inlet ==
    /\ InletTakes \/ \E c \in Ids : InletConnects(c) \/ InletSends(c) \/ InletLeaves(c)
    /\ UNCHANGED <<stopPc, mapVars, goVars, workVars, endVars, dataVars, conn, countVars>>

MCInit ==
    /\ Init
    /\ remote = [c \in Ids |-> "idle"] /\ sent = [c \in Ids |-> 0]

MCNext == Inlet \/ (Next /\ UNCHANGED <<remote, sent>>)

MCSpec == MCInit /\ [][MCNext]_mcVars

MCFairSpec == MCSpec /\ Fairness
=============================================================================
