------------------------------- MODULE MCInlet -------------------------------
(***************************************************************************)
(* Inlet against the most general outlet that speaks the protocol: it      *)
(* answers each I2OConnect once, sends payloads and acknowledges some of   *)
(* what it receives, and disconnects at any time, even while payloads and  *)
(* a local I2ODisconnect are on their way.                                 *)
(***************************************************************************)
EXTENDS Inlet

CONSTANTS
    MaxDown,       \* payloads the outlet sends per session
    Latecomers     \* connections that come while every slot is taken

VARIABLES remote, sent

mcVars == <<vars, remote, sent>>

ToInlet(m) == o2i' = Append(o2i, m)

\* The outlet takes the next message.
OutletTakes ==
    /\ i2o # <<>> /\ i2o' = Tail(i2o)
    /\ LET m == Head(i2o)
       IN  \/ /\ m.type = "I2OConnect"
              /\ remote' = [remote EXCEPT ![m.id] = "asked"] /\ UNCHANGED o2i
           \/ /\ m.type = "I2ODisconnect"
              /\ remote' = [remote EXCEPT ![m.id] = "left"] /\ UNCHANGED o2i
           \/ /\ m.type = "I2OSendData" /\ remote[m.id] = "up"
              /\ ToInlet([type |-> "O2ISendDataResult", id |-> m.id]) /\ UNCHANGED remote
           \/ /\ m.type \in {"I2OSendData", "I2ORecvDataResult"}
              /\ UNCHANGED <<remote, o2i>>
    /\ UNCHANGED sent

OutletAnswers(c, ok) ==
    /\ remote[c] = "asked"
    /\ remote' = [remote EXCEPT ![c] = IF ok THEN "up" ELSE "left"]
    /\ ToInlet([type |-> "O2IConnect", id |-> c, ok |-> ok])
    /\ UNCHANGED <<i2o, sent>>

OutletSends(c) ==
    /\ remote[c] = "up" /\ sent[c] < MaxDown
    /\ sent' = [sent EXCEPT ![c] = @ + 1]
    /\ ToInlet([type |-> "O2IRecvData", id |-> c, n |-> sent'[c]])
    /\ UNCHANGED <<i2o, remote>>

OutletLeaves(c) ==
    /\ remote[c] = "up"
    /\ remote' = [remote EXCEPT ![c] = "left"]
    /\ ToInlet([type |-> "O2IDisconnect", id |-> c])
    /\ UNCHANGED <<i2o, sent>>

Outlet ==
    /\ \/ OutletTakes
       \/ \E c \in Ids : OutletSends(c) \/ OutletLeaves(c) \/ \E ok \in BOOLEAN : OutletAnswers(c, ok)
    /\ UNCHANGED <<stopVars, sessVars, goVars, ctxMu, ready, conn, dataVars>>

MCInit == Init /\ remote = [c \in Ids |-> "idle"] /\ sent = [c \in Ids |-> 0]

\* The slot a latecomer waits for is given back only after it was refused.
TooLate ==
    /\ \A c \in Latecomers :
         conn[c] = "none" /\ conn'[c] = "open" => slots = MaxSlots /\ stopPc = "no"
    /\ acc = "reserve" /\ accConn \in Latecomers => slots' >= slots

MCNext == Outlet \/ (Next /\ TooLate /\ UNCHANGED <<remote, sent>>)

\* A latecomer never gets goroutines of its own, so they need no fairness.
MCFairSpec ==
    /\ MCInit /\ [][MCNext]_mcVars
    /\ \A c \in Ids \ Latecomers : GoFair(c)
    /\ InletFair
=============================================================================
