------------------------------ MODULE MCTunnel ------------------------------
(***************************************************************************)
(* Tunnel while nobody stops it: every session ends by its client, its     *)
(* target, a refused connect, a timeout or a full queue.  Stop takes a     *)
(* session through the same shutdown and is checked in MCInlet, MCOutlet.  *)
(***************************************************************************)
EXTENDS Tunnel

RunningSpec == Init /\ [][Next /\ UNCHANGED <<iStop, oStop>>]_vars

RunningFairSpec == RunningSpec /\ In!Fairness /\ Out!Fairness
=============================================================================
