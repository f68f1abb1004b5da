------------------------------ MODULE MCUpgrade ------------------------------
(***************************************************************************)
(* Upgrade with MaxFaults faults: lost connections, crashes, timeouts and  *)
(* failed steps of the helper.  Task ids are interchangeable and taken in  *)
(* one order.                                                              *)
(***************************************************************************)
EXTENDS Upgrade, TLC

CONSTANT MaxFaults

VARIABLE faults

mcVars == <<vars, faults>>

MCInit == Init /\ faults = 0

SwitchOn == \E t \in Tasks : Active(t)

Counted == Fault \/ Expire \/ (SwitchOn /\ Restart)

MCNext ==
    \/ /\ Counted /\ faults < MaxFaults /\ faults' = faults + 1
    \/ /\ \/ (used # Tasks /\ StartUpgrade(CHOOSE t \in Tasks \ used : TRUE))
          \/ \E t \in Tasks : HelperStep(t)
          \/ ServerStep \/ ClientStep
          \/ (~SwitchOn /\ Restart)
       /\ UNCHANGED faults

MCSpec == MCInit /\ [][MCNext]_mcVars

MCFairSpec == MCSpec /\ Fairness
=============================================================================
