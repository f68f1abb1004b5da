------------------------------ MODULE BytePipe ------------------------------
(***************************************************************************)
(* What one direction of a tunnel promises: for each session, the payloads *)
(* taken from one side come out on the other side once each and in order.  *)
(***************************************************************************)
EXTENDS Naturals, Sequences

CONSTANT Ids

VARIABLES
    sent,   \* payloads taken from the sending side, numbered 1, 2, ...
    got     \* payloads handed to the receiving side, in the order they came

pipeVars == <<sent, got>>

PipeInit == sent = [c \in Ids |-> 0] /\ got = [c \in Ids |-> <<>>]

Take(c) == sent' = [sent EXCEPT ![c] = @ + 1] /\ UNCHANGED got

Deliver(c) ==
    /\ Len(got[c]) < sent[c]
    /\ got' = [got EXCEPT ![c] = Append(@, Len(@) + 1)]
    /\ UNCHANGED sent

PipeNext == \E c \in Ids : Take(c) \/ Deliver(c)

PipeSpec == PipeInit /\ [][PipeNext]_pipeVars
=============================================================================
