----------------------------- MODULE BoundedFifo -----------------------------
(***************************************************************************)
(* What a session's input queue promises: a closable FIFO of bounded       *)
(* length.  A push is refused exactly when the queue is full or closed, a  *)
(* pop returns the oldest message, Close discards what is queued.          *)
(***************************************************************************)
EXTENDS Naturals, Sequences

CONSTANTS
    Msgs,      \* messages
    Nil,       \* "no message"
    Capacity   \* length bound

VARIABLES
    queue,     \* messages pushed and not yet popped, oldest first
    closed,
    accepted,  \* result of the last Push
    got        \* result of the last Pop

vars == <<queue, closed, accepted, got>>

Init ==
    /\ queue = <<>>
    /\ closed = FALSE
    /\ accepted = TRUE
    /\ got = Nil

Push(m) ==
    /\ accepted' = (~closed /\ Len(queue) < Capacity)
    /\ queue' = IF accepted' THEN Append(queue, m) ELSE queue
    /\ UNCHANGED <<closed, got>>

Pop ==
    /\ queue # <<>>
    /\ got' = Head(queue)
    /\ queue' = Tail(queue)
    /\ UNCHANGED <<closed, accepted>>

Drained ==
    /\ queue = <<>> /\ closed
    /\ got' = Nil
    /\ UNCHANGED <<queue, closed, accepted>>

Close ==
    /\ closed' = TRUE
    /\ queue' = <<>>
    /\ UNCHANGED <<accepted, got>>

Next == (\E m \in Msgs : Push(m)) \/ Pop \/ Drained \/ Close

Spec == Init /\ [][Next]_vars
=============================================================================
