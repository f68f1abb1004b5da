----------------------------- MODULE ProxyQueue -----------------------------
(***************************************************************************)
(* The ring buffer between the goroutine that routes proxy messages and    *)
(* the goroutine of one session (proxy/queue.go): proxyMessageQueue for    *)
(* inlet and outlet sessions, byteQueue for the datagrams of a UDP peer.   *)
(* Any goroutine may push or close; one goroutine pops in a loop.          *)
(*                                                                         *)
(* Names that the send window has as well are told apart by a prefix, so   *)
(* that one module can reason about both.                                  *)
(***************************************************************************)
EXTENDS Naturals, Sequences

CONSTANTS
    Msgs,   \* messages, payloads
    Nil,    \* an empty slot
    Max     \* capacity: 1024 messages, 128 datagrams

ASSUME QueueAssumption ==
    /\ Max \in Nat \ {0}
    /\ Nil \notin Msgs

VARIABLES
    items,     \* the ring
    head,      \* slot of the oldest message
    count,     \* size: messages in the ring
    queueClosed,   \* closed: Close has run
    consumer,  \* the popping goroutine: runs, sleeps in cond.Wait, was woken, has left
    accepted,  \* result of the last Push
    got        \* message returned by the last Pop

queueVars == <<items, head, count, queueClosed, consumer, accepted, got>>

Slots == 0 .. Max - 1
EmptyRing == [i \in Slots |-> Nil]

QueueInit ==
    /\ items = EmptyRing
    /\ head = 0
    /\ count = 0
    /\ queueClosed = FALSE
    /\ consumer = "running"
    /\ accepted = TRUE
    /\ got = Nil

\* Mutant of Wake
NoWake == UNCHANGED consumer

\* cond.Signal and cond.Broadcast: there is only one goroutine to wake
Wake == consumer' = IF consumer = "asleep" THEN "woken" ELSE consumer

\* Mutant of TailSlot: the slot is found without the head
TailWithoutHead == count % Max

\* The slot behind the newest message
TailSlot == (head + count) % Max

Full == count >= Max

Push(m) ==
    \/ /\ queueClosed \/ Full
       /\ accepted' = FALSE
       /\ UNCHANGED <<items, head, count, queueClosed, consumer, got>>
    \/ /\ ~queueClosed /\ ~Full
       /\ accepted' = TRUE
       /\ items' = [items EXCEPT ![TailSlot] = m]
       /\ count' = count + 1
       /\ Wake
       /\ UNCHANGED <<head, queueClosed, got>>

\* Pop finds nothing to return yet: cond.Wait
PopWait ==
    /\ consumer \in {"running", "woken"}
    /\ count = 0 /\ ~queueClosed
    /\ consumer' = "asleep"
    /\ UNCHANGED <<items, head, count, queueClosed, accepted, got>>

\* Pop returns a message, at once or after having waited
PopMessage ==
    /\ consumer \in {"running", "woken"}
    /\ count > 0
    /\ got' = items[head]
    /\ items' = [items EXCEPT ![head] = Nil]
    /\ head' = (head + 1) % Max
    /\ count' = count - 1
    /\ consumer' = "running"
    /\ UNCHANGED <<queueClosed, accepted>>

\* Pop returns (nil, false): the goroutine leaves its loop
PopClosed ==
    /\ consumer \in {"running", "woken"}
    /\ count = 0 /\ queueClosed
    /\ got' = Nil
    /\ consumer' = "left"
    /\ UNCHANGED <<items, head, count, queueClosed, accepted>>

QueueClose ==
    /\ queueClosed' = TRUE
    /\ items' = EmptyRing
    /\ head' = 0
    /\ count' = 0
    /\ Wake
    /\ UNCHANGED <<accepted, got>>

QueueNext ==
    \/ \E m \in Msgs : Push(m)
    \/ PopWait \/ PopMessage \/ PopClosed
    \/ QueueClose

\* The session goroutine is scheduled; nobody owes the queue a push or a close.
QueueFairness == WF_queueVars(PopWait \/ PopMessage \/ PopClosed)

QueueSpec == QueueInit /\ [][QueueNext]_queueVars
QueueFairSpec == QueueSpec /\ QueueFairness

-----------------------------------------------------------------------------

QueueTypeOK ==
    /\ items \in [Slots -> Msgs \cup {Nil}]
    /\ head \in Slots
    /\ count \in 0 .. Max
    /\ queueClosed \in BOOLEAN
    /\ consumer \in {"running", "asleep", "woken", "left"}
    /\ accepted \in BOOLEAN
    /\ got \in Msgs \cup {Nil}

\* Refinement mapping: the ring read from the oldest message on
ReadFrom(ring, first, n) == [k \in 1 .. n |-> ring[(first + (k - 1)) % Max]]
Contents == ReadFrom(items, head, count)

Fifo == INSTANCE BoundedFifo WITH queue <- Contents, closed <- queueClosed, Capacity <- Max

\* The ring buffer is a bounded FIFO, also when it wraps around and when it is
\* closed while full: nothing is lost, reordered or handed out twice, and a
\* push is refused only when the queue is full or closed (queue.go:36-78).
ImplementsFifo == Fifo!Spec

\* The session goroutine never sleeps on a queue that has a message for it or
\* that was closed (Signal at queue.go:48, Broadcast at 77).
NoLostSignal == consumer = "asleep" => count = 0 /\ ~queueClosed

\* What was accepted is handed to the session goroutine unless the session is
\* closed first.
Delivered ==
    \A m \in Msgs : (\E k \in 1 .. count : Contents[k] = m) ~> (got = m \/ queueClosed)

=============================================================================
