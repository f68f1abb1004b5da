--------------------------- MODULE FlowController ---------------------------
(***************************************************************************)
(* The per-session send window of the proxy (proxy/common.go,              *)
(* FlowController).  A sender acquires credit for every payload it puts on *)
(* the wire; the peer's result message (O2ISendDataResult for uploads,     *)
(* I2ORecvDataResult for downloads) releases it.  Acquire clamps its       *)
(* request to the window, Release subtracts the payload's full size.       *)
(*                                                                         *)
(* The condition variable is explicit: a caller is "asleep" between        *)
(* cond.Wait and the next Broadcast, and "awake" from that Broadcast until *)
(* it has the mutex again and re-evaluates the wait loop.                  *)
(***************************************************************************)
EXTENDS Naturals, FiniteSets

CONSTANTS
    Callers,   \* goroutines that call Acquire on this window
    Sizes,     \* payload sizes, oversized ones included
    MaxBytes   \* the window, proxyFlowWindowBytes in the program

ASSUME WindowAssumption ==
    /\ MaxBytes \in Nat \ {0}
    /\ Sizes \subseteq Nat \ {0}

VARIABLES
    inflight,  \* bytes charged against the window
    closed,    \* Close has run
    pc,        \* where each caller stands in Acquire
    asked,     \* the payload size a caller asks credit for
    unacked    \* payloads of each size that the peer has yet to acknowledge

vars == <<inflight, closed, pc, asked, unacked>>

Clamped(size) == IF size > MaxBytes THEN MaxBytes ELSE size

Fits(size) == inflight + Clamped(size) <= MaxBytes

Init ==
    /\ inflight = 0
    /\ closed = FALSE
    /\ pc = [c \in Callers |-> "idle"]
    /\ asked \in [Callers -> Sizes]   \* meaningless while a caller is idle
    /\ unacked = [s \in Sizes |-> 0]

\* Mutant of Broadcast: nobody is woken
NoBroadcast == UNCHANGED pc

\* cond.Broadcast: everybody who sleeps becomes runnable
Broadcast == pc' = [c \in Callers |-> IF pc[c] = "asleep" THEN "awake" ELSE pc[c]]

\* Acquire is granted: the payload goes out and its result is owed
Grant(c, size) ==
    /\ inflight' = inflight + Clamped(size)
    /\ unacked' = [unacked EXCEPT ![size] = @ + 1]
    /\ pc' = [pc EXCEPT ![c] = "idle"]

\* Acquire from its first instruction to its return or to cond.Wait
Acquire(c, size) ==
    /\ pc[c] = "idle"
    /\ ~closed
    /\ asked' = [asked EXCEPT ![c] = size]
    /\ \/ Fits(size) /\ Grant(c, size)
       \/ /\ ~Fits(size)
          /\ pc' = [pc EXCEPT ![c] = "asleep"]
          /\ UNCHANGED <<inflight, unacked>>
    /\ UNCHANGED closed

\* Mutant of Recheck: the second look at closed is missing
RecheckFits(c) ==
    /\ pc[c] = "awake"
    /\ \/ Fits(asked[c]) /\ Grant(c, asked[c])
       \/ ~Fits(asked[c]) /\ pc' = [pc EXCEPT ![c] = "asleep"] /\ UNCHANGED <<inflight, unacked>>
    /\ UNCHANGED <<closed, asked>>

\* Back from cond.Wait with the mutex: the wait loop is evaluated again
Recheck(c) ==
    /\ pc[c] = "awake"
    /\ \/ closed /\ pc' = [pc EXCEPT ![c] = "idle"] /\ UNCHANGED <<inflight, unacked>>
       \/ ~closed /\ Fits(asked[c]) /\ Grant(c, asked[c])
       \/ /\ ~closed /\ ~Fits(asked[c])
          /\ pc' = [pc EXCEPT ![c] = "asleep"]
          /\ UNCHANGED <<inflight, unacked>>
    /\ UNCHANGED <<closed, asked>>

\* Mutant of GiveBack: an unclamped release drives the window below zero
GiveBackUnfloored(size) == inflight' = inflight - size

GiveBack(size) == inflight' = IF inflight < size THEN 0 ELSE inflight - size

\* The peer's result for one payload.  It may arrive after Close.
Release(size) ==
    /\ unacked[size] > 0
    /\ unacked' = [unacked EXCEPT ![size] = @ - 1]
    /\ GiveBack(size)
    /\ Broadcast
    /\ UNCHANGED <<closed, asked>>

\* Close may be called again (closeSession races Stop): it is idempotent
Close ==
    /\ closed' = TRUE
    /\ inflight' = 0
    /\ Broadcast
    /\ UNCHANGED <<asked, unacked>>

Next ==
    \/ \E c \in Callers : Recheck(c) \/ \E size \in Sizes : Acquire(c, size)
    \/ \E size \in Sizes : Release(size)
    \/ Close

\* Goroutines are scheduled and an open peer answers what it was sent.
Fairness ==
    /\ \A c \in Callers : WF_vars(Recheck(c))
    /\ \A size \in Sizes : WF_vars(Release(size))

Spec == Init /\ [][Next]_vars
FairSpec == Spec /\ Fairness

-----------------------------------------------------------------------------

TypeOK ==
    /\ inflight \in 0..MaxBytes
    /\ closed \in BOOLEAN
    /\ pc \in [Callers -> {"idle", "asleep", "awake"}]
    /\ asked \in [Callers -> Sizes]
    /\ unacked \in [Sizes -> Nat]

\* What so many payloads of each size are charged for, byte by byte: <<size, which, byte>>
Charged(counts) == UNION {{s} \X (1 .. counts[s]) \X (1 .. Clamped(s)) : s \in Sizes}

\* Until the session is closed, the bytes charged are exactly the clamped
\* sizes of the payloads without a result: although Acquire clamps and Release
\* does not, no credit is lost (the window would shrink for good) and none is
\* invented (the peer would be sent more than the window).  common.go:42-69.
NoCreditDrift ==
    ~closed => inflight = Cardinality(Charged(unacked))

\* No lost wake-up: whoever sleeps in Acquire still cannot be served.  A sleeper
\* left behind by a Release or by Close would hang its session (common.go:46-51,
\* the Broadcasts at 69 and 77).
NoLostWakeup ==
    \A c \in Callers : pc[c] = "asleep" => ~closed /\ ~Fits(asked[c])

\* Nothing is sent through a closed window: from Close on, no payload is added
\* to the ones the peer owes a result for, even by a caller that was woken by
\* a Release just before the Close (the second check, common.go:52).
NoGrantAfterClose ==
    [][closed => \A s \in Sizes : unacked'[s] <= unacked[s]]_vars

\* A caller blocked on a full window gets out: the session reader of the inlet
\* and of the outlet never sleeps for ever while the peer keeps answering, and
\* Close frees it without any answer (TestFlowControllerCloseUnblocksAcquire).
AcquireReturns == \A c \in Callers : pc[c] # "idle" ~> pc[c] = "idle"
=============================================================================
