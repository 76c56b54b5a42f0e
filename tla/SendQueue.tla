------------------------------ MODULE SendQueue ------------------------------
(***************************************************************************)
(* What Client.Send promises of the packets it accepts, with connections,  *)
(* streams and goroutines left out: a bounded first-in first-out queue     *)
(* whose packets are handed over one at a time, in order and once, until   *)
(* the client is closed.  MqttClient implements it.                        *)
(***************************************************************************)
EXTENDS Naturals, Sequences

CONSTANTS
    Packet,     \* the packets
    Capacity    \* how many may be accepted and not yet handed over

VARIABLES
    queue,      \* accepted, not handed over
    out,        \* handed over
    closed      \* Close has returned

vars == <<queue, out, closed>>

Init == queue = <<>> /\ out = <<>> /\ closed = FALSE

\* A packet is accepted; after closed it stays where it is.
Put ==
    /\ Len(queue) < Capacity
    /\ \E pkt \in Packet : queue' = Append(queue, pkt)
    /\ UNCHANGED <<out, closed>>

\* The oldest packet is handed over.
HandOver ==
    /\ ~closed
    /\ queue # <<>>
    /\ out' = Append(out, Head(queue))
    /\ queue' = Tail(queue)
    /\ UNCHANGED closed

Close ==
    /\ ~closed
    /\ closed' = TRUE
    /\ UNCHANGED <<queue, out>>

Next == Put \/ HandOver \/ Close

Spec == Init /\ [][Next]_vars
=============================================================================
