----------------------------- MODULE BoundedFifo -----------------------------
(***************************************************************************)
(* What bh_queue promises its users: a first-in first-out channel that     *)
(* never holds more than Capacity messages, delivers each at most once and *)
(* gives the undelivered ones up only when it is closed.                   *)
(***************************************************************************)
EXTENDS Naturals, Sequences

CONSTANTS Msgs, Capacity

VARIABLES q,      \* the messages in the channel, oldest first
          out,    \* the messages delivered, in order
          closed  \* no message is accepted or delivered any more

fifoVars == <<q, out, closed>>

FifoInit == q = <<>> /\ out = <<>> /\ closed = FALSE

Accept(m) ==
    /\ ~closed
    /\ Len(q) < Capacity
    /\ q' = Append(q, m)
    /\ UNCHANGED <<out, closed>>

Deliver ==
    /\ ~closed
    /\ q # <<>>
    /\ out' = Append(out, Head(q))
    /\ q' = Tail(q)
    /\ UNCHANGED closed

Close == ~closed /\ closed' = TRUE /\ UNCHANGED <<q, out>>

Discard ==
    /\ closed
    /\ q # <<>>
    /\ q' = Tail(q)
    /\ UNCHANGED <<out, closed>>

FifoNext == (\E m \in Msgs : Accept(m)) \/ Deliver \/ Close \/ Discard

FifoSpec == FifoInit /\ [][FifoNext]_fifoVars
=============================================================================
