----------------------------- MODULE FrameQueue -----------------------------
(***************************************************************************)
(* What the frame buffer (core/buffer.c) promises to the two threads that  *)
(* share it: a lossy FIFO of frames.  The producer appends, the consumer   *)
(* takes the oldest frame and either consumes it or puts it back in front, *)
(* and a frame that is not consumed is lost in two ways only: by a flush,  *)
(* or as the oldest one when all frames there is memory for are occupied.  *)
(*                                                                         *)
(* A frame is the number of its commit: the n-th committed frame is n.     *)
(***************************************************************************)
EXTENDS Naturals, Sequences

CONSTANT None  \* the consumer holds no frame

VARIABLES
    committed, \* number of frames appended so far
    backlog,   \* frames waiting for the consumer, oldest first
    inHand,    \* the frame the consumer works on, or None
    delivered, \* frames the consumer has finished with
    capacity   \* number of frames the buffer has memory for

fqVars == <<committed, backlog, inHand, delivered, capacity>>

Init ==
    /\ committed = 0
    /\ backlog = <<>>
    /\ inHand = None
    /\ delivered = {}
    /\ capacity \in Nat

(* Frames that are not available to the producer. *)
Occupied == Len(backlog) + (IF inHand = None THEN 0 ELSE 1)

Commit ==
    /\ committed' = committed + 1
    /\ backlog' = Append(backlog, committed + 1)
    /\ UNCHANGED <<inHand, delivered, capacity>>

DropOldest ==
    /\ backlog # <<>>
    /\ Occupied >= capacity
    /\ backlog' = Tail(backlog)
    /\ UNCHANGED <<committed, inHand, delivered, capacity>>

Take ==
    /\ inHand = None
    /\ backlog # <<>>
    /\ inHand' = Head(backlog)
    /\ backlog' = Tail(backlog)
    /\ UNCHANGED <<committed, delivered, capacity>>

Release ==
    /\ inHand # None
    /\ delivered' = delivered \cup {inHand}
    /\ inHand' = None
    /\ UNCHANGED <<committed, backlog, capacity>>

PutBack ==
    /\ inHand # None
    /\ backlog' = <<inHand>> \o backlog
    /\ inHand' = None
    /\ UNCHANGED <<committed, delivered, capacity>>

Flush ==
    /\ backlog' = <<>>
    /\ UNCHANGED <<committed, inHand, delivered, capacity>>

(* Memory is allocated and freed as it seems fit.                          *)
Resize ==
    /\ capacity' \in Nat
    /\ UNCHANGED <<committed, backlog, inHand, delivered>>

(* The buffer is destructed.                                               *)
Close ==
    /\ inHand = None
    /\ backlog' = <<>>
    /\ capacity' = 0
    /\ UNCHANGED <<committed, inHand, delivered>>

Next ==
    \/ Commit
    \/ DropOldest
    \/ Take
    \/ Release
    \/ PutBack
    \/ Flush
    \/ Resize
    \/ Close

Spec == Init /\ [][Next]_fqVars

-----------------------------------------------------------------------------
(* Whatever interleaving of appending, dropping, taking, putting back and  *)
(* flushing happens, the frames reach the consumer in the order of their   *)
(* commits and at most once: the backlog is strictly increasing, the frame *)
(* in hand is older than all of it, and both are younger than every frame  *)
(* delivered.                                                              *)
FifoOrder ==
    /\ \A i, j \in 1..Len(backlog) : i < j => backlog[i] < backlog[j]
    /\ \A i \in 1..Len(backlog), d \in delivered : d < backlog[i]
    /\ inHand # None =>
        /\ \A i \in 1..Len(backlog) : inHand < backlog[i]
        /\ \A d \in delivered : d < inHand
=============================================================================
