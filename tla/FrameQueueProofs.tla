-------------------------- MODULE FrameQueueProofs --------------------------
(***************************************************************************)
(* Order of delivery: frames leave the lossy FIFO in the order of their    *)
(* commits and at most once, for every capacity and every interleaving.    *)
(***************************************************************************)
EXTENDS FrameQueue, SequenceTheorems, TLAPS

(* Frames are numbers up to committed.  A frame that is not delivered yet  *)
(* is younger than all delivered ones; without this FifoOrder would not    *)
(* survive a Release or a Commit.                                          *)
Numbered ==
    /\ committed \in Nat
    /\ backlog \in Seq(Nat)
    /\ inHand \in Nat \cup {None}
    /\ delivered \subseteq Nat
    /\ \A i \in 1..Len(backlog) : 1 <= backlog[i] /\ backlog[i] <= committed
    /\ inHand # None => 1 <= inHand /\ inHand <= committed
    /\ \A d \in delivered : d <= committed

QueueInv == Numbered /\ FifoOrder

(* Taking or dropping the oldest frame.                                    *)
LEMMA TailOfQueue ==
    ASSUME NEW s \in Seq(Nat), s # <<>>
    PROVE  /\ Tail(s) \in Seq(Nat)
           /\ Head(s) = s[1]
           /\ Len(s) = Len(Tail(s)) + 1
           /\ \A i \in 1..Len(Tail(s)) : Tail(s)[i] = s[i + 1]
    BY HeadTailProperties, LenProperties, EmptySeq

(* Putting a frame back in front.                                          *)
LEMMA FrontOfQueue ==
    ASSUME NEW s \in Seq(Nat), NEW h \in Nat
    PROVE  /\ <<h>> \o s \in Seq(Nat)
           /\ Len(<<h>> \o s) = Len(s) + 1
           /\ (<<h>> \o s)[1] = h
           /\ \A i \in 2..(Len(s) + 1) : (<<h>> \o s)[i] = s[i - 1]
    BY ConcatProperties

LEMMA CommitOrder == QueueInv /\ Commit => QueueInv'
<1> SUFFICES ASSUME QueueInv, Commit PROVE QueueInv'
    OBVIOUS
<1>1. /\ backlog' \in Seq(Nat)
      /\ Len(backlog') = Len(backlog) + 1
      /\ \A i \in 1..Len(backlog) : backlog'[i] = backlog[i]
      /\ backlog'[Len(backlog) + 1] = committed + 1
    BY AppendProperties DEF QueueInv, Numbered, Commit
<1>2. \A i \in 1..Len(backlog') : i \in 1..Len(backlog) \/ i = Len(backlog) + 1
    BY <1>1, LenProperties DEF QueueInv, Numbered
<1>3. Numbered'
    BY <1>1, <1>2 DEF QueueInv, Numbered, Commit
<1>4. \A i, j \in 1..Len(backlog') : i < j => backlog'[i] < backlog'[j]
  <2> SUFFICES ASSUME NEW i \in 1..Len(backlog'), NEW j \in 1..Len(backlog'), i < j
              PROVE  backlog'[i] < backlog'[j]
      OBVIOUS
  <2>1. i \in 1..Len(backlog)
      BY <1>1, LenProperties DEF QueueInv, Numbered
  <2>2. backlog'[i] = backlog[i] /\ backlog[i] \in Nat /\ backlog[i] <= committed
      BY <1>1, <2>1, ElementOfSeq DEF QueueInv, Numbered
  <2>3. CASE j \in 1..Len(backlog)
      BY <1>1, <2>1, <2>2, <2>3 DEF QueueInv, FifoOrder
  <2>4. CASE j = Len(backlog) + 1
      BY <1>1, <2>2, <2>4 DEF QueueInv, Numbered
  <2> QED
      BY <1>2, <2>3, <2>4
<1>5. \A i \in 1..Len(backlog'), d \in delivered' : d < backlog'[i]
    BY <1>1, <1>2 DEF QueueInv, Numbered, FifoOrder, Commit
<1>6. inHand' # None =>
         /\ \A i \in 1..Len(backlog') : inHand' < backlog'[i]
         /\ \A d \in delivered' : d < inHand'
    BY <1>1, <1>2 DEF QueueInv, Numbered, FifoOrder, Commit
<1> QED
    BY <1>3, <1>4, <1>5, <1>6 DEF QueueInv, FifoOrder

LEMMA DropOrder == QueueInv /\ DropOldest => QueueInv'
<1> SUFFICES ASSUME QueueInv, DropOldest PROVE QueueInv'
    OBVIOUS
<1>1. /\ backlog' \in Seq(Nat)
      /\ Len(backlog) = Len(backlog') + 1
      /\ \A i \in 1..Len(backlog') : backlog'[i] = backlog[i + 1]
    BY TailOfQueue DEF QueueInv, Numbered, DropOldest
<1>2. \A i \in 1..Len(backlog') : i + 1 \in 1..Len(backlog)
    BY <1>1, LenProperties
<1>3. Numbered'
    BY <1>1, <1>2 DEF QueueInv, Numbered, DropOldest
<1>4. FifoOrder'
    BY <1>1, <1>2 DEF QueueInv, Numbered, FifoOrder, DropOldest
<1> QED
    BY <1>3, <1>4 DEF QueueInv

LEMMA TakeOrder == None \notin Nat /\ QueueInv /\ Take => QueueInv'
<1> SUFFICES ASSUME None \notin Nat, QueueInv, Take PROVE QueueInv'
    OBVIOUS
<1>1. /\ backlog' \in Seq(Nat)
      /\ Len(backlog) = Len(backlog') + 1
      /\ \A i \in 1..Len(backlog') : backlog'[i] = backlog[i + 1]
      /\ inHand' = backlog[1]
    BY TailOfQueue DEF QueueInv, Numbered, Take
<1>2. /\ \A i \in 1..Len(backlog') : i + 1 \in 1..Len(backlog) /\ 1 < i + 1
      /\ 1 \in 1..Len(backlog)
    BY <1>1, LenProperties
<1>3. inHand' \in Nat
    BY <1>1, <1>2, ElementOfSeq DEF QueueInv, Numbered
<1>4. Numbered'
    BY <1>1, <1>2, <1>3 DEF QueueInv, Numbered, Take
<1>5. FifoOrder'
    BY <1>1, <1>2 DEF QueueInv, Numbered, FifoOrder, Take
<1> QED
    BY <1>4, <1>5 DEF QueueInv

LEMMA ReleaseOrder == QueueInv /\ Release => QueueInv'
<1> SUFFICES ASSUME QueueInv, Release PROVE QueueInv'
    OBVIOUS
<1>1. inHand \in Nat
    BY DEF QueueInv, Numbered, Release
<1> QED
    BY <1>1 DEF QueueInv, Numbered, FifoOrder, Release

LEMMA PutBackOrder == QueueInv /\ PutBack => QueueInv'
<1> SUFFICES ASSUME QueueInv, PutBack PROVE QueueInv'
    OBVIOUS
<1>1. inHand \in Nat
    BY DEF QueueInv, Numbered, PutBack
<1>2. /\ backlog' \in Seq(Nat)
      /\ Len(backlog') = Len(backlog) + 1
      /\ backlog'[1] = inHand
      /\ \A i \in 2..(Len(backlog) + 1) : backlog'[i] = backlog[i - 1]
    BY <1>1, FrontOfQueue DEF QueueInv, Numbered, PutBack
<1>3. \A i \in 1..Len(backlog') :
         i = 1 \/ (i \in 2..(Len(backlog) + 1) /\ i - 1 \in 1..Len(backlog))
    BY <1>2, LenProperties DEF QueueInv, Numbered
<1>4. Numbered'
    BY <1>1, <1>2, <1>3 DEF QueueInv, Numbered, PutBack
<1>5. \A i, j \in 1..Len(backlog') : i < j => backlog'[i] < backlog'[j]
  <2> SUFFICES ASSUME NEW i \in 1..Len(backlog'), NEW j \in 1..Len(backlog'), i < j
              PROVE  backlog'[i] < backlog'[j]
      OBVIOUS
  <2>1. /\ j \in 2..(Len(backlog) + 1)
        /\ j - 1 \in 1..Len(backlog)
        /\ backlog'[j] = backlog[j - 1]
      BY <1>2, <1>3
  <2>2. CASE i = 1
      BY <1>1, <1>2, <2>1, <2>2 DEF QueueInv, FifoOrder, PutBack
  <2>3. CASE i \in 2..(Len(backlog) + 1) /\ i - 1 \in 1..Len(backlog)
    <3>1. backlog'[i] = backlog[i - 1] /\ i - 1 < j - 1
        BY <1>2, <2>3, SMTT(30)
    <3> QED
        BY <2>1, <2>3, <3>1 DEF QueueInv, FifoOrder
  <2> QED
      BY <1>3, <2>2, <2>3
<1>6. \A i \in 1..Len(backlog'), d \in delivered' : d < backlog'[i]
    BY <1>1, <1>2, <1>3 DEF QueueInv, Numbered, FifoOrder, PutBack
<1> QED
    BY <1>4, <1>5, <1>6 DEF QueueInv, FifoOrder, PutBack

(* Flush and Close empty the backlog, Resize leaves it alone.              *)
LEMMA OtherOrder == QueueInv /\ (Flush \/ Close \/ Resize) => QueueInv'
<1>1. ASSUME QueueInv, Flush \/ Close PROVE QueueInv'
  <2>1. /\ backlog' = <<>> /\ backlog' \in Seq(Nat) /\ Len(backlog') = 0
        /\ UNCHANGED <<committed, inHand, delivered>>
      BY <1>1, EmptySeq DEF Flush, Close
  <2>2. 1..Len(backlog') = {}
      BY <2>1
  <2> QED
      BY <1>1, <2>1, <2>2 DEF QueueInv, Numbered, FifoOrder
<1>2. QueueInv /\ Resize => QueueInv'
    BY DEF QueueInv, Numbered, FifoOrder, Resize
<1> QED
    BY <1>1, <1>2

LEMMA QueueInvariant ==
    ASSUME None \notin Nat
    PROVE  Spec => []QueueInv
<1>1. Init => QueueInv
    BY EmptySeq DEF Init, QueueInv, Numbered, FifoOrder
<1>2. QueueInv /\ [Next]_fqVars => QueueInv'
  <2> SUFFICES ASSUME QueueInv, [Next]_fqVars PROVE QueueInv'
      OBVIOUS
  <2>1. CASE UNCHANGED fqVars
      BY <2>1 DEF QueueInv, Numbered, FifoOrder, fqVars
  <2> QED
      BY <2>1, CommitOrder, DropOrder, TakeOrder, ReleaseOrder, PutBackOrder,
         OtherOrder DEF Next
<1> QED
    BY <1>1, <1>2, PTL DEF Spec

-----------------------------------------------------------------------------
(* Lost frames: committed, and neither waiting nor in hand nor delivered *)

Missing == (1..committed) \ (delivered \cup Range(backlog) \cup {inHand})

LEMMA RangeOfQueue ==
    ASSUME NEW s \in Seq(Nat), NEW x
    PROVE  x \in Range(s) <=> \E i \in 1..Len(s) : s[i] = x
BY RangeEquality

LEMMA RangeOfTail ==
    ASSUME NEW s \in Seq(Nat), s # <<>>
    PROVE  Range(s) = Range(Tail(s)) \cup {Head(s)}
<1>1. /\ Tail(s) \in Seq(Nat)
      /\ Head(s) = s[1]
      /\ Len(s) = Len(Tail(s)) + 1
      /\ \A i \in 1..Len(Tail(s)) : Tail(s)[i] = s[i + 1]
      /\ Len(Tail(s)) \in Nat
    BY TailOfQueue, LenProperties
<1>2. \A i \in 1..Len(s) : i = 1 \/ i - 1 \in 1..Len(Tail(s))
    BY <1>1
<1>3. \A i \in 1..Len(Tail(s)) : i + 1 \in 1..Len(s)
    BY <1>1
<1>4. 1 \in 1..Len(s)
    BY <1>1
<1> SUFFICES ASSUME NEW x PROVE x \in Range(s) <=> x \in Range(Tail(s)) \cup {Head(s)}
    OBVIOUS
<1>5. ASSUME x \in Range(s) PROVE x \in Range(Tail(s)) \cup {Head(s)}
  <2>1. PICK i \in 1..Len(s) : s[i] = x
      BY <1>5, RangeOfQueue
  <2>2. CASE i = 1
      BY <1>1, <2>1, <2>2
  <2>3. CASE i - 1 \in 1..Len(Tail(s))
    <3>1. Tail(s)[i - 1] = s[(i - 1) + 1] /\ (i - 1) + 1 = i
        BY <1>1, <2>3
    <3> QED
        BY <1>1, <2>1, <2>3, <3>1, RangeOfQueue
  <2> QED
      BY <1>2, <2>2, <2>3
<1>6. ASSUME x \in Range(Tail(s)) \cup {Head(s)} PROVE x \in Range(s)
  <2>1. CASE x = Head(s)
      BY <1>1, <1>4, <2>1, RangeOfQueue
  <2>2. CASE x \in Range(Tail(s))
    <3>1. PICK i \in 1..Len(Tail(s)) : Tail(s)[i] = x
        BY <1>1, <2>2, RangeOfQueue
    <3> QED
        BY <1>1, <1>3, <3>1, RangeOfQueue
  <2> QED
      BY <1>6, <2>1, <2>2
<1> QED
    BY <1>5, <1>6

LEMMA RangeOfFront ==
    ASSUME NEW s \in Seq(Nat), NEW h \in Nat
    PROVE  Range(<<h>> \o s) = Range(s) \cup {h}
<1> DEFINE t == <<h>> \o s
<1>1. t \in Seq(Nat) /\ Len(t) = Len(s) + 1 /\ Len(s) \in Nat /\ t[1] = h
    BY FrontOfQueue, LenProperties
<1>2. t # <<>> /\ Head(t) = h
    BY <1>1, EmptySeq, HeadTailProperties
<1>3. Tail(t) = s
  <2>1. /\ Tail(t) \in Seq(Nat) /\ Len(Tail(t)) = Len(s)
        /\ \A i \in 1..Len(Tail(t)) : Tail(t)[i] = t[i + 1]
      BY <1>1, <1>2, TailOfQueue, LenProperties
  <2>2. ASSUME NEW i \in 1..Len(s) PROVE t[i + 1] = s[i]
    <3>1. i + 1 \in 2..(Len(s) + 1) /\ (i + 1) - 1 = i
        BY <1>1
    <3> QED
        BY <3>1, FrontOfQueue
  <2> QED
      BY <2>1, <2>2, SeqEqual
<1> QED
    BY <1>1, <1>2, <1>3, RangeOfTail

LEMMA RangeOfAppend ==
    ASSUME NEW s \in Seq(Nat), NEW h \in Nat
    PROVE  Range(Append(s, h)) = Range(s) \cup {h}
<1>1. /\ Append(s, h) \in Seq(Nat)
      /\ Len(Append(s, h)) = Len(s) + 1
      /\ \A i \in 1..Len(s) : Append(s, h)[i] = s[i]
      /\ Append(s, h)[Len(s) + 1] = h
      /\ Len(s) \in Nat
    BY AppendProperties, LenProperties
<1>2. \A i \in 1..(Len(s) + 1) : i \in 1..Len(s) \/ i = Len(s) + 1
    BY <1>1
<1> SUFFICES ASSUME NEW x PROVE x \in Range(Append(s, h)) <=> x \in Range(s) \cup {h}
    OBVIOUS
<1>3. x \in Range(Append(s, h)) <=> \E i \in 1..(Len(s) + 1) : Append(s, h)[i] = x
    BY <1>1, RangeOfQueue, ZenonT(60)
<1>4. x \in Range(s) <=> \E i \in 1..Len(s) : s[i] = x
    BY RangeOfQueue
<1> QED
    BY <1>1, <1>2, <1>3, <1>4

(* Appending, taking, putting back and delivering lose nothing.            *)
LEMMA NothingMissing ==
    ASSUME None \notin Nat, QueueInv, Commit \/ Take \/ Release \/ PutBack \/ Resize
    PROVE  Missing' = Missing
<1>1. /\ backlog \in Seq(Nat) /\ committed \in Nat /\ inHand \in Nat \cup {None}
      /\ delivered \subseteq Nat
    BY DEF QueueInv, Numbered
<1>2. CASE Commit
  <2>1. Range(backlog') = Range(backlog) \cup {committed + 1}
      BY <1>1, <1>2, RangeOfAppend DEF Commit
  <2>2. 1..committed' = (1..committed) \cup {committed + 1}
      BY <1>1, <1>2 DEF Commit
  <2>3. committed + 1 \notin 1..committed
      BY <1>1
  <2> QED
      BY <1>2, <2>1, <2>2, <2>3 DEF Commit, Missing
<1>3. CASE Take
  <2>1. Range(backlog) = Range(backlog') \cup {inHand'}
      BY <1>1, <1>3, RangeOfTail DEF Take
  <2>2. inHand \notin 1..committed
      BY <1>1, <1>3 DEF Take
  <2> QED
      BY <1>3, <2>1, <2>2 DEF Take, Missing
<1>4. CASE Release
    BY <1>1, <1>4 DEF Release, Missing
<1>5. CASE PutBack
  <2>1. Range(backlog') = Range(backlog) \cup {inHand}
      BY <1>1, <1>5, RangeOfFront DEF PutBack
  <2>2. inHand' \notin 1..committed
      BY <1>1, <1>5 DEF PutBack
  <2> QED
      BY <1>5, <2>1, <2>2 DEF PutBack, Missing
<1>6. CASE Resize
    BY <1>6 DEF Resize, Missing
<1> QED
    BY <1>2, <1>3, <1>4, <1>5, <1>6

(* Dropping loses one frame, and that was not lost before.                 *)
LEMMA DropMissing ==
    ASSUME None \notin Nat, QueueInv, DropOldest
    PROVE  /\ Missing' = Missing \cup {Head(backlog)}
           /\ Head(backlog) \notin Missing
<1>1. backlog \in Seq(Nat) /\ backlog # <<>>
    BY DEF QueueInv, Numbered, DropOldest
<1>2. /\ Tail(backlog) \in Seq(Nat)
      /\ Head(backlog) = backlog[1]
      /\ Len(backlog) = Len(Tail(backlog)) + 1
      /\ \A i \in 1..Len(Tail(backlog)) : Tail(backlog)[i] = backlog[i + 1]
      /\ Len(Tail(backlog)) \in Nat
    BY <1>1, TailOfQueue, LenProperties
<1>3. 1 \in 1..Len(backlog) /\ \A i \in 1..Len(Tail(backlog)) : i + 1 \in 1..Len(backlog) /\ 1 < i + 1
    BY <1>2
<1>4. Head(backlog) \in 1..committed
    BY <1>1, <1>2, <1>3, ElementOfSeq DEF QueueInv, Numbered
<1>5. Head(backlog) \notin delivered /\ Head(backlog) # inHand
    BY <1>2, <1>3, <1>4 DEF QueueInv, Numbered, FifoOrder
<1>6. Head(backlog) \notin Range(Tail(backlog))
  <2> SUFFICES ASSUME Head(backlog) \in Range(Tail(backlog)) PROVE FALSE
      OBVIOUS
  <2>1. PICK i \in 1..Len(Tail(backlog)) : Tail(backlog)[i] = Head(backlog)
      BY <1>2, RangeOfQueue
  <2>2. backlog[1] < backlog[i + 1]
      BY <1>3 DEF QueueInv, FifoOrder
  <2> QED
      BY <1>2, <1>4, <2>1, <2>2
<1>7. Range(backlog) = Range(backlog') \cup {Head(backlog)} /\ backlog' = Tail(backlog)
    BY <1>1, RangeOfTail DEF DropOldest
<1> QED
    BY <1>4, <1>5, <1>6, <1>7 DEF DropOldest, Missing

(* Flushing may lose the backlog; nothing that was lost comes back.        *)
LEMMA FlushMissing == Flush \/ Close => Missing \subseteq Missing'
<1> SUFFICES ASSUME Flush \/ Close PROVE Missing \subseteq Missing'
    OBVIOUS
<1>1. backlog' = <<>> /\ UNCHANGED <<committed, inHand, delivered>>
    BY DEF Flush, Close
<1>2. Range(backlog') = {}
    BY <1>1 DEF Range
<1> QED
    BY <1>1, <1>2 DEF Missing

-----------------------------------------------------------------------------
(* Whatever is appended, dropped, taken, put back and flushed, the frames  *)
(* reach the consumer in the order of their commits and at most once: what *)
(* buffer.c promises RELAY by BUF_commitFrame(), BUF_getFrame() and        *)
(* BUF_putFrame().                                                         *)
THEOREM DeliversInOrder ==
    ASSUME None \notin Nat
    PROVE  Spec => []FifoOrder
<1>1. QueueInv => FifoOrder
    BY DEF QueueInv
<1> QED
    BY <1>1, QueueInvariant, PTL
=============================================================================
