-------------------------- MODULE BufferRefinement --------------------------
(***************************************************************************)
(* The frame buffer implements the lossy FIFO (Buffer, FrameQueue), for    *)
(* every configuration: each step of buffer.c is a step of FrameQueue or   *)
(* invisible to it.  What is proved of the FIFO then holds of the buffer,  *)
(* and every frame that is lost is accounted for.                          *)
(***************************************************************************)
EXTENDS BufferProofs

(* Contents of the frames: a frame that is neither queued nor held has     *)
(* none, and the producer's frame is empty or the next to be committed.    *)
DataInv ==
    /\ \A f \in Frames : f \notin Range(queue) \cup Held => data[f] = Garbage
    /\ newFrame # NULL => data[newFrame] \in {Garbage, committed + 1}
    /\ \A f \in Range(queue) \cup ({currentFrame} \ {NULL}) : data[f] # Garbage

RInv == IInv /\ DataInv

-----------------------------------------------------------------------------
(* The contents of a sequence of frames *)

Contents(s, d) == [i \in 1..Len(s) |-> d[s[i]]]

LEMMA ContentsType ==
    ASSUME NEW s \in Seq(Frames), NEW d \in [Frames -> Nat]
    PROVE  /\ Contents(s, d) \in Seq(Nat)
           /\ Len(Contents(s, d)) = Len(s)
           /\ \A i \in 1..Len(s) : Contents(s, d)[i] = d[s[i]] /\ s[i] \in Frames
<1>1. Len(s) \in Nat /\ \A i \in 1..Len(s) : s[i] \in Frames
    BY LenProperties, ElementOfSeq
<1>2. Contents(s, d) \in [1..Len(s) -> Nat]
    BY <1>1 DEF Contents
<1>3. Contents(s, d) \in Seq(Nat)
    BY <1>1, <1>2, SeqDef
<1>4. DOMAIN Contents(s, d) = 1..Len(s)
    BY DEF Contents
<1>5. Len(Contents(s, d)) = Len(s)
    BY <1>1, <1>3, <1>4, LenProperties
<1> QED
    BY <1>1, <1>3, <1>5 DEF Contents

(* Only the contents of the frames of the sequence matter.                 *)
LEMMA ContentsAgree ==
    ASSUME NEW s \in Seq(Frames), NEW d \in [Frames -> Nat], NEW e \in [Frames -> Nat],
           \A f \in Range(s) : e[f] = d[f]
    PROVE  Contents(s, e) = Contents(s, d)
<1>1. \A i \in 1..Len(s) : s[i] \in Range(s)
    BY RangeMember
<1> QED
    BY <1>1 DEF Contents

LEMMA ContentsAppend ==
    ASSUME NEW s \in Seq(Frames), NEW d \in [Frames -> Nat], NEW f \in Frames
    PROVE  Contents(Append(s, f), d) = Append(Contents(s, d), d[f])
<1> DEFINE t == Append(s, f)
           u == Append(Contents(s, d), d[f])
<1>1. /\ t \in Seq(Frames) /\ Len(t) = Len(s) + 1 /\ t[Len(s) + 1] = f
      /\ \A i \in 1..Len(s) : t[i] = s[i]
      /\ Len(s) \in Nat
    BY AppendProperties, LenProperties
<1>2. /\ Contents(s, d) \in Seq(Nat) /\ Len(Contents(s, d)) = Len(s)
      /\ \A i \in 1..Len(s) : Contents(s, d)[i] = d[s[i]]
    BY ContentsType
<1>3. /\ u \in Seq(Nat) /\ Len(u) = Len(s) + 1 /\ u[Len(s) + 1] = d[f]
      /\ \A i \in 1..Len(s) : u[i] = d[s[i]]
    BY <1>2, AppendProperties
<1> HIDE DEF t, u
<1>4. /\ Contents(t, d) \in Seq(Nat) /\ Len(Contents(t, d)) = Len(t)
      /\ \A i \in 1..Len(t) : Contents(t, d)[i] = d[t[i]]
    BY <1>1, ContentsType
<1>5. \A i \in 1..Len(t) : i \in 1..Len(s) \/ i = Len(s) + 1
    BY <1>1
<1>6. ASSUME NEW i \in 1..Len(t) PROVE Contents(t, d)[i] = u[i]
  <2>1. CASE i \in 1..Len(s)
    <3>1. Contents(t, d)[i] = d[t[i]]
        BY <1>4
    <3>2. t[i] = s[i]
        BY <1>1, <2>1
    <3>3. u[i] = d[s[i]]
        BY <1>3, <2>1
    <3> QED
        BY <3>1, <3>2, <3>3
  <2>2. CASE i = Len(s) + 1
      BY <1>1, <1>3, <1>4, <2>2
  <2> QED
      BY <1>5, <2>1, <2>2
<1>7. Contents(t, d) = u
    BY <1>1, <1>3, <1>4, <1>6, SeqEqual
<1> QED
    BY <1>7 DEF t, u

LEMMA ContentsTail ==
    ASSUME NEW s \in Seq(Frames), s # <<>>, NEW d \in [Frames -> Nat]
    PROVE  /\ Contents(s, d) # <<>>
           /\ Head(Contents(s, d)) = d[Head(s)]
           /\ Tail(Contents(s, d)) = Contents(Tail(s), d)
<1> DEFINE t == Tail(s)
           c == Contents(s, d)
<1>1. /\ t \in Seq(Frames) /\ Len(t) = Len(s) - 1
      /\ \A i \in 1..Len(t) : t[i] = s[i + 1]
      /\ Len(s) \in Nat \ {0}
      /\ Head(s) = s[1]
    BY HeadTailProperties, EmptySeq
<1>2. /\ c \in Seq(Nat) /\ Len(c) = Len(s)
      /\ \A i \in 1..Len(s) : c[i] = d[s[i]]
    BY ContentsType
<1> HIDE DEF t, c
<1>3. c # <<>>
    BY <1>1, <1>2, EmptySeq
<1>4. /\ Tail(c) \in Seq(Nat) /\ Len(Tail(c)) = Len(s) - 1
      /\ \A i \in 1..Len(Tail(c)) : Tail(c)[i] = c[i + 1]
      /\ Head(c) = c[1]
    BY <1>2, <1>3, HeadTailProperties
<1>5. /\ Contents(t, d) \in Seq(Nat) /\ Len(Contents(t, d)) = Len(t)
      /\ \A i \in 1..Len(t) : Contents(t, d)[i] = d[t[i]]
    BY <1>1, ContentsType
<1>6. \A i \in 1..Len(t) : i + 1 \in 1..Len(s)
    BY <1>1
<1>7. ASSUME NEW i \in 1..Len(t) PROVE Tail(c)[i] = Contents(t, d)[i]
  <2>1. i + 1 \in 1..Len(s) /\ i \in 1..Len(Tail(c))
      BY <1>1, <1>4, <1>6
  <2>2. Tail(c)[i] = c[i + 1] /\ c[i + 1] = d[s[i + 1]]
      BY <1>2, <1>4, <2>1
  <2>3. Contents(t, d)[i] = d[s[i + 1]]
      BY <1>1, <1>5
  <2> QED
      BY <2>2, <2>3
<1>8. Tail(c) = Contents(t, d)
    BY <1>1, <1>4, <1>5, <1>7, SeqEqual
<1>9. Head(c) = d[Head(s)]
    BY <1>1, <1>2, <1>4
<1> QED
    BY <1>3, <1>8, <1>9 DEF t, c

LEMMA ContentsFront ==
    ASSUME NEW s \in Seq(Frames), NEW d \in [Frames -> Nat], NEW f \in Frames
    PROVE  Contents(<<f>> \o s, d) = <<d[f]>> \o Contents(s, d)
<1> DEFINE t == <<f>> \o s
           u == <<d[f]>> \o Contents(s, d)
<1>1. /\ t \in Seq(Frames) /\ Len(t) = Len(s) + 1 /\ t[1] = f
      /\ \A i \in 2..(Len(s) + 1) : t[i] = s[i - 1]
      /\ Len(s) \in Nat
    BY ConcatProperties, LenProperties
<1>2. /\ Contents(s, d) \in Seq(Nat) /\ Len(Contents(s, d)) = Len(s)
      /\ \A i \in 1..Len(s) : Contents(s, d)[i] = d[s[i]]
    BY ContentsType
<1>3. /\ u \in Seq(Nat) /\ Len(u) = Len(s) + 1 /\ u[1] = d[f]
      /\ \A i \in 2..(Len(s) + 1) : u[i] = Contents(s, d)[i - 1]
    BY <1>1, <1>2, ConcatProperties
<1> HIDE DEF t, u
<1>4. /\ Contents(t, d) \in Seq(Nat) /\ Len(Contents(t, d)) = Len(t)
      /\ \A i \in 1..Len(t) : Contents(t, d)[i] = d[t[i]]
    BY <1>1, ContentsType
<1>5. \A i \in 1..Len(t) : i = 1 \/ (i \in 2..(Len(s) + 1) /\ i - 1 \in 1..Len(s))
    BY <1>1
<1>6. ASSUME NEW i \in 1..Len(t) PROVE Contents(t, d)[i] = u[i]
  <2>1. CASE i = 1
      BY <1>1, <1>3, <1>4, <2>1
  <2>2. CASE i \in 2..(Len(s) + 1) /\ i - 1 \in 1..Len(s)
    <3>1. t[i] = s[i - 1] /\ u[i] = Contents(s, d)[i - 1]
        BY <1>1, <1>3, <2>2
    <3>2. Contents(s, d)[i - 1] = d[s[i - 1]]
        BY <1>2, <2>2
    <3> QED
        BY <1>4, <3>1, <3>2
  <2> QED
      BY <1>5, <2>1, <2>2
<1>7. Contents(t, d) = u
    BY <1>1, <1>3, <1>4, <1>6, SeqEqual
<1> QED
    BY <1>7 DEF t, u

-----------------------------------------------------------------------------
(* The capacity *)

LEMMA AllocatedFinite ==
    ASSUME NEW P \in SUBSET DynPoolIds
    PROVE  /\ IsFiniteSet(PoolFrames(StaticPool) \cup UNION {PoolFrames(p) : p \in P})
           /\ Cardinality(PoolFrames(StaticPool) \cup UNION {PoolFrames(p) : p \in P}) \in Nat
           /\ Cardinality({}) \in Nat
<1> DEFINE A == PoolFrames(StaticPool) \cup UNION {PoolFrames(p) : p \in P}
           B == (0..DynMaxPools) \X (1..(StatBacklog + DynBacklog))
<1>1. DynMaxPools \in Nat /\ StatBacklog \in Nat /\ DynBacklog \in Nat
    BY BufferAssumption DEF DynMaxPools, StatBacklog
<1>2. IsFiniteSet(0..DynMaxPools) /\ IsFiniteSet(1..(StatBacklog + DynBacklog))
    BY <1>1, FS_Interval
<1>3. IsFiniteSet(B)
    BY <1>2, FS_Product
<1>4. \A p \in DynPoolIds \cup {StaticPool} : PoolFrames(p) \subseteq B
    BY <1>1 DEF PoolFrames, DynPoolIds, StaticPool
<1>5. A \subseteq B
    BY <1>4
<1>6. IsFiniteSet(A)
    BY <1>3, <1>5, FS_Subset
<1> QED
    BY <1>6, FS_CardinalityType, FS_EmptySet

LEMMA CapacityType == TypeOK => IsFiniteSet(Allocated) /\ Cardinality(Allocated) \in Nat
BY AllocatedFinite, FS_EmptySet DEF TypeOK, Allocated

LEMMA CapacityTypeNext == TypeOK' => Cardinality(Allocated') \in Nat
BY AllocatedFinite, FS_EmptySet DEF TypeOK, Allocated

(* A queue occupies at most as many frames as it is long.                  *)
LEMMA QueueOccupies ==
    ASSUME NEW s \in Seq(Frames)
    PROVE  IsFiniteSet(Range(s)) /\ Cardinality(Range(s)) <= Len(s) /\ Cardinality(Range(s)) \in Nat
<1>1. Len(s) \in Nat /\ s \in [1..Len(s) -> Frames] /\ DOMAIN s = 1..Len(s)
    BY LenProperties
<1>2. s \in Surjection(1..Len(s), Range(s))
    BY <1>1 DEF Surjection, Range
<1>3. ExistsSurjection(1..Len(s), Range(s))
    BY <1>2 DEF ExistsSurjection
<1>4. IsFiniteSet(Range(s))
    BY <1>1, <1>3, FS_NatSurjection
<1> QED
    BY <1>1, <1>3, <1>4, FS_SurjCardinalityBound, FS_CardinalityType

(* When getFrameFromPool() sacrifices a frame, the queue and the consumer  *)
(* occupy all there is.                                                    *)
LEMMA AllOccupied ==
    ASSUME IInv, status = "up", newFrame = NULL, PoolIsEmpty
    PROVE  Cardinality(Allocated) <= Len(queue) + (IF currentFrame = NULL THEN 0 ELSE 1)
<1>1. Allocated \subseteq Range(queue) \cup Held
  <2> SUFFICES ASSUME NEW f \in Allocated PROVE f \in Range(queue) \cup Held
      OBVIOUS
  <2>1. f \in Frames
      BY FramesOfPools DEF Allocated, IInv, TypeOK
  <2>2. ASSUME NEW p \in DynPoolIds, f \in collect[p] PROVE FALSE
    <3>1. f \in PoolFrames(p) /\ p # StaticPool
        BY <2>2, FramesOfPools DEF IInv, SingleOwner
    <3>2. p \in dynPools
        BY <3>1, PoolsDisjoint DEF Allocated
    <3> QED
        BY <2>2, <3>2 DEF PoolIsEmpty, Uncollectable
  <2> QED
      BY <2>1, <2>2 DEF IInv, NoLeakNoDangling, PoolIsEmpty
<1>2. /\ IsFiniteSet(Range(queue)) /\ Cardinality(Range(queue)) <= Len(queue)
      /\ Cardinality(Range(queue)) \in Nat /\ Len(queue) \in Nat
    BY QueueOccupies, LenProperties DEF IInv, TypeOK
<1>3. IsFiniteSet(Allocated) /\ Cardinality(Allocated) \in Nat
    BY CapacityType DEF IInv
<1>4. CASE currentFrame = NULL
  <2>1. Allocated \subseteq Range(queue)
      BY <1>1, <1>4 DEF Held
  <2> QED
      BY <1>2, <1>3, <1>4, <2>1, FS_Subset
<1>5. CASE currentFrame # NULL
  <2>1. Allocated \subseteq Range(queue) \cup {currentFrame}
      BY <1>1 DEF Held
  <2>2. /\ IsFiniteSet(Range(queue) \cup {currentFrame})
        /\ Cardinality(Range(queue) \cup {currentFrame}) <= Cardinality(Range(queue)) + 1
        /\ Cardinality(Range(queue) \cup {currentFrame}) \in Nat
    <3>1. /\ IsFiniteSet(Range(queue) \cup {currentFrame})
          /\ Cardinality(Range(queue) \cup {currentFrame}) =
                 IF currentFrame \in Range(queue) THEN Cardinality(Range(queue))
                                                 ELSE Cardinality(Range(queue)) + 1
        BY <1>2, FS_AddElement, Zenon
    <3> QED
        BY <1>2, <3>1
  <2>3. Cardinality(Allocated) <= Cardinality(Range(queue) \cup {currentFrame})
      BY <2>1, <2>2, FS_Subset
  <2> QED
      BY <1>2, <1>3, <1>5, <2>2, <2>3
<1> QED
    BY <1>4, <1>5

-----------------------------------------------------------------------------
(* Steps that FrameQueue does not see, except for the capacity *)

Quiet == Backlog' = Backlog /\ InHand' = InHand /\ UNCHANGED <<committed, delivered>>

LEMMA QuietResizes ==
    ASSUME IInv', Quiet
    PROVE  FQ!Resize
BY CapacityTypeNext DEF IInv, Quiet, FQ!Resize

(* Neither the queue nor the frame in hand nor their contents change.      *)
LEMMA QuietFrame ==
    ASSUME RInv, IInv', UNCHANGED <<queue, currentFrame, committed, delivered>>,
           \A f \in Range(queue) \cup ({currentFrame} \ {NULL}) : data'[f] = data[f]
    PROVE  Quiet
<1>1. queue \in Seq(Frames) /\ data \in [Frames -> Nat] /\ data' \in [Frames -> Nat]
    BY DEF RInv, IInv, TypeOK
<1>2. Contents(queue, data') = Contents(queue, data)
    BY <1>1, ContentsAgree
<1>3. Backlog' = Backlog
    BY <1>2 DEF Backlog, Contents
<1>4. InHand' = InHand
    BY DEF InHand
<1> QED
    BY <1>3, <1>4 DEF Quiet

LEMMA DataFrame ==
    ASSUME RInv, UNCHANGED <<queue, newFrame, currentFrame, committed, data>>
    PROVE  DataInv'
BY DEF RInv, DataInv, Held

LEMMA FramesOfQueue ==
    ASSUME NEW s \in Seq(Frames)
    PROVE  Range(s) \subseteq Frames
BY RangeMember, ElementOfSeq

-----------------------------------------------------------------------------
(* The producer *)

(* A frame that was nobody's is empty.                                     *)
LEMMA ObtainsStep ==
    ASSUME RInv, IInv', Obtains, newFrame' \in Frames \ (Range(queue) \cup Held),
           UNCHANGED <<queue, data>>
    PROVE  DataInv' /\ FQ!Resize
<1>1. Quiet
    BY QuietFrame DEF Obtains, consVars
<1>2. DataInv'
    BY DEF RInv, DataInv, Held, Obtains, consVars
<1> QED
    BY <1>1, <1>2, QuietResizes

(* BUF_newFrame() sacrifices the oldest frame of the queue.                *)
LEMMA FromQueueStep ==
    ASSUME RInv, IInv', Obtains, PoolIsEmpty, queue # <<>>, FromQueue
    PROVE  DataInv' /\ FQ!DropOldest
<1>1. queue \in Seq(Frames) /\ IsInjective(queue) /\ data \in [Frames -> Nat] /\ data' \in [Frames -> Nat]
    BY DEF RInv, IInv, TypeOK, SingleOwner
<1>2. /\ queue' \in Seq(Frames)
      /\ newFrame' \in Frames
      /\ newFrame' \in Range(queue)
      /\ Range(queue') = Range(queue) \ {newFrame'}
    BY <1>1, PopFront DEF FromQueue
<1>3. currentFrame' = currentFrame /\ currentFrame # newFrame' /\ newFrame' # NULL
    BY <1>2, NullAssumption DEF RInv, IInv, SingleOwner, Held, Obtains, consVars
<1>4. data'[newFrame'] = Garbage /\ \A f \in Frames : f # newFrame' => data'[f] = data[f]
    BY <1>1, <1>2 DEF FromQueue
<1>5. DataInv'
  <2>1. \A f \in Frames : f \notin Range(queue') \cup Held' => data'[f] = Garbage
      BY <1>2, <1>3, <1>4 DEF RInv, DataInv, Held, Obtains
  <2>2. \A f \in Range(queue') \cup ({currentFrame'} \ {NULL}) : data'[f] # Garbage
      BY <1>2, <1>3, <1>4, FramesOfQueue DEF RInv, DataInv, IInv, TypeOK
  <2> QED
      BY <1>3, <1>4, <2>1, <2>2 DEF DataInv
<1>6. Backlog' = Tail(Backlog) /\ Backlog # <<>>
  <2>1. Contents(queue', data') = Contents(queue', data)
      BY <1>1, <1>2, <1>4, ContentsAgree, FramesOfQueue
  <2>2. Contents(queue, data) # <<>> /\ Tail(Contents(queue, data)) = Contents(queue', data)
      BY <1>1, ContentsTail DEF FromQueue
  <2> QED
      BY <2>1, <2>2 DEF Backlog, Contents
<1>7. InHand' = InHand
    BY <1>3, <1>4 DEF InHand, RInv, IInv, TypeOK
<1>8. Cardinality(Allocated') = Cardinality(Allocated)
    BY <1>3 DEF Obtains, FromQueue, Allocated
<1>9. FQ!Occupied >= Cardinality(Allocated)
  <2>1. Len(Backlog) = Len(queue)
      BY <1>1, ContentsType DEF Backlog, Contents
  <2>2. InHand = NULL <=> currentFrame = NULL
      BY NullAssumption DEF InHand, RInv, IInv, TypeOK
  <2>3. Cardinality(Allocated) <= Len(queue) + (IF currentFrame = NULL THEN 0 ELSE 1)
      BY AllOccupied DEF RInv, Obtains
  <2>4. Cardinality(Allocated) \in Nat /\ Len(queue) \in Nat
      BY <1>1, CapacityType, LenProperties DEF RInv, IInv
  <2> QED
      BY <2>1, <2>2, <2>3, <2>4 DEF FQ!Occupied
<1>10. FQ!DropOldest
    BY <1>6, <1>7, <1>8, <1>9 DEF FQ!DropOldest, Obtains
<1> QED
    BY <1>5, <1>10

LEMMA NewFrameStep ==
    ASSUME RInv, IInv', BUF_newFrame
    PROVE  /\ DataInv'
           /\ \/ FQ!Resize /\ stats'.discardedAll = stats.discardedAll
              \/ FQ!DropOldest /\ stats'.discardedAll = stats.discardedAll + 1
<1>1. CASE NoFrameAvailable /\ Die("aborted")
    BY <1>1, DataFrame, QuietFrame, QuietResizes DEF Die, ghostVars
<1>2. CASE ~(NoFrameAvailable /\ Die("aborted"))
  <2>1. Obtains /\ GetFrameFromPool
      BY <1>2 DEF BUF_newFrame, Obtains
  <2>0. /\ FromPool \/ FromCollected \/ FromNewDynPool => stats'.discardedAll = stats.discardedAll
        /\ FromQueue => stats'.discardedAll = stats.discardedAll + 1
      BY DEF RInv, IInv, TypeOK, StatsType, FromPool, FromCollected, FromNewDynPool, FromQueue
  <2>2. CASE FromPool
      BY <2>1, <2>2, ObtainsStep, <2>0 DEF FromPool, RInv, IInv, TypeOK, SingleOwner
  <2>3. CASE FromCollected
      BY <2>1, <2>3, ObtainsStep, <2>0 DEF FromCollected, Uncollectable, RInv, IInv, TypeOK, SingleOwner
  <2>4. CASE dynPools # DynPoolIds /\ FromNewDynPool
    <3>1. NewPoolId \in DynPoolIds \ dynPools /\ NewPoolId # StaticPool
        BY <2>4, NewPoolIsNew, FramesOfPools DEF RInv, IInv, TypeOK
    <3>2. newFrame' \in PoolFrames(NewPoolId) /\ newFrame' \in Frames
        BY <2>4, <3>1, FramesOfPools DEF FromNewDynPool
    <3>3. newFrame' \notin Allocated
        BY <3>1, <3>2, PoolsDisjoint DEF Allocated
    <3> QED
        BY <2>1, <2>4, <3>2, <3>3, ObtainsStep, <2>0 DEF FromNewDynPool, RInv, IInv, NoLeakNoDangling
  <2>5. CASE PoolIsEmpty /\ queue # <<>> /\ FromQueue
      BY <2>1, <2>5, <2>0, FromQueueStep
  <2> QED
      BY <2>1, <2>2, <2>3, <2>4, <2>5 DEF GetFrameFromPool, CanCreate
<1> QED
    BY <1>1, <1>2

(* The producer writes into its own frame.                                 *)
LEMMA FillStep ==
    ASSUME RInv, IInv', FillFrame
    PROVE  DataInv' /\ FQ!Resize
<1>1. /\ newFrame \in Frames /\ newFrame # NULL /\ data \in [Frames -> Nat]
      /\ newFrame \notin Range(queue) /\ newFrame # currentFrame
    BY DEF FillFrame, RInv, IInv, TypeOK, SingleOwner, Held
<1>2. /\ data'[newFrame] = committed + 1
      /\ \A f \in Frames : f # newFrame => data'[f] = data[f]
      /\ UNCHANGED <<queue, newFrame, currentFrame, committed, delivered>>
    BY <1>1 DEF FillFrame, memVars, consVars
<1>3. \A f \in Range(queue) \cup ({currentFrame} \ {NULL}) : f \in Frames /\ f # newFrame
    BY <1>1, FramesOfQueue DEF RInv, IInv, TypeOK
<1>4. Quiet
    BY <1>2, <1>3, QuietFrame
<1>5. DataInv'
  <2>1. Held' = Held /\ newFrame \in Held
      BY <1>1, <1>2 DEF Held
  <2>2. \A f \in Frames : f \notin Range(queue') \cup Held' => data'[f] = Garbage
      BY <1>2, <2>1 DEF RInv, DataInv
  <2>3. \A f \in Range(queue') \cup ({currentFrame'} \ {NULL}) : data'[f] # Garbage
      BY <1>2, <1>3 DEF RInv, DataInv
  <2> QED
      BY <1>2, <2>2, <2>3 DEF DataInv
<1> QED
    BY <1>4, <1>5, QuietResizes

LEMMA CommitStep ==
    ASSUME RInv, IInv', BUF_commitFrame
    PROVE  DataInv' /\ FQ!Commit
<1>1. /\ newFrame \in Frames /\ data \in [Frames -> Nat] /\ queue \in Seq(Frames)
      /\ newFrame # currentFrame
      /\ data[newFrame] = committed + 1
      /\ committed \in Nat
    BY DEF BUF_commitFrame, RInv, DataInv, IInv, TypeOK, SingleOwner
<1>2. /\ queue' = Append(queue, newFrame)
      /\ newFrame' = NULL /\ committed' = committed + 1
      /\ UNCHANGED <<currentFrame, data, delivered, status, dynPools>>
    BY DEF BUF_commitFrame
<1>3. Range(queue') = Range(queue) \cup {newFrame}
    BY <1>1, <1>2, PushBack
<1>4. DataInv'
    BY <1>1, <1>2, <1>3 DEF RInv, DataInv, Held, Garbage
<1>5. Backlog' = Append(Backlog, committed + 1)
    BY <1>1, <1>2, ContentsAppend DEF Backlog, Contents
<1>6. InHand' = InHand /\ Cardinality(Allocated') = Cardinality(Allocated)
    BY <1>2 DEF InHand, Allocated
<1> QED
    BY <1>2, <1>4, <1>5, <1>6 DEF FQ!Commit

LEMMA AbortFrameStep ==
    ASSUME RInv, IInv', BUF_abortFrame
    PROVE  DataInv' /\ FQ!Resize
<1>1. /\ newFrame \in Frames /\ data \in [Frames -> Nat]
      /\ newFrame \notin Range(queue) /\ newFrame # currentFrame
    BY DEF BUF_abortFrame, RInv, IInv, TypeOK, SingleOwner, Held
<1>2. /\ data'[newFrame] = Garbage
      /\ \A f \in Frames : f # newFrame => data'[f] = data[f]
      /\ newFrame' = NULL
      /\ UNCHANGED <<queue, currentFrame, committed, delivered>>
    BY <1>1 DEF BUF_abortFrame, consVars
<1>3. \A f \in Range(queue) \cup ({currentFrame} \ {NULL}) : f \in Frames /\ f # newFrame
    BY <1>1, FramesOfQueue DEF RInv, IInv, TypeOK
<1>4. Quiet
    BY <1>2, <1>3, QuietFrame
<1>5. DataInv'
    BY <1>1, <1>2, <1>3 DEF RInv, DataInv, Held
<1> QED
    BY <1>4, <1>5, QuietResizes

-----------------------------------------------------------------------------
(* The consumer *)

LEMMA TakeStep ==
    ASSUME RInv, IInv', currentFrame = NULL, queue # <<>>, TakeOldest
    PROVE  DataInv' /\ FQ!Take
<1>1. queue \in Seq(Frames) /\ IsInjective(queue) /\ data \in [Frames -> Nat]
    BY DEF RInv, IInv, TypeOK, SingleOwner
<1>2. /\ currentFrame' = Head(queue) /\ queue' = Tail(queue)
      /\ UNCHANGED <<newFrame, dynPools, status, data, committed, delivered>>
    BY DEF TakeOldest, memVars, ghostVars
<1>3. /\ currentFrame' \in Frames
      /\ currentFrame' \in Range(queue)
      /\ Range(queue') = Range(queue) \ {currentFrame'}
      /\ currentFrame' # NULL
    BY <1>1, <1>2, PopFront, NullAssumption
<1>4. DataInv'
    BY <1>2, <1>3 DEF RInv, DataInv, Held
<1>5. /\ Backlog # <<>>
      /\ Head(Backlog) = data[Head(queue)]
      /\ Backlog' = Tail(Backlog)
    BY <1>1, <1>2, ContentsTail, SMTT(30) DEF Backlog, Contents
<1>6. InHand = NULL /\ InHand' = Head(Backlog)
    BY <1>2, <1>3, <1>5 DEF InHand
<1>7. Cardinality(Allocated') = Cardinality(Allocated)
    BY <1>2 DEF Allocated
<1> QED
    BY <1>2, <1>4, <1>5, <1>6, <1>7 DEF FQ!Take

(* The wait loop, a timeout and a reset of the statistics are invisible.   *)
LEMMA QuietStep ==
    ASSUME RInv, IInv', UNCHANGED <<queue, newFrame, currentFrame, ghostVars>>
    PROVE  DataInv' /\ FQ!Resize
<1>1. UNCHANGED <<data, committed, delivered>>
    BY DEF ghostVars
<1>2. Quiet
    BY <1>1, QuietFrame
<1> QED
    BY <1>1, <1>2, DataFrame, QuietResizes

LEMMA WaitStep ==
    ASSUME RInv, IInv',
           \/ BUF_getFrame \/ BUF_getFrameTimeout \/ Wakeup \/ SpuriousWakeup
           \/ WaitTimesOut \/ WaitCancelled
    PROVE  DataInv' /\ (FQ!Take \/ FQ!Resize)
<1>1. \/ currentFrame = NULL /\ queue # <<>> /\ TakeOldest
      \/ UNCHANGED <<queue, newFrame, currentFrame, ghostVars>>
    BY DEF BUF_getFrame, BUF_getFrameTimeout, GetOrWait, Wakeup, SpuriousWakeup, WaitReturns,
       WaitTimesOut, WaitCancelled, WaitEnds, memVars, RInv, IInv, SleepsEmptyHanded
<1> QED
    BY <1>1, TakeStep, QuietStep

LEMMA ReleaseStep ==
    ASSUME RInv, IInv', BUF_releaseFrame
    PROVE  DataInv' /\ FQ!Release
<1>1. /\ currentFrame \in Frames /\ currentFrame # NULL
      /\ queue \in Seq(Frames)
      /\ data \in [Frames -> Nat] /\ data' \in [Frames -> Nat]
      /\ currentFrame \notin Range(queue) /\ currentFrame # newFrame
    BY DEF BUF_releaseFrame, RInv, IInv, TypeOK, SingleOwner, Held
<1>2. /\ data'[currentFrame] = Garbage
      /\ \A f \in Frames : f # currentFrame => data'[f] = data[f]
      /\ currentFrame' = NULL
      /\ delivered' = delivered \cup {data[currentFrame]}
      /\ UNCHANGED <<queue, newFrame, committed, status, dynPools>>
    BY <1>1 DEF BUF_releaseFrame
<1>3. \A f \in Range(queue) : f \in Frames /\ f # currentFrame
    BY <1>1, FramesOfQueue
<1>4. DataInv'
  <2>1. \A f \in Frames : f \notin Range(queue') \cup Held' => data'[f] = Garbage
      BY <1>1, <1>2 DEF RInv, DataInv, Held
  <2>2. newFrame' # NULL => data'[newFrame'] \in {Garbage, committed' + 1}
      BY <1>1, <1>2 DEF RInv, DataInv, IInv, TypeOK
  <2>3. \A f \in Range(queue') \cup ({currentFrame'} \ {NULL}) : data'[f] # Garbage
      BY <1>2, <1>3 DEF RInv, DataInv
  <2> QED
      BY <2>1, <2>2, <2>3 DEF DataInv
<1>5. Backlog' = Backlog
  <2>1. Contents(queue, data') = Contents(queue, data)
      BY <1>1, <1>2, <1>3, ContentsAgree
  <2> QED
      BY <1>2, <2>1 DEF Backlog, Contents
<1>6. InHand = data[currentFrame] /\ InHand # NULL /\ InHand' = NULL
    BY <1>1, <1>2, NullAssumption DEF InHand
<1>7. Cardinality(Allocated') = Cardinality(Allocated)
    BY <1>2 DEF Allocated
<1> QED
    BY <1>2, <1>4, <1>5, <1>6, <1>7 DEF FQ!Release

LEMMA PutStep ==
    ASSUME RInv, IInv', BUF_putFrame
    PROVE  DataInv' /\ FQ!PutBack
<1>1. /\ currentFrame \in Frames /\ currentFrame # NULL
      /\ queue \in Seq(Frames) /\ data \in [Frames -> Nat]
    BY DEF BUF_putFrame, RInv, IInv, TypeOK
<1>2. /\ queue' = <<currentFrame>> \o queue
      /\ currentFrame' = NULL
      /\ UNCHANGED <<newFrame, dynPools, status, data, committed, delivered>>
    BY DEF BUF_putFrame, memVars, ghostVars
<1>3. Range(queue') = Range(queue) \cup {currentFrame}
    BY <1>1, <1>2, PushFront
<1>4. DataInv'
    BY <1>1, <1>2, <1>3 DEF RInv, DataInv, Held
<1>5. Backlog' = <<data[currentFrame]>> \o Backlog
    BY <1>1, <1>2, ContentsFront DEF Backlog, Contents
<1>6. InHand = data[currentFrame] /\ InHand # NULL /\ InHand' = NULL
    BY <1>1, <1>2, NullAssumption DEF InHand
<1>7. Cardinality(Allocated') = Cardinality(Allocated)
    BY <1>2 DEF Allocated
<1> QED
    BY <1>2, <1>4, <1>5, <1>6, <1>7 DEF FQ!PutBack

-----------------------------------------------------------------------------
(* Flushing, garbage collection, life cycle *)

LEMMA EmptyBacklog == queue' = <<>> => Backlog' = <<>> /\ Range(queue') = {}
BY DEF Backlog, Range

LEMMA FlushStep ==
    ASSUME RInv, IInv', BUF_flush
    PROVE  DataInv' /\ FQ!Flush
<1>1. /\ queue' = <<>>
      /\ \A f \in Frames : data'[f] = IF f \in Range(queue) THEN Garbage ELSE data[f]
      /\ UNCHANGED <<newFrame, currentFrame, dynPools, status, committed, delivered>>
    BY DEF BUF_flush, consVars
<1>2. /\ newFrame # NULL => newFrame \in Frames \ Range(queue)
      /\ currentFrame # NULL => currentFrame \in Frames \ Range(queue)
    BY DEF RInv, IInv, TypeOK, SingleOwner, Held
<1>3. Backlog' = <<>> /\ Range(queue') = {}
    BY <1>1, EmptyBacklog
<1>4. DataInv'
  <2>1. \A f \in Frames : f \notin Range(queue') \cup Held' => data'[f] = Garbage
      BY <1>1 DEF RInv, DataInv, Held
  <2>2. newFrame' # NULL => data'[newFrame'] \in {Garbage, committed' + 1}
      BY <1>1, <1>2 DEF RInv, DataInv
  <2>3. \A f \in Range(queue') \cup ({currentFrame'} \ {NULL}) : data'[f] # Garbage
      BY <1>1, <1>2, <1>3 DEF RInv, DataInv
  <2> QED
      BY <2>1, <2>2, <2>3 DEF DataInv
<1>5. InHand' = InHand
    BY <1>1, <1>2 DEF InHand
<1>6. Cardinality(Allocated') = Cardinality(Allocated)
    BY <1>1 DEF Allocated
<1> QED
    BY <1>1, <1>3, <1>4, <1>5, <1>6 DEF FQ!Flush

LEMMA DestructStep ==
    ASSUME RInv, IInv', Destruct
    PROVE  DataInv' /\ FQ!Close
<1>1. /\ queue' = <<>> /\ status' = "down"
      /\ newFrame' = NULL /\ currentFrame = NULL /\ currentFrame' = NULL
      /\ \A f \in Frames : data'[f] = Garbage
      /\ UNCHANGED <<committed, delivered>>
    BY DEF Destruct, consVars
<1>2. Backlog' = <<>> /\ Range(queue') = {}
    BY <1>1, EmptyBacklog
<1>3. Cardinality(Allocated') = 0
    BY <1>1, FS_EmptySet DEF Allocated
<1>4. InHand = NULL /\ InHand' = NULL
    BY <1>1 DEF InHand
<1>5. DataInv'
    BY <1>1, <1>2 DEF DataInv
<1> QED
    BY <1>1, <1>2, <1>3, <1>4, <1>5 DEF FQ!Close

LEMMA HousekeepingStep ==
    ASSUME RInv, IInv', BUF_runGC \/ GCMainloop \/ ResetStats \/ Construct
    PROVE  DataInv' /\ FQ!Resize
<1>1. UNCHANGED <<queue, newFrame, currentFrame, ghostVars>>
    BY DEF BUF_runGC, GCMainloop, RunGC, Die, ResetStats, Construct, consVars, memVars
<1> QED
    BY <1>1, QuietStep

LEMMA NextStep ==
    ASSUME RInv, [Next]_vars
    PROVE  RInv' /\ [FQ!Next]_(FQ!fqVars)
<1>1. IInv'
    BY NextIInv DEF RInv
<1>2. CASE Producer
    BY <1>1, <1>2, NewFrameStep, FillStep, CommitStep, AbortFrameStep
       DEF Producer, RInv, FQ!Next
<1>3. CASE Consumer
    BY <1>1, <1>3, WaitStep, ReleaseStep, PutStep, FlushStep DEF Consumer, RInv,
       BUF_flushUnlessHistoryEnabled, FQ!Next
<1>4. CASE Others
    BY <1>1, <1>4, FlushStep, DestructStep, HousekeepingStep DEF Others, RInv, FQ!Next
<1>5. CASE UNCHANGED vars
    BY <1>1, <1>5, QuietStep DEF vars, ghostVars, RInv, FQ!Next
<1> QED
    BY <1>2, <1>3, <1>4, <1>5 DEF Next

-----------------------------------------------------------------------------
(* The theorems *)

LEMMA InitRInv == Init => RInv /\ FQ!Init
<1> SUFFICES ASSUME Init PROVE RInv /\ FQ!Init
    OBVIOUS
<1>1. IInv
    BY InitIInv
<1>2. queue = <<>> /\ Range(queue) = {} /\ currentFrame = NULL /\ newFrame = NULL
    BY DEF Init, Range
<1>3. DataInv
    BY <1>2 DEF Init, DataInv
<1>4. Backlog = <<>> /\ InHand = NULL
    BY <1>2 DEF Backlog, InHand
<1>5. Cardinality(Allocated) \in Nat
    BY <1>1, CapacityType DEF IInv
<1> QED
    BY <1>1, <1>3, <1>4, <1>5 DEF RInv, FQ!Init, Init

LEMMA SpecRInv == Spec => []RInv
<1>1. RInv /\ [Next]_vars => RInv'
    BY NextStep
<1> QED
    BY <1>1, InitRInv, PTL DEF Spec

(* core/buffer.c is a lossy FIFO: free lists, dynamic pools, garbage       *)
(* collection, waits and flushes never reorder or duplicate frames, and    *)
(* BUF_newFrame() sacrifices a frame only when all allocated frames are in *)
(* use.                                                                    *)
THEOREM Refinement == Spec => ImplementsFrameQueue
<1>1. Init => FQ!Init
    BY InitRInv
<1>2. RInv /\ [Next]_vars => [FQ!Next]_(FQ!fqVars)
    BY NextStep
<1> QED
    BY <1>1, <1>2, SpecRInv, PTL DEF Spec, ImplementsFrameQueue, FQ!Spec

FQP == INSTANCE FrameQueueProofs WITH
        None <- NULL, backlog <- Backlog, inHand <- InHand,
        capacity <- Cardinality(Allocated)

LEMMA SpecQueueInv == Spec => []FQP!QueueInv
<1>1. Init => FQP!Init
    BY InitRInv DEF FQ!Init, FQP!Init
<1>2. RInv /\ [Next]_vars => [FQP!Next]_(FQP!fqVars)
    BY NextStep DEF FQ!Next, FQP!Next, FQ!fqVars, FQP!fqVars, FQ!Commit, FQP!Commit,
       FQ!DropOldest, FQP!DropOldest, FQ!Occupied, FQP!Occupied, FQ!Take, FQP!Take,
       FQ!Release, FQP!Release, FQ!PutBack, FQP!PutBack, FQ!Flush, FQP!Flush,
       FQ!Resize, FQP!Resize, FQ!Close, FQP!Close
<1>3. FQP!Spec => []FQP!QueueInv
    BY NullAssumption, FQP!QueueInvariant
<1> QED
    BY <1>1, <1>2, <1>3, SpecRInv, PTL DEF Spec, FQP!Spec

(* BUF_getFrame() hands the frames out in the order of their commits, each *)
(* of them delivered at most once, also when BUF_putFrame() has put one    *)
(* back and BUF_newFrame() has sacrificed others meanwhile.                *)
THEOREM InOrder == Spec => []FQ!FifoOrder
<1>1. FQP!QueueInv => FQ!FifoOrder
    BY DEF FQP!QueueInv, FQP!FifoOrder, FQ!FifoOrder
<1> QED
    BY <1>1, SpecQueueInv, PTL

-----------------------------------------------------------------------------
(* Lost frames *)

LEMMA LostIsMissing == Lost = FQP!Missing /\ Lost' = FQP!Missing'
BY DEF Lost, FQP!Missing, Range, FQP!Range

LEMMA SameSteps ==
    /\ FQ!Commit = FQP!Commit /\ FQ!Take = FQP!Take /\ FQ!Release = FQP!Release
    /\ FQ!PutBack = FQP!PutBack /\ FQ!Resize = FQP!Resize /\ FQ!DropOldest = FQP!DropOldest
    /\ FQ!Flush = FQP!Flush /\ FQ!Close = FQP!Close
BY DEF FQ!Commit, FQP!Commit, FQ!Take, FQP!Take, FQ!Release, FQP!Release, FQ!PutBack,
       FQP!PutBack, FQ!Resize, FQP!Resize, FQ!DropOldest, FQP!DropOldest, FQ!Occupied,
       FQP!Occupied, FQ!Flush, FQP!Flush, FQ!Close, FQP!Close

(* What LossIsAccounted says of a step.                                    *)
Accounted ==
    /\ Lost \subseteq Lost'
    /\ \/ Cardinality(Lost' \ Lost) = stats'.discardedAll - stats.discardedAll
       \/ stats'.flushes > stats.flushes /\ queue' = <<>>
       \/ status' = "down"
       \/ Lost' = Lost /\ stats' = NoStats

LEMMA NothingLost ==
    ASSUME RInv, FQP!QueueInv,
           FQ!Commit \/ FQ!Take \/ FQ!Release \/ FQ!PutBack \/ FQ!Resize,
           stats'.discardedAll = stats.discardedAll \/ stats' = NoStats
    PROVE  Accounted
<1>1. Lost' = Lost
  <2>1. FQP!Commit \/ FQP!Take \/ FQP!Release \/ FQP!PutBack \/ FQP!Resize
      BY SameSteps
  <2>2. FQP!Missing' = FQP!Missing
      BY <2>1, NullAssumption, FQP!NothingMissing
  <2> QED
      BY <2>2, LostIsMissing
<1>2. Lost' \ Lost = {} /\ Cardinality({}) = 0
    BY <1>1, FS_EmptySet
<1>3. stats.discardedAll \in Nat
    BY DEF RInv, IInv, TypeOK, StatsType
<1>4. CASE stats'.discardedAll = stats.discardedAll
  <2>1. stats'.discardedAll - stats.discardedAll = 0
      BY <1>3, <1>4
  <2>2. Cardinality(Lost' \ Lost) = stats'.discardedAll - stats.discardedAll
      BY <1>2, <2>1, Zenon
  <2> QED
      BY <1>1, <2>2, Zenon DEF Accounted
<1>5. CASE stats' = NoStats
    BY <1>1, <1>5, Zenon DEF Accounted
<1> QED
    BY <1>4, <1>5

LEMMA OneLost ==
    ASSUME RInv, FQP!QueueInv, FQ!DropOldest, stats'.discardedAll = stats.discardedAll + 1
    PROVE  Accounted
<1>1. PICK x : Lost' = Lost \cup {x} /\ x \notin Lost
    BY NullAssumption, FQP!DropMissing, LostIsMissing, SameSteps
<1>2. Lost' \ Lost = {x} /\ Cardinality({x}) = 1
    BY <1>1, FS_Singleton
<1>3. stats'.discardedAll - stats.discardedAll = 1
    BY DEF RInv, IInv, TypeOK, StatsType
<1>4. Cardinality(Lost' \ Lost) = stats'.discardedAll - stats.discardedAll
    BY <1>2, <1>3
<1> QED
    BY <1>1, <1>4 DEF Accounted

LEMMA FlushLost ==
    ASSUME RInv, IInv', BUF_flush \/ Destruct
    PROVE  Accounted
<1>1. Lost \subseteq Lost'
    BY FlushStep, DestructStep, FQP!FlushMissing, LostIsMissing, SameSteps
<1>2. CASE BUF_flush
  <2>1. stats.flushes \in Nat /\ stats \in StatsType
      BY DEF RInv, IInv, TypeOK, StatsType
  <2>2. stats'.flushes = stats.flushes + 1
      BY <1>2, <2>1 DEF BUF_flush, StatsType
  <2>3. stats'.flushes > stats.flushes /\ queue' = <<>>
      BY <1>2, <2>1, <2>2 DEF BUF_flush
  <2> QED
      BY <1>1, <2>3 DEF Accounted
<1>3. CASE Destruct
    BY <1>1, <1>3 DEF Destruct, Accounted
<1> QED
    BY <1>2, <1>3

LEMMA NextAccounted ==
    ASSUME RInv, FQP!QueueInv, [Next]_vars
    PROVE  [Accounted]_vars
<1>1. IInv' /\ stats \in StatsType
    BY NextIInv DEF RInv, IInv, TypeOK
<1>2. CASE BUF_newFrame
    BY <1>1, <1>2, NewFrameStep, NothingLost, OneLost
<1>3. CASE FillFrame \/ BUF_commitFrame \/ BUF_abortFrame
  <2>1. stats'.discardedAll = stats.discardedAll
      BY <1>1, <1>3 DEF FillFrame, BUF_commitFrame, BUF_abortFrame, StatsType
  <2> QED
      BY <1>1, <1>3, <2>1, FillStep, CommitStep, AbortFrameStep, NothingLost
<1>4. CASE \/ BUF_getFrame \/ BUF_getFrameTimeout \/ Wakeup \/ SpuriousWakeup
           \/ WaitTimesOut \/ WaitCancelled \/ BUF_releaseFrame \/ BUF_putFrame
  <2>1. stats' = stats
      BY <1>4 DEF BUF_getFrame, BUF_getFrameTimeout, GetOrWait, TakeOldest, Wakeup,
         SpuriousWakeup, WaitReturns, WaitTimesOut, WaitCancelled, WaitEnds, BUF_releaseFrame,
         BUF_putFrame
  <2> QED
      BY <1>1, <1>4, <2>1, WaitStep, ReleaseStep, PutStep, NothingLost
<1>5. CASE BUF_flush \/ Destruct
    BY <1>1, <1>5, FlushLost
<1>6. CASE BUF_runGC \/ GCMainloop \/ ResetStats \/ Construct
  <2>1. stats'.discardedAll = stats.discardedAll \/ stats' = NoStats
      BY <1>1, <1>6 DEF BUF_runGC, GCMainloop, RunGC, Die, ResetStats, Construct, StatsType
  <2> QED
      BY <1>1, <1>6, <2>1, HousekeepingStep, NothingLost
<1> QED
    BY <1>2, <1>3, <1>4, <1>5, <1>6 DEF Next, Producer, Consumer, Others,
       BUF_flushUnlessHistoryEnabled

(* A step of buffer.c loses exactly the frames that discardedAll counts,   *)
(* or it flushes or destructs the whole backlog, and a lost frame does not *)
(* come back.                                                              *)
THEOREM LossesCounted == Spec => LossIsAccounted
<1>1. RInv /\ FQP!QueueInv /\ [Next]_vars => [Accounted]_vars
    BY NextAccounted
<1> QED
    BY <1>1, SpecRInv, SpecQueueInv, PTL DEF Spec, LossIsAccounted, Accounted
=============================================================================
