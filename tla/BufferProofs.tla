---------------------------- MODULE BufferProofs ----------------------------
(***************************************************************************)
(* Proofs about the frame buffer (Buffer.tla), for every configuration.    *)
(***************************************************************************)
EXTENDS Buffer, TLAPS, FiniteSetTheorems, SequenceTheorems

-----------------------------------------------------------------------------
(* Pools and frames *)

(* A frame belongs to one pool.                                            *)
LEMMA PoolsDisjoint ==
    ASSUME NEW p, NEW q, NEW f, f \in PoolFrames(p), f \in PoolFrames(q)
    PROVE  p = q
BY DEF PoolFrames

(* The frames are those of the static pool and those of dynamic pools.     *)
LEMMA FramesOfPools ==
    /\ PoolFrames(StaticPool) \subseteq Frames
    /\ \A p \in DynPoolIds : PoolFrames(p) \subseteq Frames
    /\ StaticPool \notin DynPoolIds
    /\ \A f \in Frames : f \in PoolFrames(StaticPool)
                         \/ \E p \in DynPoolIds : f \in PoolFrames(p)
BY BufferAssumption DEF Frames, StaticPool, DynPoolIds, DynMaxPools

(* cfgFix() makes sure that there are two static frames.                   *)
LEMMA TwoStaticFrames ==
    \E a, b \in PoolFrames(StaticPool) : a # b
<1>1. StatBacklog \in Nat /\ StatBacklog >= 2
    BY BufferAssumption DEF StatBacklog
<1>2. <<0, 1>> \in PoolFrames(StaticPool) /\ <<0, 2>> \in PoolFrames(StaticPool)
    BY <1>1 DEF PoolFrames, StaticPool
<1> QED
    BY <1>2

(* A dynamic pool has frames unless DynamicBacklog is 0.                   *)
LEMMA DynPoolEmpty ==
    ASSUME NEW p \in DynPoolIds, PoolFrames(p) = {}
    PROVE  DynMaxPools > 0 /\ DynBacklog = 0
<1>1. p # StaticPool /\ DynMaxPools > 0
    BY BufferAssumption DEF StaticPool, DynPoolIds, DynMaxPools
<1>2. SUFFICES ASSUME DynBacklog # 0 PROVE FALSE
    BY <1>1
<1>3. <<p, 1>> \in PoolFrames(p)
    BY <1>1, <1>2, BufferAssumption DEF PoolFrames
<1> QED
    BY <1>3

(* A dynamic pool has DynBacklog frames.                                   *)
LEMMA DynPoolCardinality ==
    ASSUME NEW p \in DynPoolIds
    PROVE  IsFiniteSet(PoolFrames(p)) /\ Cardinality(PoolFrames(p)) = DynBacklog
<1>1. PoolFrames(p) = {p} \X (1..DynBacklog)
    BY FramesOfPools DEF PoolFrames
<1>2. IsFiniteSet({p}) /\ Cardinality({p}) = 1
    BY FS_Singleton
<1>3. IsFiniteSet(1..DynBacklog) /\ Cardinality(1..DynBacklog) = DynBacklog
    BY BufferAssumption, FS_Interval
<1>4. /\ IsFiniteSet({p} \X (1..DynBacklog))
      /\ Cardinality({p} \X (1..DynBacklog)) = Cardinality({p}) * Cardinality(1..DynBacklog)
    BY <1>2, <1>3, FS_Product
<1> QED
    BY <1>1, <1>2, <1>3, <1>4, BufferAssumption

(* destroyUnusedPools() compares lengths; equal lengths mean that all      *)
(* frames of the pool are collected.                                       *)
LEMMA FullyCollected ==
    ASSUME NEW p \in DynPoolIds, NEW c \in SUBSET PoolFrames(p),
           Cardinality(c) = DynBacklog
    PROVE  c = PoolFrames(p)
BY DynPoolCardinality, FS_Subset

(* LIST_length(&dynPools) < dynMaxPools: there is room for another pool.   *)
LEMMA NewPoolIsNew ==
    ASSUME dynPools \subseteq DynPoolIds, dynPools # DynPoolIds
    PROVE  NewPoolId \in DynPoolIds \ dynPools
BY DEF NewPoolId

LEMMA DynPoolsFinite ==
    ASSUME NEW P \in SUBSET DynPoolIds
    PROVE  IsFiniteSet(P) /\ Cardinality(P) \in Nat
<1>1. DynMaxPools \in Nat
    BY BufferAssumption DEF DynMaxPools
<1>2. IsFiniteSet(DynPoolIds)
    BY <1>1, FS_Interval DEF DynPoolIds
<1>3. IsFiniteSet(P)
    BY <1>2, FS_Subset
<1> QED
    BY <1>3, FS_CardinalityType

-----------------------------------------------------------------------------
(* Sequences without repetition *)

LEMMA RangeMember ==
    ASSUME NEW S, NEW s \in Seq(S), NEW x
    PROVE  x \in Range(s) <=> \E i \in 1..Len(s) : s[i] = x
BY RangeEquality

LEMMA InjectiveSeq ==
    ASSUME NEW S, NEW s \in Seq(S)
    PROVE  IsInjective(s) <=> \A i, j \in 1..Len(s) : s[i] = s[j] => i = j
BY LenProperties DEF IsInjective

(* LIST_push().                                                            *)
LEMMA PushBack ==
    ASSUME NEW S, NEW s \in Seq(S), NEW e \in S
    PROVE  /\ Append(s, e) \in Seq(S)
           /\ Range(Append(s, e)) = Range(s) \cup {e}
           /\ IsInjective(s) /\ e \notin Range(s) => IsInjective(Append(s, e))
<1> DEFINE t == Append(s, e)
<1>1. /\ t \in Seq(S)
      /\ Len(t) = Len(s) + 1
      /\ \A i \in 1..Len(s) : t[i] = s[i]
      /\ t[Len(s) + 1] = e
      /\ Len(s) \in Nat
    BY AppendProperties, LenProperties
<1> HIDE DEF t
<1>2. \A i \in 1..Len(t) : i \in 1..Len(s) \/ i = Len(s) + 1
    BY <1>1
<1>3. ASSUME NEW x PROVE x \in Range(t) <=> x \in Range(s) \cup {e}
    <2>1. x \in Range(t) <=> \E i \in 1..Len(t) : t[i] = x
        BY <1>1, RangeMember
    <2>2. x \in Range(s) <=> \E i \in 1..Len(s) : s[i] = x
        BY RangeMember
    <2> QED
        BY <1>1, <1>2, <2>1, <2>2
<1>4. ASSUME IsInjective(s), e \notin Range(s) PROVE IsInjective(t)
    <2>1. \A i \in 1..Len(s) : s[i] # e
        BY <1>4, RangeMember
    <2>2. \A i, j \in 1..Len(s) : s[i] = s[j] => i = j
        BY <1>4, InjectiveSeq
    <2>3. \A i, j \in 1..Len(t) : t[i] = t[j] => i = j
        BY <1>1, <1>2, <2>1, <2>2
    <2> QED
        BY <1>1, <2>3, InjectiveSeq
<1> QED
    BY <1>1, <1>3, <1>4 DEF t

(* t is s with e in front of it.                                           *)
LEMMA ConsSeq ==
    ASSUME NEW S, NEW s \in Seq(S), NEW t \in Seq(S), NEW e \in S,
           Len(t) = Len(s) + 1,
           t[1] = e,
           \A i \in 1..Len(s) : t[i + 1] = s[i]
    PROVE  /\ Range(t) = Range(s) \cup {e}
           /\ IsInjective(t) <=> IsInjective(s) /\ e \notin Range(s)
<1>1. Len(s) \in Nat
    BY LenProperties
<1>2. \A i \in 1..Len(t) : i # 1 => i - 1 \in 1..Len(s) /\ t[i] = s[i - 1]
    BY <1>1
<1>3. \A i \in 1..Len(s) : i + 1 \in 1..Len(t)
    BY <1>1
<1>4. 1 \in 1..Len(t)
    BY <1>1
<1>5. ASSUME NEW x PROVE x \in Range(t) <=> x \in Range(s) \cup {e}
    <2>1. x \in Range(t) <=> \E i \in 1..Len(t) : t[i] = x
        BY RangeMember
    <2>2. x \in Range(s) <=> \E i \in 1..Len(s) : s[i] = x
        BY RangeMember
    <2> QED
        BY <1>2, <1>3, <1>4, <2>1, <2>2
<1>6. e \in Range(s) <=> \E i \in 1..Len(s) : s[i] = e
    BY RangeMember
<1>7. IsInjective(t) <=> \A i, j \in 1..Len(t) : t[i] = t[j] => i = j
    BY InjectiveSeq
<1>8. IsInjective(s) <=> \A i, j \in 1..Len(s) : s[i] = s[j] => i = j
    BY InjectiveSeq
<1>9. ASSUME IsInjective(t) PROVE IsInjective(s) /\ e \notin Range(s)
    <2>1. ASSUME NEW i \in 1..Len(s), NEW j \in 1..Len(s), s[i] = s[j] PROVE i = j
        <3>1. t[i + 1] = t[j + 1]
            BY <2>1
        <3> QED
            BY <1>3, <1>7, <1>9, <3>1
    <2>2. ASSUME NEW i \in 1..Len(s), s[i] = e PROVE FALSE
        <3>1. t[i + 1] = t[1] /\ i + 1 # 1
            BY <2>2
        <3> QED
            BY <1>3, <1>4, <1>7, <1>9, <3>1
    <2> QED
        BY <1>6, <1>8, <2>1, <2>2
<1>10. ASSUME IsInjective(s), e \notin Range(s) PROVE IsInjective(t)
    <2>1. ASSUME NEW i \in 1..Len(t), NEW j \in 1..Len(t), t[i] = t[j] PROVE i = j
        <3>1. CASE i = 1 /\ j = 1
            BY <3>1
        <3>2. CASE i = 1 /\ j # 1
            BY <1>2, <1>6, <1>10, <2>1, <3>2
        <3>3. CASE i # 1 /\ j = 1
            BY <1>2, <1>6, <1>10, <2>1, <3>3
        <3>4. CASE i # 1 /\ j # 1
            <4>1. /\ i - 1 \in 1..Len(s) /\ t[i] = s[i - 1]
                  /\ j - 1 \in 1..Len(s) /\ t[j] = s[j - 1]
                BY <1>2, <3>4
            <4>2. s[i - 1] = s[j - 1]
                BY <2>1, <4>1
            <4>3. i - 1 = j - 1
                BY <1>8, <1>10, <4>1, <4>2
            <4> QED
                BY <1>1, <4>3
        <3> QED
            BY <3>1, <3>2, <3>3, <3>4
    <2> QED
        BY <1>7, <2>1
<1> QED
    BY <1>5, <1>9, <1>10

(* LIST_shift().                                                           *)
LEMMA PopFront ==
    ASSUME NEW S, NEW s \in Seq(S), s # <<>>, IsInjective(s)
    PROVE  /\ Head(s) \in S
           /\ Tail(s) \in Seq(S)
           /\ Head(s) \in Range(s)
           /\ Range(Tail(s)) = Range(s) \ {Head(s)}
           /\ IsInjective(Tail(s))
<1>1. /\ Tail(s) \in Seq(S)
      /\ Len(s) = Len(Tail(s)) + 1
      /\ \A i \in 1..Len(Tail(s)) : s[i + 1] = Tail(s)[i]
      /\ Head(s) = s[1]
      /\ Head(s) \in S
    BY HeadTailProperties, LenProperties, EmptySeq
<1> DEFINE u == Tail(s)
           h == Head(s)
<1> HIDE DEF u, h
<1>2. u \in Seq(S) /\ h \in S
    BY <1>1 DEF u, h
<1>3. Len(s) = Len(u) + 1 /\ s[1] = h
    BY <1>1 DEF u, h
<1>4. \A i \in 1..Len(u) : s[i + 1] = u[i]
    BY <1>1 DEF u
<1>5. /\ Range(s) = Range(u) \cup {h}
      /\ IsInjective(s) <=> IsInjective(u) /\ h \notin Range(u)
    BY <1>2, <1>3, <1>4, ConsSeq
<1>6. IsInjective(u) /\ h \notin Range(u)
    BY <1>5
<1>7. Range(u) = Range(s) \ {h}
    BY <1>5, <1>6
<1>8. h \in Range(s)
    BY <1>5
<1> QED
    BY <1>2, <1>6, <1>7, <1>8 DEF u, h

(* LIST_unshift().                                                         *)
LEMMA PushFront ==
    ASSUME NEW S, NEW s \in Seq(S), NEW e \in S
    PROVE  /\ <<e>> \o s \in Seq(S)
           /\ Len(<<e>> \o s) = Len(s) + 1
           /\ (<<e>> \o s)[1] = e
           /\ \A i \in 1..Len(s) : (<<e>> \o s)[i + 1] = s[i]
           /\ Range(<<e>> \o s) = Range(s) \cup {e}
           /\ IsInjective(s) /\ e \notin Range(s) => IsInjective(<<e>> \o s)
<1>1. /\ <<e>> \in Seq(S) /\ Len(<<e>>) = 1 /\ <<e>>[1] = e
      /\ Len(s) \in Nat
    BY LenProperties
<1>2. /\ <<e>> \o s \in Seq(S)
      /\ Len(<<e>> \o s) = Len(s) + 1
      /\ (<<e>> \o s)[1] = e
      /\ \A i \in 1..Len(s) : (<<e>> \o s)[i + 1] = s[i]
    BY <1>1, ConcatProperties
<1>3. /\ Range(<<e>> \o s) = Range(s) \cup {e}
      /\ IsInjective(<<e>> \o s) <=> IsInjective(s) /\ e \notin Range(s)
    BY <1>2, ConsSeq
<1> QED
    BY <1>2, <1>3
-----------------------------------------------------------------------------
(* The inductive invariant *)

IInv ==
    /\ TypeOK
    /\ DownIsEmpty
    /\ NoLeakNoDangling
    /\ SingleOwner
    /\ NoLostWakeup
    /\ SleepsEmptyHanded
    /\ AbortsOnlyIfMisconfigured
    /\ AbortsOnlyWhenExhausted

LEMMA InitIInv == Init => IInv
<1> SUFFICES ASSUME Init PROVE IInv
    OBVIOUS
<1> USE DEF Init
<1>1. TypeOK
    <2>1. pool \subseteq Frames /\ queue \in Seq(Frames)
        BY FramesOfPools
    <2>2. collect \in [DynPoolIds -> SUBSET Frames] /\ dynPools \subseteq DynPoolIds
        OBVIOUS
    <2>3. stats \in StatsType
        BY DEF NoStats, StatsType
    <2>4. data \in [Frames -> Nat]
        BY DEF Garbage
    <2> QED
        BY <2>1, <2>2, <2>3, <2>4 DEF TypeOK
<1>2. Range(queue) = {} /\ IsInjective(queue)
    BY DEF Range, IsInjective
<1>3. DownIsEmpty
    BY DEF DownIsEmpty
<1>4. NoLeakNoDangling
    BY <1>2 DEF NoLeakNoDangling, Allocated, Held
<1>5. SingleOwner
    BY <1>2 DEF SingleOwner, Held
<1> QED
    BY <1>1, <1>3, <1>4, <1>5
    DEF IInv, NoLostWakeup, SleepsEmptyHanded, AbortsOnlyIfMisconfigured,
        AbortsOnlyWhenExhausted

LEMMA AbortFrameIInv ==
    ASSUME IInv, BUF_abortFrame PROVE IInv'
<1> USE DEF BUF_abortFrame, consVars
<1>1. TypeOK'
    BY DEF IInv, TypeOK, Garbage
<1>2. NoLeakNoDangling'
    BY NullAssumption DEF IInv, TypeOK, NoLeakNoDangling, SingleOwner, Allocated, Held
<1>3. SingleOwner'
    BY NullAssumption DEF IInv, TypeOK, SingleOwner, Held
<1> QED
    BY <1>1, <1>2, <1>3
    DEF IInv, DownIsEmpty, NoLostWakeup, SleepsEmptyHanded, AbortsOnlyIfMisconfigured,
        AbortsOnlyWhenExhausted

LEMMA ReleaseIInv ==
    ASSUME IInv, BUF_releaseFrame PROVE IInv'
<1> USE DEF BUF_releaseFrame
<1>1. TypeOK'
    BY DEF IInv, TypeOK, Garbage
<1>2. NoLeakNoDangling'
    BY NullAssumption DEF IInv, TypeOK, NoLeakNoDangling, SingleOwner, Allocated, Held
<1>3. SingleOwner'
    BY NullAssumption DEF IInv, TypeOK, SingleOwner, Held
<1> QED
    BY <1>1, <1>2, <1>3
    DEF IInv, DownIsEmpty, NoLostWakeup, SleepsEmptyHanded, AbortsOnlyIfMisconfigured,
        AbortsOnlyWhenExhausted

LEMMA CommitIInv ==
    ASSUME IInv, BUF_commitFrame PROVE IInv'
<1> USE DEF BUF_commitFrame
<1>1. newFrame \in Frames /\ queue \in Seq(Frames) /\ newFrame \notin Range(queue)
    BY DEF IInv, TypeOK, SingleOwner, Held
<1>2. /\ queue' \in Seq(Frames)
      /\ Range(queue') = Range(queue) \cup {newFrame}
      /\ IsInjective(queue')
    BY <1>1, PushBack DEF IInv, SingleOwner
<1>3. TypeOK'
    <2>1. stats' \in StatsType
        <3>1. stats \in StatsType /\ stats.maxQueueSize \in Nat
            BY DEF IInv, TypeOK, StatsType
        <3>2. Larger(stats.maxQueueSize, Len(queue) + 1) \in Nat
            BY <1>1, <3>1, LenProperties DEF Larger
        <3>3. stats' = [stats EXCEPT !.maxQueueSize =
                                     Larger(stats.maxQueueSize, Len(queue) + 1)]
            OBVIOUS
        <3> QED
            BY <3>1, <3>2, <3>3 DEF StatsType
    <2>2. signalled' \in BOOLEAN /\ committed' \in Nat
        BY DEF IInv, TypeOK, Broadcast
    <2> QED
        BY <1>2, <2>1, <2>2 DEF IInv, TypeOK
<1>4. NoLeakNoDangling'
    BY <1>1, <1>2, NullAssumption DEF IInv, TypeOK, NoLeakNoDangling, Allocated, Held
<1>5. SingleOwner'
    BY <1>1, <1>2, NullAssumption DEF IInv, TypeOK, SingleOwner, Held
<1>6. NoLostWakeup'
    BY DEF NoLostWakeup, Broadcast
<1> QED
    BY <1>3, <1>4, <1>5, <1>6
    DEF IInv, DownIsEmpty, SleepsEmptyHanded, AbortsOnlyIfMisconfigured,
        AbortsOnlyWhenExhausted

LEMMA PutIInv ==
    ASSUME IInv, BUF_putFrame PROVE IInv'
<1> USE DEF BUF_putFrame, memVars, ghostVars
<1>1. /\ currentFrame \in Frames
      /\ queue \in Seq(Frames)
      /\ currentFrame \notin Range(queue)
    BY DEF IInv, TypeOK, SingleOwner, Held
<1>2. /\ queue' \in Seq(Frames)
      /\ Range(queue') = Range(queue) \cup {currentFrame}
      /\ IsInjective(queue')
    BY <1>1, PushFront DEF IInv, SingleOwner
<1>3. TypeOK'
    BY <1>2 DEF IInv, TypeOK
<1>4. NoLeakNoDangling'
    BY <1>1, <1>2, NullAssumption DEF IInv, TypeOK, NoLeakNoDangling, Allocated, Held
<1>5. SingleOwner'
    BY <1>1, <1>2, NullAssumption DEF IInv, TypeOK, SingleOwner, Held
<1>6. NoLostWakeup'
    BY DEF IInv, NoLostWakeup, SleepsEmptyHanded
<1> QED
    BY <1>3, <1>4, <1>5, <1>6
    DEF IInv, DownIsEmpty, SleepsEmptyHanded, AbortsOnlyIfMisconfigured,
        AbortsOnlyWhenExhausted

LEMMA TakeIInv ==
    ASSUME IInv, status = "up", currentFrame = NULL, queue # <<>>, TakeOldest
    PROVE  IInv'
<1> USE DEF TakeOldest, memVars, ghostVars
<1>1. queue \in Seq(Frames) /\ IsInjective(queue)
    BY DEF IInv, TypeOK, SingleOwner
<1>2. /\ queue' \in Seq(Frames)
      /\ currentFrame' \in Frames
      /\ currentFrame' \in Range(queue)
      /\ Range(queue') = Range(queue) \ {currentFrame'}
      /\ IsInjective(queue')
    BY <1>1, PopFront
<1>3. TypeOK'
    BY <1>2 DEF IInv, TypeOK
<1>4. NoLeakNoDangling'
    BY <1>2, NullAssumption DEF IInv, TypeOK, NoLeakNoDangling, Allocated, Held
<1>5. SingleOwner'
    BY <1>2, NullAssumption DEF IInv, TypeOK, SingleOwner, Held
<1> QED
    BY <1>3, <1>4, <1>5
    DEF IInv, DownIsEmpty, NoLostWakeup, SleepsEmptyHanded, AbortsOnlyIfMisconfigured,
        AbortsOnlyWhenExhausted

LEMMA GetIInv ==
    ASSUME IInv, NEW fn \in {"getFrame", "getFrameTimeout"}, GetOrWait(fn)
    PROVE  IInv'
<1>1. CASE queue # <<>> /\ TakeOldest
    BY <1>1, TakeIInv DEF GetOrWait
<1>2. CASE ~(queue # <<>> /\ TakeOldest)
    <2> USE <1>2 DEF GetOrWait, memVars, ghostVars
    <2>1. TypeOK'
        BY DEF IInv, TypeOK
    <2>2. NoLeakNoDangling' /\ SingleOwner'
        BY DEF IInv, NoLeakNoDangling, SingleOwner, Allocated, Held
    <2> QED
        BY <2>1, <2>2
        DEF IInv, DownIsEmpty, NoLostWakeup, SleepsEmptyHanded, AbortsOnlyIfMisconfigured,
            AbortsOnlyWhenExhausted
<1> QED
    BY <1>1, <1>2

LEMMA WaitReturnsIInv ==
    ASSUME IInv, WaitReturns PROVE IInv'
<1>1. CASE queue # <<>> /\ TakeOldest
    BY <1>1, TakeIInv DEF WaitReturns, IInv, SleepsEmptyHanded
<1>2. CASE ~(queue # <<>> /\ TakeOldest)
    <2> USE <1>2 DEF WaitReturns, memVars, ghostVars
    <2>1. TypeOK'
        BY DEF IInv, TypeOK
    <2>2. NoLeakNoDangling' /\ SingleOwner'
        BY DEF IInv, NoLeakNoDangling, SingleOwner, Allocated, Held
    <2> QED
        BY <2>1, <2>2
        DEF IInv, DownIsEmpty, NoLostWakeup, SleepsEmptyHanded, AbortsOnlyIfMisconfigured,
            AbortsOnlyWhenExhausted
<1> QED
    BY <1>1, <1>2

LEMMA WaitEndsIInv ==
    ASSUME IInv, WaitEnds PROVE IInv'
<1> USE DEF WaitEnds, memVars, ghostVars
<1>1. TypeOK'
    BY DEF IInv, TypeOK
<1>2. NoLeakNoDangling' /\ SingleOwner'
    BY DEF IInv, NoLeakNoDangling, SingleOwner, Allocated, Held
<1> QED
    BY <1>1, <1>2
    DEF IInv, DownIsEmpty, NoLostWakeup, SleepsEmptyHanded, AbortsOnlyIfMisconfigured,
        AbortsOnlyWhenExhausted

LEMMA FillIInv ==
    ASSUME IInv, FillFrame PROVE IInv'
<1> USE DEF FillFrame, memVars, consVars
<1>1. TypeOK'
    BY DEF IInv, TypeOK
<1>2. NoLeakNoDangling' /\ SingleOwner'
    BY DEF IInv, NoLeakNoDangling, SingleOwner, Allocated, Held
<1> QED
    BY <1>1, <1>2
    DEF IInv, DownIsEmpty, NoLostWakeup, SleepsEmptyHanded, AbortsOnlyIfMisconfigured,
        AbortsOnlyWhenExhausted

LEMMA ResetStatsIInv ==
    ASSUME IInv, ResetStats PROVE IInv'
<1> USE DEF ResetStats, memVars, consVars, ghostVars
<1>1. TypeOK'
    BY DEF IInv, TypeOK, NoStats, StatsType
<1>2. NoLeakNoDangling' /\ SingleOwner'
    BY DEF IInv, NoLeakNoDangling, SingleOwner, Allocated, Held
<1> QED
    BY <1>1, <1>2
    DEF IInv, DownIsEmpty, NoLostWakeup, SleepsEmptyHanded, AbortsOnlyIfMisconfigured,
        AbortsOnlyWhenExhausted

LEMMA FlushIInv ==
    ASSUME IInv, BUF_flush PROVE IInv'
<1> USE DEF BUF_flush, consVars
<1>1. Range(queue') = {} /\ IsInjective(queue') /\ queue' \in Seq(Frames)
    BY DEF Range, IsInjective
<1>2. Range(queue) \subseteq Frames
    BY RangeOfSeq DEF IInv, TypeOK
<1>3. TypeOK'
    <2>1. stats' \in StatsType
        <3>1. PICK n \in Nat : n = stats.flushes + 1
            BY DEF IInv, TypeOK, StatsType
        <3>2. stats' = [stats EXCEPT !.flushes = n]
            BY <3>1
        <3> QED
            BY <3>2 DEF IInv, TypeOK, StatsType
    <2>2. data' \in [Frames -> Nat]
        BY DEF IInv, TypeOK, Garbage
    <2> QED
        BY <1>1, <1>2, <2>1, <2>2 DEF IInv, TypeOK
<1>4. NoLeakNoDangling'
    BY <1>1 DEF IInv, TypeOK, NoLeakNoDangling, Allocated, Held
<1>5. SingleOwner'
    BY <1>1 DEF IInv, TypeOK, SingleOwner, Held
<1> QED
    BY <1>3, <1>4, <1>5
    DEF IInv, DownIsEmpty, NoLostWakeup, SleepsEmptyHanded, AbortsOnlyIfMisconfigured,
        AbortsOnlyWhenExhausted

LEMMA DestructIInv ==
    ASSUME IInv, Destruct PROVE IInv'
<1> USE DEF Destruct, consVars
<1>1. Range(queue') = {} /\ IsInjective(queue') /\ queue' \in Seq(Frames)
    BY DEF Range, IsInjective
<1>2. TypeOK'
    BY <1>1 DEF IInv, TypeOK, Garbage
<1>3. NoLeakNoDangling'
    BY <1>1 DEF NoLeakNoDangling, Allocated, Held
<1>4. SingleOwner'
    BY <1>1 DEF SingleOwner, Held
<1> QED
    BY <1>2, <1>3, <1>4
    DEF IInv, DownIsEmpty, NoLostWakeup, SleepsEmptyHanded, AbortsOnlyIfMisconfigured,
        AbortsOnlyWhenExhausted

LEMMA ConstructIInv ==
    ASSUME IInv, Construct PROVE IInv'
<1> USE DEF Construct, consVars, ghostVars
<1>1. \A f \in Frames : /\ f \notin pool
                         /\ f \notin Range(queue)
                         /\ f \notin Held
                         /\ \A p \in DynPoolIds : f \notin collect[p]
    BY DEF IInv, NoLeakNoDangling, Allocated
<1>2. Range(queue) = {} /\ Held = {} /\ \A p \in DynPoolIds : collect[p] = {}
    BY <1>1, RangeOfSeq DEF IInv, TypeOK, Held
<1>3. TypeOK'
    BY FramesOfPools DEF IInv, TypeOK
<1>4. NoLeakNoDangling'
    BY <1>2 DEF IInv, DownIsEmpty, NoLeakNoDangling, Allocated, Held
<1>5. SingleOwner'
    BY <1>2 DEF IInv, SingleOwner, Held
<1> QED
    BY <1>3, <1>4, <1>5
    DEF IInv, DownIsEmpty, NoLostWakeup, SleepsEmptyHanded, AbortsOnlyIfMisconfigured,
        AbortsOnlyWhenExhausted

(* The garbage collector frees a pool only when all its frames are in its  *)
(* collection, hence in nobody's hands.                                    *)
LEMMA RunGCIInv ==
    ASSUME IInv, status = "up", RunGC PROVE IInv'
<1> DEFINE coll == CollectPools
           freed == DestroyUnusedPools(coll)
<1> USE DEF RunGC, consVars, ghostVars
<1>1. /\ pool' = pool \cap PoolFrames(StaticPool)
      /\ dynPools' = dynPools \ freed
      /\ collect' = [p \in DynPoolIds |-> IF p \in freed THEN {} ELSE coll[p]]
    OBVIOUS
<1>2. \A p \in DynPoolIds :
        /\ coll[p] = collect[p] \cup (pool \cap PoolFrames(p))
        /\ coll[p] \subseteq PoolFrames(p)
        /\ p \in freed => p \in dynPools /\ coll[p] = PoolFrames(p)
    <2> SUFFICES ASSUME NEW p \in DynPoolIds
                 PROVE  /\ coll[p] = collect[p] \cup (pool \cap PoolFrames(p))
                        /\ coll[p] \subseteq PoolFrames(p)
                        /\ p \in freed => p \in dynPools /\ coll[p] = PoolFrames(p)
        OBVIOUS
    <2>1. coll[p] = collect[p] \cup (pool \cap PoolFrames(p))
        BY DEF CollectPools
    <2>2. coll[p] \subseteq PoolFrames(p)
        BY <2>1 DEF IInv, SingleOwner
    <2>3. p \in freed => p \in dynPools /\ Cardinality(coll[p]) = DynBacklog
        BY DEF DestroyUnusedPools
    <2> QED
        BY <2>1, <2>2, <2>3, FullyCollected
<1> HIDE DEF coll, freed
<1>3. freed \subseteq dynPools
    BY DEF freed, DestroyUnusedPools
<1>4. TypeOK'
    <2>1. collect' \in [DynPoolIds -> SUBSET Frames]
        BY <1>1, <1>2, FramesOfPools
    <2>2. stats' \in StatsType
        <3>1. stats \in StatsType /\ stats.GCruns \in Nat
            BY DEF IInv, TypeOK, StatsType
        <3>2. stats' = [stats EXCEPT !.GCruns = stats.GCruns + 1]
            BY DEF RunGC
        <3> QED
            BY <3>1, <3>2 DEF StatsType
    <2> QED
        BY <1>1, <2>1, <2>2 DEF IInv, TypeOK
<1>5. SingleOwner'
    <2>1. \A p \in DynPoolIds :
            /\ collect'[p] \subseteq coll[p]
            /\ collect'[p] \cap pool' = {}
        BY <1>1, <1>2, FramesOfPools, PoolsDisjoint
    <2>2. \A p \in DynPoolIds : coll[p] \cap (Range(queue) \cup Held) = {}
        BY <1>2 DEF IInv, SingleOwner
    <2>3. \A p \in DynPoolIds :
            /\ collect'[p] \subseteq PoolFrames(p)
            /\ collect'[p] \cap (pool' \cup Range(queue) \cup Held) = {}
        BY <1>2, <2>1, <2>2
    <2> QED
        BY <1>1, <2>3 DEF IInv, SingleOwner, Held
<1>6. NoLeakNoDangling'
    <2> SUFFICES ASSUME NEW f \in Frames
                 PROVE  f \in Allocated' <=> \/ f \in pool'
                                            \/ f \in Range(queue)
                                            \/ f \in Held
                                            \/ \E p \in DynPoolIds : f \in collect'[p]
        BY DEF NoLeakNoDangling, Held
    <2>1. f \in Allocated <=> \/ f \in pool
                             \/ f \in Range(queue)
                             \/ f \in Held
                             \/ \E p \in DynPoolIds : f \in collect[p]
        BY DEF IInv, NoLeakNoDangling
    <2>2. CASE f \in PoolFrames(StaticPool)
        <3>1. f \in Allocated /\ f \in Allocated'
            BY <2>2 DEF Allocated
        <3>2. \A p \in DynPoolIds : f \notin coll[p] /\ f \notin collect[p]
            BY <1>2, <2>2, FramesOfPools, PoolsDisjoint DEF IInv, SingleOwner
        <3> QED
            BY <1>1, <2>1, <2>2, <3>1, <3>2
    <2>3. CASE f \notin PoolFrames(StaticPool)
        <3>1. PICK q \in DynPoolIds : f \in PoolFrames(q)
            BY <2>3, FramesOfPools
        <3>2. \A p \in DynPoolIds : f \in PoolFrames(p) => p = q
            BY <3>1, PoolsDisjoint
        <3>3. f \in Allocated <=> q \in dynPools
            BY <2>3, <3>1, <3>2 DEF Allocated, IInv, TypeOK
        <3>4. f \in Allocated' <=> q \in dynPools'
            BY <1>4, <2>3, <3>1, <3>2 DEF Allocated, TypeOK
        <3>5. f \notin pool'
            BY <1>1, <2>3
        <3>6. f \in coll[q] <=> f \in pool \/ \E p \in DynPoolIds : f \in collect[p]
            BY <1>2, <3>1, <3>2 DEF IInv, SingleOwner
        <3>7. CASE q \in freed
            <4>1. q \notin dynPools' /\ f \in coll[q]
                BY <1>1, <1>2, <3>1, <3>7
            <4>2. f \notin Range(queue) /\ f \notin Held
                BY <1>2, <4>1 DEF IInv, SingleOwner
            <4>3. \A p \in DynPoolIds : f \notin collect'[p]
                BY <1>1, <1>2, <3>2, <3>7
            <4> QED
                BY <3>4, <3>5, <4>1, <4>2, <4>3
        <3>8. CASE q \notin freed
            <4>1. q \in dynPools' <=> q \in dynPools
                BY <1>1, <3>8
            <4>2. collect'[q] = coll[q]
                BY <1>1, <3>8
            <4>3. \A p \in DynPoolIds : f \in collect'[p] => p = q
                BY <1>1, <1>2, <3>2
            <4> QED
                BY <2>1, <3>3, <3>4, <3>5, <3>6, <4>1, <4>2, <4>3
        <3> QED
            BY <3>7, <3>8
    <2> QED
        BY <2>2, <2>3
<1> QED
    BY <1>4, <1>5, <1>6
    DEF IInv, DownIsEmpty, NoLostWakeup, SleepsEmptyHanded, AbortsOnlyIfMisconfigured,
        AbortsOnlyWhenExhausted

-----------------------------------------------------------------------------
(* The producer's next frame *)

(* What all ways of getFrameFromPool() have in common: BUF_newFrame() with *)
(* a frame that was nobody's.                                              *)
Obtains ==
    /\ status = "up"
    /\ newFrame = NULL
    /\ status' = IF newFrame' = currentFrame THEN "aborted" ELSE "up"
    /\ UNCHANGED <<consVars, committed, delivered>>

(* The frame was free.                                                     *)
LEMMA FromPoolIInv ==
    ASSUME IInv, Obtains, FromPool PROVE IInv'
<1> USE DEF Obtains, consVars
<1>1. PICK f \in pool : newFrame' = f /\ pool' = pool \ {f}
    BY DEF FromPool
<1>2. /\ stats' = [stats EXCEPT !.discardedCur = 0]
      /\ UNCHANGED <<queue, dynPools, collect, data>>
    BY DEF FromPool
<1>3. f \in Frames /\ f # NULL /\ f # currentFrame /\ f \notin Range(queue)
      /\ \A p \in DynPoolIds : f \notin collect[p]
    BY NullAssumption DEF IInv, TypeOK, SingleOwner, Held
<1>4. TypeOK'
    <2>1. stats' \in StatsType
        BY <1>2 DEF IInv, TypeOK, StatsType
    <2> QED
        BY <1>1, <1>2, <1>3, <2>1 DEF IInv, TypeOK
<1>5. NoLeakNoDangling'
    BY <1>1, <1>2, <1>3 DEF IInv, TypeOK, NoLeakNoDangling, Allocated, Held
<1>6. SingleOwner'
    BY <1>1, <1>2, <1>3 DEF IInv, TypeOK, SingleOwner, Held
<1> QED
    BY <1>1, <1>2, <1>3, <1>4, <1>5, <1>6
    DEF IInv, DownIsEmpty, NoLostWakeup, SleepsEmptyHanded, AbortsOnlyIfMisconfigured,
        AbortsOnlyWhenExhausted

(* The frame was collected.                                                *)
LEMMA FromCollectedIInv ==
    ASSUME IInv, Obtains, pool = {}, FromCollected PROVE IInv'
<1> USE DEF Obtains, consVars
<1>1. PICK p \in DynPoolIds : \E f \in collect[p] :
        /\ newFrame' = f
        /\ pool' = collect[p] \ {f}
        /\ collect' = [collect EXCEPT ![p] = {}]
    BY DEF FromCollected, Uncollectable, IInv, TypeOK
<1>2. PICK f \in collect[p] : newFrame' = f /\ pool' = collect[p] \ {f}
    BY <1>1
<1>3. UNCHANGED <<queue, dynPools, data>>
    BY DEF FromCollected
<1>4. /\ collect \in [DynPoolIds -> SUBSET Frames]
      /\ collect'[p] = {}
      /\ \A q \in DynPoolIds : q # p => collect'[q] = collect[q]
      /\ collect' \in [DynPoolIds -> SUBSET Frames]
    BY <1>1 DEF IInv, TypeOK
<1>5. /\ \A q \in DynPoolIds : q # p => collect[q] \cap collect[p] = {}
      /\ collect[p] \cap (Range(queue) \cup Held) = {}
    BY PoolsDisjoint DEF IInv, SingleOwner
<1>6. f \in Frames /\ f # NULL /\ f # currentFrame /\ f \notin Range(queue)
    BY <1>4, <1>5, NullAssumption DEF Held
<1>7. TypeOK'
    <2>1. PICK n \in Nat : n = stats.uncollectedPools + 1
        BY DEF IInv, TypeOK, StatsType
    <2>2. stats' = [stats EXCEPT !.uncollectedPools = n, !.discardedCur = 0]
        BY <2>1 DEF FromCollected
    <2>3. stats' \in StatsType
        BY <2>2 DEF StatsType, IInv, TypeOK
    <2> QED
        BY <1>2, <1>3, <1>4, <1>6, <2>3 DEF IInv, TypeOK
<1>8. NoLeakNoDangling'
    <2> SUFFICES ASSUME NEW g \in Frames
                 PROVE  g \in Allocated' <=> \/ g \in pool'
                                            \/ g \in Range(queue')
                                            \/ g \in Held'
                                            \/ \E q \in DynPoolIds : g \in collect'[q]
        BY DEF NoLeakNoDangling
    <2>1. g \in Allocated <=> \/ g \in Range(queue)
                             \/ g \in Held
                             \/ \E q \in DynPoolIds : g \in collect[q]
        BY DEF IInv, NoLeakNoDangling
    <2>2. (\E q \in DynPoolIds : g \in collect[q])
          <=> (g \in collect[p] \/ \E q \in DynPoolIds : g \in collect'[q])
        BY <1>4
    <2>3. Held = {currentFrame} \ {NULL} /\ Held' = {f, currentFrame} \ {NULL}
        BY <1>2 DEF Held
    <2>4. Allocated' = Allocated
        BY <1>3, <1>6, <1>2 DEF Allocated
    <2> QED
        BY <1>2, <1>3, <1>6, <2>1, <2>2, <2>3, <2>4
<1>9. SingleOwner'
    <2>1. Held = {currentFrame} \ {NULL} /\ Held' = {f, currentFrame} \ {NULL}
        BY <1>2 DEF Held
    <2>2. /\ IsInjective(queue') /\ Range(queue') = Range(queue)
          /\ Range(queue) \cap pool' = {}
          /\ Held' \cap (pool' \cup Range(queue)) = {}
          /\ newFrame' # currentFrame'
        BY <1>2, <1>3, <1>5, <1>6, <2>1 DEF IInv, SingleOwner
    <2>3. ASSUME NEW q \in DynPoolIds
          PROVE  /\ collect'[q] \subseteq PoolFrames(q)
                 /\ collect'[q] \cap (pool' \cup Range(queue) \cup Held') = {}
        <3>1. CASE q = p
            BY <1>4, <3>1
        <3>2. CASE q # p
            BY <1>2, <1>4, <1>5, <2>1, <3>2 DEF IInv, SingleOwner
        <3> QED
            BY <3>1, <3>2
    <2> QED
        BY <2>2, <2>3 DEF SingleOwner
<1> QED
    BY <1>2, <1>3, <1>6, <1>7, <1>8, <1>9
    DEF IInv, DownIsEmpty, NoLostWakeup, SleepsEmptyHanded, AbortsOnlyIfMisconfigured,
        AbortsOnlyWhenExhausted

(* A pool that is not allocated has no frame anywhere.                     *)
LEMMA UnallocatedPool ==
    ASSUME IInv, status = "up", NEW p \in DynPoolIds \ dynPools, NEW f \in PoolFrames(p)
    PROVE  /\ f \in Frames
           /\ f \notin Allocated
           /\ f \notin pool
           /\ f \notin Range(queue)
           /\ f \notin Held
           /\ \A q \in DynPoolIds : f \notin collect[q]
<1>1. f \in Frames
    BY FramesOfPools
<1>2. f \notin Allocated
    BY FramesOfPools, PoolsDisjoint DEF Allocated, IInv, TypeOK
<1> QED
    BY <1>1, <1>2 DEF IInv, NoLeakNoDangling

(* The frame is one of a new pool.                                         *)
LEMMA FromNewDynPoolIInv ==
    ASSUME IInv, Obtains, pool = {}, dynPools # DynPoolIds, FromNewDynPool
    PROVE  IInv'
<1> USE DEF Obtains, consVars
<1> DEFINE p == NewPoolId
<1>1. p \in DynPoolIds /\ p \notin dynPools /\ dynPools \subseteq DynPoolIds
    BY NewPoolIsNew DEF IInv, TypeOK
<1>2. PICK f \in PoolFrames(p) : newFrame' = f /\ pool' = PoolFrames(p) \ {f}
    BY DEF FromNewDynPool
<1>3. /\ dynPools' = dynPools \cup {p}
      /\ collect' = [collect EXCEPT ![p] = {}]
      /\ UNCHANGED <<queue, data>>
    BY DEF FromNewDynPool
<1>4. stats' = [stats EXCEPT !.dynPoolsAll = stats.dynPoolsAll + 1,
                             !.dynPoolsMax = Larger(stats.dynPoolsMax, Cardinality(dynPools')),
                             !.discardedCur = 0]
    BY DEF FromNewDynPool
<1> HIDE DEF p
<1>5. \A g \in PoolFrames(p) :
        /\ g \in Frames
        /\ g \notin Range(queue)
        /\ g \notin Held
        /\ \A q \in DynPoolIds : g \notin collect[q]
    BY <1>1, UnallocatedPool
<1>6. f \in Frames /\ f # NULL /\ f # currentFrame
    BY <1>2, <1>5, NullAssumption DEF Held
<1>7. /\ collect' \in [DynPoolIds -> SUBSET Frames]
      /\ \A q \in DynPoolIds : collect'[q] \subseteq collect[q]
      /\ \A q \in DynPoolIds : q # p => collect'[q] = collect[q]
      /\ collect[p] \subseteq PoolFrames(p)
    BY <1>1, <1>3 DEF IInv, TypeOK, SingleOwner
<1>8. collect[p] = {}
    BY <1>1, <1>5, <1>7
<1>9. \A q \in DynPoolIds : collect'[q] = collect[q]
    BY <1>7, <1>8
<1>10. TypeOK'
    <2>1. PICK n \in Nat : n = stats.dynPoolsAll + 1
        BY DEF IInv, TypeOK, StatsType
    <2>2. Cardinality(dynPools') \in Nat
        BY <1>1, <1>3, DynPoolsFinite
    <2>3. PICK m \in Nat : m = Larger(stats.dynPoolsMax, Cardinality(dynPools'))
        BY <2>2 DEF IInv, TypeOK, StatsType, Larger
    <2>4. stats' = [stats EXCEPT !.dynPoolsAll = n, !.dynPoolsMax = m, !.discardedCur = 0]
        BY <1>4, <2>1, <2>3
    <2>5. stats' \in StatsType
        BY <2>4 DEF IInv, TypeOK, StatsType
    <2> QED
        BY <1>1, <1>2, <1>3, <1>5, <1>6, <1>7, <2>5 DEF IInv, TypeOK
<1>11. Held = {currentFrame} \ {NULL} /\ Held' = {f, currentFrame} \ {NULL}
    BY <1>2 DEF Held
<1>12. NoLeakNoDangling'
    <2> SUFFICES ASSUME NEW g \in Frames
                 PROVE  g \in Allocated' <=> \/ g \in pool'
                                            \/ g \in Range(queue')
                                            \/ g \in Held'
                                            \/ \E q \in DynPoolIds : g \in collect'[q]
        BY DEF NoLeakNoDangling
    <2>1. g \in Allocated <=> \/ g \in Range(queue)
                             \/ g \in Held
                             \/ \E q \in DynPoolIds : g \in collect[q]
        BY DEF IInv, NoLeakNoDangling
    <2>2. Allocated' = Allocated \cup PoolFrames(p)
        BY <1>2, <1>3, <1>6 DEF Allocated
    <2> QED
        BY <1>2, <1>3, <1>6, <1>9, <1>11, <2>1, <2>2
<1>13. SingleOwner'
    <2>1. /\ IsInjective(queue') /\ Range(queue') = Range(queue)
          /\ Range(queue) \cap pool' = {}
          /\ Held' \cap (pool' \cup Range(queue)) = {}
          /\ newFrame' # currentFrame'
        BY <1>2, <1>3, <1>5, <1>6, <1>11 DEF IInv, SingleOwner
    <2>2. \A q \in DynPoolIds :
            /\ collect'[q] \subseteq PoolFrames(q)
            /\ collect'[q] \cap (pool' \cup Range(queue) \cup Held') = {}
        BY <1>2, <1>5, <1>9, <1>11 DEF IInv, SingleOwner
    <2> QED
        BY <2>1, <2>2 DEF SingleOwner
<1> QED
    BY <1>2, <1>3, <1>6, <1>10, <1>12, <1>13
    DEF IInv, DownIsEmpty, NoLostWakeup, SleepsEmptyHanded, AbortsOnlyIfMisconfigured,
        AbortsOnlyWhenExhausted

(* The frame was the oldest of the queue.                                  *)
LEMMA FromQueueIInv ==
    ASSUME IInv, Obtains, queue # <<>>, FromQueue PROVE IInv'
<1> USE DEF Obtains, consVars
<1>1. queue \in Seq(Frames) /\ IsInjective(queue)
    BY DEF IInv, TypeOK, SingleOwner
<1>2. /\ queue' \in Seq(Frames)
      /\ newFrame' \in Frames
      /\ newFrame' \in Range(queue)
      /\ Range(queue') = Range(queue) \ {newFrame'}
      /\ IsInjective(queue')
    BY <1>1, PopFront DEF FromQueue
<1>3. newFrame' # NULL /\ newFrame' # currentFrame
    BY <1>2, NullAssumption DEF IInv, SingleOwner, Held
<1>4. UNCHANGED <<pool, dynPools, collect>>
    BY DEF FromQueue
<1>5. TypeOK'
    <2>1. PICK n \in Nat : n = stats.discardedCur + 1
        BY DEF IInv, TypeOK, StatsType
    <2>2. PICK k \in Nat : k = stats.discardedAll + 1
        BY DEF IInv, TypeOK, StatsType
    <2>3. PICK m \in Nat : m = Larger(stats.discardedMax, stats.discardedCur + 1)
        BY <2>1 DEF IInv, TypeOK, StatsType, Larger
    <2>4. stats' = [stats EXCEPT !.discardedCur = n, !.discardedAll = k, !.discardedMax = m]
        BY <2>1, <2>2, <2>3 DEF FromQueue
    <2>5. stats' \in StatsType
        BY <2>4 DEF IInv, TypeOK, StatsType
    <2>6. data' \in [Frames -> Nat]
        BY DEF FromQueue, IInv, TypeOK, Garbage
    <2> QED
        BY <1>2, <1>3, <1>4, <2>5, <2>6 DEF IInv, TypeOK
<1>6. NoLeakNoDangling'
    BY <1>2, <1>3, <1>4 DEF IInv, TypeOK, NoLeakNoDangling, Allocated, Held
<1>7. SingleOwner'
    BY <1>2, <1>3, <1>4 DEF IInv, TypeOK, SingleOwner, Held
<1>8. NoLostWakeup'
    BY DEF IInv, NoLostWakeup, FromQueue
<1> QED
    BY <1>3, <1>4, <1>5, <1>6, <1>7, <1>8
    DEF IInv, DownIsEmpty, SleepsEmptyHanded, AbortsOnlyIfMisconfigured,
        AbortsOnlyWhenExhausted

(* If getFrameFromPool() finds nothing, the dynamic pools have no frames:  *)
(* of the two static frames only one can be with the consumer, the other   *)
(* is free or in the queue.                                                *)
LEMMA NoFrameMisconfigured ==
    ASSUME IInv, status = "up", newFrame = NULL, NoFrameAvailable
    PROVE  DynMaxPools > 0 /\ DynBacklog = 0
<1>1. pool = {}
    BY DEF NoFrameAvailable, PoolIsEmpty
<1>2. CASE dynPools # DynPoolIds /\ PoolFrames(NewPoolId) = {}
    BY <1>2, NewPoolIsNew, DynPoolEmpty DEF IInv, TypeOK
<1>3. CASE queue = <<>>
    <2>1. PICK a \in PoolFrames(StaticPool), b \in PoolFrames(StaticPool) : a # b
        BY TwoStaticFrames
    <2>2. Range(queue) = {}
        BY <1>3 DEF Range
    <2>3. \A f \in PoolFrames(StaticPool) : f = currentFrame
        <3> SUFFICES ASSUME NEW f \in PoolFrames(StaticPool) PROVE f = currentFrame
            OBVIOUS
        <3>1. f \in Frames /\ f \in Allocated
            BY FramesOfPools DEF Allocated
        <3>2. \A p \in DynPoolIds : f \notin collect[p]
            BY FramesOfPools, PoolsDisjoint DEF IInv, SingleOwner
        <3>3. f \in Held
            BY <1>1, <2>2, <3>1, <3>2 DEF IInv, NoLeakNoDangling
        <3> QED
            BY <3>3 DEF Held
    <2> QED
        BY <2>1, <2>3
<1> QED
    BY <1>2, <1>3 DEF NoFrameAvailable, CanCreate

(* Where there is none, all frames are queued or in somebody's hand.       *)
LEMMA NoFrameExhausted ==
    ASSUME IInv, NoFrameAvailable
    PROVE  Allocated \subseteq Range(queue) \cup Held
<1>1. pool = {} /\ \A p \in dynPools : collect[p] = {}
    BY DEF NoFrameAvailable, PoolIsEmpty, Uncollectable
<1> SUFFICES ASSUME NEW f \in Allocated, f \notin Range(queue) \cup Held
             PROVE  FALSE
    OBVIOUS
<1>2. f \in Frames
    BY FramesOfPools DEF Allocated, IInv, TypeOK
<1>3. PICK p \in DynPoolIds : f \in collect[p]
    BY <1>1, <1>2 DEF IInv, NoLeakNoDangling
<1>4. f \in PoolFrames(p) /\ p \notin dynPools
    BY <1>1, <1>3 DEF IInv, SingleOwner
<1> QED
    BY <1>4, FramesOfPools, PoolsDisjoint DEF Allocated, IInv, TypeOK

LEMMA DieIInv ==
    ASSUME IInv, status = "up", NEW how, Die(how),
           \/ /\ how = "aborted" /\ DynMaxPools > 0 /\ DynBacklog = 0
              /\ Allocated \subseteq Range(queue) \cup Held
           \/ how = "killed" /\ GC /\ GCLevel = 0
    PROVE  IInv'
<1> USE DEF Die, ghostVars
<1>1. TypeOK'
    BY DEF IInv, TypeOK
<1>2. NoLeakNoDangling' /\ SingleOwner'
    BY DEF IInv, NoLeakNoDangling, SingleOwner, Allocated, Held
<1>3. AbortsOnlyIfMisconfigured' /\ AbortsOnlyWhenExhausted'
    BY DEF AbortsOnlyIfMisconfigured, AbortsOnlyWhenExhausted, Allocated, Held
<1> QED
    BY <1>1, <1>2, <1>3 DEF IInv, DownIsEmpty, NoLostWakeup, SleepsEmptyHanded

LEMMA NewFrameIInv ==
    ASSUME IInv, BUF_newFrame PROVE IInv'
<1>1. CASE NoFrameAvailable /\ Die("aborted")
    BY <1>1, NoFrameMisconfigured, NoFrameExhausted, DieIInv DEF BUF_newFrame
<1>2. CASE ~(NoFrameAvailable /\ Die("aborted"))
    <2>1. Obtains /\ GetFrameFromPool
        BY <1>2 DEF BUF_newFrame, Obtains
    <2>2. CASE FromPool
        BY <2>1, <2>2, FromPoolIInv
    <2>3. CASE pool = {} /\ FromCollected
        BY <2>1, <2>3, FromCollectedIInv
    <2>4. CASE pool = {} /\ dynPools # DynPoolIds /\ FromNewDynPool
        BY <2>1, <2>4, FromNewDynPoolIInv
    <2>5. CASE queue # <<>> /\ FromQueue
        BY <2>1, <2>5, FromQueueIInv
    <2> QED
        BY <2>1, <2>2, <2>3, <2>4, <2>5 DEF GetFrameFromPool, PoolIsEmpty, CanCreate
<1> QED
    BY <1>1, <1>2

-----------------------------------------------------------------------------
(* The theorems *)

LEMMA NextIInv == IInv /\ [Next]_vars => IInv'
<1> SUFFICES ASSUME IInv, [Next]_vars PROVE IInv'
    OBVIOUS
<1>1. CASE Producer
    BY <1>1, NewFrameIInv, FillIInv, CommitIInv, AbortFrameIInv DEF Producer
<1>2. CASE Consumer
    <2>1. CASE BUF_getFrame \/ BUF_getFrameTimeout
        BY <2>1, GetIInv DEF BUF_getFrame, BUF_getFrameTimeout
    <2>2. CASE Wakeup \/ SpuriousWakeup
        BY <2>2, WaitReturnsIInv DEF Wakeup, SpuriousWakeup
    <2>3. CASE WaitTimesOut \/ WaitCancelled
        BY <2>3, WaitEndsIInv DEF WaitTimesOut, WaitCancelled
    <2>4. CASE BUF_releaseFrame
        BY <2>4, ReleaseIInv
    <2>5. CASE BUF_putFrame
        BY <2>5, PutIInv
    <2>6. CASE BUF_flushUnlessHistoryEnabled
        BY <2>6, FlushIInv DEF BUF_flushUnlessHistoryEnabled
    <2> QED
        BY <1>2, <2>1, <2>2, <2>3, <2>4, <2>5, <2>6 DEF Consumer
<1>3. CASE Others
    <2>1. CASE BUF_flush
        BY <2>1, FlushIInv
    <2>2. CASE BUF_runGC
        BY <2>2, RunGCIInv DEF BUF_runGC
    <2>3. CASE GCMainloop
        BY <2>3, RunGCIInv, DieIInv DEF GCMainloop
    <2>4. CASE ResetStats \/ Destruct \/ Construct
        BY <2>4, ResetStatsIInv, DestructIInv, ConstructIInv
    <2> QED
        BY <1>3, <2>1, <2>2, <2>3, <2>4 DEF Others
<1>4. CASE UNCHANGED vars
    <2> USE <1>4 DEF vars
    <2>1. TypeOK'
        BY DEF IInv, TypeOK
    <2>2. NoLeakNoDangling' /\ SingleOwner'
        BY DEF IInv, NoLeakNoDangling, SingleOwner, Allocated, Held
    <2>3. AbortsOnlyWhenExhausted'
        BY DEF IInv, AbortsOnlyWhenExhausted, Allocated, Held
    <2> QED
        BY <2>1, <2>2, <2>3
        DEF IInv, DownIsEmpty, NoLostWakeup, SleepsEmptyHanded, AbortsOnlyIfMisconfigured
<1> QED
    BY <1>1, <1>2, <1>3, <1>4 DEF Next

LEMMA SpecIInv == Spec => []IInv
BY InitIInv, NextIInv, PTL DEF Spec

(* The variables of buffer.c keep their types: in particular frames are    *)
(* only ever frames of the static pool or of one of the DynIncrements      *)
(* dynamic pools.                                                          *)
THEOREM TypeCorrect == Spec => []TypeOK
<1>1. IInv => TypeOK
    BY DEF IInv
<1> QED
    BY <1>1, SpecIInv, PTL

(* Memory safety of the pools: whatever getFrameFromPool(), the garbage    *)
(* collector, flushes and restarts do, no frame leaks and nobody holds a   *)
(* frame of a pool that was freed.                                         *)
THEOREM MemorySafe == Spec => []NoLeakNoDangling
<1>1. IInv => NoLeakNoDangling
    BY DEF IInv
<1> QED
    BY <1>1, SpecIInv, PTL

(* The frames have one owner at a time, so the producer never writes a     *)
(* frame that is queued or being sent.                                     *)
THEOREM Exclusive == Spec => []SingleOwner
<1>1. IInv => SingleOwner
    BY DEF IInv
<1> QED
    BY <1>1, SpecIInv, PTL

(* BUF_newFrame() finds a frame in every configuration whose dynamic pools *)
(* have frames, even if malloc() fails.                                    *)
THEOREM NewFrameSucceeds == Spec => []AbortsOnlyIfMisconfigured
<1>1. IInv => AbortsOnlyIfMisconfigured
    BY DEF IInv
<1> QED
    BY <1>1, SpecIInv, PTL

(* Where the dynamic pools have no frames, its assertion fails only when   *)
(* no frame is left to be found: every one is queued or in a thread's hand.*)
THEOREM NewFrameFindsFrames == Spec => []AbortsOnlyWhenExhausted
<1>1. IInv => AbortsOnlyWhenExhausted
    BY DEF IInv
<1> QED
    BY <1>1, SpecIInv, PTL

(* A consumer that sleeps while frames are queued has been signalled.      *)
THEOREM WakeupNotLost == Spec => []NoLostWakeup
<1>1. IInv => NoLostWakeup
    BY DEF IInv
<1> QED
    BY <1>1, SpecIInv, PTL
=============================================================================
