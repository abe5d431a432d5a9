------------------------------- MODULE Buffer -------------------------------
(***************************************************************************)
(* The frame buffer, core/buffer.c.  Frames live in a static pool and in   *)
(* dynamic pools that are created on demand and freed by a garbage         *)
(* collector.  A producer thread (RECV, or the thread of the library's     *)
(* user) fills one frame at a time, a consumer thread (RELAY) takes the    *)
(* frames from a queue.  Every function of the buffer runs under one       *)
(* mutex, so each is one action; the only place where a thread gives the   *)
(* mutex away in the middle is the wait for a non-empty queue, which is    *)
(* split into going to sleep, the wake-up and the timeout.  newFrame is    *)
(* reset after the unlock, but only the producer itself reads it.          *)
(*                                                                         *)
(* The list of free frames, the lists of collected frames and the list of  *)
(* dynamic pools are sets: their order decides only which free frame or    *)
(* which collected pool is used next, and the model allows every choice.   *)
(* A frame is <<pool, index>>, its content the number of its commit.       *)
(***************************************************************************)
EXTENDS Integers, Sequences, FiniteSets, Functions

CONSTANTS
    CfgStaticBacklog,   \* BUFFER.StaticBacklog
    DynBacklog,         \* BUFFER.DynamicBacklog
    DynIncrements,      \* BUFFER.DynamicIncrements
    History,            \* BUFFER.History
    CfgGC,              \* BUFFER.GC
    GCLevel,            \* BUFFER.GCLevel
    MallocMayFail,      \* may malloc() of a dynamic pool return NULL?
    WithReset,          \* may COMP_resetAll() call resetStats()?
    NULL,
    MaxCommits,         \* bound: frames committed in a behaviour
    MaxFlushes,         \* bound: value of the counter of flushes
    MaxGCRuns           \* bound: value of the counter of GC runs

ASSUME BufferAssumption ==
    /\ CfgStaticBacklog \in Nat
    /\ DynBacklog \in Nat
    /\ DynIncrements \in Nat
    /\ History \in BOOLEAN
    /\ CfgGC \in BOOLEAN
    /\ GCLevel \in Nat
    /\ MallocMayFail \in BOOLEAN
    /\ WithReset \in BOOLEAN
    /\ MaxCommits \in Nat
    /\ MaxFlushes \in Nat
    /\ MaxGCRuns \in Nat

(* cfgFix() and construct(): the configuration that is really used.        *)
StatBacklog_unfixed == CfgStaticBacklog \* mutant: cfgFix() does not raise it to 2
StatBacklog == IF CfgStaticBacklog < 2 THEN 2 ELSE CfgStaticBacklog
GC == CfgGC /\ History
DynMaxPools == IF History THEN DynIncrements ELSE 0

StaticPool == 0
DynPoolIds == 1..DynMaxPools
PoolFrames(p) == {p} \X (IF p = StaticPool THEN 1..StatBacklog ELSE 1..DynBacklog)
Frames == PoolFrames(StaticPool) \cup UNION {PoolFrames(p) : p \in DynPoolIds}

ASSUME NullAssumption == NULL \notin Frames /\ NULL \notin Nat

Garbage == 0  \* content of a frame nobody is interested in
NoStats == [discardedCur |-> 0, discardedAll |-> 0, discardedMax |-> 0,
            maxQueueSize |-> 0, dynPoolsAll |-> 0, dynPoolsMax |-> 0,
            uncollectedPools |-> 0, flushes |-> 0, GCruns |-> 0]

VARIABLES
    pool,         \* free frames
    queue,        \* committed frames, oldest first
    newFrame,     \* frame of the producer, or NULL
    currentFrame, \* frame of the consumer, or NULL
    dynPools,     \* dynamic pools that are allocated
    collect,      \* per pool: free frames taken away by the garbage collector
    stats,        \* struct BUFFER_Statistics
    waiting,      \* function in which the consumer sleeps, or NULL
    signalled,    \* the sleeping consumer was woken by the condition variable
    status,       \* "up", "down" (before construct), "aborted" (assertion),
                  \* "killed" (division by zero)
    data,         \* content of the frames
    committed,    \* number of frames committed so far
    delivered     \* contents the consumer has released

memVars == <<pool, newFrame, dynPools, collect>>
consVars == <<currentFrame, waiting, signalled>>
ghostVars == <<data, committed, delivered>>
vars == <<pool, queue, newFrame, currentFrame, dynPools, collect, stats,
          waiting, signalled, status, data, committed, delivered>>

Larger(a, b) == IF a > b THEN a ELSE b

Init ==
    /\ pool = PoolFrames(StaticPool)
    /\ queue = <<>>
    /\ newFrame = NULL
    /\ currentFrame = NULL
    /\ dynPools = {}
    /\ collect = [p \in DynPoolIds |-> {}]
    /\ stats = NoStats
    /\ waiting = NULL
    /\ signalled = FALSE
    /\ status = "up"
    /\ data = [f \in Frames |-> Garbage]
    /\ committed = 0
    /\ delivered = {}

-----------------------------------------------------------------------------
(* Producer *)

(* The process dies in the function that is running: an assertion fails    *)
(* ("aborted"), or an integer is divided by zero ("killed").               *)
Die(how) ==
    /\ status' = how
    /\ UNCHANGED <<pool, queue, newFrame, currentFrame, dynPools, collect,
                   stats, waiting, signalled, ghostVars>>

(* getFrameFromPool(): the list of free frames is not empty.               *)
FromPool ==
    \E f \in pool :
        /\ newFrame' = f
        /\ pool' = pool \ {f}
        /\ stats' = [stats EXCEPT !.discardedCur = 0]
        /\ UNCHANGED <<queue, dynPools, collect, data>>

Uncollectable_never == {} \* mutant: getFrameFromPool() forgets collected pools
Uncollectable == {p \in dynPools : collect[p] # {}}

(* uncollectPools(): revert the first stage of the garbage collection.     *)
FromCollected ==
    \E p \in Uncollectable : \E f \in collect[p] :
        /\ newFrame' = f
        /\ pool' = collect[p] \ {f}
        /\ collect' = [collect EXCEPT ![p] = {}]
        /\ stats' = [stats EXCEPT !.uncollectedPools = @ + 1, !.discardedCur = 0]
        /\ UNCHANGED <<queue, dynPools, data>>

NewPoolId == CHOOSE p \in DynPoolIds : p \notin dynPools

(* createDynPool(), deployPool(): the frames of a new pool are free.       *)
FromNewDynPool ==
    \E f \in PoolFrames(NewPoolId) :
        /\ newFrame' = f
        /\ pool' = PoolFrames(NewPoolId) \ {f}
        /\ dynPools' = dynPools \cup {NewPoolId}
        /\ collect' = [collect EXCEPT ![NewPoolId] = {}]
        /\ stats' = [stats EXCEPT !.dynPoolsAll = @ + 1,
                                  !.dynPoolsMax = Larger(@, Cardinality(dynPools')),
                                  !.discardedCur = 0]
        /\ UNCHANGED <<queue, data>>

(* The oldest frame of the queue is sacrificed.                            *)
FromQueue ==
    /\ newFrame' = Head(queue)
    /\ queue' = Tail(queue)
    /\ data' = [data EXCEPT ![Head(queue)] = Garbage]
    /\ stats' = [stats EXCEPT !.discardedCur = @ + 1,
                              !.discardedAll = @ + 1,
                              !.discardedMax = Larger(@, stats.discardedCur + 1)]
    /\ UNCHANGED <<pool, dynPools, collect>>

PoolIsEmpty == pool = {} /\ Uncollectable = {}
CanCreate(mallocOk) == dynPools # DynPoolIds /\ mallocOk
MallocResults == IF MallocMayFail THEN BOOLEAN ELSE {TRUE}

(* getFrameFromPool().                                                     *)
GetFrameFromPool ==
    \/ pool # {} /\ FromPool
    \/ pool = {} /\ FromCollected
    \/ PoolIsEmpty /\ \E ok \in MallocResults :
        \/ CanCreate(ok) /\ FromNewDynPool
        \/ ~CanCreate(ok) /\ queue # <<>> /\ FromQueue

(* assert(ret) of getFrameFromPool() fails: nothing is free, and either a  *)
(* dynamic pool without frames was created or there is nothing to          *)
(* sacrifice.                                                              *)
NoFrameAvailable ==
    PoolIsEmpty /\ \E ok \in MallocResults :
        IF CanCreate(ok) THEN PoolFrames(NewPoolId) = {} ELSE queue = <<>>

BUF_newFrame ==
    /\ status = "up"
    /\ newFrame = NULL
    /\ \/ /\ GetFrameFromPool
          /\ status' = IF newFrame' = currentFrame THEN "aborted" ELSE "up"
          /\ UNCHANGED <<consVars, committed, delivered>>
       \/ NoFrameAvailable /\ Die("aborted")

(* The producer writes its frame: INPUT_getFrame(), outside of the mutex.  *)
FillFrame ==
    /\ status = "up"
    /\ newFrame # NULL
    /\ committed < MaxCommits
    /\ data' = [data EXCEPT ![newFrame] = committed + 1]
    /\ UNCHANGED <<memVars, queue, consVars, stats, status, committed, delivered>>

(* pthread_cond_broadcast(&cond).                                          *)
Broadcast_missing == UNCHANGED signalled \* mutant: nobody is woken
Broadcast == signalled' = (waiting # NULL)

BUF_commitFrame ==
    /\ status = "up"
    /\ newFrame # NULL
    /\ data[newFrame] # Garbage
    /\ queue' = Append(queue, newFrame)
    /\ Broadcast
    /\ stats' = [stats EXCEPT !.maxQueueSize = Larger(@, Len(queue) + 1)]
    /\ newFrame' = NULL
    /\ committed' = committed + 1
    /\ UNCHANGED <<pool, dynPools, collect, currentFrame, waiting, status,
                   data, delivered>>

(* Mutant: the producer's frame is returned, but newFrame is not reset.    *)
BUF_abortFrame_keeps ==
    /\ status = "up"
    /\ newFrame # NULL
    /\ pool' = pool \cup {newFrame}
    /\ data' = [data EXCEPT ![newFrame] = Garbage]
    /\ UNCHANGED <<queue, newFrame, dynPools, collect, consVars, stats, status,
                   committed, delivered>>

BUF_abortFrame ==
    /\ status = "up"
    /\ newFrame # NULL
    /\ pool' = pool \cup {newFrame}
    /\ newFrame' = NULL
    /\ data' = [data EXCEPT ![newFrame] = Garbage]
    /\ UNCHANGED <<queue, dynPools, collect, consVars, stats, status,
                   committed, delivered>>

-----------------------------------------------------------------------------
(* Consumer *)

TakeOldest ==
    /\ currentFrame' = Head(queue)
    /\ queue' = Tail(queue)
    /\ waiting' = NULL
    /\ signalled' = FALSE
    /\ UNCHANGED <<memVars, stats, status, ghostVars>>

(* BUF_getFrame(), BUF_getFrameTimeout(): up to the first wait.            *)
GetOrWait(fn) ==
    /\ status = "up"
    /\ currentFrame = NULL
    /\ waiting = NULL
    /\ \/ queue # <<>> /\ TakeOldest
       \/ /\ queue = <<>>
          /\ waiting' = fn
          /\ signalled' = FALSE
          /\ UNCHANGED <<memVars, queue, currentFrame, stats, status, ghostVars>>

BUF_getFrame == GetOrWait("getFrame")
BUF_getFrameTimeout == GetOrWait("getFrameTimeout")

(* The wait returns and the loop tests the queue again.                    *)
WaitReturns ==
    /\ status = "up"
    /\ waiting # NULL
    /\ \/ queue # <<>> /\ TakeOldest
       \/ /\ queue = <<>>
          /\ signalled' = FALSE
          /\ UNCHANGED <<memVars, queue, currentFrame, waiting, stats, status,
                         ghostVars>>

Wakeup == signalled /\ WaitReturns
SpuriousWakeup == ~signalled /\ WaitReturns

(* pthread_cond_timedwait() reports ETIMEDOUT: BUF_getFrameTimeout()       *)
(* returns NULL even if the queue has been filled in the meantime.  The    *)
(* thread may also be cancelled in either wait; the state is the same.     *)
WaitEnds ==
    /\ status = "up"
    /\ waiting' = NULL
    /\ signalled' = FALSE
    /\ UNCHANGED <<memVars, queue, currentFrame, stats, status, ghostVars>>

WaitTimesOut == waiting = "getFrameTimeout" /\ WaitEnds
WaitCancelled == waiting # NULL /\ WaitEnds

BUF_releaseFrame ==
    /\ status = "up"
    /\ currentFrame # NULL
    /\ pool' = pool \cup {currentFrame}
    /\ currentFrame' = NULL
    /\ data' = [data EXCEPT ![currentFrame] = Garbage]
    /\ delivered' = delivered \cup {data[currentFrame]}
    /\ UNCHANGED <<queue, newFrame, dynPools, collect, waiting, signalled,
                   stats, status, committed>>

(* Mutant: the frame goes to the pool.                                     *)
BUF_putFrame_toPool ==
    /\ status = "up"
    /\ currentFrame # NULL
    /\ pool' = pool \cup {currentFrame}
    /\ currentFrame' = NULL
    /\ UNCHANGED <<queue, newFrame, dynPools, collect, waiting, signalled,
                   stats, status, ghostVars>>

BUF_putFrame ==
    /\ status = "up"
    /\ currentFrame # NULL
    /\ queue' = <<currentFrame>> \o queue
    /\ currentFrame' = NULL
    /\ UNCHANGED <<memVars, waiting, signalled, stats, status, ghostVars>>

-----------------------------------------------------------------------------
(* Flushing, garbage collection, statistics, life cycle *)

BUF_flush ==
    /\ status = "up"
    /\ stats.flushes < MaxFlushes
    /\ pool' = pool \cup Range(queue)
    /\ queue' = <<>>
    /\ stats' = [stats EXCEPT !.flushes = @ + 1]
    /\ data' = [f \in Frames |-> IF f \in Range(queue) THEN Garbage ELSE data[f]]
    /\ UNCHANGED <<newFrame, dynPools, collect, consVars, status, committed,
                   delivered>>

BUF_flushUnlessHistoryEnabled == ~History /\ BUF_flush

(* collectPools(): what the collection of pool p holds afterwards.         *)
CollectPools == [p \in DynPoolIds |-> collect[p] \cup (pool \cap PoolFrames(p))]

(* destroyUnusedPools(): the pools that are freed, all frames collected.   *)
DestroyUnusedPools_early(coll) == \* mutant: off by one
    {p \in dynPools : Cardinality(coll[p]) >= DynBacklog - 1}
DestroyUnusedPools(coll) == {p \in dynPools : Cardinality(coll[p]) = DynBacklog}

(* gc().                                                                   *)
RunGC ==
    /\ stats.GCruns < MaxGCRuns
    /\ LET coll == CollectPools
           freed == DestroyUnusedPools(coll)
       IN  /\ pool' = pool \cap PoolFrames(StaticPool)
           /\ dynPools' = dynPools \ freed
           /\ collect' = [p \in DynPoolIds |-> IF p \in freed THEN {} ELSE coll[p]]
    /\ stats' = [stats EXCEPT !.GCruns = @ + 1]
    /\ UNCHANGED <<queue, newFrame, consVars, status, ghostVars>>

BUF_runGC == status = "up" /\ RunGC

(* One round of the garbage collector's mainloop().  With GCLevel = 0 the  *)
(* threshold is a division by zero, which kills the process.               *)
GCMainloop ==
    /\ status = "up"
    /\ GC
    /\ \/ GCLevel = 0 /\ Die("killed")
       \/ /\ GCLevel # 0
          /\ Len(queue) < (Cardinality(dynPools) * DynBacklog) \div GCLevel
          /\ RunGC

ResetStats ==
    /\ WithReset
    /\ status \in {"up", "down"}
    /\ stats' = NoStats
    /\ UNCHANGED <<memVars, queue, consVars, status, ghostVars>>

(* destruct(): the threads have been stopped, their clean-up handlers have *)
(* given their frames back.                                                *)
Destruct ==
    /\ status = "up"
    /\ newFrame = NULL
    /\ currentFrame = NULL
    /\ waiting = NULL
    /\ status' = "down"
    /\ pool' = {}
    /\ queue' = <<>>
    /\ dynPools' = {}
    /\ collect' = [p \in DynPoolIds |-> {}]
    /\ data' = [f \in Frames |-> Garbage]
    /\ UNCHANGED <<newFrame, consVars, stats, committed, delivered>>

Construct ==
    /\ status = "down"
    /\ status' = "up"
    /\ pool' = PoolFrames(StaticPool)
    /\ UNCHANGED <<queue, newFrame, dynPools, collect, consVars, stats, ghostVars>>

Producer == BUF_newFrame \/ FillFrame \/ BUF_commitFrame \/ BUF_abortFrame
Consumer ==
    \/ BUF_getFrame
    \/ BUF_getFrameTimeout
    \/ Wakeup
    \/ SpuriousWakeup
    \/ WaitTimesOut
    \/ WaitCancelled
    \/ BUF_releaseFrame
    \/ BUF_putFrame
    \/ BUF_flushUnlessHistoryEnabled
Others ==
    \/ BUF_flush
    \/ BUF_runGC
    \/ GCMainloop
    \/ ResetStats
    \/ Destruct
    \/ Construct

Next == Producer \/ Consumer \/ Others

Spec == Init /\ [][Next]_vars

(* Fairness: the scheduler runs the consumer, pthread_cond_wait() returns  *)
(* after a broadcast, and a consumer that gets frames again and again does *)
(* not fail to send for ever.  Nothing is assumed of the producer, of      *)
(* timeouts, of spurious wake-ups or of the garbage collector.             *)
Fairness ==
    /\ WF_vars(BUF_getFrame \/ BUF_getFrameTimeout)
    /\ WF_vars(Wakeup)
    /\ SF_vars(BUF_releaseFrame)

FairSpec == Spec /\ Fairness

-----------------------------------------------------------------------------
(* Properties *)

StatsType == [discardedCur : Nat, discardedAll : Nat, discardedMax : Nat,
              maxQueueSize : Nat, dynPoolsAll : Nat, dynPoolsMax : Nat,
              uncollectedPools : Nat, flushes : Nat, GCruns : Nat]

(* The variables of buffer.c have their types.                             *)
TypeOK ==
    /\ pool \subseteq Frames
    /\ queue \in Seq(Frames)
    /\ newFrame \in Frames \cup {NULL}
    /\ currentFrame \in Frames \cup {NULL}
    /\ dynPools \subseteq DynPoolIds
    /\ collect \in [DynPoolIds -> SUBSET Frames]
    /\ stats \in StatsType
    /\ waiting \in {NULL, "getFrame", "getFrameTimeout"}
    /\ signalled \in BOOLEAN
    /\ status \in {"up", "down", "aborted", "killed"}
    /\ data \in [Frames -> Nat]
    /\ committed \in Nat
    /\ delivered \subseteq Nat

Held == {newFrame, currentFrame} \ {NULL}
Allocated ==
    IF status = "down" THEN {}
    ELSE PoolFrames(StaticPool) \cup UNION {PoolFrames(p) : p \in dynPools}

(* Every frame of an allocated pool is somewhere, and nothing else is: no  *)
(* frame leaks, and nobody holds a frame of a pool that destroyUnusedPools *)
(* has freed.                                                              *)
NoLeakNoDangling ==
    \A f \in Frames :
        f \in Allocated <=> \/ f \in pool
                           \/ f \in Range(queue)
                           \/ f \in Held
                           \/ \E p \in DynPoolIds : f \in collect[p]

(* Between destruct() and construct() there are no pools.                  *)
DownIsEmpty == status = "down" => dynPools = {}

(* A frame is in one place only: the free list, the queue (once), the      *)
(* producer, the consumer or the collection of its own pool.               *)
SingleOwner ==
    /\ IsInjective(queue)
    /\ Range(queue) \cap pool = {}
    /\ Held \cap (pool \cup Range(queue)) = {}
    /\ newFrame # NULL => newFrame # currentFrame
    /\ \A p \in DynPoolIds :
        /\ collect[p] \subseteq PoolFrames(p)
        /\ collect[p] \cap (pool \cup Range(queue) \cup Held) = {}

(* An assertion of the buffer fails only if dynamic pools have no frames,  *)
(* and it divides by zero only if the threshold of the collector does:     *)
(* with any other configuration, and whether or not malloc() succeeds,     *)
(* there is always a frame for the producer, and it is not the one the     *)
(* consumer is sending.                                                    *)
AbortsOnlyIfMisconfigured ==
    /\ status = "aborted" => DynMaxPools > 0 /\ DynBacklog = 0
    /\ status = "killed" => GC /\ GCLevel = 0

(* Even a configuration whose dynamic pools have no frames runs into       *)
(* assert(ret) of getFrameFromPool() only where another one would          *)
(* sacrifice its oldest frame: every frame is queued or in the hand of a   *)
(* thread.  Frames that are aborted, released, flushed or put back are     *)
(* found again first.                                                      *)
AbortsOnlyWhenExhausted ==
    status = "aborted" => Allocated \subseteq Range(queue) \cup Held

(* The wait loops of BUF_getFrame() and BUF_getFrameTimeout() cannot miss  *)
(* a frame: if the queue is not empty, a sleeping consumer has already     *)
(* been signalled.                                                         *)
NoLostWakeup == waiting # NULL /\ queue # <<>> => signalled

(* The consumer sleeps only when it has no frame.                          *)
SleepsEmptyHanded == waiting # NULL => currentFrame = NULL

Backlog == [i \in 1..Len(queue) |-> data[queue[i]]]
InHand == IF currentFrame = NULL THEN NULL ELSE data[currentFrame]

FQ == INSTANCE FrameQueue WITH
        None <- NULL, backlog <- Backlog, inHand <- InHand,
        capacity <- Cardinality(Allocated)

(* The buffer is a lossy FIFO: pools, garbage collection and the wait loop *)
(* are invisible, the producer never overwrites a frame that is queued or  *)
(* being sent, and a frame is only sacrificed when the frames of all pools *)
(* that exist at that time, collected ones included, are in use.           *)
ImplementsFrameQueue == FQ!Spec

Lost == (1..committed) \ (delivered \cup Range(Backlog) \cup {InHand})

(* A committed frame that is never delivered was counted in discardedAll,  *)
(* or it was flushed or destructed with the whole backlog; a lost frame    *)
(* does not come back.                                                     *)
LossIsAccounted ==
    [][/\ Lost \subseteq Lost'
       /\ \/ Cardinality(Lost' \ Lost) = stats'.discardedAll - stats.discardedAll
          \/ stats'.flushes > stats.flushes /\ queue' = <<>>
          \/ status' = "down"
          \/ Lost' = Lost /\ stats' = NoStats]_vars

(* Every committed frame is eventually delivered or lost: it cannot stay   *)
(* in the queue or with the consumer for ever.                             *)
EveryFrameLeaves ==
    \A s \in 1..MaxCommits : (s <= committed) ~> (s \in delivered \cup Lost)
=============================================================================
