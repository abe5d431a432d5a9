----------------------------- MODULE Component -----------------------------
(***************************************************************************)
(* The component framework, util/component.c, driven by its callers: the   *)
(* daemons' main() and the library's init(), enable() and disable().       *)
(*                                                                         *)
(* One thread, the caller, executes the loops over the list of components, *)
(* one iteration per step; the threads of the components end in between.   *)
(* A system (the descriptors of the linked components and the              *)
(* configuration) is chosen in the initial state and never changes.        *)
(***************************************************************************)
EXTENDS Naturals, Sequences

CONSTANTS Components,   \* struct Component: the components linked in
          Systems,      \* the systems to be considered
          MaxStarts     \* bound: calls of COMP_startAll()

(***************************************************************************)
(* roots      the components the program registers, in this order          *)
(* deps       dependencies of a component; the order in which a component  *)
(*            lists them is left open                                      *)
(* kind       "thread": main(), never returns; "oneshot": main(), returns; *)
(*            "callbacks": onStart() and onStop(); "passive": none of them *)
(* enabled    *enabled, TRUE if there is no such flag; start: *start       *)
(* waits      threads that must have ended before a cancelled thread ends  *)
(*            (RELAY: NET holds the mutex while it connects); a thread     *)
(*            that waits for itself does not end                           *)
(* prompt     a cancelled thread that waits for nobody ends in a second,   *)
(*            no threads wait for each other in a circle, and onStop()     *)
(*            succeeds at the second attempt                               *)
(* timedJoin  HAVE_PTHREAD_TIMEDJOIN_NP                                    *)
(* library    the caller is the library, which calls enable() and          *)
(*            disable() again and again, and not a daemon                  *)
(***************************************************************************)
NoCircle(s) ==
    \A S \in SUBSET Components :
        S # {} => \E c \in S : s.waits[c] \cap S = {}

IsSystem(s) ==
    /\ s.roots \in Seq(Components)
    /\ s.deps \in [Components -> SUBSET Components]
    /\ s.kind \in [Components -> {"thread", "oneshot", "callbacks", "passive"}]
    /\ s.enabled \in [Components -> BOOLEAN]
    /\ s.start \in [Components -> BOOLEAN]
    /\ s.waits \in [Components -> SUBSET Components]
    /\ s.prompt \in BOOLEAN /\ s.timedJoin \in BOOLEAN /\ s.library \in BOOLEAN
    /\ s.prompt => NoCircle(s)

ASSUME SystemsAssumption == \A s \in Systems : IsSystem(s)

ASSUME MaxStartsAssumption == MaxStarts \in Nat

VARIABLES
    sys,         \* the system
    components,  \* the list of registered components
    tmpList,     \* tmpList of sequentialize()
    state,       \* ComponentLink.state, "none" if not registered
    thread,      \* ComponentLink.thread and what became of it
    pc,          \* the loop that the caller executes
    pos,         \* its position in the list
    end,         \* stopUntil(): position of its argument
    retry,       \* stopUntil(): not the first pass
    deferred, progress,   \* stopUntil(): the variables of these names
    ret,         \* result of the last COMP_startAll()
    starts,      \* number of calls of COMP_startAll()
    cause        \* why the process was aborted

vars == <<sys, components, tmpList, state, thread, pc, pos, end, retry,
          deferred, progress, ret, starts, cause>>
lists == <<components, tmpList>>
pass == <<end, retry, deferred, progress>>
history == <<sys, ret, starts, cause>>

Current == components[pos]
IsThreaded(c) == sys.kind[c] \in {"thread", "oneshot"}
Alive(c) == thread[c] \in {"running", "cancelled"}
Constructed(c) == state[c] \in {"INITIALIZED", "STARTED"}

Exists(c) == \E i \in 1..Len(components) : components[i] = c
allDependencies(c) == \A d \in sys.deps[c] : Exists(d)

Init ==
    /\ sys \in Systems
    /\ components = <<>> /\ tmpList = <<>>
    /\ state = [c \in Components |-> "none"]
    /\ thread = [c \in Components |-> "none"]
    /\ pc = "register" /\ pos = 1
    /\ end = 0 /\ retry = FALSE /\ deferred = FALSE /\ progress = FALSE
    /\ ret = FALSE /\ starts = 0 /\ cause = "none"

----------------------------------------------------------------------------
(* A message of level EMERG or a failed assertion ends the process.        *)
Abort(why) ==
    /\ pc' = "aborted" /\ cause' = why
    /\ UNCHANGED <<sys, lists, state, thread, pos, pass, ret, starts>>

GoTo(label, p) == pc' = label /\ pos' = p

(* COMP_register() of a component that is not yet in the list.             *)
COMP_register(c) ==
    /\ components' = Append(components, c)
    /\ state' = [state EXCEPT ![c] = "REGISTERED"]
    /\ UNCHANGED <<tmpList, thread, pass, history>>

RegisterRoot ==
    /\ pc = "register" /\ pos <= Len(sys.roots)
    /\ LET c == sys.roots[pos]
       IN \/ Exists(c) /\ Abort("registeredTwice")
          \/ ~Exists(c) /\ COMP_register(c) /\ GoTo(pc, pos + 1)

COMP_fixup ==
    /\ pc = "register" /\ pos > Len(sys.roots)
    /\ GoTo("fix", 1)
    /\ UNCHANGED <<lists, state, thread, pass, history>>

(* fixDependencies(): the loop also visits the components it appends.      *)
FixDependency ==
    /\ pc = "fix" /\ pos <= Len(components)
    /\ \E d \in sys.deps[Current] : ~Exists(d) /\ COMP_register(d)
    /\ GoTo(pc, pos)

FixNext_unresolved == \* mutant: missing dependencies are not registered
    /\ pc = "fix" /\ pos <= Len(components)
    /\ GoTo(pc, pos + 1)
    /\ UNCHANGED <<lists, state, thread, pass, history>>

FixNext ==
    /\ pc = "fix" /\ pos <= Len(components)
    /\ allDependencies(Current)
    /\ GoTo(pc, pos + 1)
    /\ UNCHANGED <<lists, state, thread, pass, history>>

(* sequentialize(): all components are moved to tmpList ...                *)
Sequentialize ==
    /\ pc = "fix" /\ pos > Len(components)
    /\ tmpList' = components /\ components' = <<>>
    /\ GoTo("seq", 1)
    /\ UNCHANGED <<state, thread, pass, history>>

(* ... and the first whose dependencies are all in the list moves back.    *)
FirstReady_any(i) == i \in 1..Len(tmpList) \* mutant: no test

FirstReady(i) ==
    /\ i \in 1..Len(tmpList)
    /\ allDependencies(tmpList[i])
    /\ \A j \in 1..(i - 1) : ~allDependencies(tmpList[j])

Unlink(list, i) ==
    [j \in 1..(Len(list) - 1) |-> IF j < i THEN list[j] ELSE list[j + 1]]

SequentializeMove_unshift == \* mutant: LIST_unshift() instead of LIST_push()
    /\ pc = "seq"
    /\ \E i \in 1..Len(tmpList) :
          /\ FirstReady(i)
          /\ components' = <<tmpList[i]>> \o components
          /\ tmpList' = Unlink(tmpList, i)
    /\ GoTo(pc, pos)
    /\ UNCHANGED <<state, thread, pass, history>>

SequentializeMove ==
    /\ pc = "seq"
    /\ \E i \in 1..Len(tmpList) :
          /\ FirstReady(i)
          /\ components' = Append(components, tmpList[i])
          /\ tmpList' = Unlink(tmpList, i)
    /\ GoTo(pc, pos)
    /\ UNCHANGED <<state, thread, pass, history>>

SequentializeCycle ==
    /\ pc = "seq" /\ tmpList # <<>>
    /\ \A i \in 1..Len(tmpList) : ~allDependencies(tmpList[i])
    /\ Abort("cycle")

SequentializeDone ==
    /\ pc = "seq" /\ tmpList = <<>>
    /\ GoTo("fixed", 1)
    /\ UNCHANGED <<lists, state, thread, pass, history>>

----------------------------------------------------------------------------
(* checkEnabledDependencies() at the begin of COMP_initAll().              *)
DisabledDependency ==
    \E i \in 1..Len(components) :
        /\ sys.enabled[components[i]]
        /\ \E d \in sys.deps[components[i]] : ~sys.enabled[d]

COMP_initAll ==
    /\ pc = "fixed"
    /\ \/ DisabledDependency /\ Abort("disabledDependency")
       \/ /\ ~DisabledDependency
          /\ GoTo("init", 1)
          /\ UNCHANGED <<lists, state, thread, pass, history>>

InitComponent ==
    /\ pc = "init" /\ pos <= Len(components)
    /\ state' = [state EXCEPT ![Current] =
                     IF sys.enabled[Current] THEN "INITIALIZED" ELSE @]
    /\ GoTo(pc, pos + 1)
    /\ UNCHANGED <<lists, thread, pass, history>>

(* onConstruct() returns false: destructUntil(), then return.              *)
InitFails ==
    /\ pc = "init" /\ pos <= Len(components)
    /\ sys.enabled[Current]
    /\ GoTo("undo", pos - 1)
    /\ UNCHANGED <<lists, state, thread, pass, history>>

InitDone ==
    /\ pc = "init" /\ pos > Len(components)
    /\ GoTo("ready", 1)
    /\ UNCHANGED <<lists, state, thread, pass, history>>

(* destruct() of the current component, by destructUntil() after a failed  *)
(* construction and by COMP_destructAll().                                 *)
Destruct_unchecked == \* mutant: also components that are still started
    /\ pc \in {"undo", "destruct"} /\ pos >= 1
    /\ state' = [state EXCEPT ![Current] = "REGISTERED"]
    /\ GoTo(pc, pos - 1)
    /\ UNCHANGED <<lists, thread, pass, history>>

Destruct ==
    /\ pc \in {"undo", "destruct"} /\ pos >= 1
    /\ \/ state[Current] = "STARTED" /\ Abort("assert")
       \/ /\ state[Current] # "STARTED"
          /\ state' = [state EXCEPT ![Current] = "REGISTERED"]
          /\ GoTo(pc, pos - 1)
          /\ UNCHANGED <<lists, thread, pass, history>>

(* main() gives up if COMP_initAll() fails, the library goes on.           *)
UndoDone ==
    /\ pc = "undo" /\ pos = 0
    /\ \/ ~sys.library /\ Abort("initFailed")
       \/ /\ sys.library
          /\ GoTo("ready", 1)
          /\ UNCHANGED <<lists, state, thread, pass, history>>

----------------------------------------------------------------------------
(* main() calls COMP_startAll() once; enable() does whenever it is called. *)
COMP_startAll ==
    /\ \/ pc = "ready"
       \/ sys.library /\ pc \in {"up", "stopped"}
    /\ starts < MaxStarts /\ starts' = starts + 1
    /\ GoTo("start", 1)
    /\ UNCHANGED <<sys, lists, state, thread, pass, ret, cause>>

ToBeStarted == state[Current] = "INITIALIZED" /\ sys.start[Current]

StartSkip ==
    /\ pc = "start" /\ pos <= Len(components)
    /\ ~ToBeStarted
    /\ GoTo(pc, pos + 1)
    /\ UNCHANGED <<lists, state, thread, pass, history>>

(* pthread_create() or onStart() succeeds, or there is nothing to call.    *)
StartComponent ==
    /\ pc = "start" /\ pos <= Len(components)
    /\ ToBeStarted
    /\ state' = [state EXCEPT ![Current] = "STARTED"]
    /\ thread' = [thread EXCEPT ![Current] =
                      IF IsThreaded(Current) THEN "running" ELSE @]
    /\ GoTo(pc, pos + 1)
    /\ UNCHANGED <<lists, pass, history>>

(* stopUntil(e): the first pass, in reverse order, begins before e.        *)
StopUntil(e) ==
    /\ end' = e /\ retry' = FALSE /\ deferred' = FALSE /\ progress' = TRUE
    /\ GoTo("stop", e - 1)

StartFails_ignored == \* mutant: the other components are started nevertheless
    /\ pc = "start" /\ pos <= Len(components)
    /\ ToBeStarted /\ sys.kind[Current] # "passive"
    /\ GoTo(pc, pos + 1)
    /\ UNCHANGED <<lists, state, thread, pass, history>>

StartFails ==
    /\ pc = "start" /\ pos <= Len(components)
    /\ ToBeStarted /\ sys.kind[Current] # "passive"
    /\ StopUntil(pos)
    /\ ret' = FALSE
    /\ UNCHANGED <<sys, lists, state, thread, starts, cause>>

StartDone ==
    /\ pc = "start" /\ pos > Len(components)
    /\ GoTo("up", 1)
    /\ ret' = TRUE
    /\ UNCHANGED <<sys, lists, state, thread, pass, starts, cause>>

----------------------------------------------------------------------------
(* A SIGINT ends UTIL_waitSigInt() of main(); disable() of the library.    *)
COMP_stopAll ==
    /\ pc = "up"
    /\ StopUntil(Len(components) + 1)
    /\ UNCHANGED <<lists, state, thread, history>>

(* stop() returned; the loop of stopUntil() goes on.                       *)
Stopped_unset == \* mutant: the state is not reset
    /\ progress' = TRUE
    /\ GoTo("stop", pos - 1)
    /\ UNCHANGED <<lists, state, end, retry, deferred, history>>

Stopped ==
    /\ state' = [state EXCEPT ![Current] = "INITIALIZED"]
    /\ progress' = TRUE
    /\ GoTo("stop", pos - 1)
    /\ UNCHANGED <<lists, end, retry, deferred, history>>

NotStopped ==
    /\ deferred' = TRUE
    /\ GoTo("stop", pos - 1)
    /\ UNCHANGED <<lists, state, end, retry, progress, history>>

StopSkip ==
    /\ pc = "stop" /\ pos >= 1
    /\ state[Current] # "STARTED"
    /\ GoTo(pc, pos - 1)
    /\ UNCHANGED <<lists, state, thread, pass, history>>

(* No thread: onStop() decides, or there is nothing to do.                 *)
StopSelf ==
    /\ pc = "stop" /\ pos >= 1
    /\ state[Current] = "STARTED" /\ ~IsThreaded(Current)
    /\ \/ Stopped
       \/ /\ sys.kind[Current] = "callbacks" /\ ~(sys.prompt /\ retry)
          /\ NotStopped
    /\ UNCHANGED thread

(* stopThreaded(): the first pass cancels the thread, all passes join it.  *)
StopThreaded ==
    /\ pc = "stop" /\ pos >= 1
    /\ state[Current] = "STARTED" /\ IsThreaded(Current)
    /\ thread' = [thread EXCEPT ![Current] =
                      IF ~retry /\ @ = "running" THEN "cancelled" ELSE @]
    /\ GoTo("join", pos)
    /\ UNCHANGED <<lists, state, pass, history>>

CanEnd(c) ==
    /\ thread[c] = "cancelled"
    /\ \A d \in sys.waits[c] : ~Alive(d)

(* tryJoin() or pthread_join() succeeds.                                   *)
Join ==
    /\ pc = "join" /\ thread[Current] = "ended"
    /\ sys.timedJoin \/ retry
    /\ thread' = [thread EXCEPT ![Current] = "joined"]
    /\ Stopped

(* In a later pass pthread_join() follows a successful tryJoin(), which is *)
(* undefined: it returns an error (as in Join) or crashes.                 *)
JoinTwice ==
    /\ pc = "join" /\ thread[Current] = "ended"
    /\ sys.timedJoin /\ retry
    /\ Abort("joinedTwice")

(* tryJoin() times out, or is not available in the first pass.             *)
JoinFails ==
    /\ pc = "join"
    /\ \/ /\ sys.timedJoin /\ thread[Current] # "ended"
          /\ sys.prompt => ~CanEnd(Current)
       \/ ~sys.timedJoin /\ ~retry
    /\ NotStopped
    /\ UNCHANGED thread

(* Another pass, while the previous one made progress.                     *)
TryAgain_once == deferred /\ progress /\ ~retry \* mutant: never a third pass

TryAgain == deferred /\ progress

StopAgain_always == \* mutant: progress is not reset
    /\ pc = "stop" /\ pos = 0 /\ TryAgain
    /\ retry' = TRUE /\ deferred' = FALSE
    /\ GoTo("stop", end - 1)
    /\ UNCHANGED <<lists, state, thread, end, progress, history>>

StopAgain ==
    /\ pc = "stop" /\ pos = 0 /\ TryAgain
    /\ retry' = TRUE /\ deferred' = FALSE /\ progress' = FALSE
    /\ GoTo("stop", end - 1)
    /\ UNCHANGED <<lists, state, thread, end, history>>

(* stopUntil() returns, to COMP_startAll() if a component did not start.   *)
StopReturns ==
    /\ pc = "stop" /\ pos = 0 /\ ~TryAgain
    /\ LET failed == end <= Len(components)
       IN \/ failed /\ ~sys.library /\ Abort("startFailed")
          \/ /\ ~failed \/ sys.library
             /\ GoTo(IF failed THEN "up" ELSE "stopped", 1)
             /\ UNCHANGED <<lists, state, thread, pass, history>>

----------------------------------------------------------------------------
COMP_destructAll_oneLess == \* mutant: off by one
    /\ pc = "stopped" /\ ~sys.library
    /\ GoTo("destruct", Len(components) - 1)
    /\ UNCHANGED <<lists, state, thread, pass, history>>

COMP_destructAll ==
    /\ pc = "stopped" /\ ~sys.library
    /\ GoTo("destruct", Len(components))
    /\ UNCHANGED <<lists, state, thread, pass, history>>

(* COMP_unregisterAll(), the end of main(); with the option --save it      *)
(* follows COMP_fixup().                                                   *)
COMP_unregisterAll ==
    /\ ~sys.library
    /\ \/ pc = "destruct" /\ pos = 0
       \/ pc = "fixed"
    /\ components' = <<>>
    /\ state' = [c \in Components |-> "none"]
    /\ GoTo("exit", 1)
    /\ UNCHANGED <<tmpList, thread, pass, history>>

----------------------------------------------------------------------------
(* The thread of a component ends: main() returns or it was cancelled.     *)
ThreadEnds(c) ==
    /\ pc \notin {"aborted", "exit"}
    /\ \/ sys.kind[c] = "oneshot" /\ Alive(c)
       \/ CanEnd(c)
    /\ thread' = [thread EXCEPT ![c] = "ended"]
    /\ UNCHANGED <<sys, lists, state, pc, pos, pass, ret, starts, cause>>

Caller ==
    \/ RegisterRoot \/ COMP_fixup
    \/ FixDependency \/ FixNext
    \/ Sequentialize \/ SequentializeMove \/ SequentializeCycle
    \/ SequentializeDone
    \/ COMP_initAll \/ InitComponent \/ InitFails \/ InitDone
    \/ Destruct \/ UndoDone
    \/ COMP_startAll \/ StartSkip \/ StartComponent \/ StartFails \/ StartDone
    \/ COMP_stopAll \/ StopSkip \/ StopSelf \/ StopThreaded
    \/ Join \/ JoinTwice \/ JoinFails \/ StopAgain \/ StopReturns
    \/ COMP_destructAll \/ COMP_unregisterAll

(* pthread_join() without a timeout waits for a thread that does not end.  *)
Blocked ==
    /\ pc = "join" /\ retry /\ ~sys.timedJoin
    /\ thread[Current] # "ended" /\ ~NoCircle(sys)

(* The process has ended or hangs, or nobody calls the library again.      *)
Finished ==
    /\ \/ pc \in {"aborted", "exit"}
       \/ sys.library /\ pc = "stopped" /\ starts = MaxStarts
       \/ Blocked
    /\ UNCHANGED vars

Next == Caller \/ (\E c \in Components : ThreadEnds(c)) \/ Finished

Spec == Init /\ [][Next]_vars

(* The caller is inside of a function of the framework.                   *)
Busy == pc \in {"register", "fix", "seq", "init", "undo", "start", "stop",
                "join", "destruct"}

(* The scheduler runs the caller (nothing is assumed of when the framework *)
(* is called) and the threads.                                             *)
FairSpec ==
    /\ Spec
    /\ WF_vars(Busy /\ Caller)
    /\ \A c \in Components : WF_vars(ThreadEnds(c))

----------------------------------------------------------------------------
StateType == {"none", "REGISTERED", "INITIALIZED", "STARTED"}
ThreadType == {"none", "running", "cancelled", "ended", "joined"}

(* Types of the variables.                                                 *)
TypeOK ==
    /\ IsSystem(sys)
    /\ components \in Seq(Components) /\ tmpList \in Seq(Components)
    /\ state \in [Components -> StateType]
    /\ thread \in [Components -> ThreadType]
    /\ pc \in {"register", "fix", "seq", "fixed", "init", "undo", "ready",
               "start", "up", "stop", "join", "stopped", "destruct", "exit",
               "aborted"}
    /\ pos \in Nat /\ end \in Nat
    /\ retry \in BOOLEAN /\ deferred \in BOOLEAN /\ progress \in BOOLEAN
    /\ ret \in BOOLEAN
    /\ starts \in 0..MaxStarts
    /\ cause \in {"none", "registeredTwice", "cycle", "disabledDependency",
                  "initFailed", "startFailed", "joinedTwice", "assert"}

Before(c, d) ==
    \E i, j \in 1..Len(components) :
        i < j /\ components[i] = c /\ components[j] = d

Sequentialized == pc \notin {"register", "fix", "seq", "aborted", "exit"}

(* After COMP_fixup() the list holds every registered component once and,  *)
(* before each component, all of its dependencies, also those that no      *)
(* program registered itself.                                              *)
DependencyOrder ==
    Sequentialized =>
        \A c \in Components :
            state[c] # "none" => /\ Exists(c) /\ ~Before(c, c)
                                 /\ \A d \in sys.deps[c] : Before(d, c)

(* sequentialize() reports a cycle only if there is one: every component   *)
(* that is left over depends on another one that is left over.             *)
CycleIsReal ==
    cause = "cycle" =>
        /\ tmpList # <<>>
        /\ \A i \in 1..Len(tmpList) :
              \E k \in 1..Len(tmpList) : tmpList[k] \in sys.deps[tmpList[i]]

(* The code of a component, its callbacks and its thread, runs only while  *)
(* the component and all it depends on are constructed: destruct() never   *)
(* frees what a thread that could not be joined still uses.                *)
DependenciesConstructed ==
    \A c \in Components :
        Alive(c) \/ Constructed(c) =>
            /\ Constructed(c)
            /\ \A d \in sys.deps[c] : Constructed(d)

(* A thread is created only after all its dependencies that shall be       *)
(* started were started.                                                   *)
StartsAfterDependencies ==
    [][\A c \in Components :
          thread[c] # "running" /\ thread'[c] = "running" =>
              \A d \in sys.deps[c] : sys.start[d] => state[d] = "STARTED"]_vars

(* A thread is cancelled only after the threads of all components that     *)
(* depend on it were.                                                      *)
StopsBeforeDependencies ==
    [][\A d \in Components :
          thread[d] = "running" /\ thread'[d] = "cancelled" =>
              \A c \in Components \ {d} :
                  d \in sys.deps[c] => thread[c] # "running"]_vars

(* Provided that threads end promptly once those they wait for have ended  *)
(* and do not wait for each other in a circle, the passes of stopUntil()   *)
(* stop everything: no component is left started when COMP_stopAll()       *)
(* returns, and the process does not exit with a thread that was never     *)
(* joined.                                                                 *)
StopStopsEverything ==
    sys.prompt /\ pc \in {"stopped", "destruct", "exit"} =>
        \A c \in Components :
            state[c] # "STARTED" /\ thread[c] \in {"none", "joined"}

(* If COMP_startAll() returns true, every thread that shall run does.      *)
StartedIsRunning ==
    pc = "up" /\ ret =>
        \A c \in Components :
            Constructed(c) /\ sys.start[c] /\ sys.kind[c] = "thread" =>
                thread[c] = "running"

(* The same, provided that threads end promptly: enable() after disable()  *)
(* brings everything back.                                                 *)
RestartRestores == sys.prompt => StartedIsRunning

(* The assertions of COMP_initAll(), destruct() and COMP_unregisterAll()   *)
(* hold if threads end promptly; otherwise only the one of destruct() may  *)
(* fail.                                                                   *)
AssertionsHold ==
    /\ pc = "init" /\ pos <= Len(components) => state[Current] = "REGISTERED"
    /\ pc = "destruct" /\ pos = 0 => \A c \in Components : ~Constructed(c)
    /\ sys.prompt => cause # "assert"

(* Every call of the framework returns or ends the process: dependencies   *)
(* are resolved in finitely many steps, and stopUntil() comes to an end.   *)
(* With pthread_timedjoin_np() it does so whatever the threads do, as it   *)
(* gives up on a thread that does not end; without, its later passes join  *)
(* without a timeout, and threads must not wait for each other in a circle.*)
CallsReturn == (Busy /\ (sys.timedJoin \/ NoCircle(sys))) ~> ~Busy

=============================================================================
