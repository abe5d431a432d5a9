-------------------------- MODULE ComponentProofs --------------------------
(***************************************************************************)
(* Proofs about the component framework, for all systems: any number of    *)
(* components, any dependencies, kinds, flags and any timing of threads.   *)
(***************************************************************************)
EXTENDS Component, TLAPS

USE DEF StateType, ThreadType

Indices == 1..Len(components)

(* The list names nobody twice, and with tmpList exactly the registered.   *)
Distinct(list) ==
    \A i, j \in 1..Len(list) : list[i] = list[j] => i = j

Pending(c) == \E i \in 1..Len(tmpList) : tmpList[i] = c

ListInv ==
    /\ Distinct(components) /\ Distinct(tmpList)
    /\ \A c \in Components : ~(Exists(c) /\ Pending(c))
    /\ \A c \in Components : state[c] # "none" <=> Exists(c) \/ Pending(c)
    /\ pc \notin {"seq", "aborted"} => tmpList = <<>>

(* Every dependency of a component in the list is in the list before it.   *)
Ordered ==
    \A j \in Indices : \A d \in sys.deps[components[j]] :
        \E i \in 1..(j - 1) : components[i] = d

OrderInv ==
    /\ pc = "fix" => \A i \in Indices :
                        i < pos => allDependencies(components[i])
    /\ pc = "seq" => \A c \in Components :
                        state[c] # "none" =>
                            \A d \in sys.deps[c] : state[d] # "none"
    /\ pc = "seq" \/ Sequentialized => Ordered

(* Where the caller is in the list.                                        *)
PosInv ==
    /\ pc \in {"register", "fix"} => pos >= 1
    /\ pc \in {"init", "start"} => pos \in 1..(Len(components) + 1)
    /\ pc \in {"undo", "stop", "destruct"} => pos \in 0..Len(components)
    /\ pc \in {"stop", "join"} => end \in 1..(Len(components) + 1)
    /\ pc = "join" => /\ pos \in Indices
                      /\ state[Current] = "STARTED" /\ IsThreaded(Current)

(* What is constructed while the lists are walked.                         *)
StateInv ==
    /\ pc \in {"register", "fix", "seq", "fixed", "exit"} =>
          \A c \in Components : ~Constructed(c)
    /\ pc \in {"init", "undo", "ready"} =>
          \A c \in Components : state[c] # "STARTED"
    /\ pc = "init" =>
          /\ ~DisabledDependency
          /\ \A i \in Indices :
                IF i < pos THEN sys.enabled[components[i]] =>
                                    Constructed(components[i])
                           ELSE ~Constructed(components[i])
    /\ pc \in {"undo", "destruct"} =>
          \A i \in Indices : i > pos => ~Constructed(components[i])
    /\ pc = "start" =>
          \A i \in Indices :
              i < pos /\ Constructed(components[i])
                      /\ sys.start[components[i]] =>
                  state[components[i]] = "STARTED"

Startable(c) == state[c] = "INITIALIZED" /\ sys.start[c]

(* Threads belong to started components, and no thread runs behind a       *)
(* component that is still to be started or is already being stopped.      *)
ThreadInv ==
    /\ \A c \in Components :
          /\ Alive(c) => state[c] = "STARTED"
          /\ thread[c] # "none" => IsThreaded(c)
    /\ pc = "up" \/ pc = "start" =>
          \A i, j \in Indices :
              i < j /\ (pc = "start" => i >= pos) /\ Startable(components[i]) =>
                  thread[components[j]] # "running"
    /\ pc \in {"stop", "join"} =>
          \A i \in Indices :
              i > pos \/ (pc = "join" /\ i = pos) \/ retry =>
                  thread[components[i]] # "running"
    /\ pc = "stopped" =>
          \A i \in Indices : thread[components[i]] # "running"

CauseInv ==
    /\ pc # "aborted" => cause = "none"
    /\ CycleIsReal

IInv == /\ TypeOK /\ ListInv /\ OrderInv /\ PosInv /\ StateInv /\ ThreadInv
        /\ CauseInv /\ DependenciesConstructed

(* Steps that neither register nor move a component keep the list.         *)
LEMMA ListFrame ==
    ASSUME ListInv, UNCHANGED lists,
           \A c \in Components : state'[c] = "none" <=> state[c] = "none",
           pc' \notin {"seq", "aborted"} => tmpList' = <<>>
    PROVE  ListInv'
<1>1. Distinct(components)' /\ Distinct(tmpList)'
  BY DEF ListInv, Distinct, lists
<1>2. ASSUME NEW c \in Components
      PROVE  (Exists(c)' <=> Exists(c)) /\ (Pending(c)' <=> Pending(c))
  BY DEF Exists, Pending, lists
<1> QED
  BY <1>1, <1>2 DEF ListInv

Member(list, c) == \E k \in 1..Len(list) : list[k] = c

(* What is left of a list without its i-th member.                         *)
LEMMA UnlinkProperties ==
    ASSUME NEW S, NEW s \in Seq(S), NEW i \in 1..Len(s)
    PROVE  /\ Unlink(s, i) \in Seq(S)
           /\ Len(Unlink(s, i)) = Len(s) - 1
           /\ \A j \in 1..(Len(s) - 1) :
                 Unlink(s, i)[j] = IF j < i THEN s[j] ELSE s[j + 1]
<1>1. PICK n \in Nat : n = Len(s) - 1
  OBVIOUS
<1>2. Unlink(s, i) = [j \in 1..n |-> IF j < i THEN s[j] ELSE s[j + 1]]
  BY <1>1 DEF Unlink
<1>3. ASSUME NEW j \in 1..n PROVE (IF j < i THEN s[j] ELSE s[j + 1]) \in S
  BY <1>1
<1>4. Unlink(s, i) \in [1..n -> S]
  BY <1>2, <1>3
<1>5. Unlink(s, i) \in Seq(S) /\ Len(Unlink(s, i)) = n
  BY <1>4
<1> QED
  BY <1>1, <1>2, <1>5

(* Unlinking removes exactly the i-th member.                              *)
LEMMA UnlinkMembers ==
    ASSUME NEW S, NEW s \in Seq(S), NEW i \in 1..Len(s), Distinct(s), NEW c
    PROVE  /\ Distinct(Unlink(s, i))
           /\ Member(Unlink(s, i), c) <=> c # s[i] /\ Member(s, c)
<1> DEFINE u == Unlink(s, i)
<1>1. /\ u \in Seq(S) /\ Len(u) = Len(s) - 1
      /\ \A j \in 1..(Len(s) - 1) : u[j] = IF j < i THEN s[j] ELSE s[j + 1]
  BY UnlinkProperties
<1> HIDE DEF u
<1>2. Distinct(u)
  BY <1>1 DEF Distinct
<1>3. ASSUME NEW k \in 1..Len(u), u[k] = c
      PROVE  c # s[i] /\ \E m \in 1..Len(s) : s[m] = c
  BY <1>1, <1>3 DEF Distinct
<1>4. ASSUME c # s[i], NEW m \in 1..Len(s), s[m] = c
      PROVE  \E k \in 1..Len(u) : u[k] = c
  <2>1. CASE m < i
    BY <1>1, <1>4, <2>1
  <2>2. CASE m > i
    <3>1. m - 1 \in 1..Len(u) /\ u[m - 1] = c
      BY <1>1, <1>4, <2>2
    <3> QED
      BY <3>1
  <2> QED
    BY <1>4, <2>1, <2>2
<1> QED
  BY <1>2, <1>3, <1>4 DEF u, Member

(* So do steps after COMP_fixup() its order.                               *)
LEMMA OrderFrame ==
    ASSUME OrderInv, Sequentialized, UNCHANGED <<sys, components>>,
           pc' \notin {"fix", "seq"}
    PROVE  OrderInv'
<1>1. Ordered /\ pc \notin {"fix", "seq"}
  BY DEF OrderInv, Sequentialized
<1>2. Ordered'
  BY <1>1 DEF Ordered, Indices
<1> QED
  BY <1>2 DEF OrderInv, Sequentialized

(***************************************************************************)
(* Every step of the caller preserves the invariant.                       *)
(***************************************************************************)
LEMMA RegisterRootStep == IInv /\ RegisterRoot => IInv'
<1> SUFFICES ASSUME IInv, RegisterRoot PROVE IInv'
  OBVIOUS
<1>1. TypeOK'
  <2>1. CASE Abort("registeredTwice")
    BY <2>1 DEF IInv, Abort, TypeOK, lists, pass
  <2>2. CASE COMP_register(sys.roots[pos]) /\ GoTo(pc, pos + 1)
    <3>1. sys.roots[pos] \in Components
      BY DEF IInv, RegisterRoot, TypeOK, IsSystem, PosInv
    <3>2. components' \in Seq(Components)
      BY <2>2, <3>1 DEF IInv, COMP_register, TypeOK
    <3>3. state' \in [Components -> StateType]
      BY <2>2, <3>1 DEF IInv, COMP_register, TypeOK
    <3> QED
      BY <2>2, <3>2, <3>3 DEF IInv, COMP_register, GoTo, TypeOK, pass, history
  <2> QED
    BY <2>1, <2>2 DEF RegisterRoot
<1>2. ListInv'
  <2>1. CASE Abort("registeredTwice")
    BY <2>1 DEF IInv, Abort, ListInv, Distinct, Exists, Pending, lists
  <2>2. CASE ~Exists(sys.roots[pos]) /\ COMP_register(sys.roots[pos])
             /\ GoTo(pc, pos + 1)
    <3>1. sys.roots[pos] \in Components
      BY DEF IInv, RegisterRoot, TypeOK, IsSystem, PosInv
    <3> QED
      BY <2>2, <3>1 DEF IInv, RegisterRoot, COMP_register, GoTo, TypeOK,
         ListInv, Distinct, Exists, Pending
  <2> QED
    BY <2>1, <2>2 DEF RegisterRoot
<1>3. OrderInv'
  BY DEF IInv, RegisterRoot, COMP_register, Abort, GoTo, OrderInv,
     Sequentialized, Ordered, Indices, lists, pass, history
<1>4. PosInv'
  BY DEF IInv, RegisterRoot, COMP_register, Abort, GoTo, TypeOK, PosInv,
     Indices, lists, pass, history
<1>5. StateInv'
  BY DEF IInv, RegisterRoot, COMP_register, Abort, GoTo, TypeOK, StateInv,
     Indices, Constructed, DisabledDependency, lists, pass, history
<1>6. ThreadInv'
  BY DEF IInv, RegisterRoot, COMP_register, Abort, GoTo, TypeOK, PosInv,
     StateInv, ThreadInv, Indices, Alive, Startable, IsThreaded,
     Constructed, lists, pass, history
<1>7. CauseInv'
  BY DEF IInv, RegisterRoot, COMP_register, Abort, GoTo, CauseInv,
     CycleIsReal, lists, pass, history
<1>8. DependenciesConstructed'
  BY DEF IInv, RegisterRoot, COMP_register, Abort, GoTo, TypeOK, IsSystem,
     ListInv, OrderInv, PosInv, StateInv, ThreadInv,
     DependenciesConstructed, Ordered, Indices, Sequentialized, Alive,
     Constructed, DisabledDependency, Exists, Pending, Distinct, lists, pass,
     history
<1> QED
  BY <1>1, <1>2, <1>3, <1>4, <1>5, <1>6, <1>7, <1>8 DEF IInv

LEMMA COMP_fixupStep == IInv /\ COMP_fixup => IInv'
<1> SUFFICES ASSUME IInv, COMP_fixup PROVE IInv'
  OBVIOUS
<1>1. TypeOK'
  BY DEF IInv, COMP_fixup, GoTo, TypeOK, lists, pass, history
<1>2. ListInv'
  BY ListFrame DEF IInv, COMP_fixup, GoTo, ListInv, lists, pass, history
<1>3. OrderInv'
  BY DEF IInv, COMP_fixup, GoTo, OrderInv, Sequentialized, Ordered, Indices,
     lists, pass, history
<1>4. PosInv'
  BY DEF IInv, COMP_fixup, GoTo, PosInv, lists, pass, history
<1>5. StateInv'
  BY DEF IInv, COMP_fixup, GoTo, StateInv, Indices, Constructed, lists,
     pass, history
<1>6. ThreadInv'
  BY DEF IInv, COMP_fixup, GoTo, ThreadInv, Alive, IsThreaded, lists, pass,
     history
<1>7. CauseInv'
  BY DEF IInv, COMP_fixup, GoTo, CauseInv, CycleIsReal, lists, pass, history
<1>8. DependenciesConstructed'
  BY DEF IInv, COMP_fixup, GoTo, DependenciesConstructed, Alive,
     Constructed, lists, pass, history
<1> QED
  BY <1>1, <1>2, <1>3, <1>4, <1>5, <1>6, <1>7, <1>8 DEF IInv

LEMMA FixDependencyStep == IInv /\ FixDependency => IInv'
<1> SUFFICES ASSUME IInv, FixDependency PROVE IInv'
  OBVIOUS
<1>0. pos \in Indices /\ components[pos] \in Components
  BY DEF IInv, FixDependency, PosInv, TypeOK, Indices
<1>1. TypeOK'
  <2>1. PICK d \in Components : COMP_register(d)
    BY <1>0 DEF IInv, FixDependency, TypeOK, IsSystem, Current
  <2>2. components' \in Seq(Components)
    BY <2>1 DEF IInv, COMP_register, TypeOK
  <2>3. state' \in [Components -> StateType]
    BY <2>1 DEF IInv, COMP_register, TypeOK
  <2> QED
    BY <2>1, <2>2, <2>3 DEF IInv, FixDependency, COMP_register, GoTo,
       TypeOK, pass, history
<1>2. ListInv'
  BY <1>0 DEF IInv, FixDependency, COMP_register, GoTo, Current, TypeOK,
     ListInv, Distinct, Pending, Exists, pass, history
<1>3. OrderInv'
  BY <1>0 DEF IInv, FixDependency, COMP_register, GoTo, Current, TypeOK,
     IsSystem, ListInv, OrderInv, PosInv, Ordered, Indices, Sequentialized,
     allDependencies, Exists, Pending, Distinct, pass, history
<1>4. PosInv'
  BY DEF IInv, FixDependency, COMP_register, GoTo, Current, PosInv, pass,
     history
<1>5. StateInv'
  BY <1>0 DEF IInv, FixDependency, COMP_register, GoTo, Current, StateInv,
     Indices, Constructed, pass, history
<1>6. ThreadInv'
  BY <1>0 DEF IInv, FixDependency, COMP_register, GoTo, Current, TypeOK,
     PosInv, StateInv, ThreadInv, Indices, Alive, Startable, IsThreaded,
     Constructed, pass, history
<1>7. CauseInv'
  BY DEF IInv, FixDependency, COMP_register, GoTo, Current, CauseInv,
     CycleIsReal, pass, history
<1>8. DependenciesConstructed'
  BY <1>0 DEF IInv, FixDependency, COMP_register, GoTo, Current, TypeOK,
     IsSystem, ListInv, OrderInv, PosInv, StateInv, ThreadInv,
     DependenciesConstructed, Ordered, Indices, Sequentialized, Alive,
     Constructed, DisabledDependency, Exists, Pending, Distinct, pass, history
<1> QED
  BY <1>1, <1>2, <1>3, <1>4, <1>5, <1>6, <1>7, <1>8 DEF IInv

LEMMA FixNextStep == IInv /\ FixNext => IInv'
<1> SUFFICES ASSUME IInv, FixNext PROVE IInv'
  OBVIOUS
<1>0. pos \in Indices /\ components[pos] \in Components
  BY DEF IInv, FixNext, PosInv, TypeOK, Indices
<1>1. TypeOK'
  BY DEF IInv, FixNext, GoTo, Current, TypeOK, lists, pass, history
<1>2. ListInv'
  BY ListFrame DEF IInv, FixNext, GoTo, Current, ListInv, lists, pass,
     history
<1>3. OrderInv'
  BY <1>0 DEF IInv, FixNext, GoTo, Current, OrderInv, Sequentialized,
     Ordered, Indices, allDependencies, Exists, lists, pass, history
<1>4. PosInv'
  BY <1>0 DEF IInv, FixNext, GoTo, Current, PosInv, Indices, lists, pass,
     history
<1>5. StateInv'
  BY <1>0 DEF IInv, FixNext, GoTo, Current, StateInv, Indices, Constructed,
     lists, pass, history
<1>6. ThreadInv'
  BY DEF IInv, FixNext, GoTo, Current, ThreadInv, Alive, IsThreaded, lists,
     pass, history
<1>7. CauseInv'
  BY DEF IInv, FixNext, GoTo, Current, CauseInv, CycleIsReal, lists, pass,
     history
<1>8. DependenciesConstructed'
  BY DEF IInv, FixNext, GoTo, Current, DependenciesConstructed, Alive,
     Constructed, lists, pass, history
<1> QED
  BY <1>1, <1>2, <1>3, <1>4, <1>5, <1>6, <1>7, <1>8 DEF IInv

LEMMA SequentializeStep == IInv /\ Sequentialize => IInv'
<1> SUFFICES ASSUME IInv, Sequentialize PROVE IInv'
  OBVIOUS
<1>1. TypeOK'
  BY DEF IInv, Sequentialize, GoTo, TypeOK, pass, history
<1>2. ListInv'
  BY DEF IInv, Sequentialize, GoTo, TypeOK, ListInv, Distinct, Pending,
     Exists, pass, history
<1>3. OrderInv'
  BY DEF IInv, Sequentialize, GoTo, TypeOK, IsSystem, ListInv, OrderInv,
     PosInv, Ordered, Indices, Sequentialized, allDependencies, Exists,
     Pending, Distinct, pass, history
<1>4. PosInv'
  BY DEF IInv, Sequentialize, GoTo, PosInv, pass, history
<1>5. StateInv'
  BY DEF IInv, Sequentialize, GoTo, StateInv, Indices, Constructed, pass,
     history
<1>6. ThreadInv'
  BY DEF IInv, Sequentialize, GoTo, ThreadInv, Alive, IsThreaded, pass,
     history
<1>7. CauseInv'
  BY DEF IInv, Sequentialize, GoTo, CauseInv, CycleIsReal, pass, history
<1>8. DependenciesConstructed'
  BY DEF IInv, Sequentialize, GoTo, DependenciesConstructed, Alive,
     Constructed, pass, history
<1> QED
  BY <1>1, <1>2, <1>3, <1>4, <1>5, <1>6, <1>7, <1>8 DEF IInv

LEMMA SequentializeMoveStep == IInv /\ SequentializeMove => IInv'
<1> SUFFICES ASSUME IInv, SequentializeMove PROVE IInv'
  OBVIOUS
<1>1. TypeOK'
  <2>1. PICK i \in 1..Len(tmpList) :
            /\ FirstReady(i)
            /\ components' = Append(components, tmpList[i])
            /\ tmpList' = Unlink(tmpList, i)
    BY DEF SequentializeMove
  <2>2. components' \in Seq(Components) /\ tmpList' \in Seq(Components)
    BY <2>1, UnlinkProperties DEF IInv, TypeOK
  <2> QED
    BY <2>2 DEF IInv, SequentializeMove, GoTo, TypeOK, pass, history
<1>2. ListInv'
  <2>1. PICK i \in 1..Len(tmpList) :
            /\ FirstReady(i)
            /\ components' = Append(components, tmpList[i])
            /\ tmpList' = Unlink(tmpList, i)
    BY DEF SequentializeMove
  <2> DEFINE x == tmpList[i]
  <2>2. x \in Components /\ Pending(x) /\ ~Exists(x)
    BY DEF IInv, TypeOK, ListInv, Pending
  <2>3. Distinct(components)'
    BY <2>1, <2>2 DEF IInv, TypeOK, ListInv, Distinct, Exists
  <2>4. Distinct(tmpList)'
    BY <2>1, UnlinkMembers DEF IInv, TypeOK, ListInv
  <2>5. ASSUME NEW c \in Components
        PROVE  /\ Exists(c)' <=> (Exists(c) \/ c = x)
               /\ Pending(c)' <=> (Pending(c) /\ c # x)
    <3>1. Exists(c)' <=> (Exists(c) \/ c = x)
      BY <2>1, <2>2 DEF IInv, TypeOK, Exists
    <3>2. Member(Unlink(tmpList, i), c) <=> c # x /\ Member(tmpList, c)
      BY UnlinkMembers DEF IInv, TypeOK, ListInv
    <3>3. Pending(c)' <=> (Pending(c) /\ c # x)
      BY <2>1, <3>2 DEF Pending, Member
    <3> QED
      BY <3>1, <3>3
  <2>6. state' = state /\ pc' = "seq"
    BY DEF SequentializeMove, GoTo
  <2> QED
    BY <2>2, <2>3, <2>4, <2>5, <2>6 DEF IInv, ListInv
<1>3. OrderInv'
  <2>1. PICK i \in 1..Len(tmpList) :
            /\ FirstReady(i)
            /\ components' = Append(components, tmpList[i])
            /\ tmpList' = Unlink(tmpList, i)
    BY DEF SequentializeMove
  <2>2. UNCHANGED <<sys, state, pc>> /\ pc = "seq"
    BY DEF SequentializeMove, GoTo, history
  <2>3. Ordered /\ components \in Seq(Components) /\ tmpList[i] \in Components
    BY <2>2 DEF IInv, TypeOK, OrderInv
  <2>4. \A d \in sys.deps[tmpList[i]] : \E k \in Indices : components[k] = d
    BY <2>1 DEF FirstReady, allDependencies, Exists, Indices
  <2>5. ASSUME NEW j \in Indices', NEW d \in sys.deps[components'[j]]
        PROVE  \E k \in 1..(j - 1) : components'[k] = d
    <3>1. CASE j \in Indices
      <4>1. components'[j] = components[j]
        BY <2>1, <2>3, <3>1 DEF Indices
      <4>2. PICK k \in 1..(j - 1) : components[k] = d
        BY <2>3, <2>5, <3>1, <4>1 DEF Ordered
      <4>3. components'[k] = d
        BY <2>1, <2>3, <3>1, <4>2 DEF Indices
      <4> QED
        BY <4>3
    <3>2. CASE j = Len(components) + 1
      <4>1. components'[j] = tmpList[i]
        BY <2>1, <2>3, <3>2
      <4>2. PICK k \in Indices : components[k] = d
        BY <2>4, <2>5, <4>1
      <4>3. k \in 1..(j - 1) /\ components'[k] = d
        BY <2>1, <2>3, <3>2, <4>2 DEF Indices
      <4> QED
        BY <4>3
    <3> QED
      BY <2>1, <2>3, <3>1, <3>2 DEF Indices
  <2>6. Ordered'
    BY <2>2, <2>5 DEF Ordered
  <2> QED
    BY <2>2, <2>6 DEF IInv, OrderInv, Sequentialized
<1>4. PosInv'
  BY DEF IInv, SequentializeMove, GoTo, PosInv, pass, history
<1>5. StateInv'
  BY DEF IInv, SequentializeMove, GoTo, StateInv, Indices, Constructed,
     pass, history
<1>6. ThreadInv'
  BY DEF IInv, SequentializeMove, GoTo, ThreadInv, Alive, IsThreaded, pass,
     history
<1>7. CauseInv'
  BY DEF IInv, SequentializeMove, GoTo, CauseInv, CycleIsReal, pass, history
<1>8. DependenciesConstructed'
  BY DEF IInv, SequentializeMove, GoTo, DependenciesConstructed, Alive,
     Constructed, pass, history
<1> QED
  BY <1>1, <1>2, <1>3, <1>4, <1>5, <1>6, <1>7, <1>8 DEF IInv

LEMMA SequentializeCycleStep == IInv /\ SequentializeCycle => IInv'
<1> SUFFICES ASSUME IInv, SequentializeCycle PROVE IInv'
  OBVIOUS
<1>1. TypeOK'
  BY DEF IInv, SequentializeCycle, Abort, TypeOK, lists, pass
<1>2. ListInv'
  BY ListFrame DEF IInv, SequentializeCycle, Abort, ListInv, lists, pass
<1>3. OrderInv'
  BY DEF IInv, SequentializeCycle, Abort, OrderInv, Sequentialized, Ordered,
     Indices, lists, pass
<1>4. PosInv'
  BY DEF IInv, SequentializeCycle, Abort, PosInv, lists, pass
<1>5. StateInv'
  BY DEF IInv, SequentializeCycle, Abort, StateInv, lists, pass
<1>6. ThreadInv'
  BY DEF IInv, SequentializeCycle, Abort, ThreadInv, Alive, IsThreaded,
     lists, pass
<1>7. CauseInv'
  <2>1. tmpList' = tmpList /\ sys' = sys
    BY DEF SequentializeCycle, Abort, lists
  <2>2. {tmpList[i] : i \in 1..Len(tmpList)} # {}
    BY DEF IInv, TypeOK, SequentializeCycle
  <2>3. ASSUME NEW i \in 1..Len(tmpList)
        PROVE  \E k \in 1..Len(tmpList) : tmpList[k] \in sys.deps[tmpList[i]]
    <3>1. tmpList[i] \in Components
      BY DEF IInv, TypeOK
    <3>2. PICK d \in sys.deps[tmpList[i]] : ~Exists(d)
      BY DEF SequentializeCycle, allDependencies
    <3>3. d \in Components
      BY <3>1 DEF IInv, TypeOK, IsSystem
    <3>4. state[d] # "none"
      BY <3>1, <3>2 DEF IInv, ListInv, OrderInv, SequentializeCycle, Pending
    <3> QED
      BY <3>2, <3>3, <3>4 DEF IInv, ListInv, Pending
  <2> QED
    BY <2>1, <2>2, <2>3 DEF SequentializeCycle, Abort, CauseInv, CycleIsReal
<1>8. DependenciesConstructed'
  BY DEF IInv, SequentializeCycle, Abort, DependenciesConstructed, Alive,
     Constructed, lists, pass
<1> QED
  BY <1>1, <1>2, <1>3, <1>4, <1>5, <1>6, <1>7, <1>8 DEF IInv

LEMMA SequentializeDoneStep == IInv /\ SequentializeDone => IInv'
<1> SUFFICES ASSUME IInv, SequentializeDone PROVE IInv'
  OBVIOUS
<1>1. TypeOK'
  BY DEF IInv, SequentializeDone, GoTo, TypeOK, lists, pass, history
<1>2. ListInv'
  BY ListFrame DEF IInv, SequentializeDone, GoTo, ListInv, lists, pass,
     history
<1>3. OrderInv'
  BY DEF IInv, SequentializeDone, GoTo, OrderInv, Sequentialized, Ordered,
     Indices, lists, pass, history
<1>4. PosInv'
  BY DEF IInv, SequentializeDone, GoTo, PosInv, lists, pass, history
<1>5. StateInv'
  BY DEF IInv, SequentializeDone, GoTo, StateInv, Indices, Constructed,
     lists, pass, history
<1>6. ThreadInv'
  BY DEF IInv, SequentializeDone, GoTo, ThreadInv, Alive, IsThreaded, lists,
     pass, history
<1>7. CauseInv'
  BY DEF IInv, SequentializeDone, GoTo, CauseInv, CycleIsReal, lists, pass,
     history
<1>8. DependenciesConstructed'
  BY DEF IInv, SequentializeDone, GoTo, DependenciesConstructed, Alive,
     Constructed, lists, pass, history
<1> QED
  BY <1>1, <1>2, <1>3, <1>4, <1>5, <1>6, <1>7, <1>8 DEF IInv

LEMMA COMP_initAllStep == IInv /\ COMP_initAll => IInv'
<1> SUFFICES ASSUME IInv, COMP_initAll PROVE IInv'
  OBVIOUS
<1>1. TypeOK'
  BY DEF IInv, COMP_initAll, GoTo, Abort, TypeOK, lists, pass, history
<1>2. ListInv'
  BY ListFrame DEF IInv, COMP_initAll, GoTo, Abort, ListInv, lists, pass,
     history
<1>3. OrderInv'
  BY OrderFrame DEF IInv, COMP_initAll, GoTo, Abort, Sequentialized, lists,
     pass, history
<1>4. PosInv'
  BY DEF IInv, COMP_initAll, GoTo, Abort, PosInv, lists, pass, history
<1>5. StateInv'
  <2>1. CASE Abort("disabledDependency")
    BY <2>1 DEF IInv, Abort, StateInv
  <2>2. CASE ~DisabledDependency /\ GoTo("init", 1)
             /\ UNCHANGED <<lists, state, thread, pass, history>>
    <3>1. /\ pc = "fixed" /\ pc' = "init" /\ pos' = 1
          /\ sys' = sys /\ components' = components /\ state' = state
      BY <2>2 DEF COMP_initAll, GoTo, lists, history
    <3>2. \A c \in Components : ~Constructed(c)
      BY <3>1 DEF IInv, StateInv
    <3>3. \A c \in Components : state'[c] # "STARTED"
      BY <3>1, <3>2 DEF Constructed
    <3>4. ~DisabledDependency'
      BY <2>2, <3>1 DEF DisabledDependency
    <3>5. \A i \in Indices' : ~(i < pos') /\ ~Constructed(components[i])'
      BY <3>1, <3>2 DEF IInv, TypeOK, Indices, Constructed
    <3> QED
      BY <3>1, <3>3, <3>4, <3>5 DEF StateInv
  <2> QED
    BY <2>1, <2>2 DEF COMP_initAll
<1>6. ThreadInv'
  BY DEF IInv, COMP_initAll, GoTo, Abort, ThreadInv, Alive, IsThreaded,
     lists, pass, history
<1>7. CauseInv'
  BY DEF IInv, COMP_initAll, GoTo, Abort, CauseInv, CycleIsReal, lists,
     pass, history
<1>8. DependenciesConstructed'
  BY DEF IInv, COMP_initAll, GoTo, Abort, DependenciesConstructed, Alive,
     Constructed, lists, pass, history
<1> QED
  BY <1>1, <1>2, <1>3, <1>4, <1>5, <1>6, <1>7, <1>8 DEF IInv

LEMMA InitComponentStep == IInv /\ InitComponent => IInv'
<1> SUFFICES ASSUME IInv, InitComponent PROVE IInv'
  OBVIOUS
<1>0. pos \in Indices /\ components[pos] \in Components
  BY DEF IInv, InitComponent, PosInv, TypeOK, Indices
<1>1. TypeOK'
  BY <1>0 DEF IInv, InitComponent, GoTo, Current, TypeOK, PosInv, lists,
     pass, history
<1>2. ListInv'
  <2>1. UNCHANGED lists /\ \A c \in Components :
                               state'[c] = "none" <=> state[c] = "none"
    BY <1>0 DEF IInv, InitComponent, GoTo, Current, TypeOK, ListInv, Exists,
       Indices, lists
  <2>2. pc' \notin {"seq", "aborted"} => tmpList' = <<>>
    BY <2>1 DEF IInv, InitComponent, GoTo, ListInv, lists
  <2> QED
    BY <2>1, <2>2, ListFrame DEF IInv
<1>3. OrderInv'
  BY OrderFrame DEF IInv, InitComponent, GoTo, Current, Sequentialized,
     lists, pass, history
<1>4. PosInv'
  BY DEF IInv, InitComponent, GoTo, Current, PosInv, lists, pass, history
<1>5. StateInv'
  BY <1>0 DEF IInv, InitComponent, GoTo, Current, TypeOK, IsSystem, ListInv,
     PosInv, StateInv, Indices, Constructed, DisabledDependency, Exists,
     Pending, Distinct, lists, pass, history
<1>6. ThreadInv'
  BY <1>0 DEF IInv, InitComponent, GoTo, Current, TypeOK, PosInv, StateInv,
     ThreadInv, Indices, Alive, Startable, IsThreaded, Constructed, lists,
     pass, history
<1>7. CauseInv'
  BY DEF IInv, InitComponent, GoTo, Current, CauseInv, CycleIsReal, lists,
     pass, history
<1>8. DependenciesConstructed'
  <2>1. sys' = sys /\ thread' = thread /\ components' = components
    BY DEF InitComponent, GoTo, lists, history
  <2>2. /\ pc = "init" /\ Current \in Components
        /\ Current = components[pos]
        /\ state' = [state EXCEPT ![Current] =
                        IF sys.enabled[Current] THEN "INITIALIZED" ELSE @]
    BY <1>0 DEF InitComponent, Current
  <2>3. \A c \in Components : Constructed(c) => Constructed(c)'
    BY <2>2 DEF IInv, TypeOK, Constructed
  <2>4. \A c \in Components : sys.deps[c] \subseteq Components
    BY DEF IInv, TypeOK, IsSystem
  <2> SUFFICES ASSUME NEW c \in Components, Alive(c)' \/ Constructed(c)'
               PROVE  /\ Constructed(c)'
                      /\ \A d \in sys.deps[c] : Constructed(d)'
    BY <2>1 DEF DependenciesConstructed
  <2>5. CASE Alive(c) \/ Constructed(c)
    BY <2>3, <2>4, <2>5 DEF IInv, DependenciesConstructed
  <2>6. CASE ~(Alive(c) \/ Constructed(c))
    <3>1. Constructed(c)' /\ c = Current /\ sys.enabled[c]
      BY <2>1, <2>2, <2>6 DEF IInv, TypeOK, Alive, Constructed
    <3> SUFFICES ASSUME NEW d \in sys.deps[c] PROVE Constructed(d)'
      BY <3>1
    <3>2. sys.enabled[d]
      BY <1>0, <2>2, <3>1 DEF IInv, StateInv, DisabledDependency, Indices
    <3>3. Sequentialized
      BY <2>2 DEF Sequentialized
    <3>4. Ordered
      BY <3>3 DEF IInv, OrderInv
    <3>5. PICK i \in 1..(pos - 1) : components[i] = d
      BY <1>0, <2>2, <3>1, <3>4 DEF Ordered
    <3>6. i \in Indices /\ i < pos
      BY <1>0 DEF IInv, TypeOK, Indices
    <3>7. Constructed(d)
      BY <2>2, <3>2, <3>5, <3>6 DEF IInv, StateInv
    <3> QED
      BY <2>3, <2>4, <3>7
  <2> QED
    BY <2>5, <2>6
<1> QED
  BY <1>1, <1>2, <1>3, <1>4, <1>5, <1>6, <1>7, <1>8 DEF IInv

LEMMA InitFailsStep == IInv /\ InitFails => IInv'
<1> SUFFICES ASSUME IInv, InitFails PROVE IInv'
  OBVIOUS
<1>0. pos \in Indices /\ components[pos] \in Components
  BY DEF IInv, InitFails, PosInv, TypeOK, Indices
<1>1. TypeOK'
  BY <1>0 DEF IInv, InitFails, GoTo, Current, TypeOK, PosInv, lists, pass,
     history
<1>2. ListInv'
  BY ListFrame DEF IInv, InitFails, GoTo, Current, ListInv, lists, pass,
     history
<1>3. OrderInv'
  BY OrderFrame DEF IInv, InitFails, GoTo, Current, Sequentialized, lists,
     pass, history
<1>4. PosInv'
  BY DEF IInv, InitFails, GoTo, Current, PosInv, lists, pass, history
<1>5. StateInv'
  BY <1>0 DEF IInv, InitFails, GoTo, Current, StateInv, Indices,
     Constructed, lists, pass, history
<1>6. ThreadInv'
  BY DEF IInv, InitFails, GoTo, Current, ThreadInv, Alive, IsThreaded,
     lists, pass, history
<1>7. CauseInv'
  BY DEF IInv, InitFails, GoTo, Current, CauseInv, CycleIsReal, lists, pass,
     history
<1>8. DependenciesConstructed'
  BY DEF IInv, InitFails, GoTo, Current, DependenciesConstructed, Alive,
     Constructed, lists, pass, history
<1> QED
  BY <1>1, <1>2, <1>3, <1>4, <1>5, <1>6, <1>7, <1>8 DEF IInv

LEMMA InitDoneStep == IInv /\ InitDone => IInv'
<1> SUFFICES ASSUME IInv, InitDone PROVE IInv'
  OBVIOUS
<1>1. TypeOK'
  BY DEF IInv, InitDone, GoTo, TypeOK, lists, pass, history
<1>2. ListInv'
  BY ListFrame DEF IInv, InitDone, GoTo, ListInv, lists, pass, history
<1>3. OrderInv'
  BY OrderFrame DEF IInv, InitDone, GoTo, Sequentialized, lists, pass,
     history
<1>4. PosInv'
  BY DEF IInv, InitDone, GoTo, PosInv, lists, pass, history
<1>5. StateInv'
  BY DEF IInv, InitDone, GoTo, StateInv, lists, pass, history
<1>6. ThreadInv'
  BY DEF IInv, InitDone, GoTo, ThreadInv, Alive, IsThreaded, lists, pass,
     history
<1>7. CauseInv'
  BY DEF IInv, InitDone, GoTo, CauseInv, CycleIsReal, lists, pass, history
<1>8. DependenciesConstructed'
  BY DEF IInv, InitDone, GoTo, DependenciesConstructed, Alive, Constructed,
     lists, pass, history
<1> QED
  BY <1>1, <1>2, <1>3, <1>4, <1>5, <1>6, <1>7, <1>8 DEF IInv

LEMMA DestructStep == IInv /\ Destruct => IInv'
<1> SUFFICES ASSUME IInv, Destruct PROVE IInv'
  OBVIOUS
<1>0. pos \in Indices /\ components[pos] \in Components
  BY DEF IInv, Destruct, PosInv, TypeOK, Indices
<1>1. TypeOK'
  BY DEF IInv, Destruct, GoTo, Abort, Current, TypeOK, lists, pass, history
<1>2. ListInv'
  <2>1. UNCHANGED lists /\ \A c \in Components :
                               state'[c] = "none" <=> state[c] = "none"
    BY <1>0 DEF IInv, Destruct, Abort, GoTo, Current, TypeOK, ListInv,
       Exists, Indices, lists
  <2>2. pc' \notin {"seq", "aborted"} => tmpList' = <<>>
    BY <2>1 DEF IInv, Destruct, Abort, GoTo, ListInv, lists
  <2> QED
    BY <2>1, <2>2, ListFrame DEF IInv
<1>3. OrderInv'
  BY OrderFrame DEF IInv, Destruct, Abort, GoTo, Sequentialized, lists, history
<1>4. PosInv'
  BY DEF IInv, Destruct, GoTo, Abort, Current, PosInv, lists, pass, history
<1>5. StateInv'
  BY <1>0 DEF IInv, Destruct, GoTo, Abort, Current, TypeOK, ListInv, PosInv,
     StateInv, Indices, Constructed, DisabledDependency, Exists, Pending,
     lists, pass, history
<1>6. ThreadInv'
  BY <1>0 DEF IInv, Destruct, GoTo, Abort, Current, TypeOK, ThreadInv,
     Indices, Alive, Startable, IsThreaded, lists, pass, history
<1>7. CauseInv'
  BY DEF IInv, Destruct, GoTo, Abort, Current, CauseInv, CycleIsReal, lists,
     pass, history
<1>8. DependenciesConstructed'
  <2>1. CASE UNCHANGED <<sys, state, thread>>
    BY <2>1 DEF IInv, DependenciesConstructed, Alive, Constructed
  <2>2. CASE /\ state[Current] # "STARTED"
             /\ state' = [state EXCEPT ![Current] = "REGISTERED"]
             /\ UNCHANGED <<sys, thread, lists>>
    <3>0. sys' = sys
      BY <2>2
    <3> SUFFICES ASSUME NEW c \in Components, Alive(c)' \/ Constructed(c)'
                 PROVE  /\ Constructed(c)'
                        /\ \A d \in sys.deps[c] : Constructed(d)'
      BY <3>0 DEF DependenciesConstructed
    <3>2. c # Current
      BY <1>0, <2>2 DEF IInv, TypeOK, ThreadInv, Alive, Constructed, Current
    <3>2a. Constructed(c) /\ Constructed(c)'
      BY <1>0, <2>2, <3>2 DEF IInv, TypeOK, DependenciesConstructed, Alive,
         Constructed, Current
    <3> SUFFICES ASSUME NEW d \in sys.deps[c] PROVE Constructed(d)'
      BY <3>2a
    <3>1. d \in Components
      BY DEF IInv, TypeOK, IsSystem
    <3>3. Constructed(c) /\ Constructed(d)
      BY <1>0, <2>2, <3>1, <3>2
      DEF IInv, TypeOK, DependenciesConstructed, Alive, Constructed, Current
    <3>4. PICK j \in Indices : components[j] = c
      BY <3>3, <2>2 DEF IInv, TypeOK, ListInv, Constructed, Exists, Pending,
         Indices, Destruct
    <3>5. j < pos
      BY <1>0, <3>2, <3>3, <3>4 DEF IInv, TypeOK, StateInv, Destruct,
         Indices, Current
    <3>6. PICK i \in 1..(j - 1) : components[i] = d
      BY <3>4 DEF IInv, OrderInv, Ordered, Sequentialized, Destruct
    <3>6a. i \in Indices /\ i # pos
      BY <1>0, <3>4, <3>5, <3>6 DEF IInv, TypeOK, Indices
    <3>7. d # Current
      BY <1>0, <3>6, <3>6a DEF IInv, ListInv, Distinct, Indices, Current
    <3> QED
      BY <1>0, <2>2, <3>1, <3>2, <3>3, <3>7 DEF IInv, TypeOK, Constructed,
         Current
  <2> QED
    BY <2>1, <2>2 DEF Destruct, Abort, lists, history
<1> QED
  BY <1>1, <1>2, <1>3, <1>4, <1>5, <1>6, <1>7, <1>8 DEF IInv

LEMMA UndoDoneStep == IInv /\ UndoDone => IInv'
<1> SUFFICES ASSUME IInv, UndoDone PROVE IInv'
  OBVIOUS
<1>1. TypeOK'
  BY DEF IInv, UndoDone, GoTo, Abort, TypeOK, lists, pass, history
<1>2. ListInv'
  BY ListFrame DEF IInv, UndoDone, GoTo, Abort, ListInv, lists, pass,
     history
<1>3. OrderInv'
  BY OrderFrame DEF IInv, UndoDone, GoTo, Abort, Sequentialized, lists,
     pass, history
<1>4. PosInv'
  BY DEF IInv, UndoDone, GoTo, Abort, PosInv, lists, pass, history
<1>5. StateInv'
  BY DEF IInv, UndoDone, GoTo, Abort, StateInv, lists, pass, history
<1>6. ThreadInv'
  BY DEF IInv, UndoDone, GoTo, Abort, ThreadInv, Alive, IsThreaded, lists,
     pass, history
<1>7. CauseInv'
  BY DEF IInv, UndoDone, GoTo, Abort, CauseInv, CycleIsReal, lists, pass,
     history
<1>8. DependenciesConstructed'
  BY DEF IInv, UndoDone, GoTo, Abort, DependenciesConstructed, Alive,
     Constructed, lists, pass, history
<1> QED
  BY <1>1, <1>2, <1>3, <1>4, <1>5, <1>6, <1>7, <1>8 DEF IInv

LEMMA COMP_startAllStep == IInv /\ COMP_startAll => IInv'
<1> SUFFICES ASSUME IInv, COMP_startAll PROVE IInv'
  OBVIOUS
<1>1. TypeOK'
  <2>1. starts' \in 0..MaxStarts
    BY MaxStartsAssumption DEF IInv, COMP_startAll, TypeOK
  <2> QED
    BY <2>1 DEF IInv, COMP_startAll, GoTo, TypeOK, lists, pass
<1>2. ListInv'
  BY ListFrame DEF IInv, COMP_startAll, GoTo, ListInv, lists, pass
<1>3. OrderInv'
  BY OrderFrame DEF IInv, COMP_startAll, GoTo, Sequentialized, lists, pass
<1>4. PosInv'
  BY DEF IInv, COMP_startAll, GoTo, PosInv, lists, pass
<1>5. StateInv'
  BY DEF IInv, COMP_startAll, GoTo, StateInv, Indices, Constructed, lists,
     pass
<1>6. ThreadInv'
  BY DEF IInv, COMP_startAll, GoTo, TypeOK, PosInv, StateInv, ThreadInv,
     Indices, Alive, Startable, IsThreaded, Constructed, lists, pass
<1>7. CauseInv'
  BY DEF IInv, COMP_startAll, GoTo, CauseInv, CycleIsReal, lists, pass
<1>8. DependenciesConstructed'
  BY DEF IInv, COMP_startAll, GoTo, DependenciesConstructed, Alive,
     Constructed, lists, pass
<1> QED
  BY <1>1, <1>2, <1>3, <1>4, <1>5, <1>6, <1>7, <1>8 DEF IInv

LEMMA StartSkipStep == IInv /\ StartSkip => IInv'
<1> SUFFICES ASSUME IInv, StartSkip PROVE IInv'
  OBVIOUS
<1>0. pos \in Indices /\ components[pos] \in Components
  BY DEF IInv, StartSkip, ToBeStarted, PosInv, TypeOK, Indices
<1>1. TypeOK'
  BY DEF IInv, StartSkip, GoTo, Current, ToBeStarted, TypeOK, lists, pass,
     history
<1>2. ListInv'
  BY ListFrame DEF IInv, StartSkip, GoTo, Current, ToBeStarted, ListInv,
     lists, pass, history
<1>3. OrderInv'
  BY OrderFrame DEF IInv, StartSkip, GoTo, Current, ToBeStarted,
     Sequentialized, lists, pass, history
<1>4. PosInv'
  BY DEF IInv, StartSkip, GoTo, Current, ToBeStarted, PosInv, lists, pass,
     history
<1>5. StateInv'
  BY <1>0 DEF IInv, StartSkip, GoTo, Current, ToBeStarted, StateInv,
     Indices, Constructed, lists, pass, history
<1>6. ThreadInv'
  BY <1>0 DEF IInv, StartSkip, GoTo, Current, ToBeStarted, ThreadInv,
     Indices, Alive, Startable, IsThreaded, lists, pass, history
<1>7. CauseInv'
  BY DEF IInv, StartSkip, GoTo, Current, ToBeStarted, CauseInv, CycleIsReal,
     lists, pass, history
<1>8. DependenciesConstructed'
  BY DEF IInv, StartSkip, GoTo, Current, ToBeStarted,
     DependenciesConstructed, Alive, Constructed, lists, pass, history
<1> QED
  BY <1>1, <1>2, <1>3, <1>4, <1>5, <1>6, <1>7, <1>8 DEF IInv

LEMMA StartComponentStep == IInv /\ StartComponent => IInv'
<1> SUFFICES ASSUME IInv, StartComponent PROVE IInv'
  OBVIOUS
<1>0. pos \in Indices /\ components[pos] \in Components
  BY DEF IInv, StartComponent, ToBeStarted, PosInv, TypeOK, Indices
<1>1. TypeOK'
  BY <1>0 DEF IInv, StartComponent, GoTo, Current, ToBeStarted, TypeOK,
     PosInv, lists, pass, history
<1>2. ListInv'
  BY ListFrame DEF IInv, StartComponent, GoTo, Current, ToBeStarted,
     ListInv, lists, pass, history
<1>3. OrderInv'
  BY OrderFrame DEF IInv, StartComponent, GoTo, Current, ToBeStarted,
     Sequentialized, lists, pass, history
<1>4. PosInv'
  BY DEF IInv, StartComponent, GoTo, Current, ToBeStarted, PosInv, lists,
     pass, history
<1>5. StateInv'
  BY <1>0 DEF IInv, StartComponent, GoTo, Current, ToBeStarted, TypeOK,
     StateInv, Indices, Constructed, DisabledDependency, lists, pass,
     history
<1>6. ThreadInv'
  BY <1>0 DEF IInv, StartComponent, GoTo, Current, ToBeStarted, TypeOK,
     ListInv, PosInv, StateInv, ThreadInv, Indices, Alive, Constructed,
     Startable, IsThreaded, Exists, Pending, Distinct, lists, pass, history
<1>7. CauseInv'
  BY DEF IInv, StartComponent, GoTo, Current, ToBeStarted, CauseInv,
     CycleIsReal, lists, pass, history
<1>8. DependenciesConstructed'
  BY DEF IInv, StartComponent, GoTo, Current, ToBeStarted,
     DependenciesConstructed, Alive, Constructed, lists, pass, history
<1> QED
  BY <1>1, <1>2, <1>3, <1>4, <1>5, <1>6, <1>7, <1>8 DEF IInv

LEMMA StartFailsStep == IInv /\ StartFails => IInv'
<1> SUFFICES ASSUME IInv, StartFails PROVE IInv'
  OBVIOUS
<1>0. pos \in Indices /\ components[pos] \in Components
  BY DEF IInv, StartFails, ToBeStarted, PosInv, TypeOK, Indices
<1>1. TypeOK'
  <2>1. pos' \in Nat /\ end' \in Nat
    BY DEF IInv, StartFails, StopUntil, GoTo, TypeOK, PosInv
  <2>2. pc' = "stop" /\ retry' = FALSE /\ deferred' = FALSE /\ progress' = TRUE
    BY DEF StartFails, StopUntil, GoTo
  <2> QED
    BY <2>1, <2>2 DEF IInv, StartFails, TypeOK, lists, history
<1>2. ListInv'
  BY ListFrame DEF IInv, StartFails, GoTo, Current, ToBeStarted, StopUntil,
     ListInv, lists
<1>3. OrderInv'
  BY OrderFrame DEF IInv, StartFails, GoTo, Current, ToBeStarted, StopUntil,
     Sequentialized, lists
<1>4. PosInv'
  BY DEF IInv, StartFails, GoTo, Current, ToBeStarted, StopUntil, PosInv,
     lists
<1>5. StateInv'
  BY DEF IInv, StartFails, GoTo, Current, ToBeStarted, StopUntil, StateInv,
     lists
<1>6. ThreadInv'
  BY <1>0 DEF IInv, StartFails, GoTo, Current, ToBeStarted, StopUntil,
     ThreadInv, Indices, Alive, Startable, IsThreaded, lists
<1>7. CauseInv'
  BY DEF IInv, StartFails, GoTo, Current, ToBeStarted, StopUntil, CauseInv,
     CycleIsReal, lists
<1>8. DependenciesConstructed'
  BY DEF IInv, StartFails, GoTo, Current, ToBeStarted, StopUntil,
     DependenciesConstructed, Alive, Constructed, lists
<1> QED
  BY <1>1, <1>2, <1>3, <1>4, <1>5, <1>6, <1>7, <1>8 DEF IInv

LEMMA StartDoneStep == IInv /\ StartDone => IInv'
<1> SUFFICES ASSUME IInv, StartDone PROVE IInv'
  OBVIOUS
<1>1. TypeOK'
  BY DEF IInv, StartDone, GoTo, TypeOK, lists, pass
<1>2. ListInv'
  BY ListFrame DEF IInv, StartDone, GoTo, ListInv, lists, pass
<1>3. OrderInv'
  BY OrderFrame DEF IInv, StartDone, GoTo, Sequentialized, lists, pass
<1>4. PosInv'
  BY DEF IInv, StartDone, GoTo, PosInv, lists, pass
<1>5. StateInv'
  BY DEF IInv, StartDone, GoTo, StateInv, lists, pass
<1>6. ThreadInv'
  BY DEF IInv, StartDone, GoTo, TypeOK, PosInv, StateInv, ThreadInv,
     Indices, Alive, Startable, IsThreaded, Constructed, lists, pass
<1>7. CauseInv'
  BY DEF IInv, StartDone, GoTo, CauseInv, CycleIsReal, lists, pass
<1>8. DependenciesConstructed'
  BY DEF IInv, StartDone, GoTo, DependenciesConstructed, Alive, Constructed,
     lists, pass
<1> QED
  BY <1>1, <1>2, <1>3, <1>4, <1>5, <1>6, <1>7, <1>8 DEF IInv

LEMMA COMP_stopAllStep == IInv /\ COMP_stopAll => IInv'
<1> SUFFICES ASSUME IInv, COMP_stopAll PROVE IInv'
  OBVIOUS
<1>1. TypeOK'
  <2>1. pos' \in Nat /\ end' \in Nat
    BY DEF IInv, COMP_stopAll, StopUntil, GoTo, TypeOK, PosInv
  <2>2. pc' = "stop" /\ retry' = FALSE /\ deferred' = FALSE /\ progress' = TRUE
    BY DEF COMP_stopAll, StopUntil, GoTo
  <2> QED
    BY <2>1, <2>2 DEF IInv, COMP_stopAll, TypeOK, lists, history
<1>2. ListInv'
  BY ListFrame DEF IInv, COMP_stopAll, GoTo, StopUntil, ListInv, lists,
     history
<1>3. OrderInv'
  BY OrderFrame DEF IInv, COMP_stopAll, GoTo, StopUntil, Sequentialized,
     lists, history
<1>4. PosInv'
  BY DEF IInv, COMP_stopAll, GoTo, StopUntil, PosInv, lists, history
<1>5. StateInv'
  BY DEF IInv, COMP_stopAll, GoTo, StopUntil, StateInv, lists, history
<1>6. ThreadInv'
  BY DEF IInv, COMP_stopAll, GoTo, StopUntil, ThreadInv, Indices, Alive,
     Startable, IsThreaded, lists, history
<1>7. CauseInv'
  BY DEF IInv, COMP_stopAll, GoTo, StopUntil, CauseInv, CycleIsReal, lists,
     history
<1>8. DependenciesConstructed'
  BY DEF IInv, COMP_stopAll, GoTo, StopUntil, DependenciesConstructed,
     Alive, Constructed, lists, history
<1> QED
  BY <1>1, <1>2, <1>3, <1>4, <1>5, <1>6, <1>7, <1>8 DEF IInv

LEMMA StopSkipStep == IInv /\ StopSkip => IInv'
<1> SUFFICES ASSUME IInv, StopSkip PROVE IInv'
  OBVIOUS
<1>0. pos \in Indices /\ components[pos] \in Components
  BY DEF IInv, StopSkip, PosInv, TypeOK, Indices
<1>1. TypeOK'
  BY DEF IInv, StopSkip, GoTo, Current, TypeOK, lists, pass, history
<1>2. ListInv'
  BY ListFrame DEF IInv, StopSkip, GoTo, Current, ListInv, lists, pass,
     history
<1>3. OrderInv'
  BY OrderFrame DEF IInv, StopSkip, GoTo, Current, Sequentialized, lists,
     pass, history
<1>4. PosInv'
  BY DEF IInv, StopSkip, GoTo, Current, PosInv, lists, pass, history
<1>5. StateInv'
  BY DEF IInv, StopSkip, GoTo, Current, StateInv, lists, pass, history
<1>6. ThreadInv'
  BY <1>0 DEF IInv, StopSkip, GoTo, Current, ThreadInv, Indices, Alive,
     Startable, IsThreaded, lists, pass, history
<1>7. CauseInv'
  BY DEF IInv, StopSkip, GoTo, Current, CauseInv, CycleIsReal, lists, pass,
     history
<1>8. DependenciesConstructed'
  BY DEF IInv, StopSkip, GoTo, Current, DependenciesConstructed, Alive,
     Constructed, lists, pass, history
<1> QED
  BY <1>1, <1>2, <1>3, <1>4, <1>5, <1>6, <1>7, <1>8 DEF IInv

LEMMA StopSelfStep == IInv /\ StopSelf => IInv'
<1> SUFFICES ASSUME IInv, StopSelf PROVE IInv'
  OBVIOUS
<1>0. pos \in Indices /\ components[pos] \in Components
  BY DEF IInv, StopSelf, PosInv, TypeOK, Indices
<1>1. TypeOK'
  <2>1. pos' \in Nat /\ pc' = "stop"
    BY <1>0 DEF IInv, StopSelf, Stopped, NotStopped, GoTo, TypeOK, Indices
  <2>2. CASE Stopped
    BY <1>0, <2>1, <2>2 DEF IInv, StopSelf, Stopped, Current, TypeOK, lists,
       history
  <2>3. CASE NotStopped
    BY <2>1, <2>3 DEF IInv, StopSelf, NotStopped, TypeOK, lists, history
  <2> QED
    BY <2>2, <2>3 DEF StopSelf
<1>2. ListInv'
  BY <1>0, ListFrame DEF IInv, StopSelf, GoTo, Current, Stopped, NotStopped,
     TypeOK, ListInv, lists, history
<1>3. OrderInv'
  BY OrderFrame DEF IInv, StopSelf, GoTo, Current, Stopped, NotStopped,
     Sequentialized, lists, history
<1>4. PosInv'
  BY DEF IInv, StopSelf, GoTo, Current, Stopped, NotStopped, PosInv, lists,
     history
<1>5. StateInv'
  BY DEF IInv, StopSelf, GoTo, Current, Stopped, NotStopped, StateInv,
     lists, history
<1>6. ThreadInv'
  BY <1>0 DEF IInv, StopSelf, GoTo, Current, Stopped, NotStopped, TypeOK,
     ThreadInv, Indices, Alive, Startable, IsThreaded, lists, history
<1>7. CauseInv'
  BY DEF IInv, StopSelf, GoTo, Current, Stopped, NotStopped, CauseInv,
     CycleIsReal, lists, history
<1>8. DependenciesConstructed'
  BY <1>0 DEF IInv, StopSelf, GoTo, Current, Stopped, NotStopped, TypeOK,
     IsSystem, ListInv, OrderInv, PosInv, StateInv, ThreadInv,
     DependenciesConstructed, Ordered, Indices, Sequentialized, Alive,
     Constructed, DisabledDependency, Exists, Pending, Distinct, lists,
     history
<1> QED
  BY <1>1, <1>2, <1>3, <1>4, <1>5, <1>6, <1>7, <1>8 DEF IInv

LEMMA StopThreadedStep == IInv /\ StopThreaded => IInv'
<1> SUFFICES ASSUME IInv, StopThreaded PROVE IInv'
  OBVIOUS
<1>0. pos \in Indices /\ components[pos] \in Components
  BY DEF IInv, StopThreaded, PosInv, TypeOK, Indices
<1>1. TypeOK'
  BY DEF IInv, StopThreaded, GoTo, Current, TypeOK, lists, pass, history
<1>2. ListInv'
  BY ListFrame DEF IInv, StopThreaded, GoTo, Current, ListInv, lists, pass,
     history
<1>3. OrderInv'
  BY OrderFrame DEF IInv, StopThreaded, GoTo, Current, Sequentialized,
     lists, pass, history
<1>4. PosInv'
  BY <1>0 DEF IInv, StopThreaded, GoTo, Current, TypeOK, PosInv, Indices,
     IsThreaded, lists, pass, history
<1>5. StateInv'
  BY DEF IInv, StopThreaded, GoTo, Current, StateInv, lists, pass, history
<1>6. ThreadInv'
  BY <1>0 DEF IInv, StopThreaded, GoTo, Current, TypeOK, ThreadInv, Indices,
     Alive, Startable, IsThreaded, lists, pass, history
<1>7. CauseInv'
  BY DEF IInv, StopThreaded, GoTo, Current, CauseInv, CycleIsReal, lists,
     pass, history
<1>8. DependenciesConstructed'
  BY DEF IInv, StopThreaded, GoTo, Current, DependenciesConstructed, Alive,
     Constructed, lists, pass, history
<1> QED
  BY <1>1, <1>2, <1>3, <1>4, <1>5, <1>6, <1>7, <1>8 DEF IInv

LEMMA JoinStep == IInv /\ Join => IInv'
<1> SUFFICES ASSUME IInv, Join PROVE IInv'
  OBVIOUS
<1>0. pos \in Indices /\ components[pos] \in Components
  BY DEF IInv, Join, PosInv, TypeOK, Indices
<1>1. TypeOK'
  BY <1>0 DEF IInv, Join, GoTo, Current, Stopped, TypeOK, PosInv, Indices,
     lists, history
<1>2. ListInv'
  <2>1. UNCHANGED lists /\ \A c \in Components :
                               state'[c] = "none" <=> state[c] = "none"
    BY <1>0 DEF IInv, Join, Stopped, GoTo, Current, TypeOK, ListInv, Exists,
       Indices, lists
  <2>2. pc' \notin {"seq", "aborted"} => tmpList' = <<>>
    BY <2>1 DEF IInv, Join, Stopped, GoTo, ListInv, lists
  <2> QED
    BY <2>1, <2>2, ListFrame DEF IInv
<1>3. OrderInv'
  BY OrderFrame DEF IInv, Join, GoTo, Current, Stopped, Sequentialized,
     lists, history
<1>4. PosInv'
  BY <1>0 DEF IInv, Join, GoTo, Current, Stopped, PosInv, Indices, lists,
     history
<1>5. StateInv'
  BY DEF IInv, Join, GoTo, Current, Stopped, StateInv, lists, history
<1>6. ThreadInv'
  BY <1>0 DEF IInv, Join, GoTo, Current, Stopped, ThreadInv, Indices, Alive,
     Startable, IsThreaded, lists, history
<1>7. CauseInv'
  BY DEF IInv, Join, GoTo, Current, Stopped, CauseInv, CycleIsReal, lists,
     history
<1>8. DependenciesConstructed'
  BY <1>0 DEF IInv, Join, GoTo, Current, Stopped, TypeOK, IsSystem, ListInv,
     OrderInv, PosInv, StateInv, ThreadInv, DependenciesConstructed,
     Ordered, Indices, Sequentialized, Alive, Constructed,
     DisabledDependency, Exists, Pending, Distinct, lists, history
<1> QED
  BY <1>1, <1>2, <1>3, <1>4, <1>5, <1>6, <1>7, <1>8 DEF IInv

LEMMA JoinTwiceStep == IInv /\ JoinTwice => IInv'
<1> SUFFICES ASSUME IInv, JoinTwice PROVE IInv'
  OBVIOUS
<1>1. TypeOK'
  BY DEF IInv, JoinTwice, Abort, TypeOK, lists, pass
<1>2. ListInv'
  BY ListFrame DEF IInv, JoinTwice, Abort, ListInv, lists, pass
<1>3. OrderInv'
  BY OrderFrame DEF IInv, JoinTwice, Abort, Sequentialized, lists, pass
<1>4. PosInv'
  BY DEF IInv, JoinTwice, Abort, PosInv, lists, pass
<1>5. StateInv'
  BY DEF IInv, JoinTwice, Abort, StateInv, lists, pass
<1>6. ThreadInv'
  BY DEF IInv, JoinTwice, Abort, ThreadInv, Alive, IsThreaded, lists, pass
<1>7. CauseInv'
  BY DEF IInv, JoinTwice, Abort, CauseInv, CycleIsReal, lists, pass
<1>8. DependenciesConstructed'
  BY DEF IInv, JoinTwice, Abort, DependenciesConstructed, Alive,
     Constructed, lists, pass
<1> QED
  BY <1>1, <1>2, <1>3, <1>4, <1>5, <1>6, <1>7, <1>8 DEF IInv

LEMMA JoinFailsStep == IInv /\ JoinFails => IInv'
<1> SUFFICES ASSUME IInv, JoinFails PROVE IInv'
  OBVIOUS
<1>0. pos \in Indices /\ components[pos] \in Components
  BY DEF IInv, JoinFails, PosInv, TypeOK, Indices
<1>1. TypeOK'
  BY <1>0 DEF IInv, JoinFails, GoTo, Current, NotStopped, TypeOK, PosInv,
     Indices, lists, history
<1>2. ListInv'
  BY ListFrame DEF IInv, JoinFails, GoTo, Current, NotStopped, ListInv,
     lists, history
<1>3. OrderInv'
  BY OrderFrame DEF IInv, JoinFails, GoTo, Current, NotStopped,
     Sequentialized, lists, history
<1>4. PosInv'
  BY <1>0 DEF IInv, JoinFails, GoTo, Current, NotStopped, PosInv, Indices,
     lists, history
<1>5. StateInv'
  BY DEF IInv, JoinFails, GoTo, Current, NotStopped, StateInv, lists,
     history
<1>6. ThreadInv'
  BY <1>0 DEF IInv, JoinFails, GoTo, Current, NotStopped, ThreadInv,
     Indices, Alive, Startable, IsThreaded, lists, history
<1>7. CauseInv'
  BY DEF IInv, JoinFails, GoTo, Current, NotStopped, CauseInv, CycleIsReal,
     lists, history
<1>8. DependenciesConstructed'
  BY DEF IInv, JoinFails, GoTo, Current, NotStopped,
     DependenciesConstructed, Alive, Constructed, lists, history
<1> QED
  BY <1>1, <1>2, <1>3, <1>4, <1>5, <1>6, <1>7, <1>8 DEF IInv

LEMMA StopAgainStep == IInv /\ StopAgain => IInv'
<1> SUFFICES ASSUME IInv, StopAgain PROVE IInv'
  OBVIOUS
<1>1. TypeOK'
  <2>1. pos' \in Nat
    BY DEF IInv, StopAgain, GoTo, TypeOK, PosInv
  <2>2. pc' = "stop" /\ retry' = TRUE /\ deferred' = FALSE /\ progress' = FALSE
    BY DEF StopAgain, GoTo
  <2> QED
    BY <2>1, <2>2 DEF IInv, StopAgain, TypeOK, lists, history
<1>2. ListInv'
  BY ListFrame DEF IInv, StopAgain, GoTo, TryAgain, ListInv, lists, history
<1>3. OrderInv'
  BY OrderFrame DEF IInv, StopAgain, GoTo, TryAgain, Sequentialized, lists,
     history
<1>4. PosInv'
  BY DEF IInv, StopAgain, GoTo, TryAgain, PosInv, lists, history
<1>5. StateInv'
  BY DEF IInv, StopAgain, GoTo, TryAgain, StateInv, lists, history
<1>6. ThreadInv'
  BY DEF IInv, StopAgain, GoTo, TryAgain, ThreadInv, Indices, Alive,
     Startable, IsThreaded, lists, history
<1>7. CauseInv'
  BY DEF IInv, StopAgain, GoTo, TryAgain, CauseInv, CycleIsReal, lists,
     history
<1>8. DependenciesConstructed'
  BY DEF IInv, StopAgain, GoTo, TryAgain, DependenciesConstructed, Alive,
     Constructed, lists, history
<1> QED
  BY <1>1, <1>2, <1>3, <1>4, <1>5, <1>6, <1>7, <1>8 DEF IInv

LEMMA StopReturnsStep == IInv /\ StopReturns => IInv'
<1> SUFFICES ASSUME IInv, StopReturns PROVE IInv'
  OBVIOUS
<1>1. TypeOK'
  BY DEF IInv, StopReturns, GoTo, Abort, TryAgain, TypeOK, lists, pass,
     history
<1>2. ListInv'
  BY ListFrame DEF IInv, StopReturns, GoTo, Abort, TryAgain, ListInv, lists,
     pass, history
<1>3. OrderInv'
  BY OrderFrame DEF IInv, StopReturns, GoTo, Abort, TryAgain,
     Sequentialized, lists, pass, history
<1>4. PosInv'
  BY DEF IInv, StopReturns, GoTo, Abort, TryAgain, PosInv, lists, pass,
     history
<1>5. StateInv'
  BY DEF IInv, StopReturns, GoTo, Abort, TryAgain, StateInv, lists, pass,
     history
<1>6. ThreadInv'
  BY DEF IInv, StopReturns, GoTo, Abort, TryAgain, ThreadInv, Indices,
     Alive, Startable, IsThreaded, lists, pass, history
<1>7. CauseInv'
  BY DEF IInv, StopReturns, GoTo, Abort, TryAgain, CauseInv, CycleIsReal,
     lists, pass, history
<1>8. DependenciesConstructed'
  BY DEF IInv, StopReturns, GoTo, Abort, TryAgain, DependenciesConstructed,
     Alive, Constructed, lists, pass, history
<1> QED
  BY <1>1, <1>2, <1>3, <1>4, <1>5, <1>6, <1>7, <1>8 DEF IInv

LEMMA COMP_destructAllStep == IInv /\ COMP_destructAll => IInv'
<1> SUFFICES ASSUME IInv, COMP_destructAll PROVE IInv'
  OBVIOUS
<1>1. TypeOK'
  BY DEF IInv, COMP_destructAll, GoTo, TypeOK, lists, pass, history
<1>2. ListInv'
  BY ListFrame DEF IInv, COMP_destructAll, GoTo, ListInv, lists, pass,
     history
<1>3. OrderInv'
  BY OrderFrame DEF IInv, COMP_destructAll, GoTo, Sequentialized, lists,
     pass, history
<1>4. PosInv'
  BY DEF IInv, COMP_destructAll, GoTo, PosInv, lists, pass, history
<1>5. StateInv'
  BY DEF IInv, COMP_destructAll, GoTo, StateInv, Indices, Constructed,
     lists, pass, history
<1>6. ThreadInv'
  BY DEF IInv, COMP_destructAll, GoTo, ThreadInv, Alive, IsThreaded, lists,
     pass, history
<1>7. CauseInv'
  BY DEF IInv, COMP_destructAll, GoTo, CauseInv, CycleIsReal, lists, pass,
     history
<1>8. DependenciesConstructed'
  BY DEF IInv, COMP_destructAll, GoTo, DependenciesConstructed, Alive,
     Constructed, lists, pass, history
<1> QED
  BY <1>1, <1>2, <1>3, <1>4, <1>5, <1>6, <1>7, <1>8 DEF IInv

LEMMA COMP_unregisterAllStep == IInv /\ COMP_unregisterAll => IInv'
<1> SUFFICES ASSUME IInv, COMP_unregisterAll PROVE IInv'
  OBVIOUS
<1>1. TypeOK'
  BY DEF IInv, COMP_unregisterAll, GoTo, TypeOK, pass, history
<1>2. ListInv'
  BY DEF IInv, COMP_unregisterAll, GoTo, TypeOK, ListInv, Distinct, Pending,
     Exists, pass, history
<1>3. OrderInv'
  BY DEF IInv, COMP_unregisterAll, GoTo, OrderInv, Sequentialized, Ordered,
     Indices, pass, history
<1>4. PosInv'
  BY DEF IInv, COMP_unregisterAll, GoTo, PosInv, pass, history
<1>5. StateInv'
  BY DEF IInv, COMP_unregisterAll, GoTo, StateInv, Indices, Constructed,
     pass, history
<1>6. ThreadInv'
  BY DEF IInv, COMP_unregisterAll, GoTo, TypeOK, ListInv, PosInv, StateInv,
     ThreadInv, Indices, Alive, Constructed, Startable, IsThreaded, Exists,
     Pending, Distinct, pass, history
<1>7. CauseInv'
  BY DEF IInv, COMP_unregisterAll, GoTo, CauseInv, CycleIsReal, pass,
     history
<1>8. DependenciesConstructed'
  BY DEF IInv, COMP_unregisterAll, GoTo, TypeOK, IsSystem, ListInv,
     OrderInv, PosInv, StateInv, ThreadInv, DependenciesConstructed,
     Ordered, Indices, Sequentialized, Alive, Constructed,
     DisabledDependency, Exists, Pending, Distinct, pass, history
<1> QED
  BY <1>1, <1>2, <1>3, <1>4, <1>5, <1>6, <1>7, <1>8 DEF IInv

(* A thread ends: only its own state changes, and it was alive.            *)
LEMMA ThreadEndsStep ==
    ASSUME NEW c \in Components, IInv, ThreadEnds(c)
    PROVE  IInv'
<1>1. /\ thread' = [thread EXCEPT ![c] = "ended"] /\ Alive(c)
      /\ UNCHANGED <<sys, components, tmpList, state, pc, pos, end, retry,
                     deferred, progress, ret, starts, cause>>
  BY DEF ThreadEnds, CanEnd, Alive, lists, pass
<1>2. TypeOK'
  BY <1>1 DEF IInv, TypeOK
<1>3. ListInv'
  BY <1>1, ListFrame DEF IInv, ListInv, lists
<1>4. OrderInv' /\ CauseInv'
  BY <1>1 DEF IInv, OrderInv, CauseInv, Ordered, Indices, Sequentialized,
              allDependencies, Exists, CycleIsReal
<1>5. PosInv' /\ StateInv'
  BY <1>1 DEF IInv, PosInv, StateInv, Indices, Current, IsThreaded,
              Constructed, DisabledDependency
<1>6. \A x \in Components :
          /\ Alive(x)' => Alive(x)
          /\ thread'[x] = "running" => thread[x] = "running"
          /\ thread'[x] # "none" => thread[x] # "none"
  BY <1>1 DEF IInv, TypeOK, Alive
<1>7. ThreadInv'
  BY <1>1, <1>6 DEF IInv, TypeOK, ThreadInv, Indices, IsThreaded, Startable
<1>8. DependenciesConstructed'
  BY <1>1, <1>6 DEF IInv, DependenciesConstructed, Constructed
<1> QED
  BY <1>2, <1>3, <1>4, <1>5, <1>7, <1>8 DEF IInv

LEMMA InitIInv == Init => IInv
<1> SUFFICES ASSUME Init PROVE IInv
  OBVIOUS
<1>1. TypeOK
  <2>1. IsSystem(sys)
    BY SystemsAssumption DEF Init
  <2>2. starts \in 0..MaxStarts
    BY MaxStartsAssumption DEF Init
  <2>3. components \in Seq(Components) /\ tmpList \in Seq(Components)
    BY DEF Init
  <2> QED
    BY <2>1, <2>2, <2>3 DEF Init, TypeOK
<1>2. ListInv
  BY DEF Init, ListInv, Distinct, Exists, Pending
<1>3. OrderInv /\ PosInv /\ StateInv /\ CauseInv
  BY DEF Init, OrderInv, PosInv, StateInv, CauseInv, Sequentialized,
         Constructed, CycleIsReal
<1>4. ThreadInv /\ DependenciesConstructed
  BY DEF Init, ThreadInv, DependenciesConstructed, Alive, Constructed
<1> QED
  BY <1>1, <1>2, <1>3, <1>4 DEF IInv

LEMMA StutterStep == IInv /\ UNCHANGED vars => IInv'
<1> SUFFICES ASSUME IInv, UNCHANGED vars PROVE IInv'
  OBVIOUS
<1>1. TypeOK' /\ PosInv' /\ StateInv' /\ ThreadInv'
  BY DEF IInv, vars, TypeOK, PosInv, StateInv, ThreadInv, Indices, Current,
         IsThreaded, Constructed, Alive, Startable, DisabledDependency
<1>2. ListInv'
  BY ListFrame DEF IInv, vars, ListInv, lists
<1>3. OrderInv' /\ CauseInv' /\ DependenciesConstructed'
  BY DEF IInv, vars, OrderInv, CauseInv, DependenciesConstructed, Ordered,
         Indices, Sequentialized, allDependencies, Exists, CycleIsReal,
         Constructed, Alive
<1> QED
  BY <1>1, <1>2, <1>3 DEF IInv

LEMMA CallerStep == IInv /\ Caller => IInv'
  BY RegisterRootStep,
     COMP_fixupStep,
     FixDependencyStep,
     FixNextStep,
     SequentializeStep,
     SequentializeMoveStep,
     SequentializeCycleStep,
     SequentializeDoneStep,
     COMP_initAllStep,
     InitComponentStep,
     InitFailsStep,
     InitDoneStep,
     DestructStep,
     UndoDoneStep,
     COMP_startAllStep,
     StartSkipStep,
     StartComponentStep,
     StartFailsStep,
     StartDoneStep,
     COMP_stopAllStep,
     StopSkipStep,
     StopSelfStep,
     StopThreadedStep,
     JoinStep,
     JoinTwiceStep,
     JoinFailsStep,
     StopAgainStep,
     StopReturnsStep,
     COMP_destructAllStep,
     COMP_unregisterAllStep
  DEF Caller

LEMMA NextStep == IInv /\ [Next]_vars => IInv'
  BY CallerStep, ThreadEndsStep, StutterStep DEF Next, Finished

LEMMA Invariance == Spec => []IInv
  BY InitIInv, NextStep, PTL DEF Spec

(* The variables have their types, for all systems.                        *)
THEOREM TypeCorrect == Spec => []TypeOK
<1>1. IInv => TypeOK
  BY DEF IInv
<1> QED
  BY <1>1, Invariance, PTL

(* COMP_fixup() (util/component.c:123-200) orders the components by their  *)
(* dependencies, all of which are registered, whatever the graph.          *)
THEOREM OrderedByDependencies == Spec => []DependencyOrder
<1>1. IInv => DependencyOrder
  <2> SUFFICES ASSUME IInv, Sequentialized, NEW c \in Components,
                      state[c] # "none"
               PROVE  /\ Exists(c) /\ ~Before(c, c)
                      /\ \A d \in sys.deps[c] : Before(d, c)
    BY DEF DependencyOrder
  <2>1. Exists(c)
    BY DEF IInv, TypeOK, ListInv, Sequentialized, Pending
  <2>2. ~Before(c, c)
    BY DEF IInv, TypeOK, ListInv, Distinct, Before
  <2>3. PICK j \in Indices : components[j] = c
    BY <2>1 DEF Exists, Indices
  <2>4. ASSUME NEW d \in sys.deps[c] PROVE Before(d, c)
    <3>1. PICK i \in 1..(j - 1) : components[i] = d
      BY <2>3 DEF IInv, OrderInv, Ordered
    <3> QED
      BY <2>3, <3>1 DEF IInv, TypeOK, Indices, Before
  <2> QED
    BY <2>1, <2>2, <2>4
<1> QED
  BY <1>1, Invariance, PTL

(* sequentialize() (util/component.c:187) never reports a cycle of         *)
(* dependencies where there is none.                                       *)
THEOREM ReportedCycleIsReal == Spec => []CycleIsReal
<1>1. IInv => CycleIsReal
  BY DEF IInv, CauseInv
<1> QED
  BY <1>1, Invariance, PTL

(* No component and no dependency of it is destructed (util/component.c:   *)
(* 437) while its thread is alive, however late threads end and whichever  *)
(* construction or start fails.                                            *)
THEOREM NothingUsedAfterDestruct == Spec => []DependenciesConstructed
<1>1. IInv => DependenciesConstructed
  BY DEF IInv
<1> QED
  BY <1>1, Invariance, PTL

(* A thread starts or is cancelled in one action only.                     *)
LEMMA ThreadChanges ==
    ASSUME IInv, [Next]_vars, NEW c \in Components, thread'[c] # thread[c]
    PROVE  \/ thread'[c] \in {"ended", "joined"}
           \/ StartComponent /\ c = Current
           \/ StopThreaded /\ c = Current
<1>1. CASE UNCHANGED thread
  BY <1>1
<1>2. CASE Join
  BY <1>2 DEF IInv, TypeOK, PosInv, Indices, Join, Current
<1>3. CASE StartComponent
  BY <1>3 DEF IInv, TypeOK, PosInv, StartComponent, Current
<1>4. CASE StopThreaded
  BY <1>4 DEF IInv, TypeOK, PosInv, StopThreaded, Current
<1>5. CASE \E x \in Components : ThreadEnds(x)
  BY <1>5 DEF IInv, TypeOK, ThreadEnds
<1>6. ASSUME Caller, ~Join, ~StartComponent, ~StopThreaded
      PROVE  UNCHANGED thread
  BY <1>6 DEF Caller, RegisterRoot, COMP_fixup, FixDependency, FixNext,
       Sequentialize, SequentializeMove, SequentializeCycle,
       SequentializeDone, COMP_initAll, InitComponent, InitFails, InitDone,
       Destruct, UndoDone, COMP_startAll, StartSkip, StartFails, StartDone,
       COMP_stopAll, StopSkip, StopSelf, JoinTwice, JoinFails, StopAgain,
       StopReturns, COMP_destructAll, COMP_unregisterAll, COMP_register, Abort
<1> QED
  BY <1>1, <1>2, <1>3, <1>4, <1>5, <1>6 DEF Next, Finished, vars

(* COMP_startAll() (util/component.c:249) creates a thread after it has    *)
(* started what the component depends on.                                  *)
THEOREM StartOrder == Spec => StartsAfterDependencies
<1>1. ASSUME IInv, [Next]_vars, NEW c \in Components,
             thread[c] # "running", thread'[c] = "running",
             NEW d \in sys.deps[c], sys.start[d]
      PROVE  state[d] = "STARTED"
  <2>1. StartComponent /\ c = Current
    BY <1>1, ThreadChanges DEF IInv, TypeOK, StopThreaded, Current, PosInv
  <2>2. pos \in Indices /\ Constructed(c) /\ d \in Components
    BY <1>1, <2>1 DEF IInv, TypeOK, IsSystem, PosInv, StartComponent,
       ToBeStarted,
                Constructed, Indices
  <2>3. PICK i \in 1..(pos - 1) : components[i] = d
    BY <1>1, <2>1, <2>2 DEF IInv, OrderInv, Ordered, Sequentialized,
       StartComponent,
                      Current
  <2>4. Constructed(d)
    BY <1>1, <2>2 DEF IInv, DependenciesConstructed
  <2>5. i \in Indices /\ i < pos
    BY <1>1, <2>2 DEF IInv, TypeOK, Indices
  <2> QED
    BY <1>1, <2>1, <2>3, <2>4, <2>5 DEF IInv, StateInv, StartComponent
<1>2. IInv /\ [Next]_vars =>
          [\A c \in Components :
             thread[c] # "running" /\ thread'[c] = "running" =>
               \A d \in sys.deps[c] : sys.start[d] => state[d] = "STARTED"]_vars
  BY <1>1
<1> QED
  BY <1>2, Invariance, PTL DEF Spec, StartsAfterDependencies

(* stopUntil() (util/component.c:311) cancels a thread after the threads   *)
(* of all components that depend on it, in all passes and also after a     *)
(* failed start.                                                           *)
THEOREM StopOrder == Spec => StopsBeforeDependencies
<1>1. ASSUME IInv, [Next]_vars, NEW d \in Components,
             thread[d] = "running", thread'[d] = "cancelled",
             NEW c \in Components \ {d}, d \in sys.deps[c]
      PROVE  thread[c] # "running"
  <2>1. StopThreaded /\ d = Current
    BY <1>1, ThreadChanges DEF IInv, TypeOK, StartComponent, Current, PosInv
  <2>2. pos \in Indices
    BY <1>1, <2>1 DEF IInv, TypeOK, PosInv, StopThreaded, Indices
  <2> SUFFICES ASSUME Alive(c) PROVE thread[c] # "running"
    BY DEF Alive
  <2>3. PICK j \in Indices : components[j] = c
    BY <1>1, <2>1 DEF IInv, TypeOK, ListInv, ThreadInv, StopThreaded,
       Exists, Pending,
                Indices
  <2>4. PICK i \in 1..(j - 1) : components[i] = d
    BY <1>1, <2>1, <2>3 DEF IInv, OrderInv, Ordered, Sequentialized,
                            StopThreaded
  <2>5. i = pos
    BY <1>1, <2>1, <2>2, <2>3, <2>4
    DEF IInv, TypeOK, ListInv, Distinct, Indices, Current
  <2> QED
    BY <1>1, <2>1, <2>3, <2>4, <2>5 DEF IInv, TypeOK, ThreadInv,
       StopThreaded, Indices
<1>2. IInv /\ [Next]_vars =>
          [\A d \in Components :
             thread[d] = "running" /\ thread'[d] = "cancelled" =>
               \A c \in Components \ {d} :
                   d \in sys.deps[c] => thread[c] # "running"]_vars
  BY <1>1
<1> QED
  BY <1>2, Invariance, PTL DEF Spec, StopsBeforeDependencies

-----------------------------------------------------------------------------
(* Stopping is complete: for every system whose threads end promptly,      *)
(* stopUntil() (util/component.c:311-356) leaves nothing started, so that  *)
(* nothing is destructed while it is in use and a restart brings           *)
(* everything back.                                                        *)

Started(c) == state[c] = "STARTED"

(* A thread that was created and not yet joined belongs to a started       *)
(* component, and a started component with a thread has one.               *)
OwnerInv ==
    \A c \in Components :
        /\ thread[c] = "ended" => Started(c)
        /\ Started(c) /\ IsThreaded(c) => thread[c] \notin {"none", "joined"}

(* Nothing was cancelled that is still started.                            *)
Untouched ==
    \A c \in Components :
        Started(c) /\ sys.kind[c] = "thread" => thread[c] = "running"

(* COMP_startAll(): components to be started and started ones never mix in *)
(* the part of the list that the loop has still to visit.                  *)
StartLoopInv ==
    pc = "start" =>
        /\ Untouched
        /\ \A i, j \in Indices :
              i >= pos /\ j >= pos /\ Startable(components[i]) =>
                  ~Started(components[j])

(* When COMP_startAll() has returned, everything or nothing is started.    *)
UpInv ==
    pc = "up" =>
        /\ Untouched
        /\ \A c, d \in Components : Startable(c) => ~Started(d)
        /\ ret => \A c \in Components : ~Startable(c)

(* A pass of stopUntil(): what it visited is stopped or deferred; while it *)
(* makes no progress, every thread it deferred waits for one that is still *)
(* started.                                                                *)
PassInv ==
    pc \in {"stop", "join"} =>
        /\ pos < end
        /\ end <= Len(components) => ~ret
        /\ \A i \in Indices : i >= end => ~Started(components[i])
        /\ ~deferred => \A i \in Indices : i > pos => ~Started(components[i])
        /\ ~progress =>
              /\ retry
              /\ \A i \in Indices :
                    i > pos /\ Started(components[i]) =>
                        \E d \in sys.waits[components[i]] : Started(d)

StoppedInv ==
    /\ pc \in {"stopped", "destruct"} => \A c \in Components : ~Started(c)
    /\ cause # "assert"

PromptInv == StartLoopInv /\ UpInv /\ PassInv /\ StoppedInv

StopInv == OwnerInv /\ (sys.prompt => PromptInv)

----------------------------------------------------------------------------
(* Every started component is in the list.                                 *)
LEMMA StartedListed ==
    ASSUME IInv, pc \notin {"seq", "aborted"}, NEW c \in Components, Started(c)
    PROVE  \E i \in Indices : components[i] = c
<1>1. Exists(c) \/ Pending(c)
  BY DEF IInv, ListInv, Started
<1>2. tmpList = <<>>
  BY DEF IInv, ListInv
<1>3. ~Pending(c)
  BY <1>2 DEF Pending
<1> QED
  BY <1>1, <1>3 DEF Exists, Indices

LEMMA ListedComponents ==
    ASSUME IInv
    PROVE  \A i \in Indices : components[i] \in Components
  BY DEF IInv, TypeOK, Indices

(* Steps outside of the loops that start and stop.                         *)
LEMMA QuietStep ==
    ASSUME StopInv, UNCHANGED <<sys, thread>>,
           \A c \in Components : Started(c)' <=> Started(c),
           pc' \notin {"start", "up", "stop", "join", "stopped", "destruct"},
           cause' # "assert" \/ cause' = cause
    PROVE  StopInv'
<1>1. OwnerInv'
  BY DEF StopInv, OwnerInv, IsThreaded
<1>2. ASSUME sys.prompt PROVE PromptInv'
  BY <1>2 DEF StopInv, PromptInv, StartLoopInv, UpInv, PassInv, StoppedInv
<1> QED
  BY <1>1, <1>2 DEF StopInv

LEMMA FixupSteps ==
    ASSUME IInv, StopInv,
           RegisterRoot \/ COMP_fixup \/ FixDependency \/ FixNext
    PROVE  StopInv'
<1>1. UNCHANGED <<sys, thread>> /\ pc' \in {"register", "fix", "aborted"}
  BY DEF RegisterRoot, COMP_fixup, FixDependency, FixNext, COMP_register,
         GoTo, Abort, history
<1>2. cause' # "assert" \/ cause' = cause
  BY DEF RegisterRoot, COMP_fixup, FixDependency, FixNext, COMP_register,
         GoTo, Abort, history
<1>3. \A c \in Components : ~Started(c)
  BY DEF RegisterRoot, COMP_fixup, FixDependency, FixNext, IInv, StateInv,
         Constructed, Started
<1>4. state' = state \/ \E c : state' = [state EXCEPT ![c] = "REGISTERED"]
  BY DEF RegisterRoot, COMP_fixup, FixDependency, FixNext, COMP_register,
         Abort
<1>5. \A c \in Components : ~Started(c)'
  BY <1>3, <1>4 DEF Started, IInv, TypeOK
<1> QED
  BY <1>1, <1>2, <1>3, <1>5, QuietStep

LEMMA SequentializeSteps ==
    ASSUME IInv, StopInv,
           \/ Sequentialize \/ SequentializeMove \/ SequentializeCycle
           \/ SequentializeDone \/ COMP_initAll
    PROVE  StopInv'
<1>1. /\ UNCHANGED <<sys, thread, state>>
      /\ pc' \in {"seq", "fixed", "init", "aborted"}
      /\ cause' # "assert" \/ cause' = cause
  BY DEF Sequentialize, SequentializeMove, SequentializeCycle,
         SequentializeDone, COMP_initAll, GoTo, Abort, history
<1> QED
  BY <1>1, QuietStep DEF Started

LEMMA InitSteps ==
    ASSUME IInv, StopInv,
           InitComponent \/ InitFails \/ InitDone \/ UndoDone \/ JoinTwice
    PROVE  StopInv'
<1>1. /\ UNCHANGED <<sys, thread>>
      /\ pc' \in {"init", "undo", "ready", "aborted"}
      /\ cause' # "assert" \/ cause' = cause
  BY DEF InitComponent, InitFails, InitDone, UndoDone, JoinTwice, GoTo,
         Abort, history
<1>2. \A c \in Components : Started(c)' <=> Started(c)
  <2>1. CASE InitComponent
    <3>1. \A c \in Components : ~Started(c)
      BY <2>1 DEF InitComponent, IInv, StateInv, Started
    <3>2. \A c \in Components : ~Started(c)'
      BY <2>1, <3>1 DEF InitComponent, IInv, TypeOK, Started
    <3> QED
      BY <3>1, <3>2
  <2>2. CASE InitFails \/ InitDone \/ UndoDone \/ JoinTwice
    BY <2>2 DEF InitFails, InitDone, UndoDone, JoinTwice, Abort, Started
  <2> QED
    BY <2>1, <2>2
<1> QED
  BY <1>1, <1>2, QuietStep

(* destruct() finds nothing that is started.                               *)
LEMMA DestructStops == ASSUME IInv, StopInv, Destruct PROVE StopInv'
<1>1. UNCHANGED <<sys, thread>>
  BY DEF Destruct, Abort, history
<1>2. \A c \in Components : Started(c)' <=> Started(c)
  <2>1. CASE state' = state
    BY <2>1 DEF Started
  <2>2. CASE /\ state[Current] # "STARTED"
             /\ state' = [state EXCEPT ![Current] = "REGISTERED"]
    BY <2>2 DEF Started, IInv, TypeOK
  <2> QED
    BY <2>1, <2>2 DEF Destruct, Abort
<1>3. OwnerInv'
  BY <1>1, <1>2 DEF StopInv, OwnerInv, IsThreaded
<1>4. ASSUME sys.prompt PROVE PromptInv'
  <2>1. \A c \in Components : ~Started(c)
    BY <1>4 DEF StopInv, PromptInv, StoppedInv, Destruct, IInv, StateInv,
       Started
  <2>2. state[Current] # "STARTED"
    BY <2>1 DEF Current, Destruct, IInv, PosInv, TypeOK, Started
  <2>3. pc' = pc /\ cause' = cause /\ pc \in {"undo", "destruct"}
    BY <2>2 DEF Destruct, GoTo, history
  <2> QED
    BY <1>2, <1>4, <2>1, <2>3 DEF StopInv, PromptInv, StartLoopInv, UpInv,
       PassInv, StoppedInv
<1> QED
  BY <1>1, <1>3, <1>4 DEF StopInv

----------------------------------------------------------------------------
(* COMP_startAll() begins when nothing or everything is started.           *)
LEMMA StartAllStops == ASSUME IInv, StopInv, COMP_startAll PROVE StopInv'
<1>1. /\ UNCHANGED <<sys, components, thread, state, cause>>
      /\ pc \in {"ready", "up", "stopped"} /\ pc' = "start"
  BY DEF COMP_startAll, GoTo, lists
<1>2. OwnerInv'
  BY <1>1 DEF StopInv, OwnerInv, IsThreaded, Started
<1>3. ASSUME sys.prompt PROVE PromptInv'
  <2>1. Untouched /\ \A c, d \in Components : Startable(c) => ~Started(d)
    <3>1. CASE pc = "ready"
      BY <3>1 DEF IInv, StateInv, Started, Untouched
    <3>2. CASE pc \in {"up", "stopped"}
      BY <1>3, <3>2 DEF StopInv, PromptInv, UpInv, StoppedInv, Untouched
    <3> QED
      BY <1>1, <3>1, <3>2
  <2>2. StartLoopInv'
    BY <1>1, <2>1, ListedComponents DEF StartLoopInv, Untouched, Startable,
       Started, Indices
  <2> QED
    BY <1>1, <1>3, <2>2 DEF StopInv, PromptInv, UpInv, PassInv, StoppedInv
<1> QED
  BY <1>1, <1>2, <1>3 DEF StopInv

LEMMA StartSkipStops == ASSUME IInv, StopInv, StartSkip PROVE StopInv'
<1>1. /\ UNCHANGED <<sys, components, thread, state, cause>>
      /\ pc = "start" /\ pc' = "start" /\ pos' = pos + 1 /\ pos \in Nat
  BY DEF StartSkip, GoTo, lists, history, IInv, TypeOK
<1>2. OwnerInv'
  BY <1>1 DEF StopInv, OwnerInv, IsThreaded, Started
<1>3. ASSUME sys.prompt PROVE PromptInv'
  <2>1. StartLoopInv'
    BY <1>1, <1>3 DEF StopInv, PromptInv, StartLoopInv, Untouched, Startable,
       Started, Indices
  <2> QED
    BY <1>1, <1>3, <2>1 DEF StopInv, PromptInv, UpInv, PassInv, StoppedInv
<1> QED
  BY <1>1, <1>2, <1>3 DEF StopInv

LEMMA StartComponentStops ==
    ASSUME IInv, StopInv, StartComponent PROVE StopInv'
<1> DEFINE x == components[pos]
<1>0. pos \in Indices /\ x \in Components
  BY DEF IInv, StartComponent, PosInv, TypeOK, Indices
<1>1. /\ UNCHANGED <<sys, components, cause>>
      /\ pc = "start" /\ pc' = "start" /\ pos' = pos + 1 /\ pos \in Nat
      /\ state' = [state EXCEPT ![x] = "STARTED"]
      /\ thread' = [thread EXCEPT ![x] = IF IsThreaded(x) THEN "running" ELSE @]
      /\ Startable(x)
  BY DEF StartComponent, GoTo, lists, history, IInv, TypeOK, Current,
         ToBeStarted, Startable
<1>2. /\ state \in [Components -> StateType]
      /\ thread \in [Components -> ThreadType]
      /\ Distinct(components)
  BY DEF IInv, TypeOK, ListInv
<1>3. OwnerInv'
  BY <1>0, <1>1, <1>2 DEF StopInv, OwnerInv, IsThreaded, Started
<1>4. ASSUME sys.prompt PROVE PromptInv'
  <2>1. Untouched'
    BY <1>0, <1>1, <1>2, <1>4 DEF StopInv, PromptInv, StartLoopInv, Untouched,
       Started, IsThreaded
  <2>2. ASSUME NEW i \in Indices, NEW j \in Indices, i >= pos + 1, j >= pos + 1,
               Startable(components[i])'
        PROVE  ~Started(components[j])'
    <3>1. components[i] # x /\ components[j] # x
      BY <1>0, <2>2, <1>2 DEF Distinct, Indices
    <3>2. /\ state'[components[i]] = state[components[i]]
          /\ state'[components[j]] = state[components[j]]
      BY <1>1, <1>2, <3>1
    <3>3. Startable(components[i])
      BY <2>2, <3>2, <1>1 DEF Startable
    <3>4. ~Started(components[j])
      BY <1>0, <1>1, <1>4, <2>2, <3>3 DEF StopInv, PromptInv, StartLoopInv,
         Indices
    <3> QED
      BY <3>2, <3>4, <1>1 DEF Started
  <2>3. StartLoopInv'
    BY <1>1, <2>1, <2>2 DEF StartLoopInv, Indices
  <2> QED
    BY <1>1, <1>4, <2>3 DEF StopInv, PromptInv, UpInv, PassInv, StoppedInv
<1> QED
  BY <1>1, <1>3, <1>4 DEF StopInv

(* When a component does not start, none behind it is started.             *)
LEMMA StartFailsStops == ASSUME IInv, StopInv, StartFails PROVE StopInv'
<1> DEFINE x == components[pos]
<1>0. pos \in Indices /\ x \in Components
  BY DEF IInv, StartFails, PosInv, TypeOK, Indices
<1>1. /\ UNCHANGED <<sys, components, cause, state, thread>>
      /\ pc = "start" /\ pc' = "stop" /\ pos' = pos - 1 /\ end' = pos
      /\ ~ret' /\ ~deferred' /\ progress' /\ Startable(x)
  BY DEF StartFails, StopUntil, GoTo, lists, Current, ToBeStarted, Startable
<1>2. OwnerInv'
  BY <1>1 DEF StopInv, OwnerInv, IsThreaded, Started
<1>3. ASSUME sys.prompt PROVE PromptInv'
  <2>1. \A i \in Indices : i >= pos => ~Started(components[i])
    BY <1>0, <1>1, <1>3 DEF StopInv, PromptInv, StartLoopInv, Indices
  <2>2. PassInv'
    BY <1>0, <1>1, <2>1 DEF PassInv, Indices, Started
  <2> QED
    BY <1>1, <1>3, <2>2 DEF StopInv, PromptInv, StartLoopInv, UpInv,
       StoppedInv
<1> QED
  BY <1>1, <1>2, <1>3 DEF StopInv

LEMMA StartDoneStops == ASSUME IInv, StopInv, StartDone PROVE StopInv'
<1>1. /\ UNCHANGED <<sys, components, cause, state, thread>>
      /\ pc = "start" /\ pc' = "up" /\ pos > Len(components)
  BY DEF StartDone, GoTo, lists
<1>2. OwnerInv'
  BY <1>1 DEF StopInv, OwnerInv, IsThreaded, Started
<1>3. ASSUME sys.prompt PROVE PromptInv'
  <2>1. ASSUME NEW c \in Components, Startable(c) PROVE FALSE
    <3>1. PICK i \in Indices : components[i] = c
      <4>1. Exists(c) \/ Pending(c)
        BY <2>1 DEF IInv, ListInv, Startable
      <4>2. tmpList = <<>>
        BY <1>1 DEF IInv, ListInv
      <4> QED
        BY <4>1, <4>2 DEF Exists, Pending, Indices
    <3>2. i < pos
      BY <1>1 DEF Indices, IInv, TypeOK
    <3> QED
      BY <1>1, <2>1, <3>1, <3>2 DEF IInv, StateInv, Startable, Constructed
  <2>2. UpInv'
    BY <1>1, <1>3, <2>1 DEF StopInv, PromptInv, StartLoopInv, UpInv,
       Untouched, Startable, Started
  <2> QED
    BY <1>1, <1>3, <2>2 DEF StopInv, PromptInv, StartLoopInv, PassInv,
       StoppedInv
<1> QED
  BY <1>1, <1>2, <1>3 DEF StopInv

----------------------------------------------------------------------------
LEMMA StopAllStops == ASSUME IInv, StopInv, COMP_stopAll PROVE StopInv'
<1>1. /\ UNCHANGED <<sys, components, cause, state, thread>>
      /\ pc = "up" /\ pc' = "stop" /\ pos' = Len(components)
      /\ end' = Len(components) + 1 /\ ~deferred' /\ progress'
  BY DEF COMP_stopAll, StopUntil, GoTo, lists, history, IInv, TypeOK
<1>2. OwnerInv'
  BY <1>1 DEF StopInv, OwnerInv, IsThreaded, Started
<1>3. ASSUME sys.prompt PROVE PromptInv'
  <2>1. PassInv'
    BY <1>1 DEF PassInv, Indices, IInv, TypeOK
  <2> QED
    BY <1>1, <1>3, <2>1 DEF StopInv, PromptInv, StartLoopInv, UpInv,
       StoppedInv
<1> QED
  BY <1>1, <1>2, <1>3 DEF StopInv

LEMMA StopSkipStops == ASSUME IInv, StopInv, StopSkip PROVE StopInv'
<1>1. /\ UNCHANGED <<sys, components, cause, state, thread, end, retry,
                     deferred, progress, ret>>
      /\ pc = "stop" /\ pc' = "stop" /\ pos \in Indices /\ pos' = pos - 1
      /\ ~Started(components[pos])
  BY DEF StopSkip, GoTo, lists, pass, history, IInv, TypeOK, PosInv, Indices,
         Current, Started
<1>2. OwnerInv'
  BY <1>1 DEF StopInv, OwnerInv, IsThreaded, Started
<1>3. ASSUME sys.prompt PROVE PromptInv'
  <2>1. PassInv /\ end \in Nat
    BY <1>1, <1>3 DEF StopInv, PromptInv, IInv, TypeOK
  <2>2. \A i \in Indices : i > pos - 1 => i > pos \/ i = pos
    BY <1>1 DEF Indices
  <2>3. PassInv'
    BY <1>1, <2>1, <2>2 DEF PassInv, Indices, Started
  <2> QED
    BY <1>1, <1>3, <2>3 DEF StopInv, PromptInv, StartLoopInv, UpInv,
       StoppedInv
<1> QED
  BY <1>1, <1>2, <1>3 DEF StopInv

(* stop() of a component succeeds.                                         *)
LEMMA StoppedKeepsPass ==
    ASSUME IInv, StopInv, Stopped, pc \in {"stop", "join"}, pos \in Indices,
           sys.prompt
    PROVE  PromptInv'
<1> DEFINE x == components[pos]
<1>1. /\ UNCHANGED <<sys, components, cause, end, deferred, ret>>
      /\ progress' /\ pc' = "stop" /\ pos' = pos - 1 /\ x \in Components
      /\ state' = [state EXCEPT ![x] = "INITIALIZED"]
  BY ListedComponents DEF Stopped, GoTo, lists, history, Current
<1>2. /\ state \in [Components -> StateType]
      /\ \A i \in Indices : components[i] \in Components
  BY ListedComponents DEF IInv, TypeOK
<1>3. \A c \in Components : Started(c)' <=> Started(c) /\ c # x
  BY <1>1, <1>2 DEF Started
<1>4. PassInv /\ end \in Nat
  BY DEF StopInv, PromptInv, IInv, TypeOK
<1>5. \A i \in Indices : i > pos - 1 => i > pos \/ i = pos
  BY DEF Indices
<1>6. \A i \in Indices : Started(components[i])' =>
                             Started(components[i]) /\ i # pos
  BY <1>1, <1>2, <1>3 DEF Started
<1>7. PassInv'
  BY <1>1, <1>4, <1>5, <1>6 DEF PassInv, Indices
<1> QED
  BY <1>1, <1>7 DEF StopInv, PromptInv, StartLoopInv, UpInv, StoppedInv

(* stop() of a component does not succeed; in a later pass the component   *)
(* waits for another one.                                                  *)
LEMMA NotStoppedKeepsPass ==
    ASSUME IInv, StopInv, NotStopped, pc \in {"stop", "join"}, pos \in Indices,
           sys.prompt, UNCHANGED thread,
           retry => \E d \in sys.waits[components[pos]] : Started(d)
    PROVE  PromptInv'
<1>1. /\ UNCHANGED <<sys, components, cause, state, end, retry, progress, ret>>
      /\ deferred' /\ pc' = "stop" /\ pos' = pos - 1
  BY DEF NotStopped, GoTo, lists, history
<1>2. PassInv /\ end \in Nat
  BY DEF StopInv, PromptInv, IInv, TypeOK
<1>3. \A i \in Indices : i > pos - 1 => i > pos \/ i = pos
  BY DEF Indices
<1>4. PassInv'
  BY <1>1, <1>2, <1>3 DEF PassInv, Indices, Started
<1> QED
  BY <1>1, <1>4 DEF StopInv, PromptInv, StartLoopInv, UpInv, StoppedInv

LEMMA StopSelfStops == ASSUME IInv, StopInv, StopSelf PROVE StopInv'
<1> DEFINE x == components[pos]
<1>0. pos \in Indices /\ x \in Components /\ pc = "stop" /\ Current = x
  BY DEF IInv, StopSelf, PosInv, TypeOK, Indices, Current
<1>2. OwnerInv'
  <2>1. \A c \in Components \ {x} : Started(c)' <=> Started(c)
    BY <1>0 DEF StopSelf, Stopped, NotStopped, Started, IInv, TypeOK
  <2>2. /\ UNCHANGED <<sys, thread>> /\ ~IsThreaded(x)
        /\ thread[x] = "none"
    BY <1>0 DEF StopSelf, Stopped, NotStopped, history, IInv, ThreadInv
  <2> QED
    BY <2>1, <2>2 DEF StopInv, OwnerInv, IsThreaded
<1>3. ASSUME sys.prompt PROVE PromptInv'
  <2>1. CASE Stopped
    BY <1>0, <1>3, <2>1, StoppedKeepsPass
  <2>2. CASE NotStopped /\ ~retry
    BY <1>0, <1>3, <2>2, NotStoppedKeepsPass DEF StopSelf
  <2> QED
    BY <1>3, <2>1, <2>2 DEF StopSelf
<1> QED
  BY <1>2, <1>3 DEF StopInv, StopSelf, Stopped, NotStopped, history

LEMMA StopThreadedStops == ASSUME IInv, StopInv, StopThreaded PROVE StopInv'
<1> DEFINE x == components[pos]
<1>1. /\ UNCHANGED <<sys, components, cause, state, end, retry, deferred,
                     progress, ret, pos>>
      /\ pc = "stop" /\ pc' = "join" /\ x \in Components
      /\ thread' = [thread EXCEPT ![x] =
                       IF ~retry /\ @ = "running" THEN "cancelled" ELSE @]
  BY ListedComponents DEF StopThreaded, GoTo, lists, pass, history, Current,
     IInv, TypeOK, PosInv, Indices
<1>2. OwnerInv'
  BY <1>1 DEF StopInv, OwnerInv, IsThreaded, Started, IInv, TypeOK
<1>3. ASSUME sys.prompt PROVE PromptInv'
  <2>1. PassInv'
    BY <1>1, <1>3 DEF StopInv, PromptInv, PassInv, Indices, Started
  <2> QED
    BY <1>1, <1>3, <2>1 DEF StopInv, PromptInv, StartLoopInv, UpInv,
       StoppedInv
<1> QED
  BY <1>1, <1>2, <1>3 DEF StopInv

LEMMA JoinStops == ASSUME IInv, StopInv, Join PROVE StopInv'
<1> DEFINE x == components[pos]
<1>0. pos \in Indices /\ x \in Components /\ pc = "join" /\ Current = x
  BY DEF IInv, Join, PosInv, TypeOK, Indices, Current
<1>1. /\ Stopped /\ sys' = sys
      /\ thread' = [thread EXCEPT ![x] = "joined"]
      /\ state' = [state EXCEPT ![x] = "INITIALIZED"]
  BY <1>0 DEF Join, Stopped, history
<1>2. OwnerInv'
  BY <1>0, <1>1 DEF StopInv, OwnerInv, IsThreaded, Started, IInv, TypeOK
<1>3. ASSUME sys.prompt PROVE PromptInv'
  BY <1>0, <1>1, <1>3, StoppedKeepsPass
<1> QED
  BY <1>1, <1>2, <1>3 DEF StopInv

(* A join that times out although cancelled threads end in a second: the   *)
(* thread waits for another one, whose component is still started.         *)
LEMMA JoinFailsStops == ASSUME IInv, StopInv, JoinFails PROVE StopInv'
<1> DEFINE x == components[pos]
<1>0. pos \in Indices /\ x \in Components /\ pc = "join" /\ Current = x
  BY DEF IInv, JoinFails, PosInv, TypeOK, Indices, Current
<1>1. NotStopped /\ UNCHANGED <<sys, state, thread>>
  BY DEF JoinFails, NotStopped, history
<1>2. OwnerInv'
  BY <1>1 DEF StopInv, OwnerInv, IsThreaded, Started
<1>3. ASSUME sys.prompt PROVE PromptInv'
  <2>1. ASSUME retry PROVE \E d \in sys.waits[x] : Started(d)
    <3>1. thread[x] # "ended" /\ ~CanEnd(x)
      BY <1>0, <1>3, <2>1 DEF JoinFails
    <3>2. thread[x] \notin {"running", "none", "joined"}
      BY <1>0, <2>1 DEF IInv, ThreadInv, PosInv, StopInv, OwnerInv, Started
    <3>3. thread[x] = "cancelled"
      BY <1>0, <3>1, <3>2 DEF IInv, TypeOK, ThreadType
    <3>4. PICK d \in sys.waits[x] : Alive(d)
      BY <3>1, <3>3 DEF CanEnd
    <3>5. d \in Components
      BY <1>0 DEF IInv, TypeOK, IsSystem
    <3> QED
      BY <3>4, <3>5 DEF IInv, ThreadInv, Started
  <2> QED
    BY <1>0, <1>1, <1>3, <2>1, NotStoppedKeepsPass
<1> QED
  BY <1>1, <1>2, <1>3 DEF StopInv

(* A pass that stopped nothing found nothing started: otherwise every      *)
(* started component would wait for another started one.                   *)
LEMMA NothingLeft ==
    ASSUME IInv, sys.prompt, PassInv, pc = "stop", pos = 0, ~TryAgain
    PROVE  \A c \in Components : ~Started(c)
<1>1. CASE ~deferred
  <2>1. \A i \in Indices : ~Started(components[i])
    BY <1>1 DEF PassInv, Indices
  <2> QED
    BY <2>1, StartedListed
<1>2. CASE ~progress
  <2> DEFINE S == {c \in Components : Started(c)}
  <2>1. ASSUME NEW c \in S PROVE \E d \in sys.waits[c] : d \in S
    <3>1. PICK i \in Indices : components[i] = c
      BY StartedListed
    <3>2. PICK d \in sys.waits[c] : Started(d)
      BY <1>2, <3>1 DEF PassInv, Indices
    <3>3. d \in Components
      BY DEF IInv, TypeOK, IsSystem
    <3> QED
      BY <3>2, <3>3
  <2>2. NoCircle(sys)
    BY DEF IInv, TypeOK, IsSystem
  <2>3. S = {} \/ \E c \in S : sys.waits[c] \cap S = {}
    BY <2>2 DEF NoCircle
  <2>4. S = {}
    BY <2>1, <2>3
  <2> QED
    BY <2>4
<1> QED
  BY <1>1, <1>2 DEF TryAgain

LEMMA StopAgainStops == ASSUME IInv, StopInv, StopAgain PROVE StopInv'
<1>1. /\ UNCHANGED <<sys, components, cause, state, thread, end, ret>>
      /\ pc = "stop" /\ pc' = "stop" /\ pos' = end - 1 /\ retry'
      /\ end \in 1..(Len(components) + 1)
  BY DEF StopAgain, GoTo, lists, history, IInv, PosInv
<1>2. OwnerInv'
  BY <1>1 DEF StopInv, OwnerInv, IsThreaded, Started
<1>3. ASSUME sys.prompt PROVE PromptInv'
  <2>1. PassInv
    BY <1>3 DEF StopInv, PromptInv
  <2>2. \A i \in Indices : i > end - 1 => i >= end
    BY <1>1 DEF Indices
  <2>3. PassInv'
    BY <1>1, <2>1, <2>2 DEF PassInv, Indices, Started
  <2> QED
    BY <1>1, <1>3, <2>3 DEF StopInv, PromptInv, StartLoopInv, UpInv,
       StoppedInv
<1> QED
  BY <1>1, <1>2, <1>3 DEF StopInv

LEMMA StopReturnsStops == ASSUME IInv, StopInv, StopReturns PROVE StopInv'
<1>1. /\ UNCHANGED <<sys, components, state, thread>>
      /\ pc = "stop" /\ pos = 0 /\ ~TryAgain
      /\ pc' \in {"up", "stopped", "aborted"}
      /\ cause' # "assert" \/ cause' = cause
      /\ pc' = "up" => end <= Len(components) /\ ret' = ret
  BY DEF StopReturns, GoTo, Abort, lists, history
<1>2. OwnerInv'
  BY <1>1 DEF StopInv, OwnerInv, IsThreaded, Started
<1>3. ASSUME sys.prompt PROVE PromptInv'
  <2>1. PassInv
    BY <1>3 DEF StopInv, PromptInv
  <2>2. \A c \in Components : ~Started(c)
    BY <1>1, <1>3, <2>1, NothingLeft
  <2>3. \A c \in Components : ~Started(c)'
    BY <1>1, <2>2 DEF Started
  <2>4. pc' = "up" => ~ret'
    BY <1>1, <2>1 DEF PassInv
  <2> QED
    BY <1>1, <1>3, <2>3, <2>4 DEF StopInv, PromptInv, StartLoopInv, UpInv,
       PassInv, StoppedInv, Untouched
<1> QED
  BY <1>1, <1>2, <1>3 DEF StopInv

----------------------------------------------------------------------------
LEMMA DestructAllStops == ASSUME IInv, StopInv, COMP_destructAll PROVE StopInv'
<1>1. /\ UNCHANGED <<sys, components, cause, state, thread>>
      /\ pc = "stopped" /\ pc' = "destruct"
  BY DEF COMP_destructAll, GoTo, lists, history
<1>2. OwnerInv'
  BY <1>1 DEF StopInv, OwnerInv, IsThreaded, Started
<1>3. ASSUME sys.prompt PROVE PromptInv'
  BY <1>1, <1>3 DEF StopInv, PromptInv, StartLoopInv, UpInv, PassInv,
     StoppedInv, Started
<1> QED
  BY <1>1, <1>2, <1>3 DEF StopInv

(* At the end of the loop of COMP_destructAll() nothing is constructed.    *)
LEMMA AllDestructed ==
    ASSUME IInv, pc = "destruct", pos = 0
    PROVE  \A c \in Components : ~Constructed(c)
<1> SUFFICES ASSUME NEW c \in Components, Constructed(c) PROVE FALSE
  OBVIOUS
<1>1. Exists(c) \/ Pending(c)
  BY DEF IInv, ListInv, Constructed
<1>2. tmpList = <<>>
  BY DEF IInv, ListInv
<1>3. PICK i \in Indices : components[i] = c
  BY <1>1, <1>2 DEF Exists, Pending, Indices
<1> QED
  BY <1>3 DEF IInv, StateInv, Indices

LEMMA UnregisterAllStops ==
    ASSUME IInv, StopInv, COMP_unregisterAll PROVE StopInv'
<1>1. /\ UNCHANGED <<sys, thread, cause>> /\ pc' = "exit"
      /\ state' = [c \in Components |-> "none"]
  BY DEF COMP_unregisterAll, GoTo, history
<1>2. \A c \in Components : ~Started(c)
  BY AllDestructed DEF COMP_unregisterAll, IInv, StateInv, Constructed, Started
<1>3. \A c \in Components : ~Started(c)'
  BY <1>1 DEF Started
<1> QED
  BY <1>1, <1>2, <1>3, QuietStep

LEMMA ThreadEndsStops ==
    ASSUME NEW c \in Components, IInv, StopInv, ThreadEnds(c)
    PROVE  StopInv'
<1>1. /\ thread' = [thread EXCEPT ![c] = "ended"] /\ Alive(c)
      /\ sys.kind[c] = "oneshot" \/ thread[c] = "cancelled"
      /\ UNCHANGED <<sys, components, state, pc, pos, end, retry, deferred,
                     progress, ret, cause>>
  BY DEF ThreadEnds, CanEnd, Alive, lists, pass
<1>2. thread \in [Components -> ThreadType] /\ Started(c)
  BY <1>1 DEF IInv, TypeOK, ThreadInv, Started
<1>3. OwnerInv'
  BY <1>1, <1>2 DEF StopInv, OwnerInv, IsThreaded, Started
<1>4. ASSUME sys.prompt PROVE PromptInv'
  <2>1. Untouched => Untouched'
    BY <1>1, <1>2 DEF Untouched, Started
  <2> QED
    BY <1>1, <1>4, <2>1 DEF StopInv, PromptInv, StartLoopInv, UpInv, PassInv,
       StoppedInv, Indices, Startable, Started
<1> QED
  BY <1>1, <1>3, <1>4 DEF StopInv

LEMMA StutterStops == ASSUME StopInv, UNCHANGED vars PROVE StopInv'
<1>1. OwnerInv' /\ sys' = sys
  BY DEF StopInv, OwnerInv, IsThreaded, Started, vars
<1>2. ASSUME sys.prompt PROVE PromptInv'
  BY <1>2 DEF StopInv, PromptInv, StartLoopInv, UpInv, PassInv, StoppedInv,
     Untouched, Indices, Startable, Started, vars
<1> QED
  BY <1>1, <1>2 DEF StopInv

LEMMA StopInvStep == IInv /\ StopInv /\ [Next]_vars => StopInv'
<1> SUFFICES ASSUME IInv, StopInv, [Next]_vars PROVE StopInv'
  OBVIOUS
<1>1. CASE Caller
  BY <1>1, FixupSteps, SequentializeSteps, InitSteps, DestructStops,
     StartAllStops, StartSkipStops, StartComponentStops, StartFailsStops,
     StartDoneStops, StopAllStops, StopSkipStops, StopSelfStops,
     StopThreadedStops, JoinStops, JoinFailsStops, StopAgainStops,
     StopReturnsStops, DestructAllStops, UnregisterAllStops DEF Caller
<1>2. CASE \E c \in Components : ThreadEnds(c)
  BY <1>2, ThreadEndsStops
<1>3. CASE UNCHANGED vars
  BY <1>3, StutterStops
<1> QED
  BY <1>1, <1>2, <1>3 DEF Next, Finished

LEMMA InitStopInv == Init => StopInv
<1> SUFFICES ASSUME Init PROVE StopInv
  OBVIOUS
<1>1. OwnerInv
  BY DEF Init, OwnerInv, Started
<1>2. PromptInv
  BY DEF Init, PromptInv, StartLoopInv, UpInv, PassInv, StoppedInv
<1> QED
  BY <1>1, <1>2 DEF StopInv

LEMMA StopInvariance == Spec => [](IInv /\ StopInv)
  BY InitIInv, InitStopInv, NextStep, StopInvStep, PTL DEF Spec

----------------------------------------------------------------------------
(* COMP_stopAll() (util/component.c:311-362) returns only when nothing is  *)
(* started and every thread was joined, for any number of components and   *)
(* any waiting among their threads that has no circle.                     *)
THEOREM EverythingStops == Spec => []StopStopsEverything
<1>1. IInv /\ StopInv => StopStopsEverything
  <2> SUFFICES ASSUME IInv, StopInv, sys.prompt,
                      pc \in {"stopped", "destruct", "exit"},
                      NEW c \in Components
               PROVE  ~Started(c) /\ thread[c] \in {"none", "joined"}
    BY DEF StopStopsEverything, Started
  <2>1. ~Started(c)
    BY DEF StopInv, PromptInv, StoppedInv, IInv, StateInv, Constructed, Started
  <2>2. ~Alive(c) /\ thread[c] # "ended"
    BY <2>1 DEF IInv, ThreadInv, StopInv, OwnerInv, Started
  <2> QED
    BY <2>1, <2>2 DEF Alive, IInv, TypeOK, ThreadType
<1> QED
  BY <1>1, StopInvariance, PTL

(* After COMP_startAll() (util/component.c:246-278) has returned true, also*)
(* after any sequence of stops and failed starts before, every thread that *)
(* shall run is running: none is a left-over that was already cancelled.   *)
THEOREM RestartIsComplete == Spec => []RestartRestores
<1>1. IInv /\ StopInv => RestartRestores
  <2> SUFFICES ASSUME IInv, StopInv, sys.prompt, pc = "up", ret,
                      NEW c \in Components, Constructed(c), sys.start[c],
                      sys.kind[c] = "thread"
               PROVE  thread[c] = "running"
    BY DEF RestartRestores, StartedIsRunning
  <2>1. UpInv
    BY DEF StopInv, PromptInv
  <2>2. Started(c)
    BY <2>1 DEF UpInv, Startable, Constructed, Started
  <2> QED
    BY <2>1, <2>2 DEF UpInv, Untouched
<1> QED
  BY <1>1, StopInvariance, PTL

(* The assertions of COMP_initAll(), destruct() and COMP_unregisterAll()   *)
(* (util/component.c:214, 439 and 104) hold.                               *)
THEOREM AssertionsNeverFail == Spec => []AssertionsHold
<1>1. IInv /\ StopInv => AssertionsHold
  <2> SUFFICES ASSUME IInv, StopInv PROVE AssertionsHold
    OBVIOUS
  <2>1. ASSUME pc = "init", pos <= Len(components)
        PROVE  state[Current] = "REGISTERED"
    <3>1. pos \in Indices /\ components[pos] \in Components
      BY <2>1 DEF IInv, PosInv, TypeOK, Indices
    <3>2. ~Constructed(components[pos])
      BY <2>1, <3>1 DEF IInv, StateInv, TypeOK
    <3>3. Exists(components[pos])
      BY <3>1 DEF Exists, Indices
    <3>4. state[components[pos]] # "none"
      BY <3>1, <3>3 DEF IInv, ListInv
    <3> QED
      BY <3>1, <3>2, <3>4 DEF IInv, TypeOK, StateType, Constructed, Current
  <2>2. sys.prompt => cause # "assert"
    BY DEF StopInv, PromptInv, StoppedInv
  <2> QED
    BY <2>1, <2>2, AllDestructed DEF AssertionsHold
<1> QED
  BY <1>1, StopInvariance, PTL
=============================================================================
