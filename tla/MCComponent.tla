---------------------------- MODULE MCComponent ----------------------------
(* Model checking of the component framework; see the .cfg files.          *)
EXTENDS Component

CONSTANTS RELAY, NET, BUF

MCComponents == {RELAY, NET, BUF}

All(v) == [x \in MCComponents |-> v]

(* A daemon of three threads that wait for nobody.                         *)
Plain ==
    [roots |-> <<RELAY>>, deps |-> All({}), kind |-> All("thread"),
     enabled |-> All(TRUE), start |-> All(TRUE), waits |-> All({}),
     prompt |-> TRUE, timedJoin |-> TRUE, library |-> FALSE]

(* All dependency graphs, with cycles, and orders of registration.         *)
Graphs ==
    {[Plain EXCEPT !.roots = r, !.deps = g] :
        r \in {<<RELAY>>, <<RELAY, NET>>, <<BUF, RELAY>>,
              <<NET, BUF, RELAY>>, <<RELAY, RELAY>>},
        g \in [MCComponents -> SUBSET MCComponents]}

(* RELAY depends on NET and BUF.                                           *)
Relay == [Plain EXCEPT !.deps = [All({}) EXCEPT ![RELAY] = {NET, BUF}]]

(* All kinds of components, disabled and not to be started ones.           *)
Kinds ==
    {[Relay EXCEPT !.kind = k, !.enabled[x] = e, !.start[y] = s,
                   !.library = l, !.prompt = p] :
        k \in [MCComponents -> {"thread", "oneshot", "callbacks", "passive"}],
        x \in MCComponents, y \in MCComponents,
        e \in BOOLEAN, s \in BOOLEAN, l \in BOOLEAN, p \in BOOLEAN}

(* Threads that do not end, as they wait for themselves or each other.     *)
Circles ==
    {[All({}) EXCEPT ![x] = {x}] : x \in MCComponents}
    \cup {[All({}) EXCEPT ![RELAY] = {NET}, ![NET] = {RELAY}]}

(* Threads that wait for each other, or do not end.                        *)
Waiting ==
    {[Relay EXCEPT !.deps[NET] = d, !.waits = w, !.prompt = p,
                   !.timedJoin = t, !.library = l] :
        d \in {{}, {BUF}}, l \in BOOLEAN,
        w \in {All({}), [All({}) EXCEPT ![RELAY] = {NET}, ![NET] = {BUF}],
               [All({}) EXCEPT ![NET] = {RELAY}, ![BUF] = {NET}]},
        p \in BOOLEAN, t \in BOOLEAN}
    \cup
    {[Relay EXCEPT !.waits = w, !.prompt = FALSE, !.timedJoin = t,
                   !.library = l] :
        w \in Circles, t \in BOOLEAN, l \in BOOLEAN}

MCSystems == Graphs \cup Kinds \cup Waiting

(* The library, with threads that take their time.                         *)
SlowLibrary == {[Relay EXCEPT !.prompt = FALSE, !.library = TRUE]}
=============================================================================
