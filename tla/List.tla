-------------------------------- MODULE List --------------------------------
(***************************************************************************)
(* The linked lists of util/list.h, pointer by pointer.  A link belongs to *)
(* at most one list; the links of a list form a ring through the list's    *)
(* anchor.  Four types exist: double linked (D), the same with a counter   *)
(* (DC), single linked with a tail pointer (S), and counted (SC).  The     *)
(* counted types contain the others, so those two are modelled and the     *)
(* operators of the plain ones are their pointer part.                     *)
(*                                                                         *)
(* The anchor of a list is the list itself here.  size_t is counted modulo *)
(* SizeMod, since lazily counted lists decrement a meaningless length.     *)
(***************************************************************************)
EXTENDS Naturals, Sequences, FiniteSets

CONSTANTS
    Links,         \* links that can be put into lists
    Lists,         \* lists, which are also their anchors
    SizeMod,       \* 2^w for a size_t of w bits
    PrependToEmpty \* may a list be prepended to an empty single linked one?

(* A size_t can count whatever fits into memory.                           *)
ASSUME ListAssumption ==
    /\ Links \cap Lists = {}
    /\ IsFiniteSet(Links)
    /\ SizeMod \in Nat /\ Cardinality(Links) < SizeMod
    /\ PrependToEmpty \in BOOLEAN

Nodes == Links \cup Lists

VARIABLES
    type,    \* "DC", "SC" or, if the compiler has no _Generic, "coerced"
    next,    \* link->next, anchors included
    prev,    \* link->prev of double linked lists; anchor.prev is the tail
    last,    \* list->tail of single linked lists
    length,  \* list->length
    tainted, \* list->tainted: length is invalid
    loop     \* the loop over a list that is being executed, if any

vars == <<type, next, prev, last, length, tainted, loop>>
pointers == <<next, prev, last>>

Idle == [on |-> FALSE]

(* LIST_List.._INIT(): every anchor points to itself.  The compiler        *)
(* selects the macros: with _Generic there are single and double linked    *)
(* lists, without it all lists are double linked ones with a counter.      *)
Init ==
    /\ type \in {"DC", "SC", "coerced"}
    /\ next = [n \in Nodes |-> n]
    /\ prev = [n \in Nodes |-> n]
    /\ last = [l \in Lists |-> l]
    /\ length = [l \in Lists |-> 0]
    /\ tainted = [l \in Lists |-> FALSE]
    /\ loop = Idle

Single == type = "SC"
Double == type # "SC"

-----------------------------------------------------------------------------
(* Reading a list.                                                         *)

(* LIST_forward(), LIST_rewind(), and with x the first link LIST_at(): the *)
(* n-th successor of x along f.                                            *)
LIST_forward(f, x) ==
    LET g[n \in 0..(Cardinality(Links) + 1)] ==
            IF n = 0 THEN x ELSE f[g[n - 1]]
    IN  g

(* The links on the ring from anchor l along f; if the ring does not close *)
(* at the anchor, more links than exist.                                   *)
Ring(f, l) ==
    LET g == LIST_forward(f, f[l])
        ends == {n \in 0..Cardinality(Links) : g[n] = l}
        size == IF ends = {} THEN Cardinality(Links) + 1
                ELSE CHOOSE n \in ends : \A m \in ends : n <= m
    IN  [i \in 1..size |-> g[i - 1]]

Content == [l \in Lists |-> Ring(next, l)]

LIST_empty(l) == next[l] = l

Members(l) == {Content[l][i] : i \in 1..Len(Content[l])}
Free == Links \ UNION {Members(l) : l \in Lists}

(* LIST_length() counts the links of a tainted list and keeps the result.  *)
LIST_length(l) ==
    /\ ~loop.on
    /\ length' = [length EXCEPT ![l] =
                     IF tainted[l] THEN Len(Content[l]) ELSE @]
    /\ tainted' = [tainted EXCEPT ![l] = FALSE]
    /\ UNCHANGED <<type, pointers, loop>>

-----------------------------------------------------------------------------
(* Double linked lists.                                                    *)

LIST_initDC(l) ==
    /\ next' = [next EXCEPT ![l] = l]
    /\ prev' = [prev EXCEPT ![l] = l]
    /\ length' = [length EXCEPT ![l] = 0]
    /\ tainted' = [tainted EXCEPT ![l] = FALSE]
    /\ UNCHANGED last

LIST_unlinkD_oneWay(x) == \* mutant: link->next->prev keeps its value
    /\ next' = [next EXCEPT ![prev[x]] = next[x]]
    /\ UNCHANGED <<prev, last>>

LIST_unlinkD(x) ==
    /\ next' = [next EXCEPT ![prev[x]] = next[x]]
    /\ prev' = [prev EXCEPT ![next[x]] = prev[x]]
    /\ UNCHANGED last

(* An empty list is left alone if its length says so; a tainted one is not *)
(* trusted, its anchor is unlinked from itself.                            *)
LIST_unlinkDC(l, x) ==
    IF tainted[l] \/ length[l] # 0
    THEN /\ LIST_unlinkD(x)
         /\ length' = [length EXCEPT ![l] = (@ + SizeMod - 1) % SizeMod]
         /\ UNCHANGED tainted
    ELSE UNCHANGED <<pointers, length, tainted>>

LIST_insertD(p, x) ==
    /\ next' = [next EXCEPT ![x] = next[p], ![p] = x]
    /\ prev' = [prev EXCEPT ![x] = p, ![next[p]] = x]
    /\ UNCHANGED last

LIST_insertDC(l, p, x) ==
    /\ LIST_insertD(p, x)
    /\ length' = [length EXCEPT ![l] = (@ + 1) % SizeMod]
    /\ UNCHANGED tainted

LIST_separateFromD(l, newList, pivot) ==
    IF pivot # l
    THEN /\ next' = [next EXCEPT ![newList] = pivot, ![prev[l]] = newList,
                                 ![prev[pivot]] = l]
         /\ prev' = [prev EXCEPT ![newList] = prev[l], ![l] = prev[pivot],
                                 ![pivot] = newList]
    ELSE /\ next' = [next EXCEPT ![newList] = newList]
         /\ prev' = [prev EXCEPT ![newList] = newList]

LIST_separateUntilD(l, newList, pivot) ==
    IF pivot # next[l]
    THEN /\ next' = [next EXCEPT ![newList] = next[l],
                                 ![prev[pivot]] = newList, ![l] = pivot]
         /\ prev' = [prev EXCEPT ![next[l]] = newList,
                                 ![newList] = prev[pivot], ![pivot] = l]
    ELSE /\ next' = [next EXCEPT ![newList] = newList]
         /\ prev' = [prev EXCEPT ![newList] = newList]

(* The eager form counts newList, subtracts that from the length of list   *)
(* and trusts the result; the lazy form taints both lists.                 *)
Recount(l, newList, eager, lazy) ==
    LET n == Len(Content'[newList])
    IN  IF eager
        THEN /\ length' = [length EXCEPT ![newList] = n,
                                         ![l] = (@ + SizeMod - n) % SizeMod]
             /\ tainted' = [tainted EXCEPT ![newList] = FALSE, ![l] = FALSE]
        ELSE lazy

LIST_separateFromDC(l, newList, pivot, eager) ==
    /\ LIST_separateFromD(l, newList, pivot)
    /\ Recount(l, newList, eager,
               IF pivot # l
               THEN /\ tainted' = [tainted EXCEPT ![l] = TRUE,
                                                  ![newList] = TRUE]
                    /\ UNCHANGED length
               ELSE /\ tainted' = [tainted EXCEPT ![newList] = FALSE]
                    /\ length' = [length EXCEPT ![newList] = 0])
    /\ UNCHANGED last

LIST_separateUntilDC(l, newList, pivot, eager) ==
    /\ LIST_separateUntilD(l, newList, pivot)
    /\ Recount(l, newList, eager,
               /\ tainted' = [tainted EXCEPT ![l] = TRUE, ![newList] = TRUE]
               /\ UNCHANGED length)
    /\ UNCHANGED last

LIST_concatenatePushD(dst, src) ==
    /\ next' = [next EXCEPT ![prev[src]] = dst, ![prev[dst]] = next[src],
                            ![src] = src]
    /\ prev' = [prev EXCEPT ![next[src]] = prev[dst], ![dst] = prev[src],
                            ![src] = src]

LIST_concatenateUnshiftD(dst, src) ==
    /\ next' = [next EXCEPT ![prev[src]] = next[dst], ![dst] = next[src],
                            ![src] = src]
    /\ prev' = [prev EXCEPT ![next[src]] = dst, ![next[dst]] = prev[src],
                            ![src] = src]

(* The lengths are added, valid or not, and the source is initialised.     *)
Concatenate_trusting(dst, src, splice) == \* mutant: dst keeps its own flag
    IF LIST_empty(src)
    THEN UNCHANGED <<pointers, length, tainted>>
    ELSE /\ splice
         /\ length' = [length EXCEPT ![dst] = (@ + length[src]) % SizeMod,
                                     ![src] = 0]
         /\ tainted' = [tainted EXCEPT ![src] = FALSE]
         /\ UNCHANGED last

Concatenate(dst, src, splice) ==
    IF LIST_empty(src)
    THEN UNCHANGED <<pointers, length, tainted>>
    ELSE /\ splice
         /\ length' = [length EXCEPT ![dst] = (@ + length[src]) % SizeMod,
                                     ![src] = 0]
         /\ tainted' = [tainted EXCEPT ![dst] = @ \/ tainted[src],
                                       ![src] = FALSE]
         /\ UNCHANGED last

LIST_concatenatePushDC(dst, src) ==
    Concatenate(dst, src, LIST_concatenatePushD(dst, src))

LIST_concatenateUnshiftDC(dst, src) ==
    Concatenate(dst, src, LIST_concatenateUnshiftD(dst, src))

(* The elements of a vector are linked in their order.                     *)
Successor(l, vector, n) ==
    IF n = Len(vector) THEN l ELSE vector[n + 1]
Predecessor(l, vector, n) ==
    IF n = 1 THEN l ELSE vector[n - 1]
Position(vector, x) ==
    CHOOSE n \in 1..Len(vector) : vector[n] = x
Elements(vector) == {vector[n] : n \in 1..Len(vector)}

LIST_fromVectorD(l, vector) ==
    /\ next' = [x \in Nodes |->
                   CASE x \in Elements(vector) ->
                            Successor(l, vector, Position(vector, x))
                     [] x = l -> Successor(l, vector, 0)
                     [] OTHER -> next[x]]
    /\ prev' = [x \in Nodes |->
                   CASE x \in Elements(vector) ->
                            Predecessor(l, vector, Position(vector, x))
                     [] x = l -> Predecessor(l, vector, Len(vector) + 1)
                     [] OTHER -> prev[x]]
    /\ UNCHANGED last

LIST_fromVectorDC(l, vector) ==
    /\ LIST_fromVectorD(l, vector)
    /\ length' = [length EXCEPT ![l] = Len(vector) % SizeMod]
    /\ tainted' = [tainted EXCEPT ![l] = FALSE]

-----------------------------------------------------------------------------
(* Single linked lists.                                                    *)

LIST_initSC(l) ==
    /\ next' = [next EXCEPT ![l] = l]
    /\ last' = [last EXCEPT ![l] = l]
    /\ length' = [length EXCEPT ![l] = 0]
    /\ UNCHANGED <<prev, tainted>>

LIST_shiftS(l) ==
    /\ next' = [next EXCEPT ![l] = next[next[l]]]
    /\ last' = [last EXCEPT ![l] = IF next[next[l]] = l THEN l ELSE @]
    /\ UNCHANGED prev

LIST_shiftSC(l) ==
    IF LIST_empty(l)
    THEN UNCHANGED <<pointers, length, tainted>>
    ELSE /\ LIST_shiftS(l)
         /\ length' = [length EXCEPT ![l] = (@ + SizeMod - 1) % SizeMod]
         /\ UNCHANGED tainted

LIST_pushS(l, x) ==
    /\ next' = [next EXCEPT ![x] = l, ![last[l]] = x]
    /\ last' = [last EXCEPT ![l] = x]
    /\ UNCHANGED prev

LIST_unshiftS(l, x) ==
    /\ next' = [next EXCEPT ![x] = next[l], ![l] = x]
    /\ last' = [last EXCEPT ![l] = IF LIST_empty(l) THEN x ELSE @]
    /\ UNCHANGED prev

CountedSC(l, insert) ==
    /\ insert
    /\ length' = [length EXCEPT ![l] = (@ + 1) % SizeMod]
    /\ UNCHANGED tainted

LIST_concatenatePushS(dst, src) ==
    /\ next' = [next EXCEPT ![last[src]] = dst, ![last[dst]] = next[src],
                            ![src] = src]
    /\ last' = [last EXCEPT ![dst] = last[src], ![src] = src]
    /\ UNCHANGED prev

(* The tail of an empty destination becomes the HEAD of the source.        *)
LIST_concatenateUnshiftS(dst, src) ==
    /\ next' = [next EXCEPT ![last[src]] = next[dst], ![dst] = next[src],
                            ![src] = src]
    /\ last' = [last EXCEPT ![dst] = IF LIST_empty(dst) THEN next[src] ELSE @,
                            ![src] = src]
    /\ UNCHANGED prev

ConcatenateSC(dst, src, splice) ==
    IF LIST_empty(src)
    THEN UNCHANGED <<pointers, length, tainted>>
    ELSE /\ splice
         /\ length' = [length EXCEPT ![dst] = (@ + length[src]) % SizeMod,
                                     ![src] = 0]
         /\ UNCHANGED tainted

LIST_fromVectorSC(l, vector) ==
    /\ next' = [x \in Nodes |->
                   CASE x \in Elements(vector) ->
                            Successor(l, vector, Position(vector, x))
                     [] x = l -> Successor(l, vector, 0)
                     [] OTHER -> next[x]]
    /\ last' = [last EXCEPT ![l] = Predecessor(l, vector, Len(vector) + 1)]
    /\ length' = [length EXCEPT ![l] = Len(vector) % SizeMod]
    /\ UNCHANGED <<prev, tainted>>

-----------------------------------------------------------------------------
(* The public macros, which select the function for the type of the list.  *)
(* The documented preconditions are guards: a link to insert is in no      *)
(* list, a link to unlink and a pivot belong to the list (a pivot may be   *)
(* the anchor), two list arguments differ, and a loop changes no list but  *)
(* by unlinking its iterator (LIST_foreachSafe()).                         *)

Call(onDouble, onSingle) ==
    /\ ~loop.on
    /\ IF Single THEN onSingle ELSE onDouble
    /\ UNCHANGED <<type, loop>>

LIST_init(l) == Call(LIST_initDC(l), LIST_initSC(l))

LIST_shift(l) == Call(LIST_unlinkDC(l, next[l]), LIST_shiftSC(l))

LIST_pop(l) == Call(LIST_unlinkDC(l, prev[l]), FALSE)

LIST_unlink(l, x) == x \in Members(l) /\ Call(LIST_unlinkDC(l, x), FALSE)

LIST_push(l, x) ==
    /\ x \in Free
    /\ Call(LIST_insertDC(l, prev[l], x), CountedSC(l, LIST_pushS(l, x)))

LIST_unshift(l, x) ==
    /\ x \in Free
    /\ Call(LIST_insertDC(l, l, x), CountedSC(l, LIST_unshiftS(l, x)))

(* Unlike LIST_insertDC() the macro inserts before its argument.           *)
LIST_insert_after(l, at, x) == \* mutant: inserts after its argument
    /\ x \in Free /\ at \in Members(l) \cup {l}
    /\ Call(LIST_insertDC(l, at, x), FALSE)

LIST_insert(l, at, x) ==
    /\ x \in Free /\ at \in Members(l) \cup {l}
    /\ Call(LIST_insertDC(l, prev[at], x), FALSE)

(* Only the _Generic form of the macro counts eagerly.                     *)
LIST_separateFrom(l, newList, pivot) ==
    /\ l # newList /\ pivot \in Members(l) \cup {l}
    /\ Call(LIST_separateFromDC(l, newList, pivot, type = "DC"), FALSE)

LIST_separateUntil(l, newList, pivot) ==
    /\ l # newList /\ pivot \in Members(l) \cup {l}
    /\ Call(LIST_separateUntilDC(l, newList, pivot, type = "DC"), FALSE)

LIST_concatenatePush(dst, src) ==
    /\ dst # src
    /\ Call(LIST_concatenatePushDC(dst, src),
            ConcatenateSC(dst, src, LIST_concatenatePushS(dst, src)))

LIST_concatenateUnshift(dst, src) ==
    /\ dst # src
    /\ Single /\ LIST_empty(dst) => PrependToEmpty
    /\ Call(LIST_concatenateUnshiftDC(dst, src),
            ConcatenateSC(dst, src, LIST_concatenateUnshiftS(dst, src)))

LIST_fromVector(l, vector) ==
    /\ Elements(vector) \subseteq Free
    /\ Call(LIST_fromVectorDC(l, vector), LIST_fromVectorSC(l, vector))

(* LIST_foreachSafe(), LIST_foreachRevSafe() and, with from not the        *)
(* anchor, the loops that continue behind an item.  The successor of the   *)
(* iterator is read before the body runs.  todo is what the loop shall     *)
(* visit, visited what it has.                                             *)
Links_from(l, f, from) ==
    LET ring == Ring(f, l)
        skip == IF from = l THEN 0 ELSE Position(ring, from)
    IN  SubSeq(ring, skip + 1, Len(ring))

LIST_foreach(l, forward, from) ==
    LET f == IF forward THEN next ELSE prev
    IN  /\ ~loop.on /\ from \in Members(l) \cup {l}
        /\ Single => forward
        /\ loop' = [on |-> TRUE, list |-> l, forward |-> forward,
                    link |-> f[from], n |-> f[f[from]],
                    todo |-> Links_from(l, f, from), visited |-> <<>>]
        /\ UNCHANGED <<type, pointers, length, tainted>>

(* The body may unlink the iterator, as destroyUnusedPools() of buffer.c   *)
(* does, and put it in front of another list, as collectPools() does.      *)
LoopUnlink ==
    /\ Double /\ loop.on /\ loop.link \in Members(loop.list)
    /\ LIST_unlinkDC(loop.list, loop.link)
    /\ UNCHANGED <<type, loop>>

LoopUnshift(l) ==
    /\ Double /\ loop.on /\ loop.link \in Free /\ l # loop.list
    /\ LIST_insertDC(l, l, loop.link)
    /\ UNCHANGED <<type, loop>>

(* link = n, n = LIST_next(link)                                           *)
Advance_late(f) == \* mutant: LIST_foreach(), the successor is read late
    [loop EXCEPT !.link = f[loop.link], !.n = f[f[loop.link]],
                 !.visited = Append(@, loop.link)]

Advance(f) ==
    [loop EXCEPT !.link = loop.n, !.n = f[loop.n],
                 !.visited = Append(@, loop.link)]

LoopNext ==
    /\ loop.on /\ loop.link # loop.list
    /\ loop' = IF loop.forward THEN Advance(next) ELSE Advance(prev)
    /\ UNCHANGED <<type, pointers, length, tainted>>

LoopEnd ==
    /\ loop.on /\ loop.link = loop.list
    /\ loop' = Idle
    /\ UNCHANGED <<type, pointers, length, tainted>>

(* Vectors of different elements.                                          *)
Vectors ==
    UNION {{v \in [1..n -> Links] : \A i, j \in 1..n : v[i] = v[j] => i = j} :
           n \in 0..Cardinality(Links)}

Next ==
    \/ \E l \in Lists :
          \/ LIST_init(l) \/ LIST_length(l) \/ LIST_shift(l) \/ LIST_pop(l)
          \/ \E x \in Links : \/ LIST_unlink(l, x)
                              \/ LIST_push(l, x)
                              \/ LIST_unshift(l, x)
          \/ \E at \in Nodes, x \in Links : LIST_insert(l, at, x)
          \/ \E newList \in Lists, pivot \in Nodes :
                \/ LIST_separateFrom(l, newList, pivot)
                \/ LIST_separateUntil(l, newList, pivot)
          \/ \E src \in Lists : \/ LIST_concatenatePush(l, src)
                                \/ LIST_concatenateUnshift(l, src)
          \/ \E vector \in Vectors : LIST_fromVector(l, vector)
          \/ \E forward \in BOOLEAN, from \in Nodes :
                LIST_foreach(l, forward, from)
    \/ LoopUnlink
    \/ \E l \in Lists : LoopUnshift(l)
    \/ LoopNext
    \/ LoopEnd

Spec == Init /\ [][Next]_vars

-----------------------------------------------------------------------------
(* Pointers point to links and anchors, and lengths are of type size_t.    *)
TypeOK ==
    /\ type \in {"DC", "SC", "coerced"}
    /\ next \in [Nodes -> Nodes]
    /\ prev \in [Nodes -> Nodes]
    /\ last \in [Lists -> Nodes]
    /\ length \in [Lists -> 0..(SizeMod - 1)]
    /\ tainted \in [Lists -> BOOLEAN]
    /\ loop.on \in BOOLEAN

(* Whatever sequence of operations is called, the links of every list form *)
(* a ring through its anchor, read backwards it is the reverse of what is  *)
(* read forwards (for a single linked list: the tail pointer names its     *)
(* last link), and no link is in two lists or twice in one.                *)
RingsIntact ==
    /\ TypeOK
    /\ \A l \in Lists :
          LET s == Content[l]
              n == Len(s)
          IN  /\ n <= Cardinality(Links)
              /\ Double => /\ Len(Ring(prev, l)) = n
                           /\ \A i \in 1..n : Ring(prev, l)[i] = s[n + 1 - i]
              /\ Single => last[l] = (IF n = 0 THEN l ELSE s[n])
              /\ \A i, j \in 1..n : s[i] = s[j] => i = j
    /\ \A l, m \in Lists : l # m => Members(l) \cap Members(m) = {}

(* list->length is the number of links unless the list is tainted, also    *)
(* after it was cut, concatenated and counted again in any order, and only *)
(* lists of a build without _Generic are ever tainted.                     *)
LengthValid ==
    \A l \in Lists : /\ tainted[l] => type = "coerced"
                     /\ ~tainted[l] => length[l] = Len(Content[l])

(* A loop visits every link that the list had when it began once and in    *)
(* order, whichever of them its body unlinks or moves to another list on   *)
(* the way.                                                                *)
LoopVisitsAll ==
    loop.on => /\ Len(loop.visited) <= Len(loop.todo)
               /\ \A i \in 1..Len(loop.visited) :
                     loop.visited[i] = loop.todo[i]
               /\ loop.link = loop.list <=>
                     Len(loop.visited) = Len(loop.todo)

S == INSTANCE ListSpec WITH content <- Content

At(l, x) == IF x = l THEN Len(Content[l]) + 1 ELSE Position(Content[l], x)

(* A step of the lists is the step of ListSpec for the same operation.     *)
ImplementsStep ==
    \/ UNCHANGED Content
    \/ \E l \in Lists :
          \/ LIST_init(l) /\ S!Clear(l)
          \/ LIST_shift(l) /\ S!Shift(l)
          \/ LIST_pop(l) /\ S!Pop(l)
          \/ \E x \in Links :
                \/ LIST_unlink(l, x) /\ S!Unlink(l, At(l, x))
                \/ LIST_push(l, x) /\ S!Push(l, x)
                \/ LIST_unshift(l, x) /\ S!Unshift(l, x)
          \/ \E at \in Nodes, x \in Links :
                LIST_insert(l, at, x) /\ S!Insert(l, At(l, at), x)
          \/ \E k \in Lists, p \in Nodes :
                \/ LIST_separateFrom(l, k, p) /\ S!SeparateFrom(l, k, At(l, p))
                \/ LIST_separateUntil(l, k, p) /\ S!SeparateUntil(l, k, At(l, p))
          \/ \E k \in Lists :
                \/ LIST_concatenatePush(l, k) /\ S!ConcatenatePush(l, k)
                \/ LIST_concatenateUnshift(l, k) /\ S!ConcatenateUnshift(l, k)
          \/ \E vector \in Vectors :
                LIST_fromVector(l, vector) /\ S!FromVector(l, vector)
    \/ LoopUnlink /\ S!Unlink(loop.list, At(loop.list, loop.link))
    \/ \E l \in Lists : LoopUnshift(l) /\ S!Unshift(l, loop.link)

(* Every operation does to the sequences of links that the rings stand for *)
(* what it promises, and touches no other list: the refinement of ListSpec *)
(* operation by operation.                                                 *)
ImplementsSequences == S!Init /\ [][ImplementsStep]_vars
=============================================================================
