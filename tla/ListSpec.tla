------------------------------ MODULE ListSpec ------------------------------
(***************************************************************************)
(* What the lists of util/list.h promise: each list is a sequence of links *)
(* and no link is in two places.  One action per operation of the public   *)
(* interface (the LIST_ macros), which all types of lists share.           *)
(***************************************************************************)
EXTENDS Naturals, Sequences, SequencesExt

CONSTANTS
    Links, \* the links that items contain
    Lists  \* the lists

VARIABLE content \* the links of each list, in order

Init == content = [l \in Lists |-> <<>>]

Linked == UNION {ToSet(content[l]) : l \in Lists}

Clear(l) == content' = [content EXCEPT ![l] = <<>>]

(* The new link becomes the i-th one.                                      *)
Insert(l, i, x) ==
    /\ x \notin Linked /\ i \in 1..(Len(content[l]) + 1)
    /\ content' = [content EXCEPT ![l] = InsertAt(@, i, x)]

Push(l, x) == Insert(l, Len(content[l]) + 1, x)
Unshift(l, x) == Insert(l, 1, x)

Unlink(l, i) ==
    /\ i \in 1..Len(content[l])
    /\ content' = [content EXCEPT ![l] = RemoveAt(@, i)]

(* Taking a link from an empty list leaves it empty.                       *)
Shift(l) == IF content[l] = <<>> THEN UNCHANGED content ELSE Unlink(l, 1)
Pop(l) ==
    IF content[l] = <<>> THEN UNCHANGED content ELSE Unlink(l, Len(content[l]))

(* The list is cut before its i-th link; what newList held is forgotten.   *)
SeparateFrom(l, newList, i) ==
    content' = [content EXCEPT
                    ![l] = SubSeq(content[l], 1, i - 1),
                    ![newList] = SubSeq(content[l], i, Len(content[l]))]

SeparateUntil(l, newList, i) ==
    content' = [content EXCEPT
                    ![l] = SubSeq(content[l], i, Len(content[l])),
                    ![newList] = SubSeq(content[l], 1, i - 1)]

ConcatenatePush(dst, src) ==
    content' = [content EXCEPT ![dst] = content[dst] \o content[src],
                               ![src] = <<>>]

ConcatenateUnshift(dst, src) ==
    content' = [content EXCEPT ![dst] = content[src] \o content[dst],
                               ![src] = <<>>]

FromVector(l, vector) ==
    content' = [content EXCEPT ![l] = vector]
=============================================================================
