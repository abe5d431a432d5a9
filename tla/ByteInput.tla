----------------------------- MODULE ByteInput -----------------------------
(***************************************************************************)
(* A serial device or socket a parser reads from, and the receive buffer   *)
(* both parsers keep (radarcape/rc-parser.c, trimble/trimble_parser.c):    *)
(* bufCur and bufEnd point into the bytes of the last read.                *)
(*                                                                         *)
(* A connection delivers a stream of bytes in pieces that the kernel       *)
(* chooses, and it may fail at any time.  The model numbers the bytes of   *)
(* the connection: bytes 1..cur have been consumed, cur+1..end are in the  *)
(* buffer (bufCur..bufEnd), the others have not been read yet.             *)
(***************************************************************************)
EXTENDS Integers, Sequences, FiniteSetsExt

CONSTANT BufSize  \* sizeof buf

ASSUME InputAssumption == BufSize \in Nat \ {0}

Byte == 0..255

VARIABLES
    stream,   \* what the device sends on this connection
    cur,      \* bufCur
    end       \* bufEnd

inputVars == <<stream, cur, end>>

InputInit ==
    /\ stream = <<>>
    /\ cur = 0
    /\ end = 0

(* RC_INPUT_connect(), TRIMBLE_INPUT_connect(): the old connection is      *)
(* closed, attempts are repeated until one succeeds; then configure(),     *)
(* which fails only to be repeated, and the buffer is reset.               *)
Connect(streams) ==
    /\ stream' \in streams
    /\ cur' = 0
    /\ end' = 0

(* The connection is closed.                                               *)
Disconnect ==
    /\ stream' = <<>>
    /\ cur' = 0
    /\ end' = 0

(* discardAndFill(): read() returns at least one byte, and no more than    *)
(* there is space for.                                                     *)
DiscardAndFill ==
    /\ cur = end
    /\ end' \in (end + 1)..Min({end + BufSize, Len(stream)})
    /\ UNCHANGED <<stream, cur>>

Buffered == SubSeq(stream, cur + 1, end)  \* from bufCur up to bufEnd
Peek == stream[cur + 1]                   \* *bufCur
Consume(n) == cur' = cur + n /\ UNCHANGED <<stream, end>>

(* memchr(bytes, ch, n): the place of ch among the first n, or 0.          *)
Find(bytes, ch, n) ==
    LET found == {i \in 1..n : bytes[i] = ch}
    IN  IF found = {} THEN 0 ELSE Min(found)

InputTypeOK ==
    /\ 0 <= cur /\ cur <= end /\ end <= Len(stream)
    /\ end - cur <= BufSize
=============================================================================
