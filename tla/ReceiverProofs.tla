--------------------------- MODULE ReceiverProofs ---------------------------
(***************************************************************************)
(* Proofs about the receivers of byte streams, for buffers and frames of   *)
(* any size and for any bytes the devices and the server may send: no      *)
(* buffer is too small, the filter lets exactly the wanted frames pass,    *)
(* no position outlives its connection, and the frames, packets and        *)
(* commands that were taken out of a stream are exactly the ones in it.    *)
(*                                                                         *)
(* The reference scanners, CommandsIn and BEAST_encode are recursive       *)
(* functions.  That the functional equation has a solution, and what holds *)
(* along a run of bytes, is shown for the least place where it would fail  *)
(* (LeastElement).                                                         *)
(***************************************************************************)
EXTENDS MCReceivers, WellFoundedInduction, TLAPS

(* The types and InputTypeOK, for bytes s read up to e, consumed up to c.  *)
InputOK(s, c, e) ==
    /\ s \in Seq(Byte) /\ c \in Nat /\ e \in Nat
    /\ 0 <= c /\ c <= e /\ e <= Len(s) /\ e - c <= BufSize

InputInv == InputOK(stream, cur, end)

-----------------------------------------------------------------------------
(* INPUT: the frame in progress.  decode() is between two bytes of it, or  *)
(* behind a SYNC that is already in the raw frame and not in the content.  *)
Filtering == {"status", "filter", "filterMode"}
Frame == [type : Byte, content : Seq(Byte), raw : Seq(Byte)]

FrameOK(pc, t, c, r) ==
    /\ t \in Byte /\ c \in Seq(Byte) /\ r \in Seq(Byte)
    /\ Len(r) <= RawSize
    /\ pc \in {"decode", "decodePeek"} =>
          t \in DOMAIN PayloadLen /\ Len(c) < FrameLen(t)
    /\ pc = "decode" => Len(r) <= 2 + 2 * Len(c)
    /\ pc = "decodePeek" => Len(r) <= 3 + 2 * Len(c)
    /\ pc \in Filtering => t \in DOMAIN PayloadLen /\ Len(c) = FrameLen(t)

FrameInv ==
    /\ rcPc \in Reading \cup Filtering \cup {"connect"}
    /\ FrameOK(rcPc, type, content, raw)
    /\ parsed \in Seq(Frame)
    /\ rcPc \in Filtering => /\ parsed # <<>>
                            /\ parsed[Len(parsed)].type = type
                            /\ parsed[Len(parsed)].content = content

(* RECV and FILTER: Seen frames have passed RecvStatus, Judged ones the    *)
(* whole filter.                                                           *)
Seen == IF rcPc = "status" THEN Len(parsed) - 1 ELSE Len(parsed)
Judged == IF rcPc \in Filtering THEN Len(parsed) - 1 ELSE Len(parsed)
TimeKnown(n) == \E j \in 1..n : GivesTime(j)

FilterInv ==
    /\ isSynchronized \in BOOLEAN /\ filterSync \in BOOLEAN
    /\ commanded \in BOOLEAN /\ syncOff \in BOOLEAN
    /\ modeSFilter \in {"ext", "all"}
    /\ tbTodo \subseteq {"sync", "ext", "reset"}
    /\ committed \subseteq 1..Judged
    /\ rcPc = "connect" => parsed = <<>>
    /\ rcPc # "connect" /\ isSynchronized => TimeKnown(Seen)

(* With the synchronization filter on, also while it decides.              *)
TimeInv ==
    /\ ~syncOff => filterSync
    /\ rcPc = "filterMode" /\ ~syncOff => TimeKnown(Len(parsed))
    /\ ~syncOff => \A i \in committed : TimeKnown(i - 1)

(* As long as TB leaves the filter alone, its state is that of the frames. *)
CommitInv ==
    ~commanded =>
        /\ tbTodo = {}
        /\ rcPc # "connect" =>
              /\ TimeKnown(Seen) => isSynchronized
              /\ rcPc = "filterMode" /\ filterSync => TimeKnown(Len(parsed))
              /\ committed = {i \in 1..Judged : Wanted(i)}

RecvInv == FilterInv /\ TimeInv /\ CommitInv
RcInv == IF rcPc = "off" THEN committed = {} ELSE FrameInv /\ RecvInv

-----------------------------------------------------------------------------
(* TRIMBLE: fix is the last usable position among the first n packets.     *)
UsableIn(n) ==
    {i \in 1..n : IsPosition(packets[i]) /\ Usable(packets[i])}
LastUsable(n) ==
    \/ UsableIn(n) = {} /\ fix = 0
    \/ \E i \in UsableIn(n) : /\ \A j \in UsableIn(n) : j <= i
                              /\ fix = packets[i][9]

TrInv ==
    trPc # "off" =>
        /\ trPc \in TrReading \cup {"connect", "reset", "packet"}
        /\ packet \in Seq(Byte) /\ packets \in Seq(Seq(Byte))
        /\ Len(packet) <= PacketSize
        /\ trPc \in {"decode", "decodePeek"} => Len(packet) < PacketSize
        /\ trPc \in {"connect", "reset"} => packets = <<>>
        /\ trPc = "packet" => /\ packets # <<>>
                              /\ packets[Len(packets)] = packet
                              /\ LastUsable(Len(packets) - 1)
        /\ trPc \in TrReading => LastUsable(Len(packets))

(* TB: what is left in the buffer when more is received is less than a     *)
(* packet.                                                                 *)
CmdInv ==
    tbPc # "off" =>
        /\ tbPc \in {"wait", "packets", "receive"}
        /\ tbBuf \in Seq(Byte) /\ Len(tbBuf) <= TbSize
        /\ tbPc = "receive" => Len(tbBuf) < TbSize

ReceiverInv == InputInv /\ RcInv /\ TrInv /\ CmdInv

-----------------------------------------------------------------------------
(* Operators.                                                              *)

Less == {ss \in Nat \X Nat : ss[1] < ss[2]}

LEMMA LeastElement ==
    ASSUME NEW S, S \subseteq Nat, S # {}
    PROVE  Min(S) \in S /\ \A y \in S : Min(S) <= y
<1>1. IsWellFoundedOn(Less, Nat)
  BY NatLessThanWellFounded DEF OpToRel, Less
<1>2. PICK x \in S : \A y \in S : ~(<<y, x>> \in Less)
  BY <1>1, WFMin
<1>3. ASSUME NEW y \in S, y < x PROVE FALSE
  <2>1. <<y, x>> \in Less
    BY <1>3 DEF Less
  <2> QED
    BY <1>2, <2>1
<1>4. \A y \in S : x <= y
  BY <1>3
<1> QED
  BY <1>4 DEF Min

LEMMA MinOfTwo ==
    ASSUME NEW a \in Int, NEW b \in Int
    PROVE  Min({a, b}) = IF a <= b THEN a ELSE b
<1>1. \E x \in {a, b} : \A y \in {a, b} : x <= y
  OBVIOUS
<1>2. Min({a, b}) \in {a, b} /\ \A y \in {a, b} : Min({a, b}) <= y
  BY <1>1 DEF Min
<1> QED
  BY <1>2

(* memchr() finds the character within the first n bytes, or not at all.   *)
LEMMA FindInRange ==
    ASSUME NEW bytes, NEW ch, NEW n \in Nat
    PROVE  Find(bytes, ch, n) \in 0..n
<1> DEFINE found == {i \in 1..n : bytes[i] = ch}
<1>1. CASE found = {}
  BY <1>1 DEF Find
<1>2. CASE found # {}
  <2>1. Min(found) \in found
    BY <1>2, LeastElement
  <2> QED
    BY <1>2, <2>1 DEF Find
<1> QED
  BY <1>1, <1>2

LEMMA Slice ==
    ASSUME NEW S, NEW s \in Seq(S), NEW a \in Nat, NEW b \in Nat,
           a <= b, b <= Len(s)
    PROVE  /\ SubSeq(s, a + 1, b) \in Seq(S)
           /\ Len(SubSeq(s, a + 1, b)) = b - a
  OBVIOUS

(* The unread bytes of the receive buffer.                                 *)
LEMMA BufferedBytes ==
    ASSUME InputInv
    PROVE  Buffered \in Seq(Byte) /\ Len(Buffered) = end - cur
  BY Slice DEF InputInv, InputOK, Buffered

LEMMA PeekByte ==
    ASSUME InputInv, cur < end
    PROVE  Peek \in Byte
  BY DEF InputInv, InputOK, Peek

LEMMA Prefix ==
    ASSUME NEW S, NEW s \in Seq(S), NEW n \in 0..Len(s)
    PROVE  SubSeq(s, 1, n) \in Seq(S) /\ Len(SubSeq(s, 1, n)) = n
  OBVIOUS

LEMMA Appended ==
    ASSUME NEW S, NEW s \in Seq(S), NEW x \in S
    PROVE  /\ Append(s, x) \in Seq(S) /\ Append(s, x) # <<>>
           /\ Len(Append(s, x)) = Len(s) + 1
           /\ Append(s, x)[Len(Append(s, x))] = x
           /\ \A i \in 1..Len(s) : Append(s, x)[i] = s[i]
  OBVIOUS

LEMMA Joined ==
    ASSUME NEW S, NEW s \in Seq(S), NEW t \in Seq(S)
    PROVE  s \o t \in Seq(S) /\ Len(s \o t) = Len(s) + Len(t)
  OBVIOUS

-----------------------------------------------------------------------------
(* The input.                                                              *)

LEMMA Fill ==
    ASSUME NEW s, NEW c, InputOK(s, c, c),
           NEW e \in (c + 1)..Min({c + BufSize, Len(s)})
    PROVE  InputOK(s, c, e)
<1>1. BufSize \in Nat /\ c \in Nat /\ s \in Seq(Byte)
  BY InputAssumption DEF InputOK
<1>2. Min({c + BufSize, Len(s)}) =
          IF c + BufSize <= Len(s) THEN c + BufSize ELSE Len(s)
  BY <1>1, MinOfTwo
<1>3. e \in Nat /\ e > c /\ e <= c + BufSize /\ e <= Len(s)
  BY <1>1, <1>2
<1> QED
  BY <1>1, <1>3 DEF InputOK

LEMMA FillInput == ASSUME InputInv, DiscardAndFill PROVE InputInv'
  BY Fill DEF InputInv, DiscardAndFill

LEMMA ConsumeInput ==
    ASSUME InputInv, NEW n \in Nat, n <= end - cur, Consume(n)
    PROVE  InputInv'
<1>1. InputOK(stream, cur + n, end)
  BY InputAssumption DEF InputInv, InputOK
<1> QED
  BY <1>1 DEF InputInv, Consume

LEMMA ConnectInput ==
    ASSUME NEW streams, streams \subseteq Seq(Byte), Connect(streams)
    PROVE  InputInv'
<1>1. \A s \in Seq(Byte) : InputOK(s, 0, 0)
  BY InputAssumption DEF InputOK
<1> QED
  BY <1>1 DEF InputInv, Connect

LEMMA DisconnectInput == ASSUME Disconnect PROVE InputInv'
<1>1. InputOK(<<>>, 0, 0)
  BY InputAssumption DEF InputOK
<1> QED
  BY <1>1 DEF InputInv, Disconnect

LEMMA SameInput == ASSUME InputInv, UNCHANGED inputVars PROVE InputInv'
  BY DEF InputInv, inputVars

-----------------------------------------------------------------------------
(* TB.                                                                     *)

LEMMA CmdStep == ASSUME InputInv, CmdInv, CmdNext PROVE InputInv' /\ CmdInv'
<1>0. TbSize \in Nat /\ TbSize >= 4 /\ TbStreams \subseteq Seq(Byte)
  BY CommandsAssumption
<1>1. CASE TbConnected
  BY <1>0, <1>1, ConnectInput DEF TbConnected, CmdInv
<1>2. CASE TbWrongLength
  BY <1>0, <1>2, SameInput DEF TbWrongLength, CmdInv
<1>3. CASE TbPacket
  <2>1. /\ tbBuf \in Seq(Byte) /\ Len(tbBuf) <= TbSize /\ tbPc = "packets"
        /\ Len(tbBuf) >= 4
    BY <1>3 DEF TbPacket, CmdInv, HasHeader, HeaderSize
  <2>2. PICK len \in 4..TbSize : /\ tbBuf' = SubSeq(tbBuf, len + 1, Len(tbBuf))
                                 /\ Len(tbBuf) >= len
    BY <1>3 DEF TbPacket, Sane, HeaderSize, Remaining
  <2>3. tbBuf' \in Seq(Byte) /\ Len(tbBuf') <= TbSize
    BY <1>0, <2>1, <2>2
  <2> QED
    BY <1>3, <2>1, <2>3, SameInput DEF TbPacket, CmdInv
<1>4. CASE TbNeedsMore
  <2>1. tbBuf \in Seq(Byte) /\ Len(tbBuf) <= TbSize
    BY <1>4 DEF TbNeedsMore, CmdInv
  <2>2. Len(tbBuf) < TbSize
    BY <1>0, <1>4, <2>1 DEF TbNeedsMore, HasHeader, HeaderSize, Sane
  <2> QED
    BY <1>4, <2>1, <2>2, SameInput DEF TbNeedsMore, CmdInv
<1>5. CASE TbReceive
  <2>1. PICK e \in (end + 1)..Min({end + TbSize - Len(tbBuf), Len(stream)}) :
            /\ tbBuf' = tbBuf \o SubSeq(stream, end + 1, e)
            /\ end' = e /\ cur' = e
    BY <1>5 DEF TbReceive
  <2>2. /\ tbBuf \in Seq(Byte) /\ Len(tbBuf) \in Nat /\ Len(tbBuf) < TbSize
        /\ stream \in Seq(Byte) /\ end \in Nat
    BY <1>5 DEF TbReceive, CmdInv, InputInv, InputOK
  <2>3. /\ e \in Nat /\ end <= e /\ e <= Len(stream)
        /\ e <= end + TbSize - Len(tbBuf)
    BY <1>0, <2>2, MinOfTwo
  <2>4. /\ tbBuf \o SubSeq(stream, end + 1, e) \in Seq(Byte)
        /\ Len(tbBuf \o SubSeq(stream, end + 1, e)) = Len(tbBuf) + (e - end)
    BY <2>2, <2>3, Slice, Joined
  <2>5. Len(tbBuf \o SubSeq(stream, end + 1, e)) <= TbSize
    BY <1>0, <2>2, <2>3, <2>4
  <2>6. CmdInv'
    BY <1>5, <2>1, <2>4, <2>5 DEF TbReceive, CmdInv
  <2>7. InputOK(stream, e, e)
    BY <2>2, <2>3, InputAssumption DEF InputOK
  <2>8. InputInv'
    BY <1>5, <2>1, <2>7 DEF TbReceive, InputInv
  <2> QED
    BY <2>6, <2>8
<1>6. CASE TbReceiveFails
  BY <1>6, DisconnectInput DEF TbReceiveFails, CmdInv
<1>7. CASE TbFollows
  BY <1>0, <1>7, ConnectInput DEF TbFollows, CmdInv
<1> QED
  BY <1>1, <1>2, <1>3, <1>4, <1>5, <1>6, <1>7 DEF CmdNext

-----------------------------------------------------------------------------
(* TRIMBLE.                                                                *)

(* The parser goes on with a packet p of the same connection.              *)
LEMMA TrParses ==
    ASSUME InputInv, TrInv, NEW from \in TrReading, TrAt(from),
           NEW to \in TrReading, NEW n \in Nat, n <= end - cur, TrStep(to, n),
           NEW p \in Seq(Byte), packet' = p, Len(p) <= PacketSize,
           to \in {"decode", "decodePeek"} => Len(p) < PacketSize
    PROVE  InputInv' /\ TrInv'
<1>1. InputInv'
  BY ConsumeInput DEF TrStep
<1>2. trPc = from /\ trPc' = to /\ UNCHANGED <<fix, packets>>
  BY DEF TrAt, TrStep
<1>3. packets \in Seq(Seq(Byte)) /\ LastUsable(Len(packets))
  BY <1>2 DEF TrInv, TrReading
<1>4. LastUsable(Len(packets))'
  BY <1>2, <1>3 DEF LastUsable, UsableIn
<1>5. TrInv'
  BY <1>2, <1>3, <1>4 DEF TrInv, TrReading
<1> QED
  BY <1>1, <1>5

LEMMA TrStarts ==
    ASSUME InputInv, TrInv, TrConnect \/ TrReset \/ TrFill \/ TrReadFails
    PROVE  InputInv' /\ TrInv'
<1>1. CASE TrConnect
  BY <1>1, ConnectInput, TrimbleAssumption DEF TrConnect, TrInv, TrReading
<1>2. CASE TrReset
  <2>1. packets' = <<>> /\ fix' = 0
    BY <1>2 DEF TrReset, TrInv, GPS_reset
  <2>2. LastUsable(Len(packets))'
    BY <2>1 DEF LastUsable, UsableIn
  <2> QED
    BY <1>2, <2>2, SameInput DEF TrReset, TrInv, TrReading
<1>3. CASE TrFill
  <2>1. UNCHANGED <<trPc, packet, fix, packets>>
    BY <1>3 DEF TrFill, trVars
  <2> QED
    BY <1>3, <2>1, FillInput DEF TrFill, TrInv, LastUsable, UsableIn
<1>4. CASE TrReadFails
  BY <1>4, DisconnectInput, TrimbleAssumption DEF TrReadFails, TrInv, TrReading
<1> QED
  BY <1>1, <1>2, <1>3, <1>4

LEMMA TrSynchronizes ==
    ASSUME InputInv, TrInv,
           TrSync \/ TrSynchronize \/ TrSynchronizePeek \/ TrResync
    PROVE  InputInv' /\ TrInv'
<1> DEFINE bom == Find(Buffered, BOM, end - cur)
<1>1. PICK from \in {"sync", "synchronize", "synchronizePeek", "decodePeek"} :
          TrAt(from)
  BY DEF TrSync, TrSynchronize, TrSynchronizePeek, TrResync
<1>2. cur \in Nat /\ end \in Nat /\ cur < end /\ from \in TrReading /\ trPc = from
  BY <1>1 DEF TrAt, InputInv, InputOK, TrReading
<1>3. bom \in 0..(end - cur)
  BY <1>2, FindInRange
<1>4. PICK to \in {"synchronize", "synchronizePeek", "type"},
           n \in 0..(end - cur) : TrStep(to, n)
  <2>1. CASE TrSync
    BY <1>2, <2>1 DEF TrSync
  <2>2. CASE TrSynchronize
    BY <1>2, <1>3, <2>2 DEF TrSynchronize
  <2>3. CASE TrSynchronizePeek \/ TrResync
    BY <1>2, <2>3 DEF TrSynchronizePeek, TrResync
  <2> QED
    BY <2>1, <2>2, <2>3
<1>5. packet' = packet
  BY DEF TrSync, TrSynchronize, TrSynchronizePeek, TrResync
<1>6. packet \in Seq(Byte) /\ Len(packet) <= PacketSize
  BY <1>2 DEF TrInv, TrReading
<1>7. to \in TrReading /\ n \in Nat /\ n <= end - cur
  BY <1>2, <1>4 DEF TrReading
<1> QED
  BY <1>1, <1>2, <1>4, <1>5, <1>6, <1>7, TrParses

LEMMA TrDecodes ==
    ASSUME InputInv, TrInv, TrType \/ TrDecode \/ TrEscaped
    PROVE  InputInv' /\ TrInv'
<1>0. PacketSize \in Nat /\ PacketSize > 1
  BY TrimbleAssumption
<1>1. CASE TrType
  <2>1. TrAt("type") /\ Peek \in Byte /\ 1 <= end - cur
    BY <1>1, PeekByte DEF TrType, TrAt, InputInv, InputOK
  <2>2. <<Peek>> \in Seq(Byte) /\ Len(<<Peek>>) = 1
    BY <2>1
  <2>3. PICK to \in {"synchronize", "decode"} : TrStep(to, 1)
    BY <1>1 DEF TrType
  <2>4. packet' = <<Peek>>
    BY <1>1 DEF TrType
  <2>5. 1 \in Nat /\ Len(<<Peek>>) < PacketSize /\ Len(<<Peek>>) <= PacketSize
    BY <1>0, <2>2
  <2> QED
    BY <2>1, <2>2, <2>3, <2>4, <2>5, TrParses DEF TrReading
<1>2. CASE TrDecode
  <2> DEFINE mlen == Min({end - cur, SpaceLeft})
             bom == Find(Buffered, BOM, mlen)
             k == IF bom # 0 THEN bom - 1 ELSE mlen
             p == packet \o SubSeq(Buffered, 1, k)
  <2>1. /\ TrAt("decode") /\ end - cur \in Nat /\ end - cur > 0
        /\ packet \in Seq(Byte) /\ Len(packet) \in Nat
        /\ Len(packet) < PacketSize
    BY <1>2 DEF TrDecode, TrAt, InputInv, InputOK, TrInv
  <2>2. SpaceLeft \in Nat /\ SpaceLeft = PacketSize - Len(packet)
    BY <1>0, <2>1 DEF SpaceLeft
  <2>3. mlen \in Nat /\ mlen <= end - cur /\ mlen <= SpaceLeft
    BY <2>1, <2>2, MinOfTwo
  <2>4. bom \in 0..mlen
    BY <2>3, FindInRange
  <2>5. Buffered \in Seq(Byte) /\ Len(Buffered) = end - cur
    BY BufferedBytes
  <2>6. k \in 0..mlen /\ k \in 0..Len(Buffered)
    BY <2>1, <2>3, <2>4, <2>5
  <2>7. p \in Seq(Byte) /\ Len(p) = Len(packet) + k
    <3>1. /\ SubSeq(Buffered, 1, k) \in Seq(Byte)
          /\ Len(SubSeq(Buffered, 1, k)) = k
      BY <2>5, <2>6, Prefix
    <3> HIDE DEF k
    <3> QED
      BY <2>1, <3>1, Joined
  <2>8. packet' = p
    BY <1>2 DEF TrDecode
  <2>9. CASE bom # 0
    <3>1. TrStep("decodePeek", bom)
      BY <1>2, <2>9 DEF TrDecode
    <3>2. Len(p) < PacketSize /\ bom \in Nat /\ bom <= end - cur
      BY <1>0, <2>1, <2>2, <2>3, <2>4, <2>7, <2>9
    <3> HIDE DEF p, bom
    <3> QED
      BY <1>0, <2>1, <2>7, <2>8, <3>1, <3>2, TrParses DEF TrReading
  <2>10. CASE bom = 0
    <3>1. TrStep(AfterCopying(mlen), mlen)
      BY <1>2, <2>10 DEF TrDecode
    <3>2. /\ AfterCopying(mlen) \in {"synchronize", "decode"}
          /\ AfterCopying(mlen) = "decode" => Len(p) < PacketSize
          /\ Len(p) <= PacketSize
      BY <1>0, <2>1, <2>2, <2>3, <2>7, <2>10 DEF AfterCopying
    <3> HIDE DEF p, mlen
    <3> QED
      BY <1>0, <2>1, <2>3, <2>7, <2>8, <3>1, <3>2, TrParses DEF TrReading
  <2> QED
    BY <2>9, <2>10
<1>3. CASE TrEscaped
  <2>1. /\ TrAt("decodePeek") /\ 1 <= end - cur
        /\ packet \in Seq(Byte) /\ Len(packet) \in Nat
        /\ Len(packet) < PacketSize
    BY <1>3 DEF TrEscaped, TrAt, InputInv, InputOK, TrInv
  <2>2. /\ Append(packet, BOM) \in Seq(Byte)
        /\ Len(Append(packet, BOM)) = Len(packet) + 1
    BY <2>1 DEF BOM, Byte
  <2>3. TrStep(AfterCopying(1), 1) /\ packet' = Append(packet, BOM)
    BY <1>3 DEF TrEscaped
  <2>4. /\ AfterCopying(1) \in {"synchronize", "decode"}
        /\ AfterCopying(1) = "decode" => Len(Append(packet, BOM)) < PacketSize
        /\ Len(Append(packet, BOM)) <= PacketSize
    BY <1>0, <2>1, <2>2 DEF AfterCopying, SpaceLeft
  <2> QED
    BY <2>1, <2>2, <2>3, <2>4, TrParses DEF TrReading
<1> QED
  BY <1>1, <1>2, <1>3

(* A complete packet, and what posFrame() makes of it.                     *)
LEMMA TrEnds == ASSUME InputInv, TrInv, TrEnd PROVE InputInv' /\ TrInv'
<1>1. /\ trPc = "decodePeek" /\ trPc' = "packet" /\ Consume(1)
      /\ packets' = Append(packets, packet) /\ packet' = packet /\ fix' = fix
      /\ packet \in Seq(Byte) /\ packets \in Seq(Seq(Byte))
      /\ 1 <= end - cur /\ Len(packet) <= PacketSize
      /\ LastUsable(Len(packets))
  BY DEF TrEnd, TrAt, TrInv, TrReading, InputInv, InputOK
<1>2. InputInv'
  BY <1>1, ConsumeInput
<1> DEFINE q == Append(packets, packet)
<1>3. /\ q \in Seq(Seq(Byte)) /\ q # <<>> /\ Len(q) = Len(packets) + 1
      /\ q[Len(q)] = packet /\ \A i \in 1..Len(packets) : q[i] = packets[i]
  BY <1>1, Appended
<1>4. Len(q) - 1 = Len(packets)
  BY <1>1, <1>3
<1> HIDE DEF q
<1>5. LastUsable(Len(packets) - 1)'
  BY <1>1, <1>3, <1>4 DEF LastUsable, UsableIn, q
<1> QED
  BY <1>1, <1>2, <1>3, <1>5 DEF TrInv, TrReading, q

LEMMA TrTakes == ASSUME InputInv, TrInv, TrPacket PROVE InputInv' /\ TrInv'
<1> DEFINE n == Len(packets)
           usable == IsPosition(packet) /\ Usable(packet)
<1>1. /\ trPc = "packet" /\ trPc' = "sync"
      /\ UNCHANGED <<inputVars, packet, packets>>
      /\ fix' = IF usable THEN packet[9] ELSE fix
  BY DEF TrPacket
<1>2. /\ packet \in Seq(Byte) /\ packets \in Seq(Seq(Byte))
      /\ Len(packet) <= PacketSize
      /\ n \in Nat /\ n >= 1 /\ packets[n] = packet /\ LastUsable(n - 1)
  BY <1>1 DEF TrInv, TrReading
<1>3. UsableIn(n) = UsableIn(n - 1) \cup (IF usable THEN {n} ELSE {})
  BY <1>2 DEF UsableIn
<1>4. LastUsable(n)'
  <2>1. UsableIn(n)' = UsableIn(n)
    BY <1>1 DEF UsableIn
  <2>2. CASE usable
    <3>1. n \in UsableIn(n) /\ \A j \in UsableIn(n) : j <= n
      BY <1>2, <2>2 DEF UsableIn
    <3> QED
      BY <1>1, <1>2, <2>1, <2>2, <3>1 DEF LastUsable
  <2>3. CASE ~usable
    BY <1>1, <1>2, <1>3, <2>1, <2>3 DEF LastUsable
  <2> QED
    BY <2>2, <2>3
<1> QED
  BY <1>1, <1>2, <1>4, SameInput DEF TrInv, TrReading

LEMMA TrNextStep == ASSUME InputInv, TrInv, TrNext PROVE InputInv' /\ TrInv'
  BY TrStarts, TrSynchronizes, TrDecodes, TrEnds, TrTakes DEF TrNext

-----------------------------------------------------------------------------
(* RADARCAPE: the frames that were parsed before keep their numbers.       *)

LEMMA SameTime ==
    ASSUME NEW n \in Nat, \A i \in 1..n : parsed'[i] = parsed[i],
           NEW k \in Int, k <= n
    PROVE  TimeKnown(k)' <=> TimeKnown(k)
  BY DEF TimeKnown, GivesTime

LEMMA SameWanted ==
    ASSUME NEW n \in Nat, \A i \in 1..n : parsed'[i] = parsed[i],
           UNCHANGED <<modeSFilter, filterSync>>, NEW k \in 1..n
    PROVE  Wanted(k)' <=> Wanted(k)
<1>1. TimeKnown(k - 1)' <=> TimeKnown(k - 1)
  BY SameTime
<1>2. parsed'[k] = parsed[k]
  OBVIOUS
<1> QED
  BY <1>1, <1>2 DEF Wanted, TimeKnown

LEMMA Numbers ==
    ASSUME FrameInv
    PROVE  /\ Len(parsed) \in Nat /\ Seen \in Nat /\ Judged \in Nat
           /\ Judged <= Seen /\ Seen <= Len(parsed)
  BY DEF FrameInv, Seen, Judged, Filtering

(* Steps of the parser, also those that complete a frame.                  *)
LEMMA ParserKeepsFilter ==
    ASSUME FrameInv, RecvInv, UNCHANGED <<filterVars, tbVars, committed>>,
           rcPc \notin {"connect", "filterMode"},
           rcPc' \notin {"connect", "filterMode"},
           Seen' = Seen, Judged' = Judged,
           \A i \in 1..Len(parsed) : parsed'[i] = parsed[i]
    PROVE  RecvInv'
<1>1. /\ Len(parsed) \in Nat /\ Seen \in Nat /\ Judged \in Nat
      /\ Judged <= Seen /\ Seen <= Len(parsed)
  BY Numbers
<1>2. UNCHANGED <<isSynchronized, filterSync, modeSFilter, tbTodo, commanded,
                  syncOff, committed>>
  BY DEF filterVars, tbVars
<1>3. TimeKnown(Seen)' <=> TimeKnown(Seen)
  <2>1. \A k \in Int : k <= Len(parsed) => (TimeKnown(k)' <=> TimeKnown(k))
    BY <1>1, SameTime
  <2> QED
    BY <1>1, <2>1 DEF TimeKnown
<1>4. FilterInv'
  BY <1>2, <1>3 DEF RecvInv, FilterInv
<1>5. TimeInv'
  <2>1. ASSUME NEW i \in committed PROVE TimeKnown(i - 1)' <=> TimeKnown(i - 1)
    <3>1. i \in 1..Judged
      BY DEF RecvInv, FilterInv
    <3>2. i - 1 \in Int /\ i - 1 <= Len(parsed)
      BY <1>1, <3>1
    <3> QED
      BY <1>1, <3>2, SameTime
  <2> QED
    BY <1>2, <2>1 DEF RecvInv, TimeInv
<1>6. CommitInv'
  <2>1. ASSUME NEW k \in 1..Judged PROVE Wanted(k)' <=> Wanted(k)
    <3>1. k \in 1..Len(parsed)
      BY <1>1
    <3> QED
      BY <1>1, <1>2, <3>1, SameWanted
  <2>2. {i \in 1..Judged : Wanted(i)}' = {i \in 1..Judged : Wanted(i)}
    BY <2>1
  <2> QED
    BY <1>2, <1>3, <2>2 DEF RecvInv, CommitInv
<1> QED
  BY <1>4, <1>5, <1>6 DEF RecvInv

(* The parser goes on within or between frames.                            *)
LEMMA RcParses ==
    ASSUME InputInv, FrameInv, RecvInv, NEW from \in Reading, At(from),
           NEW to \in Reading, NEW n \in Nat, n <= end - cur, Step(to, n),
           FrameOK(to, type', content', raw'), UNCHANGED parsed
    PROVE  InputInv' /\ FrameInv' /\ RecvInv'
<1>1. InputInv'
  BY ConsumeInput DEF Step
<1>2. rcPc = from /\ rcPc' = to /\ UNCHANGED <<filterVars, tbVars, committed>>
  BY DEF At, Step
<1>3. FrameInv'
  BY <1>2 DEF FrameInv, Reading, Filtering
<1>4. Seen' = Seen /\ Judged' = Judged
  BY <1>2 DEF Seen, Judged, Reading, Filtering
<1>5. RecvInv'
  BY <1>2, <1>4, ParserKeepsFilter DEF Reading
<1> QED
  BY <1>1, <1>3, <1>5

(* FrameOK asks least where no frame is decoded.                           *)
LEMMA Relaxed ==
    ASSUME NEW pc, NEW t, NEW c, NEW r, FrameOK(pc, t, c, r),
           NEW to \in {"sync", "synchronize", "synchronizePeek", "type", "connect"}
    PROVE  FrameOK(to, t, c, r)
  BY DEF FrameOK, Filtering

LEMMA RcSynchronizes ==
    ASSUME InputInv, FrameInv, RecvInv,
           \/ RcSync \/ RcSynchronize \/ RcSynchronizePeek \/ RcUnknownType
           \/ RcResync
    PROVE  InputInv' /\ FrameInv' /\ RecvInv'
<1> DEFINE sync == Find(Buffered, BEAST_SYNC, end - cur)
<1>1. PICK from \in {"sync", "synchronize", "synchronizePeek", "type",
                     "decodePeek"} : At(from)
  BY DEF RcSync, RcSynchronize, RcSynchronizePeek, RcUnknownType, RcResync
<1>2. cur \in Nat /\ end \in Nat /\ cur < end /\ from \in Reading /\ rcPc = from
  BY <1>1 DEF At, InputInv, InputOK, Reading
<1>3. sync \in 0..(end - cur)
  BY <1>2, FindInRange
<1>4. PICK to \in {"synchronize", "synchronizePeek", "type"},
           n \in 0..(end - cur) : Step(to, n)
  <2>1. CASE RcSync \/ RcUnknownType
    BY <1>2, <2>1 DEF RcSync, RcUnknownType
  <2>2. CASE RcSynchronize
    BY <1>2, <1>3, <2>2 DEF RcSynchronize
  <2>3. CASE RcSynchronizePeek \/ RcResync
    BY <1>2, <2>3 DEF RcSynchronizePeek, RcResync
  <2> QED
    BY <2>1, <2>2, <2>3
<1>5. UNCHANGED <<type, content, raw, parsed>>
  BY DEF RcSync, RcSynchronize, RcSynchronizePeek, RcUnknownType, RcResync,
         frameVars
<1>6. FrameOK(to, type, content, raw)
  BY <1>4, Relaxed DEF FrameInv
<1>7. to \in Reading /\ n \in Nat /\ n <= end - cur
  BY <1>2, <1>4 DEF Reading
<1> QED
  BY <1>1, <1>2, <1>4, <1>5, <1>6, <1>7, RcParses

LEMMA RcTypes ==
    ASSUME InputInv, FrameInv, RecvInv, RcType
    PROVE  InputInv' /\ FrameInv' /\ RecvInv'
<1>1. /\ At("type") /\ Step("decode", 1) /\ UNCHANGED parsed
      /\ Peek \in DOMAIN PayloadLen /\ type' = Peek
      /\ content' = <<>> /\ raw' = <<BEAST_SYNC, Peek>>
  BY DEF RcType
<1>2. Peek \in Byte /\ 1 <= end - cur
  BY <1>1, PeekByte DEF At, InputInv, InputOK
<1>3. /\ <<BEAST_SYNC, Peek>> \in Seq(Byte) /\ Len(<<BEAST_SYNC, Peek>>) = 2
      /\ <<>> \in Seq(Byte) /\ Len(<<>>) = 0
  BY <1>2 DEF BEAST_SYNC, Byte
<1>4. /\ HeaderLen \in Nat /\ HeaderLen >= 2 /\ PayloadLen[Peek] \in Nat
      /\ 2 + 2 * (HeaderLen + PayloadLen[Peek]) <= RawSize /\ RawSize \in Nat
  BY <1>1, RadarcapeAssumption
<1>5. FrameOK("decode", Peek, <<>>, <<BEAST_SYNC, Peek>>)
  <2>1. 0 < FrameLen(Peek) /\ 2 <= RawSize /\ 2 <= 2 + 2 * 0
    BY <1>4 DEF FrameLen
  <2> QED
    BY <1>1, <1>2, <1>3, <2>1 DEF FrameOK, Filtering
<1> QED
  BY <1>1, <1>2, <1>5, RcParses DEF Reading

(* decode() took the bytes more out of the bytes wire; possibly that       *)
(* completes the frame.                                                    *)
LEMMA RcContinues ==
    ASSUME InputInv, FrameInv, RecvInv,
           NEW from \in {"decode", "decodePeek"}, At(from),
           NEW to \in {"decode", "decodePeek", "status"},
           NEW n \in Nat, n <= end - cur, Step(to, n),
           NEW more, NEW wire, Decoded(more, wire),
           FrameOK(to, type, content \o more, raw \o wire),
           to = "status" <=> Len(content \o more) = FrameLen(type)
    PROVE  InputInv' /\ FrameInv' /\ RecvInv'
<1> DEFINE c == content \o more
           r == raw \o wire
           f == [type |-> type, content |-> c, raw |-> r]
<1>1. content' = c /\ raw' = r /\ type' = type
  BY DEF Decoded
<1> HIDE DEF c, r
<1>2. CASE to # "status"
  <2>1. UNCHANGED parsed
    BY <1>1, <1>2 DEF Decoded, c
  <2>2. from \in Reading /\ to \in Reading
    BY <1>2 DEF Reading
  <2>3. FrameOK(to, type', content', raw')
    BY <1>1 DEF c, r
  <2> QED
    BY <2>1, <2>2, <2>3, RcParses
<1>3. CASE to = "status"
  <2>1. parsed' = Append(parsed, f)
    BY <1>1, <1>3 DEF Decoded, c
  <2>2. FrameOK(to, type, c, r)
    BY DEF c, r
  <2>3. f \in Frame
    BY <2>2 DEF FrameOK, Frame
  <2>4. parsed \in Seq(Frame)
    BY DEF FrameInv
  <2> DEFINE q == Append(parsed, f)
  <2>5. /\ q \in Seq(Frame) /\ q # <<>> /\ Len(q) = Len(parsed) + 1
        /\ q[Len(q)] = f
        /\ \A i \in 1..Len(parsed) : q[i] = parsed[i]
    BY <2>3, <2>4, Appended
  <2>6. Len(q) - 1 = Len(parsed)
    BY <2>4, <2>5
  <2>7. f.type = type /\ f.content = c
    OBVIOUS
  <2> HIDE DEF q, f
  <2>8. /\ rcPc = from /\ rcPc' = "status" /\ parsed' = q
        /\ UNCHANGED <<filterVars, tbVars, committed>>
    BY <1>3, <2>1 DEF At, Step, q
  <2>9. FrameInv'
    BY <1>1, <1>3, <2>2, <2>5, <2>7, <2>8 DEF FrameInv, Filtering
  <2>10. Seen' = Seen /\ Judged' = Judged
    BY <2>6, <2>8 DEF Seen, Judged, Filtering
  <2>11. RecvInv'
    BY <2>5, <2>8, <2>10, ParserKeepsFilter
  <2>12. InputInv'
    BY ConsumeInput DEF Step
  <2> QED
    BY <2>9, <2>11, <2>12
<1> QED
  BY <1>2, <1>3

(* What decode() may copy: the rest of the header or of the payload.       *)
LEMMA PartOfFrame ==
    ASSUME FrameInv, rcPc \in {"decode", "decodePeek"}
    PROVE  /\ type \in DOMAIN PayloadLen /\ type \in Byte
           /\ FrameLen(type) \in Nat /\ 2 + 2 * FrameLen(type) <= RawSize
           /\ RawSize \in Nat
           /\ content \in Seq(Byte) /\ raw \in Seq(Byte)
           /\ Len(content) \in Nat /\ Len(raw) \in Nat
           /\ Len(content) < FrameLen(type)
           /\ PartLeft \in Nat \ {0} /\ PartLeft <= FrameLen(type) - Len(content)
<1>1. /\ type \in DOMAIN PayloadLen /\ type \in Byte
      /\ content \in Seq(Byte) /\ raw \in Seq(Byte)
      /\ Len(content) \in Nat /\ Len(raw) \in Nat
      /\ Len(content) < FrameLen(type)
  BY DEF FrameInv, FrameOK
<1>2. /\ HeaderLen \in Nat /\ PayloadLen[type] \in Nat \ {0} /\ RawSize \in Nat
      /\ 2 + 2 * (HeaderLen + PayloadLen[type]) <= RawSize
  BY <1>1, RadarcapeAssumption
<1>3. FrameLen(type) = HeaderLen + PayloadLen[type]
  BY DEF FrameLen
<1>4. PartLeft \in Nat \ {0} /\ PartLeft <= FrameLen(type) - Len(content)
  BY <1>1, <1>2, <1>3 DEF PartLeft
<1> QED
  BY <1>1, <1>2, <1>3, <1>4

LEMMA RcDecodes ==
    ASSUME InputInv, FrameInv, RecvInv, RcDecode
    PROVE  InputInv' /\ FrameInv' /\ RecvInv'
<1> DEFINE mlen == Min({end - cur, PartLeft})
           sync == Find(Buffered, BEAST_SYNC, mlen)
           k == IF sync # 0 THEN sync - 1 ELSE mlen
           more == SubSeq(Buffered, 1, k)
           wire == Append(more, BEAST_SYNC)
<1>1. /\ At("decode") /\ rcPc = "decode" /\ end - cur \in Nat /\ end - cur > 0
  BY DEF RcDecode, At, InputInv, InputOK
<1>2. /\ type \in DOMAIN PayloadLen /\ type \in Byte
      /\ FrameLen(type) \in Nat /\ 2 + 2 * FrameLen(type) <= RawSize
      /\ RawSize \in Nat
      /\ content \in Seq(Byte) /\ raw \in Seq(Byte)
      /\ Len(content) \in Nat /\ Len(raw) \in Nat
      /\ Len(content) < FrameLen(type)
      /\ PartLeft \in Nat \ {0} /\ PartLeft <= FrameLen(type) - Len(content)
  BY <1>1, PartOfFrame
<1>3. Len(raw) <= 2 + 2 * Len(content)
  BY <1>1 DEF FrameInv, FrameOK
<1>4. mlen \in Nat /\ mlen <= end - cur /\ mlen <= PartLeft
  BY <1>1, <1>2, MinOfTwo, SMTT(30)
<1>5. sync \in 0..mlen
  BY <1>4, FindInRange
<1>6. Buffered \in Seq(Byte) /\ Len(Buffered) = end - cur
  BY BufferedBytes
<1>7. k \in Nat /\ k \in 0..mlen /\ k \in 0..Len(Buffered)
  BY <1>1, <1>4, <1>5, <1>6
<1>8. more \in Seq(Byte) /\ Len(more) = k
  BY <1>6, <1>7, Prefix
<1>9. IF sync # 0
      THEN Step("decodePeek", sync) /\ Decoded(more, wire)
      ELSE Step(AfterDecoding(more), mlen) /\ Decoded(more, more)
  BY DEF RcDecode
<1>10. BEAST_SYNC \in Byte
  BY DEF BEAST_SYNC, Byte
<1>11. sync # 0 => k + 1 = sync
  BY <1>4, <1>5
<1>12. sync = 0 => k = mlen
  OBVIOUS
<1> HIDE DEF mlen, sync, k, more
<1>13. /\ content \o more \in Seq(Byte)
       /\ Len(content \o more) = Len(content) + k
  BY <1>2, <1>8, Joined
<1>14. CASE sync # 0
  <2>1. wire \in Seq(Byte) /\ Len(wire) = k + 1
    BY <1>8, <1>10, Appended
  <2> HIDE DEF wire
  <2>2. raw \o wire \in Seq(Byte) /\ Len(raw \o wire) = Len(raw) + (k + 1)
    BY <1>2, <2>1, Joined
  <2>3. Len(content) + k < FrameLen(type)
    BY <1>2, <1>4, <1>5, <1>7, <1>11, <1>14
  <2>4. /\ Len(raw) + (k + 1) <= 3 + 2 * (Len(content) + k)
        /\ Len(raw) + (k + 1) <= RawSize
    BY <1>2, <1>3, <1>7, <2>3
  <2>5. FrameOK("decodePeek", type, content \o more, raw \o wire)
    BY <1>2, <1>13, <2>2, <2>3, <2>4 DEF FrameOK, Filtering
  <2>6. Len(content \o more) # FrameLen(type)
    BY <1>2, <1>7, <1>13, <2>3
  <2>7. sync \in Nat /\ sync <= end - cur
    BY <1>1, <1>4, <1>5
  <2> QED
    BY <1>1, <1>9, <1>14, <2>5, <2>6, <2>7, RcContinues
<1>15. CASE sync = 0
  <2>1. raw \o more \in Seq(Byte) /\ Len(raw \o more) = Len(raw) + k
    BY <1>2, <1>8, Joined
  <2>2. Len(content) + k <= FrameLen(type)
    BY <1>2, <1>4, <1>7
  <2>3. /\ Len(raw) + k <= 2 + 2 * (Len(content) + k)
        /\ Len(raw) + k <= RawSize
    BY <1>2, <1>3, <1>7, <2>2
  <2>4. /\ AfterDecoding(more) \in {"decode", "status"}
        /\ AfterDecoding(more) = "status" <=>
              Len(content \o more) = FrameLen(type)
    BY <1>8, <1>13 DEF AfterDecoding
  <2>5. FrameOK(AfterDecoding(more), type, content \o more, raw \o more)
    <3>1. CASE AfterDecoding(more) = "status"
      BY <1>2, <1>13, <2>1, <2>3, <2>4, <3>1 DEF FrameOK, Filtering
    <3>2. CASE AfterDecoding(more) = "decode"
      <4>1. Len(content \o more) < FrameLen(type)
        <5>1. Len(content) + k # FrameLen(type)
          BY <1>13, <2>4, <3>2
        <5> QED
          BY <1>2, <1>7, <1>13, <2>2, <5>1
      <4> QED
        BY <1>2, <1>13, <2>1, <2>3, <3>2, <4>1 DEF FrameOK, Filtering
    <3> QED
      BY <2>4, <3>1, <3>2
  <2> QED
    BY <1>1, <1>4, <1>9, <1>15, <2>4, <2>5, RcContinues
<1> QED
  BY <1>14, <1>15

LEMMA RcEscapes ==
    ASSUME InputInv, FrameInv, RecvInv, RcEscaped
    PROVE  InputInv' /\ FrameInv' /\ RecvInv'
<1> DEFINE more == <<BEAST_SYNC>>
           to == AfterDecoding(more)
<1>1. /\ At("decodePeek") /\ rcPc = "decodePeek" /\ 1 <= end - cur
      /\ Step(to, 1) /\ Decoded(more, more)
  BY DEF RcEscaped, At, InputInv, InputOK
<1>2. /\ type \in DOMAIN PayloadLen /\ type \in Byte
      /\ FrameLen(type) \in Nat /\ 2 + 2 * FrameLen(type) <= RawSize
      /\ RawSize \in Nat
      /\ content \in Seq(Byte) /\ raw \in Seq(Byte)
      /\ Len(content) \in Nat /\ Len(raw) \in Nat
      /\ Len(content) < FrameLen(type)
  BY <1>1, PartOfFrame
<1>3. Len(raw) <= 3 + 2 * Len(content)
  BY <1>1 DEF FrameInv, FrameOK
<1>4. more \in Seq(Byte) /\ Len(more) = 1
  BY DEF BEAST_SYNC, Byte
<1> HIDE DEF more
<1>5. /\ content \o more \in Seq(Byte) /\ raw \o more \in Seq(Byte)
      /\ Len(content \o more) = Len(content) + 1
      /\ Len(raw \o more) = Len(raw) + 1
  BY <1>2, <1>4, Joined
<1>6. /\ Len(raw) + 1 <= 2 + 2 * (Len(content) + 1)
      /\ Len(raw) + 1 <= RawSize
      /\ Len(content) + 1 <= FrameLen(type)
  BY <1>2, <1>3
<1>7. /\ to \in {"decode", "status"}
      /\ to = "status" <=> Len(content \o more) = FrameLen(type)
  BY <1>4, <1>5 DEF AfterDecoding
<1> HIDE DEF to
<1>8. FrameOK(to, type, content \o more, raw \o more)
  <2>1. CASE to = "status"
    BY <1>2, <1>5, <1>6, <1>7, <2>1 DEF FrameOK, Filtering
  <2>2. CASE to = "decode"
    <3>1. Len(content \o more) < FrameLen(type)
      BY <1>2, <1>5, <1>6, <1>7, <2>2
    <3> QED
      BY <1>2, <1>5, <1>6, <2>2, <3>1 DEF FrameOK, Filtering
  <2> QED
    BY <1>7, <2>1, <2>2
<1> QED
  BY <1>1, <1>7, <1>8, RcContinues

LEMMA RcConnects ==
    ASSUME InputInv, FrameInv, RecvInv, RcConnect
    PROVE  InputInv' /\ FrameInv' /\ RecvInv'
<1>1. InputInv'
  BY ConnectInput, RadarcapeAssumption DEF RcConnect
<1>2. /\ rcPc = "connect" /\ rcPc' = "sync" /\ isSynchronized' = FALSE
      /\ UNCHANGED <<type, content, raw, filterSync, modeSFilter, tbTodo,
                     parsed, committed>>
      /\ commanded' = (tbTodo # {}) /\ syncOff' = ~filterSync
  BY DEF RcConnect, ResetUponConnect, frameVars
<1>3. parsed = <<>> /\ committed = {}
  BY <1>2 DEF RecvInv, FilterInv, Judged, Filtering
<1>4. FrameInv'
  BY <1>2, Relaxed DEF FrameInv, Reading, Filtering
<1>5. Seen' = 0 /\ Judged' = 0
  BY <1>2, <1>3 DEF Seen, Judged, Filtering
<1>6. FilterInv'
  <2>1. (tbTodo # {}) \in BOOLEAN /\ (~filterSync) \in BOOLEAN
    OBVIOUS
  <2> QED
    BY <1>2, <1>3, <2>1 DEF RecvInv, FilterInv
<1>7. TimeInv'
  BY <1>2, <1>3 DEF RecvInv, FilterInv, TimeInv
<1>8. ~TimeKnown(Seen)' /\ {i \in 1..Judged : Wanted(i)}' = {}
  BY <1>5 DEF TimeKnown
<1>9. CommitInv'
  BY <1>2, <1>3, <1>8 DEF CommitInv
<1> QED
  BY <1>1, <1>4, <1>6, <1>7, <1>9 DEF RecvInv

LEMMA RcFills ==
    ASSUME InputInv, FrameInv, RecvInv, RcFill
    PROVE  InputInv' /\ FrameInv' /\ RecvInv'
<1>1. InputInv'
  BY FillInput DEF RcFill
<1>2. /\ rcPc \in Reading
      /\ UNCHANGED <<rcPc, type, content, raw, parsed, filterVars, tbVars,
                     committed>>
  BY DEF RcFill, rcVars, frameVars
<1>3. FrameInv'
  BY <1>2 DEF FrameInv
<1>4. Seen' = Seen /\ Judged' = Judged
  BY <1>2 DEF Seen, Judged
<1>5. RecvInv'
  BY <1>2, <1>4, ParserKeepsFilter DEF Reading
<1> QED
  BY <1>1, <1>3, <1>5

LEMMA RcFails ==
    ASSUME InputInv, FrameInv, RecvInv, RcReadFails
    PROVE  InputInv' /\ FrameInv' /\ RecvInv'
<1>1. InputInv'
  BY DisconnectInput DEF RcReadFails
<1>2. /\ rcPc' = "connect" /\ type' = 0 /\ content' = <<>> /\ raw' = <<>>
      /\ parsed' = <<>> /\ committed' = {}
      /\ UNCHANGED <<isSynchronized, filterSync, modeSFilter, tbTodo,
                     commanded, syncOff>>
  BY DEF RcReadFails, filterVars, tbVars
<1>3. FrameOK("connect", 0, <<>>, <<>>)
  BY RadarcapeAssumption DEF FrameOK, Filtering, Byte
<1>4. FrameInv'
  BY <1>2, <1>3 DEF FrameInv, Filtering
<1>5. RecvInv'
  BY <1>2 DEF RecvInv, FilterInv, TimeInv, CommitInv
<1> QED
  BY <1>1, <1>4, <1>5

(* One more frame.                                                         *)
LEMMA OneMore ==
    ASSUME NEW n \in Nat, n >= 1
    PROVE  TimeKnown(n) <=> TimeKnown(n - 1) \/ GivesTime(n)
  BY DEF TimeKnown

LEMMA LastFrame ==
    ASSUME FrameInv, rcPc \in Filtering
    PROVE  /\ Len(parsed) \in Nat /\ Len(parsed) >= 1
           /\ parsed[Len(parsed)].type = type
           /\ parsed[Len(parsed)].content = content
           /\ type \in DOMAIN PayloadLen /\ content \in Seq(Byte)
           /\ Len(content) = FrameLen(type)
           /\ Judged = Len(parsed) - 1
  BY DEF FrameInv, FrameOK, Judged

LEMMA RecvSeesStatus ==
    ASSUME InputInv, FrameInv, RecvInv, RecvStatus
    PROVE  InputInv' /\ FrameInv' /\ RecvInv'
<1> DEFINE n == Len(parsed)
<1>1. /\ rcPc = "status" /\ rcPc' = "filter"
      /\ UNCHANGED <<inputVars, type, content, raw, filterSync, modeSFilter,
                     tbTodo, commanded, syncOff, parsed, committed>>
      /\ isSynchronized' = (isSynchronized \/ SynchronizedBy(type, content))
  BY DEF RecvStatus, frameVars, tbVars
<1>2. /\ n \in Nat /\ n >= 1 /\ parsed[n].type = type
      /\ parsed[n].content = content /\ Judged = n - 1
  BY <1>1, LastFrame DEF Filtering
<1>3. FrameInv'
  BY <1>1 DEF FrameInv, FrameOK, Filtering
<1>4. Seen = n - 1 /\ Seen' = n /\ Judged' = Judged
  BY <1>1 DEF Seen, Judged, Filtering
<1>5. GivesTime(n) <=> SynchronizedBy(type, content)
  BY <1>2 DEF GivesTime, SynchronizedBy
<1>6. TimeKnown(n) <=> TimeKnown(n - 1) \/ SynchronizedBy(type, content)
  BY <1>2, <1>5, OneMore
<1>7. \A k : TimeKnown(k)' <=> TimeKnown(k)
  BY <1>1 DEF TimeKnown, GivesTime
<1>8. TimeKnown(Seen)' <=> TimeKnown(n)
  BY <1>1, <1>4 DEF TimeKnown, GivesTime
<1>9. SynchronizedBy(type, content) \in BOOLEAN
  BY DEF SynchronizedBy
<1>10. FilterInv'
  BY <1>1, <1>4, <1>6, <1>8, <1>9 DEF RecvInv, FilterInv
<1>11. TimeInv'
  BY <1>1, <1>7 DEF RecvInv, TimeInv
<1>12. CommitInv'
  <2>1. {i \in 1..Judged : Wanted(i)}' = {i \in 1..Judged : Wanted(i)}
    BY <1>1, <1>4 DEF Wanted, GivesTime
  <2> QED
    BY <1>1, <1>4, <1>6, <1>8, <2>1 DEF RecvInv, CommitInv
<1> QED
  BY <1>1, <1>3, <1>10, <1>11, <1>12, SameInput DEF RecvInv

(* The frame is judged: it is committed or not.                            *)
LEMMA NextJudged ==
    ASSUME FrameInv, rcPc \in Filtering, rcPc' \in Reading,
           UNCHANGED <<parsed, modeSFilter, filterSync>>,
           committed = {i \in 1..Judged : Wanted(i)},
           committed' = IF Wanted(Len(parsed)) THEN committed \cup {Len(parsed)}
                        ELSE committed
    PROVE  committed' = {i \in 1..Judged : Wanted(i)}'
<1> DEFINE n == Len(parsed)
<1>1. n \in Nat /\ n >= 1 /\ Judged = n - 1
  BY LastFrame
<1>2. Judged' = n
  BY DEF Judged, Reading, Filtering
<1>3. \A i : Wanted(i)' <=> Wanted(i)
  BY DEF Wanted, GivesTime
<1>4. {i \in 1..Judged : Wanted(i)}' = {i \in 1..n : Wanted(i)}
  BY <1>2, <1>3
<1>5. \A i \in 1..n : i \in 1..(n - 1) \/ i = n
  BY <1>1
<1>6. 1..(n - 1) \subseteq 1..n /\ n \in 1..n /\ n \notin 1..(n - 1)
  BY <1>1
<1> QED
  BY <1>1, <1>4, <1>5, <1>6

(* The frame is not a status frame if it is wanted: the time was known     *)
(* before it.                                                              *)
LEMMA TimeBefore ==
    ASSUME FrameInv, rcPc \in Filtering, type \in ModeS
    PROVE  TimeKnown(Len(parsed)) <=> TimeKnown(Len(parsed) - 1)
<1>1. Len(parsed) \in Nat /\ Len(parsed) >= 1 /\ parsed[Len(parsed)].type = type
  BY LastFrame
<1>2. ~GivesTime(Len(parsed))
  BY <1>1 DEF GivesTime, ModeS, BEAST_TYPE_STATUS, BEAST_TYPE_MODE_S_SHORT,
     BEAST_TYPE_MODE_S_LONG
<1> QED
  BY <1>1, <1>2, OneMore

LEMMA RecvSynchronized ==
    ASSUME InputInv, FrameInv, RecvInv, FilterSynchronized
    PROVE  InputInv' /\ FrameInv' /\ RecvInv'
<1> DEFINE n == Len(parsed)
<1>1. /\ rcPc = "filter"
      /\ rcPc' = IF ~isSynchronized /\ filterSync THEN "sync" ELSE "filterMode"
      /\ UNCHANGED <<inputVars, type, content, raw, isSynchronized, filterSync,
                     modeSFilter, tbTodo, commanded, syncOff, parsed, committed>>
  BY DEF FilterSynchronized, frameVars, filterVars, tbVars
<1>2. n \in Nat /\ n >= 1 /\ Judged = n - 1 /\ parsed[n].type = type
  BY <1>1, LastFrame DEF Filtering
<1>3. Seen = n /\ Seen' = n
  BY <1>1 DEF Seen
<1>4. \A k : TimeKnown(k)' <=> TimeKnown(k)
  BY <1>1 DEF TimeKnown, GivesTime
<1>5. TimeKnown(Seen)' <=> TimeKnown(n)
  BY <1>1, <1>3 DEF TimeKnown, GivesTime
<1>6. TimeKnown(Len(parsed))' <=> TimeKnown(n)
  BY <1>1 DEF TimeKnown, GivesTime
<1>7. isSynchronized => TimeKnown(n)
  BY <1>1, <1>3 DEF RecvInv, FilterInv
<1>8. CASE ~isSynchronized /\ filterSync
  <2>1. rcPc' = "sync" /\ Judged' = n
    BY <1>1, <1>8 DEF Judged, Filtering
  <2>2. FrameInv'
    BY <1>1, <2>1, Relaxed DEF FrameInv, Reading, Filtering
  <2>3. FilterInv'
    <3>1. committed \subseteq 1..n
      BY <1>2 DEF RecvInv, FilterInv
    <3> QED
      BY <1>1, <1>8, <2>1, <3>1 DEF RecvInv, FilterInv
  <2>4. TimeInv'
    BY <1>1, <1>4, <2>1 DEF RecvInv, TimeInv
  <2>5. ASSUME ~commanded PROVE committed' = {i \in 1..Judged : Wanted(i)}'
    <3>1. ~TimeKnown(n - 1)
      BY <1>1, <1>2, <1>3, <1>8, <2>5, OneMore DEF RecvInv, CommitInv
    <3>2. ~Wanted(n)
      BY <1>8, <3>1 DEF Wanted, TimeKnown
    <3>3. committed = {i \in 1..Judged : Wanted(i)}
      BY <1>1, <2>5 DEF RecvInv, CommitInv
    <3> QED
      BY <1>1, <2>1, <3>2, <3>3, NextJudged DEF Filtering, Reading
  <2>6. CommitInv'
    BY <1>1, <1>3, <1>5, <2>1, <2>5 DEF RecvInv, CommitInv
  <2> QED
    BY <1>1, <2>2, <2>3, <2>4, <2>6, SameInput DEF RecvInv
<1>9. CASE isSynchronized \/ ~filterSync
  <2>1. rcPc' = "filterMode" /\ Judged' = Judged
    BY <1>1, <1>9 DEF Judged, Filtering
  <2>2. FrameInv'
    BY <1>1, <2>1 DEF FrameInv, FrameOK, Filtering
  <2>3. FilterInv'
    BY <1>1, <1>5, <1>7, <2>1 DEF RecvInv, FilterInv
  <2>4. TimeInv'
    BY <1>1, <1>4, <1>6, <1>7, <1>9, <2>1 DEF RecvInv, TimeInv
  <2>5. {i \in 1..Judged : Wanted(i)}' = {i \in 1..Judged : Wanted(i)}
    BY <1>1, <2>1 DEF Wanted, GivesTime
  <2>6. CommitInv'
    BY <1>1, <1>3, <1>5, <1>6, <1>7, <1>9, <2>1, <2>5 DEF RecvInv, CommitInv
  <2> QED
    BY <1>1, <2>2, <2>3, <2>4, <2>6, SameInput DEF RecvInv
<1> QED
  BY <1>8, <1>9

(* The payload has a first byte, and its Mode-S type is one of 32.         *)
LEMMA FirstByte ==
    ASSUME FrameInv, rcPc \in Filtering
    PROVE  FType(content[HeaderLen + 1]) \in 0..31
<1>1. /\ type \in DOMAIN PayloadLen /\ content \in Seq(Byte)
      /\ Len(content) = FrameLen(type)
  BY LastFrame
<1>2. HeaderLen \in Nat /\ PayloadLen[type] \in Nat \ {0}
  BY <1>1, RadarcapeAssumption
<1>3. HeaderLen + 1 \in 1..Len(content)
  BY <1>1, <1>2 DEF FrameLen
<1>4. content[HeaderLen + 1] \in Byte
  BY <1>1, <1>3
<1>5. \A b \in Byte : (b \div 8) % 32 \in 0..31
  BY DEF Byte
<1> QED
  BY <1>4, <1>5 DEF FType

LEMMA RecvModes ==
    ASSUME InputInv, FrameInv, RecvInv, FilterMode
    PROVE  InputInv' /\ FrameInv' /\ RecvInv'
<1> DEFINE n == Len(parsed)
           pass == MayPass(type, content[HeaderLen + 1])
<1>1. /\ rcPc = "filterMode" /\ rcPc' = "sync"
      /\ UNCHANGED <<inputVars, type, content, raw, isSynchronized, filterSync,
                     modeSFilter, tbTodo, commanded, syncOff, parsed>>
      /\ committed' = IF pass THEN committed \cup {n} ELSE committed
  BY DEF FilterMode, frameVars, filterVars, tbVars
<1>2. /\ n \in Nat /\ n >= 1 /\ Judged = n - 1 /\ parsed[n].type = type
      /\ parsed[n].content = content
  BY <1>1, LastFrame DEF Filtering
<1>3. Seen = n /\ Seen' = n /\ Judged' = n
  BY <1>1 DEF Seen, Judged, Filtering
<1>4. \A k : TimeKnown(k)' <=> TimeKnown(k)
  BY <1>1 DEF TimeKnown, GivesTime
<1>5. TimeKnown(Seen)' <=> TimeKnown(Seen)
  BY <1>1, <1>3 DEF TimeKnown, GivesTime
<1>6. FrameInv'
  BY <1>1, Relaxed DEF FrameInv, Reading, Filtering
<1>7. FilterInv'
  <2>1. committed \subseteq 1..n /\ n \in 1..n
    BY <1>2 DEF RecvInv, FilterInv
  <2>2. committed' \subseteq 1..n
    BY <1>1, <2>1
  <2> QED
    BY <1>1, <1>3, <1>5, <2>2 DEF RecvInv, FilterInv
<1>8. pass => type \in ModeS
  BY DEF MayPass
<1>9. TimeInv'
  <2>1. ASSUME ~syncOff, pass PROVE TimeKnown(n - 1)
    BY <1>1, <1>8, <2>1, TimeBefore DEF RecvInv, TimeInv, Filtering
  <2>2. ~syncOff => \A i \in committed' : TimeKnown(i - 1)
    BY <1>1, <2>1 DEF RecvInv, TimeInv
  <2> QED
    BY <1>1, <1>4, <2>2 DEF RecvInv, TimeInv
<1>10. ASSUME ~commanded PROVE committed' = {i \in 1..Judged : Wanted(i)}'
  <2>1. pass <=> /\ type \in ModeS
                 /\ modeSFilter = "ext" =>
                       FType(content[HeaderLen + 1]) \in {17, 18}
    BY <1>1, FirstByte DEF MayPass, ModeSTypes, Filtering
  <2>2. type \in ModeS /\ filterSync => TimeKnown(n - 1)
    BY <1>1, <1>10, TimeBefore DEF RecvInv, CommitInv, Filtering
  <2>3. pass <=> Wanted(n)
    BY <1>2, <2>1, <2>2 DEF Wanted, TimeKnown
  <2>4. committed = {i \in 1..Judged : Wanted(i)}
    BY <1>1, <1>10 DEF RecvInv, CommitInv
  <2> HIDE DEF pass
  <2> QED
    BY <1>1, <2>3, <2>4, NextJudged DEF Filtering, Reading
<1>11. CommitInv'
  BY <1>1, <1>5, <1>10 DEF RecvInv, CommitInv
<1> QED
  BY <1>1, <1>6, <1>7, <1>9, <1>11, SameInput DEF RecvInv

(* TB changes the filter while RECV is anywhere.                           *)
LEMMA TbConfigures ==
    ASSUME InputInv, FrameInv, RecvInv,
           \/ Command \/ FILTER_setSynchronizedFilter
           \/ FILTER_setModeSExtSquitter \/ FILTER_reset
    PROVE  InputInv' /\ FrameInv' /\ RecvInv'
<1>1. UNCHANGED <<inputVars, rcPc, type, content, raw, parsed, committed>>
  BY DEF Command, FILTER_setSynchronizedFilter, FILTER_setModeSExtSquitter,
         FILTER_reset, Did, frameVars
<1>2. FrameInv'
  BY <1>1 DEF FrameInv
<1>3. /\ Seen' = Seen /\ Judged' = Judged
      /\ \A k : TimeKnown(k)' <=> TimeKnown(k)
      /\ TimeKnown(Seen)' <=> TimeKnown(Seen)
      /\ TimeKnown(Len(parsed))' <=> TimeKnown(Len(parsed))
  BY <1>1 DEF Seen, Judged, TimeKnown, GivesTime
<1>4. commanded' = TRUE
  <2>1. CASE Command
    BY <2>1 DEF Command
  <2>2. CASE \/ FILTER_setSynchronizedFilter \/ FILTER_setModeSExtSquitter
             \/ FILTER_reset
    <3>1. tbTodo # {} /\ commanded' = commanded
      BY <2>2 DEF FILTER_setSynchronizedFilter, FILTER_setModeSExtSquitter,
         FILTER_reset, Did
    <3> QED
      BY <3>1 DEF RecvInv, FilterInv, CommitInv
  <2> QED
    BY <2>1, <2>2
<1>5. /\ tbTodo' \subseteq {"sync", "ext", "reset"}
      /\ modeSFilter' \in {"ext", "all"}
      /\ isSynchronized' \in BOOLEAN /\ (isSynchronized' => isSynchronized)
      /\ filterSync' \in BOOLEAN /\ syncOff' \in BOOLEAN
      /\ ~syncOff' => ~syncOff /\ filterSync'
  <2>1. CASE Command
    BY <2>1 DEF Command, filterVars, RecvInv, FilterInv, TimeInv
  <2>2. CASE FILTER_setSynchronizedFilter
    <3>1. /\ tbTodo' \subseteq tbTodo /\ UNCHANGED <<isSynchronized, modeSFilter>>
          /\ filterSync' = ("sync" \in tbCfg)
          /\ syncOff' = (syncOff \/ ~filterSync')
      BY <2>2 DEF FILTER_setSynchronizedFilter, Did
    <3>2. ("sync" \in tbCfg) \in BOOLEAN
      OBVIOUS
    <3>3. filterSync' \in BOOLEAN /\ syncOff' \in BOOLEAN
      BY <3>1, <3>2 DEF RecvInv, FilterInv
    <3> QED
      BY <3>1, <3>3 DEF RecvInv, FilterInv
  <2>3. CASE FILTER_setModeSExtSquitter \/ FILTER_reset
    <3>1. /\ tbTodo' \subseteq tbTodo
          /\ filterSync' = filterSync /\ syncOff' = syncOff
          /\ modeSFilter' \in {modeSFilter, "ext", "all"}
          /\ isSynchronized' = isSynchronized \/ isSynchronized' = FALSE
      BY <2>3 DEF FILTER_setModeSExtSquitter, FILTER_reset, Did
    <3>2. /\ tbTodo' \subseteq {"sync", "ext", "reset"}
          /\ modeSFilter' \in {"ext", "all"}
      BY <3>1 DEF RecvInv, FilterInv
    <3>3. isSynchronized' \in BOOLEAN /\ (isSynchronized' => isSynchronized)
      <4>1. CASE isSynchronized' = isSynchronized
        BY <4>1 DEF RecvInv, FilterInv
      <4>2. CASE isSynchronized' = FALSE
        BY <4>2
      <4> QED
        BY <3>1, <4>1, <4>2
    <3>4. /\ filterSync' \in BOOLEAN /\ syncOff' \in BOOLEAN
          /\ ~syncOff' => ~syncOff /\ filterSync'
      BY <3>1 DEF RecvInv, FilterInv, TimeInv
    <3> QED
      BY <3>2, <3>3, <3>4
  <2> QED
    BY <2>1, <2>2, <2>3
<1>6. FilterInv'
  <2>1. commanded' \in BOOLEAN
    BY <1>4
  <2>2. /\ committed' \subseteq 1..Judged'
        /\ rcPc' = "connect" => parsed' = <<>>
    BY <1>1, <1>3 DEF RecvInv, FilterInv
  <2>3. rcPc' # "connect" /\ isSynchronized' => TimeKnown(Seen)'
    <3>1. rcPc' = rcPc
      BY <1>1
    <3> QED
      BY <1>3, <1>5, <3>1, Zenon DEF RecvInv, FilterInv
  <2> QED
    BY <1>5, <2>1, <2>2, <2>3, Zenon DEF FilterInv
<1>7. TimeInv'
  BY <1>1, <1>3, <1>5 DEF RecvInv, TimeInv
<1>8. CommitInv'
  BY <1>4 DEF CommitInv
<1> QED
  BY <1>1, <1>2, <1>6, <1>7, <1>8, SameInput DEF RecvInv

LEMMA RcNextStep ==
    ASSUME InputInv, RcInv, RcNext
    PROVE  InputInv' /\ RcInv'
<1>1. rcPc # "off" => FrameInv /\ RecvInv
  BY DEF RcInv
<1>2. CASE rcPc = "off"
  <2>1. Command \/ FILTER_setSynchronizedFilter \/ FILTER_setModeSExtSquitter
           \/ FILTER_reset
    BY <1>2 DEF RcNext, RcConnect, RcFill, RcReadFails, RcSync, RcSynchronize,
       RcSynchronizePeek, RcType, RcUnknownType, RcDecode, RcEscaped, RcResync,
       RecvStatus, FilterSynchronized, FilterMode, At, Reading
  <2>2. UNCHANGED <<inputVars, rcPc, committed>>
    BY <2>1 DEF Command, FILTER_setSynchronizedFilter,
       FILTER_setModeSExtSquitter, FILTER_reset, Did
  <2> QED
    BY <1>2, <2>2, SameInput DEF RcInv
<1>3. CASE rcPc # "off"
  <2>1. InputInv' /\ FrameInv' /\ RecvInv'
    BY <1>1, <1>3, RcConnects, RcFills, RcFails, RcSynchronizes, RcTypes,
       RcDecodes, RcEscapes, RecvSeesStatus, RecvSynchronized, RecvModes,
       TbConfigures, Zenon DEF RcNext
  <2>2. rcPc' # "off"
    BY <2>1 DEF FrameInv, Reading, Filtering
  <2> QED
    BY <2>1, <2>2 DEF RcInv
<1> QED
  BY <1>2, <1>3

-----------------------------------------------------------------------------
LEMMA ReceiversInit == MCInit => ReceiverInv
<1> SUFFICES ASSUME MCInit PROVE ReceiverInv
  OBVIOUS
<1>1. InputInv
  <2>1. InputOK(<<>>, 0, 0)
    BY InputAssumption DEF InputOK
  <2> QED
    BY <2>1 DEF MCInit, InputInit, InputInv
<1>2. RcInv
  <2>1. CASE RcNull
    BY <2>1 DEF RcNull, RcInv
  <2>2. CASE RcInit
    <3>1. FrameOK("connect", 0, <<>>, <<>>)
      BY RadarcapeAssumption DEF FrameOK, Filtering, Byte
    <3>2. FrameInv
      BY <2>2, <3>1 DEF RcInit, FrameInv, Filtering
    <3>3. RecvInv
      BY <2>2 DEF RcInit, RecvInv, FilterInv, TimeInv, CommitInv
    <3> QED
      BY <2>2, <3>2, <3>3 DEF RcInit, RcInv
  <2> QED
    BY <2>1, <2>2 DEF MCInit
<1>3. TrInv
  <2>1. CASE TrNull
    BY <2>1 DEF TrNull, TrInv
  <2>2. CASE TrInit
    BY <2>2, TrimbleAssumption DEF TrInit, TrInv, TrReading
  <2> QED
    BY <2>1, <2>2 DEF MCInit
<1>4. CmdInv
  <2>1. CASE CmdNull
    BY <2>1 DEF CmdNull, CmdInv
  <2>2. CASE CmdInit
    BY <2>2, CommandsAssumption DEF CmdInit, CmdInv
  <2> QED
    BY <2>1, <2>2 DEF MCInit
<1> QED
  BY <1>1, <1>2, <1>3, <1>4 DEF ReceiverInv

(* A receiver that is off stays off.                                       *)
LEMMA StaysOff ==
    ASSUME RcInv
    PROVE  /\ RcOff => RcInv'
           /\ TrOff => TrInv'
           /\ CmdOff => CmdInv'
  BY DEF RcOff, TrOff, CmdOff, RcInv, TrInv, CmdInv, rcVars, trVars, cmdVars

LEMMA StandsStill ==
    ASSUME ReceiverInv, UNCHANGED <<inputVars, rcVars, trVars, cmdVars>>
    PROVE  ReceiverInv'
<1>1. InputInv'
  BY SameInput DEF ReceiverInv
<1>2. RcInv'
  <2>1. UNCHANGED <<rcPc, type, content, raw, isSynchronized, filterSync,
                    modeSFilter, tbTodo, commanded, syncOff, parsed, committed>>
    BY DEF rcVars, frameVars, filterVars, tbVars
  <2>2. FrameInv => FrameInv'
    BY <2>1 DEF FrameInv
  <2>3. RecvInv => RecvInv'
    BY <2>1 DEF RecvInv, FilterInv, TimeInv, CommitInv, Seen, Judged,
       TimeKnown, GivesTime, Wanted
  <2> QED
    BY <2>1, <2>2, <2>3 DEF ReceiverInv, RcInv
<1>3. TrInv'
  BY DEF ReceiverInv, TrInv, trVars, LastUsable, UsableIn
<1>4. CmdInv'
  BY DEF ReceiverInv, CmdInv, cmdVars
<1> QED
  BY <1>1, <1>2, <1>3, <1>4 DEF ReceiverInv

LEMMA ReceiversInvariant == Spec => []ReceiverInv
<1>1. ReceiverInv /\ [MCNext]_<<inputVars, rcVars, trVars, cmdVars>> => ReceiverInv'
  <2> SUFFICES ASSUME ReceiverInv,
                      MCNext \/ UNCHANGED <<inputVars, rcVars, trVars, cmdVars>>
               PROVE  ReceiverInv'
    OBVIOUS
  <2>1. InputInv /\ RcInv /\ TrInv /\ CmdInv
    BY DEF ReceiverInv
  <2>2. CASE RcNext /\ TrOff /\ CmdOff
    BY <2>1, <2>2, RcNextStep, StaysOff DEF ReceiverInv
  <2>3. CASE TrNext /\ RcOff /\ CmdOff
    BY <2>1, <2>3, TrNextStep, StaysOff DEF ReceiverInv
  <2>4. CASE CmdNext /\ RcOff /\ TrOff
    BY <2>1, <2>4, CmdStep, StaysOff DEF ReceiverInv
  <2> QED
    BY <2>2, <2>3, <2>4, StandsStill DEF MCNext
<1> QED
  BY <1>1, ReceiversInit, PTL DEF Spec

-----------------------------------------------------------------------------
(* decode() (radarcape/rc-parser.c:310-369) never writes behind raw->raw,  *)
(* decode() of TRIMBLE (trimble/trimble_parser.c) never behind its packet  *)
(* buffer, and mainloop() of TB (core/tb.c) never asks NET_receive() for 0 *)
(* bytes: for any stream, any cut of it and any sizes.                     *)
THEOREM NoBufferOverflows == Spec => []BuffersSuffice
<1>1. ReceiverInv => BuffersSuffice
  <2> SUFFICES ASSUME ReceiverInv PROVE BuffersSuffice
    OBVIOUS
  <2>1. InputTypeOK
    BY DEF ReceiverInv, InputInv, InputOK, InputTypeOK
  <2>2. ASSUME rcPc # "off" PROVE RcTypeOK
    <3>1. FrameInv /\ FilterInv
      BY <2>2 DEF ReceiverInv, RcInv, RecvInv
    <3>2. rcPc \in {"decode", "decodePeek"} => PartLeft > 0
      <4>1. ASSUME rcPc \in {"decode", "decodePeek"} PROVE PartLeft \in Nat \ {0}
        BY <3>1, <4>1, PartOfFrame
      <4> QED
        BY <4>1
    <3>3. committed \subseteq 1..Len(parsed)
      <4>1. Judged \in Nat /\ Len(parsed) \in Nat /\ Judged <= Len(parsed)
        BY <3>1, Numbers
      <4> QED
        BY <3>1, <4>1 DEF FilterInv
    <3>4. {isSynchronized, filterSync, commanded, syncOff} \subseteq BOOLEAN
      BY <3>1 DEF FilterInv
    <3>5. /\ Len(raw) <= RawSize
          /\ rcPc \in Reading \cup {"connect", "status", "filter", "filterMode"}
      BY <3>1 DEF FrameInv, FrameOK, Filtering
    <3> QED
      BY <2>1, <3>1, <3>2, <3>3, <3>4, <3>5 DEF RcTypeOK, FilterInv
  <2>3. ASSUME trPc # "off" PROVE TrTypeOK
    <3>1. /\ trPc \in TrReading \cup {"connect", "reset", "packet"}
          /\ packet \in Seq(Byte) /\ Len(packet) <= PacketSize
          /\ trPc \in {"decode", "decodePeek"} => Len(packet) < PacketSize
      BY <2>3 DEF ReceiverInv, TrInv
    <3>2. trPc \in {"decode", "decodePeek"} => SpaceLeft > 0
      BY <3>1, TrimbleAssumption DEF SpaceLeft
    <3> QED
      BY <2>1, <3>1, <3>2 DEF TrTypeOK
  <2>4. tbPc # "off" => SpaceToReceive
    BY DEF ReceiverInv, CmdInv, SpaceToReceive
  <2> QED
    BY <2>2, <2>3, <2>4 DEF BuffersSuffice
<1> QED
  BY <1>1, ReceiversInvariant, PTL

(* RECV and FILTER (core/recv.c, core/filter.c) commit exactly the frames  *)
(* the configuration asks for, for every stream of frames.                 *)
THEOREM WantedAreCommitted == Spec => []CommitsWanted
<1>1. ReceiverInv => CommitsWanted
  <2> SUFFICES ASSUME ReceiverInv, rcPc \in Reading, ~commanded
               PROVE  committed = {i \in 1..Len(parsed) : Wanted(i)}
    BY DEF CommitsWanted
  <2>1. rcPc \notin {"off", "connect"} /\ Judged = Len(parsed)
    BY DEF Judged, Reading, Filtering
  <2>2. committed = {i \in 1..Judged : Wanted(i)}
    BY <2>1 DEF ReceiverInv, RcInv, RecvInv, CommitInv
  <2> QED
    BY <2>1, <2>2
<1> QED
  BY <1>1, ReceiversInvariant, PTL

(* The synchronization filter (core/filter.c:149-179) holds back every frame *)
(* until the time is known, wherever RECV is when TB reconfigures or       *)
(* resets the filter.                                                      *)
THEOREM TimeComesFirst == Spec => []NothingBeforeTime
<1>1. ReceiverInv => NothingBeforeTime
  <2>1. CASE rcPc # "off"
    BY <2>1 DEF ReceiverInv, RcInv, RecvInv, TimeInv, TimeKnown,
       NothingBeforeTime
  <2>2. CASE rcPc = "off"
    BY <2>2 DEF ReceiverInv, RcInv, NothingBeforeTime
  <2> QED
    BY <2>1, <2>2
<1> QED
  BY <1>1, ReceiversInvariant, PTL

(* GPS (core/gps.c) has the last usable position of this connection of     *)
(* TRIMBLE (trimble/trimble_recv.c), however many packets it received.     *)
THEOREM PositionIsCurrent == Spec => []PositionOfThisConnection
<1>1. ReceiverInv => PositionOfThisConnection
  <2> SUFFICES ASSUME ReceiverInv, trPc \in TrReading
               PROVE  LastUsable(Len(packets))
    BY DEF PositionOfThisConnection, LastUsable, UsableIn
  <2> QED
    BY DEF ReceiverInv, TrInv, TrReading
<1> QED
  BY <1>1, ReceiversInvariant, PTL

Associate(s, t, u) == s \o (t \o u) = (s \o t) \o u

LEMMA Associative ==
    ASSUME NEW S, NEW s \in Seq(S), NEW t \in Seq(S), NEW u \in Seq(S)
    PROVE  Associate(s, t, u)
<1>1. /\ t \o u \in Seq(S) /\ Len(t \o u) = Len(t) + Len(u)
      /\ \A i \in 1..(Len(t) + Len(u)) :
            (t \o u)[i] = IF i <= Len(t) THEN t[i] ELSE u[i - Len(t)]
  OBVIOUS
<1>2. /\ s \o t \in Seq(S) /\ Len(s \o t) = Len(s) + Len(t)
      /\ \A i \in 1..(Len(s) + Len(t)) :
            (s \o t)[i] = IF i <= Len(s) THEN s[i] ELSE t[i - Len(s)]
  OBVIOUS
<1> QED
  BY <1>1, <1>2 DEF Associate

-----------------------------------------------------------------------------
(* TB: the commands in a sequence of bytes.                                *)

Packet == [type : Nat, payload : Seq(Byte)]
Complete(bytes) ==
    HasHeader(bytes) /\ Sane(PacketLen(bytes)) /\ PacketLen(bytes) <= Len(bytes)
Executed(bytes) ==
    IF Expected(FirstPacket(bytes)) THEN <<FirstPacket(bytes)>> ELSE <<>>

LEMMA CompletePacket ==
    ASSUME NEW b \in Seq(Byte), Complete(b)
    PROVE  /\ PacketLen(b) \in Nat /\ 4 <= PacketLen(b) /\ PacketLen(b) <= Len(b)
           /\ FirstPacket(b) \in Packet
           /\ Executed(b) \in Seq(Packet)
<1>1. Len(b) \in Nat /\ 4 <= Len(b)
  BY DEF Complete, HasHeader, HeaderSize
<1>2. b[1] \in Nat /\ b[2] \in Nat /\ b[3] \in Nat /\ b[4] \in Nat
  <2>1. \A i \in 1..Len(b) : b[i] \in Byte
    OBVIOUS
  <2>2. 1 \in 1..Len(b) /\ 2 \in 1..Len(b) /\ 3 \in 1..Len(b) /\ 4 \in 1..Len(b)
    BY <1>1
  <2>3. b[1] \in Byte /\ b[2] \in Byte /\ b[3] \in Byte /\ b[4] \in Byte
    BY <2>1, <2>2, Zenon
  <2>4. \A x \in Byte : x \in Nat
    BY DEF Byte
  <2> QED
    BY <2>3, <2>4, Zenon
<1>3. PacketLen(b) \in Nat /\ 4 <= PacketLen(b) /\ PacketLen(b) <= Len(b)
  BY <1>2, CommandsAssumption DEF Complete, Sane, HeaderSize, PacketLen
<1>4. PacketType(b) \in Nat
  BY <1>2 DEF PacketType
<1>5. SubSeq(b, 4 + 1, PacketLen(b)) \in Seq(Byte)
  BY <1>1, <1>3, Slice
<1>6. FirstPacket(b) \in Packet
  BY <1>4, <1>5 DEF FirstPacket, Packet, HeaderSize
<1> QED
  BY <1>3, <1>6 DEF Executed

(* From place k on, f says which commands follow a place.                  *)
Reads(f, b, k) ==
    f = [i \in k..(Len(b) + 1) |->
            IF Complete(SubSeq(b, i, Len(b)))
            THEN Executed(SubSeq(b, i, Len(b))) \o f[i + PacketLen(SubSeq(b, i, Len(b)))]
            ELSE <<>>]

LEMMA RestOf ==
    ASSUME NEW b \in Seq(Byte), NEW i \in 1..(Len(b) + 1)
    PROVE  /\ SubSeq(b, i, Len(b)) \in Seq(Byte)
           /\ Len(SubSeq(b, i, Len(b))) = Len(b) + 1 - i
           /\ Complete(SubSeq(b, i, Len(b))) =>
                 /\ PacketLen(SubSeq(b, i, Len(b))) \in Nat
                 /\ i + PacketLen(SubSeq(b, i, Len(b))) \in (i + 4)..(Len(b) + 1)
                 /\ Executed(SubSeq(b, i, Len(b))) \in Seq(Packet)
<1>1. /\ SubSeq(b, i, Len(b)) \in Seq(Byte)
      /\ Len(SubSeq(b, i, Len(b))) = Len(b) + 1 - i
  OBVIOUS
<1> DEFINE r == SubSeq(b, i, Len(b))
<1> HIDE DEF r
<1>2. r \in Seq(Byte) /\ Len(r) = Len(b) + 1 - i /\ Len(b) \in Nat
  BY <1>1 DEF r
<1>3. ASSUME Complete(r)
      PROVE  /\ PacketLen(r) \in Nat /\ i + PacketLen(r) \in (i + 4)..(Len(b) + 1)
             /\ Executed(r) \in Seq(Packet)
  <2>1. /\ PacketLen(r) \in Nat /\ 4 <= PacketLen(r) /\ PacketLen(r) <= Len(r)
        /\ Executed(r) \in Seq(Packet)
    BY <1>2, <1>3, CompletePacket
  <2> QED
    BY <1>2, <2>1
<1> QED
  BY <1>1, <1>3 DEF r

LEMMA ReadsExists ==
    ASSUME NEW b \in Seq(Byte)
    PROVE  \E f : Reads(f, b, 1)
<1> DEFINE n == Len(b)
           Rest(i) == SubSeq(b, i, n)
           T == {m \in 0..n : ~\E f : Reads(f, b, n + 1 - m)}
<1>0. n \in Nat
  OBVIOUS
<1>1. T = {} => n \notin T
  OBVIOUS
<1>2. n + 1 - n = 1
  BY <1>0
<1> SUFFICES ASSUME T # {} PROVE FALSE
  BY <1>0, <1>1, <1>2
<1>3. Min(T) \in T /\ \A y \in T : Min(T) <= y
  <2>1. T \subseteq Nat
    BY <1>0
  <2> HIDE DEF T
  <2> QED
    BY <2>1, LeastElement
<1> DEFINE m == Min(T)
           k == n + 1 - m
<1> HIDE DEF m
<1>4. m \in 0..n /\ m \in T /\ \A y \in T : m <= y
  BY <1>3 DEF m
<1>5. m # 0
  <2> SUFFICES ASSUME m = 0 PROVE FALSE
    OBVIOUS
  <2>1. ~Complete(Rest(n + 1))
    BY <1>0, RestOf DEF Complete, HasHeader, HeaderSize
  <2>2. Reads([i \in (n + 1)..(n + 1) |-> <<>>], b, n + 1)
    BY <1>0, <2>1 DEF Reads
  <2>3. n + 1 - m = n + 1
    BY <1>0
  <2> QED
    BY <1>4, <2>2, <2>3
<1>6. m - 1 \in 0..n /\ m - 1 \notin T /\ n + 1 - (m - 1) = k + 1
  BY <1>0, <1>4, <1>5
<1>7. PICK f : Reads(f, b, k + 1)
  BY <1>6
<1>8. k \in 1..n /\ k \in Nat
  BY <1>0, <1>4, <1>5
<1> HIDE DEF k
<1> DEFINE Entry(h, i) ==
               IF Complete(Rest(i)) THEN Executed(Rest(i)) \o h[i + PacketLen(Rest(i))]
               ELSE <<>>
           g == [i \in k..(n + 1) |-> IF i = k THEN Entry(f, k) ELSE f[i]]
<1>9. f = [i \in (k + 1)..(n + 1) |-> Entry(f, i)]
  BY <1>7 DEF Reads
<1>10. ASSUME NEW i \in k..(n + 1) PROVE g[i] = Entry(g, i)
  <2>1. i \in 1..(n + 1) /\ i \in Nat
    BY <1>0, <1>8
  <2>2. g[i] = Entry(f, i)
    <3>1. CASE i = k
      BY <3>1
    <3>2. CASE i # k
      <4>1. i \in (k + 1)..(n + 1)
        BY <1>0, <1>8, <3>2
      <4>2. f[i] = Entry(f, i)
        BY <1>9, <4>1
      <4> QED
        BY <3>2, <4>2
    <3> QED
      BY <3>1, <3>2
  <2>3. CASE ~Complete(Rest(i))
    BY <2>2, <2>3
  <2>4. CASE Complete(Rest(i))
    <3>1. i + PacketLen(Rest(i)) \in (i + 4)..(n + 1)
      BY <2>1, <2>4, RestOf
    <3>2. i + PacketLen(Rest(i)) \in k..(n + 1) /\ i + PacketLen(Rest(i)) # k
      BY <1>0, <1>8, <2>1, <3>1
    <3>3. g[i + PacketLen(Rest(i))] = f[i + PacketLen(Rest(i))]
      BY <3>2
    <3> QED
      BY <2>2, <2>4, <3>3
  <2> QED
    BY <2>3, <2>4
<1>11. g = [i \in k..(n + 1) |-> Entry(g, i)]
  BY <1>10
<1>12. Reads(g, b, k)
  BY <1>11 DEF Reads
<1> QED
  BY <1>4, <1>12 DEF k

LEMMA CommandsFrom ==
    ASSUME NEW b \in Seq(Byte), NEW i \in 1..(Len(b) + 1)
    PROVE  CommandsIn(b, i) =
               IF Complete(SubSeq(b, i, Len(b)))
               THEN Executed(SubSeq(b, i, Len(b)))
                    \o CommandsIn(b, i + PacketLen(SubSeq(b, i, Len(b))))
               ELSE <<>>
<1> DEFINE c == CHOOSE f : Reads(f, b, 1)
<1>1. Reads(c, b, 1)
  BY ReadsExists
<1>2. \A j : CommandsIn(b, j) = c[j]
  BY DEF CommandsIn, Reads, Complete, Executed
<1> HIDE DEF c
<1>4. i \in 1..(Len(b) + 1)
  OBVIOUS
<1>3. c[i] = IF Complete(SubSeq(b, i, Len(b)))
             THEN Executed(SubSeq(b, i, Len(b))) \o c[i + PacketLen(SubSeq(b, i, Len(b)))]
             ELSE <<>>
  BY <1>1, <1>4, Zenon DEF Reads
<1>5. /\ CommandsIn(b, i) = c[i]
      /\ CommandsIn(b, i + PacketLen(SubSeq(b, i, Len(b)))) =
             c[i + PacketLen(SubSeq(b, i, Len(b)))]
  BY <1>2, Zenon
<1> QED
  BY <1>3, <1>5, Zenon

LEMMA CommandsAreSequence ==
    ASSUME NEW b \in Seq(Byte), NEW i \in 1..(Len(b) + 1)
    PROVE  CommandsIn(b, i) \in Seq(Packet)
<1> DEFINE n == Len(b)
           T == {m \in 0..n : CommandsIn(b, n + 1 - m) \notin Seq(Packet)}
<1>0. n \in Nat
  OBVIOUS
<1>1. ASSUME T # {} PROVE FALSE
  <2>1. Min(T) \in T /\ \A y \in T : Min(T) <= y
    <3>1. T \subseteq Nat
      BY <1>0
    <3> HIDE DEF T
    <3> QED
      BY <1>1, <3>1, LeastElement
  <2> DEFINE m == Min(T)
             k == n + 1 - m
             r == SubSeq(b, k, n)
  <2> HIDE DEF m
  <2>2. m \in T /\ m \in 0..n /\ k \in 1..(n + 1) /\ \A y \in T : m <= y
    BY <1>0, <2>1 DEF m
  <2>3. CommandsIn(b, k) =
            IF Complete(r) THEN Executed(r) \o CommandsIn(b, k + PacketLen(r)) ELSE <<>>
    BY <2>2, CommandsFrom
  <2>4. CASE Complete(r)
    <3>1. k + PacketLen(r) \in (k + 4)..(n + 1) /\ PacketLen(r) \in Nat
          /\ Executed(r) \in Seq(Packet)
      BY <2>2, <2>4, RestOf
    <3> HIDE DEF r
    <3>2. m - PacketLen(r) \in 0..n /\ m - PacketLen(r) < m
          /\ n + 1 - (m - PacketLen(r)) = k + PacketLen(r)
      BY <1>0, <2>2, <3>1, SMTT(30)
    <3>3. m - PacketLen(r) \notin T
      BY <2>2, <3>2
    <3>4. CommandsIn(b, k + PacketLen(r)) \in Seq(Packet)
      BY <3>2, <3>3
    <3>5. CommandsIn(b, k) \in Seq(Packet)
      BY <2>3, <2>4, <3>1, <3>4, Joined
    <3> QED
      BY <2>2, <3>5
  <2>5. CASE ~Complete(r)
    <3>1. CommandsIn(b, k) = <<>>
      BY <2>3, <2>5
    <3>2. <<>> \in Seq(Packet)
      OBVIOUS
    <3>3. CommandsIn(b, k) \in Seq(Packet)
      BY <3>1, <3>2, Zenon
    <3> QED
      BY <2>2, <3>3
  <2> QED
    BY <2>4, <2>5
<1>2. n + 1 - i \in 0..n /\ n + 1 - (n + 1 - i) = i
  BY <1>0
<1>3. n + 1 - i \notin T
  BY <1>1
<1> QED
  BY <1>2, <1>3

-----------------------------------------------------------------------------
(* TB: what was executed, and what is still in the buffer.                 *)

(* Of the first e bytes of s the last ones are in the buffer, the others   *)
(* were the commands done; that remains so whatever else arrives.          *)
OnTrack(s, e, buf, done) ==
    /\ buf \in Seq(Byte) /\ done \in Seq(Packet)
    /\ Len(buf) <= e
    /\ buf = SubSeq(s, e - Len(buf) + 1, e)
    /\ \A m \in e..Len(s) :
          CommandsIn(SubSeq(s, 1, m), 1) =
              done \o CommandsIn(SubSeq(s, 1, m), e - Len(buf) + 1)

TrackInv ==
    tbPc # "off" =>
        /\ tbPc = "wait" => called = <<>> /\ misread = FALSE
        /\ tbPc # "wait" /\ ~misread => OnTrack(stream, end, tbBuf, called)
        /\ tbPc = "receive" /\ ~misread => ~Complete(tbBuf)

(* A packet that is complete remains the same when more bytes arrive.      *)
LEMMA MoreBytes ==
    ASSUME NEW b \in Seq(Byte), NEW r \in Seq(Byte), Len(b) <= Len(r),
           \A i \in 1..Len(b) : r[i] = b[i], Complete(b)
    PROVE  /\ Complete(r)
           /\ PacketLen(r) = PacketLen(b)
           /\ Executed(r) = Executed(b)
<1>1. Len(b) \in Nat /\ Len(r) \in Nat /\ 4 <= Len(b)
  BY DEF Complete, HasHeader, HeaderSize
<1>2. r[1] = b[1] /\ r[2] = b[2] /\ r[3] = b[3] /\ r[4] = b[4]
  <2>1. 1 \in 1..Len(b) /\ 2 \in 1..Len(b) /\ 3 \in 1..Len(b) /\ 4 \in 1..Len(b)
    BY <1>1
  <2> QED
    BY <2>1, Zenon
<1>3. PacketLen(r) = PacketLen(b) /\ PacketType(r) = PacketType(b)
  BY <1>2 DEF PacketLen, PacketType
<1>4. PacketLen(b) \in Nat /\ 4 <= PacketLen(b) /\ PacketLen(b) <= Len(b)
  BY CompletePacket
<1>5. Complete(r)
  <2>1. HasHeader(r)
    BY <1>1 DEF HasHeader, HeaderSize
  <2>2. Sane(PacketLen(r))
    BY <1>3 DEF Complete
  <2>3. PacketLen(r) <= Len(r)
    BY <1>1, <1>3, <1>4
  <2> QED
    BY <2>1, <2>2, <2>3 DEF Complete
<1>6. SubSeq(r, 5, PacketLen(b)) = SubSeq(b, 5, PacketLen(b))
  <2> DEFINE len == PacketLen(b)
  <2> HIDE DEF len
  <2>1. len \in Nat /\ 4 <= len /\ len <= Len(b)
    BY <1>4 DEF len
  <2>2. /\ SubSeq(r, 5, len) = [i \in 1..(len - 4) |-> r[i + 4]]
        /\ SubSeq(b, 5, len) = [i \in 1..(len - 4) |-> b[i + 4]]
    BY <1>1, <2>1
  <2>3. \A i \in 1..(len - 4) : r[i + 4] = b[i + 4]
    <3> SUFFICES ASSUME NEW i \in 1..(len - 4) PROVE r[i + 4] = b[i + 4]
      OBVIOUS
    <3>1. i + 4 \in 1..Len(b)
      BY <1>1, <2>1
    <3> QED
      BY <3>1, Zenon
  <2>4. SubSeq(r, 5, len) = SubSeq(b, 5, len)
    BY <2>2, <2>3
  <2> QED
    BY <2>4 DEF len
<1>7. FirstPacket(r) = FirstPacket(b)
  <2>1. HeaderSize + 1 = 5
    BY DEF HeaderSize
  <2> QED
    BY <1>3, <1>6, <2>1 DEF FirstPacket
<1> QED
  BY <1>3, <1>5, <1>7 DEF Executed

LEMMA SliceOfPrefix ==
    ASSUME NEW s \in Seq(Byte), NEW m \in 0..Len(s), NEW c \in 0..m
    PROVE  /\ SubSeq(s, 1, m) \in Seq(Byte) /\ Len(SubSeq(s, 1, m)) = m
           /\ SubSeq(SubSeq(s, 1, m), c + 1, m) = SubSeq(s, c + 1, m)
           /\ SubSeq(s, c + 1, m) \in Seq(Byte)
           /\ Len(SubSeq(s, c + 1, m)) = m - c
           /\ \A i \in 1..(m - c) : SubSeq(s, c + 1, m)[i] = s[c + i]
<1>1. /\ SubSeq(s, 1, m) \in Seq(Byte) /\ Len(SubSeq(s, 1, m)) = m
      /\ \A i \in 1..m : SubSeq(s, 1, m)[i] = s[i]
  OBVIOUS
<1>2. /\ SubSeq(s, c + 1, m) \in Seq(Byte)
      /\ Len(SubSeq(s, c + 1, m)) = m - c
      /\ \A i \in 1..(m - c) : SubSeq(s, c + 1, m)[i] = s[c + i]
  OBVIOUS
<1> DEFINE p == SubSeq(s, 1, m)
<1> HIDE DEF p
<1>3. p \in Seq(Byte) /\ Len(p) = m /\ \A i \in 1..m : p[i] = s[i]
  BY <1>1 DEF p
<1>4. /\ SubSeq(p, c + 1, m) \in Seq(Byte)
      /\ Len(SubSeq(p, c + 1, m)) = m - c
      /\ \A i \in 1..(m - c) : SubSeq(p, c + 1, m)[i] = p[c + i]
  BY <1>3
<1>5. \A i \in 1..(m - c) : p[c + i] = s[c + i]
  BY <1>3
<1>6. SubSeq(p, c + 1, m) = SubSeq(s, c + 1, m)
  BY <1>2, <1>4, <1>5, SMTT(30)
<1> QED
  BY <1>1, <1>2, <1>6 DEF p

LEMMA TrackStarts ==
    ASSUME NEW s \in Seq(Byte)
    PROVE  OnTrack(s, 0, <<>>, <<>>)
<1>1. Len(s) \in Nat
  OBVIOUS
<1>2. ASSUME NEW m \in 0..Len(s)
      PROVE  CommandsIn(SubSeq(s, 1, m), 1) =
                 <<>> \o CommandsIn(SubSeq(s, 1, m), 0 - Len(<<>>) + 1)
  <2>1. SubSeq(s, 1, m) \in Seq(Byte) /\ Len(SubSeq(s, 1, m)) = m
    BY Prefix
  <2>2. CommandsIn(SubSeq(s, 1, m), 1) \in Seq(Packet)
    <3>1. 1 \in 1..(Len(SubSeq(s, 1, m)) + 1)
      BY <1>1, <2>1
    <3> QED
      BY <2>1, <3>1, CommandsAreSequence
  <2>3. 0 - Len(<<>>) + 1 = 1
    OBVIOUS
  <2> DEFINE x == CommandsIn(SubSeq(s, 1, m), 1)
  <2> HIDE DEF x
  <2>4. x = <<>> \o x
    BY <2>2 DEF x
  <2> QED
    BY <2>3, <2>4 DEF x
<1>3. <<>> \in Seq(Byte) /\ <<>> \in Seq(Packet) /\ Len(<<>>) <= 0
      /\ <<>> = SubSeq(s, 0 - Len(<<>>) + 1, 0)
  OBVIOUS
<1> QED
  BY <1>2, <1>3 DEF OnTrack

LEMMA TrackReceives ==
    ASSUME NEW s \in Seq(Byte), NEW e \in Nat, NEW e2 \in e..Len(s),
           NEW buf, NEW done, OnTrack(s, e, buf, done)
    PROVE  OnTrack(s, e2, buf \o SubSeq(s, e + 1, e2), done)
<1> DEFINE c == e - Len(buf)
           buf2 == buf \o SubSeq(s, e + 1, e2)
<1>1. /\ buf \in Seq(Byte) /\ Len(buf) \in Nat /\ Len(buf) <= e /\ done \in Seq(Packet)
      /\ buf = SubSeq(s, c + 1, e)
  BY DEF OnTrack
<1>2. c \in Nat /\ c <= e /\ Len(s) \in Nat /\ e2 \in Nat /\ e <= e2 /\ e2 <= Len(s)
  BY <1>1
<1>3. /\ SubSeq(s, e + 1, e2) \in Seq(Byte) /\ Len(SubSeq(s, e + 1, e2)) = e2 - e
  BY <1>2, Slice
<1>4. buf2 \in Seq(Byte) /\ Len(buf2) = Len(buf) + (e2 - e)
  BY <1>1, <1>3, Joined
<1>5. e2 - Len(buf2) = c /\ Len(buf2) <= e2
  BY <1>1, <1>2, <1>4
<1>6. buf2 = SubSeq(s, c + 1, e2)
  <2> HIDE DEF c
  <2>1. SubSeq(s, c + 1, e2) = SubSeq(s, c + 1, e) \o SubSeq(s, e + 1, e2)
    BY <1>2
  <2> QED
    BY <1>1, <2>1
<1>7. \A m \in e2..Len(s) :
          CommandsIn(SubSeq(s, 1, m), 1) = done \o CommandsIn(SubSeq(s, 1, m), c + 1)
  <2>1. \A m \in e2..Len(s) : m \in e..Len(s)
    BY <1>2
  <2>2. \A m \in e..Len(s) :
          CommandsIn(SubSeq(s, 1, m), 1) = done \o CommandsIn(SubSeq(s, 1, m), c + 1)
    BY DEF OnTrack
  <2> QED
    BY <2>1, <2>2, Zenon
<1> HIDE DEF buf2, c
<1>8. OnTrack(s, e2, buf2, done)
  BY <1>1, <1>4, <1>5, <1>6, <1>7 DEF OnTrack
<1> QED
  BY <1>8 DEF buf2

LEMMA TrackExecutes ==
    ASSUME NEW s \in Seq(Byte), NEW e \in 0..Len(s),
           NEW buf, NEW done, OnTrack(s, e, buf, done), Complete(buf)
    PROVE  OnTrack(s, e, SubSeq(buf, PacketLen(buf) + 1, Len(buf)),
                   done \o Executed(buf))
<1> DEFINE len == PacketLen(buf)
           c == e - Len(buf)
           buf2 == SubSeq(buf, len + 1, Len(buf))
           x == Executed(buf)
<1>1. /\ buf \in Seq(Byte) /\ Len(buf) \in Nat /\ Len(buf) <= e /\ done \in Seq(Packet)
      /\ buf = SubSeq(s, c + 1, e)
  BY DEF OnTrack
<1>2. c \in Nat /\ c <= e /\ Len(s) \in Nat /\ e <= Len(s) /\ Len(buf) = e - c
  BY <1>1
<1>3. len \in Nat /\ 4 <= len /\ len <= Len(buf) /\ x \in Seq(Packet)
  BY <1>1, CompletePacket
<1> HIDE DEF len, x
<1>4. buf2 \in Seq(Byte) /\ Len(buf2) = Len(buf) - len
  <2>1. buf \in Seq(Byte) /\ Len(buf) \in Nat
    BY <1>1
  <2> QED
    BY <1>3, <2>1, Slice
<1> HIDE DEF buf2
<1>5. e - Len(buf2) = c + len /\ Len(buf2) <= e /\ c + len <= e /\ c + len \in Nat
  BY <1>1, <1>2, <1>3, <1>4
<1> HIDE DEF c
<1>6. buf2 = SubSeq(s, c + len + 1, e)
  <2>1. buf2 = SubSeq(SubSeq(s, c + 1, e), len + 1, e - c)
    BY <1>1, <1>2 DEF buf2
  <2>2. SubSeq(SubSeq(s, c + 1, e), len + 1, e - c) = SubSeq(s, c + len + 1, e)
    <3>1. /\ SubSeq(s, c + 1, e) \in Seq(Byte) /\ Len(SubSeq(s, c + 1, e)) = e - c
          /\ \A i \in 1..(e - c) : SubSeq(s, c + 1, e)[i] = s[c + i]
      BY <1>2
    <3> DEFINE q == SubSeq(s, c + 1, e)
    <3> HIDE DEF q
    <3>2. q \in Seq(Byte) /\ Len(q) = e - c /\ \A i \in 1..(e - c) : q[i] = s[c + i]
      BY <3>1 DEF q
    <3>3. len <= e - c
      BY <1>2, <1>3
    <3>4. SubSeq(q, len + 1, e - c) = [i \in 1..(e - c - len) |-> q[i + len]]
      BY <1>2, <1>3, <3>2, <3>3
    <3>5. SubSeq(s, c + len + 1, e) = [i \in 1..(e - c - len) |-> s[c + (i + len)]]
      <4>1. SubSeq(s, c + len + 1, e) =
                [i \in 1..(1 + e - (c + len + 1)) |-> s[(c + len + 1) + i - 1]]
        BY <1>2, <1>3, <1>5
      <4>2. 1 + e - (c + len + 1) = e - c - len
        BY <1>2, <1>3
      <4>3. \A i \in 1..(e - c - len) : (c + len + 1) + i - 1 = c + (i + len)
        BY <1>2, <1>3
      <4> QED
        BY <4>1, <4>2, <4>3
    <3>6. \A i \in 1..(e - c - len) : i + len \in 1..(e - c)
      BY <1>2, <1>3, <3>3
    <3>7. \A i \in 1..(e - c - len) : q[i + len] = s[c + (i + len)]
      BY <3>2, <3>6
    <3>8. SubSeq(q, len + 1, e - c) = SubSeq(s, c + len + 1, e)
      BY <3>4, <3>5, <3>7
    <3> QED
      BY <3>8 DEF q
  <2> QED
    BY <2>1, <2>2
<1>7. ASSUME NEW m \in e..Len(s)
      PROVE  CommandsIn(SubSeq(s, 1, m), 1) =
                 (done \o x) \o CommandsIn(SubSeq(s, 1, m), c + len + 1)
  <2> DEFINE p == SubSeq(s, 1, m)
             r == SubSeq(p, c + 1, m)
             y == CommandsIn(p, c + len + 1)
  <2>1. m \in 0..Len(s) /\ c \in 0..m
    BY <1>2
  <2>2. /\ p \in Seq(Byte) /\ Len(p) = m
        /\ r = SubSeq(s, c + 1, m) /\ r \in Seq(Byte) /\ Len(r) = m - c
        /\ \A i \in 1..(m - c) : r[i] = s[c + i]
    BY <2>1, SliceOfPrefix
  <2> HIDE DEF p
  <2>3. Len(buf) <= Len(r)
    BY <1>2, <2>2
  <2>4. \A i \in 1..Len(buf) : r[i] = buf[i]
    <3>1. \A i \in 1..(e - c) : SubSeq(s, c + 1, e)[i] = s[c + i]
      BY <1>2
    <3>2. \A i \in 1..(e - c) : buf[i] = s[c + i]
      BY <1>1, <3>1, Zenon
    <3>3. \A i \in 1..Len(buf) : i \in 1..(e - c) /\ i \in 1..(m - c)
      BY <1>2
    <3> QED
      BY <2>2, <3>2, <3>3, Zenon
  <2>5. Complete(r) /\ PacketLen(r) = len /\ Executed(r) = x
    BY <1>1, <2>2, <2>3, <2>4, MoreBytes DEF len, x
  <2>6. c + 1 \in 1..(Len(p) + 1) /\ (c + 1) + len = c + len + 1
        /\ c + len + 1 \in 1..(Len(p) + 1)
    BY <1>2, <1>3, <1>5, <2>1, <2>2
  <2>7. CommandsIn(p, c + 1) = x \o CommandsIn(p, (c + 1) + len)
    <3>1. CommandsIn(p, c + 1) =
               IF Complete(SubSeq(p, c + 1, Len(p)))
               THEN Executed(SubSeq(p, c + 1, Len(p)))
                    \o CommandsIn(p, c + 1 + PacketLen(SubSeq(p, c + 1, Len(p))))
               ELSE <<>>
      BY <2>2, <2>6, CommandsFrom
    <3>2. SubSeq(p, c + 1, Len(p)) = r
      BY <2>2
    <3> HIDE DEF r
    <3> QED
      BY <2>5, <3>1, <3>2
  <2>8. y \in Seq(Packet)
    BY <2>2, <2>6, CommandsAreSequence
  <2>9. CommandsIn(p, 1) = done \o CommandsIn(p, c + 1)
    BY DEF OnTrack, c, p
  <2>10. CommandsIn(p, c + 1) = x \o y
    BY <2>6, <2>7
  <2> HIDE DEF y
  <2>11. done \o (x \o y) = (done \o x) \o y
    <3>1. done \in Seq(Packet) /\ x \in Seq(Packet) /\ y \in Seq(Packet)
      BY <1>1, <1>3, <2>8
    <3>2. Associate(done, x, y)
      BY <3>1, Associative
    <3> QED
      BY <3>2, Zenon DEF Associate
  <2> QED
    BY <2>9, <2>10, <2>11 DEF p, y
<1>8. done \o x \in Seq(Packet)
  BY <1>1, <1>3
<1> HIDE DEF buf2
<1>9. OnTrack(s, e, buf2, done \o x)
  BY <1>4, <1>5, <1>6, <1>7, <1>8 DEF OnTrack
<1> QED
  BY <1>9 DEF buf2, len, x

LEMMA TrackTells ==
    ASSUME NEW s \in Seq(Byte), NEW e \in 0..Len(s),
           NEW buf, NEW done, OnTrack(s, e, buf, done), ~Complete(buf)
    PROVE  done = CommandsIn(SubSeq(s, 1, e), 1)
<1> DEFINE c == e - Len(buf)
           p == SubSeq(s, 1, e)
<1>1. /\ buf \in Seq(Byte) /\ Len(buf) \in Nat /\ Len(buf) <= e /\ done \in Seq(Packet)
      /\ buf = SubSeq(s, c + 1, e)
  BY DEF OnTrack
<1>2. c \in 0..e /\ e \in Nat /\ e \in e..Len(s)
  BY <1>1
<1>3. /\ p \in Seq(Byte) /\ Len(p) = e
      /\ SubSeq(p, c + 1, e) = SubSeq(s, c + 1, e)
  BY <1>2, SliceOfPrefix
<1>4. CommandsIn(p, 1) = done \o CommandsIn(p, c + 1)
  BY <1>2 DEF OnTrack
<1> HIDE DEF c, p
<1>5. c + 1 \in 1..(Len(p) + 1)
  BY <1>2, <1>3
<1>6. CommandsIn(p, c + 1) = <<>>
  BY <1>1, <1>3, <1>5, CommandsFrom
<1>7. done \o <<>> = done
  BY <1>1
<1> QED
  BY <1>4, <1>6, <1>7 DEF p

LEMMA TrackStep ==
    ASSUME InputInv, CmdInv, TrackInv, CmdNext
    PROVE  TrackInv'
<1>0. /\ TbStreams \subseteq Seq(Byte) /\ stream \in Seq(Byte) /\ end \in 0..Len(stream)
      /\ end \in Nat /\ Len(stream) \in Nat
  BY CommandsAssumption DEF InputInv, InputOK
<1>1. CASE TbConnected
  <2>1. /\ called' = <<>> /\ tbBuf' = <<>> /\ end' = 0 /\ stream' \in Seq(Byte)
        /\ tbPc' = "packets"
    BY <1>0, <1>1 DEF TbConnected, TrackInv, Connect
  <2>2. OnTrack(stream', end', tbBuf', called')
    BY <2>1, TrackStarts
  <2> QED
    BY <2>1, <2>2 DEF TrackInv
<1>2. CASE TbWrongLength
  BY <1>2 DEF TbWrongLength, TrackInv
<1>3. CASE TbPacket
  <2>1. /\ tbPc = "packets" /\ tbPc' = "packets" /\ misread' = misread
        /\ stream' = stream /\ end' = end
    BY <1>3 DEF TbPacket, inputVars
  <2>2. CASE misread
    BY <2>1, <2>2 DEF TrackInv
  <2>3. CASE ~misread
    <3>1. OnTrack(stream, end, tbBuf, called)
      BY <2>1, <2>3 DEF TrackInv
    <3>2. Complete(tbBuf)
      <4>1. tbBuf \in Seq(Byte)
        BY <2>1 DEF CmdInv
      <4>2. Len(tbBuf) >= PacketLen(tbBuf) /\ HasHeader(tbBuf) /\ Sane(PacketLen(tbBuf))
        BY <1>3 DEF TbPacket
      <4>3. Len(tbBuf) \in Nat /\ PacketLen(tbBuf) \in Int
        BY <4>1, <4>2, CommandsAssumption DEF Sane, HeaderSize
      <4> QED
        BY <4>2, <4>3 DEF Complete
    <3>3. called' = called \o Executed(tbBuf)
      <4>1. called \in Seq(Packet)
        BY <3>1 DEF OnTrack
      <4>2. called' = IF Expected(FirstPacket(tbBuf))
                      THEN Append(called, FirstPacket(tbBuf)) ELSE called
        BY <1>3 DEF TbPacket
      <4>3. FirstPacket(tbBuf) \in Packet
        BY <2>1, <3>2, CompletePacket DEF CmdInv
      <4>4. \A q \in Packet : Append(called, q) = called \o <<q>>
        BY <4>1
      <4>5. called = called \o <<>>
        BY <4>1
      <4> QED
        BY <4>2, <4>3, <4>4, <4>5 DEF Executed
    <3>4. tbBuf' = SubSeq(tbBuf, PacketLen(tbBuf) + 1, Len(tbBuf))
      BY <1>3 DEF TbPacket, Remaining
    <3>5. OnTrack(stream, end, tbBuf', called')
      BY <1>0, <3>1, <3>2, <3>3, <3>4, TrackExecutes
    <3> QED
      BY <2>1, <3>5 DEF TrackInv
  <2> QED
    BY <2>2, <2>3
<1>4. CASE TbNeedsMore
  <2>1. /\ tbPc = "packets" /\ tbPc' = "receive"
        /\ stream' = stream /\ end' = end /\ tbBuf' = tbBuf /\ called' = called
        /\ misread' = misread
    BY <1>4 DEF TbNeedsMore, inputVars
  <2>2. ~Complete(tbBuf)
    <3> SUFFICES ASSUME Complete(tbBuf) PROVE FALSE
      OBVIOUS
    <3>1. tbBuf \in Seq(Byte)
      BY <2>1 DEF CmdInv
    <3>2. PacketLen(tbBuf) \in Nat /\ PacketLen(tbBuf) <= Len(tbBuf) /\ Len(tbBuf) \in Nat
      BY <3>1, CompletePacket
    <3>3. Len(tbBuf) < PacketLen(tbBuf)
      BY <1>4 DEF TbNeedsMore, Complete
    <3> QED
      BY <3>2, <3>3
  <2> QED
    BY <2>1, <2>2 DEF TrackInv
<1>5. CASE TbReceive
  <2>1. /\ tbPc = "receive" /\ tbPc' = "packets" /\ stream' = stream
        /\ called' = called /\ misread' = misread
        /\ tbBuf' = tbBuf \o SubSeq(stream, end + 1, end')
    BY <1>5 DEF TbReceive
  <2>2. CASE misread
    BY <2>1, <2>2 DEF TrackInv
  <2>3. CASE ~misread
    <3>1. OnTrack(stream, end, tbBuf, called)
      BY <2>1, <2>3 DEF TrackInv
    <3>2. end' \in end..Len(stream)
      <4>1. end' \in (end + 1)..Min({end + TbSize - Len(tbBuf), Len(stream)})
        BY <1>5 DEF TbReceive
      <4>2. end + TbSize - Len(tbBuf) \in Int
        BY <1>0, <3>1, CommandsAssumption DEF OnTrack
      <4>3. Min({end + TbSize - Len(tbBuf), Len(stream)}) <= Len(stream)
            /\ Min({end + TbSize - Len(tbBuf), Len(stream)}) \in Int
        BY <1>0, <4>2, MinOfTwo
      <4> QED
        BY <1>0, <4>1, <4>3
    <3>3. OnTrack(stream, end', tbBuf', called)
      BY <1>0, <2>1, <3>1, <3>2, TrackReceives
    <3> QED
      BY <2>1, <3>3 DEF TrackInv
  <2> QED
    BY <2>2, <2>3
<1>6. CASE TbReceiveFails
  BY <1>6 DEF TbReceiveFails, TrackInv
<1>7. CASE TbFollows
  <2>1. /\ called' = <<>> /\ tbBuf' = tbBuf /\ end' = 0 /\ stream' \in Seq(Byte)
        /\ tbPc' = "receive" /\ misread' = (tbBuf # <<>>)
    BY <1>0, <1>7 DEF TbFollows, Connect
  <2>2. ~Complete(<<>>)
    BY DEF Complete, HasHeader, HeaderSize
  <2>3. OnTrack(stream', 0, <<>>, <<>>)
    BY <2>1, TrackStarts
  <2>4. CASE tbBuf = <<>>
    BY <2>1, <2>2, <2>3, <2>4 DEF TrackInv
  <2>5. CASE tbBuf # <<>>
    BY <2>1, <2>5 DEF TrackInv
  <2> QED
    BY <2>4, <2>5
<1> QED
  BY <1>1, <1>2, <1>3, <1>4, <1>5, <1>6, <1>7 DEF CmdNext

-----------------------------------------------------------------------------
(* INPUT: the reference scanner, state after state.                        *)

(* Its state, and its state behind a SYNC of which it does not know yet    *)
(* what it means.                                                          *)
Plain(f, fs) == Scan(FALSE, f, fs)
AfterSync(f, fs) == Scan(TRUE, f, fs)

Scans(h, b, k) ==
    h = [i \in 0..k |-> IF i = 0 THEN Scanner ELSE ScanByte(h[i - 1], b[i])]

LEMMA ScansExists ==
    ASSUME NEW b, NEW k \in Nat
    PROVE  \E h : Scans(h, b, k)
<1> DEFINE T == {m \in Nat : ~\E h : Scans(h, b, m)}
<1> SUFFICES ASSUME T # {} PROVE FALSE
  OBVIOUS
<1>1. PICK m \in T : \A y \in T : m <= y
  <2>1. T \subseteq Nat
    OBVIOUS
  <2> HIDE DEF T
  <2>2. Min(T) \in T /\ \A y \in T : Min(T) <= y
    BY <2>1, LeastElement
  <2> QED
    BY <2>2
<1>2. m # 0
  <2>1. Scans([i \in 0..0 |-> Scanner], b, 0)
    BY DEF Scans
  <2> QED
    BY <1>1, <2>1
<1>3. m - 1 \in Nat /\ m - 1 \notin T
  BY <1>1, <1>2
<1>4. PICK h : Scans(h, b, m - 1)
  BY <1>3
<1> DEFINE g == [i \in 0..m |-> IF i = m THEN ScanByte(h[m - 1], b[m]) ELSE h[i]]
<1>5. ASSUME NEW i \in 0..m
      PROVE  g[i] = IF i = 0 THEN Scanner ELSE ScanByte(g[i - 1], b[i])
  <2>1. CASE i = m
    <3>1. g[m - 1] = h[m - 1] /\ g[i] = ScanByte(h[m - 1], b[m])
      BY <1>2, <1>3, <2>1
    <3> QED
      BY <1>2, <2>1, <3>1, Zenon
  <2>2. CASE i # m
    <3>1. i \in 0..(m - 1) /\ (i # 0 => i - 1 \in 0..m /\ i - 1 # m)
      BY <1>3, <2>2
    <3>2. h[i] = IF i = 0 THEN Scanner ELSE ScanByte(h[i - 1], b[i])
      BY <1>4, <3>1, Zenon DEF Scans
    <3>3. g[i] = h[i] /\ (i # 0 => g[i - 1] = h[i - 1])
      BY <2>2, <3>1, Zenon
    <3> QED
      BY <3>2, <3>3, Zenon
  <2> QED
    BY <2>1, <2>2
<1>6. Scans(g, b, m)
  BY <1>5, Zenon DEF Scans
<1> QED
  BY <1>1, <1>6

LEMMA ScannedStates ==
    ASSUME NEW b, Len(b) \in Nat
    PROVE  /\ Scanned(b)[0] = Scanner
           /\ \A i \in 1..Len(b) : Scanned(b)[i] = ScanByte(Scanned(b)[i - 1], b[i])
<1> DEFINE h == CHOOSE g : Scans(g, b, Len(b))
<1>1. Scans(h, b, Len(b))
  BY ScansExists
<1>2. Scanned(b) = h
  BY DEF Scanned, Scans
<1> HIDE DEF h
<1>3. \A i \in 0..Len(b) : h[i] = IF i = 0 THEN Scanner ELSE ScanByte(h[i - 1], b[i])
  BY <1>1, Zenon DEF Scans
<1>4. 0 \in 0..Len(b)
  OBVIOUS
<1>5. \A i \in 1..Len(b) : i \in 0..Len(b) /\ i # 0
  OBVIOUS
<1>6. h[0] = Scanner
  BY <1>3, <1>4, Zenon
<1>7. \A i \in 1..Len(b) : h[i] = ScanByte(h[i - 1], b[i])
  BY <1>3, <1>5, Zenon
<1> QED
  BY <1>2, <1>6, <1>7, Zenon

(* What one byte does to a state.                                          *)
LEMMA ScanSync ==
    ASSUME NEW f, NEW fs
    PROVE  ScanByte(Plain(f, fs), BEAST_SYNC) = AfterSync(f, fs)
  BY DEF ScanByte, Scan, Plain, AfterSync

LEMMA ScanSkips ==
    ASSUME NEW fs, NEW byte, byte # BEAST_SYNC
    PROVE  ScanByte(Plain(NoFrame, fs), byte) = Plain(NoFrame, fs)
  BY DEF ScanByte, ScanData, Scan, Plain, AfterSync

LEMMA ScanEscapedSkips ==
    ASSUME NEW fs
    PROVE  ScanByte(AfterSync(NoFrame, fs), BEAST_SYNC) = Plain(NoFrame, fs)
  BY DEF ScanByte, ScanData, Scan, Plain, AfterSync

LEMMA ScanBegins ==
    ASSUME NEW f, NEW fs, NEW byte, byte # BEAST_SYNC
    PROVE  ScanByte(AfterSync(f, fs), byte) =
               Plain(IF byte \in DOMAIN PayloadLen
                           THEN FrameOf(byte, <<>>, <<BEAST_SYNC, byte>>)
                           ELSE NoFrame, fs)
  BY DEF ScanByte, ScanStart, Scan, Plain, AfterSync

(* A byte of a frame.                                                      *)
Grown(t, c, r, fs) ==
    IF Len(c) < FrameLen(t) THEN Plain(FrameOf(t, c, r), fs)
    ELSE Plain(NoFrame, Append(fs, FrameOf(t, c, r)))

LEMMA ScanGrows ==
    ASSUME NEW s, NEW t, NEW c, NEW r, NEW fs, NEW byte, NEW wire, r # <<>>,
           s.frame = FrameOf(t, c, r), s.frames = fs
    PROVE  ScanData(s, byte, wire) = Grown(t, Append(c, byte), r \o wire, fs)
<1>1. FrameOf(t, c, r) # NoFrame
  <2>1. NoFrame.raw = <<>>
    BY DEF NoFrame, FrameOf
  <2>2. FrameOf(t, c, r).raw = r
    BY DEF FrameOf
  <2> QED
    BY <2>1, <2>2, Zenon
<1> DEFINE f == FrameOf(t, Append(c, byte), r \o wire)
<1>3. /\ FrameOf(t, c, r).type = t /\ FrameOf(t, c, r).content = c
      /\ FrameOf(t, c, r).raw = r
      /\ f.type = t /\ f.content = Append(c, byte)
  BY DEF FrameOf
<1>4. FrameOf(s.frame.type, Append(s.frame.content, byte), s.frame.raw \o wire) = f
  BY <1>3, Zenon
<1>5. ScanData(s, byte, wire) =
          IF Len(f.content) < FrameLen(f.type) THEN Plain(f, fs)
          ELSE Plain(NoFrame, Append(fs, f))
  BY <1>1, <1>4, Zenon DEF ScanData, Plain
<1> QED
  BY <1>3, <1>5, Zenon DEF Grown

LEMMA ScanReads ==
    ASSUME NEW t, NEW c, NEW r, r # <<>>, NEW fs
    PROVE  /\ \A byte : byte # BEAST_SYNC =>
                 ScanByte(Plain(FrameOf(t, c, r), fs), byte) =
                     Grown(t, Append(c, byte), r \o <<byte>>, fs)
           /\ ScanByte(AfterSync(FrameOf(t, c, r), fs), BEAST_SYNC) =
                  Grown(t, Append(c, BEAST_SYNC), r \o <<BEAST_SYNC, BEAST_SYNC>>, fs)
<1> DEFINE s == Plain(FrameOf(t, c, r), fs)
           u == AfterSync(FrameOf(t, c, r), fs)
<1>1. /\ ~s.escape /\ s.frame = FrameOf(t, c, r) /\ s.frames = fs
      /\ u.escape /\ u.frame = FrameOf(t, c, r) /\ u.frames = fs
  BY DEF Scan, Plain, AfterSync
<1> HIDE DEF s, u
<1>2. ASSUME NEW byte, byte # BEAST_SYNC
      PROVE  ScanByte(s, byte) = Grown(t, Append(c, byte), r \o <<byte>>, fs)
  <2>1. ScanByte(s, byte) = ScanData(s, byte, <<byte>>)
    BY <1>1, <1>2, Zenon DEF ScanByte
  <2> QED
    BY <1>1, <2>1, ScanGrows
<1>3. ScanByte(u, BEAST_SYNC) =
          Grown(t, Append(c, BEAST_SYNC), r \o <<BEAST_SYNC, BEAST_SYNC>>, fs)
  <2>1. ScanByte(u, BEAST_SYNC) = ScanData(u, BEAST_SYNC, <<BEAST_SYNC, BEAST_SYNC>>)
    BY <1>1, Zenon DEF ScanByte
  <2> QED
    BY <1>1, <2>1, ScanGrows
<1> QED
  BY <1>2, <1>3, Zenon DEF s, u

LEMMA ScanFrames ==
    \A f, fs : Plain(f, fs).frames = fs /\ AfterSync(f, fs).frames = fs
  BY DEF Plain, AfterSync, Scan

(* What memchr() finds in the buffer, in terms of the stream.              *)
LEMMA FindInStream ==
    ASSUME InputInv, NEW ch, NEW n \in 0..(end - cur)
    PROVE  LET k == Find(Buffered, ch, n)
           IN  /\ k \in 0..n
               /\ k = 0 => \A i \in 1..n : stream[cur + i] # ch
               /\ k # 0 => /\ k \in 1..n /\ stream[cur + k] = ch
                           /\ \A i \in 1..(k - 1) : stream[cur + i] # ch
<1> DEFINE b == Buffered
           found == {i \in 1..n : b[i] = ch}
           k == Find(b, ch, n)
<1>1. /\ stream \in Seq(Byte) /\ cur \in Nat /\ end \in Nat
      /\ cur <= end /\ end <= Len(stream) /\ Len(stream) \in Nat
  BY DEF InputInv, InputOK
<1>2. \A i \in 1..(end - cur) : b[i] = stream[cur + i]
  BY <1>1 DEF Buffered
<1>3. n \in Nat /\ \A i \in 1..n : i \in 1..(end - cur) /\ i \in Nat
  BY <1>1
<1>4. \A i \in 1..n : b[i] = stream[cur + i]
  BY <1>2, <1>3
<1> HIDE DEF b
<1>5. k = IF found = {} THEN 0 ELSE Min(found)
  BY DEF Find
<1>6. CASE found = {}
  <2>1. k = 0
    BY <1>5, <1>6
  <2>2. \A i \in 1..n : stream[cur + i] # ch
    BY <1>4, <1>6
  <2> HIDE DEF k
  <2> QED
    BY <1>3, <2>1, <2>2 DEF b, k
<1>7. CASE found # {}
  <2>1. found \subseteq Nat
    BY <1>3
  <2> HIDE DEF found
  <2>2. Min(found) \in found /\ \A y \in found : Min(found) <= y
    BY <1>7, <2>1, LeastElement
  <2>3. k \in found /\ \A y \in found : k <= y
    BY <1>5, <1>7, <2>2
  <2> HIDE DEF k
  <2>4. k \in 1..n /\ b[k] = ch
    BY <2>3 DEF found
  <2>5. stream[cur + k] = ch
    BY <1>4, <2>4
  <2>6. ASSUME NEW i \in 1..(k - 1) PROVE stream[cur + i] # ch
    <3>1. i \in 1..n /\ ~(k <= i)
      BY <1>3, <2>4
    <3>2. i \notin found
      BY <2>3, <3>1
    <3>3. b[i] # ch
      BY <3>1, <3>2 DEF found
    <3> QED
      BY <1>4, <3>1, <3>3
  <2>7. k \in 0..n /\ k # 0
    BY <1>3, <2>4
  <2> QED
    BY <2>4, <2>5, <2>6, <2>7 DEF b, k
<1> QED
  BY <1>6, <1>7

LEMMA BufferedPart ==
    ASSUME InputInv, NEW n \in 0..(end - cur)
    PROVE  SubSeq(Buffered, 1, n) = SubSeq(stream, cur + 1, cur + n)
<1>1. /\ stream \in Seq(Byte) /\ cur \in Nat /\ end \in Nat
      /\ cur <= end /\ end <= Len(stream) /\ Len(stream) \in Nat
      /\ n \in Nat /\ n <= end - cur /\ cur + n \in Nat /\ cur + n <= Len(stream)
  BY DEF InputInv, InputOK
<1> DEFINE b == Buffered
<1>2. b \in Seq(Byte) /\ Len(b) = end - cur
  BY BufferedBytes
<1>3. \A i \in 1..(end - cur) : b[i] = stream[cur + i]
  BY <1>1 DEF Buffered
<1> HIDE DEF b
<1>4. /\ SubSeq(b, 1, n) \in Seq(Byte) /\ Len(SubSeq(b, 1, n)) = n
      /\ \A i \in 1..n : SubSeq(b, 1, n)[i] = b[i]
  BY <1>1, <1>2
<1>5. /\ SubSeq(stream, cur + 1, cur + n) \in Seq(Byte)
      /\ Len(SubSeq(stream, cur + 1, cur + n)) = n
      /\ \A i \in 1..n : SubSeq(stream, cur + 1, cur + n)[i] = stream[cur + i]
  BY <1>1
<1>6. \A i \in 1..n : b[i] = stream[cur + i]
  BY <1>1, <1>3
<1>7. SubSeq(b, 1, n) = SubSeq(stream, cur + 1, cur + n)
  <2>1. \A i \in 1..n : SubSeq(b, 1, n)[i] = SubSeq(stream, cur + 1, cur + n)[i]
    BY <1>4, <1>5, <1>6, Zenon
  <2> QED
    BY <1>4, <1>5, <2>1, SMTT(30)
<1> QED
  BY <1>7 DEF b

LEMMA AppendToJoin ==
    \A s, t \in Seq(Byte) : \A x \in Byte :
        /\ Append(s \o t, x) = s \o Append(t, x)
        /\ (s \o t) \o <<x>> = Append(s \o t, x)
<1> SUFFICES ASSUME NEW s \in Seq(Byte), NEW t \in Seq(Byte), NEW x \in Byte
             PROVE  /\ Append(s \o t, x) = s \o Append(t, x)
                    /\ (s \o t) \o <<x>> = Append(s \o t, x)
  BY Zenon
<1>1. /\ s \o t \in Seq(Byte) /\ Len(s \o t) = Len(s) + Len(t)
      /\ \A i \in 1..(Len(s) + Len(t)) :
            (s \o t)[i] = IF i <= Len(s) THEN s[i] ELSE t[i - Len(s)]
  OBVIOUS
<1>2. Append(t, x) \in Seq(Byte) /\ Len(Append(t, x)) = Len(t) + 1
      /\ \A i \in 1..(Len(t) + 1) : Append(t, x)[i] = IF i <= Len(t) THEN t[i] ELSE x
  OBVIOUS
<1> DEFINE u == s \o t
           v == Append(t, x)
<1> HIDE DEF u, v
<1>3. u \o <<x>> = Append(u, x)
  BY <1>1 DEF u
<1>4. Append(u, x) = s \o v
  BY <1>1, <1>2, SMTT(40) DEF u, v
<1> QED
  BY <1>3, <1>4, Zenon DEF u, v

(* A sequence and the bytes behind place p, one more at a time.            *)
(* The k-th byte behind place p of s, put behind c and the k - 1 before it. *)
PutBehind(s, c, p, k) ==
    /\ Append(c \o SubSeq(s, p + 1, p + (k - 1)), s[p + k]) =
           c \o SubSeq(s, p + 1, p + k)
    /\ (c \o SubSeq(s, p + 1, p + (k - 1))) \o <<s[p + k]>> =
           c \o SubSeq(s, p + 1, p + k)

LEMMA NextByte ==
    ASSUME NEW s \in Seq(Byte), NEW c \in Seq(Byte), NEW p \in Nat, NEW k \in Nat,
           k >= 1, p + k <= Len(s)
    PROVE  PutBehind(s, c, p, k)
<1> DEFINE u == SubSeq(s, p + 1, p + (k - 1))
           v == SubSeq(s, p + 1, p + k)
           x == s[p + k]
<1>1. /\ u \in Seq(Byte) /\ Len(u) = k - 1
      /\ \A i \in 1..(k - 1) : u[i] = s[p + i]
  OBVIOUS
<1>2. /\ v \in Seq(Byte) /\ Len(v) = k
      /\ \A i \in 1..k : v[i] = s[p + i]
  OBVIOUS
<1>3. x \in Byte /\ Len(c) \in Nat
  OBVIOUS
<1>4. v[k] = x
  BY <1>2
<1> HIDE DEF u, v, x
<1>5. \A i \in 1..(k - 1) : v[i] = u[i]
  <2>1. \A i \in 1..(k - 1) : i \in 1..k
    OBVIOUS
  <2> QED
    BY <1>1, <1>2, <2>1, Zenon
<1>6. v = Append(u, x)
  BY <1>1, <1>2, <1>3, <1>4, <1>5
<1>7. Append(c \o u, x) = c \o Append(u, x) /\ (c \o u) \o <<x>> = Append(c \o u, x)
  <2>1. c \in Seq(Byte) /\ u \in Seq(Byte) /\ x \in Byte
    BY <1>1, <1>3
  <2> QED
    BY <2>1, AppendToJoin, Zenon
<1> QED
  BY <1>6, <1>7, Zenon DEF PutBehind, u, v, x

(* The n bytes behind place p are no SYNCs.                                *)
NoSync(s, p, n) == \A i \in 1..n : s[p + i] # BEAST_SYNC

LEMMA SkipRun ==
    ASSUME NEW s \in Seq(Byte), NEW p \in Nat, NEW n \in Nat, p + n <= Len(s), NEW fs,
           Scanned(s)[p] = Plain(NoFrame, fs),
           NoSync(s, p, n)
    PROVE  Scanned(s)[p + n] = Plain(NoFrame, fs)
<1> DEFINE S(k) == Scanned(s)[p + k]
           T == {k \in 0..n : S(k) # Plain(NoFrame, fs)}
<1>0. Len(s) \in Nat
  OBVIOUS
<1>1. ASSUME T # {} PROVE FALSE
  <2>1. T \subseteq Nat
    OBVIOUS
  <2>2. PICK k \in T : \A y \in T : k <= y
    <3> HIDE DEF T
    <3> QED
      BY <1>1, <2>1, LeastElement
  <2>3. k # 0
    BY <2>2
  <2>4. k - 1 \in 0..n /\ ~(k <= k - 1) /\ k \in 1..n /\ p + k \in 1..Len(s)
        /\ (p + k) - 1 = p + (k - 1)
    BY <1>0, <2>2, <2>3
  <2>5. S(k - 1) = Plain(NoFrame, fs)
    BY <2>2, <2>4
  <2>6. S(k) = ScanByte(S(k - 1), s[p + k])
    <3>1. \A i \in 1..Len(s) : Scanned(s)[i] = ScanByte(Scanned(s)[i - 1], s[i])
      BY <1>0, ScannedStates
    <3> QED
      BY <2>4, <3>1
  <2>7. S(k) = Plain(NoFrame, fs)
    BY <2>4, <2>5, <2>6, ScanSkips DEF NoSync
  <2> QED
    BY <2>2, <2>7
<1>2. n \in 0..n
  OBVIOUS
<1> QED
  BY <1>1, <1>2

LEMMA DecodeRun ==
    ASSUME NEW s \in Seq(Byte), NEW p \in Nat, NEW n \in Nat, p + n <= Len(s), NEW fs,
           NEW t, NEW c \in Seq(Byte), NEW r \in Seq(Byte), r # <<>>,
           FrameLen(t) \in Nat, Len(c) < FrameLen(t), Len(c) + n <= FrameLen(t),
           Scanned(s)[p] = Plain(FrameOf(t, c, r), fs),
           NoSync(s, p, n)
    PROVE  Scanned(s)[p + n] =
               Grown(t, c \o SubSeq(s, p + 1, p + n), r \o SubSeq(s, p + 1, p + n), fs)
<1> DEFINE S(k) == Scanned(s)[p + k]
           C(k) == c \o SubSeq(s, p + 1, p + k)
           R(k) == r \o SubSeq(s, p + 1, p + k)
           T == {k \in 0..n : S(k) # Grown(t, C(k), R(k), fs)}
<1>0. Len(s) \in Nat /\ Len(c) \in Nat
  OBVIOUS
<1>1. ASSUME T # {} PROVE FALSE
  <2>1. T \subseteq Nat
    OBVIOUS
  <2>2. PICK k \in T : \A y \in T : k <= y
    <3> HIDE DEF T
    <3> QED
      BY <1>1, <2>1, LeastElement
  <2>3. k # 0
    <3>1. c \o SubSeq(s, p + 1, p + 0) = c /\ r \o SubSeq(s, p + 1, p + 0) = r
      <4>1. SubSeq(s, p + 1, p + 0) = <<>>
        OBVIOUS
      <4> QED
        BY <4>1
    <3>2. p + 0 = p
      OBVIOUS
    <3>3. Grown(t, c, r, fs) = Plain(FrameOf(t, c, r), fs)
      BY DEF Grown
    <3>4. S(0) = Grown(t, C(0), R(0), fs)
      BY <3>1, <3>2, <3>3, Zenon
    <3> QED
      BY <2>2, <3>4, Zenon
  <2>4. k - 1 \in 0..n /\ ~(k <= k - 1) /\ k \in 1..n /\ p + k \in 1..Len(s)
        /\ (p + k) - 1 = p + (k - 1) /\ k \in Nat /\ k >= 1 /\ p + k <= Len(s)
    BY <1>0, <2>2, <2>3
  <2>5. S(k - 1) = Grown(t, C(k - 1), R(k - 1), fs)
    BY <2>2, <2>4, Zenon
  <2>6. S(k) = ScanByte(S(k - 1), s[p + k])
    <3>1. \A i \in 1..Len(s) : Scanned(s)[i] = ScanByte(Scanned(s)[i - 1], s[i])
      BY <1>0, ScannedStates
    <3> QED
      BY <2>4, <3>1
  <2>7. C(k - 1) \in Seq(Byte) /\ Len(C(k - 1)) = Len(c) + (k - 1)
    <3>1. /\ SubSeq(s, p + 1, p + (k - 1)) \in Seq(Byte)
          /\ Len(SubSeq(s, p + 1, p + (k - 1))) = k - 1
      BY <1>0, <2>4
    <3> QED
      BY <3>1, Joined
  <2>8. R(k - 1) # <<>>
    <3>1. /\ SubSeq(s, p + 1, p + (k - 1)) \in Seq(Byte)
      BY <1>0, <2>4
    <3>2. /\ Len(R(k - 1)) = Len(r) + Len(SubSeq(s, p + 1, p + (k - 1)))
      BY <3>1, Joined
    <3>3. Len(r) > 0 /\ Len(r) \in Nat /\ Len(SubSeq(s, p + 1, p + (k - 1))) \in Nat
      BY <3>1
    <3>4. Len(R(k - 1)) # 0
      BY <3>2, <3>3
    <3> HIDE DEF R
    <3> QED
      BY <3>4
  <2>9. Len(C(k - 1)) < FrameLen(t)
    BY <1>0, <2>4, <2>7
  <2>10. S(k - 1) = Plain(FrameOf(t, C(k - 1), R(k - 1)), fs)
    BY <2>5, <2>9, Zenon DEF Grown
  <2>11. s[p + k] # BEAST_SYNC
    BY <2>4 DEF NoSync
  <2>12. S(k) = Grown(t, Append(C(k - 1), s[p + k]), R(k - 1) \o <<s[p + k]>>, fs)
    <3> DEFINE x == C(k - 1)
               y == R(k - 1)
    <3> HIDE DEF x, y
    <3>1. ScanByte(Plain(FrameOf(t, x, y), fs), s[p + k]) =
              Grown(t, Append(x, s[p + k]), y \o <<s[p + k]>>, fs)
      <4>1. y # <<>>
        BY <2>8 DEF y
      <4> QED
        BY <2>11, <4>1, ScanReads
    <3>2. S(k - 1) = Plain(FrameOf(t, x, y), fs)
      BY <2>10 DEF x, y
    <3> HIDE DEF S
    <3>3. S(k) = Grown(t, Append(x, s[p + k]), y \o <<s[p + k]>>, fs)
      BY <2>6, <3>1, <3>2
    <3> QED
      BY <3>3 DEF x, y
  <2>13. Append(C(k - 1), s[p + k]) = C(k) /\ R(k - 1) \o <<s[p + k]>> = R(k)
    <3>1. /\ Append(c \o SubSeq(s, p + 1, p + (k - 1)), s[p + k]) =
                 c \o SubSeq(s, p + 1, p + k)
      <4>1. k \in Nat /\ k >= 1 /\ p + k <= Len(s)
        BY <2>4
      <4>2. PutBehind(s, c, p, k)
        BY <4>1, NextByte
      <4> QED
        BY <4>2, Zenon DEF PutBehind
    <3>2. /\ (r \o SubSeq(s, p + 1, p + (k - 1))) \o <<s[p + k]>> =
                 r \o SubSeq(s, p + 1, p + k)
      <4>1. k \in Nat /\ k >= 1 /\ p + k <= Len(s)
        BY <2>4
      <4>2. PutBehind(s, r, p, k)
        BY <4>1, NextByte
      <4> QED
        BY <4>2, Zenon DEF PutBehind
    <3> QED
      BY <3>1, <3>2, Zenon
  <2>14. S(k) = Grown(t, C(k), R(k), fs)
    BY <2>12, <2>13, Zenon
  <2> QED
    BY <2>2, <2>14, Zenon
<1>2. n \in 0..n
  OBVIOUS
<1>3. n \notin T
  BY <1>1, <1>2
<1> QED
  BY <1>2, <1>3, Zenon

-----------------------------------------------------------------------------
(* INPUT: the parser and the reference scanner go together.                *)

(* The scanner's state s after the bytes consumed, of which byte is the    *)
(* next one, is where the parser is.  Behind a SYNC that ended a truncated *)
(* frame, the parser has seen that the next byte is no SYNC.               *)
Matches(pc, s, byte, t, c, r, fs) ==
    /\ pc \in {"sync", "synchronize"} \cup Filtering => s = Plain(NoFrame, fs)
    /\ pc = "synchronizePeek" => s = AfterSync(NoFrame, fs)
    /\ pc = "type" =>
          \E f : s = AfterSync(f, fs) /\ (f # NoFrame => byte # BEAST_SYNC)
    /\ pc = "decode" => r # <<>> /\ s = Plain(FrameOf(t, c, r), fs)
    /\ pc = "decodePeek" =>
          \E w \in Seq(Byte) : /\ w # <<>> /\ r = w \o <<BEAST_SYNC>>
                               /\ s = AfterSync(FrameOf(t, c, w), fs)

ScanInv ==
    rcPc \notin {"off", "connect"} =>
        Matches(rcPc, Scanned(stream)[cur], Peek, type, content, raw, parsed)

LEMMA NextState ==
    ASSUME InputInv, NEW p \in Nat, p < end
    PROVE  Scanned(stream)[p + 1] = ScanByte(Scanned(stream)[p], stream[p + 1])
<1>1. Len(stream) \in Nat /\ p + 1 \in 1..Len(stream) /\ (p + 1) - 1 = p
  BY DEF InputInv, InputOK
<1>2. \A i \in 1..Len(stream) :
          Scanned(stream)[i] = ScanByte(Scanned(stream)[i - 1], stream[i])
  BY <1>1, ScannedStates
<1> QED
  BY <1>1, <1>2

LEMMA Consumed ==
    ASSUME InputInv, NEW to, NEW n, Step(to, n)
    PROVE  stream' = stream /\ cur' = cur + n /\ rcPc' = to
           /\ Scanned(stream)[cur]' = Scanned(stream)[cur + n]
  BY DEF Step, Consume

LEMMA InputTypes ==
    ASSUME InputInv
    PROVE  /\ stream \in Seq(Byte) /\ cur \in Nat /\ end \in Nat /\ Len(stream) \in Nat
           /\ cur <= end /\ end <= Len(stream)
           /\ Peek = stream[cur + 1]
  BY DEF InputInv, InputOK, Peek

LEMMA ScanConnects ==
    ASSUME RcInv, RcConnect
    PROVE  ScanInv'
<1>1. parsed = <<>>
  BY DEF RcInv, RecvInv, FilterInv, RcConnect
<1>2. /\ rcPc' = "sync" /\ cur' = 0 /\ parsed' = parsed /\ stream' \in Seq(Byte)
  BY RadarcapeAssumption DEF RcConnect, Connect
<1>3. Scanned(stream')[0] = Plain(NoFrame, <<>>)
  <2>1. Len(stream') \in Nat
    BY <1>2
  <2> QED
    BY <2>1, ScannedStates DEF Scanner, Plain
<1> QED
  BY <1>1, <1>2, <1>3 DEF ScanInv, Matches, Filtering

LEMMA ScanSyncs ==
    ASSUME InputInv, ScanInv, RcSync
    PROVE  ScanInv'
<1>1. /\ rcPc = "sync" /\ cur < end /\ parsed' = parsed
      /\ Step(IF Peek = BEAST_SYNC THEN "type" ELSE "synchronize", 1)
  BY DEF RcSync, At
<1>2. Scanned(stream)[cur] = Plain(NoFrame, parsed)
  BY <1>1 DEF ScanInv, Matches
<1>3. Scanned(stream)[cur + 1] = ScanByte(Plain(NoFrame, parsed), Peek)
  BY <1>1, <1>2, NextState, InputTypes
<1>4. CASE Peek = BEAST_SYNC
  <2>1. rcPc' = "type" /\ Scanned(stream)[cur]' = AfterSync(NoFrame, parsed)
    BY <1>1, <1>3, <1>4, Consumed, ScanSync
  <2> QED
    BY <1>1, <2>1 DEF ScanInv, Matches, Filtering
<1>5. CASE Peek # BEAST_SYNC
  <2>1. rcPc' = "synchronize" /\ Scanned(stream)[cur]' = Plain(NoFrame, parsed)
    BY <1>1, <1>3, <1>5, Consumed, ScanSkips
  <2> QED
    BY <1>1, <2>1 DEF ScanInv, Matches, Filtering
<1> QED
  BY <1>4, <1>5

LEMMA ScanSynchronizes ==
    ASSUME InputInv, ScanInv, RcSynchronize
    PROVE  ScanInv'
<1> DEFINE n == end - cur
           k == Find(Buffered, BEAST_SYNC, n)
<1>1. /\ rcPc = "synchronize" /\ cur < end /\ parsed' = parsed
      /\ IF k # 0 THEN Step("synchronizePeek", k) ELSE Step("synchronize", n)
  BY DEF RcSynchronize, At
<1>2. Scanned(stream)[cur] = Plain(NoFrame, parsed)
  BY <1>1 DEF ScanInv, Matches
<1>3. /\ n \in Nat /\ n \in 0..(end - cur) /\ cur + n <= Len(stream)
      /\ stream \in Seq(Byte) /\ cur \in Nat /\ end \in Nat
  BY <1>1, InputTypes
<1>4. /\ k \in 0..n
      /\ k = 0 => \A i \in 1..n : stream[cur + i] # BEAST_SYNC
      /\ k # 0 => /\ k \in 1..n /\ stream[cur + k] = BEAST_SYNC
                  /\ \A i \in 1..(k - 1) : stream[cur + i] # BEAST_SYNC
  BY <1>3, FindInStream
<1>9. n = end - cur
  OBVIOUS
<1> HIDE DEF k, n
<1>5. CASE k = 0
  <2>0. NoSync(stream, cur, n)
    BY <1>4, <1>5 DEF NoSync
  <2>1. Scanned(stream)[cur + n] = Plain(NoFrame, parsed)
    BY <1>2, <1>3, <2>0, SkipRun
  <2>2. rcPc' = "synchronize" /\ Scanned(stream)[cur]' = Plain(NoFrame, parsed)
    BY <1>1, <1>5, <2>1, Consumed
  <2> QED
    BY <1>1, <2>2 DEF ScanInv, Matches, Filtering
<1>6. CASE k # 0
  <2>1. k \in Nat /\ k - 1 \in Nat /\ cur + (k - 1) <= Len(stream)
        /\ cur + (k - 1) \in Nat /\ cur + (k - 1) < end /\ (cur + (k - 1)) + 1 = cur + k
    BY <1>3, <1>4, <1>6, <1>9
  <2>2. Scanned(stream)[cur + (k - 1)] = Plain(NoFrame, parsed)
    <3>1. \A i \in 1..(k - 1) : stream[cur + i] # BEAST_SYNC
      BY <1>4, <1>6
    <3> DEFINE m == k - 1
    <3> HIDE DEF m
    <3>2. m \in Nat /\ cur + m <= Len(stream) /\ NoSync(stream, cur, m)
      BY <2>1, <3>1 DEF m, NoSync
    <3>3. Scanned(stream)[cur + m] = Plain(NoFrame, parsed)
      BY <1>2, <1>3, <3>2, SkipRun
    <3> QED
      BY <3>3 DEF m
  <2>3. Scanned(stream)[cur + k] = ScanByte(Plain(NoFrame, parsed), BEAST_SYNC)
    <3>1. Scanned(stream)[(cur + (k - 1)) + 1] =
              ScanByte(Scanned(stream)[cur + (k - 1)], stream[(cur + (k - 1)) + 1])
      BY <2>1, NextState
    <3> QED
      BY <1>4, <1>6, <2>1, <2>2, <3>1
  <2>4. rcPc' = "synchronizePeek" /\ Scanned(stream)[cur]' = AfterSync(NoFrame, parsed)
    BY <1>1, <1>6, <2>3, Consumed, ScanSync
  <2> QED
    BY <1>1, <2>4 DEF ScanInv, Matches, Filtering
<1> QED
  BY <1>5, <1>6

LEMMA ScanPeeks ==
    ASSUME InputInv, ScanInv, RcSynchronizePeek
    PROVE  ScanInv'
<1>1. /\ rcPc = "synchronizePeek" /\ cur < end /\ parsed' = parsed
      /\ IF Peek = BEAST_SYNC THEN Step("synchronize", 1) ELSE Step("type", 0)
  BY DEF RcSynchronizePeek, At
<1>2. Scanned(stream)[cur] = AfterSync(NoFrame, parsed)
  BY <1>1 DEF ScanInv, Matches
<1>3. Scanned(stream)[cur + 1] = ScanByte(AfterSync(NoFrame, parsed), Peek)
  BY <1>1, <1>2, NextState, InputTypes
<1>4. CASE Peek = BEAST_SYNC
  <2>1. rcPc' = "synchronize" /\ Scanned(stream)[cur]' = Plain(NoFrame, parsed)
    BY <1>1, <1>3, <1>4, Consumed, ScanEscapedSkips
  <2> QED
    BY <1>1, <2>1 DEF ScanInv, Matches, Filtering
<1>5. CASE Peek # BEAST_SYNC
  <2>1. cur + 0 = cur
    BY InputTypes
  <2>2. rcPc' = "type" /\ Scanned(stream)[cur]' = AfterSync(NoFrame, parsed)
    BY <1>1, <1>2, <1>5, <2>1, Consumed
  <2> QED
    BY <1>1, <2>2 DEF ScanInv, Matches, Filtering
<1> QED
  BY <1>4, <1>5

LEMMA ScanTypes ==
    ASSUME InputInv, ScanInv, RcType
    PROVE  ScanInv'
<1>1. /\ rcPc = "type" /\ cur < end /\ parsed' = parsed /\ Step("decode", 1)
      /\ Peek \in DOMAIN PayloadLen /\ type' = Peek /\ content' = <<>>
      /\ raw' = <<BEAST_SYNC, Peek>>
  BY DEF RcType, At
<1>2. Peek # BEAST_SYNC
  BY <1>1, RadarcapeAssumption
<1>3. PICK f : Scanned(stream)[cur] = AfterSync(f, parsed)
  BY <1>1 DEF ScanInv, Matches
<1>4. Scanned(stream)[cur + 1] = ScanByte(AfterSync(f, parsed), Peek)
  BY <1>1, <1>3, NextState, InputTypes
<1>5. Scanned(stream)[cur + 1] = Plain(FrameOf(Peek, <<>>, <<BEAST_SYNC, Peek>>), parsed)
  BY <1>1, <1>2, <1>4, ScanBegins
<1>6. /\ rcPc' = "decode"
      /\ Scanned(stream)[cur]' = Plain(FrameOf(Peek, <<>>, <<BEAST_SYNC, Peek>>), parsed)
  BY <1>1, <1>5, Consumed
<1>7. raw' # <<>>
  BY <1>1
<1>8. Scanned(stream)[cur]' = Plain(FrameOf(type, content, raw), parsed)'
  BY <1>1, <1>6
<1> QED
  BY <1>6, <1>7, <1>8 DEF ScanInv, Matches, Filtering

LEMMA ScanUnknown ==
    ASSUME InputInv, ScanInv, RcUnknownType
    PROVE  ScanInv'
<1>1. /\ rcPc = "type" /\ cur < end /\ parsed' = parsed /\ Step("synchronize", 1)
      /\ Peek \notin DOMAIN PayloadLen
  BY DEF RcUnknownType, At
<1>2. PICK f : /\ Scanned(stream)[cur] = AfterSync(f, parsed)
               /\ f # NoFrame => Peek # BEAST_SYNC
  BY <1>1 DEF ScanInv, Matches
<1>3. Scanned(stream)[cur + 1] = ScanByte(AfterSync(f, parsed), Peek)
  BY <1>1, <1>2, NextState, InputTypes
<1>4. Scanned(stream)[cur + 1] = Plain(NoFrame, parsed)
  <2>1. CASE Peek = BEAST_SYNC
    BY <1>2, <1>3, <2>1, ScanEscapedSkips
  <2>2. CASE Peek # BEAST_SYNC
    BY <1>1, <1>3, <2>2, ScanBegins
  <2> QED
    BY <2>1, <2>2
<1>5. rcPc' = "synchronize" /\ Scanned(stream)[cur]' = Plain(NoFrame, parsed)
  BY <1>1, <1>4, Consumed
<1> QED
  BY <1>1, <1>5 DEF ScanInv, Matches, Filtering

(* decode() takes k bytes that are no SYNC: up to a SYNC ...               *)
CopiesUpToSync(k) ==
    LET bytes == SubSeq(stream, cur + 1, cur + k)
    IN  /\ cur + (k + 1) <= end /\ stream[cur + (k + 1)] = BEAST_SYNC
        /\ Len(content) + k < FrameLen(type)
        /\ Step("decodePeek", k + 1)
        /\ type' = type /\ content' = content \o bytes
        /\ raw' = (raw \o bytes) \o <<BEAST_SYNC>>
        /\ parsed' = parsed

(* ... or what the buffer has, possibly up to the end of the frame.        *)
Copies(k) ==
    LET bytes == SubSeq(stream, cur + 1, cur + k)
    IN  /\ cur + k <= end
        /\ Len(content) + k <= FrameLen(type)
        /\ Step(IF Len(content) + k = FrameLen(type) THEN "status" ELSE "decode", k)
        /\ type' = type /\ content' = content \o bytes /\ raw' = raw \o bytes
        /\ parsed' = IF Len(content) + k = FrameLen(type)
                     THEN Append(parsed, FrameOf(type, content', raw')) ELSE parsed

LEMMA DecodeCopies ==
    ASSUME InputInv, FrameInv, RcDecode
    PROVE  \E k \in Nat : /\ NoSync(stream, cur, k)
                          /\ CopiesUpToSync(k) \/ Copies(k)
<1> DEFINE mlen == Min({end - cur, PartLeft})
           sync == Find(Buffered, BEAST_SYNC, mlen)
           k == IF sync # 0 THEN sync - 1 ELSE mlen
           more == SubSeq(Buffered, 1, k)
<1>1. /\ rcPc = "decode" /\ cur < end
      /\ stream \in Seq(Byte) /\ cur \in Nat /\ end \in Nat /\ Len(stream) \in Nat
      /\ end <= Len(stream)
  BY InputTypes DEF RcDecode, At
<1>2. /\ FrameLen(type) \in Nat /\ content \in Seq(Byte) /\ raw \in Seq(Byte)
      /\ Len(content) \in Nat
      /\ Len(content) < FrameLen(type)
      /\ PartLeft \in Nat \ {0} /\ PartLeft <= FrameLen(type) - Len(content)
  BY <1>1, PartOfFrame
<1>3. /\ mlen \in Nat /\ mlen <= end - cur /\ mlen <= PartLeft /\ mlen \in 0..(end - cur)
  <2>1. end - cur \in Int /\ PartLeft \in Int
    BY <1>1, <1>2
  <2>2. mlen = IF end - cur <= PartLeft THEN end - cur ELSE PartLeft
    BY <2>1, MinOfTwo
  <2> HIDE DEF mlen
  <2> QED
    BY <1>1, <1>2, <2>2
<1> HIDE DEF mlen
<1>4. /\ sync \in 0..mlen
      /\ sync = 0 => \A i \in 1..mlen : stream[cur + i] # BEAST_SYNC
      /\ sync # 0 => /\ sync \in 1..mlen /\ stream[cur + sync] = BEAST_SYNC
                     /\ \A i \in 1..(sync - 1) : stream[cur + i] # BEAST_SYNC
  BY <1>3, FindInStream
<1>5. IF sync # 0
      THEN Step("decodePeek", sync) /\ Decoded(more, Append(more, BEAST_SYNC))
      ELSE Step(AfterDecoding(more), mlen) /\ Decoded(more, more)
  BY DEF RcDecode, mlen
<1> HIDE DEF sync
<1>6. k \in Nat /\ k \in 0..(end - cur) /\ cur + k <= end
  BY <1>1, <1>3, <1>4
<1>7. NoSync(stream, cur, k)
  BY <1>4 DEF NoSync
<1>8. more = SubSeq(stream, cur + 1, cur + k)
  BY <1>6, BufferedPart
<1> HIDE DEF more
<1>9. more \in Seq(Byte) /\ Len(more) = k
  <2>1. SubSeq(stream, cur + 1, cur + k) \in Seq(Byte)
        /\ Len(SubSeq(stream, cur + 1, cur + k)) = (cur + k) - cur
    <3> HIDE DEF k
    <3> QED
      BY <1>1, <1>6, Slice
  <2> HIDE DEF k
  <2> QED
    BY <1>1, <1>6, <1>8, <2>1
<1>10. Len(content \o more) = Len(content) + k
  BY <1>2, <1>9, Joined
<1>11. CASE sync # 0
  <2>1. k + 1 = sync /\ Len(content) + k < FrameLen(type) /\ cur + (k + 1) <= end
        /\ stream[cur + (k + 1)] = BEAST_SYNC
    BY <1>1, <1>2, <1>3, <1>4, <1>11
  <2> HIDE DEF k
  <2>2. raw \o Append(more, BEAST_SYNC) = (raw \o more) \o <<BEAST_SYNC>>
    <3>1. BEAST_SYNC \in Byte
      BY DEF BEAST_SYNC, Byte
    <3>2. Append(raw \o more, BEAST_SYNC) = raw \o Append(more, BEAST_SYNC)
          /\ (raw \o more) \o <<BEAST_SYNC>> = Append(raw \o more, BEAST_SYNC)
      BY <1>2, <1>9, <3>1, AppendToJoin, Zenon
    <3> QED
      BY <3>2, Zenon
  <2>3. /\ content' = content \o more /\ raw' = raw \o Append(more, BEAST_SYNC)
        /\ type' = type
        /\ parsed' = IF Len(content \o more) = FrameLen(type)
                     THEN Append(parsed, [type |-> type, content |-> content', raw |-> raw'])
                     ELSE parsed
    BY <1>5, <1>11 DEF Decoded
  <2>4. parsed' = parsed
    BY <1>2, <1>6, <1>10, <2>1, <2>3
  <2>5. Step("decodePeek", k + 1)
    BY <1>5, <1>11, <2>1
  <2>6. CopiesUpToSync(k)
    BY <1>8, <2>1, <2>2, <2>3, <2>4, <2>5 DEF CopiesUpToSync
  <2> QED
    BY <1>6, <1>7, <2>6
<1>12. CASE sync = 0
  <2>1. k = mlen /\ Len(content) + k <= FrameLen(type)
    BY <1>2, <1>3, <1>12
  <2> HIDE DEF k
  <2>2. /\ content' = content \o more /\ raw' = raw \o more /\ type' = type
        /\ parsed' = IF Len(content \o more) = FrameLen(type)
                     THEN Append(parsed, [type |-> type, content |-> content', raw |-> raw'])
                     ELSE parsed
    BY <1>5, <1>12 DEF Decoded
  <2>3. parsed' = IF Len(content) + k = FrameLen(type)
                  THEN Append(parsed, FrameOf(type, content', raw')) ELSE parsed
    BY <1>10, <2>2, Zenon DEF FrameOf
  <2>4. Step(IF Len(content) + k = FrameLen(type) THEN "status" ELSE "decode", k)
    BY <1>5, <1>9, <1>12, <2>1 DEF AfterDecoding
  <2>5. Copies(k)
    BY <1>6, <1>8, <2>1, <2>2, <2>3, <2>4 DEF Copies
  <2> QED
    BY <1>6, <1>7, <2>5
<1> QED
  BY <1>11, <1>12

LEMMA GrownMatches ==
    ASSUME NEW t, NEW c, NEW r, r # <<>>, NEW fs, NEW byte, NEW pc, NEW gs,
           Len(c) \in Nat, FrameLen(t) \in Nat, Len(c) <= FrameLen(t),
           pc = IF Len(c) = FrameLen(t) THEN "status" ELSE "decode",
           gs = IF Len(c) = FrameLen(t) THEN Append(fs, FrameOf(t, c, r)) ELSE fs
    PROVE  Matches(pc, Grown(t, c, r, fs), byte, t, c, r, gs)
<1>1. CASE Len(c) = FrameLen(t)
  <2>1. /\ pc = "status" /\ gs = Append(fs, FrameOf(t, c, r)) /\ ~(Len(c) < FrameLen(t))
    BY <1>1
  <2>2. Grown(t, c, r, fs) = Plain(NoFrame, gs)
    BY <2>1, Zenon DEF Grown
  <2> QED
    BY <2>1, <2>2 DEF Matches
<1>2. CASE Len(c) # FrameLen(t)
  <2>1. pc = "decode" /\ gs = fs /\ Len(c) < FrameLen(t)
    BY <1>2
  <2>2. Grown(t, c, r, fs) = Plain(FrameOf(t, c, r), fs)
    BY <2>1, Zenon DEF Grown
  <2> QED
    BY <2>1, <2>2 DEF Matches, Filtering
<1> QED
  BY <1>1, <1>2

LEMMA ScanDecodes ==
    ASSUME InputInv, FrameInv, ScanInv, RcDecode
    PROVE  ScanInv'
<1>1. PICK k \in Nat : /\ NoSync(stream, cur, k)
                       /\ CopiesUpToSync(k) \/ Copies(k)
  BY DecodeCopies
<1>2. /\ rcPc = "decode" /\ stream \in Seq(Byte) /\ cur \in Nat /\ end \in Nat
      /\ Len(stream) \in Nat /\ end <= Len(stream)
  BY InputTypes DEF RcDecode, At
<1>3. /\ FrameLen(type) \in Nat /\ content \in Seq(Byte) /\ raw \in Seq(Byte)
      /\ Len(content) \in Nat /\ Len(content) < FrameLen(type)
  BY <1>2, PartOfFrame
<1>4. raw # <<>> /\ Scanned(stream)[cur] = Plain(FrameOf(type, content, raw), parsed)
  BY <1>2 DEF ScanInv, Matches
<1> DEFINE bytes == SubSeq(stream, cur + 1, cur + k)
           c == content \o bytes
           r == raw \o bytes
<1>5. cur + k <= end /\ Len(content) + k <= FrameLen(type)
  <2>1. CASE CopiesUpToSync(k)
    BY <1>2, <1>3, <2>1 DEF CopiesUpToSync
  <2>2. CASE Copies(k)
    BY <2>2 DEF Copies
  <2> QED
    BY <1>1, <2>1, <2>2
<1>6. cur + k <= Len(stream) /\ cur + k \in Nat
  BY <1>2, <1>5
<1>7. Scanned(stream)[cur + k] = Grown(type, c, r, parsed)
  BY <1>1, <1>2, <1>3, <1>4, <1>5, <1>6, DecodeRun
<1>8. bytes \in Seq(Byte) /\ Len(bytes) = k
  <2>1. bytes \in Seq(Byte) /\ Len(bytes) = (cur + k) - cur
    BY <1>2, <1>6, Slice
  <2> HIDE DEF bytes
  <2> QED
    BY <1>2, <2>1
<1> HIDE DEF bytes
<1>9. c \in Seq(Byte) /\ Len(c) = Len(content) + k /\ r \in Seq(Byte)
      /\ Len(r) = Len(raw) + k
  BY <1>3, <1>8, Joined
<1>10. r # <<>>
  <2>1. Len(raw) \in Nat /\ Len(raw) > 0
    BY <1>3, <1>4
  <2>2. Len(r) > 0
    BY <1>9, <2>1
  <2> HIDE DEF r
  <2> QED
    BY <2>2
<1> HIDE DEF c, r
<1>11. CASE CopiesUpToSync(k)
  <2>1. /\ Step("decodePeek", k + 1) /\ stream[cur + (k + 1)] = BEAST_SYNC
        /\ Len(content) + k < FrameLen(type) /\ cur + (k + 1) <= end
        /\ type' = type /\ content' = c /\ raw' = r \o <<BEAST_SYNC>> /\ parsed' = parsed
    BY <1>11 DEF CopiesUpToSync, c, r, bytes
  <2>2. Len(c) < FrameLen(type)
    BY <1>9, <2>1
  <2>3. Scanned(stream)[cur + k] = Plain(FrameOf(type, c, r), parsed)
    BY <1>7, <2>2, Zenon DEF Grown
  <2>4. Scanned(stream)[cur + (k + 1)] = AfterSync(FrameOf(type, c, r), parsed)
    <3>1. cur + k < end /\ (cur + k) + 1 = cur + (k + 1)
      BY <1>2, <2>1
    <3>2. Scanned(stream)[(cur + k) + 1] =
              ScanByte(Scanned(stream)[cur + k], stream[(cur + k) + 1])
      BY <1>6, <3>1, NextState
    <3>3. Scanned(stream)[cur + (k + 1)] =
              ScanByte(Plain(FrameOf(type, c, r), parsed), BEAST_SYNC)
      BY <2>1, <2>3, <3>1, <3>2
    <3> QED
      BY <3>3, ScanSync
  <2>5. rcPc' = "decodePeek" /\ Scanned(stream)[cur]' = AfterSync(FrameOf(type, c, r), parsed)
    BY <2>1, <2>4, Consumed
  <2> DEFINE s2 == Scanned(stream)[cur]
  <2> QED
    BY <1>9, <1>10, <2>1, <2>5 DEF ScanInv, Matches, Filtering
<1>12. CASE Copies(k)
  <2> DEFINE pc == IF Len(c) = FrameLen(type) THEN "status" ELSE "decode"
  <2>1. /\ Step(pc, k) /\ type' = type /\ content' = c /\ raw' = r
        /\ parsed' = IF Len(c) = FrameLen(type)
                     THEN Append(parsed, FrameOf(type, c, r)) ELSE parsed
    BY <1>9, <1>12 DEF Copies, c, r, bytes
  <2>2. rcPc' = pc /\ Scanned(stream)[cur]' = Grown(type, c, r, parsed)
    BY <1>7, <2>1, Consumed
  <2> HIDE DEF pc
  <2>3. Len(c) \in Nat /\ Len(c) <= FrameLen(type)
    BY <1>3, <1>5, <1>9
  <2>4. Matches(pc, Grown(type, c, r, parsed), Peek', type, c, r, parsed')
    BY <1>3, <1>10, <2>1, <2>3, GrownMatches DEF pc
  <2> QED
    BY <2>1, <2>2, <2>4 DEF ScanInv
<1> QED
  BY <1>1, <1>11, <1>12

LEMMA ScanEscapes ==
    ASSUME InputInv, FrameInv, ScanInv, RcEscaped
    PROVE  ScanInv'
<1>1. /\ rcPc = "decodePeek" /\ cur < end /\ Peek = BEAST_SYNC
      /\ stream \in Seq(Byte) /\ cur \in Nat /\ end \in Nat
      /\ Peek = stream[cur + 1]
  BY InputTypes DEF RcEscaped, At
<1>2. /\ FrameLen(type) \in Nat /\ content \in Seq(Byte) /\ raw \in Seq(Byte)
      /\ Len(content) \in Nat /\ Len(content) < FrameLen(type)
  BY <1>1, PartOfFrame
<1>3. PICK w \in Seq(Byte) :
          /\ w # <<>> /\ raw = w \o <<BEAST_SYNC>>
          /\ Scanned(stream)[cur] = AfterSync(FrameOf(type, content, w), parsed)
  BY <1>1 DEF ScanInv, Matches
<1> DEFINE c == Append(content, BEAST_SYNC)
           r == w \o <<BEAST_SYNC, BEAST_SYNC>>
           pc == IF Len(c) = FrameLen(type) THEN "status" ELSE "decode"
<1>4. BEAST_SYNC \in Byte
  BY DEF BEAST_SYNC, Byte
<1>5. /\ Len(c) = Len(content) + 1 /\ c = content \o <<BEAST_SYNC>>
      /\ Len(<<BEAST_SYNC>>) = 1
  BY <1>2, <1>4
<1>6. r = raw \o <<BEAST_SYNC>> /\ r # <<>>
  <2>1. w \o <<BEAST_SYNC, BEAST_SYNC>> = (w \o <<BEAST_SYNC>>) \o <<BEAST_SYNC>>
    BY <1>4
  <2>2. w \o <<BEAST_SYNC, BEAST_SYNC>> # <<>>
    BY <1>4
  <2> QED
    BY <1>3, <2>1, <2>2, Zenon
<1>7. Scanned(stream)[cur + 1] = Grown(type, c, r, parsed)
  <2>1. Scanned(stream)[cur + 1] =
            ScanByte(AfterSync(FrameOf(type, content, w), parsed), BEAST_SYNC)
    BY <1>1, <1>3, NextState
  <2> QED
    BY <1>3, <2>1, ScanReads
<1>8. /\ Step(AfterDecoding(<<BEAST_SYNC>>), 1)
      /\ Decoded(<<BEAST_SYNC>>, <<BEAST_SYNC>>)
  BY DEF RcEscaped
<1> HIDE DEF c, r
<1>9. /\ Step(pc, 1) /\ type' = type /\ content' = c /\ raw' = r
      /\ parsed' = IF Len(c) = FrameLen(type)
                   THEN Append(parsed, FrameOf(type, c, r)) ELSE parsed
  <2>1. AfterDecoding(<<BEAST_SYNC>>) = pc
    BY <1>5 DEF AfterDecoding
  <2>2. content' = c /\ raw' = r /\ type' = type
        /\ parsed' = IF Len(content') = FrameLen(type)
                     THEN Append(parsed, [type |-> type, content |-> content', raw |-> raw'])
                     ELSE parsed
    BY <1>5, <1>6, <1>8 DEF Decoded
  <2> QED
    BY <1>8, <2>1, <2>2, Zenon DEF FrameOf
<1> HIDE DEF pc
<1>10. rcPc' = pc /\ Scanned(stream)[cur]' = Grown(type, c, r, parsed)
  BY <1>7, <1>9, Consumed
<1>11. Len(c) \in Nat /\ Len(c) <= FrameLen(type)
  BY <1>2, <1>5
<1>12. Matches(pc, Grown(type, c, r, parsed), Peek', type, c, r, parsed')
  BY <1>2, <1>6, <1>9, <1>11, GrownMatches DEF pc
<1> QED
  BY <1>9, <1>10, <1>12 DEF ScanInv

LEMMA ScanResyncs ==
    ASSUME InputInv, ScanInv, RcResync
    PROVE  ScanInv'
<1>1. /\ rcPc = "decodePeek" /\ Peek # BEAST_SYNC /\ Step("type", 0) /\ parsed' = parsed
  BY DEF RcResync, At
<1>2. PICK w : Scanned(stream)[cur] = AfterSync(FrameOf(type, content, w), parsed)
  BY <1>1 DEF ScanInv, Matches
<1>3. cur + 0 = cur
  BY InputTypes
<1>4. /\ rcPc' = "type" /\ stream' = stream /\ cur' = cur
      /\ Scanned(stream)[cur]' = AfterSync(FrameOf(type, content, w), parsed)
  BY <1>1, <1>2, <1>3, Consumed
<1>5. Peek' = Peek
  BY <1>4 DEF Peek
<1> QED
  BY <1>1, <1>4, <1>5 DEF ScanInv, Matches, Filtering

(* The other steps leave parser and stream alone.                          *)
LEMMA ScanStays ==
    ASSUME ScanInv, UNCHANGED <<stream, cur, type, content, raw, parsed>>,
           \/ rcPc' = rcPc
           \/ rcPc \in Filtering /\ rcPc' \in Filtering \cup {"sync"}
    PROVE  ScanInv'
<1>1. Scanned(stream)[cur]' = Scanned(stream)[cur] /\ Peek' = Peek
  BY DEF Peek
<1>2. CASE rcPc' = rcPc
  BY <1>1, <1>2 DEF ScanInv
<1>3. CASE rcPc \in Filtering /\ rcPc' \in Filtering \cup {"sync"}
  <2>1. rcPc \notin {"off", "connect"}
    BY <1>3 DEF Filtering
  <2>2. Scanned(stream)[cur] = Plain(NoFrame, parsed)
    BY <1>3, <2>1 DEF ScanInv, Matches
  <2> QED
    BY <1>1, <1>3, <2>2 DEF ScanInv, Matches, Filtering
<1> QED
  BY <1>2, <1>3

LEMMA ScanStep ==
    ASSUME InputInv, RcInv, ScanInv, RcNext
    PROVE  ScanInv'
<1>1. CASE RcConnect
  BY <1>1, ScanConnects
<1>2. CASE RcFill
  BY <1>2, ScanStays DEF RcFill, DiscardAndFill, rcVars, frameVars
<1>3. CASE RcReadFails
  BY <1>3 DEF RcReadFails, ScanInv
<1>4. CASE RcSync
  BY <1>4, ScanSyncs
<1>5. CASE RcSynchronize
  BY <1>5, ScanSynchronizes
<1>6. CASE RcSynchronizePeek
  BY <1>6, ScanPeeks
<1>7. CASE RcType
  BY <1>7, ScanTypes
<1>8. CASE RcUnknownType
  BY <1>8, ScanUnknown
<1>9. CASE RcDecode
  BY <1>9, ScanDecodes DEF RcInv, RcDecode, At
<1>10. CASE RcEscaped
  BY <1>10, ScanEscapes DEF RcInv, RcEscaped, At
<1>11. CASE RcResync
  BY <1>11, ScanResyncs
<1>12. CASE RecvStatus
  BY <1>12, ScanStays DEF RecvStatus, inputVars, frameVars, Filtering
<1>13. CASE FilterSynchronized
  BY <1>13, ScanStays DEF FilterSynchronized, inputVars, frameVars, Filtering
<1>14. CASE FilterMode
  BY <1>14, ScanStays DEF FilterMode, inputVars, frameVars, Filtering
<1>15. CASE Command
  BY <1>15, ScanStays DEF Command, inputVars, frameVars
<1>16. CASE FILTER_setSynchronizedFilter
  BY <1>16, ScanStays DEF FILTER_setSynchronizedFilter, Did, inputVars, frameVars
<1>17. CASE FILTER_setModeSExtSquitter
  BY <1>17, ScanStays DEF FILTER_setModeSExtSquitter, Did, inputVars, frameVars
<1>18. CASE FILTER_reset
  BY <1>18, ScanStays DEF FILTER_reset, Did, inputVars, frameVars
<1> QED
  BY <1>1, <1>2, <1>3, <1>4, <1>5, <1>6, <1>7, <1>8, <1>9, <1>10, <1>11, <1>12,
     <1>13, <1>14, <1>15, <1>16, <1>17, <1>18 DEF RcNext

LEMMA ScanTells ==
    ASSUME ScanInv, rcPc \in Reading
    PROVE  Scanned(stream)[cur].frames = parsed
<1>1. Matches(rcPc, Scanned(stream)[cur], Peek, type, content, raw, parsed)
  BY DEF ScanInv, Reading
<1>2. \E f : Scanned(stream)[cur] = Plain(f, parsed) \/ Scanned(stream)[cur] = AfterSync(f, parsed)
  BY <1>1 DEF Matches, Reading
<1> QED
  BY <1>2, ScanFrames

-----------------------------------------------------------------------------
(* TRIMBLE: the reference scanner, state after state.                      *)

TrPlain(m, q, ps) == TrScan(FALSE, m, q, ps)
AfterBom(m, q, ps) == TrScan(TRUE, m, q, ps)

TrScans(h, b, k) ==
    h = [i \in 0..k |-> IF i = 0 THEN TrScanner ELSE TrScanByte(h[i - 1], b[i])]

LEMMA TrScansExists ==
    ASSUME NEW b, NEW k \in Nat
    PROVE  \E h : TrScans(h, b, k)
<1> DEFINE T == {m \in Nat : ~\E h : TrScans(h, b, m)}
<1> SUFFICES ASSUME T # {} PROVE FALSE
  OBVIOUS
<1>1. PICK m \in T : \A y \in T : m <= y
  <2>1. T \subseteq Nat
    OBVIOUS
  <2> HIDE DEF T
  <2>2. Min(T) \in T /\ \A y \in T : Min(T) <= y
    BY <2>1, LeastElement
  <2> QED
    BY <2>2
<1>2. m # 0
  <2>1. TrScans([i \in 0..0 |-> TrScanner], b, 0)
    BY DEF TrScans
  <2> QED
    BY <1>1, <2>1
<1>3. m - 1 \in Nat /\ m - 1 \notin T
  BY <1>1, <1>2
<1>4. PICK h : TrScans(h, b, m - 1)
  BY <1>3
<1> DEFINE g == [i \in 0..m |-> IF i = m THEN TrScanByte(h[m - 1], b[m]) ELSE h[i]]
<1>5. ASSUME NEW i \in 0..m
      PROVE  g[i] = IF i = 0 THEN TrScanner ELSE TrScanByte(g[i - 1], b[i])
  <2>1. CASE i = m
    <3>1. g[m - 1] = h[m - 1] /\ g[i] = TrScanByte(h[m - 1], b[m])
      BY <1>2, <1>3, <2>1
    <3> QED
      BY <1>2, <2>1, <3>1, Zenon
  <2>2. CASE i # m
    <3>1. i \in 0..(m - 1) /\ (i # 0 => i - 1 \in 0..m /\ i - 1 # m)
      BY <1>3, <2>2
    <3>2. h[i] = IF i = 0 THEN TrScanner ELSE TrScanByte(h[i - 1], b[i])
      BY <1>4, <3>1, Zenon DEF TrScans
    <3>3. g[i] = h[i] /\ (i # 0 => g[i - 1] = h[i - 1])
      BY <2>2, <3>1, Zenon
    <3> QED
      BY <3>2, <3>3, Zenon
  <2> QED
    BY <2>1, <2>2
<1>6. TrScans(g, b, m)
  BY <1>5, Zenon DEF TrScans
<1> QED
  BY <1>1, <1>6

LEMMA TrScannedStates ==
    ASSUME NEW b, Len(b) \in Nat
    PROVE  /\ TrScanned(b)[0] = TrScanner
           /\ \A i \in 1..Len(b) : TrScanned(b)[i] = TrScanByte(TrScanned(b)[i - 1], b[i])
<1> DEFINE h == CHOOSE g : TrScans(g, b, Len(b))
<1>1. TrScans(h, b, Len(b))
  BY TrScansExists
<1>2. TrScanned(b) = h
  BY DEF TrScanned, TrScans
<1> HIDE DEF h
<1>3. \A i \in 0..Len(b) : h[i] = IF i = 0 THEN TrScanner ELSE TrScanByte(h[i - 1], b[i])
  BY <1>1, Zenon DEF TrScans
<1>4. 0 \in 0..Len(b)
  OBVIOUS
<1>5. \A i \in 1..Len(b) : i \in 0..Len(b) /\ i # 0
  OBVIOUS
<1>6. h[0] = TrScanner
  BY <1>3, <1>4, Zenon
<1>7. \A i \in 1..Len(b) : h[i] = TrScanByte(h[i - 1], b[i])
  BY <1>3, <1>5, Zenon
<1> QED
  BY <1>2, <1>6, <1>7, Zenon

(* What one byte does to a state.                                          *)
LEMMA TrScanFields ==
    ASSUME NEW m, NEW q, NEW ps
    PROVE  /\ ~TrPlain(m, q, ps).escape /\ AfterBom(m, q, ps).escape
           /\ TrPlain(m, q, ps).mode = m /\ AfterBom(m, q, ps).mode = m
           /\ TrPlain(m, q, ps).packet = q /\ AfterBom(m, q, ps).packet = q
           /\ TrPlain(m, q, ps).packets = ps /\ AfterBom(m, q, ps).packets = ps
  BY DEF TrPlain, AfterBom, TrScan

(* A byte of a packet.                                                     *)
TrGrown(q, ps) == TrPlain(IF Len(q) = PacketSize THEN "garbage" ELSE "packet", q, ps)

LEMMA TrScanReads ==
    ASSUME NEW m, NEW q, NEW ps, NEW byte
    PROVE  /\ TrScanByte(TrPlain(m, q, ps), BOM) = AfterBom(m, q, ps)
           /\ byte # BOM /\ m # "packet" =>
                 TrScanByte(TrPlain(m, q, ps), byte) = TrPlain("garbage", q, ps)
           /\ byte # BOM =>
                 TrScanByte(TrPlain("packet", q, ps), byte) = TrGrown(Append(q, byte), ps)
<1> DEFINE s == TrPlain(m, q, ps)
           t == TrPlain("packet", q, ps)
<1>1. ~s.escape /\ s.mode = m /\ s.packet = q /\ s.packets = ps
  BY TrScanFields
<1>2. ~t.escape /\ t.mode = "packet" /\ t.packet = q /\ t.packets = ps
  BY TrScanFields
<1> HIDE DEF s, t
<1>3. TrScanByte(s, BOM) = AfterBom(m, q, ps)
  BY <1>1, Zenon DEF TrScanByte, AfterBom
<1>4. ASSUME byte # BOM, m # "packet"
      PROVE  TrScanByte(s, byte) = TrPlain("garbage", q, ps)
  <2>1. TrScanByte(s, byte) = TrScanData(s, byte)
    BY <1>1, <1>4, Zenon DEF TrScanByte
  <2> QED
    BY <1>1, <1>4, <2>1, Zenon DEF TrScanData, TrPlain
<1>5. ASSUME byte # BOM
      PROVE  TrScanByte(t, byte) = TrGrown(Append(q, byte), ps)
  <2>1. TrScanByte(t, byte) = TrScanData(t, byte)
    BY <1>2, <1>5, Zenon DEF TrScanByte
  <2> QED
    BY <1>2, <2>1, Zenon DEF TrScanData, TrGrown, TrPlain
<1> QED
  BY <1>3, <1>4, <1>5 DEF s, t

LEMMA TrScanEscapes ==
    ASSUME NEW m, NEW q, NEW ps, NEW byte
    PROVE  /\ TrScanByte(AfterBom("packet", q, ps), EOM) =
                 TrPlain("boundary", q, Append(ps, q))
           /\ TrScanByte(AfterBom("garbage", q, ps), BOM) = TrPlain("garbage", q, ps)
           /\ TrScanByte(AfterBom("packet", q, ps), BOM) = TrGrown(Append(q, BOM), ps)
           /\ byte # EOM /\ (m # "boundary" => byte # BOM) =>
                 TrScanByte(AfterBom(m, q, ps), byte) = TrPlain("packet", <<byte>>, ps)
<1> DEFINE s == AfterBom(m, q, ps)
           t == AfterBom("packet", q, ps)
           u == AfterBom("garbage", q, ps)
<1>1. s.escape /\ s.mode = m /\ s.packet = q /\ s.packets = ps
  BY TrScanFields
<1>2. t.escape /\ t.mode = "packet" /\ t.packet = q /\ t.packets = ps
  BY TrScanFields
<1>3. u.escape /\ u.mode = "garbage" /\ u.packet = q /\ u.packets = ps
  BY TrScanFields
<1> HIDE DEF s, t, u
<1>4. BOM # EOM
  BY DEF BOM, EOM
<1>6. TrScanByte(t, EOM) = TrPlain("boundary", q, Append(ps, q))
  BY <1>2, <1>4, Zenon DEF TrScanByte, TrPlain
<1>7. TrScanByte(u, BOM) = TrPlain("garbage", q, ps)
  <2>1. u.mode # "boundary" /\ u.mode # "packet"
    BY <1>3
  <2>2. TrScanByte(u, BOM) = TrScanData(u, BOM)
    BY <1>3, <1>4, <2>1, Zenon DEF TrScanByte
  <2> QED
    BY <1>3, <2>1, <2>2, Zenon DEF TrScanData, TrPlain
<1>8. TrScanByte(t, BOM) = TrGrown(Append(q, BOM), ps)
  <2>1. t.mode # "boundary"
    BY <1>2
  <2>2. TrScanByte(t, BOM) = TrScanData(t, BOM)
    BY <1>2, <1>4, <2>1, Zenon DEF TrScanByte
  <2> QED
    BY <1>2, <2>2, Zenon DEF TrScanData, TrGrown, TrPlain
<1>9. ASSUME byte # EOM, m # "boundary" => byte # BOM
      PROVE  TrScanByte(s, byte) = TrPlain("packet", <<byte>>, ps)
  BY <1>1, <1>9, Zenon DEF TrScanByte, TrPlain
<1> QED
  BY <1>6, <1>7, <1>8, <1>9 DEF s, t, u

LEMMA TrScanEom ==
    \A m, q, ps : m # "packet" =>
        TrScanByte(AfterBom(m, q, ps), EOM) = TrPlain("garbage", q, ps)
<1> SUFFICES ASSUME NEW m, NEW q, NEW ps, m # "packet"
             PROVE  TrScanByte(AfterBom(m, q, ps), EOM) = TrPlain("garbage", q, ps)
  BY Zenon
<1> DEFINE s == AfterBom(m, q, ps)
<1>1. s.escape /\ s.mode = m /\ s.packet = q /\ s.packets = ps
  BY TrScanFields
<1> HIDE DEF s
<1>2. BOM # EOM
  BY DEF BOM, EOM
<1>3. TrScanByte(s, EOM) = TrPlain("garbage", q, ps)
  BY <1>1, <1>2, Zenon DEF TrScanByte, TrPlain
<1> QED
  BY <1>3 DEF s

LEMMA TrScanPackets ==
    \A m, q, ps : TrPlain(m, q, ps).packets = ps /\ AfterBom(m, q, ps).packets = ps
  BY DEF TrPlain, AfterBom, TrScan

LEMMA TrNextState ==
    ASSUME InputInv, NEW p \in Nat, p < end
    PROVE  TrScanned(stream)[p + 1] = TrScanByte(TrScanned(stream)[p], stream[p + 1])
<1>1. Len(stream) \in Nat /\ p + 1 \in 1..Len(stream) /\ (p + 1) - 1 = p
  BY DEF InputInv, InputOK
<1>2. \A i \in 1..Len(stream) :
          TrScanned(stream)[i] = TrScanByte(TrScanned(stream)[i - 1], stream[i])
  BY <1>1, TrScannedStates
<1> QED
  BY <1>1, <1>2

LEMMA TrConsumed ==
    ASSUME InputInv, NEW to, NEW n, TrStep(to, n)
    PROVE  /\ stream' = stream /\ cur' = cur + n /\ trPc' = to
           /\ packets' = packets
           /\ TrScanned(stream)[cur]' = TrScanned(stream)[cur + n]
  BY DEF TrStep, Consume

(* The n bytes behind place p are no BOMs.                                 *)
NoBom(s, p, n) == \A i \in 1..n : s[p + i] # BOM

LEMMA TrSkipRun ==
    ASSUME NEW s \in Seq(Byte), NEW p \in Nat, NEW n \in Nat, p + n <= Len(s),
           NEW q, NEW ps,
           TrScanned(s)[p] = TrPlain("garbage", q, ps),
           NoBom(s, p, n)
    PROVE  TrScanned(s)[p + n] = TrPlain("garbage", q, ps)
<1> DEFINE S(k) == TrScanned(s)[p + k]
           T == {k \in 0..n : S(k) # TrPlain("garbage", q, ps)}
<1>0. Len(s) \in Nat
  OBVIOUS
<1>1. ASSUME T # {} PROVE FALSE
  <2>1. T \subseteq Nat
    OBVIOUS
  <2>2. PICK k \in T : \A y \in T : k <= y
    <3> HIDE DEF T
    <3> QED
      BY <1>1, <2>1, LeastElement
  <2>3. k # 0
    BY <2>2
  <2>4. k - 1 \in 0..n /\ ~(k <= k - 1) /\ k \in 1..n /\ p + k \in 1..Len(s)
        /\ (p + k) - 1 = p + (k - 1)
    BY <1>0, <2>2, <2>3
  <2>5. S(k - 1) = TrPlain("garbage", q, ps)
    BY <2>2, <2>4
  <2>6. S(k) = TrScanByte(S(k - 1), s[p + k])
    <3>1. \A i \in 1..Len(s) : TrScanned(s)[i] = TrScanByte(TrScanned(s)[i - 1], s[i])
      BY <1>0, TrScannedStates
    <3> QED
      BY <2>4, <3>1
  <2>7. S(k) = TrPlain("garbage", q, ps)
    <3>1. s[p + k] # BOM /\ "garbage" # "packet"
      BY <2>4 DEF NoBom
    <3> QED
      BY <2>5, <2>6, <3>1, TrScanReads
  <2> QED
    BY <2>2, <2>7
<1>2. n \in 0..n
  OBVIOUS
<1> QED
  BY <1>1, <1>2

LEMMA TrCopyRun ==
    ASSUME NEW s \in Seq(Byte), NEW p \in Nat, NEW n \in Nat, p + n <= Len(s),
           NEW q \in Seq(Byte), NEW ps,
           Len(q) < PacketSize, Len(q) + n <= PacketSize,
           TrScanned(s)[p] = TrPlain("packet", q, ps),
           NoBom(s, p, n)
    PROVE  TrScanned(s)[p + n] = TrGrown(q \o SubSeq(s, p + 1, p + n), ps)
<1> DEFINE S(k) == TrScanned(s)[p + k]
           C(k) == q \o SubSeq(s, p + 1, p + k)
           T == {k \in 0..n : S(k) # TrGrown(C(k), ps)}
<1>0. Len(s) \in Nat /\ Len(q) \in Nat /\ PacketSize \in Nat
  BY TrimbleAssumption
<1>1. ASSUME T # {} PROVE FALSE
  <2>1. T \subseteq Nat
    OBVIOUS
  <2>2. PICK k \in T : \A y \in T : k <= y
    <3> HIDE DEF T
    <3> QED
      BY <1>1, <2>1, LeastElement
  <2>3. k # 0
    <3>1. q \o SubSeq(s, p + 1, p + 0) = q
      <4>1. SubSeq(s, p + 1, p + 0) = <<>>
        OBVIOUS
      <4> QED
        BY <4>1
    <3>2. p + 0 = p
      OBVIOUS
    <3>3. TrGrown(q, ps) = TrPlain("packet", q, ps)
      <4>1. Len(q) # PacketSize
        BY <1>0
      <4> QED
        BY <4>1, Zenon DEF TrGrown
    <3>4. S(0) = TrGrown(C(0), ps)
      BY <3>1, <3>2, <3>3, Zenon
    <3> QED
      BY <2>2, <3>4, Zenon
  <2>4. k - 1 \in 0..n /\ ~(k <= k - 1) /\ k \in 1..n /\ p + k \in 1..Len(s)
        /\ (p + k) - 1 = p + (k - 1) /\ k \in Nat /\ k >= 1 /\ p + k <= Len(s)
    BY <1>0, <2>2, <2>3
  <2>5. S(k - 1) = TrGrown(C(k - 1), ps)
    BY <2>2, <2>4, Zenon
  <2>6. S(k) = TrScanByte(S(k - 1), s[p + k])
    <3>1. \A i \in 1..Len(s) : TrScanned(s)[i] = TrScanByte(TrScanned(s)[i - 1], s[i])
      BY <1>0, TrScannedStates
    <3> QED
      BY <2>4, <3>1
  <2>7. C(k - 1) \in Seq(Byte) /\ Len(C(k - 1)) = Len(q) + (k - 1)
    <3>1. /\ SubSeq(s, p + 1, p + (k - 1)) \in Seq(Byte)
          /\ Len(SubSeq(s, p + 1, p + (k - 1))) = k - 1
      BY <1>0, <2>4
    <3> QED
      BY <3>1, Joined
  <2>8. Len(C(k - 1)) # PacketSize
    BY <1>0, <2>4, <2>7
  <2>9. S(k - 1) = TrPlain("packet", C(k - 1), ps)
    BY <2>5, <2>8, Zenon DEF TrGrown
  <2>10. s[p + k] # BOM
    BY <2>4 DEF NoBom
  <2>11. S(k) = TrGrown(Append(C(k - 1), s[p + k]), ps)
    <3> DEFINE x == C(k - 1)
    <3> HIDE DEF x
    <3>1. TrScanByte(TrPlain("packet", x, ps), s[p + k]) = TrGrown(Append(x, s[p + k]), ps)
      BY <2>10, TrScanReads
    <3>2. S(k - 1) = TrPlain("packet", x, ps)
      BY <2>9 DEF x
    <3> HIDE DEF S
    <3>3. S(k) = TrGrown(Append(x, s[p + k]), ps)
      BY <2>6, <3>1, <3>2
    <3> QED
      BY <3>3 DEF x
  <2>12. Append(C(k - 1), s[p + k]) = C(k)
    <3>1. k \in Nat /\ k >= 1 /\ p + k <= Len(s)
      BY <2>4
    <3>2. PutBehind(s, q, p, k)
      BY <3>1, NextByte
    <3> QED
      BY <3>2, Zenon DEF PutBehind
  <2>13. S(k) = TrGrown(C(k), ps)
    BY <2>11, <2>12, Zenon
  <2> QED
    BY <2>2, <2>13, Zenon
<1>2. n \in 0..n
  OBVIOUS
<1>3. n \notin T
  BY <1>1, <1>2
<1> QED
  BY <1>2, <1>3, Zenon

-----------------------------------------------------------------------------
(* TRIMBLE: the parser and the reference scanner go together.              *)

(* As for INPUT.  What is left in the buffer of an abandoned packet does   *)
(* not matter.  Only a packet that begins at a boundary may have the type  *)
(* BOM or EOM: elsewhere, the parser has seen that the next byte is none.  *)
TrMatches(pc, s, byte, p, ps) ==
    /\ pc \in {"reset", "sync", "packet"} => \E q : s = TrPlain("boundary", q, ps)
    /\ pc = "synchronize" => \E q : s = TrPlain("garbage", q, ps)
    /\ pc = "synchronizePeek" => \E q : s = AfterBom("garbage", q, ps)
    /\ pc = "type" =>
          \E m, q : s = AfterBom(m, q, ps) /\ (m # "boundary" => byte \notin {BOM, EOM})
    /\ pc = "decode" => s = TrPlain("packet", p, ps)
    /\ pc = "decodePeek" => s = AfterBom("packet", p, ps)

TrScanInv ==
    trPc \notin {"off", "connect"} =>
        TrMatches(trPc, TrScanned(stream)[cur], Peek, packet, packets)

LEMMA TrScanConnects ==
    ASSUME TrInv, TrConnect
    PROVE  TrScanInv'
<1>1. /\ trPc' = "reset" /\ cur' = 0 /\ packets' = packets /\ stream' \in Seq(Byte)
      /\ packets = <<>>
  BY TrimbleAssumption DEF TrConnect, Connect, TrInv
<1>2. TrScanned(stream')[0] = TrPlain("boundary", <<>>, <<>>)
  <2>1. Len(stream') \in Nat
    BY <1>1
  <2> QED
    BY <2>1, TrScannedStates DEF TrScanner, TrPlain
<1> QED
  BY <1>1, <1>2 DEF TrScanInv, TrMatches

LEMMA TrScanSyncs ==
    ASSUME InputInv, TrScanInv, TrSync
    PROVE  TrScanInv'
<1>1. /\ trPc = "sync" /\ cur < end
      /\ TrStep(IF Peek = BOM THEN "type" ELSE "synchronize", 1)
  BY DEF TrSync, TrAt
<1>2. PICK q : TrScanned(stream)[cur] = TrPlain("boundary", q, packets)
  BY <1>1 DEF TrScanInv, TrMatches
<1>3. TrScanned(stream)[cur + 1] = TrScanByte(TrPlain("boundary", q, packets), Peek)
  BY <1>1, <1>2, TrNextState, InputTypes
<1>4. CASE Peek = BOM
  <2>1. /\ trPc' = "type" /\ packets' = packets
        /\ TrScanned(stream)[cur]' = AfterBom("boundary", q, packets)
    BY <1>1, <1>3, <1>4, TrConsumed, TrScanReads
  <2> QED
    BY <2>1 DEF TrScanInv, TrMatches
<1>5. CASE Peek # BOM
  <2>1. /\ trPc' = "synchronize" /\ packets' = packets
        /\ TrScanned(stream)[cur]' = TrPlain("garbage", q, packets)
    <3>1. "boundary" # "packet"
      OBVIOUS
    <3>2. TrScanned(stream)[cur + 1] = TrPlain("garbage", q, packets)
      BY <1>3, <1>5, <3>1, TrScanReads
    <3> QED
      BY <1>1, <1>5, <3>2, TrConsumed
  <2> QED
    BY <2>1 DEF TrScanInv, TrMatches
<1> QED
  BY <1>4, <1>5

LEMMA TrScanSynchronizes ==
    ASSUME InputInv, TrScanInv, TrSynchronize
    PROVE  TrScanInv'
<1> DEFINE n == end - cur
           k == Find(Buffered, BOM, n)
<1>1. /\ trPc = "synchronize" /\ cur < end
      /\ IF k # 0 THEN TrStep("synchronizePeek", k) ELSE TrStep("synchronize", n)
  BY DEF TrSynchronize, TrAt
<1>2. PICK q : TrScanned(stream)[cur] = TrPlain("garbage", q, packets)
  BY <1>1 DEF TrScanInv, TrMatches
<1>3. /\ n \in Nat /\ n \in 0..(end - cur) /\ cur + n <= Len(stream)
      /\ stream \in Seq(Byte) /\ cur \in Nat /\ end \in Nat
  BY <1>1, InputTypes
<1>4. /\ k \in 0..n
      /\ k = 0 => \A i \in 1..n : stream[cur + i] # BOM
      /\ k # 0 => /\ k \in 1..n /\ stream[cur + k] = BOM
                  /\ \A i \in 1..(k - 1) : stream[cur + i] # BOM
  BY <1>3, FindInStream
<1>9. n = end - cur
  OBVIOUS
<1> HIDE DEF k, n
<1>5. CASE k = 0
  <2>0. NoBom(stream, cur, n)
    BY <1>4, <1>5 DEF NoBom
  <2>1. TrScanned(stream)[cur + n] = TrPlain("garbage", q, packets)
    BY <1>2, <1>3, <2>0, TrSkipRun
  <2>2. /\ trPc' = "synchronize" /\ packets' = packets
        /\ TrScanned(stream)[cur]' = TrPlain("garbage", q, packets)
    BY <1>1, <1>5, <2>1, TrConsumed
  <2> QED
    BY <2>2 DEF TrScanInv, TrMatches
<1>6. CASE k # 0
  <2>1. k \in Nat /\ k - 1 \in Nat /\ cur + (k - 1) <= Len(stream)
        /\ cur + (k - 1) \in Nat /\ cur + (k - 1) < end /\ (cur + (k - 1)) + 1 = cur + k
    BY <1>3, <1>4, <1>6, <1>9
  <2>2. TrScanned(stream)[cur + (k - 1)] = TrPlain("garbage", q, packets)
    <3>1. \A i \in 1..(k - 1) : stream[cur + i] # BOM
      BY <1>4, <1>6
    <3> DEFINE m == k - 1
    <3> HIDE DEF m
    <3>2. m \in Nat /\ cur + m <= Len(stream) /\ NoBom(stream, cur, m)
      BY <2>1, <3>1 DEF m, NoBom
    <3>3. TrScanned(stream)[cur + m] = TrPlain("garbage", q, packets)
      BY <1>2, <1>3, <3>2, TrSkipRun
    <3> QED
      BY <3>3 DEF m
  <2>3. TrScanned(stream)[cur + k] = TrScanByte(TrPlain("garbage", q, packets), BOM)
    <3>1. TrScanned(stream)[(cur + (k - 1)) + 1] =
              TrScanByte(TrScanned(stream)[cur + (k - 1)], stream[(cur + (k - 1)) + 1])
      BY <2>1, TrNextState
    <3> QED
      BY <1>4, <1>6, <2>1, <2>2, <3>1
  <2>4. /\ trPc' = "synchronizePeek" /\ packets' = packets
        /\ TrScanned(stream)[cur]' = AfterBom("garbage", q, packets)
    BY <1>1, <1>6, <2>3, TrConsumed, TrScanReads
  <2> QED
    BY <2>4 DEF TrScanInv, TrMatches
<1> QED
  BY <1>5, <1>6

LEMMA TrScanPeeks ==
    ASSUME InputInv, TrScanInv, TrSynchronizePeek
    PROVE  TrScanInv'
<1>1. /\ trPc = "synchronizePeek" /\ cur < end
      /\ IF Peek \in {BOM, EOM} THEN TrStep("synchronize", 1) ELSE TrStep("type", 0)
  BY DEF TrSynchronizePeek, TrAt
<1>2. PICK q : TrScanned(stream)[cur] = AfterBom("garbage", q, packets)
  BY <1>1 DEF TrScanInv, TrMatches
<1>3. TrScanned(stream)[cur + 1] = TrScanByte(AfterBom("garbage", q, packets), Peek)
  BY <1>1, <1>2, TrNextState, InputTypes
<1>4. CASE Peek \in {BOM, EOM}
  <2>1. TrScanned(stream)[cur + 1] = TrPlain("garbage", q, packets)
    <3>1. CASE Peek = BOM
      BY <1>3, <3>1, TrScanEscapes
    <3>2. CASE Peek = EOM
      <4>1. "garbage" # "packet"
        OBVIOUS
      <4> QED
        BY <1>3, <3>2, <4>1, TrScanEom
    <3> QED
      BY <1>4, <3>1, <3>2
  <2>2. /\ trPc' = "synchronize" /\ packets' = packets
        /\ TrScanned(stream)[cur]' = TrPlain("garbage", q, packets)
    BY <1>1, <1>4, <2>1, TrConsumed
  <2> QED
    BY <2>2 DEF TrScanInv, TrMatches
<1>5. CASE Peek \notin {BOM, EOM}
  <2>1. cur + 0 = cur
    BY InputTypes
  <2>2. /\ trPc' = "type" /\ packets' = packets /\ stream' = stream /\ cur' = cur
        /\ TrScanned(stream)[cur]' = AfterBom("garbage", q, packets)
    BY <1>1, <1>2, <1>5, <2>1, TrConsumed
  <2>3. Peek' = Peek
    BY <2>2 DEF Peek
  <2> QED
    BY <1>5, <2>2, <2>3 DEF TrScanInv, TrMatches
<1> QED
  BY <1>4, <1>5

LEMMA TrScanTypes ==
    ASSUME InputInv, TrScanInv, TrType
    PROVE  TrScanInv'
<1>1. /\ trPc = "type" /\ cur < end /\ packet' = <<Peek>>
      /\ TrStep(IF Peek = EOM THEN "synchronize" ELSE "decode", 1)
  BY DEF TrType, TrAt
<1>2. PICK m, q : /\ TrScanned(stream)[cur] = AfterBom(m, q, packets)
                  /\ m # "boundary" => Peek \notin {BOM, EOM}
  BY <1>1 DEF TrScanInv, TrMatches
<1>3. TrScanned(stream)[cur + 1] = TrScanByte(AfterBom(m, q, packets), Peek)
  BY <1>1, <1>2, TrNextState, InputTypes
<1>4. CASE Peek = EOM
  <2>1. m # "packet"
    BY <1>2, <1>4
  <2>2. TrScanned(stream)[cur + 1] = TrPlain("garbage", q, packets)
    BY <1>3, <1>4, <2>1, TrScanEom
  <2>3. /\ trPc' = "synchronize" /\ packets' = packets
        /\ TrScanned(stream)[cur]' = TrPlain("garbage", q, packets)
    BY <1>1, <1>4, <2>2, TrConsumed
  <2> QED
    BY <2>3 DEF TrScanInv, TrMatches
<1>5. CASE Peek # EOM
  <2>1. TrScanned(stream)[cur + 1] = TrPlain("packet", <<Peek>>, packets)
    BY <1>2, <1>3, <1>5, TrScanEscapes
  <2>2. /\ trPc' = "decode" /\ packets' = packets
        /\ TrScanned(stream)[cur]' = TrPlain("packet", packet', packets)
    BY <1>1, <1>5, <2>1, TrConsumed
  <2> QED
    BY <2>2 DEF TrScanInv, TrMatches
<1> QED
  BY <1>4, <1>5

LEMMA TrGrownMatches ==
    ASSUME NEW q, NEW ps, NEW byte, NEW pc,
           pc = IF Len(q) = PacketSize THEN "synchronize" ELSE "decode"
    PROVE  TrMatches(pc, TrGrown(q, ps), byte, q, ps)
<1>1. CASE Len(q) = PacketSize
  <2>1. pc = "synchronize" /\ TrGrown(q, ps) = TrPlain("garbage", q, ps)
    BY <1>1, Zenon DEF TrGrown
  <2> QED
    BY <2>1 DEF TrMatches
<1>2. CASE Len(q) # PacketSize
  <2>1. pc = "decode" /\ TrGrown(q, ps) = TrPlain("packet", q, ps)
    BY <1>2, Zenon DEF TrGrown
  <2> QED
    BY <2>1 DEF TrMatches
<1> QED
  BY <1>1, <1>2

LEMMA TrScanCopies ==
    ASSUME InputInv, TrInv, TrScanInv, TrDecode
    PROVE  TrScanInv'
<1> DEFINE mlen == Min({end - cur, SpaceLeft})
           bom == Find(Buffered, BOM, mlen)
           k == IF bom # 0 THEN bom - 1 ELSE mlen
           more == SubSeq(Buffered, 1, k)
           p == packet \o more
<1>1. /\ trPc = "decode" /\ cur < end
      /\ stream \in Seq(Byte) /\ cur \in Nat /\ end \in Nat /\ Len(stream) \in Nat
      /\ end <= Len(stream)
  BY InputTypes DEF TrDecode, TrAt
<1>2. /\ packet \in Seq(Byte) /\ Len(packet) \in Nat /\ PacketSize \in Nat
      /\ Len(packet) < PacketSize /\ SpaceLeft = PacketSize - Len(packet)
  BY <1>1, TrimbleAssumption DEF TrInv, SpaceLeft
<1>3. /\ mlen \in Nat /\ mlen <= end - cur /\ mlen <= SpaceLeft /\ mlen \in 0..(end - cur)
  <2>1. end - cur \in Int /\ SpaceLeft \in Int
    BY <1>1, <1>2
  <2>2. mlen = IF end - cur <= SpaceLeft THEN end - cur ELSE SpaceLeft
    BY <2>1, MinOfTwo
  <2> HIDE DEF mlen
  <2> QED
    BY <1>1, <1>2, <2>2
<1> HIDE DEF mlen
<1>4. /\ bom \in 0..mlen
      /\ bom = 0 => \A i \in 1..mlen : stream[cur + i] # BOM
      /\ bom # 0 => /\ bom \in 1..mlen /\ stream[cur + bom] = BOM
                    /\ \A i \in 1..(bom - 1) : stream[cur + i] # BOM
  BY <1>3, FindInStream
<1>5. /\ packet' = p
      /\ IF bom # 0 THEN TrStep("decodePeek", bom) ELSE TrStep(AfterCopying(mlen), mlen)
  BY DEF TrDecode, mlen
<1> HIDE DEF bom
<1>6. /\ k \in Nat /\ k \in 0..(end - cur) /\ cur + k <= end /\ cur + k \in Nat
      /\ cur + k <= Len(stream) /\ Len(packet) + k <= PacketSize
  BY <1>1, <1>2, <1>3, <1>4
<1>7. NoBom(stream, cur, k)
  BY <1>4 DEF NoBom
<1>8. more = SubSeq(stream, cur + 1, cur + k)
  BY <1>6, BufferedPart
<1> HIDE DEF more
<1>9. more \in Seq(Byte) /\ Len(more) = k
  <2>1. SubSeq(stream, cur + 1, cur + k) \in Seq(Byte)
        /\ Len(SubSeq(stream, cur + 1, cur + k)) = (cur + k) - cur
    <3> HIDE DEF k
    <3> QED
      BY <1>1, <1>6, Slice
  <2> HIDE DEF k
  <2> QED
    BY <1>1, <1>6, <1>8, <2>1
<1>10. Len(p) = Len(packet) + k
  BY <1>2, <1>9, Joined
<1>11. TrScanned(stream)[cur] = TrPlain("packet", packet, packets)
  BY <1>1 DEF TrScanInv, TrMatches
<1>12. TrScanned(stream)[cur + k] = TrGrown(p, packets)
  <2> HIDE DEF k
  <2>1. TrScanned(stream)[cur + k] =
            TrGrown(packet \o SubSeq(stream, cur + 1, cur + k), packets)
    BY <1>1, <1>2, <1>6, <1>7, <1>11, TrCopyRun
  <2> QED
    BY <1>8, <2>1
<1> HIDE DEF p
<1>13. CASE bom # 0
  <2>1. k + 1 = bom /\ Len(packet) + k < PacketSize /\ cur + k < end
        /\ (cur + k) + 1 = cur + bom
    BY <1>1, <1>2, <1>3, <1>4, <1>13
  <2>2. stream[cur + bom] = BOM
    BY <1>4, <1>13
  <2> HIDE DEF k
  <2>3. Len(p) # PacketSize
    BY <1>2, <1>6, <1>10, <2>1
  <2>4. TrScanned(stream)[cur + k] = TrPlain("packet", p, packets)
    BY <1>12, <2>3, Zenon DEF TrGrown
  <2>5. TrScanned(stream)[cur + bom] = AfterBom("packet", p, packets)
    <3>1. TrScanned(stream)[(cur + k) + 1] =
              TrScanByte(TrScanned(stream)[cur + k], stream[(cur + k) + 1])
      BY <1>6, <2>1, TrNextState
    <3>2. TrScanned(stream)[cur + bom] = TrScanByte(TrPlain("packet", p, packets), BOM)
      BY <2>1, <2>2, <2>4, <3>1
    <3> QED
      BY <3>2, TrScanReads
  <2>6. /\ trPc' = "decodePeek" /\ packets' = packets
        /\ TrScanned(stream)[cur]' = AfterBom("packet", p, packets)
    BY <1>5, <1>13, <2>5, TrConsumed
  <2> QED
    BY <1>5, <2>6 DEF TrScanInv, TrMatches
<1>14. CASE bom = 0
  <2>1. k = mlen
    BY <1>14
  <2> HIDE DEF k
  <2> DEFINE pc == AfterCopying(mlen)
  <2>2. pc = IF Len(p) = PacketSize THEN "synchronize" ELSE "decode"
    BY <1>2, <1>6, <1>10, <2>1 DEF AfterCopying
  <2>3. pc \notin {"off", "connect"}
    BY <2>2
  <2>4. /\ trPc' = pc /\ packets' = packets
        /\ TrScanned(stream)[cur]' = TrGrown(p, packets)
    BY <1>5, <1>12, <1>14, <2>1, TrConsumed
  <2> HIDE DEF pc
  <2>5. TrMatches(pc, TrGrown(p, packets), Peek', p, packets)
    BY <2>2, TrGrownMatches
  <2> QED
    BY <1>5, <2>3, <2>4, <2>5 DEF TrScanInv
<1> QED
  BY <1>13, <1>14

LEMMA TrScanEscaped ==
    ASSUME InputInv, TrInv, TrScanInv, TrEscaped
    PROVE  TrScanInv'
<1> DEFINE p == Append(packet, BOM)
           pc == AfterCopying(1)
<1>1. /\ trPc = "decodePeek" /\ cur < end /\ Peek = BOM /\ packet' = p /\ TrStep(pc, 1)
  BY DEF TrEscaped, TrAt
<1>2. /\ packet \in Seq(Byte) /\ Len(packet) \in Nat /\ PacketSize \in Nat
      /\ Len(packet) < PacketSize /\ SpaceLeft = PacketSize - Len(packet)
  BY <1>1, TrimbleAssumption DEF TrInv, SpaceLeft
<1>3. Len(p) = Len(packet) + 1
  BY <1>2
<1>4. TrScanned(stream)[cur] = AfterBom("packet", packet, packets)
  BY <1>1 DEF TrScanInv, TrMatches
<1>5. TrScanned(stream)[cur + 1] = TrGrown(p, packets)
  <2>1. TrScanned(stream)[cur + 1] = TrScanByte(AfterBom("packet", packet, packets), BOM)
    BY <1>1, <1>4, TrNextState, InputTypes
  <2> QED
    BY <2>1, TrScanEscapes
<1> HIDE DEF p
<1>6. pc = IF Len(p) = PacketSize THEN "synchronize" ELSE "decode"
  BY <1>2, <1>3 DEF AfterCopying
<1>7. pc \notin {"off", "connect"}
  BY <1>6
<1> HIDE DEF pc
<1>8. /\ trPc' = pc /\ packets' = packets
      /\ TrScanned(stream)[cur]' = TrGrown(p, packets)
  BY <1>1, <1>5, TrConsumed
<1>9. TrMatches(pc, TrGrown(p, packets), Peek', p, packets)
  BY <1>6, TrGrownMatches
<1> QED
  BY <1>1, <1>7, <1>8, <1>9 DEF TrScanInv

LEMMA TrScanEnds ==
    ASSUME InputInv, TrScanInv, TrEnd
    PROVE  TrScanInv'
<1>1. /\ trPc = "decodePeek" /\ cur < end /\ Peek = EOM /\ trPc' = "packet"
      /\ stream' = stream /\ cur' = cur + 1 /\ packets' = Append(packets, packet)
  BY DEF TrEnd, TrAt, Consume
<1>2. TrScanned(stream)[cur] = AfterBom("packet", packet, packets)
  BY <1>1 DEF TrScanInv, TrMatches
<1>3. TrScanned(stream)[cur + 1] = TrScanByte(AfterBom("packet", packet, packets), EOM)
  BY <1>1, <1>2, TrNextState, InputTypes
<1>4. TrScanned(stream)[cur + 1] = TrPlain("boundary", packet, Append(packets, packet))
  BY <1>3, TrScanEscapes
<1>5. TrScanned(stream)[cur]' = TrPlain("boundary", packet, packets')
  BY <1>1, <1>4
<1> QED
  BY <1>1, <1>5 DEF TrScanInv, TrMatches

LEMMA TrScanResyncs ==
    ASSUME InputInv, TrScanInv, TrResync
    PROVE  TrScanInv'
<1>1. /\ trPc = "decodePeek" /\ Peek \notin {BOM, EOM} /\ TrStep("type", 0)
  BY DEF TrResync, TrAt
<1>2. TrScanned(stream)[cur] = AfterBom("packet", packet, packets)
  BY <1>1 DEF TrScanInv, TrMatches
<1>3. cur + 0 = cur
  BY InputTypes
<1>4. /\ trPc' = "type" /\ stream' = stream /\ cur' = cur /\ packets' = packets
      /\ TrScanned(stream)[cur]' = AfterBom("packet", packet, packets)
  BY <1>1, <1>2, <1>3, TrConsumed
<1>5. Peek' = Peek
  BY <1>4 DEF Peek
<1> QED
  BY <1>1, <1>4, <1>5 DEF TrScanInv, TrMatches

(* The other steps leave parser and stream alone.                          *)
LEMMA TrScanStays ==
    ASSUME TrScanInv, UNCHANGED <<stream, cur, packet, packets>>,
           \/ trPc' = trPc
           \/ trPc \in {"reset", "packet"} /\ trPc' = "sync"
    PROVE  TrScanInv'
<1>1. TrScanned(stream)[cur]' = TrScanned(stream)[cur] /\ Peek' = Peek
  BY DEF Peek
<1>2. CASE trPc' = trPc
  BY <1>1, <1>2 DEF TrScanInv
<1>3. CASE trPc \in {"reset", "packet"} /\ trPc' = "sync"
  BY <1>1, <1>3 DEF TrScanInv, TrMatches
<1> QED
  BY <1>2, <1>3

LEMMA TrScanStep ==
    ASSUME InputInv, TrInv, TrScanInv, TrNext
    PROVE  TrScanInv'
<1>1. CASE TrConnect
  BY <1>1, TrScanConnects
<1>2. CASE TrReset
  BY <1>2, TrScanStays DEF TrReset, inputVars
<1>3. CASE TrFill
  BY <1>3, TrScanStays DEF TrFill, DiscardAndFill, trVars
<1>4. CASE TrReadFails
  BY <1>4 DEF TrReadFails, TrScanInv
<1>5. CASE TrSync
  BY <1>5, TrScanSyncs
<1>6. CASE TrSynchronize
  BY <1>6, TrScanSynchronizes
<1>7. CASE TrSynchronizePeek
  BY <1>7, TrScanPeeks
<1>8. CASE TrType
  BY <1>8, TrScanTypes
<1>9. CASE TrDecode
  BY <1>9, TrScanCopies
<1>10. CASE TrEscaped
  BY <1>10, TrScanEscaped
<1>11. CASE TrEnd
  BY <1>11, TrScanEnds
<1>12. CASE TrResync
  BY <1>12, TrScanResyncs
<1>13. CASE TrPacket
  BY <1>13, TrScanStays DEF TrPacket, inputVars
<1> QED
  BY <1>1, <1>2, <1>3, <1>4, <1>5, <1>6, <1>7, <1>8, <1>9, <1>10, <1>11, <1>12, <1>13
     DEF TrNext

LEMMA TrScanTells ==
    ASSUME TrScanInv, trPc \in TrReading
    PROVE  TrScanned(stream)[cur].packets = packets
<1>1. TrMatches(trPc, TrScanned(stream)[cur], Peek, packet, packets)
  BY DEF TrScanInv, TrReading
<1>2. \E m, q : \/ TrScanned(stream)[cur] = TrPlain(m, q, packets)
                \/ TrScanned(stream)[cur] = AfterBom(m, q, packets)
  BY <1>1 DEF TrMatches, TrReading
<1> QED
  BY <1>2, TrScanPackets

-----------------------------------------------------------------------------
(* BEAST_encode(): what a byte more in the message does to its encoding.   *)

SyncAfter(in, i) == Min({j \in (i + 1)..Len(in) : in[j] = BEAST_SYNC} \cup {Len(in) + 1})

RestAt(in, h, i) ==
    IF i = Len(in) /\ Len(in) # 0 THEN <<BEAST_SYNC>>
    ELSE SubSeq(in, Max({i, 1}), Min({SyncAfter(in, i), Len(in)}))
         \o (IF SyncAfter(in, i) <= Len(in) THEN h[SyncAfter(in, i)] ELSE <<>>)

Rests(h, in, l) == h = [i \in l..Len(in) |-> RestAt(in, h, i)]

LEMMA SyncAfterIs ==
    ASSUME NEW in \in Seq(Byte), NEW i \in 0..Len(in)
    PROVE  LET k == SyncAfter(in, i)
           IN  /\ k \in (i + 1)..(Len(in) + 1)
               /\ k <= Len(in) => in[k] = BEAST_SYNC
               /\ \A j \in (i + 1)..Len(in) : in[j] = BEAST_SYNC => k <= j
<1> DEFINE n == Len(in)
           T == {j \in (i + 1)..n : in[j] = BEAST_SYNC} \cup {n + 1}
<1>1. n \in Nat /\ i \in Nat /\ i <= n
  OBVIOUS
<1>2. T \subseteq Nat /\ n + 1 \in T
  BY <1>1
<1>3. SyncAfter(in, i) = Min(T)
  BY DEF SyncAfter
<1>4. \A j \in T : j \in (i + 1)..(n + 1) /\ (j <= n => in[j] = BEAST_SYNC)
  BY <1>1
<1>5. \A j \in (i + 1)..n : in[j] = BEAST_SYNC => j \in T
  OBVIOUS
<1> HIDE DEF T
<1>6. T # {}
  BY <1>2
<1>7. Min(T) \in T /\ \A y \in T : Min(T) <= y
  BY <1>2, <1>6, LeastElement
<1> QED
  BY <1>3, <1>4, <1>5, <1>7

LEMMA RestsExist ==
    ASSUME NEW in \in Seq(Byte)
    PROVE  \E h : Rests(h, in, 0)
<1> DEFINE n == Len(in)
           T == {m \in 0..n : ~\E h : Rests(h, in, n - m)}
<1>0. n \in Nat
  OBVIOUS
<1>1. ASSUME T # {} PROVE FALSE
  <2>1. T \subseteq Nat
    BY <1>0
  <2>2. PICK m \in T : \A y \in T : m <= y
    <3> HIDE DEF T
    <3> QED
      BY <1>1, <2>1, LeastElement
  <2> DEFINE l == n - m
  <2>3. l \in 0..n /\ l \in Nat
    BY <1>0, <2>2
  <2>4. ASSUME NEW h, \A j \in (l + 1)..n : h[j] = RestAt(in, h, j) PROVE FALSE
    <3> DEFINE g == [i \in l..n |-> IF i = l THEN RestAt(in, h, l) ELSE h[i]]
    <3>1. ASSUME NEW i \in l..n PROVE g[i] = RestAt(in, g, i)
      <4>1. i \in 0..n /\ i \in Nat
        BY <2>3
      <4>2. g[i] = RestAt(in, h, i)
        BY <2>3, <2>4
      <4>3. SyncAfter(in, i) <= n =>
                SyncAfter(in, i) \in l..n /\ SyncAfter(in, i) # l
        <5> DEFINE k == SyncAfter(in, i)
        <5>1. k \in (i + 1)..(n + 1)
          BY <4>1, SyncAfterIs
        <5> HIDE DEF k
        <5>2. k <= n => k \in l..n /\ k # l
          BY <1>0, <2>3, <4>1, <5>1
        <5> QED
          BY <5>2 DEF k
      <4>4. SyncAfter(in, i) <= n => g[SyncAfter(in, i)] = h[SyncAfter(in, i)]
        BY <4>3, Zenon
      <4>5. RestAt(in, g, i) = RestAt(in, h, i)
        <5> HIDE DEF g
        <5> QED
          BY <4>4, Zenon DEF RestAt
      <4> QED
        BY <4>2, <4>5, Zenon
    <3>2. Rests(g, in, l)
      BY <3>1, Zenon DEF Rests
    <3> HIDE DEF g
    <3> QED
      BY <2>2, <3>2
  <2>5. CASE m = 0
    <3>1. l = n
      BY <1>0, <2>5
    <3>2. \A j \in (l + 1)..n : FALSE
      BY <1>0, <3>1
    <3> QED
      BY <2>4, <3>2
  <2>6. CASE m # 0
    <3>1. m - 1 \in 0..n /\ ~(m <= m - 1) /\ n - (m - 1) = l + 1
      BY <1>0, <2>2, <2>6
    <3>2. m - 1 \notin T
      BY <2>2, <3>1
    <3>3. PICK h : Rests(h, in, l + 1)
      BY <3>1, <3>2
    <3>4. \A j \in (l + 1)..n : h[j] = RestAt(in, h, j)
      BY <3>3, Zenon DEF Rests
    <3> QED
      BY <2>4, <3>4
  <2> QED
    BY <2>5, <2>6
<1>2. n \in 0..n /\ n - n = 0
  BY <1>0
<1>3. n \notin T
  BY <1>1
<1> QED
  BY <1>2, <1>3

Unrolled(h, in) == \A i \in 0..Len(in) : h[i] = RestAt(in, h, i)

LEMMA EncodeUnrolls ==
    ASSUME NEW in \in Seq(Byte)
    PROVE  \E h : /\ BEAST_encode(in) = h[0]
                  /\ Unrolled(h, in)
<1> DEFINE h == CHOOSE g : Rests(g, in, 0)
<1>1. Rests(h, in, 0)
  BY RestsExist
<1>2. BEAST_encode(in) = h[0]
  BY Zenon DEF BEAST_encode, Rests, RestAt, SyncAfter
<1> HIDE DEF h
<1>3. Unrolled(h, in)
  BY <1>1, Zenon DEF Rests, Unrolled
<1> QED
  BY <1>2, <1>3

(* A message c is extended by m: bytes that are no SYNCs, or one SYNC.     *)
(* The encoding is extended by w: the same bytes, or two SYNCs.            *)
Extends(m, w) ==
    \/ w = m /\ \A j \in 1..Len(m) : m[j] # BEAST_SYNC
    \/ m = <<BEAST_SYNC>> /\ w = <<BEAST_SYNC, BEAST_SYNC>>

LEMMA SyncIsByte == BEAST_SYNC \in Byte
  BY DEF BEAST_SYNC, Byte

LEMMA MaxWithOne ==
    ASSUME NEW i \in Nat
    PROVE  Max({i, 1}) = IF i = 0 THEN 1 ELSE i
<1> DEFINE S == {i, 1}
<1>1. \E x \in S : \A y \in S : x >= y
  <2>1. CASE i = 0
    BY <2>1
  <2>2. CASE i # 0
    BY <2>2
  <2> QED
    BY <2>1, <2>2
<1>2. Max(S) \in S /\ \A y \in S : Max(S) >= y
  BY <1>1 DEF Max
<1> QED
  BY <1>2

LEMMA JoinedAt ==
    ASSUME NEW c \in Seq(Byte), NEW m \in Seq(Byte)
    PROVE  /\ c \o m \in Seq(Byte) /\ Len(c \o m) = Len(c) + Len(m)
           /\ \A j \in 1..Len(c) : (c \o m)[j] = c[j]
           /\ \A j \in 1..Len(m) : (c \o m)[Len(c) + j] = m[j]
  OBVIOUS

(* Parts of the longer message.                                            *)
LEMMA PartOfJoined ==
    ASSUME NEW c \in Seq(Byte), NEW m \in Seq(Byte), NEW a \in Nat, a >= 1,
           a <= Len(c) + 1
    PROVE  /\ \A k \in 0..Len(c) : SubSeq(c \o m, a, k) = SubSeq(c, a, k)
           /\ SubSeq(c \o m, a, Len(c) + Len(m)) = SubSeq(c, a, Len(c)) \o m
<1> DEFINE u == c \o m
           n == Len(c)
           l == Len(m)
<1>1. /\ u \in Seq(Byte) /\ Len(u) = n + l /\ n \in Nat /\ l \in Nat
      /\ \A j \in 1..n : u[j] = c[j]
      /\ \A j \in 1..l : u[n + j] = m[j]
  BY JoinedAt
<1> HIDE DEF u
<1>2. ASSUME NEW k \in 0..n PROVE SubSeq(u, a, k) = SubSeq(c, a, k)
  BY <1>1, <1>2
<1>3. SubSeq(u, a, n + l) = SubSeq(c, a, n) \o m
  <2> DEFINE v == SubSeq(c, a, n)
             z == SubSeq(u, a, n + l)
             p == (n - a) + 1
  <2>1. v \in Seq(Byte) /\ Len(v) = p /\ p \in Nat /\ \A j \in 1..p : v[j] = c[(a + j) - 1]
    BY <1>1
  <2>2. z \in Seq(Byte) /\ Len(z) = p + l /\ \A j \in 1..(p + l) : z[j] = u[(a + j) - 1]
    <3>1. n + l \in Nat /\ n + l <= Len(u) /\ a <= (n + l) + 1
          /\ ((n + l) - a) + 1 = p + l
      BY <1>1
    <3> DEFINE e == n + l
    <3> HIDE DEF e
    <3>2. e \in Nat /\ e <= Len(u) /\ a <= e + 1
      BY <3>1 DEF e
    <3>3. /\ SubSeq(u, a, e) \in Seq(Byte) /\ Len(SubSeq(u, a, e)) = (e - a) + 1
          /\ \A j \in 1..((e - a) + 1) : SubSeq(u, a, e)[j] = u[(a + j) - 1]
      BY <1>1, <3>2
    <3> QED
      BY <3>1, <3>3 DEF e
  <2> HIDE DEF v, z
  <2>3. /\ v \o m \in Seq(Byte) /\ Len(v \o m) = p + l
        /\ \A j \in 1..p : (v \o m)[j] = v[j]
        /\ \A j \in 1..l : (v \o m)[p + j] = m[j]
    <3>1. /\ v \o m \in Seq(Byte) /\ Len(v \o m) = Len(v) + Len(m)
          /\ \A j \in 1..Len(v) : (v \o m)[j] = v[j]
          /\ \A j \in 1..Len(m) : (v \o m)[Len(v) + j] = m[j]
      BY <2>1, JoinedAt
    <3> QED
      BY <2>1, <3>1, Zenon
  <2>4. ASSUME NEW j \in 1..(p + l) PROVE z[j] = (v \o m)[j]
    <3>1. CASE j <= p
      <4>1. j \in 1..p /\ (a + j) - 1 \in 1..n
        BY <1>1, <2>1, <3>1
      <4> QED
        BY <1>1, <2>1, <2>2, <2>3, <4>1
    <3>2. CASE j > p
      <4>1. j - p \in 1..l /\ (a + j) - 1 = n + (j - p) /\ p + (j - p) = j
        BY <1>1, <2>1, <3>2
      <4>2. z[j] = m[j - p]
        BY <1>1, <2>2, <4>1
      <4>3. (v \o m)[j] = m[j - p]
        BY <2>3, <4>1
      <4> QED
        BY <4>2, <4>3
    <3> QED
      BY <2>1, <3>1, <3>2
  <2> DEFINE y == v \o m
  <2> HIDE DEF y, p
  <2>5. y \in Seq(Byte) /\ Len(y) = Len(z) /\ \A j \in 1..Len(z) : z[j] = y[j]
    BY <2>2, <2>3, <2>4 DEF y
  <2>6. z = y
    BY <2>2, <2>5
  <2> QED
    BY <2>6 DEF y, z, v
<1> QED
  BY <1>2, <1>3 DEF u

LEMMA SyncBefore ==
    ASSUME NEW c \in Seq(Byte), NEW m \in Seq(Byte), NEW i \in 0..Len(c),
           SyncAfter(c, i) <= Len(c)
    PROVE  SyncAfter(c \o m, i) = SyncAfter(c, i)
<1> DEFINE u == c \o m
           k == SyncAfter(c, i)
           x == SyncAfter(u, i)
<1>1. /\ u \in Seq(Byte) /\ Len(u) = Len(c) + Len(m) /\ Len(c) \in Nat /\ Len(m) \in Nat
      /\ \A j \in 1..Len(c) : u[j] = c[j]
  BY JoinedAt
<1>2. /\ k \in (i + 1)..(Len(c) + 1) /\ k <= Len(c) /\ c[k] = BEAST_SYNC
      /\ \A j \in (i + 1)..Len(c) : c[j] = BEAST_SYNC => k <= j
  BY SyncAfterIs
<1> HIDE DEF u, k
<1>3. i \in 0..Len(u) /\ i \in Nat
  BY <1>1
<1>4. /\ x \in (i + 1)..(Len(u) + 1)
      /\ x <= Len(u) => u[x] = BEAST_SYNC
      /\ \A j \in (i + 1)..Len(u) : u[j] = BEAST_SYNC => x <= j
  BY <1>1, <1>3, SyncAfterIs
<1> HIDE DEF x
<1>5. x <= k
  <2>1. k \in (i + 1)..Len(u) /\ k \in 1..Len(c)
    BY <1>1, <1>2, <1>3
  <2>2. u[k] = BEAST_SYNC
    BY <1>1, <1>2, <2>1
  <2> QED
    BY <1>4, <2>1, <2>2
<1>6. k <= x
  <2>1. x \in (i + 1)..Len(c) /\ x \in 1..Len(c) /\ x <= Len(u)
    BY <1>1, <1>2, <1>3, <1>4, <1>5
  <2>2. c[x] = BEAST_SYNC
    BY <1>1, <1>4, <2>1
  <2> QED
    BY <1>2, <2>1, <2>2
<1> QED
  BY <1>2, <1>3, <1>4, <1>5, <1>6 DEF k, x, u

LEMMA SyncBehind ==
    ASSUME NEW c \in Seq(Byte), NEW m \in Seq(Byte), NEW w, NEW i \in 0..Len(c),
           SyncAfter(c, i) > Len(c), Extends(m, w)
    PROVE  SyncAfter(c \o m, i) = IF m = <<BEAST_SYNC>> THEN Len(c) + 1
                                  ELSE Len(c) + Len(m) + 1
<1> DEFINE u == c \o m
           n == Len(c)
           l == Len(m)
           x == SyncAfter(u, i)
<1>1. /\ u \in Seq(Byte) /\ Len(u) = n + l /\ n \in Nat /\ l \in Nat
      /\ \A j \in 1..n : u[j] = c[j]
      /\ \A j \in 1..l : u[n + j] = m[j]
  BY JoinedAt
<1>2. \A j \in (i + 1)..n : c[j] # BEAST_SYNC
  <2> DEFINE k == SyncAfter(c, i)
  <2>1. k \in Int /\ \A j \in (i + 1)..n : c[j] = BEAST_SYNC => k <= j
    BY SyncAfterIs
  <2>2. k > n
    OBVIOUS
  <2> HIDE DEF k
  <2> QED
    BY <1>1, <2>1, <2>2
<1> HIDE DEF u
<1>3. i \in 0..Len(u) /\ i \in Nat
  BY <1>1
<1>4. /\ x \in (i + 1)..(Len(u) + 1)
      /\ x <= Len(u) => u[x] = BEAST_SYNC
      /\ \A j \in (i + 1)..Len(u) : u[j] = BEAST_SYNC => x <= j
  BY <1>1, <1>3, SyncAfterIs
<1> HIDE DEF x
<1>5. x > n
  <2>1. SUFFICES ASSUME x <= n PROVE FALSE
    BY <1>1, <1>3, <1>4
  <2>2. x \in (i + 1)..n /\ x \in 1..n /\ x <= Len(u)
    BY <1>1, <1>3, <1>4, <2>1
  <2>3. u[x] = c[x] /\ u[x] = BEAST_SYNC
    BY <1>1, <1>4, <2>2
  <2> QED
    BY <1>2, <2>2, <2>3
<1>6. CASE m = <<BEAST_SYNC>>
  <2>1. l = 1 /\ m[1] = BEAST_SYNC
    BY <1>6
  <2>2. u[n + 1] = BEAST_SYNC /\ n + 1 \in (i + 1)..Len(u)
    BY <1>1, <1>3, <2>1
  <2>3. x <= n + 1
    BY <1>4, <2>2
  <2>4. x = n + 1
    BY <1>1, <1>3, <1>4, <1>5, <2>3
  <2> QED
    BY <1>6, <2>4 DEF x, u
<1>7. CASE m # <<BEAST_SYNC>>
  <2>1. \A j \in 1..l : m[j] # BEAST_SYNC
    BY <1>7 DEF Extends
  <2>2. ~(x <= n + l)
    <3>1. SUFFICES ASSUME x <= n + l PROVE FALSE
      OBVIOUS
    <3>2. x - n \in 1..l /\ n + (x - n) = x /\ x <= Len(u)
      BY <1>1, <1>3, <1>4, <1>5, <3>1
    <3>3. u[x] = m[x - n]
      BY <1>1, <3>2
    <3> QED
      BY <1>4, <2>1, <3>2, <3>3
  <2>3. x \in Int /\ x <= (n + l) + 1
    BY <1>1, <1>3, <1>4
  <2>4. x = (n + l) + 1
    <3> HIDE DEF n, l
    <3> QED
      BY <1>1, <2>2, <2>3
  <2> QED
    BY <1>7, <2>4 DEF x, u
<1> QED
  BY <1>6, <1>7

(* h and g unroll the encodings of c and of c \o m; i is a SYNC of c, or   *)
(* the beginning, and no SYNC of c follows.                                *)
NoneFollows(c, m, w, h, g, i) ==
    /\ c \in Seq(Byte) /\ m \in Seq(Byte) /\ m # <<>> /\ Extends(m, w)
    /\ i \in 0..Len(c) /\ (i = 0 \/ c[i] = BEAST_SYNC)
    /\ SyncAfter(c, i) > Len(c)
    /\ h[i] = RestAt(c, h, i) /\ Unrolled(g, c \o m)

Grew(w, h, g, i) == h[i] \in Seq(Byte) /\ g[i] = h[i] \o w

LEMMA RestBehind ==
    ASSUME NEW c, NEW m, NEW w, NEW h, NEW g, NEW i, NoneFollows(c, m, w, h, g, i)
    PROVE  Grew(w, h, g, i)
<1>0. /\ c \in Seq(Byte) /\ m \in Seq(Byte) /\ m # <<>> /\ Extends(m, w)
      /\ i \in 0..Len(c) /\ (i = 0 \/ c[i] = BEAST_SYNC)
      /\ SyncAfter(c, i) > Len(c)
      /\ h[i] = RestAt(c, h, i) /\ Unrolled(g, c \o m)
  BY Zenon DEF NoneFollows
<1> USE <1>0
<1> DEFINE u == c \o m
           n == Len(c)
           l == Len(m)
           a == Max({i, 1})
           part == SubSeq(c, a, n)
<1>1. /\ u \in Seq(Byte) /\ Len(u) = n + l /\ n \in Nat /\ l \in Nat /\ i \in Nat /\ i <= n
  BY JoinedAt
<1>2. l # 0
  OBVIOUS
<1>3. a = IF i = 0 THEN 1 ELSE i
  BY <1>1, MaxWithOne
<1> HIDE DEF a
<1>4. a \in Nat /\ a >= 1 /\ a <= n + 1
  BY <1>1, <1>3
<1>5. part \in Seq(Byte)
  BY <1>4
<1>6. SubSeq(u, a, n + l) = part \o m
  BY <1>4, PartOfJoined
<1>7. h[i] = part
  <2>1. CASE i = n /\ n # 0
    <3>1. h[i] = <<BEAST_SYNC>>
      BY <2>1 DEF RestAt
    <3>2. a = n /\ c[n] = BEAST_SYNC /\ n \in 1..n
      BY <1>1, <1>3, <2>1
    <3>3. SubSeq(c, n, n) = <<c[n]>>
      <4> DEFINE e == n
                 v == SubSeq(c, e, e)
      <4>1. e \in 1..Len(c)
        BY <3>2
      <4> HIDE DEF e
      <4>2. v \in Seq(Byte) /\ Len(v) = 1 /\ v[1] = c[e]
        BY <4>1
      <4> HIDE DEF v
      <4>3. v = <<c[e]>>
        BY <4>2
      <4> QED
        BY <4>3 DEF v, e
    <3> QED
      BY <3>1, <3>2, <3>3
  <2>2. CASE ~(i = n /\ n # 0)
    <3>1. SyncAfter(c, i) = n + 1
      <4> DEFINE k == SyncAfter(c, i)
      <4>1. k \in (i + 1)..(n + 1) /\ k > n
        BY SyncAfterIs
      <4> HIDE DEF k
      <4>2. k = n + 1
        BY <1>1, <4>1
      <4> QED
        BY <4>2 DEF k
    <3>2. Min({n + 1, n}) = n /\ ~(n + 1 <= n)
      BY <1>1, MinOfTwo
    <3>3. h[i] = part \o <<>>
      BY <2>2, <3>1, <3>2, Zenon DEF RestAt, a
    <3> QED
      BY <1>5, <3>3
  <2> QED
    BY <2>1, <2>2
<1>8. ~(i = Len(u) /\ Len(u) # 0) /\ i \in 0..Len(u)
  BY <1>1, <1>2
<1>9. g[i] = RestAt(u, g, i)
  BY <1>8 DEF Unrolled
<1>10. SyncAfter(u, i) = IF m = <<BEAST_SYNC>> THEN n + 1 ELSE n + l + 1
  BY SyncBehind
<1>11. CASE m = <<BEAST_SYNC>>
  <2>1. l = 1 /\ w = <<BEAST_SYNC, BEAST_SYNC>>
    <3>1. m[1] = BEAST_SYNC /\ 1 \in 1..Len(m)
      BY <1>11
    <3> QED
      BY <1>11, <3>1 DEF Extends
  <2>2. Len(u) = n + 1 /\ n + 1 \in 0..Len(u) /\ n + 1 # 0
    BY <1>1, <2>1
  <2>3. g[n + 1] = <<BEAST_SYNC>>
    <3>1. g[n + 1] = RestAt(u, g, n + 1)
      BY <2>2 DEF Unrolled
    <3> QED
      BY <2>2, <3>1, Zenon DEF RestAt
  <2>4. SyncAfter(u, i) = n + 1 /\ Min({n + 1, n + 1}) = n + 1 /\ n + 1 <= n + 1
    BY <1>1, <1>10, <1>11, MinOfTwo
  <2>5. g[i] = SubSeq(u, a, n + 1) \o g[n + 1]
    <3> HIDE DEF u
    <3> QED
      BY <1>8, <1>9, <2>2, <2>4, Zenon DEF RestAt, a
  <2>6. g[i] = (part \o <<BEAST_SYNC>>) \o <<BEAST_SYNC>>
    BY <1>6, <1>11, <2>1, <2>3, <2>5
  <2> HIDE DEF part
  <2>7. (part \o <<BEAST_SYNC>>) \o <<BEAST_SYNC>> = part \o <<BEAST_SYNC, BEAST_SYNC>>
    BY <1>5, SyncIsByte
  <2> QED
    BY <1>5, <1>7, <2>1, <2>6, <2>7 DEF Grew
<1>12. CASE m # <<BEAST_SYNC>>
  <2>1. w = m
    BY <1>12 DEF Extends
  <2>2. SyncAfter(u, i) = (n + l) + 1 /\ ~((n + l) + 1 <= n + l)
        /\ Min({(n + l) + 1, n + l}) = n + l
    BY <1>1, <1>10, <1>12, MinOfTwo
  <2>3. g[i] = SubSeq(u, a, n + l) \o <<>>
    <3> HIDE DEF u
    <3> QED
      BY <1>1, <1>8, <1>9, <2>2, Zenon DEF RestAt, a
  <2>4. g[i] = (part \o m) \o <<>>
    BY <1>6, <2>3
  <2>5. part \o m \in Seq(Byte)
    <3> HIDE DEF part
    <3> QED
      BY <1>5
  <2> HIDE DEF part
  <2>6. (part \o m) \o <<>> = part \o m
    BY <2>5
  <2> QED
    BY <1>5, <1>7, <2>1, <2>4, <2>6 DEF Grew
<1> QED
  BY <1>11, <1>12 DEF Grew

LEMMA EncodeGrows ==
    ASSUME NEW c \in Seq(Byte), NEW m \in Seq(Byte), NEW w \in Seq(Byte), m # <<>>,
           Extends(m, w)
    PROVE  /\ BEAST_encode(c) \in Seq(Byte)
           /\ BEAST_encode(c \o m) = BEAST_encode(c) \o w
<1> DEFINE u == c \o m
           n == Len(c)
<1>1. /\ u \in Seq(Byte) /\ Len(u) = n + Len(m) /\ n \in Nat /\ Len(m) \in Nat
  BY JoinedAt
<1>2. PICK h : /\ BEAST_encode(c) = h[0]
               /\ Unrolled(h, c)
  BY EncodeUnrolls
<1>3. PICK g : /\ BEAST_encode(u) = g[0]
               /\ Unrolled(g, u)
  BY <1>1, EncodeUnrolls
<1> DEFINE Anchor == {i \in 0..n : i = 0 \/ c[i] = BEAST_SYNC}
           P(i) == h[i] \in Seq(Byte) /\ g[i] = h[i] \o w
           T == {d \in 0..n : n - d \in Anchor /\ ~P(n - d)}
<1>4. ASSUME NEW i \in Anchor, \A j \in Anchor : j > i => P(j)
      PROVE  P(i)
  <2>1. i \in 0..n /\ (i = 0 \/ c[i] = BEAST_SYNC) /\ h[i] = RestAt(c, h, i)
    BY <1>2 DEF Unrolled
  <2>2. CASE SyncAfter(c, i) > n
    <3>1. NoneFollows(c, m, w, h, g, i)
      BY <1>3, <2>1, <2>2 DEF NoneFollows
    <3>2. Grew(w, h, g, i)
      BY <3>1, RestBehind
    <3> QED
      BY <3>2 DEF Grew
  <2>3. CASE ~(SyncAfter(c, i) > n)
    <3> DEFINE k == SyncAfter(c, i)
               a == Max({i, 1})
               part == SubSeq(c, a, k)
    <3>1. k \in (i + 1)..(n + 1) /\ (k <= n => c[k] = BEAST_SYNC)
      BY <2>1, SyncAfterIs
    <3>2. ~(k > n)
      BY <2>3
    <3>3. SyncAfter(u, i) = k
      <4>1. SyncAfter(c, i) <= Len(c)
        <5> HIDE DEF k
        <5>1. k <= n
          BY <1>1, <2>1, <3>1, <3>2
        <5> QED
          BY <5>1 DEF k
      <4> QED
        BY <2>1, <4>1, SyncBefore
    <3>4. a = IF i = 0 THEN 1 ELSE i
      BY <2>1, MaxWithOne
    <3> HIDE DEF k, a
    <3>5. /\ k <= n /\ k \in Anchor /\ k > i /\ k \in 0..n /\ k \in Nat /\ i # n
          /\ i \in 0..Len(u) /\ i # Len(u) /\ k <= Len(u)
      BY <1>1, <2>1, <3>1, <3>2
    <3>6. a \in Nat /\ a >= 1 /\ a <= n + 1
      BY <1>1, <2>1, <3>4
    <3>7. part \in Seq(Byte)
      BY <3>5, <3>6
    <3>8. SubSeq(u, a, k) = part
      BY <3>5, <3>6, PartOfJoined
    <3>9. Min({k, n}) = k /\ Min({k, Len(u)}) = k
      BY <1>1, <3>5, MinOfTwo
    <3>10. h[i] = part \o h[k]
      BY <2>1, <3>5, <3>9, Zenon DEF RestAt, k, a
    <3>11. g[i] = SubSeq(u, a, k) \o g[k]
      <4>1. g[i] = RestAt(u, g, i)
        BY <1>3, <3>5 DEF Unrolled
      <4> HIDE DEF u
      <4> QED
        BY <3>3, <3>5, <3>9, <4>1, Zenon DEF RestAt, a
    <3>12. h[k] \in Seq(Byte) /\ g[k] = h[k] \o w
      BY <1>4, <3>5
    <3> HIDE DEF part
    <3>13. g[i] = part \o (h[k] \o w)
      BY <3>8, <3>11, <3>12
    <3>14. part \o (h[k] \o w) = (part \o h[k]) \o w /\ part \o h[k] \in Seq(Byte)
      <4> DEFINE y == h[k]
      <4>0. w \in Seq(Byte)
        OBVIOUS
      <4>1. y \in Seq(Byte)
        BY <3>12
      <4> HIDE DEF y
      <4>2. part \o (y \o w) = (part \o y) \o w
        <5>1. Associate(part, y, w)
          BY ONLY <3>7, <4>0, <4>1, Associative
        <5> QED
          BY <5>1, Zenon DEF Associate
      <4>3. part \o y \in Seq(Byte)
        BY <3>7, <4>1
      <4> QED
        BY <4>2, <4>3 DEF y
    <3> QED
      BY <3>10, <3>13, <3>14
  <2> QED
    BY <2>2, <2>3
<1>5. ASSUME T # {} PROVE FALSE
  <2>1. T \subseteq Nat
    BY <1>1
  <2>2. PICK d \in T : \A y \in T : d <= y
    <3> HIDE DEF T
    <3> QED
      BY <1>5, <2>1, LeastElement
  <2> DEFINE i == n - d
  <2>3. i \in Anchor /\ ~P(i) /\ i \in 0..n /\ d \in 0..n
    BY <2>2
  <2>4. ASSUME NEW j \in Anchor, j > i PROVE P(j)
    <3>1. n - j \in 0..n /\ n - (n - j) = j /\ ~(d <= n - j)
      BY <1>1, <2>3, <2>4
    <3>2. n - j \notin T
      BY <2>2, <3>1
    <3> HIDE DEF P, Anchor
    <3> QED
      BY <3>1, <3>2
  <2> HIDE DEF i
  <2>5. P(i)
    BY <1>4, <2>3, <2>4
  <2> QED
    BY <2>3, <2>5
<1>6. P(0)
  <2>1. n \in 0..n /\ n - n = 0 /\ 0 \in Anchor
    BY <1>1
  <2>2. n \notin T
    <3> HIDE DEF T
    <3> QED
      BY <1>5
  <2> HIDE DEF P, Anchor
  <2> QED
    BY <2>1, <2>2
<1> QED
  BY <1>2, <1>3, <1>6

-----------------------------------------------------------------------------
(* INPUT: the raw frame is the encoded one, at every byte of it.           *)

(* A frame as BEAST_encode() would send it.                                *)
Coded(t, c) == <<BEAST_SYNC, t>> \o BEAST_encode(c)

EncodeInv ==
    /\ rcPc = "decode" => raw = Coded(type, content)
    /\ rcPc = "decodePeek" => raw = Coded(type, content) \o <<BEAST_SYNC>>
    /\ RoundTrip

LEMMA CodedIsBytes ==
    ASSUME NEW t \in Byte, NEW c \in Seq(Byte)
    PROVE  BEAST_encode(c) \in Seq(Byte) /\ Coded(t, c) \in Seq(Byte)
<1> DEFINE m == <<BEAST_SYNC>>
           w == <<BEAST_SYNC, BEAST_SYNC>>
<1>1. m \in Seq(Byte) /\ w \in Seq(Byte) /\ m # <<>>
  BY SyncIsByte
<1>2. Extends(m, w)
  BY DEF Extends
<1> HIDE DEF m, w
<1>3. BEAST_encode(c) \in Seq(Byte)
  BY <1>1, <1>2, EncodeGrows
<1>4. <<BEAST_SYNC, t>> \in Seq(Byte)
  BY SyncIsByte
<1> QED
  BY <1>3, <1>4, Joined DEF Coded

LEMMA EncodeEmpty == BEAST_encode(<<>>) = <<>>
<1> DEFINE e == <<>>
<1>1. e \in Seq(Byte) /\ Len(e) = 0
  OBVIOUS
<1>2. SubSeq(e, 1, 0) = e
  OBVIOUS
<1>3. e \o e = e
  OBVIOUS
<1> HIDE DEF e
<1>4. PICK h : BEAST_encode(e) = h[0] /\ Unrolled(h, e)
  BY <1>1, EncodeUnrolls
<1>5. 0 \in 0..Len(e)
  BY <1>1
<1>6. h[0] = RestAt(e, h, 0)
  BY <1>4, <1>5, Zenon DEF Unrolled
<1>7. SyncAfter(e, 0) = 1
  <2> DEFINE k == SyncAfter(e, 0)
  <2>1. k \in (0 + 1)..(Len(e) + 1)
    BY <1>1, <1>5, SyncAfterIs
  <2> HIDE DEF k
  <2>2. k = 1
    BY <1>1, <2>1
  <2> QED
    BY <2>2 DEF k
<1>8. Max({0, 1}) = 1 /\ Min({1, 0}) = 0 /\ ~(1 <= 0)
  BY MaxWithOne, MinOfTwo
<1>9. RestAt(e, h, 0) = SubSeq(e, 1, 0) \o <<>>
  BY <1>1, <1>7, <1>8, Zenon DEF RestAt
<1> QED
  BY <1>2, <1>3, <1>4, <1>6, <1>9 DEF e

LEMMA CodedStarts ==
    ASSUME NEW t \in Byte
    PROVE  Coded(t, <<>>) = <<BEAST_SYNC, t>>
<1> DEFINE x == <<BEAST_SYNC, t>>
<1>1. x \in Seq(Byte)
  BY SyncIsByte
<1>2. Coded(t, <<>>) = x \o <<>>
  BY EncodeEmpty, Zenon DEF Coded
<1> HIDE DEF x
<1>3. x \o <<>> = x
  BY <1>1
<1> QED
  BY <1>2, <1>3 DEF x

LEMMA CodedGrows ==
    ASSUME NEW t \in Byte, NEW c \in Seq(Byte), NEW m \in Seq(Byte), NEW w \in Seq(Byte),
           Extends(m, w), m # <<>>
    PROVE  Coded(t, c \o m) = Coded(t, c) \o w
<1> DEFINE x == <<BEAST_SYNC, t>>
           y == BEAST_encode(c)
<1>1. x \in Seq(Byte) /\ y \in Seq(Byte)
  BY SyncIsByte, CodedIsBytes
<1>2. BEAST_encode(c \o m) = y \o w
  BY EncodeGrows
<1> HIDE DEF x, y
<1>3. x \o (y \o w) = (x \o y) \o w
  <2>1. Associate(x, y, w)
    BY <1>1, Associative
  <2> QED
    BY <2>1, Zenon DEF Associate
<1> QED
  BY <1>2, <1>3 DEF Coded, x, y

LEMMA CodedCopies ==
    ASSUME NEW t \in Byte, NEW c \in Seq(Byte), NEW s \in Seq(Byte), NEW p \in Nat,
           NEW k \in Nat, p + k <= Len(s), NoSync(s, p, k)
    PROVE  Coded(t, c \o SubSeq(s, p + 1, p + k)) = Coded(t, c) \o SubSeq(s, p + 1, p + k)
<1> DEFINE m == SubSeq(s, p + 1, p + k)
<1>1. m \in Seq(Byte) /\ Len(m) = k /\ \A i \in 1..k : m[i] = s[p + i]
  OBVIOUS
<1> HIDE DEF m
<1>2. Extends(m, m)
  BY <1>1 DEF NoSync, Extends
<1>3. CASE m = <<>>
  <2>1. Coded(t, c) \in Seq(Byte)
    BY CodedIsBytes
  <2> DEFINE x == Coded(t, c)
  <2> HIDE DEF x
  <2>2. x \in Seq(Byte)
    BY <2>1 DEF x
  <2>3. c \o <<>> = c
    OBVIOUS
  <2>4. x \o <<>> = x
    BY <2>2
  <2>5. Coded(t, c \o m) = Coded(t, c) \o m
    BY <1>3, <2>3, <2>4, Zenon DEF x
  <2> QED
    BY <2>5 DEF m
<1>4. CASE m # <<>>
  <2>1. Coded(t, c \o m) = Coded(t, c) \o m
    BY <1>1, <1>2, <1>4, CodedGrows, ZenonT(60)
  <2> QED
    BY <2>1 DEF m
<1> QED
  BY <1>3, <1>4

LEMMA RoundTripGrows ==
    ASSUME parsed \in Seq(Frame), RoundTrip, NEW t, NEW c, NEW r, r = Coded(t, c),
           parsed' = Append(parsed, FrameOf(t, c, r))
    PROVE  RoundTrip'
<1> SUFFICES ASSUME NEW i \in 1..Len(parsed')
             PROVE  parsed'[i].raw = Coded(parsed'[i].type, parsed'[i].content)
  BY DEF RoundTrip, Coded
<1>1. Len(parsed) \in Nat
  OBVIOUS
<1>2. CASE i = Len(parsed) + 1
  <2>1. parsed'[i] = FrameOf(t, c, r)
    BY <1>2
  <2> QED
    BY <2>1 DEF FrameOf
<1>3. CASE i # Len(parsed) + 1
  <2>1. Len(parsed') = Len(parsed) + 1
    OBVIOUS
  <2>2. i \in 1..Len(parsed)
    BY <1>1, <1>3, <2>1
  <2>3. parsed'[i] = parsed[i]
    BY <2>2
  <2>4. parsed[i].raw = Coded(parsed[i].type, parsed[i].content)
    BY <2>2, Zenon DEF RoundTrip, Coded
  <2> QED
    BY <2>3, <2>4
<1> QED
  BY <1>2, <1>3

LEMMA EncodeDecodes ==
    ASSUME InputInv, FrameInv, EncodeInv, RcDecode
    PROVE  EncodeInv'
<1>1. PICK k \in Nat : /\ NoSync(stream, cur, k)
                       /\ CopiesUpToSync(k) \/ Copies(k)
  BY DecodeCopies
<1>2. /\ rcPc = "decode" /\ stream \in Seq(Byte) /\ cur \in Nat /\ end \in Nat
      /\ Len(stream) \in Nat /\ end <= Len(stream)
  BY InputTypes DEF RcDecode, At
<1>3. /\ type \in Byte /\ content \in Seq(Byte) /\ raw = Coded(type, content)
      /\ parsed \in Seq(Frame) /\ RoundTrip
      /\ FrameLen(type) \in Nat
  BY <1>2, PartOfFrame DEF EncodeInv, FrameInv
<1> DEFINE bytes == SubSeq(stream, cur + 1, cur + k)
           c == content \o bytes
           r == raw \o bytes
<1>4. cur + k <= Len(stream)
  <2>1. CASE CopiesUpToSync(k)
    BY <1>2, <2>1 DEF CopiesUpToSync
  <2>2. CASE Copies(k)
    BY <1>2, <2>2 DEF Copies
  <2> QED
    BY <1>1, <2>1, <2>2
<1>5. r = Coded(type, c)
  <2>1. /\ type \in Byte /\ content \in Seq(Byte) /\ stream \in Seq(Byte) /\ cur \in Nat
        /\ NoSync(stream, cur, k)
    BY <1>1, <1>2, <1>3
  <2>2. Coded(type, content \o SubSeq(stream, cur + 1, cur + k)) =
            Coded(type, content) \o SubSeq(stream, cur + 1, cur + k)
    BY <1>4, <2>1, CodedCopies
  <2> QED
    BY <1>3, <2>2, Zenon
<1>6. CASE CopiesUpToSync(k)
  <2>1. /\ rcPc' = "decodePeek" /\ type' = type /\ content' = c
        /\ raw' = r \o <<BEAST_SYNC>> /\ parsed' = parsed
    BY <1>6 DEF CopiesUpToSync, Step
  <2> HIDE DEF c, r
  <2> QED
    BY <1>3, <1>5, <2>1 DEF EncodeInv, RoundTrip
<1>7. CASE Copies(k)
  <2> DEFINE full == Len(content) + k = FrameLen(type)
  <2>1. /\ rcPc' = IF full THEN "status" ELSE "decode"
        /\ type' = type /\ content' = c /\ raw' = r
        /\ parsed' = IF full THEN Append(parsed, FrameOf(type, c, r)) ELSE parsed
    BY <1>7 DEF Copies, Step
  <2> HIDE DEF c, r, full
  <2>2. CASE full
    <3>1. RoundTrip'
      BY <1>3, <1>5, <2>1, <2>2, RoundTripGrows
    <3> QED
      BY <2>1, <2>2, <3>1 DEF EncodeInv
  <2>3. CASE ~full
    BY <1>3, <1>5, <2>1, <2>3 DEF EncodeInv, RoundTrip
  <2> QED
    BY <2>2, <2>3
<1> QED
  BY <1>1, <1>6, <1>7

LEMMA EncodeEscapes ==
    ASSUME InputInv, FrameInv, EncodeInv, RcEscaped
    PROVE  EncodeInv'
<1> DEFINE m == <<BEAST_SYNC>>
           w == <<BEAST_SYNC, BEAST_SYNC>>
           c == content \o m
           r == raw \o m
           full == Len(c) = FrameLen(type)
<1>1. rcPc = "decodePeek" /\ Step(AfterDecoding(m), 1) /\ Decoded(m, m)
  BY DEF RcEscaped, At
<1>2. /\ type \in Byte /\ content \in Seq(Byte) /\ raw = Coded(type, content) \o m
      /\ parsed \in Seq(Frame) /\ RoundTrip
  BY <1>1, PartOfFrame DEF EncodeInv, FrameInv
<1>3. m \in Seq(Byte) /\ w \in Seq(Byte) /\ m # <<>> /\ Len(m) = 1
  BY SyncIsByte
<1>4. Extends(m, w)
  BY DEF Extends
<1>5. (Coded(type, content) \o m) \o m = Coded(type, content) \o w
  <2> DEFINE x == Coded(type, content)
  <2>1. x \in Seq(Byte)
    BY <1>2, CodedIsBytes
  <2> HIDE DEF x
  <2>2. (x \o <<BEAST_SYNC>>) \o <<BEAST_SYNC>> = x \o <<BEAST_SYNC, BEAST_SYNC>>
    BY <2>1, SyncIsByte
  <2> QED
    BY <2>2 DEF x
<1>6. rcPc' = IF full THEN "status" ELSE "decode"
  <2>1. Len(content \o m) = Len(content) + Len(m)
    BY <1>2, <1>3, Joined
  <2> QED
    BY <1>1, <2>1 DEF AfterDecoding, Step
<1>7. /\ type' = type /\ content' = c /\ raw' = r
      /\ parsed' = IF full THEN Append(parsed, FrameOf(type, c, r)) ELSE parsed
  BY <1>1 DEF Decoded, FrameOf
<1> HIDE DEF m, w
<1>8. r = Coded(type, c)
  <2>1. Coded(type, content \o m) = Coded(type, content) \o w
    BY <1>2, <1>3, <1>4, CodedGrows
  <2> QED
    BY <1>2, <1>5, <2>1
<1> HIDE DEF c, r, full
<1>9. CASE full
  <2>1. RoundTrip'
    BY <1>2, <1>7, <1>8, <1>9, RoundTripGrows
  <2> QED
    BY <1>6, <1>9, <2>1 DEF EncodeInv
<1>10. CASE ~full
  BY <1>2, <1>6, <1>7, <1>8, <1>10 DEF EncodeInv, RoundTrip
<1> QED
  BY <1>9, <1>10

LEMMA EncodeTypes ==
    ASSUME InputInv, EncodeInv, RcType
    PROVE  EncodeInv'
<1>1. /\ rcPc' = "decode" /\ type' = Peek /\ content' = <<>> /\ cur < end
      /\ raw' = <<BEAST_SYNC, Peek>> /\ parsed' = parsed
  BY DEF RcType, At, Step
<1>2. Peek \in Byte
  BY <1>1, PeekByte
<1>3. raw' = Coded(Peek, <<>>)
  BY <1>1, <1>2, CodedStarts
<1>4. (raw = Coded(type, content))'
  BY <1>1, <1>3
<1> QED
  BY <1>1, <1>4 DEF EncodeInv, RoundTrip

(* The other steps add nothing to a frame.                                 *)
LEMMA EncodeStays ==
    ASSUME EncodeInv, UNCHANGED parsed,
           \/ rcPc' \notin {"decode", "decodePeek"}
           \/ UNCHANGED <<rcPc, type, content, raw>>
    PROVE  EncodeInv'
<1>1. RoundTrip'
  BY DEF EncodeInv, RoundTrip
<1>2. CASE rcPc' \notin {"decode", "decodePeek"}
  BY <1>1, <1>2 DEF EncodeInv
<1>3. CASE UNCHANGED <<rcPc, type, content, raw>>
  BY <1>1, <1>3 DEF EncodeInv
<1> QED
  BY <1>2, <1>3

LEMMA EncodeStep ==
    ASSUME InputInv, RcInv, EncodeInv, RcNext
    PROVE  EncodeInv'
<1>1. CASE RcConnect
  BY <1>1, EncodeStays DEF RcConnect
<1>2. CASE RcFill
  BY <1>2, EncodeStays DEF RcFill, rcVars, frameVars
<1>3. CASE RcReadFails
  BY <1>3 DEF RcReadFails, EncodeInv, RoundTrip
<1>4. CASE RcSync
  BY <1>4, EncodeStays DEF RcSync, Step
<1>5. CASE RcSynchronize
  BY <1>5, EncodeStays DEF RcSynchronize, Step
<1>6. CASE RcSynchronizePeek
  BY <1>6, EncodeStays DEF RcSynchronizePeek, Step
<1>7. CASE RcType
  BY <1>7, EncodeTypes
<1>8. CASE RcUnknownType
  BY <1>8, EncodeStays DEF RcUnknownType, Step
<1>9. CASE RcDecode
  BY <1>9, EncodeDecodes DEF RcInv, RcDecode, At
<1>10. CASE RcEscaped
  BY <1>10, EncodeEscapes DEF RcInv, RcEscaped, At
<1>11. CASE RcResync
  BY <1>11, EncodeStays DEF RcResync, Step
<1>12. CASE RecvStatus
  BY <1>12, EncodeStays DEF RecvStatus, frameVars
<1>13. CASE FilterSynchronized
  BY <1>13, EncodeStays DEF FilterSynchronized, frameVars
<1>14. CASE FilterMode
  BY <1>14, EncodeStays DEF FilterMode, frameVars
<1>15. CASE Command
  BY <1>15, EncodeStays DEF Command, frameVars
<1>16. CASE FILTER_setSynchronizedFilter
  BY <1>16, EncodeStays DEF FILTER_setSynchronizedFilter, Did, frameVars
<1>17. CASE FILTER_setModeSExtSquitter
  BY <1>17, EncodeStays DEF FILTER_setModeSExtSquitter, Did, frameVars
<1>18. CASE FILTER_reset
  BY <1>18, EncodeStays DEF FILTER_reset, Did, frameVars
<1> QED
  BY <1>1, <1>2, <1>3, <1>4, <1>5, <1>6, <1>7, <1>8, <1>9, <1>10, <1>11, <1>12,
     <1>13, <1>14, <1>15, <1>16, <1>17, <1>18 DEF RcNext

-----------------------------------------------------------------------------
(* What the bytes of the connection have to do with what was made of them. *)
StreamInv == ScanInv /\ EncodeInv /\ TrScanInv /\ TrackInv

LEMMA StreamsInit == MCInit => StreamInv
<1> SUFFICES ASSUME MCInit PROVE StreamInv
  OBVIOUS
<1>1. rcPc \in {"off", "connect"} /\ parsed = <<>>
  BY DEF MCInit, RcInit, RcNull
<1>2. trPc \in {"off", "connect"}
  BY DEF MCInit, TrInit, TrNull
<1>3. tbPc = "off" \/ (tbPc = "wait" /\ called = <<>> /\ misread = FALSE)
  BY DEF MCInit, CmdInit, CmdNull
<1>4. EncodeInv
  BY <1>1 DEF EncodeInv, RoundTrip
<1> QED
  BY <1>1, <1>2, <1>3, <1>4 DEF StreamInv, ScanInv, TrScanInv, TrackInv

LEMMA StreamsOff ==
    /\ RcOff /\ EncodeInv => ScanInv' /\ EncodeInv'
    /\ TrOff => TrScanInv'
    /\ CmdOff => TrackInv'
<1>1. ASSUME RcOff, EncodeInv PROVE ScanInv' /\ EncodeInv'
  <2>1. rcPc' = "off" /\ parsed' = parsed
    BY <1>1 DEF RcOff, rcVars
  <2> QED
    BY <1>1, <2>1, EncodeStays DEF ScanInv
<1>2. TrOff => TrScanInv'
  BY DEF TrOff, trVars, TrScanInv
<1>3. CmdOff => TrackInv'
  BY DEF CmdOff, cmdVars, TrackInv
<1> QED
  BY <1>1, <1>2, <1>3

LEMMA StreamsStandStill ==
    ASSUME StreamInv, UNCHANGED <<inputVars, rcVars, trVars, cmdVars>>
    PROVE  StreamInv'
<1>1. UNCHANGED <<stream, cur, end, rcPc, type, content, raw, parsed,
                  trPc, packet, packets, tbPc, tbBuf, called, misread>>
  BY DEF inputVars, rcVars, frameVars, trVars, cmdVars
<1>2. ScanInv' /\ EncodeInv' /\ TrScanInv'
  BY <1>1, ScanStays, EncodeStays, TrScanStays DEF StreamInv
<1>3. TrackInv'
  BY <1>1 DEF StreamInv, TrackInv
<1> QED
  BY <1>2, <1>3 DEF StreamInv

LEMMA StreamsInvariant == Spec => []StreamInv
<1>1. /\ ReceiverInv /\ StreamInv
      /\ [MCNext]_<<inputVars, rcVars, trVars, cmdVars>>
      => StreamInv'
  <2> SUFFICES ASSUME ReceiverInv, StreamInv,
                      MCNext \/ UNCHANGED <<inputVars, rcVars, trVars, cmdVars>>
               PROVE  StreamInv'
    OBVIOUS
  <2>1. InputInv /\ RcInv /\ TrInv /\ CmdInv
    BY DEF ReceiverInv
  <2>2. ScanInv /\ EncodeInv /\ TrScanInv /\ TrackInv
    BY DEF StreamInv
  <2>3. CASE RcNext /\ TrOff /\ CmdOff
    BY <2>1, <2>2, <2>3, ScanStep, EncodeStep, StreamsOff DEF StreamInv
  <2>4. CASE TrNext /\ RcOff /\ CmdOff
    BY <2>1, <2>2, <2>4, TrScanStep, StreamsOff DEF StreamInv
  <2>5. CASE CmdNext /\ RcOff /\ TrOff
    BY <2>1, <2>2, <2>5, TrackStep, StreamsOff DEF StreamInv
  <2> QED
    BY <2>3, <2>4, <2>5, StreamsStandStill DEF MCNext
<1> QED
  BY <1>1, StreamsInit, ReceiversInvariant, PTL DEF Spec

(* INPUT_getFrame() (radarcape/rc-parser.c:208-402) returns exactly the    *)
(* frames in the bytes of the connection, for every stream and every way   *)
(* read() cuts it.                                                         *)
THEOREM FramesAreParsed == Spec => []ParsesStream
<1>1. StreamInv => ParsesStream
  <2> SUFFICES ASSUME StreamInv, rcPc \in Reading, cur = end
               PROVE  parsed = Scanned(stream)[end].frames
    BY DEF ParsesStream
  <2> QED
    BY ScanTells DEF StreamInv
<1> QED
  BY <1>1, StreamsInvariant, PTL

(* BEAST_encode() (core/beast.c) is the inverse of decode(): for every     *)
(* frame the raw bytes that are relayed encode the content that was        *)
(* filtered.                                                               *)
THEOREM EncodingRoundTrips == Spec => []RoundTrip
<1>1. StreamInv => RoundTrip
  BY DEF StreamInv, EncodeInv
<1> QED
  BY <1>1, StreamsInvariant, PTL

(* TRIMBLE_PARSER_getFrame() (trimble/trimble_parser.c) returns exactly    *)
(* the packets in the bytes of the connection, for every stream and every  *)
(* way read() cuts it.                                                     *)
THEOREM PacketsAreParsed == Spec => []TrParsesStream
<1>1. StreamInv => TrParsesStream
  <2> SUFFICES ASSUME StreamInv, trPc \in TrReading, cur = end
               PROVE  packets = TrScanned(stream)[end].packets
    BY DEF TrParsesStream
  <2> QED
    BY TrScanTells DEF StreamInv
<1> QED
  BY <1>1, StreamsInvariant, PTL

(* mainloop() of TB (core/tb.c) executes the commands the server sent, in  *)
(* order and once each, however the bytes of the connection arrive.        *)
THEOREM CommandsAreExecuted == Spec => []ExecutesCommands
<1>1. ReceiverInv /\ StreamInv => ExecutesCommands
  <2> SUFFICES ASSUME ReceiverInv, StreamInv, tbPc = "receive", ~misread
               PROVE  called = CommandsIn(SubSeq(stream, 1, end), 1)
    BY DEF ExecutesCommands
  <2>1. OnTrack(stream, end, tbBuf, called) /\ ~Complete(tbBuf)
    BY DEF StreamInv, TrackInv
  <2>2. stream \in Seq(Byte) /\ end \in 0..Len(stream)
    BY DEF ReceiverInv, InputInv, InputOK
  <2> QED
    BY <2>1, <2>2, TrackTells
<1> QED
  BY <1>1, ReceiversInvariant, StreamsInvariant, PTL
=============================================================================
