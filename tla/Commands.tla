----------------------------- MODULE Commands -----------------------------
(***************************************************************************)
(* TB: packets from the server are cut out of the bytes NET_receive()      *)
(* delivers and dispatched to the processor of their type (core/tb.c).     *)
(*                                                                         *)
(* A packet is a type and a length (two bytes each, the length counts the  *)
(* header) and the payload.  The size of the buffer, which is also the     *)
(* largest length that is accepted, is a parameter.                        *)
(***************************************************************************)
EXTENDS ByteInput

CONSTANTS
    TbSize,      \* sizeof buf in mainloop(), and the maximum of frame.len
    Processors,  \* the registered processors: payload length by type
    TbStreams    \* what the server may send on one connection

ASSUME CommandsAssumption ==
    /\ TbSize \in Nat /\ TbSize >= 4
    /\ \A t \in DOMAIN Processors : Processors[t] \in Nat
    /\ TbStreams \subseteq Seq(Byte)

HeaderSize == 4

VARIABLES
    tbPc,        \* "wait", "packets" (the inner loop) or "receive"
    tbBuf,       \* buf[0..bufLen-1]
    called,      \* packets of this connection whose processor was called
    misread      \* has TB lost track of where packets begin?

cmdVars == <<tbPc, tbBuf, called, misread>>

CmdInit ==
    /\ tbPc = "wait"
    /\ tbBuf = <<>>
    /\ called = <<>>
    /\ misread = FALSE

(* NET_waitConnected() returns: a new connection, reset buffer.            *)
TbConnected ==
    /\ tbPc = "wait"
    /\ Connect(TbStreams)
    /\ tbPc' = "packets"
    /\ tbBuf' = <<>>
    /\ UNCHANGED <<called, misread>>

(* be16toh() of the header fields of the first packet in bytes.            *)
PacketType(bytes) == bytes[1] * 256 + bytes[2]
PacketLen(bytes) == bytes[3] * 256 + bytes[4]
HasHeader(bytes) == Len(bytes) >= HeaderSize
Sane(len) == len \in HeaderSize..TbSize
FirstPacket(bytes) ==
    [type |-> PacketType(bytes), payload |-> SubSeq(bytes, HeaderSize + 1, PacketLen(bytes))]

(* The sanity check fails: reset buffer.                                   *)
TbWrongLength ==
    /\ tbPc = "packets"
    /\ HasHeader(tbBuf)
    /\ ~Sane(PacketLen(tbBuf))
    /\ tbBuf' = <<>>
    /\ tbPc' = "receive"
    /\ misread' = TRUE
    /\ UNCHANGED <<inputVars, called>>

(* memmove(): the packet is cleared from the buffer.                       *)
Remaining_all(len) == <<>> \* mutant: what follows the packet is lost
Remaining(len) == SubSeq(tbBuf, len + 1, Len(tbBuf))

(* processPacket(): there is a processor for the type, and it expects that *)
(* length.                                                                 *)
Expected(p) == p.type \in DOMAIN Processors /\ Len(p.payload) = Processors[p.type]

(* A complete packet: processPacket(), and it is cleared from the buffer.  *)
TbPacket ==
    /\ tbPc = "packets"
    /\ HasHeader(tbBuf)
    /\ LET len == PacketLen(tbBuf)
           p == FirstPacket(tbBuf)
       IN  /\ Sane(len)
           /\ Len(tbBuf) >= len
           /\ called' = IF Expected(p) THEN Append(called, p) ELSE called
           /\ tbBuf' = Remaining(len)
    /\ UNCHANGED <<inputVars, tbPc, misread>>

(* No header yet, or the packet is incomplete: more data needed.           *)
TbNeedsMore ==
    /\ tbPc = "packets"
    /\ HasHeader(tbBuf) => Sane(PacketLen(tbBuf)) /\ Len(tbBuf) < PacketLen(tbBuf)
    /\ tbPc' = "receive"
    /\ UNCHANGED <<inputVars, tbBuf, called, misread>>

(* NET_receive() delivers at most what there is space for.                 *)
TbReceive ==
    /\ tbPc = "receive"
    /\ end' \in (end + 1)..Min({end + TbSize - Len(tbBuf), Len(stream)})
    /\ cur' = end'
    /\ tbBuf' = tbBuf \o SubSeq(stream, end + 1, end')
    /\ tbPc' = "packets"
    /\ UNCHANGED <<stream, called, misread>>

(* NET_receive() fails.                                                    *)
TbReceiveFails ==
    /\ tbPc = "receive"
    /\ tbPc' = "wait"
    /\ Disconnect
    /\ called' = <<>>
    /\ misread' = FALSE
    /\ UNCHANGED tbBuf

(* NET_receive() sees the end of the connection and retries on a new one   *)
(* by itself (ACTION_RETRY in network.c): TB does not notice, and what the *)
(* buffer has of the old connection stays in front of the new bytes.       *)
TbFollows ==
    /\ tbPc = "receive"
    /\ Connect(TbStreams)
    /\ called' = <<>>
    /\ misread' = (tbBuf # <<>>)
    /\ UNCHANGED <<tbPc, tbBuf>>

CmdNext ==
    \/ TbConnected
    \/ TbWrongLength
    \/ TbPacket
    \/ TbNeedsMore
    \/ TbReceive
    \/ TbReceiveFails
    \/ TbFollows

-----------------------------------------------------------------------------
(* Properties *)

(* The commands in bytes from a place on: a packet begins where the one    *)
(* before it ends, and it counts if there is a processor that expects it.  *)
(* The list ends with an incomplete packet or a wrong length.              *)
CommandsIn(bytes, from) ==
    LET n == Len(bytes)
        From[i \in 1..(n + 1)] ==
            LET rest == SubSeq(bytes, i, n)
                len == PacketLen(rest)
                p == FirstPacket(rest)
            IN  IF HasHeader(rest) /\ Sane(len) /\ len <= Len(rest)
                THEN (IF Expected(p) THEN <<p>> ELSE <<>>) \o From[i + len]
                ELSE <<>>
    IN  From[from]

(* However the bytes arrive, the commands executed are the ones the server *)
(* sent on this connection, in order and once each.  Only two things make  *)
(* TB lose track: a wrong length, upon which it drops the buffer, and a    *)
(* connection that NET_receive() followed in the middle of a packet.       *)
ExecutesCommands ==
    tbPc = "receive" /\ ~misread =>
        called = CommandsIn(SubSeq(stream, 1, end), 1)

(* TB never waits for data with a full buffer: NET_receive() would be      *)
(* asked for 0 bytes, and its result would be taken for the end of the     *)
(* connection.                                                             *)
SpaceToReceive == tbPc = "receive" => Len(tbBuf) < TbSize
=============================================================================
