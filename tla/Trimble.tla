------------------------------ MODULE Trimble ------------------------------
(***************************************************************************)
(* The Trimble GPS receiver: the parser of its packets                     *)
(* (trimble/trimble_parser.c) and the thread that takes the position out   *)
(* of them (trimble/trimble_recv.c) and hands it to GPS (core/gps.c).      *)
(*                                                                         *)
(* A packet is BOM, a type, data and BOM EOM; a BOM in the data is sent    *)
(* twice.  The lengths of the packet buffer and of a position packet are   *)
(* parameters; a position packet is, in this order, report type, subtype,  *)
(* receiver mode, disciplining mode, critical alarms, minor alarms (two    *)
(* bytes), decoding status and the position itself.                        *)
(***************************************************************************)
EXTENDS ByteInput

CONSTANTS
    PacketSize,  \* sizeof buf in mainloop()
    PositionLen, \* length of a position packet
    TrStreams    \* what the receiver may send on one connection

ASSUME TrimbleAssumption ==
    /\ PacketSize \in Nat /\ PacketSize > 1
    /\ PositionLen \in Nat /\ PositionLen >= 9
    /\ TrStreams \subseteq Seq(Byte)

BOM == 16
EOM == 3

VARIABLES
    trPc,       \* where the thread is, mostly in TRIMBLE_PARSER_getFrame()
    packet,     \* buf of mainloop(), as far as it is filled
    fix,        \* hasPosition, hasFix and position of GPS; 0 if none
    packets     \* packets received on this connection

trVars == <<trPc, packet, fix, packets>>

TrInit ==
    /\ trPc = "connect"
    /\ packet = <<>>
    /\ fix = 0   \* GPS_reset() at the beginning
    /\ packets = <<>>

(* TRIMBLE_PARSER_connect().  The position of the old connection is still  *)
(* the current one.                                                        *)
TrConnect ==
    /\ trPc = "connect"
    /\ Connect(TrStreams)
    /\ trPc' = "reset"
    /\ UNCHANGED <<packet, fix, packets>>

GPS_reset_keeps == UNCHANGED fix \* mutant: the old position remains
GPS_reset == fix' = 0

TrReset ==
    /\ trPc = "reset"
    /\ GPS_reset
    /\ trPc' = "sync"
    /\ UNCHANGED <<inputVars, packet, packets>>

TrReading == {"sync", "synchronize", "synchronizePeek", "type", "decode", "decodePeek"}

TrFill ==
    /\ trPc \in TrReading
    /\ DiscardAndFill
    /\ UNCHANGED trVars

(* A read fails, or the thread is cancelled in it: getFrame() returns 0,   *)
(* TRIMBLE_PARSER_disconnect().                                            *)
TrReadFails ==
    /\ trPc \in TrReading
    /\ cur = end
    /\ trPc' = "connect"
    /\ Disconnect
    /\ packet' = <<>>
    /\ packets' = <<>>
    /\ UNCHANGED fix

(* The parser is at pc and the buffer is not empty; it consumes n bytes    *)
(* and goes on.                                                            *)
TrAt(pc) == trPc = pc /\ cur < end
TrStep(to, n) ==
    /\ trPc' = to
    /\ Consume(n)
    /\ UNCHANGED <<fix, packets>>

TrSync ==
    /\ TrAt("sync")
    /\ TrStep(IF Peek = BOM THEN "type" ELSE "synchronize", 1)
    /\ UNCHANGED packet

(* synchronize(): discard everything up to and including a BOM ...         *)
TrSynchronize ==
    /\ TrAt("synchronize")
    /\ LET bom == Find(Buffered, BOM, end - cur)
       IN  IF bom # 0 THEN TrStep("synchronizePeek", bom)
                      ELSE TrStep("synchronize", end - cur)
    /\ UNCHANGED packet

(* ... which must not be an escaped BOM or the end of a packet.            *)
TrSynchronizePeek_escaped == \* mutant: an escaped BOM is taken as a begin
    /\ TrAt("synchronizePeek")
    /\ IF Peek = EOM THEN TrStep("synchronize", 1) ELSE TrStep("type", 0)
    /\ UNCHANGED packet
TrSynchronizePeek ==
    /\ TrAt("synchronizePeek")
    /\ IF Peek \in {BOM, EOM} THEN TrStep("synchronize", 1) ELSE TrStep("type", 0)
    /\ UNCHANGED packet

TrType ==
    /\ TrAt("type")
    /\ TrStep(IF Peek = EOM THEN "synchronize" ELSE "decode", 1)
    /\ packet' = <<Peek>>

(* The bytes more are appended; a full packet buffer resynchronizes, even  *)
(* if the packet is complete (DECODE_STATUS_BUFFER_FULL).                  *)
SpaceLeft == PacketSize - Len(packet)
AfterCopying(n) == IF n = SpaceLeft THEN "synchronize" ELSE "decode"

(* decode(): copy up to the next BOM, or what the buffer has.              *)
TrDecode ==
    /\ TrAt("decode")
    /\ LET mlen == Min({end - cur, SpaceLeft})
           bom == Find(Buffered, BOM, mlen)
       IN  IF bom # 0
           THEN TrStep("decodePeek", bom) /\ packet' = packet \o SubSeq(Buffered, 1, bom - 1)
           ELSE TrStep(AfterCopying(mlen), mlen) /\ packet' = packet \o SubSeq(Buffered, 1, mlen)

(* decode(): an escaped BOM.                                               *)
TrEscaped ==
    /\ TrAt("decodePeek")
    /\ Peek = BOM
    /\ TrStep(AfterCopying(1), 1)
    /\ packet' = Append(packet, BOM)

(* decode(): the end of the packet.                                        *)
TrEnd ==
    /\ TrAt("decodePeek")
    /\ Peek = EOM
    /\ trPc' = "packet"
    /\ Consume(1)
    /\ packets' = Append(packets, packet)
    /\ UNCHANGED <<packet, fix>>

(* decode(): another packet begins (DECODE_STATUS_RESYNC).                 *)
TrResync ==
    /\ TrAt("decodePeek")
    /\ Peek \notin {BOM, EOM}
    /\ TrStep("type", 0)
    /\ UNCHANGED packet

(* mainloop(): a position packet of the right length ...                   *)
IsPosition(p) == p[1] = 143 /\ Len(p) = PositionLen /\ p[2] = 172

(* ... whose position posFrame() accepts: no critical alarm, not in test   *)
(* mode, over-determined clock, locked to GPS, no self-survey, fixes.      *)
Usable(p) ==
    /\ p[3] = 7
    /\ p[4] = 0
    /\ p[5] = 0
    /\ p[6] % 2 = 0
    /\ (p[7] \div 32) % 2 = 0
    /\ p[8] = 0

TrPacket ==
    /\ trPc = "packet"
    /\ trPc' = "sync"
    /\ fix' = IF IsPosition(packet) /\ Usable(packet) THEN packet[9] ELSE fix
    /\ UNCHANGED <<inputVars, packet, packets>>

TrNext ==
    \/ TrConnect
    \/ TrReset
    \/ TrFill
    \/ TrReadFails
    \/ TrSync
    \/ TrSynchronize
    \/ TrSynchronizePeek
    \/ TrType
    \/ TrDecode
    \/ TrEscaped
    \/ TrEnd
    \/ TrResync
    \/ TrPacket

-----------------------------------------------------------------------------
(* Properties *)

(* The packet never exceeds its buffer, and decode() is only called while  *)
(* there is space left.                                                    *)
TrTypeOK ==
    /\ InputTypeOK
    /\ trPc \in TrReading \cup {"connect", "reset", "packet"}
    /\ Len(packet) <= PacketSize
    /\ trPc \in {"decode", "decodePeek"} => SpaceLeft > 0

(* The format, byte by byte: mode is "boundary" (a packet may begin),      *)
(* "garbage" or "packet".  A packet that begins right after another one    *)
(* may have the type BOM.                                                  *)
TrScan(escape, mode, bytes, done) ==
    [escape |-> escape, mode |-> mode, packet |-> bytes, packets |-> done]
TrScanner == TrScan(FALSE, "boundary", <<>>, <<>>)

TrScanData(s, byte) ==
    LET p == Append(s.packet, byte)
    IN  IF s.mode # "packet" THEN TrScan(FALSE, "garbage", s.packet, s.packets)
        ELSE TrScan(FALSE, IF Len(p) = PacketSize THEN "garbage" ELSE "packet", p, s.packets)

TrScanByte(s, byte) ==
    IF ~s.escape /\ byte = BOM THEN TrScan(TRUE, s.mode, s.packet, s.packets)
    ELSE IF ~s.escape THEN TrScanData(s, byte)
    ELSE IF byte = EOM
    THEN IF s.mode = "packet"
         THEN TrScan(FALSE, "boundary", s.packet, Append(s.packets, s.packet))
         ELSE TrScan(FALSE, "garbage", s.packet, s.packets)
    ELSE IF byte = BOM /\ s.mode # "boundary" THEN TrScanData(s, byte)
    ELSE TrScan(FALSE, "packet", <<byte>>, s.packets)

TrScanned(bytes) ==  \* after each of the bytes
    LET After[i \in 0..Len(bytes)] ==
            IF i = 0 THEN TrScanner ELSE TrScanByte(After[i - 1], bytes[i])
    IN  After

(* However read() cuts the stream, TRIMBLE_PARSER_getFrame() has returned  *)
(* exactly the packets a scanner finds that reads the bytes of this        *)
(* connection one by one.  A truncated or oversized packet costs only      *)
(* itself, unless it was cut right behind a BOM: that BOM and the next     *)
(* packet's look like a data byte.                                         *)
TrParsesStream ==
    trPc \in TrReading /\ cur = end =>
        packets = TrScanned(stream)[end].packets

(* While the receiver is connected, the position GPS may send to the       *)
(* server is the last usable one of this connection, never one of an       *)
(* earlier connection: the sensor may have been moved in between.  From    *)
(* the loss of the connection to GPS_reset() on the next one it is the     *)
(* earlier one still.                                                      *)
PositionOfThisConnection ==
    trPc \in TrReading =>
        LET usable == {i \in 1..Len(packets) :
                          IsPosition(packets[i]) /\ Usable(packets[i])}
        IN  \/ usable = {} /\ fix = 0
            \/ \E i \in usable : /\ \A j \in usable : j <= i
                                 /\ fix = packets[i][9]
=============================================================================
