----------------------------- MODULE Radarcape -----------------------------
(***************************************************************************)
(* From the bytes of a Radarcape to the frames in the buffer:              *)
(*   INPUT   the parser (radarcape/rc-parser.c) of the Beast format, in    *)
(*           which a frame is SYNC, a type, a header and a payload, and a  *)
(*           SYNC within header or payload is sent twice;                  *)
(*   RECV    the thread that asks for frames, filters and commits them     *)
(*           (core/recv.c);                                                *)
(*   FILTER  what may pass (core/filter.c), which TB reconfigures upon     *)
(*           commands of the server (core/tb.c, packetConfigureFilter());  *)
(*   BEAST   the encoder for messages to the server (core/beast.c).        *)
(*                                                                         *)
(* Bytes are numbers; the lengths of header and payloads are parameters.   *)
(* Of a header only the test for a zero time stamp (mlat) matters: all its *)
(* bytes but the last one (the signal level) are 0.                        *)
(***************************************************************************)
EXTENDS ByteInput

CONSTANTS
    HeaderLen,    \* bytes of time stamp and signal level
    PayloadLen,   \* payload length for every known type
    RawSize,      \* sizeof raw->raw
    RcStreams     \* what the device may send on one connection

BEAST_SYNC == 26
BEAST_TYPE_MODE_S_SHORT == 50
BEAST_TYPE_MODE_S_LONG == 51
BEAST_TYPE_STATUS == 52

ASSUME RadarcapeAssumption ==
    /\ HeaderLen \in Nat /\ HeaderLen >= 2
    /\ BEAST_SYNC \notin DOMAIN PayloadLen
    /\ DOMAIN PayloadLen \subseteq Byte
    /\ \A t \in DOMAIN PayloadLen : PayloadLen[t] \in Nat \ {0}
    /\ RawSize \in Nat
    /\ \A t \in DOMAIN PayloadLen : 2 + 2 * (HeaderLen + PayloadLen[t]) <= RawSize
    /\ RcStreams \subseteq Seq(Byte)

VARIABLES
    rcPc,          \* where RECV is, mostly in INPUT_getFrame()
    type,          \* decoded->frameType
    content,       \* header and payload, as far as decoded
    raw,           \* raw->raw
    isSynchronized,
    filterSync,    \* FILTER_cfg.sync
    modeSFilter,   \* "ext" or "all"
    tbTodo,        \* what TB still has to do of a command
    tbCfg,         \* the settings that command asks for
    parsed,        \* frames INPUT_getFrame() returned on this connection
    committed,     \* the ones of them that were committed (their numbers)
    commanded,     \* was there a command since the connection began?
    syncOff        \* was the synchronization filter off since then?

frameVars == <<type, content, raw>>
filterVars == <<isSynchronized, filterSync, modeSFilter>>
tbVars == <<tbTodo, tbCfg, commanded, syncOff>>
rcVars == <<rcPc, frameVars, filterVars, tbVars, parsed, committed>>

(* FILTER's construct(): any configuration.                                *)
RcInit ==
    /\ rcPc = "connect"
    /\ type = 0
    /\ content = <<>>
    /\ raw = <<>>
    /\ isSynchronized = FALSE
    /\ filterSync \in BOOLEAN
    /\ modeSFilter \in {"ext", "all"}
    /\ tbTodo = {}
    /\ tbCfg = {}
    /\ parsed = <<>>
    /\ committed = {}
    /\ commanded = FALSE
    /\ syncOff = ~filterSync

-----------------------------------------------------------------------------
(* INPUT and RECV *)

(* The filter state is reset upon reconnection.                            *)
ResetUponConnect_missing == UNCHANGED isSynchronized \* mutant: state is kept
ResetUponConnect == isSynchronized' = FALSE

(* INPUT_connect(), FILTER_reset(), BUF_newFrame().                        *)
RcConnect ==
    /\ rcPc = "connect"
    /\ Connect(RcStreams)
    /\ ResetUponConnect
    /\ rcPc' = "sync"
    /\ commanded' = (tbTodo # {})
    /\ syncOff' = ~filterSync
    /\ UNCHANGED <<frameVars, filterSync, modeSFilter, tbTodo, tbCfg, parsed, committed>>

Reading == {"sync", "synchronize", "synchronizePeek", "type", "decode", "decodePeek"}

RcFill ==
    /\ rcPc \in Reading
    /\ DiscardAndFill
    /\ UNCHANGED rcVars

(* A read fails, or the thread is cancelled in it: INPUT_getFrame()        *)
(* returns false, BUF_abortFrame(), INPUT_disconnect().                    *)
RcReadFails ==
    /\ rcPc \in Reading
    /\ cur = end
    /\ rcPc' = "connect"
    /\ Disconnect
    /\ type' = 0
    /\ content' = <<>>
    /\ raw' = <<>>
    /\ parsed' = <<>>
    /\ committed' = {}
    /\ UNCHANGED <<filterVars, tbVars>>

(* INPUT_getFrame() is at pc and the buffer is not empty; it consumes n    *)
(* bytes and goes on.                                                      *)
At(pc) == rcPc = pc /\ cur < end
Step(to, n) ==
    /\ rcPc' = to
    /\ Consume(n)
    /\ UNCHANGED <<filterVars, tbVars, committed>>

RcSync ==
    /\ At("sync")
    /\ Step(IF Peek = BEAST_SYNC THEN "type" ELSE "synchronize", 1)
    /\ UNCHANGED <<frameVars, parsed>>

(* synchronize(): discard everything up to and including a SYNC ...        *)
RcSynchronize ==
    /\ At("synchronize")
    /\ LET sync == Find(Buffered, BEAST_SYNC, end - cur)
       IN  IF sync # 0 THEN Step("synchronizePeek", sync)
                       ELSE Step("synchronize", end - cur)
    /\ UNCHANGED <<frameVars, parsed>>

(* ... which must not be followed by another one.                          *)
RcSynchronizePeek_keeps == \* mutant: the second SYNC is not discarded
    /\ At("synchronizePeek")
    /\ IF Peek = BEAST_SYNC THEN Step("synchronize", 0) ELSE Step("type", 0)
    /\ UNCHANGED <<frameVars, parsed>>
RcSynchronizePeek ==
    /\ At("synchronizePeek")
    /\ IF Peek = BEAST_SYNC THEN Step("synchronize", 1) ELSE Step("type", 0)
    /\ UNCHANGED <<frameVars, parsed>>

(* A known type begins a frame ...                                         *)
RcType_appends == \* mutant: the raw frame is not restarted
    /\ At("type")
    /\ Peek \in DOMAIN PayloadLen
    /\ Step("decode", 1)
    /\ type' = Peek
    /\ raw' = raw \o <<BEAST_SYNC, Peek>>
    /\ content' = <<>>
    /\ UNCHANGED parsed
RcType ==
    /\ At("type")
    /\ Peek \in DOMAIN PayloadLen
    /\ Step("decode", 1)
    /\ type' = Peek
    /\ raw' = <<BEAST_SYNC, Peek>>
    /\ content' = <<>>
    /\ UNCHANGED parsed

(* ... SYNC and unknown types resynchronize.                               *)
RcUnknownType ==
    /\ At("type")
    /\ Peek \notin DOMAIN PayloadLen
    /\ Step("synchronize", 1)
    /\ UNCHANGED <<frameVars, parsed>>

FrameLen(t) == HeaderLen + PayloadLen[t]

(* decode() is called for the header, then for the payload: what is left.  *)
PartLeft ==
    IF Len(content) < HeaderLen THEN HeaderLen - Len(content)
    ELSE FrameLen(type) - Len(content)

(* The bytes more were decoded from the bytes wire.                        *)
Decoded(more, wire) ==
    /\ content' = content \o more
    /\ raw' = raw \o wire
    /\ UNCHANGED type
    /\ parsed' = IF Len(content') = FrameLen(type)
                 THEN Append(parsed, [type |-> type, content |-> content', raw |-> raw'])
                 ELSE parsed

AfterDecoding(more) ==
    IF Len(content) + Len(more) = FrameLen(type) THEN "status" ELSE "decode"

(* decode(): copy up to the next SYNC, or what the buffer has.             *)
RcDecode ==
    /\ At("decode")
    /\ LET mlen == Min({end - cur, PartLeft})
           sync == Find(Buffered, BEAST_SYNC, mlen)
           more == SubSeq(Buffered, 1, IF sync # 0 THEN sync - 1 ELSE mlen)
       IN  IF sync # 0
           THEN Step("decodePeek", sync) /\ Decoded(more, Append(more, BEAST_SYNC))
           ELSE Step(AfterDecoding(more), mlen) /\ Decoded(more, more)

(* decode(): a second SYNC is the escaped one ...                          *)
RcEscaped ==
    /\ At("decodePeek")
    /\ Peek = BEAST_SYNC
    /\ Step(AfterDecoding(<<BEAST_SYNC>>), 1)
    /\ Decoded(<<BEAST_SYNC>>, <<BEAST_SYNC>>)

(* ... anything else is the type of a new frame (DECODE_STATUS_RESYNC).    *)
RcResync ==
    /\ At("decodePeek")
    /\ Peek # BEAST_SYNC
    /\ Step("type", 0)
    /\ UNCHANGED <<frameVars, parsed>>

HasMlat(bytes) == \E i \in 1..(HeaderLen - 1) : bytes[i] # 0

(* The receiver has a valid time stamp.                                    *)
SynchronizedBy(t, bytes) == t = BEAST_TYPE_STATUS /\ HasMlat(bytes)

RecvStatus ==
    /\ rcPc = "status"
    /\ rcPc' = "filter"
    /\ isSynchronized' = (isSynchronized \/ SynchronizedBy(type, content))
    /\ UNCHANGED <<inputVars, frameVars, filterSync, modeSFilter, tbVars, parsed, committed>>

(* FILTER_filter(): the synchronization filter, which reads its variables  *)
(* before modeSFilter is read.                                             *)
FilterSynchronized ==
    /\ rcPc = "filter"
    /\ rcPc' = IF ~isSynchronized /\ filterSync THEN "sync" ELSE "filterMode"
    /\ UNCHANGED <<inputVars, frameVars, filterVars, tbVars, parsed, committed>>

ModeS == {BEAST_TYPE_MODE_S_SHORT, BEAST_TYPE_MODE_S_LONG}
FType(firstByte) == (firstByte \div 8) % 32
ModeSTypes == IF modeSFilter = "ext" THEN {17, 18} ELSE 0..31

(* FILTER_filter(): frame type and Mode-S type; a frame that passes is     *)
(* committed.                                                              *)
MayPass_status(t, firstByte) == FType(firstByte) \in ModeSTypes \* mutant: any frame
MayPass(t, firstByte) == t \in ModeS /\ FType(firstByte) \in ModeSTypes

FilterMode ==
    /\ rcPc = "filterMode"
    /\ rcPc' = "sync"
    /\ committed' = IF MayPass(type, content[HeaderLen + 1])
                    THEN committed \cup {Len(parsed)} ELSE committed
    /\ UNCHANGED <<inputVars, frameVars, filterVars, tbVars, parsed>>

-----------------------------------------------------------------------------
(* TB: packetConfigureFilter() *)

Command ==
    /\ tbTodo = {}
    /\ tbTodo' \in SUBSET {"sync", "ext", "reset"} \ {{}}
    /\ tbCfg' \in SUBSET (tbTodo' \ {"reset"})
    /\ commanded' = TRUE
    /\ UNCHANGED <<inputVars, rcPc, frameVars, filterVars, parsed, committed, syncOff>>

Did(what) ==
    /\ what \in tbTodo
    /\ tbTodo' = tbTodo \ {what}
    /\ UNCHANGED <<inputVars, rcPc, frameVars, tbCfg, commanded, parsed, committed>>

FILTER_setSynchronizedFilter ==
    /\ Did("sync")
    /\ filterSync' = ("sync" \in tbCfg)
    /\ syncOff' = (syncOff \/ ~filterSync')
    /\ UNCHANGED <<isSynchronized, modeSFilter>>

(* The code also tells the device (INPUT_reconfigure()).  That is left     *)
(* out: RcStreams allows every frame whatever the device is told.          *)
FILTER_setModeSExtSquitter ==
    /\ "sync" \notin tbTodo
    /\ Did("ext")
    /\ modeSFilter' = IF "ext" \in tbCfg THEN "ext" ELSE "all"
    /\ UNCHANGED <<isSynchronized, filterSync, syncOff>>

FILTER_reset ==
    /\ tbTodo = {"reset"}
    /\ Did("reset")
    /\ isSynchronized' = FALSE
    /\ UNCHANGED <<filterSync, modeSFilter, syncOff>>

RcNext ==
    \/ RcConnect
    \/ RcFill
    \/ RcReadFails
    \/ RcSync
    \/ RcSynchronize
    \/ RcSynchronizePeek
    \/ RcType
    \/ RcUnknownType
    \/ RcDecode
    \/ RcEscaped
    \/ RcResync
    \/ RecvStatus
    \/ FilterSynchronized
    \/ FilterMode
    \/ Command
    \/ FILTER_setSynchronizedFilter
    \/ FILTER_setModeSExtSquitter
    \/ FILTER_reset

-----------------------------------------------------------------------------
(* BEAST_encode(): every SYNC is copied up to, and again with what follows.*)
BEAST_encode_lastOnce(in) == \* mutant: a SYNC at the end is not doubled
    LET n == Len(in)
        Rest[i \in 0..n] ==  \* i is the SYNC copied last, 0 at the beginning
            LET sync == Min({j \in (i + 1)..n : in[j] = BEAST_SYNC} \cup {n + 1})
            IN  IF i = n /\ n # 0 THEN <<>>
                ELSE SubSeq(in, Max({i, 1}), Min({sync, n}))
                     \o (IF sync <= n THEN Rest[sync] ELSE <<>>)
    IN  Rest[0]
BEAST_encode(in) ==
    LET n == Len(in)
        Rest[i \in 0..n] ==
            LET sync == Min({j \in (i + 1)..n : in[j] = BEAST_SYNC} \cup {n + 1})
            IN  IF i = n /\ n # 0 THEN <<BEAST_SYNC>>
                ELSE SubSeq(in, Max({i, 1}), Min({sync, n}))
                     \o (IF sync <= n THEN Rest[sync] ELSE <<>>)
    IN  Rest[0]

-----------------------------------------------------------------------------
(* Properties *)

(* The variables have their types; the raw frame fits into its array, also *)
(* when it is cut short by another frame after each of its bytes.          *)
RcTypeOK ==
    /\ InputTypeOK
    /\ rcPc \in Reading \cup {"connect", "status", "filter", "filterMode"}
    /\ Len(raw) <= RawSize
    /\ rcPc \in {"decode", "decodePeek"} => PartLeft > 0
    /\ {isSynchronized, filterSync, commanded, syncOff} \subseteq BOOLEAN
    /\ modeSFilter \in {"ext", "all"}
    /\ tbTodo \subseteq {"sync", "ext", "reset"}
    /\ committed \subseteq 1..Len(parsed)

(* The format, byte by byte.  A byte is a start of a frame (the type after *)
(* a single SYNC) or data; frame is the frame in progress, if any.         *)
FrameOf(t, bytes, wire) == [type |-> t, content |-> bytes, raw |-> wire]
NoFrame == FrameOf(0, <<>>, <<>>)
Scan(escape, frame, frames) == [escape |-> escape, frame |-> frame, frames |-> frames]
Scanner == Scan(FALSE, NoFrame, <<>>)

ScanStart(s, byte) ==
    Scan(FALSE, IF byte \in DOMAIN PayloadLen
                THEN FrameOf(byte, <<>>, <<BEAST_SYNC, byte>>) ELSE NoFrame, s.frames)

ScanData(s, byte, wire) ==
    LET f == FrameOf(s.frame.type, Append(s.frame.content, byte), s.frame.raw \o wire)
    IN  IF s.frame = NoFrame THEN Scan(FALSE, NoFrame, s.frames)
        ELSE IF Len(f.content) < FrameLen(f.type) THEN Scan(FALSE, f, s.frames)
        ELSE Scan(FALSE, NoFrame, Append(s.frames, f))

ScanByte(s, byte) ==
    IF ~s.escape /\ byte = BEAST_SYNC THEN Scan(TRUE, s.frame, s.frames)
    ELSE IF ~s.escape THEN ScanData(s, byte, <<byte>>)
    ELSE IF byte = BEAST_SYNC THEN ScanData(s, byte, <<byte, byte>>)
    ELSE ScanStart(s, byte)

Scanned(bytes) ==  \* after each of the bytes
    LET After[i \in 0..Len(bytes)] ==
            IF i = 0 THEN Scanner ELSE ScanByte(After[i - 1], bytes[i])
    IN  After

(* However read() cuts the stream, INPUT_getFrame() has returned exactly   *)
(* the frames a scanner finds that reads the bytes of this connection one  *)
(* by one: no frame is lost or invented because of a cut, none has bytes   *)
(* of an earlier connection.  Garbage, unknown types and truncated frames  *)
(* cost the scanner no other frame either, but where a frame was cut right *)
(* behind a SYNC: that SYNC and the next frame's look like a data byte.    *)
ParsesStream ==
    rcPc \in Reading /\ cur = end =>
        parsed = Scanned(stream)[end].frames

(* Encoding what the parser decoded yields the bytes it received: a server *)
(* that decodes messages of BEAST_encode() like the parser understands     *)
(* them, and the raw frame that is relayed is the one that was filtered.   *)
RoundTrip ==
    \A i \in 1..Len(parsed) :
        parsed[i].raw = <<BEAST_SYNC, parsed[i].type>> \o BEAST_encode(parsed[i].content)

(* Frame i of the connection is a status frame with a time stamp.          *)
GivesTime(i) == parsed[i].type = BEAST_TYPE_STATUS /\ HasMlat(parsed[i].content)

Wanted(i) ==
    /\ parsed[i].type \in ModeS
    /\ modeSFilter = "ext" => FType(parsed[i].content[HeaderLen + 1]) \in {17, 18}
    /\ filterSync => \E j \in 1..(i - 1) : GivesTime(j)

(* Without commands from the server, the committed frames are the Mode-S   *)
(* frames the configuration asks for, and with the synchronization filter  *)
(* only those after a status frame with a time stamp on this connection.   *)
CommitsWanted ==
    rcPc \in Reading /\ ~commanded => committed = {i \in 1..Len(parsed) : Wanted(i)}

(* While the server does not turn the synchronization filter off, and      *)
(* whatever else it commands while RECV is filtering, no frame is          *)
(* committed before the time is known on this connection.                  *)
NothingBeforeTime ==
    ~syncOff => \A i \in committed : \E j \in 1..(i - 1) : GivesTime(j)
=============================================================================
