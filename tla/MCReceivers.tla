---------------------------- MODULE MCReceivers ----------------------------
(***************************************************************************)
(* The three receivers of byte streams, one per behaviour: Init chooses    *)
(* which one runs, the others are "off".  Streams are concatenations of    *)
(* whole frames, truncated frames, escapes and garbage.                    *)
(***************************************************************************)
EXTENDS Radarcape, Trimble, Commands, TLC

-----------------------------------------------------------------------------
MCPayloadLen == (49 :> 1) @@ (50 :> 1) @@ (51 :> 2) @@ (52 :> 1)

RcStatus == <<26, 52, 1, 0, 0>>
RcPieces == {
    RcStatus,                               \* status frame with a time stamp
    <<26, 52, 0, 26, 26, 0>>,               \* and without one
    <<26, 50, 0, 0, 141>>,                  \* extended squitter (17)
    <<26, 51, 26, 26, 0, 141, 26, 26>>,
    <<26, 50, 26, 26, 26, 26, 26, 26>>,     \* Mode-S type 3
    <<26, 49, 0>>, <<26, 51, 1, 26>>,       \* truncated
    <<0, 26, 26, 50, 0, 0, 141>>,           \* the end of a frame
    <<26, 26>>, <<26>>, <<50>>, <<26, 7>>}  \* garbage, an unknown type

MCRcStreams ==
    {a \o b : a, b \in RcPieces} \cup {RcStatus \o a \o b : a, b \in RcPieces}

-----------------------------------------------------------------------------
TrPieces == {
    <<16, 143, 172, 7, 0, 0, 0, 0, 0, 1, 16, 3>>,       \* a position
    <<16, 143, 172, 7, 0, 0, 0, 0, 0, 16, 16, 16, 3>>,  \* another one, escaped
    <<16, 143, 172, 7, 0, 0, 0, 32, 0, 2, 16, 3>>,      \* self-survey
    <<16, 143, 172, 7, 0, 0, 0, 0, 0>>,                 \* truncated
    <<16, 70, 0, 0, 0, 0, 0, 0, 0, 0, 16, 16, 16, 3>>,  \* too long
    <<16, 70, 16, 3>>,
    <<16, 16>>, <<16>>, <<3>>, <<16, 3>>}

MCTrStreams == {a \o b \o c : a, b, c \in TrPieces}

-----------------------------------------------------------------------------
MCProcessors == (4 :> 2) @@ (1 :> 0)

TbPieces == {
    <<0, 4, 0, 6, 3, 1>>, <<0, 1, 0, 4>>,   \* commands
    <<0, 1, 0, 5, 0>>, <<1, 4, 0, 6, 3, 1>>,\* wrong payload, unknown type
    <<0, 9, 0, 8, 0, 4, 0, 6>>,             \* as long as the buffer
    <<0, 4, 0, 9>>, <<0, 4, 0, 3>>, <<0>>}  \* wrong lengths, garbage

MCTbStreams == {a \o b : a, b \in TbPieces}

-----------------------------------------------------------------------------
RcOff == rcPc = "off" /\ UNCHANGED rcVars
TrOff == trPc = "off" /\ UNCHANGED trVars
CmdOff == tbPc = "off" /\ UNCHANGED cmdVars

RcNull ==
    /\ rcPc = "off" /\ type = 0 /\ content = <<>> /\ raw = <<>>
    /\ isSynchronized = FALSE /\ filterSync = FALSE /\ modeSFilter = "all"
    /\ tbTodo = {} /\ tbCfg = {} /\ commanded = FALSE /\ syncOff = FALSE
    /\ parsed = <<>> /\ committed = {}
TrNull == trPc = "off" /\ packet = <<>> /\ fix = 0 /\ packets = <<>>
CmdNull ==
    /\ tbPc = "off" /\ tbBuf = <<>> /\ called = <<>> /\ misread = FALSE

MCInit ==
    /\ InputInit
    /\ \/ RcInit /\ TrNull /\ CmdNull
       \/ RcNull /\ TrInit /\ CmdNull
       \/ RcNull /\ TrNull /\ CmdInit

MCNext ==
    \/ RcNext /\ TrOff /\ CmdOff
    \/ TrNext /\ RcOff /\ CmdOff
    \/ CmdNext /\ RcOff /\ TrOff

Spec == MCInit /\ [][MCNext]_<<inputVars, rcVars, trVars, cmdVars>>

(* No buffer is written beyond its end, and none is full when more is to   *)
(* be read: the raw frame also when it is cut short by another one, the    *)
(* packet of TRIMBLE when it is too long, and TB's buffer, for which       *)
(* NET_receive() would be asked for 0 bytes and seem to have failed.       *)
BuffersSuffice ==
    /\ rcPc # "off" => RcTypeOK
    /\ trPc # "off" => TrTypeOK
    /\ tbPc # "off" => SpaceToReceive
=============================================================================
