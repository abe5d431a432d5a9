---------------------------- MODULE UplinkProofs ----------------------------
(***************************************************************************)
(* Proofs about the connection and the threads that share it (Network,     *)
(* Uplink), for every set of file descriptors and any number of            *)
(* connections, losses, stops and restarts.                                *)
(***************************************************************************)
EXTENDS Uplink, FiniteSetTheorems, TLAPS

-----------------------------------------------------------------------------
(* The inductive invariant *)

OpenSockets == {f \in Fds : sock[f] # "closed"}
Leaked == OpenSockets \ {recvsock, sendsock}

(* The two socket variables and the NET thread, whoever reports failures:  *)
(* while connected both are open and differ exactly during the transition, *)
(* and the stale one is shut down; while disconnected the leader has none. *)
SockInv ==
    /\ connState = "connected" =>
        /\ Open(sendsock)
        /\ Open(recvsock)
        /\ transState = "none" <=> sendsock = recvsock
    /\ connState # "shutdown" =>
        /\ transState = "send" => SockState(sendsock) = "shut"
        /\ transState = "recv" => SockState(recvsock) = "shut"
    /\ connState = "disconnected" =>
        /\ transState = "send" => recvsock = SOCK_INVALID
        /\ transState = "recv" => sendsock = SOCK_INVALID
    /\ mainPc = "connecting" => connState = "disconnected"
    /\ mainPc = "stopped" <=> connState = "shutdown"
    /\ mainPc = "online" /\ connState = "disconnected" => Main \notin asleep
    /\ \A f \in OpenSockets : connNo[f] \in 1..MaxConns

(* Each stop may leave one socket behind.  When nobody is connected and    *)
(* nobody is in transition, both variables will be overwritten: what they  *)
(* still hold counts as left behind.                                       *)
LeakInv ==
    /\ IsFiniteSet(OpenSockets)
    /\ Cardinality(Leaked) <= stops
    /\ \/ connState = "shutdown"
       \/ connState = "disconnected" /\ transState = "none"
       => Cardinality(OpenSockets) <= stops

(* TB: it knows of a disconnection it has reported, and it receives from   *)
(* recvsock and nothing else.                                              *)
TbInv ==
    /\ ioPc[TB] # "idle" => tbPc = "receive"
    /\ connState = "disconnected" /\ transState \in {"none", "send"} => TbWaits
    /\ connState = "shutdown" => TbWaits
    /\ ioPc[TB] = "syscall" => ioSock[TB] = recvsock

(* RELAY: where it can be in a send, and that a stop resets it.            *)
RelayPcInv ==
    /\ ioPc[Relay] # "idle" => relayPc \in LoginSends \cup {"stream"}
    /\ connState = "shutdown" => RelayWaits

(* RELAY as the only sender: the mirror image of TbInv.                    *)
RelayInv ==
    /\ ioPc[Gps] = "idle"
    /\ connState = "disconnected" /\ transState \in {"none", "recv"} => RelayWaits
    /\ ioPc[Relay] = "syscall" => ioSock[Relay] = sendsock
    /\ ~assertFailed

(* What RELAY has sent on the connection it uses, by where it is.          *)
LoginInv ==
    /\ relayPc \in {"request", "serialWait", "check", "checkEmit", "force", "serial"}
        => "deviceId" \in loginOn[connNo[sendsock]]
    /\ relayPc \in {"position", "username", "stream"}
        => loginOn[connNo[sendsock]] = LoginMsgs
    /\ LoginBeforeFrames

UplinkInv ==
    /\ TypeOK
    /\ SockInv
    /\ LeakInv
    /\ TbInv
    /\ RelayPcInv
    /\ ~gpsThread => RelayInv /\ LoginInv

-----------------------------------------------------------------------------
(* The functions of network.c *)

(* shutdown() and close() of a socket variable.                            *)
LEMMA SocketCalls ==
    ASSUME NetTypeOK, NEW f \in Fds \cup {SOCK_INVALID}
    PROVE  /\ SOCK_shutdown(f) \in [Fds -> {"closed", "up", "lost", "shut"}]
           /\ SOCK_close(f) \in [Fds -> {"closed", "up", "lost", "shut"}]
           /\ \A g \in Fds : SOCK_shutdown(f)[g] = "closed" <=> sock[g] = "closed"
           /\ f \in Fds /\ sock[f] # "closed" => SOCK_shutdown(f)[f] = "shut"
           /\ \A g \in Fds : sock[g] = "shut" => SOCK_shutdown(f)[g] = "shut"
           /\ \A g \in Fds : g # f => SOCK_close(f)[g] = sock[g]
           /\ f \in Fds => SOCK_close(f)[f] = "closed"
BY DEF NetTypeOK, SOCK_shutdown, SOCK_close

LEMMA InvalidFd == SOCK_INVALID \notin Fds
BY NetworkAssumption DEF SOCK_INVALID

(* emitDisconnect() keeps the socket variables consistent.                 *)
LEMMA EmitSock ==
    ASSUME NetTypeOK, SockInv, NEW by \in {"send", "recv"}, EmitDisconnect(by)
    PROVE  NetTypeOK' /\ SockInv'
<1> DEFINE mine == MySock(by)
<1> USE InvalidFd
<1>1. mine \in Fds \cup {SOCK_INVALID} /\ OthSock(by) \in Fds \cup {SOCK_INVALID}
    BY DEF NetTypeOK, MySock, OthSock
<1>2. CASE BecomeLeader(by)
    BY <1>1, <1>2, SocketCalls DEF BecomeLeader, NetTypeOK, SockInv, MySock, SetMySock, TransitOf,
       Open, SockState, OpenSockets, Broadcast, MutexFree, EmitDisconnect
<1>3. CASE LeaderAgain(by)
    BY <1>1, <1>3, SocketCalls DEF LeaderAgain, NetTypeOK, SockInv, MySock, SetMySock, TransitOf,
       Open, SockState, OpenSockets, Broadcast, MutexFree, EmitDisconnect
<1>4. CASE FollowConnected(by)
    BY <1>1, <1>4, SocketCalls DEF FollowConnected, NetTypeOK, SockInv, MySock, OthSock, SetMySock, TransitOf,
       Open, SockState, OpenSockets, MutexFree, EmitDisconnect
<1>5. CASE FollowDisconnected(by)
    BY <1>1, <1>5, SocketCalls DEF FollowDisconnected, NetTypeOK, SockInv, MySock, SetMySock, TransitOf,
       Open, SockState, OpenSockets, MutexFree, EmitDisconnect
<1>6. CASE FollowAssertFails
    BY <1>6 DEF FollowAssertFails, NetTypeOK, SockInv, Open, SockState, OpenSockets
<1>7. CASE AlreadyReported(by)
    BY <1>7 DEF AlreadyReported, netVars, NetTypeOK, SockInv, Open, SockState, OpenSockets
<1> QED
    BY <1>2, <1>3, <1>4, <1>5, <1>6, <1>7 DEF EmitDisconnect

(* Bounds on the number of open sockets.                                   *)
LEMMA Fewer ==
    ASSUME NEW S, IsFiniteSet(S), NEW n \in Nat, Cardinality(S) <= n, NEW T \in SUBSET S
    PROVE  IsFiniteSet(T) /\ Cardinality(T) <= n
BY FS_Subset, FS_CardinalityType

LEMMA OneMore ==
    ASSUME NEW S, IsFiniteSet(S), NEW n \in Nat, Cardinality(S) <= n, NEW x,
           NEW T \in SUBSET (S \cup {x})
    PROVE  IsFiniteSet(T) /\ Cardinality(T) <= n + 1
<1>1. IsFiniteSet(S \cup {x}) /\ Cardinality(S \cup {x}) \in Nat
      /\ Cardinality(S \cup {x}) <= n + 1 /\ n + 1 \in Nat
    BY FS_AddElement, FS_CardinalityType
<1> QED
    BY <1>1, Fewer

LEMMA StopsType == TypeOK => stops \in Nat
BY UplinkAssumption DEF TypeOK

(* emitDisconnect() loses no socket: it closes the one it overwrites, or   *)
(* leaves it to the other side.                                            *)
LEMMA EmitLeak ==
    ASSUME TypeOK, SockInv, LeakInv, NEW by \in {"send", "recv"}, EmitDisconnect(by),
           stops' = stops
    PROVE  LeakInv'
<1> USE InvalidFd
<1>1. NetTypeOK /\ stops \in Nat
    BY StopsType DEF TypeOK
<1>2. MySock(by) \in Fds \cup {SOCK_INVALID} /\ OthSock(by) \in Fds \cup {SOCK_INVALID}
    BY <1>1 DEF NetTypeOK, MySock, OthSock
<1>3. OpenSockets' \subseteq OpenSockets /\ Leaked' \subseteq Leaked
      /\ (connState' = "shutdown" => connState = "shutdown" /\ UNCHANGED netVars)
      /\ (connState' = "disconnected" /\ transState' = "none" =>
             \/ OpenSockets' \subseteq Leaked
             \/ OpenSockets' = OpenSockets /\ connState = "disconnected" /\ transState = "none")
  <2>1. CASE BecomeLeader(by)
      BY <1>1, <1>2, <2>1, SocketCalls DEF BecomeLeader, SockInv, MySock, SetMySock, TransitOf,
         Leaked, Open, SockState, OpenSockets
  <2>2. CASE LeaderAgain(by)
      BY <1>1, <1>2, <2>2, SocketCalls DEF LeaderAgain, SockInv, MySock, SetMySock, TransitOf,
         Leaked, Open, SockState, OpenSockets, NetTypeOK
  <2>3. CASE FollowConnected(by)
      BY <1>1, <1>2, <2>3, SocketCalls DEF FollowConnected, SockInv, MySock, OthSock, SetMySock,
         TransitOf, Leaked, Open, SockState, OpenSockets, NetTypeOK
  <2>4. CASE FollowDisconnected(by)
      BY <1>1, <1>2, <2>4, SocketCalls DEF FollowDisconnected, SockInv, MySock, SetMySock,
         TransitOf, Leaked, Open, SockState, OpenSockets, NetTypeOK
  <2>5. CASE FollowAssertFails \/ AlreadyReported(by)
      BY <2>5 DEF FollowAssertFails, AlreadyReported, netVars, Leaked, OpenSockets
  <2> QED
      BY <2>1, <2>2, <2>3, <2>4, <2>5 DEF EmitDisconnect
<1>4. IsFiniteSet(Leaked) /\ IsFiniteSet(OpenSockets)
    BY FS_Subset DEF LeakInv, Leaked
<1>5. IsFiniteSet(OpenSockets')
    BY <1>3, <1>4, FS_Subset
<1>6. Cardinality(Leaked') <= stops
    BY <1>1, <1>3, <1>4, Fewer DEF LeakInv
<1>7. ASSUME connState' = "shutdown" \/ (connState' = "disconnected" /\ transState' = "none")
      PROVE  Cardinality(OpenSockets') <= stops
  <2>1. CASE OpenSockets' \subseteq Leaked
      BY <1>1, <1>4, <2>1, Fewer DEF LeakInv
  <2>2. CASE OpenSockets' = OpenSockets
             /\ (connState = "shutdown" \/ (connState = "disconnected" /\ transState = "none"))
      BY <2>2 DEF LeakInv
  <2> QED
      BY <1>3, <1>7, <2>1, <2>2 DEF OpenSockets, netVars
<1> QED
    BY <1>5, <1>6, <1>7 DEF LeakInv

(* Actions that leave the state of network.c alone.                        *)
LEMMA NetFrame ==
    ASSUME TypeOK, SockInv, LeakInv, UNCHANGED <<netVars, stops>>
    PROVE  NetTypeOK' /\ SockInv' /\ LeakInv'
BY DEF TypeOK, netVars, NetTypeOK, SockInv, LeakInv, Leaked, OpenSockets, Open, SockState

(* NET_waitConnected() only adds its thread to the sleeping ones.          *)
LEMMA SleepFrame ==
    ASSUME TypeOK, SockInv, LeakInv, NEW t \in {Relay, TB}, WaitConnectedSleeps(t),
           UNCHANGED stops
    PROVE  NetTypeOK' /\ SockInv' /\ LeakInv' /\ asleep' \subseteq {Main, Relay, TB}
BY DEF TypeOK, WaitConnectedSleeps, NetTypeOK, SockInv, LeakInv, Leaked, OpenSockets, Open,
       SockState, Main, Relay, TB

-----------------------------------------------------------------------------
(* The NET thread *)

LEMMA ConnectNet ==
    ASSUME TypeOK, SockInv, LeakInv, ConnectSucceeds, UNCHANGED stops
    PROVE  NetTypeOK' /\ SockInv' /\ LeakInv'
<1> USE InvalidFd
<1>1. PICK f \in Fds : /\ sock[f] = "closed"
                       /\ sock' = [sock EXCEPT ![f] = "up"]
                       /\ connNo' = [connNo EXCEPT ![f] = conns + 1]
                       /\ AssignSockets(f)
    BY DEF ConnectSucceeds
<1>2. NetTypeOK'
    BY <1>1, NetworkAssumption DEF TypeOK, NetTypeOK, ConnectSucceeds, AssignSockets
<1>3. SockInv'
    BY <1>1, NetworkAssumption DEF TypeOK, NetTypeOK, ConnectSucceeds, AssignSockets, SockInv, Open, SockState,
       OpenSockets
<1>4. OpenSockets' = OpenSockets \cup {f}
    BY <1>1 DEF TypeOK, NetTypeOK, OpenSockets
<1>5. /\ transState = "none" => Leaked' \subseteq OpenSockets
      /\ transState # "none" => Leaked' \subseteq Leaked
    BY <1>1, <1>4 DEF Leaked, AssignSockets, TypeOK, NetTypeOK, SockInv, OpenSockets, ConnectSucceeds
<1>6. IsFiniteSet(OpenSockets') /\ IsFiniteSet(Leaked)
    BY <1>4, FS_AddElement, FS_Subset DEF LeakInv, Leaked
<1>7. Cardinality(Leaked') <= stops
    BY <1>5, <1>6, Fewer, StopsType DEF LeakInv, SockInv, ConnectSucceeds
<1> QED
    BY <1>2, <1>3, <1>6, <1>7 DEF LeakInv, ConnectSucceeds

LEMMA OtherNet ==
    ASSUME TypeOK, SockInv, LeakInv, MainWakes \/ ConnectionLost \/ MainStarts,
           UNCHANGED stops
    PROVE  NetTypeOK' /\ SockInv' /\ LeakInv'
<1> USE InvalidFd
<1>1. OpenSockets' = OpenSockets /\ NetTypeOK'
    BY DEF TypeOK, NetTypeOK, OpenSockets, MainWakes, ConnectionLost, MainStarts
<1>2. SockInv'
    BY <1>1 DEF TypeOK, NetTypeOK, SockInv, Open, SockState, OpenSockets, MainWakes, ConnectionLost, MainStarts
<1>3. LeakInv'
    BY <1>1 DEF LeakInv, Leaked, MainWakes, ConnectionLost, MainStarts, SockInv
<1> QED
    BY <1>1, <1>2, <1>3

-----------------------------------------------------------------------------
(* What a step of NET, of the network or of another thread means to those  *)
(* who use the connection *)

(* A thread that does not wait keeps its socket, its connection and        *)
(* whatever it sent on it: only the NET thread assigns new sockets, and    *)
(* only to those who wait.                                                 *)
LEMMA UsersFrame ==
    ASSUME UplinkInv, ConnectSucceeds \/ MainWakes \/ ConnectionLost,
           UNCHANGED <<threadVars, miscVars, wireVars>>
    PROVE  UplinkInv'
<1> USE InvalidFd
<1>1. NetTypeOK' /\ SockInv' /\ LeakInv'
    BY ConnectNet, OtherNet DEF UplinkInv, miscVars
<1>2. TypeOK'
    BY <1>1 DEF UplinkInv, TypeOK, ConnectSucceeds, MainWakes, ConnectionLost, threadVars,
       miscVars, wireVars, Main
<1>3. TbInv'
  <2>1. CASE ConnectSucceeds
      BY <2>1 DEF UplinkInv, TbInv, TbWaits, SockInv, ConnectSucceeds, AssignSockets, threadVars, TypeOK, NetTypeOK
  <2>2. CASE MainWakes \/ ConnectionLost
      BY <2>2 DEF UplinkInv, TbInv, TbWaits, MainWakes, ConnectionLost, threadVars
  <2> QED
      BY <2>1, <2>2
<1>4. RelayPcInv'
    BY DEF UplinkInv, RelayPcInv, RelayWaits, ConnectSucceeds, MainWakes, ConnectionLost, threadVars
<1>5. ~gpsThread => RelayInv'
  <2>1. CASE ConnectSucceeds
      BY <2>1 DEF UplinkInv, RelayInv, RelayWaits, SockInv, ConnectSucceeds, AssignSockets, threadVars, TypeOK, NetTypeOK
  <2>2. CASE MainWakes \/ ConnectionLost
      BY <2>2 DEF UplinkInv, RelayInv, RelayWaits, MainWakes, ConnectionLost, threadVars
  <2> QED
      BY <2>1, <2>2
<1>6. ~gpsThread => LoginInv'
  <2>1. CASE ConnectSucceeds
    <3>1. CASE RelayWaits
        BY <3>1 DEF UplinkInv, LoginInv, RelayWaits, LoginBeforeFrames, threadVars, wireVars
    <3>2. CASE ~RelayWaits /\ ~gpsThread
      <4>1. sendsock' = sendsock /\ SockState(sendsock) = "shut"
          BY <2>1, <3>2 DEF UplinkInv, RelayInv, SockInv, ConnectSucceeds, AssignSockets, TypeOK, NetTypeOK
      <4>2. connNo'[sendsock] = connNo[sendsock]
          BY <2>1, <4>1 DEF ConnectSucceeds, SockState, UplinkInv, TypeOK, NetTypeOK
      <4> QED
          BY <3>2, <4>1, <4>2 DEF UplinkInv, LoginInv, LoginBeforeFrames, threadVars, wireVars
    <3> QED
        BY <3>1, <3>2
  <2>2. CASE MainWakes \/ ConnectionLost
      BY <2>2 DEF UplinkInv, LoginInv, LoginBeforeFrames, MainWakes, ConnectionLost, threadVars, wireVars
  <2> QED
      BY <2>1, <2>2
<1> QED
    BY <1>1, <1>2, <1>3, <1>4, <1>5, <1>6 DEF UplinkInv, miscVars

(* A failure reported by a sender: TB, if it is not waiting, keeps         *)
(* recvsock, which is at most shut down.                                   *)
LEMMA SenderEmitsTb ==
    ASSUME UplinkInv, EmitDisconnect("send"), UNCHANGED <<tbPc, ioPc[TB], ioSock[TB]>>
    PROVE  TbInv'
BY DEF UplinkInv, TypeOK, NetTypeOK, TbInv, TbWaits, SockInv, EmitDisconnect, BecomeLeader,
       LeaderAgain, FollowConnected, FollowDisconnected, FollowAssertFails, AlreadyReported,
       SetMySock, TransitOf, netVars

(* A failure reported by TB: the same for RELAY and sendsock.              *)
LEMMA TbEmitsRelay ==
    ASSUME UplinkInv, ~gpsThread, ioPc[TB] = "emit", EmitDisconnect("recv"),
           UNCHANGED <<relayPc, ioPc[Relay], ioSock[Relay], ioPc[Gps]>>
    PROVE  RelayInv' /\ UNCHANGED sendsock
BY DEF UplinkInv, TypeOK, NetTypeOK, RelayInv, RelayWaits, TbInv, TbWaits, SockInv, EmitDisconnect, BecomeLeader,
       LeaderAgain, FollowConnected, FollowDisconnected, FollowAssertFails, AlreadyReported,
       SetMySock, TransitOf, netVars

(* Whoever reports, connections keep their numbers, and only a broadcast   *)
(* changes who sleeps.                                                     *)
LEMMA EmitFrame ==
    ASSUME NEW by \in {"send", "recv"}, EmitDisconnect(by)
    PROVE  /\ UNCHANGED <<connNo, conns, mainPc>>
           /\ asleep' \subseteq asleep
           /\ connState' = "shutdown" <=> connState = "shutdown"
BY DEF EmitDisconnect, BecomeLeader, LeaderAgain, FollowConnected, FollowDisconnected,
       FollowAssertFails, AlreadyReported, netVars, Broadcast

-----------------------------------------------------------------------------
(* RELAY *)

LEMMA RelayQuietSteps ==
    ASSUME UplinkInv, mainPc # "stopped",
           \/ RelayConnected \/ RelaySendStarts \/ RelaySendFails \/ RelayDefersPosition
           \/ RelaySkipsUsername \/ SerialArrived \/ SerialTimeout \/ SerialCheck
    PROVE  UplinkInv'
<1>1. UNCHANGED <<netVars, stops, gpsThread, tbPc, wireVars>> /\ UNCHANGED <<ioPc[TB], ioSock[TB], ioPc[Gps]>>
    BY DEF UplinkInv, TypeOK, RelayConnected, RelaySendStarts, RelaySendFails, RelayDefersPosition,
       RelaySkipsUsername, SerialArrived, SerialTimeout, SerialCheck, RelayMove, SendStarts,
       SendFails, WaitConnectedReturns, miscVars, Threads, Relay, TB, Gps
<1>2. NetTypeOK' /\ SockInv' /\ LeakInv'
    BY <1>1, NetFrame DEF UplinkInv
<1>3. TypeOK'
  <2>1. {gpsThread', hasSerial', gpsFix', needPosition'} \subseteq BOOLEAN
      BY DEF UplinkInv, TypeOK, RelayConnected, RelaySendStarts, RelaySendFails,
         RelayDefersPosition, RelaySkipsUsername, SerialArrived, SerialTimeout, SerialCheck,
         RelayMove, miscVars
  <2>2. relayPc' \in LoginSends \cup {"wait", "serialWait", "check", "checkEmit", "force", "stream"}
      BY DEF UplinkInv, TypeOK, RelayConnected, RelaySendStarts, RelaySendFails,
         RelayDefersPosition, RelaySkipsUsername, SerialArrived, SerialTimeout, SerialCheck,
         RelayMove, LoginSends
  <2>3. /\ ioPc' \in [Threads -> {"idle", "syscall", "emit"}]
        /\ ioSock' \in [Threads -> Fds \cup {SOCK_INVALID}]
        /\ sendOwner' \in Senders \cup {"nobody"}
    <3>1. /\ ioPc \in [Threads -> {"idle", "syscall", "emit"}]
          /\ ioSock \in [Threads -> Fds \cup {SOCK_INVALID}]
          /\ sendOwner \in Senders \cup {"nobody"}
          /\ sendsock \in Fds \cup {SOCK_INVALID}
        BY DEF UplinkInv, TypeOK, NetTypeOK
    <3>2. CASE RelaySendStarts
        BY <3>1, <3>2 DEF RelaySendStarts, SendStarts, Senders
    <3>3. CASE RelaySendFails
        BY <3>1, <3>3 DEF RelaySendFails, SendFails
    <3>4. CASE \/ RelayConnected \/ RelayDefersPosition \/ RelaySkipsUsername
               \/ SerialArrived \/ SerialTimeout \/ SerialCheck
      <4>1. UNCHANGED <<ioPc, ioSock, sendOwner>>
          BY <3>4 DEF RelayConnected, RelayDefersPosition, RelaySkipsUsername, SerialArrived,
             SerialTimeout, SerialCheck, RelayMove
      <4> QED
          BY <3>1, <4>1
    <3> QED
        BY <3>2, <3>3, <3>4
  <2> QED
      BY <1>1, <1>2, <2>1, <2>2, <2>3 DEF UplinkInv, TypeOK, netVars, wireVars
<1>4. TbInv'
    BY <1>1 DEF UplinkInv, TbInv, TbWaits, netVars
<1>5. RelayPcInv'
    BY <1>1 DEF UplinkInv, TypeOK, NetTypeOK, SockInv, RelayPcInv, RelayWaits, RelayConnected, RelaySendStarts, RelaySendFails, RelayDefersPosition,
       RelaySkipsUsername, SerialArrived, SerialTimeout, SerialCheck, RelayMove, SendStarts,
       SendFails, netVars, Threads, LoginSends, Relay
<1>6. ~gpsThread => RelayInv'
    BY <1>1 DEF UplinkInv, TypeOK, NetTypeOK, SockInv, RelayInv, RelayPcInv, RelayWaits, RelayConnected, RelaySendStarts, RelaySendFails, RelayDefersPosition,
       RelaySkipsUsername, SerialArrived, SerialTimeout, SerialCheck, RelayMove, SendStarts,
       SendFails, WaitConnectedReturns, netVars, Threads, LoginSends, Relay, Gps
<1>7. ~gpsThread => LoginInv'
    BY <1>1 DEF UplinkInv, TypeOK, NetTypeOK, LoginInv, LoginBeforeFrames, RelayConnected, RelaySendStarts, RelaySendFails, RelayDefersPosition,
       RelaySkipsUsername, SerialArrived, SerialTimeout, SerialCheck, RelayMove, SendStarts,
       SendFails, netVars, wireVars
<1> QED
    BY <1>1, <1>2, <1>3, <1>4, <1>5, <1>6, <1>7 DEF UplinkInv

LEMMA RelaySleepsStep ==
    ASSUME UplinkInv, RelaySleeps
    PROVE  UplinkInv'
<1>1. UNCHANGED <<threadVars, miscVars, wireVars>> /\ WaitConnectedSleeps(Relay)
    BY DEF RelaySleeps
<1>2. NetTypeOK' /\ SockInv' /\ LeakInv' /\ asleep' \subseteq {Main, Relay, TB}
    BY <1>1, SleepFrame DEF UplinkInv, miscVars
<1>3. UNCHANGED <<connState, transState, recvsock, sendsock, connNo, assertFailed>>
    BY <1>1 DEF WaitConnectedSleeps
<1> QED
    BY <1>1, <1>2, <1>3 DEF UplinkInv, TypeOK, TbInv, TbWaits, RelayPcInv, RelayInv, RelayWaits,
       LoginInv, LoginBeforeFrames, threadVars, miscVars, wireVars

(* A message is out on the connection RELAY is sending on.                 *)
LEMMA RelaySendSucceedsStep ==
    ASSUME UplinkInv, mainPc # "stopped", RelaySendSucceeds
    PROVE  UplinkInv'
<1>1. UNCHANGED <<netVars, miscVars, tbPc>> /\ UNCHANGED <<ioPc[TB], ioSock[TB], ioPc[Gps]>>
    BY DEF UplinkInv, TypeOK, RelaySendSucceeds, SendSucceeds, Threads, Relay, TB, Gps
<1>2. NetTypeOK' /\ SockInv' /\ LeakInv'
    BY <1>1, NetFrame DEF UplinkInv, miscVars
<1>3. /\ relayPc \in LoginSends \cup {"stream"}
      /\ ioPc[Relay] = "syscall"
      /\ relayPc' = AfterSend
    BY DEF UplinkInv, RelayPcInv, RelaySendSucceeds, SendSucceeds
<1>4. Conn(Relay) \in 1..MaxConns
    BY DEF UplinkInv, SockInv, OpenSockets, RelaySendSucceeds, SendSucceeds, SockState, Conn, TypeOK
<1>5. /\ relayPc = "deviceId" => relayPc' \in {"serial", "request"}
      /\ relayPc = "request" => relayPc' = "serialWait"
      /\ relayPc = "serial" => relayPc' = "position"
      /\ relayPc = "position" => relayPc' = "username"
      /\ relayPc \in {"username", "stream"} => relayPc' = "stream"
    BY <1>3 DEF AfterSend
<1>6. loginOn' \in [1..MaxConns -> SUBSET LoginMsgs] /\ streamedOn' \subseteq 1..MaxConns
    BY <1>4 DEF UplinkInv, TypeOK, RelaySendSucceeds, LoginMsgs
<1>7. TypeOK'
  <2>1. relayPc' \in LoginSends \cup {"serialWait", "stream"}
      BY <1>3, <1>5 DEF LoginSends
  <2>2. /\ ioPc' \in [Threads -> {"idle", "syscall", "emit"}]
        /\ ioSock' \in [Threads -> Fds \cup {SOCK_INVALID}]
        /\ sendOwner' \in Senders \cup {"nobody"}
      BY DEF UplinkInv, TypeOK, RelaySendSucceeds, SendSucceeds
  <2> QED
      BY <1>1, <1>2, <1>6, <2>1, <2>2 DEF UplinkInv, TypeOK, netVars, miscVars
<1>8. TbInv'
    BY <1>1 DEF UplinkInv, TbInv, TbWaits, netVars
<1>9. ioPc'[Relay] = "idle"
    BY DEF UplinkInv, TypeOK, RelaySendSucceeds, SendSucceeds, Threads, Relay
<1>10. RelayPcInv'
    BY <1>1, <1>9 DEF UplinkInv, RelayPcInv, SockInv, netVars
<1>11. ~gpsThread => RelayInv'
    BY <1>1, <1>3, <1>9 DEF UplinkInv, RelayInv, RelayWaits, netVars
<1>12. ASSUME ~gpsThread PROVE LoginInv'
  <2>1. sendsock' = sendsock /\ connNo' = connNo /\ Conn(Relay) = connNo[sendsock]
      BY <1>1, <1>3, <1>12 DEF UplinkInv, RelayInv, Conn, netVars
  <2>2. \A c \in 1..MaxConns : loginOn[c] \subseteq loginOn'[c]
      BY DEF UplinkInv, TypeOK, RelaySendSucceeds
  <2>3. relayPc \in LoginMsgs => loginOn'[connNo[sendsock]] = loginOn[connNo[sendsock]] \cup {relayPc}
      BY <1>4, <2>1 DEF UplinkInv, TypeOK, RelaySendSucceeds
  <2>4. \A c \in 1..MaxConns : loginOn'[c] \subseteq LoginMsgs
      BY <1>6
  <2>5. relayPc' \in {"request", "serialWait", "serial"} => "deviceId" \in loginOn'[connNo[sendsock]]
      BY <1>3, <1>4, <1>5, <1>12, <2>1, <2>2, <2>3 DEF UplinkInv, LoginInv, LoginSends, LoginMsgs
  <2>6. relayPc' \in {"position", "username", "stream"} => loginOn'[connNo[sendsock]] = LoginMsgs
      BY <1>3, <1>4, <1>5, <1>12, <2>1, <2>2, <2>3, <2>4 DEF UplinkInv, LoginInv, LoginSends, LoginMsgs
  <2>7. \A c \in streamedOn' : loginOn'[c] = LoginMsgs
      BY <1>3, <1>4, <1>5, <1>12, <2>1, <2>2, <2>4, <2>6
         DEF UplinkInv, TypeOK, LoginInv, LoginBeforeFrames, RelaySendSucceeds
  <2> QED
      BY <1>3, <1>5, <2>1, <2>5, <2>6, <2>7 DEF LoginInv, LoginBeforeFrames, LoginSends
<1> QED
    BY <1>1, <1>2, <1>7, <1>8, <1>10, <1>11, <1>12 DEF UplinkInv, miscVars

(* RELAY reports a failure, in NET_send(), NET_checkConnected() or         *)
(* NET_forceDisconnect(), and waits for the next connection.               *)
LEMMA RelayEmitsStep ==
    ASSUME UplinkInv, mainPc # "stopped", RelaySendReports \/ SerialCheckEmits \/ SerialGivesUp
    PROVE  UplinkInv'
<1>1. /\ EmitDisconnect("send")
      /\ ~RelayWaits
      /\ relayPc' = "wait"
      /\ UNCHANGED <<tbPc, miscVars, wireVars, ioSock>>
      /\ UNCHANGED <<ioPc[TB], ioPc[Gps]>>
      /\ ioPc' \in [Threads -> {"idle", "syscall", "emit"}]
      /\ sendOwner' \in Senders \cup {"nobody"}
      /\ ioPc'[Relay] = "idle"
    BY DEF UplinkInv, TypeOK, RelayPcInv, RelaySendReports, SendReports, SerialCheckEmits, SerialGivesUp,
       RelayMove, RelayWaits, Threads, Relay, TB, Gps, LoginSends
<1>2. NetTypeOK' /\ SockInv' /\ LeakInv'
    BY <1>1, EmitSock, EmitLeak DEF UplinkInv, TypeOK, miscVars
<1>3. TypeOK'
    BY <1>1, <1>2, EmitFrame DEF UplinkInv, TypeOK, miscVars, wireVars
<1>4. TbInv'
    BY <1>1, SenderEmitsTb
<1>5. RelayPcInv'
    BY <1>1 DEF RelayPcInv, RelayWaits
<1>6. ~gpsThread => RelayInv'
  <2>1. ~gpsThread => ~FollowAssertFails
      BY <1>1 DEF UplinkInv, RelayInv, FollowAssertFails
  <2>2. ~gpsThread => ~assertFailed'
      BY <1>1, <2>1 DEF UplinkInv, RelayInv, EmitDisconnect, BecomeLeader, LeaderAgain, FollowConnected,
         FollowDisconnected, AlreadyReported, netVars
  <2> QED
      BY <1>1, <2>2 DEF UplinkInv, RelayInv, RelayWaits
<1>7. ~gpsThread => LoginInv'
    BY <1>1 DEF UplinkInv, LoginInv, LoginBeforeFrames, wireVars
<1> QED
    BY <1>1, <1>2, <1>3, <1>4, <1>5, <1>6, <1>7 DEF UplinkInv, miscVars

-----------------------------------------------------------------------------
(* TB *)

LEMMA TbQuietSteps ==
    ASSUME UplinkInv, mainPc # "stopped",
           \/ TbConnected \/ TbReceiveStarts \/ TbReceives \/ TbSerialResponse
           \/ TbSeesLoss \/ TbSeesShutdown
    PROVE  UplinkInv'
<1>1. /\ UNCHANGED <<netVars, stops, gpsThread, relayPc, sendOwner, wireVars>>
      /\ UNCHANGED <<ioPc[Relay], ioSock[Relay], ioPc[Gps]>>
    BY DEF UplinkInv, TypeOK, TbConnected, TbReceiveStarts, TbReceives, TbSerialResponse, TbSeesLoss,
       TbSeesShutdown, TbReceiveFails, WaitConnectedReturns, miscVars, Threads, Relay, TB, Gps
<1>2. NetTypeOK' /\ SockInv' /\ LeakInv'
    BY <1>1, NetFrame DEF UplinkInv
<1>3. TypeOK'
  <2>1. {gpsThread', hasSerial', gpsFix', needPosition'} \subseteq BOOLEAN
      BY DEF UplinkInv, TypeOK, TbConnected, TbReceiveStarts, TbReceives, TbSerialResponse,
         TbSeesLoss, TbSeesShutdown, TbReceiveFails, miscVars
  <2>2. tbPc' \in {"wait", "receive", "response"}
      BY DEF UplinkInv, TypeOK, TbConnected, TbReceiveStarts, TbReceives, TbSerialResponse,
         TbSeesLoss, TbSeesShutdown, TbReceiveFails
  <2>3. /\ ioPc' \in [Threads -> {"idle", "syscall", "emit"}]
        /\ ioSock' \in [Threads -> Fds \cup {SOCK_INVALID}]
      BY DEF UplinkInv, TypeOK, NetTypeOK, TbConnected, TbReceiveStarts, TbReceives, TbSerialResponse,
         TbSeesLoss, TbSeesShutdown, TbReceiveFails
  <2> QED
      BY <1>1, <1>2, <2>1, <2>2, <2>3 DEF UplinkInv, TypeOK, netVars, wireVars
<1>4. TbInv'
    BY <1>1 DEF UplinkInv, TypeOK, NetTypeOK, SockInv, TbInv, TbWaits, TbConnected, TbReceiveStarts,
       TbReceives, TbSerialResponse, TbSeesLoss, TbSeesShutdown, TbReceiveFails, WaitConnectedReturns,
       netVars, Threads, TB
<1>5. RelayPcInv' /\ (~gpsThread => RelayInv' /\ LoginInv')
    BY <1>1 DEF UplinkInv, RelayPcInv, RelayInv, RelayWaits, LoginInv, LoginBeforeFrames, netVars, wireVars
<1> QED
    BY <1>1, <1>2, <1>3, <1>4, <1>5 DEF UplinkInv

LEMMA TbSleepsStep ==
    ASSUME UplinkInv, TbSleeps
    PROVE  UplinkInv'
<1>1. UNCHANGED <<threadVars, miscVars, wireVars>> /\ WaitConnectedSleeps(TB)
    BY DEF TbSleeps
<1>2. NetTypeOK' /\ SockInv' /\ LeakInv' /\ asleep' \subseteq {Main, Relay, TB}
    BY <1>1, SleepFrame DEF UplinkInv, miscVars
<1>3. UNCHANGED <<connState, transState, recvsock, sendsock, connNo, assertFailed>>
    BY <1>1 DEF WaitConnectedSleeps
<1> QED
    BY <1>1, <1>2, <1>3 DEF UplinkInv, TypeOK, TbInv, TbWaits, RelayPcInv, RelayInv, RelayWaits,
       LoginInv, LoginBeforeFrames, threadVars, miscVars, wireVars

(* NET_receive() reports a failure.  It tries again only if it has joined  *)
(* the leader on the new connection.                                       *)
LEMMA TbReportsStep ==
    ASSUME UplinkInv, mainPc # "stopped", TbReports
    PROVE  UplinkInv'
<1>1. /\ ioPc[TB] = "emit"
      /\ EmitDisconnect("recv")
      /\ tbPc' = IF connState' = "connected" THEN "receive" ELSE "wait"
      /\ UNCHANGED <<relayPc, ioSock, sendOwner, miscVars, wireVars>>
      /\ UNCHANGED <<ioPc[Relay], ioPc[Gps]>>
      /\ ioPc' \in [Threads -> {"idle", "syscall", "emit"}]
      /\ ioPc'[TB] = "idle"
    BY DEF UplinkInv, TypeOK, TbReports, Retry, Threads, Relay, TB, Gps
<1>2. NetTypeOK' /\ SockInv' /\ LeakInv'
    BY <1>1, EmitSock, EmitLeak DEF UplinkInv, TypeOK, miscVars
<1>3. TypeOK'
    BY <1>1, <1>2, EmitFrame DEF UplinkInv, TypeOK, miscVars, wireVars
<1>4. TbInv'
    BY <1>1 DEF TbInv, TbWaits
<1>5. RelayPcInv'
    BY <1>1, EmitFrame DEF UplinkInv, RelayPcInv, RelayWaits
<1>6. ~gpsThread => RelayInv' /\ UNCHANGED sendsock
    BY <1>1, TbEmitsRelay
<1>7. ~gpsThread => LoginInv'
    BY <1>1, <1>6, EmitFrame DEF UplinkInv, LoginInv, LoginBeforeFrames, wireVars
<1> QED
    BY <1>1, <1>2, <1>3, <1>4, <1>5, <1>6, <1>7 DEF UplinkInv, miscVars

-----------------------------------------------------------------------------
(* GPS *)

LEMMA SendTypes ==
    ASSUME TypeOK, NEW t \in Senders, SendStarts(t) \/ SendSucceeds(t) \/ SendFails(t)
    PROVE  /\ ioPc' \in [Threads -> {"idle", "syscall", "emit"}]
           /\ ioSock' \in [Threads -> Fds \cup {SOCK_INVALID}]
           /\ sendOwner' \in Senders \cup {"nobody"}
<1>1. sendsock \in Fds \cup {SOCK_INVALID}
    BY DEF TypeOK, NetTypeOK
<1>2. CASE SendStarts(t)
    BY <1>1, <1>2 DEF TypeOK, SendStarts
<1>3. CASE SendSucceeds(t)
    BY <1>3 DEF TypeOK, SendSucceeds
<1>4. CASE SendFails(t)
    BY <1>4 DEF TypeOK, SendFails
<1> QED
    BY <1>2, <1>3, <1>4

LEMMA GpsQuietSteps ==
    ASSUME UplinkInv, gpsThread,
           GpsUpdates \/ GpsReset \/ GpsSendStarts \/ GpsSendSucceeds \/ GpsSendFails
    PROVE  UplinkInv'
<1>1. /\ UNCHANGED <<netVars, stops, gpsThread, relayPc, tbPc, wireVars>>
      /\ UNCHANGED <<ioPc[Relay], ioPc[TB], ioSock[TB]>>
    BY DEF UplinkInv, TypeOK, GpsUpdates, GpsReset, GpsSendStarts, GpsSendSucceeds, GpsSendFails,
       SendStarts, SendSucceeds, SendFails, miscVars, threadVars, Threads, Relay, TB, Gps
<1>2. NetTypeOK' /\ SockInv' /\ LeakInv'
    BY <1>1, NetFrame DEF UplinkInv
<1>3. TypeOK'
  <2>1. {gpsThread', hasSerial', gpsFix', needPosition'} \subseteq BOOLEAN
      BY DEF UplinkInv, TypeOK, GpsUpdates, GpsReset, GpsSendStarts, GpsSendSucceeds,
         GpsSendFails, miscVars
  <2>2. /\ ioPc' \in [Threads -> {"idle", "syscall", "emit"}]
        /\ ioSock' \in [Threads -> Fds \cup {SOCK_INVALID}]
        /\ sendOwner' \in Senders \cup {"nobody"}
    <3>1. UNCHANGED threadVars \/ SendStarts(Gps) \/ SendSucceeds(Gps) \/ SendFails(Gps)
        BY DEF GpsUpdates, GpsReset, GpsSendStarts, GpsSendSucceeds, GpsSendFails
    <3> QED
        BY <3>1, SendTypes DEF UplinkInv, TypeOK, threadVars, Senders, Threads
  <2> QED
      BY <1>1, <1>2, <2>1, <2>2 DEF UplinkInv, TypeOK, netVars, wireVars
<1> QED
    BY <1>1, <1>2, <1>3 DEF UplinkInv, TbInv, TbWaits, RelayPcInv, RelayWaits, netVars

LEMMA GpsReportsStep ==
    ASSUME UplinkInv, gpsThread, GpsSendReports
    PROVE  UplinkInv'
<1>1. /\ EmitDisconnect("send")
      /\ UNCHANGED <<relayPc, tbPc, miscVars, wireVars, ioSock>>
      /\ UNCHANGED <<ioPc[TB], ioPc[Relay]>>
      /\ ioPc' \in [Threads -> {"idle", "syscall", "emit"}]
      /\ sendOwner' \in Senders \cup {"nobody"}
    BY DEF UplinkInv, TypeOK, GpsSendReports, SendReports, Threads, Relay, TB, Gps
<1>2. NetTypeOK' /\ SockInv' /\ LeakInv'
    BY <1>1, EmitSock, EmitLeak DEF UplinkInv, TypeOK, miscVars
<1>3. TypeOK'
    BY <1>1, <1>2, EmitFrame DEF UplinkInv, TypeOK, miscVars, wireVars
<1>4. TbInv'
    BY <1>1, SenderEmitsTb
<1>5. RelayPcInv'
    BY <1>1, EmitFrame DEF UplinkInv, RelayPcInv, RelayWaits
<1> QED
    BY <1>1, <1>2, <1>3, <1>4, <1>5 DEF UplinkInv, miscVars

-----------------------------------------------------------------------------
(* Stop and restart *)

(* COMP_stopAll() leaves at most one open socket that is not counted yet:  *)
(* the stale one of a transition.                                          *)
LEMMA StopAllStep ==
    ASSUME UplinkInv, StopAll
    PROVE  UplinkInv'
<1> USE InvalidFd
<1> DEFINE victim == IF transState = "recv" THEN sendsock ELSE recvsock
           other == IF transState = "recv" THEN recvsock ELSE sendsock
<1>1. /\ relayPc' = "wait" /\ tbPc' = "wait"
      /\ ioPc'[Relay] = "idle" /\ ioPc'[TB] = "idle" /\ ioPc'[Gps] = ioPc[Gps]
      /\ connState' = "shutdown" /\ mainPc' = "stopped" /\ stops' = stops + 1
      /\ UNCHANGED <<transState, connNo, conns, assertFailed, gpsThread, wireVars>>
    BY DEF StopAll, CleanupMain, Threads, Relay, TB, Gps
<1>2. NetTypeOK'
  <2>1. CASE connState = "connected"
      BY <2>1, SocketCalls DEF UplinkInv, TypeOK, NetTypeOK, StopAll, CleanupMain
  <2>2. CASE connState # "connected"
      BY <2>2 DEF UplinkInv, TypeOK, NetTypeOK, StopAll, CleanupMain
  <2> QED
      BY <2>1, <2>2
<1>3. TypeOK'
  <2>1. /\ ioPc' \in [Threads -> {"idle", "syscall", "emit"}]
        /\ ioSock' \in [Threads -> Fds \cup {SOCK_INVALID}]
        /\ sendOwner' \in Senders \cup {"nobody"}
      BY DEF UplinkInv, TypeOK, StopAll, Threads
  <2>2. stops' \in 0..MaxStops
      BY UplinkAssumption DEF UplinkInv, TypeOK, StopAll
  <2> QED
      BY <1>1, <1>2, <2>1, <2>2 DEF UplinkInv, TypeOK, StopAll, CleanupMain, LoginSends, wireVars
<1>4. OpenSockets' \subseteq OpenSockets
  <2>1. CASE connState = "connected"
      BY <2>1, SocketCalls DEF UplinkInv, TypeOK, NetTypeOK, StopAll, CleanupMain, OpenSockets
  <2>2. CASE connState # "connected"
      BY <2>2 DEF StopAll, CleanupMain, OpenSockets
  <2> QED
      BY <2>1, <2>2
<1>5. SockInv'
    BY <1>1, <1>4 DEF UplinkInv, SockInv
<1>6. IsFiniteSet(OpenSockets) /\ IsFiniteSet(Leaked) /\ stops \in Nat
    BY FS_Subset, StopsType DEF UplinkInv, LeakInv, Leaked
<1>7. OpenSockets' \subseteq Leaked \cup {other}
      \/ (connState # "connected" /\ Cardinality(OpenSockets) <= stops)
  <2>1. CASE connState = "connected"
      BY <2>1, SocketCalls DEF UplinkInv, TypeOK, NetTypeOK, StopAll, CleanupMain, OpenSockets, Leaked
  <2>2. CASE connState = "disconnected" /\ transState # "none"
    <3>1. sock' = sock
        BY <2>2 DEF StopAll, CleanupMain
    <3>2. OpenSockets' = OpenSockets
        BY <3>1 DEF OpenSockets
    <3>3. victim = SOCK_INVALID
        BY <2>2 DEF UplinkInv, TypeOK, NetTypeOK, SockInv
    <3>4. SOCK_INVALID \notin OpenSockets
        BY DEF OpenSockets
    <3> QED
        BY <3>2, <3>3, <3>4 DEF Leaked
  <2>3. CASE connState = "shutdown" \/ (connState = "disconnected" /\ transState = "none")
      BY <2>3 DEF UplinkInv, LeakInv
  <2> QED
      BY <2>1, <2>2, <2>3 DEF UplinkInv, TypeOK, NetTypeOK
<1>8. Cardinality(OpenSockets') <= stops + 1 /\ IsFiniteSet(OpenSockets')
    BY <1>4, <1>6, <1>7, OneMore DEF UplinkInv, LeakInv
<1>9. Cardinality(Leaked') <= stops + 1
    BY <1>6, <1>8, Fewer DEF Leaked
<1>10. LeakInv'
    BY <1>1, <1>8, <1>9 DEF LeakInv
<1>11. TbInv' /\ RelayPcInv'
    BY <1>1 DEF TbInv, TbWaits, RelayPcInv, RelayWaits
<1>12. ~gpsThread => RelayInv' /\ LoginInv'
    BY <1>1 DEF UplinkInv, RelayInv, RelayWaits, LoginInv, LoginBeforeFrames, wireVars
<1> QED
    BY <1>1, <1>3, <1>5, <1>10, <1>11, <1>12 DEF UplinkInv

LEMMA StartAllStep ==
    ASSUME UplinkInv, StartAll
    PROVE  UplinkInv'
<1>1. /\ MainStarts
      /\ UNCHANGED <<threadVars, gpsThread, hasSerial, gpsFix, stops, wireVars>>
      /\ needPosition' = FALSE
      /\ connState = "shutdown"
    BY DEF StartAll, MainStarts, UplinkInv, SockInv
<1>2. NetTypeOK' /\ SockInv' /\ LeakInv'
    BY <1>1, OtherNet DEF UplinkInv
<1>3. TypeOK'
    BY <1>1, <1>2 DEF UplinkInv, TypeOK, MainStarts, threadVars, wireVars
<1> QED
    BY <1>1, <1>2, <1>3 DEF UplinkInv, TbInv, TbWaits, RelayPcInv, RelayInv, RelayWaits, LoginInv,
       LoginBeforeFrames, MainStarts, threadVars, wireVars

-----------------------------------------------------------------------------
(* The theorems *)

LEMMA InitUplinkInv == Init => UplinkInv
<1> SUFFICES ASSUME Init PROVE UplinkInv
    OBVIOUS
<1>1. OpenSockets = {} /\ Leaked = {}
    BY DEF Init, NetInit, OpenSockets, Leaked
<1>2. IsFiniteSet({}) /\ Cardinality({}) = 0
    BY FS_EmptySet
<1>3. NetTypeOK
  <2>1. 0 \in 0..MaxConns
      BY NetworkAssumption
  <2>2. connNo \in [Fds -> 0..MaxConns] /\ conns \in 0..MaxConns
      BY <2>1 DEF Init, NetInit
  <2>3. sock \in [Fds -> {"closed", "up", "lost", "shut"}]
      BY DEF Init, NetInit
  <2> QED
      BY <2>2, <2>3 DEF Init, NetInit, NetTypeOK
<1>4. TypeOK
  <2>1. {gpsThread, hasSerial, gpsFix, needPosition} \subseteq BOOLEAN
      BY UplinkAssumption DEF Init
  <2>2. stops \in 0..MaxStops
      BY UplinkAssumption DEF Init
  <2>3. /\ ioPc \in [Threads -> {"idle", "syscall", "emit"}]
        /\ ioSock \in [Threads -> Fds \cup {SOCK_INVALID}]
        /\ loginOn \in [1..MaxConns -> SUBSET LoginMsgs]
        /\ streamedOn \subseteq 1..MaxConns
        /\ asleep \subseteq {Main, Relay, TB}
      BY DEF Init, NetInit
  <2> QED
      BY <1>3, <2>1, <2>2, <2>3 DEF Init, TypeOK
<1>5. SockInv /\ LeakInv
    BY <1>1, <1>2 DEF Init, NetInit, SockInv, LeakInv
<1>6. TbInv /\ RelayPcInv /\ RelayInv /\ LoginInv
    BY DEF Init, NetInit, TbInv, TbWaits, RelayPcInv, RelayInv, RelayWaits, LoginInv,
       LoginBeforeFrames, Threads, Relay, TB, Gps
<1> QED
    BY <1>4, <1>5, <1>6 DEF UplinkInv

LEMMA NextUplinkInv == UplinkInv /\ [Next]_vars => UplinkInv'
<1> SUFFICES ASSUME UplinkInv, [Next]_vars PROVE UplinkInv'
    OBVIOUS
<1>1. CASE UNCHANGED vars
  <2>1. NetTypeOK' /\ SockInv' /\ LeakInv'
      BY <1>1, NetFrame DEF UplinkInv, vars, miscVars
  <2> QED
      BY <1>1, <2>1 DEF UplinkInv, TypeOK, TbInv, TbWaits, RelayPcInv, RelayInv, RelayWaits,
         LoginInv, LoginBeforeFrames, vars, netVars, threadVars, miscVars, wireVars
<1>2. CASE NetThread
    BY <1>2, UsersFrame DEF NetThread
<1>3. CASE Environment
  <2>1. CASE ConnectFails /\ UNCHANGED <<threadVars, miscVars, wireVars>>
      BY <1>1, <2>1 DEF ConnectFails, vars
  <2> QED
      BY <1>3, <2>1, UsersFrame DEF Environment
<1>4. CASE mainPc # "stopped" /\ RelayNext
    BY <1>4, RelayQuietSteps, RelaySleepsStep, RelaySendSucceedsStep, RelayEmitsStep DEF RelayNext
<1>5. CASE mainPc # "stopped" /\ TbNext
    BY <1>5, TbQuietSteps, TbSleepsStep, TbReportsStep DEF TbNext
<1>6. CASE GpsNext
    BY <1>6, GpsQuietSteps, GpsReportsStep DEF GpsNext
<1> QED
    BY <1>1, <1>2, <1>3, <1>4, <1>5, <1>6, StopAllStep, StartAllStep DEF Next

LEMMA SpecUplinkInv == Spec => []UplinkInv
BY InitUplinkInv, NextUplinkInv, PTL DEF Spec

(* The variables of network.c and of its users keep their types, and with  *)
(* RELAY as the only sender emitDisconnect() keeps leader and follower     *)
(* consistent: synchronized means one open socket, in transition the       *)
(* follower has the stale one, shut down.                                  *)
THEOREM HandShakeHolds == Spec => []SyncInv
<1>1. UplinkInv => SyncInv
    BY DEF UplinkInv, SyncInv, HandShake, SockInv, RelayInv, TbInv
<1> QED
    BY <1>1, SpecUplinkInv, PTL

(* With one sender, the assertion of emitDisconnect() (transState is not   *)
(* TRANSIT_NONE while disconnected) never fails.                           *)
THEOREM EmitAssertion == Spec => []AssertionHolds
<1>1. UplinkInv => AssertionHolds
    BY DEF UplinkInv, AssertionHolds, RelayInv
<1> QED
    BY <1>1, SpecUplinkInv, PTL

(* trySend() reads sendsock without the mutex, and still nobody closes or  *)
(* replaces the socket under a running send() of RELAY.                    *)
THEOREM SendSocketStable == Spec => []SenderKeepsSocket
<1>1. UplinkInv => SenderKeepsSocket
  <2> SUFFICES ASSUME UplinkInv, ~gpsThread, ioPc[Relay] = "syscall"
               PROVE  ioSock[Relay] = sendsock /\ SockState(sendsock) # "closed"
      BY DEF SenderKeepsSocket
  <2> QED
      BY DEF UplinkInv, TypeOK, NetTypeOK, RelayInv, RelayPcInv, RelayWaits, SockInv, Open
<1> QED
    BY <1>1, SpecUplinkInv, PTL

(* The same for recvsock under a running recv() of TB, with any senders.   *)
THEOREM ReceiveSocketStable == Spec => []ReceiverKeepsSocket
<1>1. UplinkInv => ReceiverKeepsSocket
  <2> SUFFICES ASSUME UplinkInv, ioPc[TB] = "syscall"
               PROVE  ioSock[TB] = recvsock /\ SockState(recvsock) # "closed"
      BY DEF ReceiverKeepsSocket
  <2> QED
      BY DEF UplinkInv, TypeOK, NetTypeOK, TbInv, TbWaits, SockInv, Open
<1> QED
    BY <1>1, SpecUplinkInv, PTL

(* emitDisconnect() and mainloop() leak no socket, cleanupMain() at most   *)
(* one per stop.                                                           *)
THEOREM SocketsBounded == Spec => []NoSocketLeak
<1>1. UplinkInv => NoSocketLeak
    BY DEF UplinkInv, LeakInv, Leaked, OpenSockets, NoSocketLeak
<1> QED
    BY <1>1, SpecUplinkInv, PTL

(* With one sender, RELAY streams frames only on connections on which      *)
(* LOGIN_login() has sent device type and serial number before.            *)
THEOREM LoginFirst == Spec => []LoneSenderLogsIn
<1>1. UplinkInv => LoneSenderLogsIn
    BY DEF UplinkInv, LoginInv, LoneSenderLogsIn
<1> QED
    BY <1>1, SpecUplinkInv, PTL
=============================================================================
