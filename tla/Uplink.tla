------------------------------- MODULE Uplink -------------------------------
(***************************************************************************)
(* The threads that share the connection of Network:                       *)
(*   RELAY  waits for a connection, logs in and sends frames and           *)
(*          keep-alives (core/relay.c, core/login.c); the serial number    *)
(*          may have to be requested from the server (dump1090/req-        *)
(*          serial.c);                                                     *)
(*   TB     receives packets from the server (core/tb.c);                  *)
(*   GPS    the thread that updates the position (trimble/trimble_recv.c,  *)
(*          or the user of gplib): it sends the position itself if the     *)
(*          login could not (core/gps.c).  The dump1090 feeder has no such *)
(*          thread (gpsThread = FALSE), and it alone has to request its    *)
(*          serial number.                                                 *)
(*                                                                         *)
(* A send is split where other threads can get in: reading sendsock and    *)
(* entering the system call, its result, and emitDisconnect().  A receive  *)
(* likewise.  Of what goes over the wire the model keeps which connection  *)
(* it used.                                                                *)
(***************************************************************************)
EXTENDS Network

CONSTANTS
    GpsThreads,        \* may there be (not be) a second sender?
    SerialConfigured,  \* may the configuration have (not have) a serial number?
    MaxStops,          \* bound: COMP_stopAll() in a behaviour
    GpsMaxConns        \* bound: MaxConns if there is a second sender

ASSUME UplinkAssumption ==
    /\ GpsThreads \subseteq BOOLEAN /\ GpsThreads # {}
    /\ SerialConfigured \subseteq BOOLEAN /\ SerialConfigured # {}
    /\ MaxStops \in Nat
    /\ GpsMaxConns \in 0..MaxConns

Relay == "relay"
TB == "tb"
Gps == "gps"
Senders == {Relay, Gps}
Threads == {Relay, TB, Gps}

VARIABLES
    gpsThread,    \* is there a GPS thread?
    relayPc,      \* where RELAY is in mainloop(), LOGIN_login(), SERIAL_getSerial()
    tbPc,         \* where TB is: "wait", "receive", "response"
    ioPc,         \* per thread: "idle", "syscall", "emit"
    ioSock,       \* per thread: socket of the running system call
    sendOwner,    \* thread that holds sendMutex, or "nobody"
    hasSerial,    \* the serial number is known
    gpsFix,       \* hasPosition && hasFix
    needPosition, \* the GPS thread shall send the position
    stops,        \* number of COMP_stopAll()
    loginOn,      \* login messages sent, per connection
    streamedOn    \* connections on which frames or keep-alives were sent

threadVars == <<relayPc, tbPc, ioPc, ioSock, sendOwner>>
miscVars == <<gpsThread, hasSerial, gpsFix, needPosition, stops>>
wireVars == <<loginOn, streamedOn>>
vars == <<netVars, threadVars, miscVars, wireVars>>

LoginMsgs == {"deviceId", "serial"}  \* what every login has to send

Init ==
    /\ NetInit
    /\ gpsThread \in GpsThreads
    /\ relayPc = "wait"
    /\ tbPc = "wait"
    /\ ioPc = [t \in Threads |-> "idle"]
    /\ ioSock = [t \in Threads |-> SOCK_INVALID]
    /\ sendOwner = "nobody"
    /\ hasSerial \in SerialConfigured
    /\ gpsThread => hasSerial
    /\ gpsFix = FALSE
    /\ needPosition = FALSE
    /\ stops = 0
    /\ loginOn = [c \in 1..MaxConns |-> {}]
    /\ streamedOn = {}

-----------------------------------------------------------------------------
(* NET_send() of thread t *)

(* sendMutex is taken, trySend() reads sendsock and calls send().          *)
SendStarts(t) ==
    /\ ioPc[t] = "idle"
    /\ sendOwner = "nobody"
    /\ sendOwner' = t
    /\ ioPc' = [ioPc EXCEPT ![t] = "syscall"]
    /\ ioSock' = [ioSock EXCEPT ![t] = sendsock]
    /\ UNCHANGED netVars

(* All bytes are accepted; on a lost connection they go nowhere.           *)
SendSucceeds(t) ==
    /\ ioPc[t] = "syscall"
    /\ SockState(ioSock[t]) \in {"up", "lost"}
    /\ sendOwner' = "nobody"
    /\ ioPc' = [ioPc EXCEPT ![t] = "idle"]
    /\ ioSock' = [ioSock EXCEPT ![t] = SOCK_INVALID]
    /\ UNCHANGED netVars

SendFails(t) ==
    /\ ioPc[t] = "syscall"
    /\ SockState(ioSock[t]) # "up"
    /\ ioPc' = [ioPc EXCEPT ![t] = "emit"]
    /\ ioSock' = [ioSock EXCEPT ![t] = SOCK_INVALID]
    /\ UNCHANGED <<netVars, sendOwner>>

(* emitDisconnect(EMIT_BY_SEND), and NET_send() returns false.             *)
SendReports(t) ==
    /\ ioPc[t] = "emit"
    /\ EmitDisconnect("send")
    /\ sendOwner' = "nobody"
    /\ ioPc' = [ioPc EXCEPT ![t] = "idle"]
    /\ UNCHANGED ioSock

Conn(t) == connNo[ioSock[t]]  \* connection on which t is sending

-----------------------------------------------------------------------------
(* RELAY *)

LoginSends == {"deviceId", "serial", "request", "position", "username"}

(* What follows a successful NET_send() at relayPc.                        *)
AfterSend ==
    CASE relayPc = "deviceId" -> IF hasSerial THEN "serial" ELSE "request"
      [] relayPc = "request"  -> "serialWait"
      [] relayPc = "serial"   -> "position"
      [] relayPc = "position" -> "username"
      [] relayPc = "username" -> "stream"
      [] relayPc = "stream"   -> "stream"

RelayConnected ==
    /\ relayPc = "wait"
    /\ WaitConnectedReturns(Relay)
    /\ relayPc' = "deviceId"
    /\ UNCHANGED <<tbPc, ioPc, ioSock, sendOwner, miscVars, wireVars>>

RelaySleeps ==
    /\ relayPc = "wait"
    /\ WaitConnectedSleeps(Relay)
    /\ UNCHANGED <<threadVars, miscVars, wireVars>>

(* GPS_sendPosition() tests under posMutex, which the GPS thread holds     *)
(* while it sends.                                                         *)
RelaySendStarts ==
    /\ relayPc \in LoginSends \cup {"stream"}
    /\ relayPc = "position" => gpsFix /\ ioPc[Gps] = "idle"
    /\ SendStarts(Relay)
    /\ UNCHANGED <<relayPc, tbPc, miscVars, wireVars>>

RelaySendSucceeds ==
    /\ SendSucceeds(Relay)
    /\ relayPc' = AfterSend
    /\ loginOn' = IF relayPc \in LoginMsgs
                  THEN [loginOn EXCEPT ![Conn(Relay)] = @ \cup {relayPc}]
                  ELSE loginOn
    /\ streamedOn' = IF relayPc = "stream" THEN streamedOn \cup {Conn(Relay)}
                     ELSE streamedOn
    /\ UNCHANGED <<tbPc, miscVars>>

RelaySendFails ==
    /\ SendFails(Relay)
    /\ UNCHANGED <<relayPc, tbPc, miscVars, wireVars>>

(* LOGIN_login() fails or the loop of mainloop() is left: wait again.      *)
RelaySendReports_resend == \* mutant: RELAY goes on as if it were logged in
    /\ SendReports(Relay)
    /\ UNCHANGED <<relayPc, tbPc, miscVars, wireVars>>
RelaySendReports ==
    /\ SendReports(Relay)
    /\ relayPc' = "wait"
    /\ UNCHANGED <<tbPc, miscVars, wireVars>>

(* No position or no fix: GPS_sendPosition() defers to the GPS thread.     *)
RelayDefersPosition ==
    /\ relayPc = "position"
    /\ ioPc[Relay] = "idle"
    /\ ioPc[Gps] = "idle"
    /\ ~gpsFix
    /\ needPosition' = TRUE
    /\ relayPc' = "username"
    /\ UNCHANGED <<netVars, tbPc, ioPc, ioSock, sendOwner, gpsThread, hasSerial, gpsFix,
                   stops, wireVars>>

(* sendUsername(): no user name is configured.                             *)
RelaySkipsUsername ==
    /\ relayPc = "username"
    /\ ioPc[Relay] = "idle"
    /\ relayPc' = "stream"
    /\ UNCHANGED <<netVars, tbPc, ioPc, ioSock, sendOwner, miscVars, wireVars>>

-----------------------------------------------------------------------------
(* RELAY in SERIAL_getSerial(), waiting for the answer to its request *)

RelayMove(from, to) ==
    /\ relayPc = from
    /\ relayPc' = to
    /\ UNCHANGED <<tbPc, ioPc, ioSock, sendOwner, miscVars, wireVars>>

SerialArrived == hasSerial /\ RelayMove("serialWait", "serial") /\ UNCHANGED netVars

(* Two seconds are over (the answer may have arrived meanwhile).           *)
SerialTimeout == RelayMove("serialWait", "check") /\ UNCHANGED netVars

(* NET_checkConnected(), its first critical section.                       *)
SerialCheck ==
    /\ MutexFree
    /\ \/ MustEmit /\ RelayMove("check", "checkEmit")
       \/ /\ ~MustEmit
          /\ \/ RelayMove("check", IF hasSerial THEN "serial" ELSE "serialWait")
             \/ conns < MaxConns /\ RelayMove("check", "force")
    /\ UNCHANGED netVars

(* emitDisconnect() of NET_checkConnected(), or NET_forceDisconnect().     *)
SerialCheckEmits == EmitDisconnect("send") /\ RelayMove("checkEmit", "wait")
SerialGivesUp == EmitDisconnect("send") /\ RelayMove("force", "wait")

RelayNext ==
    \/ RelayConnected
    \/ RelaySleeps
    \/ RelaySendStarts
    \/ RelaySendSucceeds
    \/ RelaySendFails
    \/ RelaySendReports
    \/ RelayDefersPosition
    \/ RelaySkipsUsername
    \/ SerialArrived
    \/ SerialTimeout
    \/ SerialCheck
    \/ SerialCheckEmits
    \/ SerialGivesUp

-----------------------------------------------------------------------------
(* TB *)

TbConnected ==
    /\ tbPc = "wait"
    /\ WaitConnectedReturns(TB)
    /\ tbPc' = "receive"
    /\ UNCHANGED <<relayPc, ioPc, ioSock, sendOwner, gpsThread, hasSerial, gpsFix,
                   needPosition, stops, wireVars>>

TbSleeps ==
    /\ tbPc = "wait"
    /\ WaitConnectedSleeps(TB)
    /\ UNCHANGED <<threadVars, miscVars, wireVars>>

TbReceiveStarts ==
    /\ tbPc = "receive"
    /\ ioPc[TB] = "idle"
    /\ ioPc' = [ioPc EXCEPT ![TB] = "syscall"]
    /\ ioSock' = [ioSock EXCEPT ![TB] = recvsock]
    /\ UNCHANGED <<netVars, relayPc, tbPc, sendOwner, miscVars, wireVars>>

(* Bytes arrive (what TB makes of them is in Commands).  They may complete *)
(* the answer to the request of a serial number.                           *)
TbReceives ==
    /\ ioPc[TB] = "syscall"
    /\ SockState(ioSock[TB]) \in {"up", "lost"}
    /\ ioPc' = [ioPc EXCEPT ![TB] = "idle"]
    /\ ioSock' = [ioSock EXCEPT ![TB] = SOCK_INVALID]
    /\ tbPc' \in {"receive"} \cup (IF hasSerial THEN {} ELSE {"response"})
    /\ UNCHANGED <<netVars, relayPc, sendOwner, gpsThread, hasSerial, gpsFix, needPosition,
                   stops, wireVars>>

(* serialResponse(): RELAY holds serialMutex, except in its wait.          *)
TbSerialResponse ==
    /\ tbPc = "response"
    /\ relayPc \notin {"request", "check", "checkEmit", "force"}
    /\ hasSerial' = TRUE
    /\ tbPc' = "receive"
    /\ UNCHANGED <<netVars, relayPc, ioPc, ioSock, sendOwner, gpsThread, gpsFix,
                   needPosition, stops, wireVars>>

(* recv() reports the end of the connection: SeesLoss, because the peer    *)
(* or the network says so; SeesShutdown, because RELAY has shut it down.   *)
TbReceiveFails ==
    /\ ioPc[TB] = "syscall"
    /\ ioPc' = [ioPc EXCEPT ![TB] = "emit"]
    /\ ioSock' = [ioSock EXCEPT ![TB] = SOCK_INVALID]
    /\ UNCHANGED <<netVars, relayPc, tbPc, sendOwner, miscVars, wireVars>>

TbSeesLoss == SockState(ioSock[TB]) = "lost" /\ TbReceiveFails
TbSeesShutdown == SockState(ioSock[TB]) \in {"shut", "closed"} /\ TbReceiveFails

(* The result of emitDisconnect() is ACTION_RETRY.                         *)
Retry_always == TRUE \* mutant: NET_receive() never returns 0
Retry == connState' = "connected"

(* emitDisconnect(EMIT_BY_RECV): NET_receive() tries again, or it fails    *)
(* and TB waits for a new connection.                                      *)
TbReports ==
    /\ ioPc[TB] = "emit"
    /\ EmitDisconnect("recv")
    /\ ioPc' = [ioPc EXCEPT ![TB] = "idle"]
    /\ tbPc' = IF Retry THEN "receive" ELSE "wait"
    /\ UNCHANGED <<relayPc, ioSock, sendOwner, miscVars, wireVars>>

TbNext ==
    \/ TbConnected
    \/ TbSleeps
    \/ TbReceiveStarts
    \/ TbReceives
    \/ TbSerialResponse
    \/ TbSeesLoss
    \/ TbSeesShutdown
    \/ TbReports

-----------------------------------------------------------------------------
(* GPS *)

(* GPS_setPosition(), GPS_setHasFix(): sendPositionIfAvail() sends now.    *)
GpsUpdates ==
    /\ ioPc[Gps] = "idle"
    /\ gpsFix' \in BOOLEAN
    /\ ~(needPosition /\ gpsFix')
    /\ UNCHANGED <<netVars, threadVars, gpsThread, hasSerial, needPosition, stops,
                   wireVars>>

GpsSendStarts ==
    /\ needPosition
    /\ gpsFix' = TRUE
    /\ SendStarts(Gps)
    /\ UNCHANGED <<relayPc, tbPc, gpsThread, hasSerial, needPosition, stops, wireVars>>

GpsSendSucceeds ==
    /\ SendSucceeds(Gps)
    /\ needPosition' = FALSE
    /\ UNCHANGED <<relayPc, tbPc, gpsThread, hasSerial, gpsFix, stops, wireVars>>

GpsSendFails ==
    /\ SendFails(Gps)
    /\ UNCHANGED <<relayPc, tbPc, miscVars, wireVars>>

GpsSendReports ==
    /\ SendReports(Gps)
    /\ UNCHANGED <<relayPc, tbPc, miscVars, wireVars>>

(* GPS_reset(), when TRIMBLE has a new connection to the GPS receiver: the *)
(* position is unknown, and it is not needed any more either.              *)
GpsReset ==
    /\ ioPc[Gps] = "idle"
    /\ gpsFix' = FALSE
    /\ needPosition' = FALSE
    /\ UNCHANGED <<netVars, threadVars, gpsThread, hasSerial, stops,
                   wireVars>>

GpsNext ==
    /\ gpsThread
    /\ \/ GpsUpdates
       \/ GpsReset
       \/ GpsSendStarts
       \/ GpsSendSucceeds
       \/ GpsSendFails
       \/ GpsSendReports

-----------------------------------------------------------------------------
(* Bound: the last connection lasts.                                       *)
MayLose == conns < IF gpsThread THEN GpsMaxConns ELSE MaxConns

(* COMP_stopAll() cancels RELAY and TB, then NET.  A thread that hangs at  *)
(* the NET mutex is joined after cleanupMain(); emitDisconnect() then does *)
(* nothing.                                                                *)
StopAll ==
    /\ stops < MaxStops
    /\ MayLose
    /\ CleanupMain
    /\ relayPc' = "wait"
    /\ tbPc' = "wait"
    /\ ioPc' = [t \in Threads |-> IF t = Gps THEN ioPc[Gps] ELSE "idle"]
    /\ ioSock' = [t \in Threads |-> IF t = Gps THEN ioSock[Gps] ELSE SOCK_INVALID]
    /\ sendOwner' = IF sendOwner = Relay THEN "nobody" ELSE sendOwner
    /\ stops' = stops + 1
    /\ UNCHANGED <<gpsThread, hasSerial, gpsFix, needPosition, wireVars>>

(* enable() of gplib: GPS_resetNeedFlag(), COMP_startAll().                *)
StartAll ==
    /\ MainStarts
    /\ needPosition' = FALSE
    /\ UNCHANGED <<threadVars, gpsThread, hasSerial, gpsFix, stops, wireVars>>

NetThread ==
    /\ ConnectSucceeds \/ MainWakes
    /\ UNCHANGED <<threadVars, miscVars, wireVars>>

Environment ==
    /\ ConnectFails \/ (MayLose /\ ConnectionLost)
    /\ UNCHANGED <<threadVars, miscVars, wireVars>>

Next ==
    /\ ~assertFailed
    /\ \/ NetThread
       \/ Environment
       \/ mainPc # "stopped" /\ RelayNext
       \/ mainPc # "stopped" /\ TbNext
       \/ GpsNext
       \/ StopAll
       \/ StartAll

Spec == Init /\ [][Next]_vars

(* Fairness: the scheduler runs NET, RELAY and TB; a connection attempt    *)
(* succeeds some time; RELAY sends again and again (BUF_getFrameTimeout()  *)
(* returns NULL at the latest after the timeout), so a lost connection     *)
(* makes a send fail in the end.  Nothing is assumed about data from the   *)
(* server, nor that TB sees a loss unless the socket was shut down, nor    *)
(* about the GPS thread.                                                   *)
Fairness ==
    /\ WF_vars(NetThread)
    /\ WF_vars(RelayNext)
    /\ SF_vars(RelaySendFails)
    /\ WF_vars(TbConnected \/ TbSleeps \/ TbReceiveStarts \/ TbSerialResponse)
    /\ WF_vars(TbSeesShutdown)
    /\ WF_vars(TbReports)

FairSpec == Spec /\ Fairness

-----------------------------------------------------------------------------
(* Properties *)

(* The variables of the threads have their types.                          *)
TypeOK ==
    /\ NetTypeOK
    /\ asleep \subseteq {Main, Relay, TB}
    /\ relayPc \in LoginSends \cup {"wait", "serialWait", "check", "checkEmit",
                                   "force", "stream"}
    /\ tbPc \in {"wait", "receive", "response"}
    /\ ioPc \in [Threads -> {"idle", "syscall", "emit"}]
    /\ ioSock \in [Threads -> Fds \cup {SOCK_INVALID}]
    /\ sendOwner \in Senders \cup {"nobody"}
    /\ {gpsThread, hasSerial, gpsFix, needPosition} \subseteq BOOLEAN
    /\ stops \in 0..MaxStops
    /\ loginOn \in [1..MaxConns -> SUBSET LoginMsgs]
    /\ streamedOn \subseteq 1..MaxConns

(* The assertion in emitDisconnect() holds: while disconnected, a failure  *)
(* is reported by the leader or by the follower, never by a third party.   *)
(* A second sender is such a third party, so this takes one sender.        *)
AssertionHolds == assertFailed => gpsThread

(* Nobody closes or replaces the socket RELAY is sending on: while send()  *)
(* runs, its socket is open and still sendsock, although trySend() reads   *)
(* sendsock without the mutex.                                             *)
SenderKeepsSocket ==
    ~gpsThread /\ ioPc[Relay] = "syscall" =>
        ioSock[Relay] = sendsock /\ SockState(sendsock) # "closed"

(* The same for TB and recvsock, also with a second sender: the leader     *)
(* only shuts the socket down, it is closed by the thread that sleeps in   *)
(* recv().                                                                 *)
ReceiverKeepsSocket ==
    ioPc[TB] = "syscall" =>
        ioSock[TB] = recvsock /\ SockState(recvsock) # "closed"

(* No connection leaks: every open socket is reachable through sendsock or *)
(* recvsock, apart from at most one that each COMP_stopAll() leaves behind *)
(* when it comes while leader and follower are not synchronized.           *)
NoSocketLeak ==
    Cardinality({f \in Fds : sock[f] # "closed"} \ {recvsock, sendsock}) <= stops

Open(f) == SockState(f) # "closed"
RelayWaits == relayPc = "wait" /\ ioPc[Relay] = "idle"
TbWaits == tbPc = "wait" /\ ioPc[TB] = "idle"

(* The hand-shake of leader and follower.  Synchronized: one open socket.  *)
(* Otherwise the follower still has the stale socket, which has been shut  *)
(* down so that its send() or recv() fails, the leader has the new one or  *)
(* waits for it.  While disconnected, those who know of it wait.           *)
HandShake ==
    /\ connState = "connected" =>
        /\ Open(sendsock)
        /\ Open(recvsock)
        /\ transState = "none" <=> sendsock = recvsock
    /\ transState = "send" /\ connState # "shutdown" => SockState(sendsock) = "shut"
    /\ transState = "recv" /\ connState # "shutdown" => SockState(recvsock) = "shut"
    /\ connState = "disconnected" =>
        /\ transState \in {"none", "recv"} => RelayWaits
        /\ transState \in {"none", "send"} => TbWaits
    /\ mainPc = "connecting" => connState = "disconnected"
    /\ mainPc = "online" /\ connState = "disconnected" => Main \notin asleep

(* With RELAY as the only sender, sender and receiver agree on the state   *)
(* of the connection whatever is lost, reported and restarted in between.  *)
SyncInv == TypeOK /\ (~gpsThread => HandShake)

(* "log into the network" upon "a new connection to the server" (relay.c): *)
(* a frame or a keep-alive is only sent on a connection on which the login *)
(* was sent before.                                                        *)
LoginBeforeFrames == \A c \in streamedOn : loginOn[c] = LoginMsgs

(* It is so if RELAY is the only sender, whatever happens to connections,  *)
(* to the request of the serial number and to the threads.                 *)
LoneSenderLogsIn == ~gpsThread => LoginBeforeFrames

Synchronized ==
    /\ connState = "connected"
    /\ transState = "none"
    /\ sendsock = recvsock
    /\ relayPc = "stream"

(* When connections are lost only finitely often, sender and receiver end  *)
(* up synchronized on one connection and RELAY logged in on it, unless all *)
(* was stopped for good: no order of failure reports leaves the threads    *)
(* waiting for each other.  (One sender, and its serial number is known.)  *)
Reconnects == ~gpsThread /\ hasSerial => <>[](Synchronized \/ mainPc = "stopped")
=============================================================================
