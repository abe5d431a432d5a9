------------------------------- MODULE Network ------------------------------
(***************************************************************************)
(* The connection to the OpenSky Network, core/network.c.  The NET thread  *)
(* (re)connects; senders and a receiver use the connection through the two *)
(* variables sendsock and recvsock.  Whoever sees a failure first is the   *)
(* leader: it shuts the socket down and goes for a new connection, while   *)
(* the other side, the follower, keeps the stale socket until it sees the  *)
(* failure itself.                                                         *)
(*                                                                         *)
(* This module has the state of network.c, the sockets of the operating    *)
(* system behind it, the NET thread and, as action fragments, the          *)
(* functions the other threads call.  Uplink composes it with them.        *)
(*                                                                         *)
(* Abstractions: counters and times of the statistics, host and port are   *)
(* left out.  The NET mutex is held only within one action, except by the  *)
(* NET thread, which keeps it from the moment it sees the disconnection    *)
(* until it waits again: that is mainPc = "connecting".                    *)
(***************************************************************************)
EXTENDS Naturals, FiniteSets

CONSTANTS
    Fds,       \* file descriptors the operating system can hand out
    MaxConns   \* bound: connections established in a behaviour

SOCK_INVALID == 0

ASSUME NetworkAssumption ==
    /\ Fds \subseteq Nat \ {SOCK_INVALID}
    /\ MaxConns \in Nat

VARIABLES
    connState,    \* "disconnected", "connected", "shutdown"
    transState,   \* "none", or the side that is not synchronized: "send", "recv"
    recvsock,     \* socket of the receiver
    sendsock,     \* socket of the senders
    mainPc,       \* NET thread: "connecting", "online", "stopped"
    asleep,       \* threads sleeping on the condition variable
    sock,         \* operating system: "closed", "up", "lost", "shut" per socket
    connNo,       \* number of the connection a socket was opened for
    conns,        \* number of connections established so far
    assertFailed  \* an assertion of network.c has failed: the process is dead

netVars == <<connState, transState, recvsock, sendsock, mainPc, asleep, sock,
             connNo, conns, assertFailed>>

Main == "main"

NetInit ==
    /\ connState = "disconnected"
    /\ transState = "none"
    /\ recvsock = SOCK_INVALID
    /\ sendsock = SOCK_INVALID
    /\ mainPc = "connecting"
    /\ asleep = {}
    /\ sock = [f \in Fds |-> "closed"]
    /\ connNo = [f \in Fds |-> 0]
    /\ conns = 0
    /\ assertFailed = FALSE

-----------------------------------------------------------------------------
(* Sockets.  shutdown() and close() of an invalid descriptor do nothing.   *)

SOCK_shutdown(f) ==
    [g \in Fds |-> IF g = f /\ sock[g] # "closed" THEN "shut" ELSE sock[g]]
SOCK_close(f) == [g \in Fds |-> IF g = f THEN "closed" ELSE sock[g]]
SockState(f) == IF f \in Fds THEN sock[f] ELSE "closed"

(* The connection breaks somewhere in the network.                         *)
ConnectionLost ==
    /\ conns < MaxConns
    /\ \E f \in Fds :
        /\ sock[f] = "up"
        /\ sock' = [sock EXCEPT ![f] = "lost"]
    /\ UNCHANGED <<connState, transState, recvsock, sendsock, mainPc, asleep,
                   connNo, conns, assertFailed>>

MutexFree == mainPc # "connecting"
Broadcast == asleep' = {}

-----------------------------------------------------------------------------
(* mainloop() of the NET thread *)

(* tryConnect() fails, the thread sleeps and tries again.                  *)
ConnectFails ==
    /\ mainPc = "connecting"
    /\ UNCHANGED netVars

(* tryConnect() returns socket f: tell those who know of the failure.      *)
AssignSockets_both(f) == recvsock' = f /\ sendsock' = f \* mutant: ignore transState
AssignSockets(f) ==
    /\ recvsock' = IF transState = "recv" THEN recvsock ELSE f
    /\ sendsock' = IF transState = "send" THEN sendsock ELSE f

ConnectSucceeds ==
    /\ mainPc = "connecting"
    /\ conns < MaxConns
    /\ \E f \in Fds :
        /\ sock[f] = "closed"
        /\ sock' = [sock EXCEPT ![f] = "up"]
        /\ connNo' = [connNo EXCEPT ![f] = conns + 1]
        /\ AssignSockets(f)
    /\ conns' = conns + 1
    /\ connState' = "connected"
    /\ asleep' = {Main}  \* broadcast, then wait for a failure
    /\ mainPc' = "online"
    /\ UNCHANGED <<transState, assertFailed>>

(* pthread_cond_wait() of the mainloop returns.                            *)
MainWakes ==
    /\ mainPc = "online"
    /\ Main \notin asleep
    /\ IF connState = "disconnected"
       THEN mainPc' = "connecting" /\ UNCHANGED asleep
       ELSE asleep' = asleep \cup {Main} /\ UNCHANGED mainPc
    /\ UNCHANGED <<connState, transState, recvsock, sendsock, sock, connNo,
                   conns, assertFailed>>

(* cleanupMain(): the thread is cancelled.                                 *)
CleanupMain ==
    /\ mainPc # "stopped"
    /\ LET victim == IF transState = "recv" THEN sendsock ELSE recvsock
       IN  IF connState = "connected"
           THEN /\ sock' = SOCK_close(victim)
                /\ recvsock' = IF transState = "recv" THEN recvsock ELSE SOCK_INVALID
                /\ sendsock' = IF transState = "recv" THEN SOCK_INVALID ELSE sendsock
           ELSE UNCHANGED <<sock, recvsock, sendsock>>
    /\ connState' = "shutdown"
    /\ mainPc' = "stopped"
    /\ asleep' = {}
    /\ UNCHANGED <<transState, connNo, conns, assertFailed>>

(* The thread is started again: first statements of mainloop().            *)
MainStarts ==
    /\ mainPc = "stopped"
    /\ connState' = "disconnected"
    /\ transState' = "none"
    /\ mainPc' = "connecting"
    /\ UNCHANGED <<recvsock, sendsock, asleep, sock, connNo, conns, assertFailed>>

-----------------------------------------------------------------------------
(* emitDisconnect(by), by = "send" or "recv" *)

TransitOf(by) == IF by = "recv" THEN "send" ELSE "recv"  \* enum EMIT_BY
MySock(by) == IF by = "recv" THEN recvsock ELSE sendsock
OthSock(by) == IF by = "recv" THEN sendsock ELSE recvsock
SetMySock(by, f) ==
    /\ recvsock' = IF by = "recv" THEN f ELSE recvsock
    /\ sendsock' = IF by = "send" THEN f ELSE sendsock

(* Normally connected: a new leader.  The socket stays open.               *)
BecomeLeader_closing(by) == \* mutant: the leader closes the shared socket
    /\ connState = "connected"
    /\ transState = "none"
    /\ sock' = SOCK_close(MySock(by))
    /\ SetMySock(by, SOCK_INVALID)
    /\ transState' = TransitOf(by)
    /\ connState' = "disconnected"
    /\ Broadcast
    /\ UNCHANGED <<mainPc, connNo, conns, assertFailed>>

BecomeLeader(by) ==
    /\ connState = "connected"
    /\ transState = "none"
    /\ sock' = SOCK_shutdown(MySock(by))
    /\ SetMySock(by, SOCK_INVALID)
    /\ transState' = TransitOf(by)
    /\ connState' = "disconnected"
    /\ Broadcast
    /\ UNCHANGED <<mainPc, connNo, conns, assertFailed>>

(* The leader sees the next failure before the follower sees the first.    *)
LeaderAgain_open(by) == \* mutant: as BecomeLeader(), the socket is not closed
    /\ connState = "connected"
    /\ transState = TransitOf(by)
    /\ sock' = SOCK_shutdown(MySock(by))
    /\ SetMySock(by, SOCK_INVALID)
    /\ connState' = "disconnected"
    /\ Broadcast
    /\ UNCHANGED <<transState, mainPc, connNo, conns, assertFailed>>

LeaderAgain_silent(by) == \* mutant: nobody is woken
    /\ connState = "connected"
    /\ transState = TransitOf(by)
    /\ sock' = SOCK_close(MySock(by))
    /\ SetMySock(by, SOCK_INVALID)
    /\ connState' = "disconnected"
    /\ UNCHANGED <<transState, mainPc, asleep, connNo, conns, assertFailed>>

LeaderAgain(by) ==
    /\ connState = "connected"
    /\ transState = TransitOf(by)
    /\ sock' = SOCK_close(MySock(by))
    /\ SetMySock(by, SOCK_INVALID)
    /\ connState' = "disconnected"
    /\ Broadcast
    /\ UNCHANGED <<transState, mainPc, connNo, conns, assertFailed>>

(* Already reconnected: the follower joins the leader.                     *)
FollowConnected(by) ==
    /\ connState = "connected"
    /\ transState \notin {"none", TransitOf(by)}
    /\ sock' = SOCK_close(MySock(by))
    /\ SetMySock(by, OthSock(by))
    /\ transState' = "none"
    /\ UNCHANGED <<connState, mainPc, asleep, connNo, conns, assertFailed>>

(* Not reconnected yet: the follower gives its stale socket up.            *)
FollowDisconnected(by) ==
    /\ connState = "disconnected"
    /\ transState \notin {"none", TransitOf(by)}
    /\ sock' = SOCK_close(MySock(by))
    /\ SetMySock(by, SOCK_INVALID)
    /\ transState' = "none"
    /\ UNCHANGED <<connState, mainPc, asleep, connNo, conns, assertFailed>>

(* assert(transState != TRANSIT_NONE).                                     *)
FollowAssertFails ==
    /\ connState = "disconnected"
    /\ transState = "none"
    /\ assertFailed' = TRUE
    /\ UNCHANGED <<connState, transState, recvsock, sendsock, mainPc, asleep,
                   sock, connNo, conns>>

AlreadyReported(by) ==
    /\ \/ connState = "shutdown"
       \/ connState = "disconnected" /\ transState = TransitOf(by)
    /\ UNCHANGED netVars

EmitDisconnect(by) ==
    /\ MutexFree
    /\ \/ BecomeLeader(by)
       \/ LeaderAgain(by)
       \/ FollowConnected(by)
       \/ FollowDisconnected(by)
       \/ FollowAssertFails
       \/ AlreadyReported(by)

-----------------------------------------------------------------------------
(* NET_waitConnected() of thread t: the loop finds a connection, or not.   *)
WaitConnectedReturns(t) ==
    /\ MutexFree
    /\ t \notin asleep
    /\ connState = "connected"
    /\ UNCHANGED netVars

WaitConnectedSleeps(t) ==
    /\ MutexFree
    /\ t \notin asleep
    /\ connState # "connected"
    /\ asleep' = asleep \cup {t}
    /\ UNCHANGED <<connState, transState, recvsock, sendsock, mainPc, sock,
                   connNo, conns, assertFailed>>

(* First critical section of NET_checkConnected().                         *)
MustEmit == connState # "connected" \/ transState = "send"

-----------------------------------------------------------------------------
NetTypeOK ==
    /\ connState \in {"disconnected", "connected", "shutdown"}
    /\ transState \in {"none", "send", "recv"}
    /\ recvsock \in Fds \cup {SOCK_INVALID}
    /\ sendsock \in Fds \cup {SOCK_INVALID}
    /\ mainPc \in {"connecting", "online", "stopped"}
    /\ sock \in [Fds -> {"closed", "up", "lost", "shut"}]
    /\ connNo \in [Fds -> 0..MaxConns]
    /\ conns \in 0..MaxConns
    /\ assertFailed \in BOOLEAN
=============================================================================
