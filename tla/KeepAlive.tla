----------------------------- MODULE KeepAlive -----------------------------
(***************************************************************************)
(* Whether the server is there, and how the hooked processes learn of it.  *)
(*                                                                         *)
(* The client's Recv_file() receives heart packets (and answers) into the  *)
(* global head_file; heart_handler() counts the ticks since the last one   *)
(* in head_file.count, without a lock.  When the count is '3' it closes    *)
(* the connection, sends the flag '0' to message queue 1000 and connects   *)
(* again (src/src/client/inotify.cpp).  Every open() and close() of a      *)
(* process that preloads src/src/hook/hook.c first takes a flag from the   *)
(* queue, if there is one, removes the queue, and is denied on a '0'.      *)
(* start.sh preloads the hook into the client too, so that its own calls   *)
(* take part.                                                              *)
(*                                                                         *)
(* A System V queue outlives the processes.  An identifier is useless once *)
(* its queue has been removed, also when there is a new queue of that key. *)
(***************************************************************************)
EXTENDS Integers, Sequences, FiniteSets

CONSTANTS
    Procs,      \* threads of other hooked processes, and the client's first
                \* thread while it runs tasks
    Heart,      \* the client's first thread up to thread t2(heart_handler)
                \* and that thread from there on
    Recv,       \* the thread of Recv_file()
    Offline,    \* the value of head_file.count that means "offline" ('3')
    MaxConns,   \* bound: connections of the client
    MaxStarts   \* bound: runs of the client

Threads == Procs \union {Heart, Recv}
Conns == 1 .. MaxConns
Nul == -1       \* head_file.count before the first packet

ASSUME KeepAliveAssumption ==
    /\ Heart # Recv
    /\ IsFiniteSet(Procs)
    /\ Procs \intersect {Heart, Recv} = {}
    /\ Offline \in Nat \ {0}
    /\ MaxConns \in Nat \ {0} /\ MaxStarts \in Nat \ {0}

VARIABLES
    flags,      \* the flags in queue 1000; a queue that was removed and
                \* one that is empty are told apart by msgid
    call,       \* where each thread is in recv_keep_valie() or
                \* Send_keep_alive()
    msgid,      \* is the identifier it got from msgget() still good?
    refused,    \* has it taken a '0'?
    stage,      \* where Heart is
    count,      \* head_file.count
    sign,       \* head_file.sign
    read,       \* the count that heart_handler() is about to increase
    rpc,        \* where Recv is
    rconn,      \* the connection its recv() waits on
    sockfd,     \* the connection under the number sockfd, 0 if closed
    link,       \* what becomes of each connection
    starts,     \* runs of the client
    unreset,    \* history: ticks since a 0 that Recv_file() stored in
                \* head_file.count was kept, up to Offline
    credit      \* history: '0' flags put into a queue, less calls denied

flagVars == <<flags, msgid>>
headVars == <<count, sign, read, unreset>>
recvVars == <<rpc, rconn>>
netVars  == <<sockfd, link>>
clientVars == <<stage, headVars, recvVars, netVars, starts>>
vars == <<flags, call, msgid, refused, stage, count, sign, read, rpc, rconn,
          sockfd, link, starts, unreset, credit>>

Init ==
    /\ stage = "start"
    /\ count = Nul /\ sign = "nul" /\ read = 0
    /\ unreset = 0
    /\ rpc = "off" /\ rconn = 0 /\ sockfd = 0
    /\ link = [c \in Conns |-> "none"]
    /\ flags = <<>>
    /\ call = [t \in Threads |-> IF t = Heart THEN "get" ELSE "none"]
    /\ msgid = [t \in Threads |-> FALSE]
    /\ refused = [t \in Threads |-> FALSE]
    /\ starts = 1 /\ credit = 0

Running == stage # "gone"

-----------------------------------------------------------------------------
(***************************************************************************)
(* recv_keep_valie() of the hook: msgget(), msgrcv() and msgctl(IPC_RMID)  *)
(***************************************************************************)

\* Queue 1000 is created if there is none.
Msgget(t) ==
    /\ msgid' = [msgid EXCEPT ![t] = TRUE]
    /\ UNCHANGED flags

\* Fault: the client's own thread does not look at the queue.
CheckGet_NotClient(t) ==
    /\ call[t] = "get"
    /\ IF t = Heart
       THEN /\ call' = [call EXCEPT ![t] = "checked"]
            /\ UNCHANGED flagVars
       ELSE /\ Msgget(t)
            /\ call' = [call EXCEPT ![t] = "rcv"]
    /\ UNCHANGED <<refused, clientVars, credit>>

CheckGet(t) ==
    /\ call[t] = "get"
    /\ Msgget(t)
    /\ call' = [call EXCEPT ![t] = "rcv"]
    /\ UNCHANGED <<refused, clientVars, credit>>

\* No queue of that identifier, or no flag in it: the call goes on.
CheckNone(t) ==
    /\ call[t] = "rcv"
    /\ ~msgid[t] \/ flags = <<>>
    /\ msgid' = [msgid EXCEPT ![t] = FALSE]
    /\ call' = [call EXCEPT ![t] = "checked"]
    /\ UNCHANGED <<flags, refused, clientVars, credit>>

\* Fault: a '0' is left in the queue for the other processes.
CheckRcv_Leaves(t) ==
    /\ call[t] = "rcv"
    /\ msgid[t] /\ flags # <<>>
    /\ refused' = [refused EXCEPT ![t] = Head(flags) = "0"]
    /\ flags' = IF Head(flags) = "0" THEN flags ELSE Tail(flags)
    /\ call' = [call EXCEPT ![t] = IF Head(flags) = "0" THEN "checked"
                                                      ELSE "rm"]
    /\ UNCHANGED <<msgid, clientVars, credit>>

CheckRcv(t) ==
    /\ call[t] = "rcv"
    /\ msgid[t] /\ flags # <<>>
    /\ refused' = [refused EXCEPT ![t] = Head(flags) = "0"]
    /\ flags' = Tail(flags)
    /\ call' = [call EXCEPT ![t] = "rm"]
    /\ UNCHANGED <<msgid, clientVars, credit>>

\* The whole queue goes, with the flags that came in the meantime; nobody's
\* identifier is good any more.
CheckRm(t) ==
    /\ call[t] = "rm"
    /\ IF msgid[t]
       THEN /\ flags' = <<>>
            /\ msgid' = [u \in Threads |-> FALSE]
       ELSE UNCHANGED flagVars
    /\ call' = [call EXCEPT ![t] = "checked"]
    /\ UNCHANGED <<refused, clientVars, credit>>

Check(t) == CheckGet(t) \/ CheckNone(t) \/ CheckRcv(t) \/ CheckRm(t)

\* The check is over.
Checked(t) ==
    /\ call[t] = "checked"
    /\ refused' = [refused EXCEPT ![t] = FALSE]
    /\ credit' = IF refused[t] THEN credit - 1 ELSE credit

\* A hooked process, or a task of the client, calls open() or close().
CallHooked(p) ==
    /\ p \in Procs
    /\ call[p] = "none"
    /\ call' = [call EXCEPT ![p] = "get"]
    /\ UNCHANGED <<flagVars, refused, clientVars, credit>>

-----------------------------------------------------------------------------
(***************************************************************************)
(* Send_keep_alive() of the client                                         *)
(***************************************************************************)

SendGet(t) ==
    /\ call[t] = "sget"
    /\ Msgget(t)
    /\ call' = [call EXCEPT ![t] = "sput"]
    /\ UNCHANGED <<refused, clientVars, credit>>

\* msgsnd(): the flag is lost if the queue has been removed since msgget().
Put(t, v) ==
    /\ call[t] = "sput"
    /\ flags' = IF msgid[t] THEN Append(flags, v) ELSE flags
    /\ credit' = IF msgid[t] /\ v = "0" THEN credit + 1 ELSE credit
    /\ msgid' = [msgid EXCEPT ![t] = FALSE]

-----------------------------------------------------------------------------
(***************************************************************************)
(* The client's start, and heart_handler()                                 *)
(***************************************************************************)

\* Thread t ends the client: its threads stop where they are.
Exit(t) ==
    /\ stage' = "gone"
    /\ rpc' = "off"
    /\ rconn' = 0
    /\ link' = [c \in Conns |-> IF link[c] = "none" THEN "none" ELSE "fin"]
    /\ call' = [u \in Threads |->
                   IF u \in Procs \ {t} THEN call[u] ELSE "none"]

Restart ==
    /\ ~Running
    /\ starts < MaxStarts
    /\ starts' = starts + 1
    /\ stage' = "start"
    /\ count' = Nul /\ sign' = "nul" /\ read' = 0
    /\ unreset' = 0
    /\ sockfd' = 0
    /\ call' = [call EXCEPT ![Heart] = "get"]
    /\ refused' = [t \in Threads |-> t \in Procs /\ refused[t]]
    /\ UNCHANGED <<flagVars, recvVars, link, credit>>

\* get_ip_addr() exits when open() of init.conf fails, also if it was denied.
ConfDenied ==
    /\ stage \in {"start", "conf"}
    /\ Checked(Heart) /\ refused[Heart]
    /\ Exit(Heart)
    /\ UNCHANGED <<flagVars, headVars, sockfd, starts>>

OpenConf ==
    /\ stage \in {"start", "conf"}
    /\ Checked(Heart) /\ ~refused[Heart]
    /\ stage' = IF stage = "start" THEN "start2" ELSE "conf2"
    /\ call' = [call EXCEPT ![Heart] = "get"]
    /\ UNCHANGED <<flagVars, headVars, recvVars, netVars, starts>>

\* close() of init.conf; denied, it leaks a descriptor.
CloseConf ==
    /\ stage \in {"start2", "conf2"}
    /\ Checked(Heart)
    /\ stage' = IF stage = "start2" THEN "hello" ELSE "connect2"
    /\ call' = [call EXCEPT ![Heart] = IF stage = "start2" THEN "sget"
                                                          ELSE "none"]
    /\ UNCHANGED <<flagVars, headVars, recvVars, netVars, starts>>

\* Send_keep_alive('1') of main(), before connect() has been tried.
SendHello ==
    /\ stage = "hello"
    /\ Put(Heart, "1")
    /\ stage' = "connect"
    /\ call' = [call EXCEPT ![Heart] = "none"]
    /\ UNCHANGED <<refused, headVars, recvVars, netVars, starts>>

\* The connection that connect() makes.
NewConn(c) ==
    /\ link[c] = "none"
    /\ \A d \in Conns : d < c => link[d] # "none"
    /\ link' = [link EXCEPT ![c] = "live"]

Connect(c) ==
    /\ stage = "connect"
    /\ NewConn(c)
    /\ sockfd' = c
    /\ stage' = "tick"
    /\ rpc' = "call"
    /\ UNCHANGED <<flagVars, call, refused, headVars, rconn, starts, credit>>

\* connect() fails: in main() the two threads will find keep_alive_flag 0; in
\* heart_handler() nobody tries again.  Both close the new socket first.
ConnectFails ==
    /\ stage \in {"connect", "connect2"}
    /\ stage' = IF stage = "connect" THEN "close0" ELSE "close2"
    /\ call' = [call EXCEPT ![Heart] = "get"]
    /\ UNCHANGED <<flagVars, refused, headVars, recvVars, netVars, starts,
                   credit>>

CloseFailed ==
    /\ stage \in {"close0", "close2"}
    /\ Checked(Heart)
    /\ stage' = IF stage = "close0" THEN "flag0" ELSE "spin"
    /\ call' = [call EXCEPT ![Heart] = IF stage = "close0" THEN "sget"
                                                          ELSE "none"]
    /\ UNCHANGED <<flagVars, headVars, recvVars, netVars, starts>>

\* Fault: the count goes on beyond the value that means "offline".
TickRead_Over ==
    /\ stage = "tick"
    /\ count >= 0
    /\ read' = count
    /\ stage' = "inc"
    /\ UNCHANGED <<flagVars, call, refused, count, sign, unreset,
                   recvVars, netVars, starts, credit>>

\* Every three seconds: the count is read to be increased ...
TickRead ==
    /\ stage = "tick"
    /\ count \in 0 .. Offline - 1
    /\ read' = count
    /\ stage' = "inc"
    /\ UNCHANGED <<flagVars, call, refused, count, sign, unreset,
                   recvVars, netVars, starts, credit>>

\* History: one more tick.
OneTick(n) == IF n < Offline THEN n + 1 ELSE n

\* Fault: the count stops short of the value that means "offline".
TickWrite_Stops ==
    /\ stage = "inc"
    /\ count' = IF read + 1 = Offline THEN read ELSE read + 1
    /\ read' = 0
    /\ unreset' = OneTick(unreset)
    /\ stage' = "tick"
    /\ UNCHANGED <<flagVars, call, refused, sign, recvVars, netVars, starts,
                   credit>>

\* ... and written, over what Recv_file() may have stored meanwhile.
TickWrite ==
    /\ stage = "inc"
    /\ count' = read + 1 /\ read' = 0
    /\ unreset' = OneTick(unreset)
    /\ stage' = "tick"
    /\ UNCHANGED <<flagVars, call, refused, sign, recvVars, netVars, starts,
                   credit>>

\* Fault: the server is given up one tick early.
TickOffline_Early ==
    /\ stage = "tick"
    /\ count >= Offline - 1
    /\ stage' = "close"
    /\ call' = [call EXCEPT ![Heart] = "get"]
    /\ UNCHANGED <<flagVars, refused, headVars, recvVars, netVars, starts,
                   credit>>

\* The server is taken to be offline.
TickOffline ==
    /\ stage = "tick"
    /\ count = Offline
    /\ stage' = "close"
    /\ call' = [call EXCEPT ![Heart] = "get"]
    /\ UNCHANGED <<flagVars, refused, headVars, recvVars, netVars, starts,
                   credit>>

\* close(sockfd).  A recv() that waits on the connection goes on waiting.
CloseSock ==
    /\ stage = "close"
    /\ Checked(Heart)
    /\ sockfd' = IF refused[Heart] THEN sockfd ELSE 0
    /\ stage' = "flag"
    /\ call' = [call EXCEPT ![Heart] = "sget"]
    /\ UNCHANGED <<flagVars, headVars, recvVars, link, starts>>

\* Send_keep_alive('0'), then get_ip_addr() for the new connection or, in
\* main(), no more than an idle loop.
SendOffline ==
    /\ stage \in {"flag0", "flag"}
    /\ Put(Heart, "0")
    /\ stage' = IF stage = "flag0" THEN "spin" ELSE "conf"
    /\ call' = [call EXCEPT ![Heart] = IF stage = "flag0" THEN "none"
                                                         ELSE "get"]
    /\ UNCHANGED <<refused, headVars, recvVars, netVars, starts>>

\* The new socket may or may not get the number the old one had.  Neither the
\* count nor Recv_file()'s wait is touched.
Reconnect(c) ==
    /\ stage = "connect2"
    /\ NewConn(c)
    /\ sockfd' \in IF sockfd = 0 THEN {0, c} ELSE {sockfd}
    /\ stage' = "tick"
    /\ UNCHANGED <<flagVars, call, refused, headVars, recvVars, starts,
                   credit>>

-----------------------------------------------------------------------------
(***************************************************************************)
(* Tasks of the main thread, and Recv_file()                               *)
(***************************************************************************)

\* The call was open() of init.conf in TransFile(), and is denied: the client
\* exits.  The main thread runs tasks once the two threads have been started,
\* also if the first connect() has failed and they do nothing.
TaskDenied(p) ==
    /\ p \in Procs
    /\ rpc # "off" \/ stage = "spin"
    /\ Checked(p) /\ refused[p]
    /\ Exit(p)
    /\ UNCHANGED <<flagVars, headVars, sockfd, starts>>

\* Any other call returns, denied or not; a close() that was denied leaks a
\* descriptor.
ReturnHooked(p) ==
    /\ p \in Procs
    /\ Checked(p)
    /\ call' = [call EXCEPT ![p] = "none"]
    /\ UNCHANGED <<flagVars, clientVars>>

\* recv() of whatever is under the number sockfd by now.
RecvCall ==
    /\ rpc = "call"
    /\ sockfd # 0
    /\ rconn' = sockfd
    /\ rpc' = "wait"
    /\ UNCHANGED <<flagVars, call, refused, stage, headVars, netVars, starts,
                   credit>>

\* recv() fails, since the number is not open or the peer has reset the
\* connection, and the code goes on with the packet of last time.
RecvError ==
    /\ \/ rpc = "call" /\ sockfd = 0 /\ UNCHANGED link
       \/ /\ rpc = "wait" /\ link[rconn] = "reset"
          /\ link' = [link EXCEPT ![rconn] = "fin"]
    /\ rpc' = "got" /\ rconn' = 0
    /\ UNCHANGED <<flagVars, call, refused, stage, headVars, sockfd, starts,
                   credit>>

\* A heart packet ('4') or an answer ('1') fills head_file, count included.
RecvPacket ==
    /\ rpc = "wait"
    /\ link[rconn] = "live"
    /\ sign' \in {"4", "1"}
    /\ count' = 0
    /\ rpc' = "got" /\ rconn' = 0
    /\ unreset' = IF stage = "inc" THEN unreset ELSE 0
    /\ UNCHANGED <<flagVars, call, refused, stage, read, netVars, starts,
                   credit>>

\* A heart packet resets the count once more; anything else is a file to
\* write, the subject of Transfer.
RecvHandle ==
    /\ rpc = "got"
    /\ IF sign = "4"
       THEN /\ count' = 0
            /\ unreset' = IF stage = "inc" THEN unreset ELSE 0
       ELSE UNCHANGED <<count, unreset>>
    /\ rpc' = "call"
    /\ UNCHANGED <<flagVars, call, refused, stage, sign, read, rconn,
                   netVars, starts, credit>>

\* Fault: a connection that the server has closed is read again.
RecvClosed_Again ==
    /\ rpc = "wait"
    /\ link[rconn] = "fin"
    /\ rpc' = "call" /\ rconn' = 0
    /\ UNCHANGED <<flagVars, call, refused, stage, headVars, netVars, starts,
                   credit>>

\* The server has closed the connection: Send_keep_alive('0') ...
RecvClosed ==
    /\ rpc = "wait"
    /\ link[rconn] = "fin"
    /\ rpc' = "flag" /\ rconn' = 0
    /\ call' = [call EXCEPT ![Recv] = "sget"]
    /\ UNCHANGED <<flagVars, refused, stage, headVars, netVars, starts,
                   credit>>

RecvFlag ==
    /\ rpc = "flag"
    /\ Put(Recv, "0")
    /\ rpc' = "exit"
    /\ call' = [call EXCEPT ![Recv] = "none"]
    /\ UNCHANGED <<refused, stage, headVars, rconn, netVars, starts>>

\* ... and exit(-1); until then the other threads go on.
RecvExit ==
    /\ rpc = "exit"
    /\ Exit(Recv)
    /\ UNCHANGED <<flagVars, refused, headVars, sockfd, starts, credit>>

-----------------------------------------------------------------------------
(***************************************************************************)
(* The server and the network                                              *)
(***************************************************************************)

\* The server closes or resets a connection that the client still looks at.
\* A server that hangs sends no more packets.
LinkChanges(c) ==
    /\ link[c] = "live" /\ c \in {sockfd, rconn}
    /\ \E s \in {"fin", "reset"} : link' = [link EXCEPT ![c] = s]
    /\ UNCHANGED <<flagVars, call, refused, stage, headVars, recvVars,
                   sockfd, starts, credit>>

HeartStep ==
    \/ Check(Heart) \/ SendGet(Heart)
    \/ ConfDenied \/ OpenConf \/ CloseConf \/ SendHello
    \/ \E c \in Conns : Connect(c) \/ Reconnect(c)
    \/ ConnectFails \/ CloseFailed
    \/ TickRead \/ TickWrite \/ TickOffline \/ CloseSock \/ SendOffline

RecvStep ==
    \/ SendGet(Recv) \/ RecvCall \/ RecvError \/ RecvHandle \/ RecvClosed
    \/ RecvFlag \/ RecvExit

Next ==
    \/ Restart
    \/ HeartStep \/ RecvStep \/ RecvPacket
    \/ \E p \in Procs :
          CallHooked(p) \/ Check(p) \/ TaskDenied(p) \/ ReturnHooked(p)
    \/ \E c \in Conns : LinkChanges(c)

Spec == Init /\ [][Next]_vars

\* The client's two threads run.  A packet may never come, and nothing is
\* assumed of the server, of other processes, or of anybody starting the
\* client again.
FairSpec == Spec /\ WF_vars(HeartStep) /\ WF_vars(RecvStep)

-----------------------------------------------------------------------------
(***************************************************************************)
(* Properties                                                              *)
(***************************************************************************)

TypeOK ==
    /\ flags \in Seq({"0", "1"})
    /\ call \in [Threads -> {"none", "get", "rcv", "rm", "checked", "sget",
                             "sput"}]
    /\ msgid \in [Threads -> BOOLEAN]
    /\ refused \in [Threads -> BOOLEAN]
    /\ stage \in {"start", "start2", "hello", "connect", "close0", "flag0",
                  "tick", "inc", "close", "flag", "conf", "conf2", "connect2",
                  "close2", "spin", "gone"}
    /\ count \in Nul .. Offline
    /\ sign \in {"nul", "4", "1"}
    /\ read \in 0 .. Offline - 1
    /\ rpc \in {"off", "call", "wait", "got", "flag", "exit"}
    /\ rconn \in 0 .. MaxConns /\ sockfd \in 0 .. MaxConns
    /\ link \in [Conns -> {"none", "live", "reset", "fin"}]
    /\ starts \in 1 .. MaxStarts
    /\ unreset \in 0 .. Offline
    /\ credit \in Int

(***************************************************************************)
(* heart_handler() declares the server offline only if every 0 that        *)
(* Recv_file() stored in head_file.count during the last Offline ticks     *)
(* fell between its own reading and writing of the count.  (A server whose *)
(* packets all come at such moments is given up though it is not silent,   *)
(* whatever the comment at inotify.cpp:11 says.)                           *)
(***************************************************************************)
OfflineMeansNoReset ==
    [][stage = "tick" /\ stage' = "close" => unreset = Offline]_vars

\* '0' flags that may still deny a call: waiting, or taken by a check.
Undecided ==
    Cardinality({i \in 1 .. Len(flags) : flags[i] = "0"})
    + Cardinality({t \in Threads : refused[t]})

(***************************************************************************)
(* A flag is used once: there are no more denied calls than '0' flags were *)
(* put into queue 1000, whoever takes and removes them at the same time.   *)
(***************************************************************************)
FlagUsedOnce == Undecided <= credit

(***************************************************************************)
(* No stale refusal: while heart_handler() watches a connection, no '0'    *)
(* waits in queue 1000 to refuse the next call, neither from a connection  *)
(* given up before nor from an earlier run of the client, unless           *)
(* Recv_file() has put one there and is about to end the client.  (That    *)
(* one may be about an old connection, while the new one is watched.)      *)
(* This depends on the client being preloaded: its own calls clear the     *)
(* queue.                                                                  *)
(***************************************************************************)
NoStaleOffline ==
    stage \in {"tick", "inc"} /\ rpc # "exit" =>
        \A i \in 1 .. Len(flags) : flags[i] # "0"

(***************************************************************************)
(* Silence is noticed: once a first packet has come, either another one    *)
(* comes or heart_handler() declares the server offline.  Two cases are    *)
(* left out.  Before the first packet head_file.count is 0, not '0', and   *)
(* is never increased.  And when the number sockfd is no longer open, each *)
(* failing recv() is handled as if the last packet had come again.         *)
(***************************************************************************)
SilenceNoticed ==
    (stage = "tick" /\ count # Nul /\ sockfd # 0)
        ~> (rpc = "got" \/ stage = "close" \/ ~Running)

(***************************************************************************)
(* A connection that the server closes or resets while Recv_file() waits   *)
(* on it ends the client, if heart_handler() has not given it up.          *)
(***************************************************************************)
CloseNoticed ==
    (stage \in {"tick", "inc"} /\ rpc = "wait" /\ rconn = sockfd
     /\ link[rconn] \in {"reset", "fin"})
        ~> (~Running \/ stage \notin {"tick", "inc"})
=============================================================================
