-------------------------- MODULE KeepAliveProofs --------------------------
(***************************************************************************)
(* Proofs about KeepAlive, for any finite set of hooked threads, any value *)
(* of head_file.count that means "offline", and any number of connections  *)
(* and of runs of the client.                                              *)
(*                                                                         *)
(* TypeOK is inductive by itself.  ResetInv bounds head_file.count by the  *)
(* ticks since a 0 was kept in it, also while heart_handler() is about to  *)
(* write a value it read before.  CleanInv follows the '0' flags through   *)
(* the life of the client: they are gone once its own open() of init.conf  *)
(* has been let through, and come back only when Recv_file() is to exit.   *)
(***************************************************************************)
EXTENDS KeepAlive, FiniteSetTheorems, SequenceTheorems, TLAPS

ResetInv ==
    /\ count <= unreset
    /\ stage = "inc" => read <= unreset

\* Stages after an open() of init.conf and before a flag '0'.
CleanStages == {"start2", "hello", "connect", "close0", "flag0", "tick",
                "inc", "close", "flag", "conf2", "connect2", "close2"}

\* Recv_file() is started when main() has connected, and ends with the client.
StartInv ==
    stage \in {"start", "start2", "hello", "connect", "gone"} => rpc = "off"

CleanInv ==
    rpc # "exit" =>
        /\ stage \in CleanStages =>
              \A i \in 1 .. Len(flags) : flags[i] # "0"
        /\ stage \in {"start", "conf"} =>
              /\ call[Heart] = "checked" => flags = <<>>
              /\ call[Heart] \in {"rcv", "rm"} /\ ~msgid[Heart] => flags = <<>>

-----------------------------------------------------------------------------
(***************************************************************************)
(* Types                                                                   *)
(***************************************************************************)

\* The initial state has the right types.
LEMMA TypeInit == Init => TypeOK
<1> SUFFICES ASSUME Init PROVE TypeOK
  OBVIOUS
<1>1. msgid \in [Threads -> BOOLEAN] /\ refused \in [Threads -> BOOLEAN]
  BY Zenon DEF Init
<1>2. flags \in Seq({"0", "1"})
  BY EmptySeq DEF Init
<1> QED
  BY <1>1, <1>2, KeepAliveAssumption DEF Init, TypeOK, Nul

\* The steps of the hook's check and of Send_keep_alive().
LEMMA TypeShared ==
    ASSUME TypeOK, NEW t \in Threads,
           CallHooked(t) \/ Check(t) \/ SendGet(t)
    PROVE  TypeOK'
<1> USE KeepAliveAssumption
    DEF TypeOK, Nul, Threads, Msgget, flagVars, headVars, recvVars, netVars,
        clientVars
<1>1. CASE CallHooked(t)
  BY <1>1 DEF CallHooked
<1>2. CASE CheckGet(t)
  BY <1>2 DEF CheckGet
<1>3. CASE CheckNone(t)
  BY <1>3 DEF CheckNone
<1>4. CASE CheckRcv(t)
  <2>1. flags' \in Seq({"0", "1"})
    BY <1>4, HeadTailProperties DEF CheckRcv
  <2>2. refused' \in [Threads -> BOOLEAN]
    <3>1. refused' = [refused EXCEPT ![t] = (Head(flags) = "0")]
      BY <1>4 DEF CheckRcv
    <3> QED
      BY <3>1
  <2> QED
    BY <1>4, <2>1, <2>2 DEF CheckRcv
<1>5. CASE CheckRm(t)
  <2>1. msgid' \in [Threads -> BOOLEAN]
    <3>1. ASSUME msgid' = [u \in Threads |-> FALSE]
          PROVE  msgid' \in [Threads -> BOOLEAN]
      BY <3>1, Zenon
    <3> QED
      BY <1>5, <3>1 DEF CheckRm
  <2>2. flags' \in Seq({"0", "1"})
    <3>1. flags' = flags \/ flags' = <<>>
      BY <1>5, Zenon DEF CheckRm, flagVars
    <3> QED
      BY <3>1, EmptySeq
  <2>3. /\ call' = [call EXCEPT ![t] = "checked"]
        /\ UNCHANGED <<refused, clientVars, credit>>
    BY <1>5 DEF CheckRm
  <2> QED
    BY <2>1, <2>2, <2>3
<1>6. CASE SendGet(t)
  BY <1>6 DEF SendGet
<1> QED
  BY <1>1, <1>2, <1>3, <1>4, <1>5, <1>6 DEF Check

\* The end of a check.
LEMMA TypeChecked ==
    ASSUME TypeOK, NEW t \in Threads, Checked(t)
    PROVE  refused' \in [Threads -> BOOLEAN] /\ credit' \in Int
<1>1. refused' \in [Threads -> BOOLEAN]
  BY Zenon DEF TypeOK, Checked
<1> QED
  BY <1>1 DEF TypeOK, Checked

\* The steps of the client's first thread and of heart_handler().
LEMMA TypeHeart ==
    ASSUME TypeOK,
           \/ ConfDenied \/ OpenConf \/ CloseConf \/ SendHello
           \/ \E c \in Conns : Connect(c) \/ Reconnect(c)
           \/ ConnectFails \/ CloseFailed
           \/ TickRead \/ TickWrite \/ TickOffline \/ CloseSock
           \/ SendOffline
    PROVE  TypeOK'
<1> USE KeepAliveAssumption
    DEF TypeOK, Nul, Threads, Conns, Checked, flagVars, headVars, recvVars,
        netVars, clientVars
<1>1. CASE ConfDenied
  BY <1>1 DEF ConfDenied, Exit
<1>2. CASE OpenConf \/ CloseConf \/ CloseFailed
  <2>1. refused' \in [Threads -> BOOLEAN] /\ credit' \in Int
    BY <1>2, TypeChecked DEF OpenConf, CloseConf, CloseFailed
  <2> HIDE DEF Checked
  <2> QED
    BY <1>2, <2>1 DEF OpenConf, CloseConf, CloseFailed
<1>3. CASE SendHello \/ SendOffline
  <2>1. ASSUME NEW v \in {"0", "1"}, Put(Heart, v)
        PROVE  /\ flags' \in Seq({"0", "1"})
               /\ msgid' \in [Threads -> BOOLEAN]
               /\ credit' \in Int
    BY <2>1, AppendProperties DEF Put
  <2> QED
    BY <1>3, <2>1 DEF SendHello, SendOffline
<1>4. ASSUME NEW c \in Conns, Connect(c) \/ Reconnect(c) PROVE TypeOK'
  <2>1. link' \in [Conns -> {"none", "live", "reset", "fin"}]
    BY <1>4 DEF Connect, Reconnect, NewConn
  <2>2. CASE Connect(c)
    BY <2>1, <2>2 DEF Connect
  <2>3. CASE Reconnect(c)
    BY <2>1, <2>3 DEF Reconnect
  <2> QED
    BY <1>4, <2>2, <2>3
<1>5. CASE ConnectFails
  BY <1>5 DEF ConnectFails
<1>6. CASE TickRead \/ TickWrite \/ TickOffline
  <2>1. CASE TickRead
    BY <2>1 DEF TickRead
  <2>2. CASE TickWrite
    <3>1. \A n \in 0 .. Offline : OneTick(n) \in 0 .. Offline
      BY DEF OneTick
    <3>2. /\ count' \in Nul .. Offline /\ read' \in 0 .. Offline - 1
          /\ unreset' \in 0 .. Offline
      BY <2>2, <3>1 DEF TickWrite
    <3>3. /\ stage' = "tick"
          /\ UNCHANGED <<flags, call, msgid, refused, sign, rpc, rconn,
                         sockfd, link, starts, credit>>
      BY <2>2 DEF TickWrite
    <3> QED
      BY <3>2, <3>3
  <2>3. CASE TickOffline
    BY <2>3 DEF TickOffline
  <2> QED
    BY <1>6, <2>1, <2>2, <2>3
<1>7. CASE CloseSock
  BY <1>7 DEF CloseSock
<1> QED
  BY <1>1, <1>2, <1>3, <1>4, <1>5, <1>6, <1>7

\* The other steps.
LEMMA TypeOther ==
    ASSUME TypeOK,
           \/ Restart \/ RecvCall \/ RecvError \/ RecvHandle \/ RecvClosed
           \/ RecvFlag \/ RecvExit \/ RecvPacket
           \/ \E p \in Procs : TaskDenied(p) \/ ReturnHooked(p)
           \/ \E c \in Conns : LinkChanges(c)
    PROVE  TypeOK'
<1> USE KeepAliveAssumption
    DEF TypeOK, Nul, Threads, Conns, Checked, flagVars, headVars, recvVars,
        netVars, clientVars
<1>1. CASE Restart
  BY <1>1 DEF Restart, Running
<1>2. CASE RecvCall \/ RecvError
  <2>1. CASE RecvCall
    BY <2>1 DEF RecvCall
  <2>2. CASE RecvError
    <3>1. link' \in [Conns -> {"none", "live", "reset", "fin"}]
      BY <2>2 DEF RecvError
    <3> QED
      BY <2>2, <3>1 DEF RecvError
  <2> QED
    BY <1>2, <2>1, <2>2
<1>3. CASE RecvHandle \/ RecvPacket
  <2>1. CASE RecvHandle
    BY <2>1 DEF RecvHandle
  <2>2. CASE RecvPacket
    BY <2>2 DEF RecvPacket
  <2> QED
    BY <1>3, <2>1, <2>2
<1>4. CASE RecvClosed
  BY <1>4 DEF RecvClosed
<1>5. CASE RecvFlag \/ RecvExit
  <2>1. CASE RecvFlag
    <3>1. /\ flags' \in Seq({"0", "1"})
          /\ msgid' \in [Threads -> BOOLEAN]
          /\ credit' \in Int
      BY <2>1, AppendProperties DEF RecvFlag, Put
    <3> QED
      BY <2>1, <3>1 DEF RecvFlag
  <2>2. CASE RecvExit
    BY <2>2 DEF RecvExit, Exit
  <2> QED
    BY <1>5, <2>1, <2>2
<1>6. ASSUME NEW p \in Procs, TaskDenied(p) \/ ReturnHooked(p)
      PROVE  TypeOK'
  <2>1. refused' \in [Threads -> BOOLEAN] /\ credit' \in Int
    BY <1>6, TypeChecked DEF TaskDenied, ReturnHooked
  <2> HIDE DEF Checked
  <2>2. CASE TaskDenied(p)
    BY <2>1, <2>2 DEF TaskDenied, Exit
  <2>3. CASE ReturnHooked(p)
    BY <2>1, <2>3 DEF ReturnHooked
  <2> QED
    BY <1>6, <2>2, <2>3
<1>7. ASSUME NEW c \in Conns, LinkChanges(c) PROVE TypeOK'
  BY <1>7 DEF LinkChanges
<1> QED
  BY <1>1, <1>2, <1>3, <1>4, <1>5, <1>6, <1>7

\* Every step preserves TypeOK.
LEMMA TypeStep == TypeOK /\ [Next]_vars => TypeOK'
<1> SUFFICES ASSUME TypeOK, [Next]_vars PROVE TypeOK'
  OBVIOUS
<1>1. CASE UNCHANGED vars
  BY <1>1 DEF vars, TypeOK
<1>2. Heart \in Threads /\ Recv \in Threads /\ Procs \subseteq Threads
  BY DEF Threads
<1> QED
  BY <1>1, <1>2, TypeShared, TypeHeart, TypeOther
  DEF Next, HeartStep, RecvStep

(***************************************************************************)
(* Type correctness: in particular head_file.count, which two threads      *)
(* write without a lock, never passes the value that means "offline".      *)
(***************************************************************************)
THEOREM TypeCorrect == Spec => []TypeOK
  BY TypeInit, TypeStep, PTL DEF Spec

-----------------------------------------------------------------------------
(***************************************************************************)
(* Ticks before "offline"                                                  *)
(***************************************************************************)

\* A kept 0 resets both the count and unreset; a tick adds one to both.
LEMMA ResetStep ==
    ASSUME TypeOK, ResetInv, [Next]_vars
    PROVE  ResetInv'
<1> USE DEF TypeOK, ResetInv, headVars, clientVars, Nul
<1>1. ASSUME NEW t \in Threads,
             CallHooked(t) \/ Check(t) \/ SendGet(t)
      PROVE  ResetInv'
  BY <1>1 DEF CallHooked, Check, CheckGet, CheckNone, CheckRcv, CheckRm,
              SendGet
<1>2. CASE HeartStep
  <2>1. CASE TickRead \/ TickWrite
    BY <2>1, KeepAliveAssumption DEF TickRead, TickWrite, OneTick
  <2>2. Heart \in Threads
    BY DEF Threads
  <2> QED
    BY <1>1, <1>2, <2>1, <2>2
    DEF HeartStep, ConfDenied, OpenConf, CloseConf, SendHello, Connect,
        Reconnect, ConnectFails, CloseFailed, TickOffline, CloseSock,
        SendOffline, Exit
<1>3. CASE RecvStep \/ RecvPacket
  <2>1. Recv \in Threads
    BY DEF Threads
  <2> QED
    BY <1>1, <1>3, <2>1
    DEF RecvStep, RecvPacket, RecvCall, RecvError, RecvHandle, RecvClosed,
        RecvFlag, RecvExit, Exit
<1>4. CASE Restart
  BY <1>4 DEF Restart
<1>5. ASSUME NEW p \in Procs, TaskDenied(p) \/ ReturnHooked(p)
      PROVE  ResetInv'
  BY <1>5 DEF TaskDenied, ReturnHooked, Exit
<1>6. ASSUME NEW c \in Conns, LinkChanges(c) PROVE ResetInv'
  BY <1>6 DEF LinkChanges
<1>7. CASE UNCHANGED vars
  BY <1>7 DEF vars
<1>8. Procs \subseteq Threads
  BY DEF Threads
<1> QED
  BY <1>1, <1>2, <1>3, <1>4, <1>5, <1>6, <1>7, <1>8 DEF Next

\* heart_handler() gives the server up only in TickOffline.
LEMMA OfflineStep ==
    ASSUME TypeOK, ResetInv, [Next]_vars, stage = "tick", stage' = "close"
    PROVE  unreset = Offline
<1> USE DEF clientVars
<1>1. CASE TickOffline
  BY <1>1, KeepAliveAssumption DEF TickOffline, TypeOK, ResetInv, Nul
<1>2. CASE HeartStep
  BY <1>1, <1>2
  DEF HeartStep, Check, CheckGet, CheckNone, CheckRcv, CheckRm, SendGet,
      ConfDenied, OpenConf, CloseConf, SendHello, Connect, Reconnect,
      ConnectFails, CloseFailed, TickRead, TickWrite, CloseSock,
      SendOffline
<1>3. CASE RecvStep \/ RecvPacket \/ Restart
  BY <1>3
  DEF RecvStep, SendGet, RecvPacket, RecvCall, RecvError, RecvHandle,
      RecvClosed, RecvFlag, RecvExit, Exit, Restart, Running
<1>4. ASSUME NEW p \in Procs,
             CallHooked(p) \/ Check(p) \/ TaskDenied(p) \/ ReturnHooked(p)
      PROVE  FALSE
  BY <1>4
  DEF CallHooked, Check, CheckGet, CheckNone, CheckRcv, CheckRm,
      TaskDenied, ReturnHooked, Exit
<1>5. ASSUME NEW c \in Conns, LinkChanges(c) PROVE FALSE
  BY <1>5 DEF LinkChanges
<1>6. CASE UNCHANGED vars
  BY <1>6 DEF vars
<1> QED
  BY <1>2, <1>3, <1>4, <1>5, <1>6 DEF Next

(***************************************************************************)
(* heart_handler() declares the server offline only after as many ticks as *)
(* the code says since a 0 stored by Recv_file() was kept: what a packet   *)
(* stores is lost only between the two steps of an increment.              *)
(***************************************************************************)
THEOREM OfflineOnlyIfNoReset == Spec => OfflineMeansNoReset
<1>1. Init => ResetInv
  BY DEF Init, ResetInv, Nul
<1>2. TypeOK /\ ResetInv /\ [Next]_vars =>
          (stage = "tick" /\ stage' = "close" => unreset = Offline)
  BY OfflineStep
<1> QED
  BY <1>1, <1>2, TypeInit, TypeStep, ResetStep, PTL
  DEF Spec, OfflineMeansNoReset

-----------------------------------------------------------------------------
(***************************************************************************)
(* No stale refusal                                                        *)
(***************************************************************************)

\* A check takes flags away, and leaves Heart's call alone if it is not its
\* own.  When Heart's is over, nothing waits in the queue.
LEMMA CleanShared ==
    ASSUME TypeOK, CleanInv, NEW t \in Threads,
           CallHooked(t) \/ Check(t) \/ SendGet(t)
    PROVE  CleanInv'
<1> USE KeepAliveAssumption
    DEF TypeOK, CleanInv, Threads, Msgget, flagVars, recvVars, clientVars
<1>0. SUFFICES ASSUME rpc # "exit" PROVE CleanInv'
  <2>1. rpc' = rpc
    BY DEF CallHooked, Check, CheckGet, CheckNone, CheckRcv, CheckRm, SendGet
  <2> QED
    BY <2>1
<1>1. CASE CallHooked(t)
  BY <1>0, <1>1 DEF CallHooked
<1>2. CASE CheckGet(t)
  BY <1>0, <1>2 DEF CheckGet
<1>3. CASE CheckNone(t)
  BY <1>0, <1>3 DEF CheckNone
<1>4. CASE CheckRcv(t)
  <2>1. /\ \A i \in 1 .. Len(flags') : flags'[i] = flags[i + 1]
        /\ Len(flags') = Len(flags) - 1 /\ Len(flags) \in Nat
    BY <1>4, HeadTailProperties, LenProperties DEF CheckRcv
  <2>2. stage' \in CleanStages =>
            \A i \in 1 .. Len(flags') : flags'[i] # "0"
    BY <1>0, <1>4, <2>1 DEF CheckRcv
  <2>3. /\ call' = [call EXCEPT ![t] = "rm"]
        /\ msgid' = msgid /\ msgid[t] /\ call[t] = "rcv"
        /\ stage' = stage
        /\ flags = <<>> => FALSE
    BY <1>4 DEF CheckRcv
  <2> QED
    BY <1>0, <2>2, <2>3
<1>5. CASE CheckRm(t)
  <2>1. CASE flags' = <<>>
    <3>1. Len(flags') = 0
      BY <2>1
    <3> QED
      BY <2>1, <3>1
  <2>2. CASE flags' # <<>>
    <3>1. /\ ~msgid[t] /\ UNCHANGED <<flags, msgid, stage>>
          /\ call[t] = "rm" /\ call' = [call EXCEPT ![t] = "checked"]
      <4>1. ~msgid[t]
        BY <1>5, <2>2, Zenon DEF CheckRm
      <4> QED
        BY <1>5, <4>1 DEF CheckRm
    <3> QED
      BY <1>0, <3>1
  <2> QED
    BY <2>1, <2>2
<1>6. CASE SendGet(t)
  BY <1>0, <1>6 DEF SendGet
<1> QED
  BY <1>1, <1>2, <1>3, <1>4, <1>5, <1>6 DEF Check

\* Every step preserves StartInv.
LEMMA StartStep ==
    ASSUME StartInv, [Next]_vars
    PROVE  StartInv'
<1> USE DEF StartInv, clientVars, recvVars, headVars, netVars
<1>1. ASSUME NEW t \in Threads, Check(t) \/ SendGet(t) \/ CallHooked(t)
      PROVE  StartInv'
  BY <1>1
  DEF Check, CheckGet, CheckNone, CheckRcv, CheckRm, SendGet, CallHooked
<1>2. CASE \/ ConfDenied \/ OpenConf \/ CloseConf \/ SendHello
           \/ \E c \in Conns : Connect(c) \/ Reconnect(c)
           \/ ConnectFails \/ CloseFailed \/ TickRead \/ TickWrite
           \/ TickOffline \/ CloseSock \/ SendOffline
  BY <1>2
  DEF ConfDenied, OpenConf, CloseConf, SendHello, Connect, Reconnect,
      ConnectFails, CloseFailed, TickRead, TickWrite, TickOffline, CloseSock,
      SendOffline, Exit
<1>3. CASE \/ RecvCall \/ RecvError \/ RecvHandle \/ RecvClosed
           \/ RecvFlag \/ RecvExit \/ RecvPacket
  BY <1>3
  DEF RecvCall, RecvError, RecvPacket, RecvHandle, RecvClosed, RecvFlag,
      RecvExit, Exit
<1>4. CASE \/ Restart \/ UNCHANGED vars
           \/ \E p \in Procs : TaskDenied(p) \/ ReturnHooked(p)
           \/ \E c \in Conns : LinkChanges(c)
  BY <1>4 DEF Restart, Running, TaskDenied, ReturnHooked, LinkChanges, Exit,
              vars
<1> QED
  BY <1>1, <1>2, <1>3, <1>4 DEF Next, HeartStep, RecvStep, Threads

\* Every step preserves CleanInv.
LEMMA CleanStep ==
    ASSUME TypeOK, StartInv, CleanInv, [Next]_vars
    PROVE  CleanInv'
<1> USE KeepAliveAssumption
    DEF TypeOK, CleanInv, CleanStages, Threads, flagVars, headVars, recvVars,
        netVars, clientVars
<1>0. SUFFICES ASSUME rpc # "exit" PROVE CleanInv'
  <2> HIDE DEF TypeOK, CleanInv, Threads
  <2>1. ASSUME NEW t \in Threads, Check(t) \/ SendGet(t) \/ CallHooked(t)
        PROVE  rpc' = rpc
    BY <2>1
    DEF Check, CheckGet, CheckNone, CheckRcv, CheckRm, SendGet, CallHooked
  <2>2. rpc = "exit" /\ HeartStep => rpc' = rpc \/ stage' = "gone"
    <3>1. \/ ConfDenied \/ OpenConf \/ CloseConf \/ SendHello
          \/ \E c \in Conns : Reconnect(c)
          \/ ConnectFails \/ CloseFailed
          \/ TickRead \/ TickWrite \/ TickOffline \/ CloseSock
          \/ SendOffline
          => rpc' = rpc \/ stage' = "gone"
      BY DEF ConfDenied, OpenConf, CloseConf, SendHello, Reconnect,
             ConnectFails, CloseFailed, TickRead, TickWrite, TickOffline,
             CloseSock, SendOffline, Exit
    <3>2. \A c \in Conns : Connect(c) => rpc # "exit"
      BY DEF Connect, StartInv
    <3> QED
      BY <2>1, <3>1, <3>2 DEF HeartStep, Threads
  <2>3. /\ rpc = "exit" /\ (RecvStep \/ RecvPacket) =>
              rpc' = rpc \/ stage' = "gone"
        /\ \A p \in Procs : TaskDenied(p) => stage' = "gone"
        /\ \A p \in Procs : ReturnHooked(p) => rpc' = rpc
        /\ Restart \/ (\E c \in Conns : LinkChanges(c)) => rpc' = rpc
        /\ UNCHANGED vars => rpc' = rpc
    BY DEF RecvStep, SendGet, RecvCall, RecvError, RecvPacket, RecvHandle,
           RecvClosed, RecvFlag, RecvExit, Exit, TaskDenied, ReturnHooked,
           LinkChanges, Restart, vars
  <2>4. rpc = "exit" => rpc' = "exit" \/ stage' = "gone"
    BY <2>1, <2>2, <2>3 DEF Next, Threads
  <2>5. rpc = "exit" => CleanInv'
    BY <2>4 DEF CleanInv
  <2> QED
    BY <2>5
<1>1. CASE Restart
  BY <1>1 DEF Restart
<1>2. CASE ConfDenied
  BY <1>2 DEF ConfDenied, Exit
<1>3. CASE OpenConf
  <2>1. stage' \in {"start2", "conf2"} /\ flags = <<>> /\ flags' = flags
    BY <1>0, <1>3 DEF OpenConf, Checked
  <2>2. Len(flags') = 0
    BY <2>1
  <2> QED
    BY <2>1, <2>2
<1>4. CASE CloseConf \/ CloseFailed
  BY <1>0, <1>4 DEF CloseConf, CloseFailed
<1>5. CASE SendHello
  <2>1. /\ flags' = flags \/ flags' = Append(flags, "1")
        /\ stage = "hello" /\ stage' = "connect"
    BY <1>5 DEF SendHello, Put
  <2>2. \A i \in 1 .. Len(flags') : flags'[i] # "0"
    <3>1. CASE flags' = Append(flags, "1")
      <4>1. /\ Len(flags') = Len(flags) + 1 /\ Len(flags) \in Nat
            /\ \A i \in 1 .. Len(flags) : flags'[i] = flags[i]
            /\ flags'[Len(flags) + 1] = "1"
        BY <3>1, AppendProperties, LenProperties
      <4> QED
        BY <1>0, <2>1, <4>1
    <3> QED
      BY <1>0, <2>1, <3>1
  <2> QED
    BY <1>0, <2>1, <2>2
<1>6. ASSUME NEW c \in Conns, Connect(c) \/ Reconnect(c) PROVE CleanInv'
  BY <1>0, <1>6 DEF Connect, Reconnect
<1>7. CASE ConnectFails \/ TickRead \/ TickWrite \/ TickOffline \/ CloseSock
  BY <1>0, <1>7 DEF ConnectFails, TickRead, TickWrite, TickOffline, CloseSock
<1>8. CASE SendOffline
  <2>1. /\ stage' = "spin" \/ (stage' = "conf" /\ call'[Heart] = "get")
    BY <1>8 DEF SendOffline
  <2> QED
    BY <2>1
<1>9. CASE RecvCall \/ RecvError \/ RecvHandle \/ RecvPacket
  BY <1>0, <1>9 DEF RecvCall, RecvError, RecvHandle, RecvPacket
<1>10. CASE RecvClosed
  BY <1>0, <1>10 DEF RecvClosed
<1>11. CASE RecvFlag \/ RecvExit
  <2>1. rpc' = "exit" \/ stage' = "gone"
    BY <1>11 DEF RecvFlag, RecvExit, Exit
  <2> QED
    BY <2>1
<1>12. ASSUME NEW p \in Procs, TaskDenied(p) PROVE CleanInv'
  <2>1. stage' = "gone"
    BY <1>12 DEF TaskDenied, Exit
  <2> QED
    BY <2>1
<1>13. ASSUME NEW p \in Procs, ReturnHooked(p) PROVE CleanInv'
  BY <1>0, <1>13 DEF ReturnHooked
<1>14. ASSUME NEW c \in Conns, LinkChanges(c) PROVE CleanInv'
  BY <1>0, <1>14 DEF LinkChanges
<1>15. CASE UNCHANGED vars
  BY <1>0, <1>15 DEF vars
<1>16. /\ Heart \in Threads /\ Recv \in Threads
       /\ \A p \in Procs : p \in Threads
  OBVIOUS
<1> HIDE DEF TypeOK, CleanInv, CleanStages, Threads
<1> QED
  BY <1>1, <1>2, <1>3, <1>4, <1>5, <1>6, <1>7, <1>8, <1>9, <1>10, <1>11,
     <1>12, <1>13, <1>14, <1>15, <1>16, CleanShared
  DEF Next, HeartStep, RecvStep

(***************************************************************************)
(* While heart_handler() watches a connection no '0' waits in the queue,   *)
(* through any number of crashes, reconnections and restarts, and whatever *)
(* other hooked processes do to the queue at the same time, unless         *)
(* Recv_file() has just put it there and is about to exit.                 *)
(***************************************************************************)
THEOREM NeverStaleOffline == Spec => []NoStaleOffline
<1>1. Init => StartInv /\ CleanInv
  BY DEF Init, StartInv, CleanInv, CleanStages, Threads
<1>2. CleanInv => NoStaleOffline
  BY DEF CleanInv, CleanStages, NoStaleOffline
<1> QED
  BY <1>1, <1>2, TypeInit, TypeStep, StartStep, CleanStep, PTL DEF Spec

-----------------------------------------------------------------------------
(***************************************************************************)
(* A flag is used once                                                     *)
(***************************************************************************)

\* The places of the flags '0' in a queue, and the threads that took one.
Zeros(s) == {i \in 1 .. Len(s) : s[i] = "0"}
Refusing == {t \in Threads : refused[t]}

\* Counting the flags '0' of a queue, one more and one less.
LEMMA ZerosFacts ==
    ASSUME NEW s \in Seq({"0", "1"})
    PROVE  /\ IsFiniteSet(Zeros(s))
           /\ Cardinality(Zeros(s)) \in Nat
           /\ Cardinality(Zeros(Append(s, "0"))) = Cardinality(Zeros(s)) + 1
           /\ Cardinality(Zeros(Append(s, "1"))) = Cardinality(Zeros(s))
           /\ s # <<>> =>
                 Cardinality(Zeros(Tail(s))) <=
                    Cardinality(Zeros(s)) - (IF Head(s) = "0" THEN 1 ELSE 0)
<1> DEFINE n == Len(s)
<1>1. n \in Nat
  BY LenProperties
<1>2. IsFiniteSet(1 .. n)
  BY <1>1, FS_Interval
<1>3. IsFiniteSet(Zeros(s)) /\ Cardinality(Zeros(s)) \in Nat
  BY <1>2, FS_Subset, FS_CardinalityType DEF Zeros
<1>4. Cardinality(Zeros(Append(s, "0"))) = Cardinality(Zeros(s)) + 1
  <2>1. /\ Zeros(Append(s, "0")) = Zeros(s) \union {n + 1}
        /\ n + 1 \notin Zeros(s)
    BY <1>1, AppendProperties DEF Zeros
  <2> QED
    BY <1>3, <2>1, FS_AddElement
<1>5. Zeros(Append(s, "1")) = Zeros(s)
  BY <1>1, AppendProperties DEF Zeros
<1>6. ASSUME s # <<>>
      PROVE  Cardinality(Zeros(Tail(s))) <=
                Cardinality(Zeros(s)) - (IF Head(s) = "0" THEN 1 ELSE 0)
  <2> DEFINE rest == Zeros(s) \ {1}
             f == [i \in Zeros(Tail(s)) |-> i + 1]
  <2>1. /\ n > 0 /\ Head(s) = s[1]
        /\ Len(Tail(s)) = n - 1
        /\ \A i \in 1 .. n - 1 : Tail(s)[i] = s[i + 1]
    BY <1>1, <1>6, HeadTailProperties, EmptySeq
  <2>2. f \in Injection(Zeros(Tail(s)), rest)
    BY <1>1, <2>1 DEF Zeros, Injection, IsInjective
  <2>3. /\ IsFiniteSet(rest)
        /\ Cardinality(rest) =
              Cardinality(Zeros(s)) - (IF Head(s) = "0" THEN 1 ELSE 0)
    <3>1. 1 \in Zeros(s) <=> Head(s) = "0"
      BY <1>1, <2>1 DEF Zeros
    <3> QED
      BY <1>3, <3>1, FS_RemoveElement
  <2> QED
    BY <2>2, <2>3, FS_Injection
<1> QED
  BY <1>3, <1>4, <1>5, <1>6

\* Counting the threads that have taken a '0', one less.
LEMMA RefusingFacts ==
    /\ IsFiniteSet(Refusing) /\ Cardinality(Refusing) \in Nat
    /\ \A t \in Threads : refused[t] =>
          Cardinality(Refusing \ {t}) = Cardinality(Refusing) - 1
<1>1. IsFiniteSet(Threads)
  <2>1. Threads = (Procs \union {Heart}) \union {Recv}
    BY DEF Threads
  <2>2. IsFiniteSet(Procs \union {Heart})
    BY KeepAliveAssumption, FS_AddElement
  <2>3. IsFiniteSet((Procs \union {Heart}) \union {Recv})
    BY <2>2, FS_AddElement
  <2> QED
    BY <2>1, <2>3
<1>2. IsFiniteSet(Refusing) /\ Cardinality(Refusing) \in Nat
  BY <1>1, FS_Subset, FS_CardinalityType DEF Refusing
<1>3. ASSUME NEW t \in Threads, refused[t]
      PROVE  Cardinality(Refusing \ {t}) = Cardinality(Refusing) - 1
  BY <1>2, <1>3, FS_RemoveElement DEF Refusing
<1> QED
  BY <1>2, <1>3

\* What the threads do with the flags keeps the account: a flag put into a
\* queue is credited, and one that denies a call is debited.
LEMMA UndecidedStep ==
    ASSUME TypeOK, TypeOK', FlagUsedOnce, [Next]_vars
    PROVE  FlagUsedOnce'
<1> DEFINE Z == Cardinality(Zeros(flags))
           R == Cardinality(Refusing)
           Z1 == Cardinality(Zeros(flags'))
           R1 == Cardinality(Refusing')
<1>1. /\ Z \in Nat /\ Z1 \in Nat /\ R \in Nat /\ R1 \in Nat
      /\ credit \in Int /\ credit' \in Int
  <2>1. Z \in Nat /\ Z1 \in Nat
    BY ZerosFacts DEF TypeOK
  <2>2. R \in Nat
    BY RefusingFacts
  <2>3. R1 \in Nat
    <3>1. (Cardinality(Refusing) \in Nat)'
      BY RefusingFacts, PTL
    <3> QED
      BY <3>1
  <2> QED
    BY <2>1, <2>2, <2>3 DEF TypeOK
<1>2. Z + R <= credit
  BY DEF FlagUsedOnce, Undecided, Zeros, Refusing
<1>3. SUFFICES Z1 + R1 <= credit'
  BY DEF FlagUsedOnce, Undecided, Zeros, Refusing
<1>4. ASSUME flags' = flags PROVE Z1 = Z
  BY <1>4
<1>5. ASSUME refused' = refused PROVE R1 = R
  BY <1>5 DEF Refusing
<1>6. ASSUME NEW v \in {"0", "1"}, NEW t \in Threads, Put(t, v)
      PROVE  \E d \in {0, 1} : Z1 = Z + d /\ credit' = credit + d
  <2>1. CASE ~msgid[t]
    BY <1>1, <1>4, <1>6, <2>1 DEF Put
  <2>2. CASE msgid[t]
    <3>1. /\ flags' = Append(flags, v)
          /\ credit' = IF v = "0" THEN credit + 1 ELSE credit
      BY <1>6, <2>2 DEF Put
    <3>2. Z1 = IF v = "0" THEN Z + 1 ELSE Z
      BY <3>1, ZerosFacts DEF TypeOK
    <3> HIDE DEF Z, Z1
    <3> QED
      BY <1>1, <3>1, <3>2
  <2> QED
    BY <2>1, <2>2
<1>7. ASSUME NEW t \in Threads, Checked(t), flags' = flags
      PROVE  Z1 + R1 <= credit'
  <2>1. CASE refused[t]
    <3>1. Refusing' = Refusing \ {t}
      BY <1>7, <2>1 DEF Checked, Refusing, TypeOK
    <3>2. Cardinality(Refusing \ {t}) = R - 1
      BY <2>1, RefusingFacts
    <3>3. R1 = R - 1
      BY <3>1, <3>2, Zenon
    <3>4. credit' = credit - 1
      BY <1>7, <2>1 DEF Checked
    <3> HIDE DEF Z, Z1, R, R1
    <3> QED
      BY <1>1, <1>2, <1>4, <1>7, <3>3, <3>4
  <2>2. CASE ~refused[t]
    <3>1. Refusing' = Refusing
      BY <1>7, <2>2 DEF Checked, Refusing, TypeOK
    <3>2. R1 = R
      BY <3>1, Zenon
    <3>3. credit' = credit
      BY <1>7, <2>2 DEF Checked
    <3> HIDE DEF Z, Z1, R, R1
    <3> QED
      BY <1>1, <1>2, <1>4, <1>7, <3>2, <3>3
  <2> QED
    BY <2>1, <2>2
<1> HIDE DEF Z, Z1, R, R1
<1> USE DEF flagVars, clientVars
<1>8. ASSUME NEW t \in Threads, CheckRcv(t) PROVE Z1 + R1 <= credit'
  <2>1. /\ flags # <<>> /\ flags' = Tail(flags) /\ credit' = credit
        /\ refused' = [refused EXCEPT ![t] = (Head(flags) = "0")]
    BY <1>8 DEF CheckRcv
  <2>2. Z1 <= Z - (IF Head(flags) = "0" THEN 1 ELSE 0)
    BY <2>1, ZerosFacts DEF TypeOK, Z, Z1
  <2>3. R1 <= R + (IF Head(flags) = "0" THEN 1 ELSE 0)
    <3>1. CASE Head(flags) = "0"
      <4>1. Refusing' = Refusing \union {t}
        BY <2>1, <3>1 DEF Refusing, TypeOK
      <4>2. Cardinality(Refusing \union {t}) <= R + 1
        <5>1. IsFiniteSet(Refusing) /\ R \in Nat
          BY RefusingFacts DEF R
        <5>2. Cardinality(Refusing \union {t}) =
                 IF t \in Refusing THEN R ELSE R + 1
          BY <5>1, FS_AddElement DEF R
        <5> QED
          BY <5>1, <5>2
      <4>3. R1 <= R + 1
        BY <4>1, <4>2, Zenon DEF R1
      <4> QED
        BY <3>1, <4>3
    <3>2. CASE Head(flags) # "0"
      <4>1. Refusing' \in SUBSET Refusing
        BY <2>1, <3>2 DEF Refusing, TypeOK
      <4>2. R1 <= R
        BY <4>1, RefusingFacts, FS_Subset DEF R, R1
      <4> QED
        BY <1>1, <3>2, <4>2
    <3> QED
      BY <3>1, <3>2
  <2> QED
    BY <1>1, <1>2, <2>1, <2>2, <2>3
<1>9. ASSUME NEW t \in Threads, CheckRm(t) PROVE Z1 + R1 <= credit'
  <2>1. /\ flags' = flags \/ flags' = <<>>
        /\ refused' = refused /\ credit' = credit
    BY <1>9, Zenon DEF CheckRm
  <2>2. Z1 <= Z
    <3>1. CASE flags' = <<>>
      <4>1. Zeros(flags') = {}
        BY <3>1 DEF Zeros
      <4>2. Z1 = 0
        BY <4>1, FS_EmptySet, Zenon DEF Z1
      <4> QED
        BY <1>1, <4>2
    <3> QED
      BY <1>1, <1>4, <2>1, <3>1
  <2> QED
    BY <1>1, <1>2, <1>5, <2>1, <2>2
<1>10. ASSUME NEW t \in Threads,
              CallHooked(t) \/ CheckGet(t) \/ CheckNone(t) \/ SendGet(t)
       PROVE  Z1 + R1 <= credit'
  <2>1. flags' = flags /\ refused' = refused /\ credit' = credit
    BY <1>10 DEF CallHooked, CheckGet, CheckNone, SendGet, Msgget
  <2> QED
    BY <1>1, <1>2, <1>4, <1>5, <2>1
<1>11. ASSUME NEW t \in Threads, Put(t, "0") \/ Put(t, "1"),
              refused' = refused
       PROVE  Z1 + R1 <= credit'
  <2>1. PICK d \in {0, 1} : Z1 = Z + d /\ credit' = credit + d
    BY <1>6, <1>11
  <2>2. R1 = R
    BY <1>5, <1>11
  <2> QED
    BY <1>1, <1>2, <2>1, <2>2
<1>12. CASE Restart
  <2>1. /\ flags' = flags /\ credit' = credit
        /\ \A t \in Threads : refused'[t] => refused[t]
    BY <1>12 DEF Restart
  <2>2. Refusing' \in SUBSET Refusing
    BY <2>1 DEF Refusing
  <2>3. R1 <= R
    BY <2>2, RefusingFacts, FS_Subset DEF R, R1
  <2> QED
    BY <1>1, <1>2, <1>4, <2>1, <2>3
<1>13. /\ Heart \in Threads /\ Recv \in Threads
       /\ \A p \in Procs : p \in Threads
  BY DEF Threads
<1>14. CASE HeartStep
  <2>1. CASE ConfDenied \/ OpenConf \/ CloseConf \/ CloseFailed \/ CloseSock
    <3>1. Checked(Heart) /\ flags' = flags
      BY <2>1 DEF ConfDenied, OpenConf, CloseConf, CloseFailed, CloseSock
    <3> QED
      BY <1>7, <1>13, <3>1
  <2>2. CASE SendHello \/ SendOffline
    BY <1>11, <1>13, <2>2 DEF SendHello, SendOffline
  <2>3. CASE \/ \E c \in Conns : Connect(c) \/ Reconnect(c)
             \/ ConnectFails \/ TickRead \/ TickWrite \/ TickOffline
    <3>1. flags' = flags /\ refused' = refused /\ credit' = credit
      BY <2>3
      DEF Connect, Reconnect, ConnectFails, TickRead, TickWrite, TickOffline
    <3> QED
      BY <1>1, <1>2, <1>4, <1>5, <3>1
  <2> QED
    BY <1>8, <1>9, <1>10, <1>13, <1>14, <2>1, <2>2, <2>3
    DEF HeartStep, Check
<1>15. CASE RecvStep \/ RecvPacket
  <2>1. CASE RecvFlag
    BY <1>11, <1>13, <2>1 DEF RecvFlag
  <2>2. CASE \/ RecvCall \/ RecvError \/ RecvHandle \/ RecvClosed
             \/ RecvExit \/ RecvPacket
    <3>1. flags' = flags /\ refused' = refused /\ credit' = credit
      BY <2>2
      DEF RecvCall, RecvError, RecvHandle, RecvClosed, RecvExit, RecvPacket
    <3> QED
      BY <1>1, <1>2, <1>4, <1>5, <3>1
  <2> QED
    BY <1>10, <1>13, <1>15, <2>1, <2>2 DEF RecvStep
<1>16. ASSUME NEW p \in Procs, TaskDenied(p) \/ ReturnHooked(p)
       PROVE  Z1 + R1 <= credit'
  BY <1>7, <1>13, <1>16 DEF TaskDenied, ReturnHooked
<1>17. CASE UNCHANGED vars \/ \E c \in Conns : LinkChanges(c)
  <2>1. flags' = flags /\ refused' = refused /\ credit' = credit
    BY <1>17 DEF vars, LinkChanges
  <2> QED
    BY <1>1, <1>2, <1>4, <1>5, <2>1
<1> QED
  BY <1>8, <1>9, <1>10, <1>12, <1>13, <1>14, <1>15, <1>16, <1>17
  DEF Next, Check

(***************************************************************************)
(* A flag is used once: however many processes look into the queue at the  *)
(* same time, they are denied no more calls than '0' flags were sent.      *)
(***************************************************************************)
THEOREM FlagsUsedOnce == Spec => []FlagUsedOnce
<1>1. Init => FlagUsedOnce
  <2> SUFFICES ASSUME Init PROVE FlagUsedOnce
    OBVIOUS
  <2>1. Zeros(flags) = {} /\ Refusing = {}
    BY DEF Init, Zeros, Refusing
  <2>2. Cardinality(Zeros(flags)) = 0 /\ Cardinality(Refusing) = 0
    BY <2>1, FS_EmptySet, Zenon
  <2> QED
    BY <2>2 DEF Init, FlagUsedOnce, Undecided, Zeros, Refusing
<1> QED
  BY <1>1, TypeInit, TypeStep, UndecidedStep, PTL DEF Spec
=============================================================================
