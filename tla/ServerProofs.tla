---------------------------- MODULE ServerProofs ----------------------------
(***************************************************************************)
(* Proofs about Server, for any workers, connections, descriptors, names   *)
(* and contents of blocks, and a queue of any length.                      *)
(***************************************************************************)
EXTENDS Server, FiniteSetTheorems, SequenceTheorems, WellFoundedInduction,
        TLAPS

(***************************************************************************)
(* What the code relies on from one step to the next.  The main thread     *)
(* calls accept() only when there is a connection to accept; a worker that *)
(* is inside process() has a monitor.                                      *)
(***************************************************************************)
StepInv ==
    /\ listening => backlog # <<>>
    /\ \A w \in Workers : step[w] = "idle" <=> serving[w] = NoFd

(***************************************************************************)
(* What has not been read was sent, and the message a worker handles came  *)
(* over the connection it serves, or was put together from misread bytes.  *)
(***************************************************************************)
SentBy(c) == {sent[c][i] : i \in 1 .. Len(sent[c])}

StreamsSent ==
    \A c \in Conns : \A i \in 1 .. Len(stream[c]) :
        stream[c][i] \in SentBy(c) \union {Rest}

SentFiles == \A c \in Conns : \A m \in SentBy(c) : m.file \in Files

Misread(m) == m.file = Junk /\ m.val = Junk

MonitorsSent ==
    \A w \in Workers, c \in Conns :
        step[w] \in {"handle", "recover"} /\ sock[serving[w]] = c =>
            Misread(masg[serving[w]]) \/ masg[serving[w]] \in SentBy(c)

\* What backup() wrote for misread bytes is misread as well.
JunkStored ==
    \A b \in Blocks : store[Transf(Junk)][b] \in {Junk, Absent}

\* recover_file_name() undoes transf_file_name(): no name has a '@' in it.
RoundTrip == \A f \in Names : Back(Transf(f)) = f

-----------------------------------------------------------------------------
\* A set of natural numbers has a smallest one.
LEMMA SmallestNumber ==
    ASSUME NEW S, S \subseteq Nat, S # {}
    PROVE  \E n \in S : \A k \in S : n <= k
<1>1. PICK n \in S : \A k \in S : ~(<<k, n>> \in OpToRel(<, Nat))
  BY NatLessThanWellFounded, WFMin, Zenon
<1>2. \A k \in S : ~(k < n)
  BY <1>1, Zenon DEF OpToRel
<1>3. \A k \in S : n <= k
  BY <1>2
<1> QED
  BY <1>3

\* So the kernel has a descriptor to hand out when one is free.
LEMMA LowestFree ==
    ASSUME FreeFds # {}
    PROVE  Lowest(FreeFds) \in FreeFds
<1>1. \E n \in FreeFds : \A k \in FreeFds : n <= k
  BY ServerAssumption, SmallestNumber DEF FreeFds
<1> QED
  BY <1>1 DEF Lowest

\* A backup is no longer than the longest file.
LEMMA FileLenBound ==
    ASSUME NEW s \in StoredNames
    PROVE  FileLen(s) \in 0 .. NBlocks
<1> DEFINE Used == {b \in Blocks : store[s][b] # Absent}
           Below == {NBlocks - b : b \in Used}
<1>1. CASE Used = {}
  BY <1>1, ServerAssumption DEF FileLen
<1>2. CASE Used # {}
  <2>1. Below \subseteq Nat /\ Below # {}
    BY <1>2, ServerAssumption DEF Blocks
  <2>2. PICK n \in Below : \A k \in Below : n <= k
    BY <2>1, SmallestNumber
  <2>3. PICK b \in Used : n = NBlocks - b
    OBVIOUS
  <2>4. \A k \in Used : k <= b
    BY <2>2, <2>3, ServerAssumption DEF Blocks
  <2>5. \E k \in Blocks : /\ store[s][k] # Absent
                          /\ \A j \in Blocks : j > k => store[s][j] = Absent
    BY <2>3, <2>4, ServerAssumption DEF Blocks
  <2> DEFINE last == CHOOSE k \in Blocks :
                        /\ store[s][k] # Absent
                        /\ \A j \in Blocks : j > k => store[s][j] = Absent
  <2>6. last \in Blocks
    BY <2>5
  <2>7. FileLen(s) = 1 + last
    BY <1>2 DEF FileLen
  <2> HIDE DEF last
  <2> QED
    BY <2>6, <2>7, ServerAssumption DEF Blocks
<1> QED
  BY <1>1, <1>2

-----------------------------------------------------------------------------
(***************************************************************************)
(* Types                                                                   *)
(***************************************************************************)

\* The initial state.
LEMMA TypeInit == Init => TypeOK /\ StepInv
<1> SUFFICES ASSUME Init PROVE TypeOK /\ StepInv
  OBVIOUS
<1>1. Blank \in Messages
  BY ServerAssumption DEF Blank, Messages, Signs, Names, Blocks
<1>2. /\ backlog \in Seq(Conns) /\ pending \in Seq(Fds)
      /\ stream \in [Conns -> Seq(Messages \union {Rest})]
      /\ sent \in [Conns -> Seq(Messages)]
  BY EmptySeq DEF Init, Pool!Init
<1>3. /\ masg \in [Fds -> Messages]
      /\ rpos \in [Workers -> 0 .. NBlocks]
      /\ store \in [StoredNames -> [Blocks -> Vals \union {Junk, Absent}]]
  BY <1>1, ServerAssumption DEF Init
<1>4. /\ serving \in [Workers -> Fds \union {NoFd}]
      /\ rfd \in [Workers -> Fds \union {NoFd}]
      /\ step \in [Workers -> {"idle", "recv", "handle", "recover"}]
  BY DEF Init, Pool!Init
<1>5. /\ up \in BOOLEAN /\ listening \in BOOLEAN
      /\ sock \in [Fds -> Conns \union {None, File}]
      /\ interest \in [Fds -> {"off", "armed", "disarmed"}]
      /\ batch \in SUBSET [fd : Fds, hup : BOOLEAN]
      /\ hearts \in [Fds -> Nat]
      /\ peer \in [Conns -> {"none", "up", "gone"}]
      /\ replies \in [Conns -> SUBSET [file : Names,
                                       val : Vals \union {Junk, Absent}]]
  BY DEF Init
<1>6. StepInv
  BY DEF Init, Pool!Init, StepInv
<1> QED
  BY <1>2, <1>3, <1>4, <1>5, <1>6 DEF TypeOK

\* Messages and streams of clients.
LEMMA TypeClient ==
    ASSUME TypeOK, StepInv, ClientStep
    PROVE  TypeOK' /\ StepInv'
<1> USE DEF TypeOK, StepInv, connVars, loopVars, poolVars, workVars,
            clientVars
<1>1. ASSUME NEW c \in Conns, Connect(c) PROVE TypeOK' /\ StepInv'
  <2>0. backlog \in Seq(Conns)
    OBVIOUS
  <2>1. Append(backlog, c) \in Seq(Conns) /\ Append(backlog, c) # <<>>
    <3> HIDE DEF TypeOK, StepInv
    <3> QED
      BY <2>0, AppendProperties
  <2> QED
    BY <1>1, <2>1 DEF Connect
<1>2. ASSUME NEW c \in Conns, Leave(c) PROVE TypeOK' /\ StepInv'
  BY <1>2 DEF Leave
<1>3. ASSUME NEW c \in Conns, NEW m \in Messages, NEW n \in Nat,
             Send(c, m, n)
      PROVE  TypeOK' /\ StepInv'
  <2> DEFINE u == [i \in 1 .. n |-> IF i = 1 THEN m ELSE Rest]
  <2>1. u \in Seq(Messages \union {Rest})
    BY IsASeq
  <2> HIDE DEF u
  <2>2. stream[c] \o u \in Seq(Messages \union {Rest})
    BY <2>1, ConcatProperties
  <2>3. stream' = [stream EXCEPT ![c] = stream[c] \o u]
    BY <1>3 DEF Send, u
  <2>4. Append(sent[c], m) \in Seq(Messages)
    BY AppendProperties
  <2> QED
    BY <1>3, <2>2, <2>3, <2>4 DEF Send
<1>4. ASSUME NEW c \in BlockConns, SendBlock(c) PROVE TypeOK' /\ StepInv'
  <2>1. PICK m \in [sign : Signs, file : Files, blk : Blocks, val : Vals] :
           Send(c, m, TagLen)
    BY <1>4 DEF SendBlock
  <2>2. m \in Messages /\ c \in Conns /\ TagLen \in Nat
    BY ServerAssumption DEF Messages, Names, Conns
  <2> QED
    BY <1>3, <2>1, <2>2
<1>5. ASSUME NEW c \in AskConns, SendAsk(c) PROVE TypeOK' /\ StepInv'
  <2>1. PICK f \in Files :
           Send(c, [sign |-> 1, file |-> f, blk |-> 0, val |-> Junk], RecvLen)
    BY <1>5 DEF SendAsk
  <2>2. /\ [sign |-> 1, file |-> f, blk |-> 0, val |-> Junk] \in Messages
        /\ c \in Conns /\ RecvLen \in Nat
    BY ServerAssumption DEF Messages, Names, Conns, Signs, Blocks
  <2> QED
    BY <1>3, <2>1, <2>2
<1> QED
  BY <1>1, <1>2, <1>4, <1>5 DEF ClientStep

\* The main thread.
LEMMA TypeMain ==
    ASSUME TypeOK, StepInv,
           \/ MainStep \/ HeartCreateFails
           \/ \E e \in batch : CancelCrashes(e)
    PROVE  TypeOK' /\ StepInv'
<1> USE DEF TypeOK, StepInv, connVars, loopVars, poolVars, workVars,
            clientVars
<1>1. CASE EpollWait
  <2>1. batch' \in SUBSET [fd : Fds, hup : BOOLEAN]
    <3> DEFINE E(n) == [fd |-> n, hup |-> peer[sock[n]] = "gone"]
    <3>1. \A n \in Fds : E(n) \in [fd : Fds, hup : BOOLEAN]
      BY Zenon
    <3>2. \A e \in batch' : \E n \in Fds : e = E(n)
      BY <1>1, Zenon DEF EpollWait
    <3> HIDE DEF E, TypeOK, StepInv
    <3> QED
      BY <3>1, <3>2
  <2>2. interest' \in [Fds -> {"off", "armed", "disarmed"}]
    BY <1>1 DEF EpollWait
  <2> QED
    BY <1>1, <2>1, <2>2 DEF EpollWait
<1>2. CASE Accept
  <2>1. PICK n \in Fds :
           /\ sock' = [sock EXCEPT ![n] = Head(backlog)]
           /\ interest' = [interest EXCEPT ![n] = "armed"]
           /\ masg' = [masg EXCEPT ![n] = Blank]
           /\ hearts' = [hearts EXCEPT ![n] = @ + 1]
    BY <1>2, LowestFree DEF Accept, FreeFds
  <2>2. backlog # <<>> /\ listening' = FALSE
    BY <1>2 DEF Accept
  <2>3. Head(backlog) \in Conns /\ backlog' \in Seq(Conns)
    BY <1>2, <2>2, HeadTailProperties DEF Accept
  <2>4. Blank \in Messages
    BY ServerAssumption DEF Blank, Messages, Signs, Names, Blocks
  <2>5. hearts' \in [Fds -> Nat]
    BY <2>1
  <2>6. /\ sock' \in [Fds -> Conns \union {None, File}]
        /\ interest' \in [Fds -> {"off", "armed", "disarmed"}]
        /\ masg' \in [Fds -> Messages]
    BY <2>1, <2>3, <2>4
  <2>7. UNCHANGED <<up, batch, pending, serving, step, rfd, rpos, store,
                    peer, stream, sent, replies>>
    BY <1>2 DEF Accept
  <2> QED
    BY <2>2, <2>3, <2>5, <2>6, <2>7
<1>3. CASE AcceptFails \/ HeartCreateFails
  BY <1>3 DEF AcceptFails, HeartCreateFails
<1>4. ASSUME NEW e \in batch, CancelCrashes(e) PROVE TypeOK' /\ StepInv'
  BY <1>4 DEF CancelCrashes
<1>5. ASSUME NEW e \in batch, HandleHup(e) PROVE TypeOK' /\ StepInv'
  BY <1>5 DEF HandleHup
<1>6. ASSUME NEW e \in batch, HandleIn(e) PROVE TypeOK' /\ StepInv'
  <2>1. e.fd \in Fds /\ Append(pending, e.fd) \in Seq(Fds)
    BY AppendProperties
  <2>2. pending' \in {pending, Append(pending, e.fd)} /\ serving' = serving
    BY <1>6 DEF HandleIn, Pool!Submit
  <2> QED
    BY <1>6, <2>1, <2>2 DEF HandleIn
<1> QED
  BY <1>1, <1>2, <1>3, <1>4, <1>5, <1>6 DEF MainStep

\* A worker that is in process(), and its monitor.
LEMMA InProcess ==
    ASSUME TypeOK, StepInv, NEW w \in Workers, step[w] # "idle"
    PROVE  /\ serving[w] \in Fds
           /\ masg[serving[w]] \in Messages
           /\ masg[serving[w]].file \in Names
           /\ Transf(masg[serving[w]].file) \in StoredNames
<1>1. serving[w] \in Fds /\ masg[serving[w]] \in Messages
  BY DEF TypeOK, StepInv
<1>2. masg[serving[w]].file \in Names
  BY <1>1 DEF Messages
<1> QED
  BY <1>1, <1>2 DEF StoredNames

\* recv(): a message is either the next one sent, or garbage.
LEMMA RecvMessage ==
    ASSUME TypeOK, StepInv, NEW w \in Workers, Recv(w)
    PROVE  /\ serving[w] \in Fds
           /\ sock[serving[w]] \in Conns
           /\ stream[sock[serving[w]]] # <<>>
           /\ \E len \in 1 .. Len(stream[sock[serving[w]]]) :
                 stream' = [stream EXCEPT ![sock[serving[w]]] =
                               SubSeq(@, len + 1, Len(@))]
           /\ \E m \in Messages :
                 /\ Misread(m) \/ m = Head(stream[sock[serving[w]]])
                 /\ masg' = [masg EXCEPT ![serving[w]] = m]
<1> DEFINE n == serving[w]
           c == sock[n]
           L == Len(stream[c])
           len == IF L < TagLen THEN L ELSE TagLen
<1>1. n \in Fds /\ c \in Conns
  BY DEF Recv, TypeOK, StepInv
<1>2. stream[c] \in Seq(Messages \union {Rest}) /\ L \in Nat
  BY <1>1, LenProperties DEF TypeOK
<1>3. len = TagLen \/ len > 0
  BY DEF Recv
<1>4. /\ stream' = [stream EXCEPT ![c] = SubSeq(@, len + 1, Len(@))]
      /\ \E m \in IF Head(stream[c]) = Rest THEN Garbage
                                            ELSE {Head(stream[c])} :
            masg' = [masg EXCEPT ![n] = m]
  BY DEF Recv
<1>5. len \in 1 .. L
  <2> HIDE DEF L
  <2> QED
    BY <1>2, <1>3, ServerAssumption
<1>6. stream[c] # <<>>
  BY <1>2, <1>5, EmptySeq
<1>7. Head(stream[c]) \in Messages \union {Rest}
  BY <1>2, <1>6, HeadTailProperties
<1>8. \A m \in Garbage : m \in Messages /\ Misread(m)
  BY ServerAssumption DEF Garbage, Messages, Names, Blocks, Misread
<1>9. \E m \in Messages :
         /\ Misread(m) \/ m = Head(stream[c])
         /\ masg' = [masg EXCEPT ![n] = m]
  <2>1. CASE Head(stream[c]) = Rest
    BY <1>4, <1>8, <2>1
  <2>2. CASE Head(stream[c]) # Rest
    BY <1>4, <1>7, <2>2
  <2> QED
    BY <2>1, <2>2
<1> QED
  BY <1>1, <1>4, <1>5, <1>6, <1>9

\* The workers.
LEMMA TypeWorker ==
    ASSUME TypeOK, StepInv, NEW w \in Workers, WorkerStep(w)
    PROVE  TypeOK' /\ StepInv'
<1> USE DEF TypeOK, StepInv, connVars, loopVars, poolVars, workVars,
            clientVars
<1>1. CASE TakeMonitor(w)
  <2>1. /\ serving[w] = NoFd /\ pending # <<>>
        /\ pending' = Tail(pending)
        /\ serving' = [serving EXCEPT ![w] = Head(pending)]
        /\ step' = [step EXCEPT ![w] = "recv"]
    BY <1>1 DEF TakeMonitor, Pool!Take
  <2>2. Head(pending) \in Fds /\ Tail(pending) \in Seq(Fds)
    BY <2>1, HeadTailProperties
  <2>3. \A v \in Workers : step'[v] = "idle" <=> serving'[v] = NoFd
    BY <2>1, <2>2, ServerAssumption
  <2>4. /\ serving' \in [Workers -> Fds \union {NoFd}]
        /\ step' \in [Workers -> {"idle", "recv", "handle", "recover"}]
    BY <2>1, <2>2
  <2> QED
    BY <1>1, <2>1, <2>2, <2>3, <2>4 DEF TakeMonitor
<1>2. CASE Recv(w)
  <2> DEFINE c == sock[serving[w]]
  <2>1. PICK len \in 1 .. Len(stream[c]) :
           stream' = [stream EXCEPT ![c] = SubSeq(@, len + 1, Len(@))]
    BY <1>2, RecvMessage
  <2>2. c \in Conns /\ stream[c] \in Seq(Messages \union {Rest})
    BY <1>2, RecvMessage
  <2>3. SubSeq(stream[c], len + 1, Len(stream[c]))
           \in Seq(Messages \union {Rest})
    <3>1. /\ Len(stream[c]) \in Nat
          /\ \A i \in len + 1 .. Len(stream[c]) :
                stream[c][i] \in Messages \union {Rest}
      BY <2>2, LenProperties, ElementOfSeq
    <3> HIDE DEF c, TypeOK, StepInv
    <3>2. len + 1 \in Int /\ Len(stream[c]) \in Int
      BY <3>1
    <3> QED
      BY <3>1, <3>2, SubSeqProperties
  <2>4. stream' \in [Conns -> Seq(Messages \union {Rest})]
    BY <2>1, <2>2, <2>3
  <2>5. masg' \in [Fds -> Messages]
    BY <1>2, RecvMessage
  <2>6. step' = [step EXCEPT ![w] = "handle"] /\ step[w] = "recv"
    BY <1>2 DEF Recv
  <2> QED
    BY <1>2, <2>4, <2>5, <2>6 DEF Recv
<1>3. CASE RecvEnds(w)
  <2>1. /\ serving' = [serving EXCEPT ![w] = NoFd]
        /\ pending' = pending
        /\ step' = [step EXCEPT ![w] = "idle"]
    BY <1>3 DEF RecvEnds, Pool!Finish
  <2> QED
    BY <1>3, <2>1 DEF RecvEnds
<1>4. CASE Backup(w)
  <2> DEFINE m == masg[serving[w]]
  <2>1. m \in Messages /\ Transf(m.file) \in StoredNames
    BY <1>4, InProcess DEF Backup
  <2>2. m.blk \in Blocks /\ m.val \in Vals \union {Junk, Absent}
    BY <2>1 DEF Messages
  <2>3. \/ store' = store
        \/ store' = [store EXCEPT ![Transf(m.file)][m.blk] = m.val]
    BY <1>4 DEF Backup
  <2>4. ASSUME NEW s \in StoredNames, NEW b \in Blocks,
               NEW v \in Vals \union {Junk, Absent}
        PROVE  [store EXCEPT ![s][b] = v]
                  \in [StoredNames -> [Blocks -> Vals \union {Junk, Absent}]]
    <3>1. store \in [StoredNames -> [Blocks -> Vals \union {Junk, Absent}]]
      OBVIOUS
    <3>2. [store[s] EXCEPT ![b] = v] \in [Blocks -> Vals \union {Junk, Absent}]
      BY <3>1
    <3> HIDE DEF TypeOK, StepInv
    <3> QED
      BY <3>1, <3>2
  <2>5. store' \in [StoredNames -> [Blocks -> Vals \union {Junk, Absent}]]
    <3> DEFINE s == Transf(m.file)
               b == m.blk
               v == m.val
    <3>1. /\ s \in StoredNames /\ b \in Blocks
          /\ v \in Vals \union {Junk, Absent}
      BY <2>1, <2>2
    <3>2. store' = store \/ store' = [store EXCEPT ![s][b] = v]
      BY <2>3
    <3> HIDE DEF s, b, v
    <3>3. [store EXCEPT ![s][b] = v]
             \in [StoredNames -> [Blocks -> Vals \union {Junk, Absent}]]
      BY <2>4, <3>1
    <3> QED
      BY <3>2, <3>3
  <2> QED
    BY <1>4, <2>5 DEF Backup
<1>5. CASE IgnoreSign(w)
  BY <1>5 DEF IgnoreSign
<1>6. CASE Recover(w)
  <2>1. /\ sock' \in [Fds -> Conns \union {None, File}]
        /\ rfd' \in [Workers -> Fds \union {NoFd}]
    <3>1. CASE FreeFds = {}
      BY <1>6, <3>1 DEF Recover
    <3>2. CASE FreeFds # {}
      <4>1. Lowest(FreeFds) \in Fds
        BY <3>2, LowestFree DEF FreeFds
      <4> QED
        BY <1>6, <4>1 DEF Recover
    <3> QED
      BY <3>1, <3>2
  <2>2. rpos' \in [Workers -> 0 .. NBlocks]
    BY <1>6, ServerAssumption DEF Recover
  <2> QED
    BY <1>6, <2>1, <2>2 DEF Recover
<1>7. CASE RecoverSend(w)
  <2> DEFINE s == Transf(masg[serving[w]].file)
             v == IF rfd[w] = NoFd THEN Absent ELSE store[s][rpos[w]]
             p == [file |-> Back(s), val |-> v]
  <2>1. s \in StoredNames /\ Back(s) \in Names
    BY <1>7, InProcess, ServerAssumption DEF RecoverSend
  <2>2. FileLen(s) \in 0 .. NBlocks /\ rpos[w] \in 0 .. NBlocks
    BY <2>1, FileLenBound
  <2>3. rfd[w] # NoFd => rpos[w] < FileLen(s)
    BY <1>7 DEF RecoverSend
  <2>4. rfd[w] # NoFd => rpos[w] \in Blocks /\ rpos[w] + 1 \in 0 .. NBlocks
    BY <2>2, <2>3, ServerAssumption DEF Blocks
  <2>5. v \in Vals \union {Junk, Absent}
    BY <2>1, <2>4
  <2>6. p \in [file : Names, val : Vals \union {Junk, Absent}]
    BY <2>1, <2>5
  <2>7. /\ sock[serving[w]] \in Conns
        /\ replies' = [replies EXCEPT ![sock[serving[w]]] = @ \union {p}]
        /\ rpos' = [rpos EXCEPT ![w] = IF rfd[w] = NoFd THEN @ ELSE @ + 1]
    BY <1>7 DEF RecoverSend
  <2> HIDE DEF p, v, s
  <2>8. replies' \in [Conns -> SUBSET [file : Names,
                                       val : Vals \union {Junk, Absent}]]
    BY <2>6, <2>7
  <2>9. rpos' \in [Workers -> 0 .. NBlocks]
    BY <2>4, <2>7
  <2> QED
    BY <1>7, <2>8, <2>9 DEF RecoverSend
<1>8. CASE RecoverEnds(w)
  BY <1>8 DEF RecoverEnds
<1> QED
  BY <1>1, <1>2, <1>3, <1>4, <1>5, <1>6, <1>7, <1>8 DEF WorkerStep, RunStep

\* Types are right in every reachable state.
LEMMA TypeStep == TypeOK /\ StepInv /\ [Next]_vars => TypeOK' /\ StepInv'
<1> SUFFICES ASSUME TypeOK, StepInv, [Next]_vars PROVE TypeOK' /\ StepInv'
  OBVIOUS
<1>1. ASSUME NEW n \in Fds, Heart(n) PROVE TypeOK' /\ StepInv'
  <2>1. HeartPacket \in [file : Names, val : Vals \union {Junk, Absent}]
    BY DEF HeartPacket, Names
  <2>2. replies' \in [Conns -> SUBSET [file : Names,
                                       val : Vals \union {Junk, Absent}]]
    BY <1>1, <2>1 DEF Heart, TypeOK
  <2> QED
    BY <1>1, <2>2
    DEF Heart, TypeOK, StepInv, connVars, loopVars, poolVars, workVars,
        clientVars
<1>2. CASE UNCHANGED vars
  BY <1>2 DEF vars, TypeOK, StepInv
<1> QED
  BY <1>1, <1>2, TypeClient, TypeMain, TypeWorker DEF Next

(***************************************************************************)
(* Type correctness: whatever is received, the worker's indices stay in    *)
(* the file it recovers, and accept() always has a connection to take.     *)
(***************************************************************************)
THEOREM TypeCorrect == Spec => []TypeOK
  BY TypeInit, TypeStep, PTL DEF Spec

-----------------------------------------------------------------------------
(***************************************************************************)
(* Owners of monitors and descriptors                                      *)
(***************************************************************************)

\* The requests in a queue, each of them once.
Elems(q) == {q[i] : i \in 1 .. Len(q)}
Distinct(q) == \A i, j \in 1 .. Len(q) : q[i] = q[j] => i = j

\* A new request is appended to the queue.
LEMMA AppendElems ==
    ASSUME NEW q \in Seq(Fds), NEW n \in Fds, n \notin Elems(q), Distinct(q)
    PROVE  /\ Elems(Append(q, n)) = Elems(q) \union {n}
           /\ Distinct(Append(q, n))
<1> DEFINE r == Append(q, n)
<1>1. /\ Len(q) \in Nat /\ Len(r) = Len(q) + 1 /\ r[Len(q) + 1] = n
      /\ \A i \in 1 .. Len(q) : r[i] = q[i]
  BY LenProperties, AppendProperties
<1> HIDE DEF r
<1>2. \A i \in 1 .. Len(r) : i \in 1 .. Len(q) \/ i = Len(q) + 1
  BY <1>1
<1>3. \A i \in 1 .. Len(q) : q[i] # n
  BY DEF Elems
<1>4. Distinct(r)
  BY <1>1, <1>2, <1>3 DEF Distinct
<1>5. Elems(r) = Elems(q) \union {n}
  BY <1>1, <1>2 DEF Elems
<1> QED
  BY <1>4, <1>5 DEF r

\* The oldest request is taken off the queue.
LEMMA TailElems ==
    ASSUME NEW q \in Seq(Fds), q # <<>>, Distinct(q)
    PROVE  /\ Head(q) \in Elems(q)
           /\ Elems(Tail(q)) = Elems(q) \ {Head(q)}
           /\ Distinct(Tail(q))
<1> DEFINE r == Tail(q)
<1>1. /\ Len(q) \in Nat \ {0} /\ Len(r) = Len(q) - 1 /\ Head(q) = q[1]
      /\ \A i \in 1 .. Len(r) : r[i] = q[i + 1]
  BY EmptySeq, HeadTailProperties
<1> HIDE DEF r
<1>2. Head(q) \in Elems(q)
  BY <1>1 DEF Elems
<1>3. Distinct(r)
  BY <1>1 DEF Distinct
<1>4. ASSUME NEW x \in Elems(r) PROVE x \in Elems(q) \ {Head(q)}
  <2>1. PICK i \in 1 .. Len(r) : x = q[i + 1]
    BY <1>1, <1>4 DEF Elems
  <2>2. i + 1 \in 1 .. Len(q) /\ i + 1 # 1 /\ 1 \in 1 .. Len(q)
    BY <1>1, <2>1
  <2> QED
    BY <1>1, <2>1, <2>2 DEF Elems, Distinct
<1>5. ASSUME NEW x \in Elems(q), x # Head(q) PROVE x \in Elems(r)
  <2>1. PICK i \in 1 .. Len(q) : x = q[i]
    BY DEF Elems
  <2>2. i # 1 /\ i - 1 \in 1 .. Len(r)
    BY <1>1, <1>5, <2>1
  <2>3. r[i - 1] = x
    BY <1>1, <2>1, <2>2
  <2> QED
    BY <2>2, <2>3 DEF Elems
<1> QED
  BY <1>2, <1>3, <1>4, <1>5 DEF r

\* MonitorExclusive and HandlesOpen, in the terms of the proof.
Owned == Reported \union Queued \union Served

Owners ==
    /\ \A n \in Owned : interest[n] # "armed" /\ sock[n] \in Conns
    /\ \A d, e \in batch : d.fd = e.fd => d = e
    /\ Reported \intersect (Queued \union Served) = {}
    /\ Queued \intersect Served = {}
    /\ Distinct(pending)
    /\ \A w, v \in Workers : serving[w] = serving[v] /\ w # v =>
                                serving[w] = NoFd

Backups ==
    \A w \in Workers : rfd[w] # NoFd =>
       /\ sock[rfd[w]] = File
       /\ \A v \in Workers \ {w} : rfd[v] # rfd[w]

\* They are the same.
LEMMA OwnersAre ==
    Owners /\ Backups <=> MonitorExclusive /\ HandlesOpen
  BY DEF Owners, Backups, Owned, MonitorExclusive, HandlesOpen, Distinct

\* The main thread: a descriptor passes from epoll to the batch, and from the
\* batch to the queue or back to the kernel.
LEMMA OwnersMain ==
    ASSUME TypeOK, StepInv, Owners, Backups, MainStep
    PROVE  Owners' /\ Backups'
<1> USE DEF connVars, loopVars, poolVars, workVars, clientVars
<1>0. /\ {None, File} \intersect Conns = {} /\ None # File
      /\ sock \in [Fds -> Conns \union {None, File}]
      /\ interest \in [Fds -> {"off", "armed", "disarmed"}]
      /\ \A e \in batch : e.fd \in Fds
      /\ pending \in Seq(Fds)
      /\ \A n \in Owned : n \in Fds
      /\ \A w \in Workers : rfd[w] # NoFd => rfd[w] \in Fds
  <2>1. TypeOK => \A n \in Queued : n \in Fds
    BY ElementOfSeq DEF TypeOK, Queued
  <2>2. \A n \in Reported \union Served : n \in Fds
    BY DEF TypeOK, Reported, Served
  <2> QED
    BY <2>1, <2>2, ServerAssumption DEF TypeOK, Owned
<1>1. CASE EpollWait
  <2> DEFINE ready == {n \in Fds : interest[n] = "armed" /\ Readable(n)}
  <2>1. /\ batch = {}
        /\ batch' = {[fd |-> n, hup |-> peer[sock[n]] = "gone"] : n \in ready}
        /\ interest' = [n \in Fds |-> IF n \in ready THEN "disarmed"
                                                     ELSE interest[n]]
        /\ UNCHANGED <<sock, pending, serving, rfd>>
    BY <1>1 DEF EpollWait
  <2>2. \A n \in ready : sock[n] \in Conns /\ interest[n] = "armed"
    BY DEF Readable
  <2>3. Reported' = ready
    <3> DEFINE E(n) == [fd |-> n, hup |-> peer[sock[n]] = "gone"]
    <3>1. batch' = {E(n) : n \in ready}
      BY <2>1, Zenon
    <3>2. \A n : E(n).fd = n
      OBVIOUS
    <3> HIDE DEF E, ready
    <3> QED
      BY <3>1, <3>2 DEF Reported
  <2>4. Queued' = Queued /\ Served' = Served
    BY <2>1 DEF Queued, Served
  <2>5. \A d, e \in batch' : d.fd = e.fd => d = e
    BY <2>1
  <2>6. ready \intersect (Queued \union Served) = {}
    BY <2>2 DEF Owners, Owned
  <2>7. \A n \in Owned' : interest'[n] # "armed" /\ sock'[n] \in Conns
    BY <1>0, <2>1, <2>2, <2>3, <2>4 DEF Owners, Owned
  <2> HIDE DEF ready
  <2>8. Owners'
    BY <2>1, <2>3, <2>4, <2>5, <2>6, <2>7 DEF Owners
  <2> QED
    BY <2>1, <2>8 DEF Backups
<1>2. CASE Accept
  <2> DEFINE n == Lowest(FreeFds)
  <2>1. n \in Fds /\ sock[n] = None
    BY <1>2, LowestFree DEF Accept, FreeFds
  <2>2. /\ sock' = [sock EXCEPT ![n] = Head(backlog)]
        /\ interest' = [interest EXCEPT ![n] = "armed"]
        /\ UNCHANGED <<batch, pending, serving, rfd>>
    BY <1>2 DEF Accept
  <2>3. Owned' = Owned
    BY <2>2 DEF Owned, Reported, Queued, Served
  <2>4. n \notin Owned
    BY <1>0, <2>1 DEF Owners
  <2> HIDE DEF n
  <2>5. \A k \in Owned' : interest'[k] # "armed" /\ sock'[k] \in Conns
    BY <1>0, <2>2, <2>3, <2>4 DEF Owners
  <2>6. Owners'
    <3>1. /\ Reported' = Reported /\ Queued' = Queued
          /\ Served' = Served
      BY <2>2 DEF Reported, Queued, Served
    <3> QED
      BY <2>2, <2>5, <3>1 DEF Owners
  <2>7. Backups'
    BY <1>0, <2>1, <2>2 DEF Backups
  <2> QED
    BY <2>6, <2>7
<1>3. CASE AcceptFails
  <2>1. UNCHANGED <<sock, interest, batch, pending, serving, rfd>>
    BY <1>3 DEF AcceptFails
  <2>2. /\ Reported' = Reported /\ Queued' = Queued
        /\ Served' = Served /\ Owned' = Owned
    BY <2>1 DEF Owned, Reported, Queued, Served
  <2> QED
    BY <2>1, <2>2 DEF Owners, Backups
<1>4. ASSUME NEW e \in batch, HandleHup(e) PROVE Owners' /\ Backups'
  <2>1. /\ sock' = [sock EXCEPT ![e.fd] = None]
        /\ interest' = [interest EXCEPT ![e.fd] = "off"]
        /\ batch' = batch \ {e}
        /\ UNCHANGED <<pending, serving, rfd>>
    BY <1>4 DEF HandleHup
  <2>2. e.fd \in Reported /\ e.fd \in Fds
    BY <1>0 DEF Reported
  <2>3. /\ Reported' = Reported \ {e.fd}
        /\ Queued' = Queued /\ Served' = Served
    BY <2>1 DEF Owners, Reported, Queued, Served
  <2>4. e.fd \notin Queued \union Served
    BY <2>2 DEF Owners
  <2>5. \A k \in Owned' : k # e.fd /\ k \in Owned
    BY <2>3, <2>4 DEF Owned
  <2>6. \A k \in Owned' : interest'[k] # "armed" /\ sock'[k] \in Conns
    BY <1>0, <2>1, <2>5 DEF Owners
  <2>7. Owners'
    BY <2>1, <2>3, <2>6 DEF Owners
  <2>8. sock[e.fd] \in Conns
    BY <2>2 DEF Owners, Owned
  <2>9. Backups'
    BY <1>0, <2>1, <2>2, <2>8 DEF Backups
  <2> QED
    BY <2>7, <2>9
<1>5. ASSUME NEW e \in batch, HandleIn(e) PROVE Owners' /\ Backups'
  <2>1. /\ batch' = batch \ {e}
        /\ pending' \in {pending, Append(pending, e.fd)}
        /\ UNCHANGED <<sock, interest, serving, rfd>>
    BY <1>5 DEF HandleIn, Pool!Submit
  <2>2. e.fd \in Reported /\ e.fd \in Fds
    BY <1>0 DEF Reported
  <2>3. Reported' = Reported \ {e.fd} /\ Served' = Served
    BY <2>1 DEF Owners, Reported, Served
  <2>4. e.fd \notin Queued /\ e.fd \notin Served
    BY <2>2 DEF Owners
  <2>5. /\ Queued' \subseteq Queued \union {e.fd}
        /\ Distinct(pending')
    <3>1. CASE pending' = pending
      BY <3>1 DEF Queued, Owners
    <3>2. CASE pending' = Append(pending, e.fd)
      <4>1. Distinct(pending) /\ e.fd \notin Elems(pending)
        BY <2>4 DEF Owners, Queued, Elems
      <4>2. /\ Elems(Append(pending, e.fd)) = Elems(pending) \union {e.fd}
            /\ Distinct(Append(pending, e.fd))
        BY <1>0, <2>2, <4>1, AppendElems
      <4> QED
        BY <3>2, <4>2 DEF Queued, Elems
    <3> QED
      BY <2>1, <3>1, <3>2
  <2>6. Owned' \subseteq Owned
    BY <2>2, <2>3, <2>5 DEF Owned
  <2>7. /\ Reported' \intersect (Queued' \union Served') = {}
        /\ Queued' \intersect Served' = {}
    BY <2>3, <2>4, <2>5 DEF Owners
  <2>8. Owners'
    BY <2>1, <2>5, <2>6, <2>7 DEF Owners
  <2> QED
    BY <2>1, <2>8 DEF Backups
<1> QED
  BY <1>1, <1>2, <1>3, <1>4, <1>5 DEF MainStep

\* The workers: a monitor passes from the queue to one of them, until its
\* process() returns.
LEMMA OwnersWorker ==
    ASSUME TypeOK, StepInv, Owners, Backups, NEW w \in Workers,
           WorkerStep(w)
    PROVE  Owners' /\ Backups'
<1> USE DEF connVars, loopVars, poolVars, workVars, clientVars
<1>0. /\ {None, File} \intersect Conns = {} /\ None # File
      /\ NoFd \notin Fds
      /\ sock \in [Fds -> Conns \union {None, File}]
      /\ pending \in Seq(Fds)
      /\ serving \in [Workers -> Fds \union {NoFd}]
      /\ rfd \in [Workers -> Fds \union {NoFd}]
  BY ServerAssumption DEF TypeOK
<1>1. CASE TakeMonitor(w)
  <2>1. /\ serving[w] = NoFd /\ pending # <<>>
        /\ pending' = Tail(pending)
        /\ serving' = [serving EXCEPT ![w] = Head(pending)]
        /\ UNCHANGED <<sock, interest, batch, rfd>>
    BY <1>1 DEF TakeMonitor, Pool!Take
  <2> DEFINE n == Head(pending)
  <2>2. Distinct(pending) /\ Queued = Elems(pending)
    BY DEF Owners, Queued, Elems
  <2>3. /\ n \in Queued
        /\ Queued' = Queued \ {n}
        /\ Distinct(pending')
    BY <1>0, <2>1, <2>2, TailElems DEF Queued, Elems
  <2>4. n \in Fds
    BY <1>0, <2>1, HeadTailProperties
  <2> HIDE DEF n
  <2>5. Served' = Served \union {n} /\ Reported' = Reported
    BY <1>0, <2>1, <2>4 DEF Served, Reported, n
  <2>6. n \notin Reported /\ n \notin Served
    BY <2>3 DEF Owners
  <2>7. \A v \in Workers : serving[v] # n
    BY <1>0, <2>4, <2>6 DEF Served
  <2>8. \A u, v \in Workers : serving'[u] = serving'[v] /\ u # v =>
                                 serving'[u] = NoFd
    BY <1>0, <2>1, <2>7 DEF Owners, n
  <2>9. Owned' \subseteq Owned
    BY <2>3, <2>5 DEF Owned
  <2>10. /\ Reported' \intersect (Queued' \union Served') = {}
         /\ Queued' \intersect Served' = {}
    BY <2>3, <2>5, <2>6 DEF Owners
  <2>11. Owners'
    BY <2>1, <2>3, <2>8, <2>9, <2>10 DEF Owners
  <2> QED
    BY <2>1, <2>11 DEF Backups
<1>2. CASE RecvEnds(w)
  <2>1. /\ serving' = [serving EXCEPT ![w] = NoFd]
        /\ UNCHANGED <<pending, sock, interest, batch, rfd>>
    BY <1>2 DEF RecvEnds, Pool!Finish
  <2>2. /\ Served' \subseteq Served
        /\ Reported' = Reported /\ Queued' = Queued
    BY <1>0, <2>1 DEF Served, Reported, Queued
  <2>3. \A u, v \in Workers : serving'[u] = serving'[v] /\ u # v =>
                                 serving'[u] = NoFd
    BY <1>0, <2>1 DEF Owners
  <2>4. Owned' \subseteq Owned
    BY <2>2 DEF Owned
  <2>5. Owners'
    BY <2>1, <2>2, <2>3, <2>4 DEF Owners
  <2> QED
    BY <2>1, <2>5 DEF Backups
<1>3. CASE Recv(w) \/ Backup(w) \/ IgnoreSign(w) \/ RecoverSend(w)
  <2>1. UNCHANGED <<sock, interest, batch, pending, serving, rfd>>
    BY <1>3 DEF Recv, Backup, IgnoreSign, RecoverSend
  <2> QED
    BY <2>1 DEF Owners, Backups, Owned, Reported, Queued, Served
<1>4. ASSUME UNCHANGED <<interest, batch, pending, serving>>,
             \A n \in Fds : sock[n] \in Conns => sock'[n] \in Conns
      PROVE  Owners'
  <2>1. /\ Owned' = Owned /\ Reported' = Reported
        /\ Queued' = Queued /\ Served' = Served
    BY <1>4 DEF Owned, Reported, Queued, Served
  <2>2. \A n \in Owned : n \in Fds
    <3>1. TypeOK => \A n \in Queued : n \in Fds
      BY ElementOfSeq DEF TypeOK, Queued
    <3> QED
      BY <3>1 DEF TypeOK, Reported, Served, Owned
  <2> QED
    BY <1>4, <2>1, <2>2 DEF Owners
<1>5. CASE Recover(w)
  <2>1. UNCHANGED <<interest, batch, pending, serving>>
    BY <1>5 DEF Recover
  <2>2. CASE FileLen(Transf(masg[serving[w]].file)) = 0 \/ FreeFds = {}
    <3>1. sock' = sock /\ rfd' = rfd
      BY <1>5, <2>2 DEF Recover
    <3> QED
      BY <1>4, <2>1, <3>1 DEF Backups
  <2>3. CASE ~(FileLen(Transf(masg[serving[w]].file)) = 0 \/ FreeFds = {})
    <3> DEFINE n == Lowest(FreeFds)
    <3>1. n \in Fds /\ sock[n] = None
      BY <2>3, LowestFree DEF FreeFds
    <3>2. /\ sock' = [sock EXCEPT ![n] = File]
          /\ rfd' = [rfd EXCEPT ![w] = n]
      BY <1>5, <2>3 DEF Recover
    <3> HIDE DEF n
    <3>3. Owners'
      BY <1>0, <1>4, <2>1, <3>1, <3>2
    <3>4. \A v \in Workers : rfd[v] # n
      BY <1>0, <3>1 DEF Backups
    <3>5. Backups'
      BY <1>0, <3>1, <3>2, <3>4 DEF Backups
    <3> QED
      BY <3>3, <3>5
  <2> QED
    BY <2>2, <2>3
<1>6. CASE RecoverEnds(w)
  <2>1. /\ rfd[w] # NoFd
        /\ sock' = [sock EXCEPT ![rfd[w]] = None]
        /\ rfd' = [rfd EXCEPT ![w] = NoFd]
        /\ UNCHANGED <<interest, batch, pending, serving>>
    BY <1>6 DEF RecoverEnds
  <2>2. sock[rfd[w]] = File
    BY <2>1 DEF Backups
  <2>3. Owners'
    BY <1>0, <1>4, <2>1, <2>2
  <2>4. Backups'
    BY <1>0, <2>1 DEF Backups
  <2> QED
    BY <2>3, <2>4
<1> QED
  BY <1>1, <1>2, <1>3, <1>5, <1>6 DEF WorkerStep, RunStep

\* Owners and backups are right in every reachable state.
LEMMA OwnersStep ==
    TypeOK /\ StepInv /\ Owners /\ Backups /\ [Next]_vars
        => Owners' /\ Backups'
<1> SUFFICES ASSUME TypeOK, StepInv, Owners, Backups, [Next]_vars
             PROVE  Owners' /\ Backups'
  OBVIOUS
<1>1. ASSUME UNCHANGED <<sock, interest, batch, pending, serving, rfd>>
      PROVE  Owners' /\ Backups'
  <2>1. /\ Reported' = Reported /\ Queued' = Queued
        /\ Served' = Served /\ Owned' = Owned
    BY <1>1 DEF Owned, Reported, Queued, Served
  <2> QED
    BY <1>1, <2>1 DEF Owners, Backups
<1> USE DEF connVars, loopVars, poolVars, workVars, clientVars
<1>2. CASE ClientStep
  BY <1>1, <1>2 DEF ClientStep, Connect, Leave, SendBlock, SendAsk, Send
<1>3. CASE HeartCreateFails \/ \E e \in batch : CancelCrashes(e)
  BY <1>1, <1>3 DEF HeartCreateFails, CancelCrashes
<1>4. CASE \E n \in Fds : Heart(n)
  BY <1>1, <1>4 DEF Heart
<1>5. CASE UNCHANGED vars
  BY <1>1, <1>5 DEF vars
<1> QED
  BY <1>2, <1>3, <1>4, <1>5, OwnersMain, OwnersWorker DEF Next

\* Types, owners and backups together.
LEMMA OwnersInvariant == Spec => [](TypeOK /\ StepInv /\ Owners /\ Backups)
<1>1. Init => Owners /\ Backups
  BY EmptySeq
  DEF Init, Pool!Init, Owners, Backups, Owned, Reported, Queued, Served,
      Distinct
<1> QED
  BY <1>1, TypeInit, TypeStep, OwnersStep, PTL DEF Spec

(***************************************************************************)
(* A monitor has one owner at a time, for any number of connections,       *)
(* workers and descriptors: EPOLLONESHOT without a modfd() suffices.       *)
(***************************************************************************)
THEOREM MonitorsExclusive == Spec => []MonitorExclusive
  BY OwnersInvariant, OwnersAre, PTL

(***************************************************************************)
(* Descriptors in use are open and are what they were, although the main   *)
(* thread closes descriptors and the kernel hands them out again.          *)
(***************************************************************************)
THEOREM HandlesAreOpen == Spec => []HandlesOpen
  BY OwnersInvariant, OwnersAre, PTL

(***************************************************************************)
(* append() never refuses a connection if the queue is as long as there    *)
(* are descriptors: requests in the queue are for different connections,   *)
(* and for none that epoll has just reported.                              *)
(***************************************************************************)
THEOREM RoomToAppend == Spec => []AppendHasRoom
<1>1. TypeOK /\ Owners => AppendHasRoom
  <2> SUFFICES ASSUME TypeOK, Owners, Capacity >= Cardinality(Fds),
                      NEW e \in batch
               PROVE  Len(pending) < Capacity
    BY DEF AppendHasRoom
  <2> DEFINE L == Len(pending)
             Others == Fds \ {e.fd}
             f == [i \in 1 .. L |-> pending[i]]
  <2>1. e.fd \in Fds /\ pending \in Seq(Fds) /\ L \in Nat
    BY LenProperties DEF TypeOK
  <2>2. \A i \in 1 .. L : pending[i] \in Fds /\ pending[i] # e.fd
    <3>1. e.fd \in Reported
      BY DEF Reported
    <3>2. \A i \in 1 .. L : pending[i] \in Queued
      BY DEF Queued
    <3> QED
      BY <2>1, <3>1, <3>2, ElementOfSeq DEF Owners
  <2>3. f \in Injection(1 .. L, Others)
    BY <2>2 DEF Owners, Distinct, Injection, IsInjective
  <2>4. /\ IsFiniteSet(Others) /\ Cardinality(Fds) \in Nat
        /\ Cardinality(Others) = Cardinality(Fds) - 1
    BY <2>1, ServerAssumption, FS_CardinalityType, FS_RemoveElement
  <2>5. Cardinality(1 .. L) = L
    <3> HIDE DEF L
    <3> QED
      BY <2>1, FS_Interval
  <2>6. L <= Cardinality(Others)
    BY <2>3, <2>4, <2>5, FS_Injection
  <2> HIDE DEF L, Others
  <2> QED
    BY <2>1, <2>4, <2>6, ServerAssumption DEF L
<1> QED
  BY <1>1, OwnersInvariant, PTL

-----------------------------------------------------------------------------
(***************************************************************************)
(* Messages, backups and replies                                           *)
(***************************************************************************)

\* The steps that add messages, and the ones that take them.
LEMMA Sending ==
    ASSUME TypeOK, [Next]_vars
    PROVE  \/ UNCHANGED <<sent, stream>>
           \/ \E c \in Conns, m \in Messages, n \in Nat :
                 m.file \in Files /\ Send(c, m, n)
           \/ \E w \in Workers : Recv(w)
<1> USE DEF connVars, loopVars, poolVars, workVars, clientVars
<1>1. CASE \E c \in Conns : Connect(c) \/ Leave(c)
  BY <1>1 DEF Connect, Leave
<1>2. ASSUME NEW c \in BlockConns, SendBlock(c)
      PROVE  \E m \in Messages, n \in Nat :
                c \in Conns /\ m.file \in Files /\ Send(c, m, n)
  <2>1. PICK m \in [sign : Signs, file : Files, blk : Blocks, val : Vals] :
           Send(c, m, TagLen)
    BY <1>2 DEF SendBlock
  <2>2. m \in Messages /\ c \in Conns /\ TagLen \in Nat
    BY ServerAssumption DEF Messages, Names, Conns
  <2> QED
    BY <2>1, <2>2
<1>3. ASSUME NEW c \in AskConns, SendAsk(c)
      PROVE  \E m \in Messages, n \in Nat :
                c \in Conns /\ m.file \in Files /\ Send(c, m, n)
  <2>1. PICK f \in Files :
           Send(c, [sign |-> 1, file |-> f, blk |-> 0, val |-> Junk], RecvLen)
    BY <1>3 DEF SendAsk
  <2>2. /\ [sign |-> 1, file |-> f, blk |-> 0, val |-> Junk] \in Messages
        /\ c \in Conns /\ RecvLen \in Nat
    BY ServerAssumption DEF Messages, Names, Conns, Signs, Blocks
  <2> QED
    BY <2>1, <2>2
<1>4. CASE MainStep
  BY <1>4 DEF MainStep, EpollWait, Accept, AcceptFails, HandleHup, HandleIn
<1>5. CASE HeartCreateFails \/ \E e \in batch : CancelCrashes(e)
  BY <1>5 DEF HeartCreateFails, CancelCrashes
<1>6. ASSUME NEW w \in Workers, WorkerStep(w)
      PROVE  UNCHANGED <<sent, stream>> \/ Recv(w)
  BY <1>6 DEF WorkerStep, RunStep, TakeMonitor, RecvEnds, Backup, IgnoreSign,
              Recover, RecoverSend, RecoverEnds
<1>7. CASE (\E n \in Fds : Heart(n)) \/ UNCHANGED vars
  BY <1>7 DEF Heart, vars
<1> QED
  BY <1>1, <1>2, <1>3, <1>4, <1>5, <1>6, <1>7 DEF Next, ClientStep

\* What a step of a client adds to what it has sent.
LEMMA SendAdds ==
    ASSUME TypeOK, NEW c \in Conns, NEW m \in Messages, NEW n \in Nat,
           Send(c, m, n)
    PROVE  \A d \in Conns : /\ SentBy(d) \subseteq SentBy(d)'
                            /\ SentBy(d)' \subseteq SentBy(d) \union {m}
                            /\ d = c => m \in SentBy(d)'
<1> SUFFICES ASSUME NEW d \in Conns
             PROVE  /\ SentBy(d) \subseteq SentBy(d)'
                    /\ SentBy(d)' \subseteq SentBy(d) \union {m}
                    /\ d = c => m \in SentBy(d)'
  OBVIOUS
<1>1. /\ sent' = [sent EXCEPT ![c] = Append(@, m)]
      /\ sent \in [Conns -> Seq(Messages)]
      /\ sent[c] \in Seq(Messages)
  BY DEF TypeOK, Send
<1>2. CASE d # c
  BY <1>1, <1>2 DEF SentBy
<1>3. CASE d = c
  <2> DEFINE s == sent[c]
             L == Len(s)
             t == Append(s, m)
  <2>1. /\ Len(t) = L + 1 /\ L \in Nat
        /\ \A i \in 1 .. L : t[i] = s[i]
        /\ t[L + 1] = m
    BY <1>1, AppendProperties, LenProperties
  <2>2. SentBy(d) = {s[i] : i \in 1 .. L}
    BY <1>3 DEF SentBy
  <2>3. SentBy(d)' = {t[i] : i \in 1 .. Len(t)}
    BY <1>1, <1>3 DEF SentBy
  <2> HIDE DEF s, L, t
  <2> QED
    BY <2>1, <2>2, <2>3
<1> QED
  BY <1>2, <1>3

\* What was sent stays sent.
LEMMA SentGrows ==
    ASSUME TypeOK, [Next]_vars
    PROVE  /\ \A c \in Conns : SentBy(c) \subseteq SentBy(c)'
           /\ AllSent \subseteq AllSent'
<1>1. ASSUME NEW c \in Conns PROVE SentBy(c) \subseteq SentBy(c)'
  <2>1. CASE sent' = sent
    BY <2>1 DEF SentBy
  <2>2. CASE \E d \in Conns, m \in Messages, n \in Nat : Send(d, m, n)
    BY <2>2, SendAdds
  <2> QED
    BY <2>1, <2>2, Sending DEF Recv
<1>2. AllSent = UNION {SentBy(c) : c \in Conns}
  BY DEF AllSent, SentBy
<1>3. AllSent' = UNION {SentBy(c)' : c \in Conns}
  BY DEF AllSent, SentBy
<1> QED
  BY <1>1, <1>2, <1>3

\* The bytes of a message arrive behind the others of its connection.
LEMMA StreamSend ==
    ASSUME TypeOK, StreamsSent, NEW c \in Conns, NEW m \in Messages,
           NEW n \in Nat, Send(c, m, n)
    PROVE  StreamsSent'
<1> DEFINE u == [i \in 1 .. n |-> IF i = 1 THEN m ELSE Rest]
           s == stream[c]
           t == s \o u
<1>1. /\ stream \in [Conns -> Seq(Messages \union {Rest})]
      /\ stream' = [stream EXCEPT ![c] = t]
      /\ s \in Seq(Messages \union {Rest})
  BY DEF TypeOK, Send
<1>2. /\ u \in Seq(Messages \union {Rest}) /\ Len(u) = n
      /\ \A i \in 1 .. n : u[i] \in {m, Rest}
  <2>1. u \in Seq(Messages \union {Rest})
    BY IsASeq
  <2>2. DOMAIN u = 1 .. n /\ Len(u) \in Nat /\ DOMAIN u = 1 .. Len(u)
    BY <2>1, LenProperties
  <2>3. Len(u) = n
    <3> HIDE DEF u
    <3> QED
      BY <2>2
  <2> QED
    BY <2>1, <2>3
<1> HIDE DEF u
<1>3. ASSUME NEW i \in 1 .. Len(t)
      PROVE  t[i] \in {m, Rest} \/ \E k \in 1 .. Len(s) : t[i] = s[k]
  <2>1. /\ Len(t) = Len(s) + n /\ Len(s) \in Nat
        /\ t[i] = IF i <= Len(s) THEN s[i] ELSE u[i - Len(s)]
    <3> HIDE DEF s
    <3>1. /\ s \in Seq(Messages \union {Rest})
          /\ u \in Seq(Messages \union {Rest}) /\ Len(u) = n
      BY <1>1, <1>2
    <3>2. Len(t) = Len(s) + n /\ Len(s) \in Nat
      BY <3>1, ConcatProperties, LenProperties
    <3>3. t[i] = IF i <= Len(s) THEN s[i] ELSE u[i - Len(s)]
      BY <3>1, <3>2, ConcatProperties
    <3> QED
      BY <3>2, <3>3
  <2> HIDE DEF s, t
  <2>2. CASE i <= Len(s)
    BY <2>1, <2>2
  <2>3. CASE ~(i <= Len(s))
    <3>1. i - Len(s) \in 1 .. n
      BY <2>1, <2>3
    <3> QED
      BY <1>2, <2>1, <2>3, <3>1
  <2> QED
    BY <2>2, <2>3
<1> HIDE DEF t
<1>4. ASSUME NEW d \in Conns, NEW i \in 1 .. Len(stream'[d])
      PROVE  stream'[d][i] \in SentBy(d)' \union {Rest}
  <2>1. CASE d # c
    BY <1>1, <2>1, SendAdds DEF StreamsSent
  <2>2. CASE d = c
    <3>1. stream'[d] = t
      BY <1>1, <2>2
    <3>2. \A k \in 1 .. Len(s) : s[k] \in SentBy(d)' \union {Rest}
      BY <2>2, SendAdds DEF StreamsSent
    <3> QED
      BY <1>3, <2>2, <3>1, <3>2, SendAdds
  <2> QED
    BY <2>1, <2>2
<1> QED
  BY <1>4 DEF StreamsSent

\* recv() takes the first bytes of the stream away.
LEMMA StreamRecv ==
    ASSUME TypeOK, StepInv, StreamsSent, NEW w \in Workers, Recv(w)
    PROVE  StreamsSent'
<1> DEFINE c == sock[serving[w]]
           s == stream[c]
           L == Len(s)
<1>1. PICK len \in 1 .. L :
         stream' = [stream EXCEPT ![c] = SubSeq(@, len + 1, Len(@))]
  BY RecvMessage
<1>2. /\ c \in Conns /\ s \in Seq(Messages \union {Rest}) /\ L \in Nat
      /\ stream \in [Conns -> Seq(Messages \union {Rest})]
  BY RecvMessage, LenProperties DEF TypeOK
<1>3. \A d \in Conns : SentBy(d)' = SentBy(d)
  BY DEF Recv, SentBy
<1> DEFINE t == SubSeq(s, len + 1, L)
<1>4. stream' = [stream EXCEPT ![c] = t]
  BY <1>1
<1>5. ASSUME NEW i \in 1 .. Len(t) PROVE \E k \in 1 .. L : t[i] = s[k]
  <2> HIDE DEF s
  <2>1. /\ \A k \in len + 1 .. L : s[k] \in Messages \union {Rest}
        /\ s \in Seq(Messages \union {Rest})
        /\ len + 1 \in Int /\ L \in Int
    BY <1>2, ElementOfSeq
  <2> HIDE DEF L
  <2>2. Len(t) = IF len + 1 <= L THEN L - len ELSE 0
    BY <1>2, <2>1, SubSeqProperties
  <2>3. t[i] = s[(len + 1) + i - 1]
    BY <1>2, <2>1, SubSeqProperties
  <2> HIDE DEF t
  <2>4. (len + 1) + i - 1 \in 1 .. L
    BY <1>2, <2>2
  <2> QED
    BY <2>3, <2>4
<1> HIDE DEF t
<1>6. ASSUME NEW d \in Conns, NEW i \in 1 .. Len(stream'[d])
      PROVE  stream'[d][i] \in SentBy(d) \union {Rest}
  <2>1. CASE d # c
    BY <1>2, <1>4, <2>1 DEF StreamsSent
  <2>2. CASE d = c
    <3>1. stream'[d] = t
      BY <1>2, <1>4, <2>2
    <3>2. \A k \in 1 .. L : s[k] \in SentBy(d) \union {Rest}
      BY <1>2, <2>2 DEF StreamsSent
    <3> QED
      BY <1>5, <3>1, <3>2
  <2> QED
    BY <2>1, <2>2
<1> QED
  BY <1>3, <1>6 DEF StreamsSent

\* A client names a file in all it sends.
LEMMA SentFilesStep ==
    ASSUME TypeOK, SentFiles, [Next]_vars
    PROVE  SentFiles'
<1>1. CASE sent' = sent
  BY <1>1 DEF SentFiles, SentBy
<1>2. ASSUME NEW c \in Conns, NEW m \in Messages, NEW n \in Nat,
             m.file \in Files, Send(c, m, n)
      PROVE  SentFiles'
  BY <1>2, SendAdds DEF SentFiles
<1> QED
  BY <1>1, <1>2, Sending DEF Recv

\* Nothing else touches the streams.
LEMMA StreamsStep ==
    ASSUME TypeOK, StepInv, StreamsSent, [Next]_vars
    PROVE  StreamsSent'
<1>1. CASE UNCHANGED <<sent, stream>>
  BY <1>1 DEF StreamsSent, SentBy
<1> QED
  BY <1>1, Sending, StreamSend, StreamRecv

\* The first message of a stream was sent, unless it is no message.
LEMMA HeadSent ==
    ASSUME TypeOK, StreamsSent, NEW c \in Conns, stream[c] # <<>>
    PROVE  Head(stream[c]) \in SentBy(c) \union {Rest}
<1>1. stream[c] \in Seq(Messages \union {Rest})
  BY DEF TypeOK
<1>2. 1 \in 1 .. Len(stream[c]) /\ Head(stream[c]) = stream[c][1]
  BY <1>1, HeadTailProperties, LenProperties, EmptySeq
<1> QED
  BY <1>2 DEF StreamsSent

\* A worker keeps its connection and its message while it handles it.
LEMMA MonitorsStep ==
    ASSUME TypeOK, StepInv, Owners, Backups, StreamsSent, MonitorsSent,
           [Next]_vars
    PROVE  MonitorsSent'
<1> USE DEF connVars, loopVars, poolVars, workVars, clientVars
<1> SUFFICES ASSUME NEW w \in Workers, NEW c \in Conns,
                    step'[w] \in {"handle", "recover"},
                    sock'[serving'[w]] = c
             PROVE  \/ Misread(masg'[serving'[w]])
                    \/ masg'[serving'[w]] \in SentBy(c)'
  BY DEF MonitorsSent, Misread
<1>0. /\ {None, File} \intersect Conns = {} /\ None # File
      /\ sock \in [Fds -> Conns \union {None, File}]
      /\ masg \in [Fds -> Messages]
      /\ step \in [Workers -> {"idle", "recv", "handle", "recover"}]
      /\ serving \in [Workers -> Fds \union {NoFd}]
  BY ServerAssumption DEF TypeOK
<1>1. ASSUME step[w] # "idle"
      PROVE  /\ serving[w] \in Fds /\ sock[serving[w]] \in Conns
             /\ serving[w] \in Served
  BY <1>1 DEF TypeOK, StepInv, Owners, Owned, Served
<1>2. ASSUME step[w] \in {"handle", "recover"}, serving'[w] = serving[w],
             masg'[serving[w]] = masg[serving[w]],
             sock'[serving[w]] = sock[serving[w]]
      PROVE  \/ Misread(masg'[serving'[w]])
             \/ masg'[serving'[w]] \in SentBy(c)'
  BY <1>2, SentGrows DEF MonitorsSent
<1>3. CASE ClientStep \/ HeartCreateFails
           \/ (\E e \in batch : CancelCrashes(e))
           \/ (\E n \in Fds : Heart(n)) \/ UNCHANGED vars
  <2>1. UNCHANGED <<step, serving, masg, sock>>
    BY <1>3 DEF ClientStep, Connect, Leave, SendBlock, SendAsk, Send,
                HeartCreateFails, CancelCrashes, Heart, vars
  <2> QED
    BY <1>2, <2>1
<1>4. CASE EpollWait \/ AcceptFails \/ \E e \in batch : HandleIn(e)
  <2>1. UNCHANGED <<step, masg, sock, serving>>
    BY <1>4 DEF EpollWait, AcceptFails, HandleIn, Pool!Submit
  <2> QED
    BY <1>2, <2>1
<1>5. CASE Accept
  <2>1. PICK n \in Fds : /\ sock[n] = None
                         /\ sock' = [sock EXCEPT ![n] = Head(backlog)]
                         /\ masg' = [masg EXCEPT ![n] = Blank]
    BY <1>5, LowestFree DEF Accept, FreeFds
  <2>2. step' = step /\ serving' = serving
    BY <1>5 DEF Accept
  <2>3. serving[w] # n
    BY <1>0, <1>1, <2>1, <2>2
  <2> QED
    BY <1>0, <1>1, <1>2, <2>1, <2>2, <2>3
<1>6. ASSUME NEW e \in batch, HandleHup(e)
      PROVE  \/ Misread(masg'[serving'[w]])
             \/ masg'[serving'[w]] \in SentBy(c)'
  <2>1. /\ sock' = [sock EXCEPT ![e.fd] = None]
        /\ UNCHANGED <<step, serving, masg>>
    BY <1>6 DEF HandleHup
  <2>2. e.fd \in Reported
    BY DEF Reported
  <2>3. serving[w] # e.fd
    BY <1>1, <2>1, <2>2 DEF Owners
  <2> QED
    BY <1>0, <1>1, <1>2, <2>1, <2>3
<1>7. ASSUME NEW v \in Workers, v # w, WorkerStep(v)
      PROVE  \/ Misread(masg'[serving'[w]])
             \/ masg'[serving'[w]] \in SentBy(c)'
  <2>1. step'[w] = step[w] /\ serving'[w] = serving[w]
    BY <1>0, <1>7
    DEF WorkerStep, RunStep, TakeMonitor, Recv, RecvEnds, Backup, IgnoreSign,
        Recover, RecoverSend, RecoverEnds, Pool!Take, Pool!Finish
  <2>2. sock'[serving[w]] = sock[serving[w]]
    <3>1. CASE Recover(v)
      <4>1. \/ sock' = sock
            \/ \E n \in Fds : /\ sock[n] = None
                              /\ sock' = [sock EXCEPT ![n] = File]
        BY <3>1, LowestFree DEF Recover, FreeFds
      <4> QED
        BY <1>0, <1>1, <2>1, <4>1
    <3>2. CASE RecoverEnds(v)
      <4>1. /\ sock[rfd[v]] = File
            /\ sock' = [sock EXCEPT ![rfd[v]] = None]
        BY <3>2 DEF RecoverEnds, Backups
      <4> QED
        BY <1>0, <1>1, <2>1, <4>1
    <3>3. CASE ~Recover(v) /\ ~RecoverEnds(v)
      BY <1>7, <3>3
      DEF WorkerStep, RunStep, TakeMonitor, Recv, RecvEnds, Backup, IgnoreSign,
          RecoverSend
    <3> QED
      BY <3>1, <3>2, <3>3
  <2>3. masg'[serving[w]] = masg[serving[w]]
    <3>1. CASE Recv(v)
      <4>1. /\ serving[v] \in Fds
            /\ \E m \in Messages : masg' = [masg EXCEPT ![serving[v]] = m]
        BY <3>1, RecvMessage
      <4>2. serving[v] # serving[w]
        BY <1>0, <1>1, <1>7, <2>1, ServerAssumption DEF Owners
      <4> QED
        BY <1>0, <1>1, <2>1, <4>1, <4>2
    <3>2. CASE ~Recv(v)
      BY <1>7, <3>2
      DEF WorkerStep, RunStep, TakeMonitor, RecvEnds, Backup, IgnoreSign,
          Recover, RecoverSend, RecoverEnds
    <3> QED
      BY <3>1, <3>2
  <2> QED
    BY <1>2, <2>1, <2>2, <2>3
<1>8. CASE Recv(w)
  <2>1. /\ serving[w] \in Fds /\ sock[serving[w]] \in Conns
        /\ stream[sock[serving[w]]] # <<>>
    BY <1>8, RecvMessage
  <2>2. PICK m \in Messages :
           /\ Misread(m) \/ m = Head(stream[sock[serving[w]]])
           /\ masg' = [masg EXCEPT ![serving[w]] = m]
    BY <1>8, RecvMessage
  <2>3. UNCHANGED <<sock, serving, sent>>
    BY <1>8 DEF Recv
  <2>4. masg'[serving'[w]] = m /\ sock[serving[w]] = c
    BY <1>0, <2>1, <2>2, <2>3
  <2>5. Misread(m) \/ m \in SentBy(c)
    BY <2>1, <2>2, <2>4, HeadSent, ServerAssumption
  <2> QED
    BY <2>3, <2>4, <2>5 DEF SentBy
<1>9. CASE TakeMonitor(w) \/ RecvEnds(w) \/ Backup(w) \/ IgnoreSign(w)
           \/ RecoverEnds(w)
  <2>1. step'[w] \in {"recv", "idle"}
    BY <1>0, <1>9 DEF TakeMonitor, RecvEnds, Backup, IgnoreSign, RecoverEnds
  <2> QED
    BY <2>1
<1>10. CASE Recover(w)
  <2>1. \/ sock' = sock
        \/ \E n \in Fds : /\ sock[n] = None
                          /\ sock' = [sock EXCEPT ![n] = File]
    BY <1>10, LowestFree DEF Recover, FreeFds
  <2>2. step[w] = "handle" /\ serving' = serving /\ masg' = masg
    BY <1>10 DEF Recover
  <2>3. sock'[serving[w]] = sock[serving[w]]
    BY <1>0, <1>1, <2>1, <2>2
  <2> QED
    BY <1>2, <2>2, <2>3
<1>11. CASE RecoverSend(w)
  BY <1>2, <1>11 DEF RecoverSend
<1> QED
  BY <1>3, <1>4, <1>5, <1>6, <1>7, <1>8, <1>9, <1>10, <1>11
  DEF Next, MainStep, WorkerStep, RunStep

\* Messages are where they belong in every reachable state.
LEMMA MessagesInvariant ==
    Spec => [](/\ TypeOK /\ StepInv /\ Owners /\ Backups
               /\ StreamsSent /\ SentFiles /\ MonitorsSent)
<1>1. Init => StreamsSent /\ SentFiles /\ MonitorsSent
  BY DEF Init, StreamsSent, SentFiles, SentBy, MonitorsSent
<1>2. TypeOK /\ StepInv /\ Owners /\ Backups /\ StreamsSent /\ SentFiles
      /\ MonitorsSent /\ [Next]_vars
      => StreamsSent' /\ SentFiles' /\ MonitorsSent'
  BY StreamsStep, SentFilesStep, MonitorsStep
<1> QED
  BY <1>1, <1>2, OwnersInvariant, PTL DEF Spec

\* A worker that handles a message of a real file has it from a client.
LEMMA HandledWasSent ==
    ASSUME TypeOK, StepInv, Owners, MonitorsSent, NEW w \in Workers,
           step[w] \in {"handle", "recover"},
           masg[serving[w]].file # Junk
    PROVE  /\ sock[serving[w]] \in Conns
           /\ masg[serving[w]] \in SentBy(sock[serving[w]])
           /\ masg[serving[w]] \in AllSent
<1>1. sock[serving[w]] \in Conns
  BY DEF TypeOK, StepInv, Owners, Owned, Served
<1>2. masg[serving[w]] \in SentBy(sock[serving[w]])
  BY <1>1 DEF MonitorsSent, Misread
<1> QED
  BY <1>1, <1>2 DEF AllSent, SentBy

\* Only backup() writes to a backup, and it writes what its client sent.
LEMMA StoreStep ==
    ASSUME RoundTrip, TypeOK, StepInv, Owners, MonitorsSent, StoreSound,
           [Next]_vars
    PROVE  StoreSound'
<1> USE DEF connVars, loopVars, poolVars, workVars, clientVars
<1>1. AllSent \subseteq AllSent'
  BY SentGrows
<1>2. CASE store' = store
  BY <1>1, <1>2 DEF StoreSound
<1>3. ASSUME NEW w \in Workers, Backup(w), store' # store
      PROVE  StoreSound'
  <2> DEFINE m == masg[serving[w]]
             s == Transf(m.file)
  <2>1. /\ m \in Messages /\ m.file \in Names /\ s \in StoredNames
        /\ m.blk \in Blocks
    BY <1>3, InProcess DEF Backup, Messages
  <2>2. /\ store' = [store EXCEPT ![s][m.blk] = m.val]
        /\ step[w] = "handle" /\ sent' = sent
    BY <1>3 DEF Backup
  <2>3. m.file # Junk => m \in AllSent /\ m.sign = 0
    BY <1>3, <2>2, HandledWasSent DEF Backup
  <2>4. store \in [StoredNames -> [Blocks -> Vals \union {Junk, Absent}]]
    BY DEF TypeOK
  <2>5. ASSUME NEW f \in Files, NEW b \in Blocks,
               store'[Transf(f)][b] # Absent
        PROVE  \E k \in AllSent' :
                  /\ k.sign = 0 /\ k.file = f /\ k.blk = b
                  /\ k.val = store'[Transf(f)][b]
    <3>1. f \in Names /\ Transf(f) \in StoredNames /\ f # Junk
      BY ServerAssumption DEF Names, StoredNames
    <3>2. CASE Transf(f) = s /\ b = m.blk
      <4>1. Back(Transf(f)) = f /\ Back(s) = m.file
        BY <2>1, <3>1 DEF RoundTrip
      <4>2. m.file = f
        BY <3>2, <4>1
      <4> HIDE DEF m
      <4>3. store'[Transf(f)][b] = m.val
        <5> HIDE DEF s
        <5> QED
          BY <2>1, <2>2, <2>4, <3>1, <3>2
      <4>4. m \in AllSent' /\ m.sign = 0
        BY <1>1, <2>3, <3>1, <4>2
      <4> QED
        BY <3>2, <4>2, <4>3, <4>4
    <3>3. CASE ~(Transf(f) = s /\ b = m.blk)
      <4>1. store'[Transf(f)][b] = store[Transf(f)][b]
        <5> DEFINE q == Transf(f)
        <5> HIDE DEF m, s, q
        <5> QED
          BY <2>1, <2>2, <2>4, <3>1, <3>3 DEF q
      <4> QED
        BY <1>1, <2>5, <4>1 DEF StoreSound
    <3> QED
      BY <3>2, <3>3
  <2> QED
    BY <2>5 DEF StoreSound
<1>4. ASSUME NEW w \in Workers, WorkerStep(w), ~Backup(w)
      PROVE  store' = store
  BY <1>4 DEF WorkerStep, RunStep, TakeMonitor, Recv, RecvEnds, IgnoreSign,
              Recover, RecoverSend, RecoverEnds
<1>5. CASE ClientStep
  BY <1>2, <1>5 DEF ClientStep, Connect, Leave, SendBlock, SendAsk, Send
<1>6. CASE MainStep
  BY <1>2, <1>6 DEF MainStep, EpollWait, Accept, AcceptFails, HandleHup,
                    HandleIn
<1>7. CASE HeartCreateFails \/ (\E e \in batch : CancelCrashes(e))
           \/ (\E n \in Fds : Heart(n)) \/ UNCHANGED vars
  BY <1>2, <1>7 DEF HeartCreateFails, CancelCrashes, Heart, vars
<1> QED
  BY <1>2, <1>3, <1>4, <1>5, <1>6, <1>7 DEF Next

\* A backup of misread bytes is written only for a misread name: no file's
\* stored name is that of Junk.
LEMMA JunkStoredStep ==
    ASSUME RoundTrip, TypeOK, StepInv, Owners, SentFiles, MonitorsSent,
           JunkStored, [Next]_vars
    PROVE  JunkStored'
<1> USE DEF connVars, loopVars, poolVars, workVars, clientVars
<1>1. CASE store' = store
  BY <1>1 DEF JunkStored
<1>2. ASSUME NEW w \in Workers, Backup(w), store' # store
      PROVE  JunkStored'
  <2> DEFINE m == masg[serving[w]]
             s == Transf(m.file)
             j == Transf(Junk)
  <2>1. /\ m.file \in Names /\ s \in StoredNames /\ j \in StoredNames
        /\ m.blk \in Blocks /\ sock[serving[w]] \in Conns
    <3>1. m \in Messages /\ m.file \in Names /\ s \in StoredNames
      BY <1>2, InProcess DEF Backup
    <3>2. sock[serving[w]] \in Conns
      BY <1>2 DEF Backup, TypeOK, StepInv, Owners, Owned, Served
    <3> QED
      BY <3>1, <3>2 DEF Messages, StoredNames, Names
  <2>2. /\ store' = [store EXCEPT ![s][m.blk] = m.val]
        /\ step[w] = "handle"
    BY <1>2 DEF Backup
  <2>3. Back(j) = Junk /\ Back(s) = m.file
    BY <2>1 DEF RoundTrip, Names
  <2>4. s = j => m.val = Junk
    BY <2>1, <2>2, <2>3, ServerAssumption DEF MonitorsSent, Misread, SentFiles
  <2>5. store \in [StoredNames -> [Blocks -> Vals \union {Junk, Absent}]]
    BY DEF TypeOK
  <2> HIDE DEF m, s, j
  <2>6. \A b \in Blocks : store'[j][b] = store[j][b] \/ store'[j][b] = Junk
    BY <2>1, <2>2, <2>4, <2>5
  <2> QED
    BY <2>6 DEF JunkStored, j
<1>3. ASSUME NEW w \in Workers, WorkerStep(w), ~Backup(w)
      PROVE  store' = store
  BY <1>3 DEF WorkerStep, RunStep, TakeMonitor, Recv, RecvEnds, IgnoreSign,
              Recover, RecoverSend, RecoverEnds
<1>4. CASE ClientStep
  BY <1>1, <1>4 DEF ClientStep, Connect, Leave, SendBlock, SendAsk, Send
<1>5. CASE MainStep
  BY <1>1, <1>5 DEF MainStep, EpollWait, Accept, AcceptFails, HandleHup,
                    HandleIn
<1>6. CASE HeartCreateFails \/ (\E e \in batch : CancelCrashes(e))
           \/ (\E n \in Fds : Heart(n)) \/ UNCHANGED vars
  BY <1>1, <1>6 DEF HeartCreateFails, CancelCrashes, Heart, vars
<1> QED
  BY <1>1, <1>2, <1>3, <1>4, <1>5, <1>6 DEF Next

\* Types, owners, messages and backups together.
LEMMA StoreInvariant ==
    ASSUME RoundTrip
    PROVE  Spec => [](/\ TypeOK /\ StepInv /\ Owners /\ MonitorsSent
                      /\ StoreSound /\ JunkStored)
<1>1. Init => StoreSound
  <2> SUFFICES ASSUME Init, NEW f \in Files, NEW b \in Blocks
               PROVE  store[Transf(f)][b] = Absent
    BY DEF StoreSound
  <2>1. Transf(f) \in StoredNames
    BY DEF StoredNames, Names
  <2> QED
    BY <2>1 DEF Init
<1>2. Init => JunkStored
  BY DEF Init, JunkStored, StoredNames, Names
<1>3. TypeOK /\ StepInv /\ Owners /\ SentFiles /\ MonitorsSent /\ StoreSound
      /\ JunkStored /\ [Next]_vars => StoreSound' /\ JunkStored'
  BY StoreStep, JunkStoredStep
<1> QED
  BY <1>1, <1>2, <1>3, MessagesInvariant, PTL DEF Spec

(***************************************************************************)
(* For any number of workers and connections, whatever order they run in,  *)
(* and whatever is misread: a backup holds what clients sent for it.       *)
(***************************************************************************)
THEOREM BackupsAreSound ==
    ASSUME RoundTrip
    PROVE  Spec => []StoreSound
  BY StoreInvariant, PTL

\* recover() answers the connection that asked, with what was sent.
LEMMA ReplyStep ==
    ASSUME RoundTrip, TypeOK, StepInv, Owners, MonitorsSent, StoreSound,
           JunkStored, ReplySound, [Next]_vars
    PROVE  ReplySound'
<1> USE DEF connVars, loopVars, poolVars, workVars, clientVars
<1> DEFINE Fits(c, p) ==
             \/ p.file = Junk /\ p.val \in {Junk, Absent}
             \/ /\ \E k \in SentBy(c) : k.file = p.file
                /\ \/ p.val = Absent
                   \/ \E m \in AllSent : /\ m.sign = 0 /\ m.file = p.file
                                         /\ m.val = p.val
<1>1. ReplySound <=> \A c \in Conns : \A p \in replies[c] : Fits(c, p)
  BY DEF ReplySound, SentBy
<1>2. ReplySound' <=> \A c \in Conns : \A p \in replies'[c] : Fits(c, p)'
  BY DEF ReplySound, SentBy
<1>3. \A c \in Conns : \A p : Fits(c, p) => Fits(c, p)'
  BY SentGrows
<1> HIDE DEF Fits
<1>4. CASE replies' = replies
  BY <1>1, <1>2, <1>3, <1>4
<1>5. ASSUME NEW c \in Conns, NEW p, Fits(c, p),
             replies' = [replies EXCEPT ![c] = @ \union {p}]
      PROVE  ReplySound'
  BY <1>1, <1>2, <1>3, <1>5
<1>6. ASSUME NEW w \in Workers, RecoverSend(w) PROVE ReplySound'
  <2> DEFINE m == masg[serving[w]]
             s == Transf(m.file)
             c == sock[serving[w]]
             v == IF rfd[w] = NoFd THEN Absent ELSE store[s][rpos[w]]
             p == [file |-> Back(s), val |-> v]
  <2>1. /\ m.file \in Names /\ s \in StoredNames /\ c \in Conns
        /\ step[w] = "recover"
    BY <1>6, InProcess DEF RecoverSend
  <2>2. replies' = [replies EXCEPT ![c] = @ \union {p}]
    BY <1>6 DEF RecoverSend
  <2>3. p.file = m.file /\ p.val = v
    BY <2>1 DEF RoundTrip
  <2>4. m.file # Junk => m \in SentBy(c) /\ m.file \in Files
    BY <2>1, HandledWasSent DEF Names
  <2>5. ASSUME v # Absent
        PROVE  v = store[s][rpos[w]] /\ rpos[w] \in Blocks
    <3>1. rfd[w] # NoFd /\ v = store[s][rpos[w]]
      BY <2>5
    <3>2. rpos[w] \in Blocks
      <4>1. rpos[w] \in 0 .. NBlocks /\ rpos[w] < FileLen(s)
        BY <1>6, <3>1 DEF RecoverSend, TypeOK
      <4>2. FileLen(s) \in 0 .. NBlocks
        BY <2>1, FileLenBound
      <4> QED
        BY <4>1, <4>2, ServerAssumption DEF Blocks
    <3> QED
      BY <3>1, <3>2
  <2>6. m.file # Junk /\ v # Absent =>
           \E k \in AllSent : k.sign = 0 /\ k.file = m.file /\ k.val = v
    BY <2>4, <2>5 DEF StoreSound
  <2>7. m.file = Junk => v \in {Junk, Absent}
    BY <2>5 DEF JunkStored
  <2> HIDE DEF m, v, p, c
  <2>8. Fits(c, p)
    BY <2>3, <2>4, <2>6, <2>7 DEF Fits
  <2> QED
    BY <1>5, <2>1, <2>2, <2>8
<1>7. ASSUME NEW n \in Fds, Heart(n) PROVE ReplySound'
  <2>1. /\ sock[n] \in Conns
        /\ replies' = [replies EXCEPT ![sock[n]] = @ \union {HeartPacket}]
    BY <1>7 DEF Heart
  <2>2. Fits(sock[n], HeartPacket)
    BY DEF Fits, HeartPacket
  <2> QED
    BY <1>5, <2>1, <2>2
<1>8. CASE ClientStep
  BY <1>4, <1>8 DEF ClientStep, Connect, Leave, SendBlock, SendAsk, Send
<1>9. CASE MainStep
  BY <1>4, <1>9 DEF MainStep, EpollWait, Accept, AcceptFails, HandleHup,
                    HandleIn
<1>10. CASE HeartCreateFails \/ (\E e \in batch : CancelCrashes(e))
            \/ UNCHANGED vars
  BY <1>4, <1>10 DEF HeartCreateFails, CancelCrashes, vars
<1>11. ASSUME NEW w \in Workers, WorkerStep(w), ~RecoverSend(w)
       PROVE  ReplySound'
  BY <1>4, <1>11 DEF WorkerStep, RunStep, TakeMonitor, Recv, RecvEnds, Backup,
                     IgnoreSign, Recover, RecoverEnds
<1> QED
  BY <1>6, <1>7, <1>8, <1>9, <1>10, <1>11 DEF Next

(***************************************************************************)
(* A client is answered with what it asked for, and with what clients sent *)
(* as its backup, although descriptors and the monitors behind them are    *)
(* reused; bytes read as a message that are none are answered with nothing *)
(* of any file's backup.                                                   *)
(***************************************************************************)
THEOREM RepliesAreSound ==
    ASSUME RoundTrip
    PROVE  Spec => []ReplySound
<1>1. Init => ReplySound
  BY DEF Init, ReplySound
<1>2. TypeOK /\ StepInv /\ Owners /\ MonitorsSent /\ StoreSound
      /\ JunkStored /\ ReplySound /\ [Next]_vars => ReplySound'
  BY ReplyStep
<1> QED
  BY <1>1, <1>2, StoreInvariant, PTL DEF Spec
=============================================================================
