------------------------------- MODULE Server -------------------------------
(***************************************************************************)
(* The backup server: the event loop of src/src/server/ser.cpp and the     *)
(* per-connection monitor objects of src/src/server/monitor, on top of the *)
(* thread pool (TaskPool, which ThreadPool is shown to implement).         *)
(*                                                                         *)
(* The main thread waits in epoll_wait(), accepts connections into the     *)
(* monitor users[fd] of the descriptor it gets, closes the ones that hang  *)
(* up and appends the readable ones to the pool.  A worker runs process()  *)
(* of one monitor until its peer has gone.  Each accepted connection also  *)
(* gets a heart thread.  Clients (TransFile, Close_task and exit of        *)
(* src/src/client/main.hpp) and the kernel's sockets, descriptors and      *)
(* epoll are the environment.                                              *)
(*                                                                         *)
(* A connection's unread bytes are a sequence of units: the first unit of  *)
(* a message is the message itself, standing for its header, the others    *)
(* are Rest.  recv() takes TagLen units at a time whatever they are.       *)
(***************************************************************************)
EXTENDS Integers, Sequences, FiniteSets

CONSTANTS
    Workers,        \* threads of the pool
    BlockConns,     \* connections made by TransFile, one block each
    AskConns,       \* connections of a client's main(), for recovery
    Fds,            \* descriptors below MAX_FD that the server can get
    NoFd,           \* no descriptor, -1
    None,           \* "this descriptor is free"
    File,           \* "this descriptor is an open backup file"
    Files,          \* path names clients send
    Junk,           \* a name, or contents, made of misread bytes
    Transf(_),      \* transf_file_name() on one name: '/' becomes '@'
    Back(_),        \* recover_file_name() on one name: '@' becomes '/'
    NBlocks,        \* blocks of the longest file
    Vals,           \* contents of a block
    Absent,         \* contents of a block never written: NULs
    Rest,           \* a unit that is not the start of a message
    TagLen,         \* sizeof(TAG) in units
    RecvLen,        \* sizeof(struct recv_data) in units
    MaxAsks,        \* bound: requests sent on one connection of AskConns
    Capacity        \* requests the pool's queue holds

Conns == BlockConns \union AskConns
Blocks == 0 .. NBlocks - 1
Names == Files \union {Junk}
StoredNames == {Transf(f) : f \in Names}

\* The field sign of a message: 0 backup, 1 recover, 2 anything else.
Signs == 0 .. 2

Messages ==
    [sign : Signs, file : Names, blk : Blocks, val : Vals \union {Junk}]
HeartPacket == [file |-> Junk, val |-> Junk]

ASSUME ServerAssumption ==
    /\ BlockConns \intersect AskConns = {}
    /\ {None, File} \intersect Conns = {} /\ None # File
    /\ IsFiniteSet(Fds) /\ Fds \subseteq Nat /\ NoFd \notin Fds
    /\ Junk \notin Files /\ Junk \notin Vals /\ Absent \notin Vals
    /\ NBlocks \in Nat \ {0}
    /\ TagLen \in Nat \ {0} /\ RecvLen \in Nat /\ RecvLen >= TagLen
    /\ MaxAsks \in Nat /\ Capacity \in Nat
    /\ Rest \notin Messages
    /\ \A f \in Names : Back(Transf(f)) \in Names

VARIABLES
    up,         \* the server process runs
    backlog,    \* connections waiting in accept()'s queue
    sock,       \* the descriptor table
    interest,   \* epoll's view of a descriptor: "off", "armed", "disarmed"
    listening,  \* the batch still holds the event of listenfd
    batch,      \* events[] of the last epoll_wait() not handled yet
    pending,    \* the pool's queue; users + fd is written fd
    serving,    \* the monitor each worker runs process() of
    step,       \* where each worker is in process()
    masg,       \* masg of each monitor
    rfd,        \* the monitor's fd inside recover(), by worker
    rpos,       \* blocks of the backup sent so far, by worker
    hearts,     \* heart threads running on each monitor
    store,      \* backup files, by stored name and block
    peer,       \* the client's end: "none", "up" or "gone"
    stream,     \* bytes the server has not read yet
    sent,       \* messages each client has sent
    replies     \* packets sent to each client

\* main() never deletes the pool it has created: it is never stopped.
Pool == INSTANCE TaskPool WITH Tasks <- Fds, Null <- NoFd, stopped <- FALSE

loopVars == <<listening, batch>>
connVars == <<backlog, sock, interest>>
poolVars == <<pending, serving>>
workVars == <<step, masg, rfd, rpos>>
clientVars == <<peer, stream, sent>>
vars == <<up, backlog, sock, interest, listening, batch, pending, serving,
          step, masg, rfd, rpos, hearts, store, peer, stream, sent, replies>>

\* masg after monitor::init(): everything zero.
Blank == [sign |-> 0, file |-> Junk, blk |-> 0, val |-> Junk]

\* What misread bytes look like as a message.
Garbage == [sign : Signs, file : {Junk}, blk : {0}, val : {Junk}]

Init ==
    /\ up = TRUE
    /\ backlog = <<>>
    /\ sock = [n \in Fds |-> None]
    /\ interest = [n \in Fds |-> "off"]
    /\ listening = FALSE /\ batch = {}
    /\ Pool!Init
    /\ step = [w \in Workers |-> "idle"]
    /\ masg = [n \in Fds |-> Blank]
    /\ rfd = [w \in Workers |-> NoFd]
    /\ rpos = [w \in Workers |-> 0]
    /\ hearts = [n \in Fds |-> 0]
    /\ store = [s \in StoredNames |-> [b \in Blocks |-> Absent]]
    /\ peer = [c \in Conns |-> "none"]
    /\ stream = [c \in Conns |-> <<>>]
    /\ sent = [c \in Conns |-> <<>>]
    /\ replies = [c \in Conns |-> {}]

-----------------------------------------------------------------------------
(***************************************************************************)
(* Clients                                                                 *)
(***************************************************************************)

Connect(c) ==
    /\ up
    /\ peer[c] = "none"
    /\ peer' = [peer EXCEPT ![c] = "up"]
    /\ backlog' = Append(backlog, c)
    /\ UNCHANGED <<up, sock, interest, loopVars, poolVars, workVars, hearts,
                   store, stream, sent, replies>>

\* A message of n units arrives.
Send(c, m, n) ==
    /\ up
    /\ peer[c] = "up"
    /\ stream' = [stream EXCEPT ![c] =
                     @ \o [i \in 1 .. n |-> IF i = 1 THEN m ELSE Rest]]
    /\ sent' = [sent EXCEPT ![c] = Append(@, m)]
    /\ UNCHANGED <<up, connVars, loopVars, poolVars, workVars, hearts, store,
                   peer, replies>>

\* TransFile sends its struct data.  Get_shm() fills in every field of it but
\* sign, which keeps whatever the stack held.
SendBlock(c) ==
    /\ sent[c] = <<>>
    /\ \E m \in [sign : Signs, file : Files, blk : Blocks, val : Vals] :
          Send(c, m, TagLen)

\* Close_task asks for a file, sending sizeof(struct recv_data) bytes of a
\* struct data.
SendAsk(c) ==
    /\ Len(sent[c]) < MaxAsks
    /\ \E f \in Files :
          Send(c, [sign |-> 1, file |-> f, blk |-> 0, val |-> Junk], RecvLen)

\* close() or exit(): with or without having sent something.
Leave(c) ==
    /\ peer[c] = "up"
    /\ peer' = [peer EXCEPT ![c] = "gone"]
    /\ UNCHANGED <<up, connVars, loopVars, poolVars, workVars, hearts, store,
                   stream, sent, replies>>

-----------------------------------------------------------------------------
(***************************************************************************)
(* The main thread                                                         *)
(***************************************************************************)

Readable(n) ==
    /\ sock[n] \in Conns
    /\ stream[sock[n]] # <<>> \/ peer[sock[n]] = "gone"

\* Fault: connections are registered without EPOLLONESHOT.
EpollWait_NoOneshot ==
    LET ready == {n \in Fds : interest[n] = "armed" /\ Readable(n)} IN
    /\ up
    /\ batch = {} /\ ~listening
    /\ ready # {} \/ backlog # <<>>
    /\ batch' = {[fd |-> n, hup |-> peer[sock[n]] = "gone"] : n \in ready}
    /\ listening' = (backlog # <<>>)
    /\ UNCHANGED <<up, connVars, poolVars, workVars, hearts, store,
                   clientVars, replies>>

\* Fault: one event of the batch is handled, the others are forgotten.
EpollWait_OneEvent ==
    LET ready == {n \in Fds : interest[n] = "armed" /\ Readable(n)} IN
    /\ up
    /\ batch = {} /\ ~listening
    /\ ready # {} \/ backlog # <<>>
    /\ batch' \in {{[fd |-> n, hup |-> peer[sock[n]] = "gone"]} : n \in ready}
                  \union {{}}
    /\ listening' = (backlog # <<>>)
    /\ interest' = [n \in Fds |-> IF n \in ready THEN "disarmed"
                                                 ELSE interest[n]]
    /\ UNCHANGED <<up, backlog, sock, poolVars, workVars, hearts, store,
                   clientVars, replies>>

\* epoll_wait() returns every ready descriptor.  EPOLLONESHOT disarms a
\* reported connection, and nothing ever calls modfd() to arm it again.
EpollWait ==
    LET ready == {n \in Fds : interest[n] = "armed" /\ Readable(n)} IN
    /\ up
    /\ batch = {} /\ ~listening
    /\ ready # {} \/ backlog # <<>>
    /\ batch' = {[fd |-> n, hup |-> peer[sock[n]] = "gone"] : n \in ready}
    /\ listening' = (backlog # <<>>)
    /\ interest' = [n \in Fds |-> IF n \in ready THEN "disarmed"
                                                 ELSE interest[n]]
    /\ UNCHANGED <<up, backlog, sock, poolVars, workVars, hearts, store,
                   clientVars, replies>>

FreeFds == {n \in Fds : sock[n] = None}

\* The kernel hands out the lowest free descriptor.
Lowest(S) == CHOOSE n \in S : \A k \in S : n <= k

\* accept(), and users[connfd].init(): addfd with EPOLLONESHOT, a cleared
\* masg, and a heart thread whose id goes into a local variable.
Accept ==
    /\ up
    /\ listening
    /\ FreeFds # {}
    /\ LET connfd == Lowest(FreeFds) IN
       /\ sock' = [sock EXCEPT ![connfd] = Head(backlog)]
       /\ interest' = [interest EXCEPT ![connfd] = "armed"]
       /\ masg' = [masg EXCEPT ![connfd] = Blank]
       /\ hearts' = [hearts EXCEPT ![connfd] = @ + 1]
    /\ backlog' = Tail(backlog)
    /\ listening' = FALSE
    /\ UNCHANGED <<up, batch, poolVars, step, rfd, rpos, store, clientVars,
                   replies>>

\* accept() fails for want of a descriptor: logged, and the loop goes on.
AcceptFails ==
    /\ up
    /\ listening
    /\ FreeFds = {}
    /\ listening' = FALSE
    /\ UNCHANGED <<up, connVars, batch, poolVars, workVars, hearts, store,
                   clientVars, replies>>

\* The heart thread cannot be created: exit(1).
HeartCreateFails ==
    /\ up
    /\ listening
    /\ FreeFds # {}
    /\ up' = FALSE
    /\ UNCHANGED <<connVars, loopVars, poolVars, workVars, hearts, store,
                   clientVars, replies>>

\* EPOLLRDHUP, EPOLLHUP or EPOLLERR, tested before EPOLLIN.  The argument of
\* pthread_cancel() was never initialized: the call crashes the server, or it
\* cancels nothing and close() follows.  Bytes not read by then stay unread.
CancelCrashes(e) ==
    /\ up
    /\ e \in batch /\ e.hup
    /\ up' = FALSE
    /\ UNCHANGED <<connVars, loopVars, poolVars, workVars, hearts, store,
                   clientVars, replies>>

HandleHup(e) ==
    /\ up
    /\ e \in batch /\ e.hup
    /\ sock' = [sock EXCEPT ![e.fd] = None]
    /\ interest' = [interest EXCEPT ![e.fd] = "off"]
    /\ batch' = batch \ {e}
    /\ UNCHANGED <<up, backlog, listening, poolVars, workVars, hearts, store,
                   clientVars, replies>>

\* EPOLLIN: append users + sockfd to the pool, whose answer is ignored.
HandleIn(e) ==
    /\ up
    /\ e \in batch /\ ~e.hup
    /\ IF Len(pending) < Capacity THEN Pool!Submit(e.fd)
                                  ELSE UNCHANGED poolVars
    /\ batch' = batch \ {e}
    /\ UNCHANGED <<up, connVars, listening, workVars, hearts, store,
                   clientVars, replies>>

-----------------------------------------------------------------------------
(***************************************************************************)
(* A worker inside process()                                               *)
(***************************************************************************)

TakeMonitor(w) ==
    /\ up
    /\ Pool!Take(w)
    /\ step' = [step EXCEPT ![w] = "recv"]
    /\ UNCHANGED <<up, connVars, loopVars, masg, rfd, rpos, hearts, store,
                   clientVars, replies>>

\* recv() with MSG_WAITALL returns a full TAG, or what is left once the peer
\* has gone; both are taken for a message.  Bytes that do not start at a
\* message's header are read as one all the same.
Recv(w) ==
    LET n == serving[w]
        c == sock[n]
        len == IF Len(stream[c]) < TagLen THEN Len(stream[c]) ELSE TagLen IN
    /\ up
    /\ step[w] = "recv"
    /\ c \in Conns
    /\ len = TagLen \/ (len > 0 /\ peer[c] = "gone")
    /\ \E m \in IF Head(stream[c]) = Rest THEN Garbage
                                          ELSE {Head(stream[c])} :
          masg' = [masg EXCEPT ![n] = m]
    /\ stream' = [stream EXCEPT ![c] = SubSeq(@, len + 1, Len(@))]
    /\ step' = [step EXCEPT ![w] = "handle"]
    /\ UNCHANGED <<up, connVars, loopVars, poolVars, rfd, rpos, hearts, store,
                   peer, sent, replies>>

\* recv() returns 0 or an error: process() returns, leaving the descriptor
\* open and disarmed.
RecvEnds(w) ==
    /\ up
    /\ step[w] = "recv"
    /\ sock[serving[w]] \in Conns
    /\ stream[sock[serving[w]]] = <<>> /\ peer[sock[serving[w]]] = "gone"
    /\ Pool!Finish(w)
    /\ step' = [step EXCEPT ![w] = "idle"]
    /\ UNCHANGED <<up, connVars, loopVars, masg, rfd, rpos, hearts, store,
                   clientVars, replies>>

\* Fault: backup() does not seek to masg->left.
Backup_NoSeek(w) ==
    LET m == masg[serving[w]] IN
    /\ up
    /\ step[w] = "handle" /\ m.sign = 0
    /\ store' = IF FreeFds = {} THEN store
                ELSE [store EXCEPT ![Transf(m.file)][0] = m.val]
    /\ step' = [step EXCEPT ![w] = "recv"]
    /\ UNCHANGED <<up, connVars, loopVars, poolVars, masg, rfd, rpos, hearts,
                   clientVars, replies>>

\* Fault: backup() returns before it writes.
Backup_NoWrite(w) ==
    /\ up
    /\ step[w] = "handle" /\ masg[serving[w]].sign = 0
    /\ step' = [step EXCEPT ![w] = "recv"]
    /\ UNCHANGED <<up, connVars, loopVars, poolVars, masg, rfd, rpos, hearts,
                   store, clientVars, replies>>

\* backup(): open, lseek, write and close the file of the transformed name.
\* A failed open() (no descriptor) is logged, the writes to -1 do nothing.
Backup(w) ==
    LET m == masg[serving[w]] IN
    /\ up
    /\ step[w] = "handle" /\ m.sign = 0
    /\ store' = IF FreeFds = {} THEN store
                ELSE [store EXCEPT ![Transf(m.file)][m.blk] = m.val]
    /\ step' = [step EXCEPT ![w] = "recv"]
    /\ UNCHANGED <<up, connVars, loopVars, poolVars, masg, rfd, rpos, hearts,
                   clientVars, replies>>

IgnoreSign(w) ==
    /\ up
    /\ step[w] = "handle" /\ masg[serving[w]].sign = 2
    /\ step' = [step EXCEPT ![w] = "recv"]
    /\ UNCHANGED <<up, connVars, loopVars, poolVars, masg, rfd, rpos, hearts,
                   store, clientVars, replies>>

\* A backup reaches up to the last block written.
FileLen(s) ==
    IF \A b \in Blocks : store[s][b] = Absent THEN 0
    ELSE 1 + CHOOSE b \in Blocks : /\ store[s][b] # Absent
                                   /\ \A k \in Blocks : k > b =>
                                         store[s][k] = Absent

\* recover() opens the backup; the failure of open() is logged and fd is -1.
Recover(w) ==
    LET s == Transf(masg[serving[w]].file) IN
    /\ up
    /\ step[w] = "handle" /\ masg[serving[w]].sign = 1
    /\ IF FileLen(s) = 0 \/ FreeFds = {}
       THEN UNCHANGED <<sock, rfd>>
       ELSE /\ sock' = [sock EXCEPT ![Lowest(FreeFds)] = File]
            /\ rfd' = [rfd EXCEPT ![w] = Lowest(FreeFds)]
    /\ rpos' = [rpos EXCEPT ![w] = 0]
    /\ step' = [step EXCEPT ![w] = "recover"]
    /\ UNCHANGED <<up, backlog, interest, loopVars, poolVars, masg, hearts,
                   store, clientVars, replies>>

\* Fault: the packet goes to the connection accepted last on the descriptor
\* after the monitor's own.
RecoverSend_WrongMonitor(w) ==
    LET s == Transf(masg[serving[w]].file)
        to == IF serving[w] + 1 \in Fds THEN serving[w] + 1 ELSE serving[w] IN
    /\ up
    /\ step[w] = "recover"
    /\ rfd[w] = NoFd \/ rpos[w] < FileLen(s)
    /\ sock[to] \in Conns
    /\ replies' = [replies EXCEPT ![sock[to]] = @ \union
          {[file |-> Back(s),
            val |-> IF rfd[w] = NoFd THEN Absent ELSE store[s][rpos[w]]]}]
    /\ rpos' = [rpos EXCEPT ![w] = IF rfd[w] = NoFd THEN @ ELSE @ + 1]
    /\ UNCHANGED <<up, connVars, loopVars, poolVars, step, masg, rfd, hearts,
                   store, clientVars>>

\* Fault: a failed read() advances the position as well.
RecoverSend_CountsErrors(w) ==
    LET s == Transf(masg[serving[w]].file) IN
    /\ up
    /\ step[w] = "recover"
    /\ rfd[w] = NoFd \/ rpos[w] < FileLen(s)
    /\ sock[serving[w]] \in Conns
    /\ replies' = [replies EXCEPT ![sock[serving[w]]] = @ \union
          {[file |-> Back(s),
            val |-> IF rfd[w] = NoFd THEN Absent ELSE store[s][rpos[w]]]}]
    /\ rpos' = [rpos EXCEPT ![w] = @ + 1]
    /\ UNCHANGED <<up, connVars, loopVars, poolVars, step, masg, rfd, hearts,
                   store, clientVars>>

\* Fault: every read() starts at the beginning of the file.
RecoverSend_Rereads(w) ==
    LET s == Transf(masg[serving[w]].file) IN
    /\ up
    /\ step[w] = "recover"
    /\ rfd[w] = NoFd \/ rpos[w] < FileLen(s)
    /\ sock[serving[w]] \in Conns
    /\ replies' = [replies EXCEPT ![sock[serving[w]]] = @ \union
          {[file |-> Back(s),
            val |-> IF rfd[w] = NoFd THEN Absent ELSE store[s][0]]}]
    /\ UNCHANGED <<up, connVars, loopVars, poolVars, step, masg, rfd, rpos,
                   hearts, store, clientVars>>

\* One turn of recover()'s loop, up to the return of its send(), which waits
\* for room as long as the client reads nothing.  read() of -1 gives -1, which
\* is not 0: the loop sends an empty packet and never ends.
RecoverSend(w) ==
    LET s == Transf(masg[serving[w]].file) IN
    /\ up
    /\ step[w] = "recover"
    /\ rfd[w] = NoFd \/ rpos[w] < FileLen(s)
    /\ sock[serving[w]] \in Conns
    /\ replies' = [replies EXCEPT ![sock[serving[w]]] = @ \union
          {[file |-> Back(s),
            val |-> IF rfd[w] = NoFd THEN Absent ELSE store[s][rpos[w]]]}]
    /\ rpos' = [rpos EXCEPT ![w] = IF rfd[w] = NoFd THEN @ ELSE @ + 1]
    /\ UNCHANGED <<up, connVars, loopVars, poolVars, step, masg, rfd, hearts,
                   store, clientVars>>

\* Fault: recover() closes m_sockfd instead of fd.
RecoverEnds_ClosesSocket(w) ==
    /\ up
    /\ step[w] = "recover"
    /\ rfd[w] # NoFd
    /\ rpos[w] >= FileLen(Transf(masg[serving[w]].file))
    /\ sock' = [sock EXCEPT ![serving[w]] = None]
    /\ rfd' = [rfd EXCEPT ![w] = NoFd]
    /\ step' = [step EXCEPT ![w] = "recv"]
    /\ UNCHANGED <<up, backlog, interest, loopVars, poolVars, masg, rpos,
                   hearts, store, clientVars, replies>>

\* read() returns 0: the backup is closed.
RecoverEnds(w) ==
    /\ up
    /\ step[w] = "recover"
    /\ rfd[w] # NoFd
    /\ rpos[w] >= FileLen(Transf(masg[serving[w]].file))
    /\ sock' = [sock EXCEPT ![rfd[w]] = None]
    /\ rfd' = [rfd EXCEPT ![w] = NoFd]
    /\ step' = [step EXCEPT ![w] = "recv"]
    /\ UNCHANGED <<up, backlog, interest, loopVars, poolVars, masg, rpos,
                   hearts, store, clientVars, replies>>

-----------------------------------------------------------------------------
\* A heart thread sends to the monitor's m_sockfd, whatever is there now.
Heart(n) ==
    /\ up
    /\ hearts[n] > 0
    /\ sock[n] \in Conns
    /\ replies' = [replies EXCEPT ![sock[n]] = @ \union {HeartPacket}]
    /\ UNCHANGED <<up, connVars, loopVars, poolVars, workVars, hearts, store,
                   clientVars>>

ClientStep ==
    \/ \E c \in Conns : Connect(c) \/ Leave(c)
    \/ \E c \in BlockConns : SendBlock(c)
    \/ \E c \in AskConns : SendAsk(c)

MainStep ==
    \/ EpollWait \/ Accept \/ AcceptFails
    \/ \E e \in batch : HandleHup(e) \/ HandleIn(e)

\* The steps for which a worker waits for no client once they are enabled.
RunStep(w) ==
    \/ TakeMonitor(w) \/ Recv(w) \/ RecvEnds(w) \/ Backup(w) \/ IgnoreSign(w)
    \/ Recover(w) \/ RecoverEnds(w)

WorkerStep(w) == RunStep(w) \/ RecoverSend(w)

Next ==
    \/ ClientStep
    \/ MainStep
    \/ HeartCreateFails \/ \E e \in batch : CancelCrashes(e)
    \/ \E w \in Workers : WorkerStep(w)
    \/ \E n \in Fds : Heart(n)

Spec == Init /\ [][Next]_vars

\* The threads of the server are scheduled; clients owe nothing, so that the
\* send() of recover() need never return.
FairSpec ==
    /\ Spec
    /\ WF_vars(MainStep)
    /\ \A w \in Workers : WF_vars(RunStep(w))

-----------------------------------------------------------------------------
(***************************************************************************)
(* Properties                                                              *)
(***************************************************************************)

TypeOK ==
    /\ up \in BOOLEAN /\ listening \in BOOLEAN
    /\ backlog \in Seq(Conns)
    /\ sock \in [Fds -> Conns \union {None, File}]
    /\ interest \in [Fds -> {"off", "armed", "disarmed"}]
    /\ batch \in SUBSET [fd : Fds, hup : BOOLEAN]
    /\ pending \in Seq(Fds)
    /\ serving \in [Workers -> Fds \union {NoFd}]
    /\ step \in [Workers -> {"idle", "recv", "handle", "recover"}]
    /\ masg \in [Fds -> Messages]
    /\ rfd \in [Workers -> Fds \union {NoFd}]
    /\ rpos \in [Workers -> 0 .. NBlocks]
    /\ hearts \in [Fds -> Nat]
    /\ store \in [StoredNames -> [Blocks -> Vals \union {Junk, Absent}]]
    /\ peer \in [Conns -> {"none", "up", "gone"}]
    /\ stream \in [Conns -> Seq(Messages \union {Rest})]
    /\ sent \in [Conns -> Seq(Messages)]
    /\ replies \in [Conns -> SUBSET [file : Names,
                                     val : Vals \union {Junk, Absent}]]

Reported == {e.fd : e \in batch}
Queued == {pending[i] : i \in 1 .. Len(pending)}
Served == {serving[w] : w \in Workers} \ {NoFd}

(***************************************************************************)
(* A monitor object has one owner: while epoll may still report it, while  *)
(* an event for it waits in events[], while it is queued, or while one     *)
(* worker runs its process(), and never two of these at once.  masg, fd    *)
(* and backup_f_name of a monitor are used without a lock; EPOLLONESHOT is *)
(* all that keeps two workers from receiving into the same masg.           *)
(***************************************************************************)
MonitorExclusive ==
    /\ \A n \in Reported \union Queued \union Served : interest[n] # "armed"
    /\ \A d, e \in batch : d.fd = e.fd => d = e
    /\ Reported \intersect (Queued \union Served) = {}
    /\ Queued \intersect Served = {}
    /\ \A i, j \in 1 .. Len(pending) : pending[i] = pending[j] => i = j
    /\ \A w, v \in Workers : serving[w] = serving[v] /\ w # v =>
                                serving[w] = NoFd

(***************************************************************************)
(* No stale handle: every descriptor in a pending event, in the queue or   *)
(* with a worker still names an open connection, although the main thread  *)
(* closes descriptors and reuses their numbers in the same batch; and the  *)
(* backup file a worker reads is still open under its descriptor, which no *)
(* other worker has.                                                       *)
(***************************************************************************)
HandlesOpen ==
    /\ \A n \in Reported \union Queued \union Served : sock[n] \in Conns
    /\ \A w \in Workers : rfd[w] # NoFd =>
          /\ sock[rfd[w]] = File
          /\ \A v \in Workers \ {w} : rfd[v] # rfd[w]

(***************************************************************************)
(* append() has room whenever the event loop calls it, so ignoring its     *)
(* answer loses nothing as long as the queue holds one request for each    *)
(* descriptor.                                                             *)
(***************************************************************************)
AppendHasRoom ==
    Capacity >= Cardinality(Fds) =>
        \A e \in batch : ~e.hup => Len(pending) < Capacity

\* Messages sent so far.
AllSent == UNION {{sent[c][i] : i \in 1 .. Len(sent[c])} : c \in Conns}

(***************************************************************************)
(* Backups are made of what clients sent: a block of the backup of a file  *)
(* holds contents that some client sent to back up that block of it,       *)
(* whichever worker wrote it and whatever else was in its monitor.  (Bytes *)
(* misread as a message are taken not to spell the name of a real file.)   *)
(***************************************************************************)
StoreSound ==
    \A f \in Files, b \in Blocks :
        store[Transf(f)][b] # Absent =>
            \E m \in AllSent : /\ m.sign = 0 /\ m.file = f /\ m.blk = b
                               /\ m.val = store[Transf(f)][b]

(***************************************************************************)
(* A client gets only what concerns it: a packet of recover() goes to the  *)
(* connection whose own message named the file, and carries contents some  *)
(* client sent to back it up or the NULs of a missing one.  Packets that   *)
(* answer misread bytes carry misread bytes or NULs, never what a backup   *)
(* of a client's file holds.  (As in StoreSound, misread bytes are taken   *)
(* not to spell the name of a real file.)                                  *)
(***************************************************************************)
ReplySound ==
    \A c \in Conns : \A p \in replies[c] :
        \/ p.file = Junk /\ p.val \in {Junk, Absent}
        \/ /\ \E i \in 1 .. Len(sent[c]) : sent[c][i].file = p.file
           /\ \/ p.val = Absent
              \/ \E m \in AllSent : /\ m.sign = 0 /\ m.file = p.file
                                    /\ m.val = p.val

(***************************************************************************)
(* No event is lost: a connection that epoll watches and that has become   *)
(* readable is appended to the pool or closed.  EPOLLONESHOT reports it    *)
(* once only, so an event that the loop dropped would never come back.     *)
(***************************************************************************)
EventIsHandled ==
    \A n \in Fds :
        (interest[n] = "armed" /\ Readable(n)) ~>
            (n \in Queued \/ sock[n] = None \/ ~up)

InPool(c) == \E n \in Queued \union Served : sock[n] = c

(***************************************************************************)
(* A block marked as a backup, on a connection that has reached the pool,  *)
(* is written to its backup file, provided that some worker keeps          *)
(* returning from process() and the server has a descriptor left to open   *)
(* the file with.                                                          *)
(***************************************************************************)
DispatchedIsStored ==
    (\E w \in Workers : []<>(serving[w] = NoFd)) =>
        \A c \in BlockConns, f \in Files, b \in Blocks, v \in Vals :
            ( /\ InPool(c)
              /\ stream[c] # <<>>
              /\ Head(stream[c]) = [sign |-> 0, file |-> f, blk |-> b,
                                    val |-> v] )
            ~> (store[Transf(f)][b] = v \/ FreeFds = {} \/ ~up)

(***************************************************************************)
(* A worker that recovers a file it could open gets to the end of it, also *)
(* when the client has gone, if each send() of it returns: the client goes *)
(* on reading, or has gone, which makes send() fail.  (For a file without  *)
(* a backup read() fails for ever, recover() never returns, and the worker *)
(* is lost.)                                                               *)
(***************************************************************************)
SendReturns(w) == WF_vars(RecoverSend(w))

RecoverReturns ==
    \A w \in Workers :
        SendReturns(w) => (rfd[w] # NoFd ~> (rfd[w] = NoFd \/ ~up))

-----------------------------------------------------------------------------
(***************************************************************************)
(* What comments of the code say and the code does not do                  *)
(***************************************************************************)

Closed(c) ==
    /\ peer[c] # "none"
    /\ \A i \in 1 .. Len(backlog) : backlog[i] # c
    /\ \A n \in Fds : sock[n] # c

(***************************************************************************)
(* The hang-up branch of the event loop is for "an exception" (ser.cpp,    *)
(* comment in the branch): it closes no connection with a message in it.   *)
(* A client that sends its block and closes is reported as EPOLLIN and     *)
(* EPOLLRDHUP together, and the branch closes it unread.                   *)
(***************************************************************************)
NothingUnreadClosed == \A c \in Conns : Closed(c) => stream[c] = <<>>
=============================================================================
