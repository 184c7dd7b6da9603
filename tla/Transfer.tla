------------------------------ MODULE Transfer ------------------------------
(***************************************************************************)
(* The bytes of a file on their way to the server and back.                *)
(*                                                                         *)
(* Open: set_map() of the hook copies the file into shared memory piece by *)
(* piece and then replaces its text (src/src/hook/hook.c).  Get_shm() of   *)
(* the client cuts the shared memory into blocks, and one thread per block *)
(* sends it (src/src/client/main.hpp); the server's workers write each     *)
(* block at its offset (src/src/server/monitor/monitor.cpp).               *)
(*                                                                         *)
(* Close: the server reads the backup and sends it in packets, and         *)
(* Recv_file() of the client replaces the file's text with a packet or     *)
(* appends the packet to it (src/src/client/inotify.cpp).                  *)
(*                                                                         *)
(* Texts have no NUL byte.  A file is opened again once it has come back,  *)
(* and one file is copied at a time: what happens otherwise is the subject *)
(* of Handoff.                                                             *)
(***************************************************************************)
EXTENDS Integers, Sequences, SequencesExt

CONSTANTS
    Files,
    P,          \* bytes read per piece (1024)
    B,          \* bytes of file_contents and data (4096)
    Lengths,    \* lengths of the texts that users write
    MaxOpens    \* bound: calls of open()

ASSUME TransferAssumption ==
    /\ P \in Nat \ {0, 1} /\ B \in Nat /\ B > P
    /\ Lengths \subseteq Nat \ {0}
    /\ MaxOpens \in Nat
    /\ "none" \notin Files

VARIABLES
    opens,      \* calls of open() so far
    local,      \* the files on the client's machine
    state,      \* what happens to each of them
    copying,    \* the file that set_map() copies, "none"
    at,         \* bytes copied (numbern)
    shm,        \* the shared memory
    blocks,     \* the array of blocks as far as it is filled
    todo,       \* blocks that a thread still has to send
    flight,     \* blocks on their way to the backup
    backup,     \* the files on the server
    reading,    \* the file that recover() reads, "none"
    off,        \* how far
    wire,       \* packets on their way to Recv_file()
    count,      \* its count of bytes received
    text,       \* history: what the user last wrote
    cut,        \* history: bytes copied when each block was cut
    late,       \* history: blocks of an earlier version were on their way
                \* when those of this one began to be sent
    lost,       \* history: blocks not sent, connect() having failed
    fit         \* history: the backup was complete when recover() began

hookVars   == <<opens, copying, at, shm>>
sendVars   == <<blocks, todo, flight>>
serverVars == <<backup, reading, off>>
recvVars   == <<wire, count>>
history    == <<text, cut, late, lost, fit>>
vars == <<local, state, hookVars, sendVars, serverVars, recvVars, history>>

Nul    == 0
Secret == <<-1>>    \* "It is a secret"

\* The text of the v-th open(): no two bytes of a history are alike.
Text(v, n) == [i \in 1 .. n |-> 100 * v + i]

\* A text as a C string.
CString(s) ==
    LET e == SelectInSeq(s, LAMBDA b : b = Nul)
    IN  IF e = 0 THEN s ELSE SubSeq(s, 1, e - 1)

\* s with data written at offset n.
WriteAt(s, n, data) ==
    [i \in 1 .. Max({Len(s), n + Len(data)}) |->
        IF i \in n + 1 .. n + Len(data) THEN data[i - n]
        ELSE IF i <= Len(s) THEN s[i] ELSE Nul]

\* A zeroed buffer of k bytes after what s has from offset n on was read or
\* moved into it.
Buffer(s, n, k) ==
    [i \in 1 .. k |-> IF n + i <= Len(s) THEN s[n + i] ELSE Nul]

Init ==
    /\ opens = 0
    /\ local = [f \in Files |-> <<>>]
    /\ state = [f \in Files |-> "plain"]
    /\ copying = "none" /\ at = 0 /\ shm = <<>>
    /\ blocks = <<>> /\ todo = {} /\ flight = {}
    /\ backup = [f \in Files |-> <<>>]
    /\ reading = "none" /\ off = 0
    /\ wire = <<>> /\ count = 0
    /\ text = [f \in Files |-> <<>>]
    /\ cut = [f \in Files |-> <<>>]
    /\ late = [f \in Files |-> FALSE]
    /\ lost = [f \in Files |-> {}]
    /\ fit = [f \in Files |-> FALSE]

-----------------------------------------------------------------------------
(***************************************************************************)
(* The hook                                                                *)
(***************************************************************************)

\* A user has written a text and open() is called.  The message to the client
\* is sent before set_map() is.
OpenFile(f) ==
    /\ opens < MaxOpens
    /\ copying = "none" /\ todo = {}
    /\ \A g \in Files : state[g] # "open"
    /\ state[f] = "plain"
    /\ \A i \in 1 .. Len(wire) : wire[i].file # f
    /\ \E n \in Lengths : text' = [text EXCEPT ![f] = Text(opens + 1, n)]
    /\ local' = [local EXCEPT ![f] = text'[f]]
    /\ opens' = opens + 1
    /\ state' = [state EXCEPT ![f] = "open"]
    /\ copying' = f /\ at' = 0 /\ shm' = <<>>
    /\ cut' = [cut EXCEPT ![f] = <<>>]
    /\ lost' = [lost EXCEPT ![f] = {}]
    /\ fit' = [fit EXCEPT ![f] = FALSE]
    /\ UNCHANGED <<sendVars, serverVars, recvVars, late>>

\* P bytes are read, P - 1 bytes of the buffer are copied, and the pointer
\* advances by what was read.
CopyPiece ==
    /\ copying # "none"
    /\ at < Len(local[copying])
    /\ shm' = WriteAt(shm, at, Buffer(local[copying], at, P - 1))
    /\ at' = Min({at + P, Len(local[copying])})
    /\ UNCHANGED <<opens, copying, local, state, sendVars, serverVars,
                   recvVars, history>>

\* The text is replaced and open() returns.
Hide ==
    /\ copying # "none"
    /\ at = Len(local[copying])
    /\ local' = [local EXCEPT ![copying] = Secret]
    /\ copying' = "none"
    /\ UNCHANGED <<opens, at, shm, state, sendVars, serverVars, recvVars,
                   history>>

-----------------------------------------------------------------------------
(***************************************************************************)
(* The client's blocks                                                     *)
(***************************************************************************)

\* Fault: a block is stored one byte too early.
BlockAt_Early(f, n) ==
    [file |-> f, left |-> n - 1, data |-> CString(Buffer(shm, n, B - 1))]

BlockAt(f, n) ==
    [file |-> f, left |-> n, data |-> CString(Buffer(shm, n, B - 1))]

\* Fault: blocks are cut every B bytes.
Block_Full(f, i) == BlockAt(f, i * B)

Block(f, i) == BlockAt(f, i * (B - 1))

\* There is one block for each B bytes of the length that open() saw, and one
\* more.
BlockCount(f) == Len(text[f]) \div B + 1

\* One turn of the loop that cuts the blocks.  The semaphore is not waited for,
\* so set_map() may copy more between two turns.  (Within one turn it does not
\* matter: a block counts up to its first NUL.)
CutBlock(f) ==
    /\ state[f] = "open"
    /\ Len(blocks) < BlockCount(f)
    /\ blocks' = Append(blocks, Block(f, Len(blocks)))
    /\ cut' = [cut EXCEPT ![f] = Append(@, at)]
    /\ UNCHANGED <<local, state, hookVars, todo, flight, serverVars, recvVars,
                   text, late, lost, fit>>

\* All blocks have been cut, and each gets its thread.
StartThreads(f) ==
    /\ state[f] = "open"
    /\ Len(blocks) = BlockCount(f)
    /\ state' = [state EXCEPT ![f] = "sent"]
    /\ todo' = {blocks[k] : k \in 1 .. Len(blocks)}
    /\ blocks' = <<>>
    /\ late' = [late EXCEPT ![f] = \E b \in flight : b.file = f]
    /\ UNCHANGED <<local, hookVars, flight, serverVars, recvVars, text, cut,
                   lost, fit>>

\* TransFile() of one thread: an empty block is not sent ...
SendBlock(b) ==
    /\ b \in todo
    /\ todo' = todo \ {b}
    /\ flight' = IF b.data = <<>> THEN flight ELSE flight \union {b}
    /\ UNCHANGED <<local, state, hookVars, blocks, serverVars, recvVars,
                   history>>

\* ... and neither is a block when connect() fails.
SendFails(b) ==
    /\ b \in todo
    /\ todo' = todo \ {b}
    /\ lost' = [lost EXCEPT ![b.file] = @ \union {b.left \div (B - 1)}]
    /\ UNCHANGED <<local, state, hookVars, blocks, flight, serverVars,
                   recvVars, text, cut, late, fit>>

-----------------------------------------------------------------------------
(***************************************************************************)
(* The server                                                              *)
(***************************************************************************)

\* Fault: blocks are written one after another, as they come.
StoreBlock_Appends(b) ==
    /\ b \in flight
    /\ flight' = flight \ {b}
    /\ backup' = [backup EXCEPT ![b.file] = @ \o b.data]
    /\ UNCHANGED <<local, state, hookVars, blocks, todo, reading, off,
                   recvVars, history>>

\* backup() of a worker: lseek(left), write(right - left).  The file is not
\* truncated.
StoreBlock(b) ==
    /\ b \in flight
    /\ flight' = flight \ {b}
    /\ backup' = [backup EXCEPT ![b.file] = WriteAt(@, b.left, b.data)]
    /\ UNCHANGED <<local, state, hookVars, blocks, todo, reading, off,
                   recvVars, history>>

\* The file has been closed and the client asks for it; recover() opens the
\* backup, there being one.
Ask(f) ==
    /\ state[f] = "sent" /\ copying # f /\ todo = {}
    /\ reading = "none"
    /\ backup[f] # <<>>
    /\ state' = [state EXCEPT ![f] = "asked"]
    /\ reading' = f /\ off' = 0
    /\ fit' = [fit EXCEPT ![f] =
                  /\ \A k \in 1 .. Len(cut[f]) : cut[f][k] = Len(text[f])
                  /\ ~late[f] /\ lost[f] = {}
                  /\ \A b \in flight : b.file # f
                  /\ Len(backup[f]) = Len(text[f])]
    /\ UNCHANGED <<local, hookVars, sendVars, backup, recvVars, text, cut,
                   late, lost>>

\* One turn of its loop: B - 1 bytes are read and a packet is sent.
ReadChunk ==
    /\ reading # "none"
    /\ off < Len(backup[reading])
    /\ wire' = Append(wire,
                      [file |-> reading,
                       data |-> CString(Buffer(backup[reading], off, B - 1))])
    /\ off' = Min({off + B - 1, Len(backup[reading])})
    /\ UNCHANGED <<local, state, hookVars, sendVars, backup, reading, count,
                   history>>

EndOfBackup ==
    /\ reading # "none"
    /\ off = Len(backup[reading])
    /\ state' = [state EXCEPT ![reading] = "plain"]
    /\ reading' = "none"
    /\ UNCHANGED <<local, hookVars, sendVars, backup, off, recvVars, history>>

-----------------------------------------------------------------------------
(***************************************************************************)
(* Recv_file()                                                             *)
(***************************************************************************)

\* Fault: a packet is always appended.
Received_Appends(c, t, data) == t \o data

Received(c, t, data) == IF c <= B THEN data ELSE t \o data

\* The count is over all the files of the connection: up to B bytes the packet
\* replaces the file's text, then it is appended to it.
Recv ==
    /\ wire # <<>>
    /\ LET p == Head(wire)
       IN  /\ count' = count + Len(p.data)
           /\ local' = [local EXCEPT ![p.file] = Received(count', @, p.data)]
    /\ wire' = Tail(wire)
    /\ UNCHANGED <<state, hookVars, sendVars, serverVars, history>>

Next ==
    \/ \E f \in Files :
          OpenFile(f) \/ CutBlock(f) \/ StartThreads(f) \/ Ask(f)
    \/ CopyPiece \/ Hide
    \/ \E b \in todo : SendBlock(b) \/ SendFails(b)
    \/ \E b \in flight : StoreBlock(b)
    \/ ReadChunk \/ EndOfBackup \/ Recv

Spec == Init /\ [][Next]_vars

-----------------------------------------------------------------------------
(***************************************************************************)
(* Properties                                                              *)
(***************************************************************************)

Byte == {Nul} \union {-1} \union Nat
Blocks == [file : Files, left : Nat, data : Seq(Byte)]

TypeOK ==
    /\ opens \in 0 .. MaxOpens
    /\ local \in [Files -> Seq(Byte)]
    /\ state \in [Files -> {"plain", "open", "sent", "asked"}]
    /\ copying \in Files \union {"none"}
    /\ at \in Nat
    /\ shm \in Seq(Byte)
    /\ blocks \in Seq(Blocks)
    /\ todo \subseteq Blocks /\ flight \subseteq Blocks
    /\ backup \in [Files -> Seq(Byte)]
    /\ reading \in Files \union {"none"} /\ off \in Nat
    /\ wire \in Seq([file : Files, data : Seq(Byte)])
    /\ count \in Nat
    /\ text \in [Files -> Seq(Byte)] /\ cut \in [Files -> Seq(Nat)]
    /\ late \in [Files -> BOOLEAN] /\ lost \in [Files -> SUBSET Nat]
    /\ fit \in [Files -> BOOLEAN]

(***************************************************************************)
(* Which bytes of a text of n bytes reach the backup.  The last byte of    *)
(* each full piece is not copied and leaves a NUL; a block ends at the     *)
(* first NUL; and there are n \div B + 1 blocks.  So a text as long as a   *)
(* piece is never stored whole.                                            *)
(***************************************************************************)
Survives(n, i) ==
    LET k == i \div (B - 1)
    IN  /\ k <= n \div B
        /\ \A h \in k * (B - 1) .. i : h % P # P - 1

Stored(f) == state[f] = "sent" /\ \A b \in todo \union flight : b.file # f

\* The block of the i-th byte, and what had been copied when it was cut.
BlockOf(i) == (i - 1) \div (B - 1)
CutAt(f, i) == cut[f][BlockOf(i) + 1]

(***************************************************************************)
(* Once its blocks are stored, in whatever order they came and whenever    *)
(* the client cut each of them, a file's backup holds exactly those bytes  *)
(* of its text at their places that survive the copy and the cutting, had  *)
(* been copied when their block was cut, and were in a block that could be *)
(* sent.  Blocks of an earlier version that are still on their way may     *)
(* overwrite it, and are left out here.                                    *)
(***************************************************************************)
StoredExactly ==
    \A f \in Files : Stored(f) /\ ~late[f] =>
        \A i \in 1 .. Len(text[f]) :
            (i <= Len(backup[f]) /\ backup[f][i] = text[f][i])
            <=> /\ Survives(Len(text[f]), i - 1)
                /\ i <= CutAt(f, i)
                /\ BlockOf(i) \notin lost[f]

(***************************************************************************)
(* A short text comes back as it was: shorter than a piece, no longer than *)
(* B bytes with what came before on the connection, stored before it was   *)
(* asked for, and no shorter than an earlier version of the file.          *)
(***************************************************************************)
ShortComesBack ==
    \A f \in Files :
        /\ fit[f] /\ Len(text[f]) < P /\ count <= B
        /\ state[f] = "plain"
        /\ \A i \in 1 .. Len(wire) : wire[i].file # f
        => local[f] = text[f]
=============================================================================
