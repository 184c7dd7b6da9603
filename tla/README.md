# A TLA+ model of file-monitor_deepin

file-monitor_deepin keeps the contents of watched files on a server. A library
preloaded into ordinary processes intercepts `open()` and `close()`; a client
on the same machine ships what the library hands it to the server and writes
it back later; the server stores one backup per file. This directory models
the program's concurrency and its protocols and checks the models with TLC.
With TLAPS it proves, for every component, the safety properties that the
passing runs check, and that both thread pools and the blocking queue
implement their abstract specifications.

Paths below are relative to `src/`, the root of the repository. The
repository has no documentation besides its comments; where a comment says one
thing and the code does another, section "Disagreements" says so.

## 1. Inventory

| Component | State | Operations | Talks to |
|---|---|---|---|
| Hook (`src/hook/hook.c`) | `SHM_NAME`, `per_flag`, `filename_path` | `open`, `close`, `set_map`, `send_link`, `recv_keep_valie`, `get_path` | client: message queues 1024, 1025, 1000, a shared memory segment per file; kernel: inotify sees its opens and closes |
| Client, events and files (`src/client/inotify.cpp`, `main.hpp`) | `SHM_NAME`, `FileArray`, `array_index` | `handle_events`, `Open_task`, `Close_task`, `Send_img`, `Get_shm`, `TransFile`, `Recv_file` | server: one connection per block, one for requests and answers |
| Client, heartbeat | `head_file`, `keep_alive_flag` | `heart_handler`, `Recv_file`, `Send_keep_alive` | server: heart packets; hook: queue 1000 |
| Client thread pool (`src/client/threadpool.hpp`) | tasks, `stoped` | constructor, `commit`, destructor | included by no file |
| Event loop (`src/server/ser.cpp`) | descriptors, epoll set, `events[]`, `users[]` | accept, hang-up, dispatch | monitors, thread pool, log |
| Monitor (`src/server/monitor`) | `masg`, `rebag`, `heart`, `fd`, `backup_f_name`, `m_sockfd`, `id` | `init`, `process`, `backup`, `recover`, `send_heart` | client; backup files |
| Thread pool (`src/server/threadpool`, `RAII/locker.h`) | `m_workqueue`, `m_queuelocker`, `m_queuestat`, `m_stop` | constructor, destructor, `append`, `run` | event loop (caller), monitors (tasks) |
| Log (`src/server/log/log.*`) | `m_fp`, `m_count`, `m_today`, `m_buf` | `init`, `write_log`, `async_write_log`, `flush` | every server thread; the blocking queue |
| Blocking queue (`src/server/log/block_queue.h`) | `m_array`, `m_size`, `m_front`, `m_back`, mutex, condition | `push`, `pop`, timed `pop`, `clear`, readers | the log |
| Configuration, ini parser, interface lookup, scripts | none | string handling | |

What is hard here, and what makes each part correct:

* **Thread pool.** `append()` posts outside the lock and `run()` ignores a
  failed wait. Correct: FIFO, each request to one worker, none stranded, the
  queue bounded, workers end when asked to.
* **Server.** Monitors are found by descriptor number, numbers are reused,
  monitors have no lock, and epoll reports a connection only once. Correct: one
  owner per monitor, no stale handle, no lost event, backups made of what was
  sent, answers to whoever asked.
* **Blocking queue.** Circular indexes, timeouts, spurious wake-ups. Correct:
  a bounded FIFO with no lost wake-up.
* **Log.** `write_log()` takes its mutex three times and reads the clock
  before. Correct: no line lost or doubled, in the right file.
* **Hook and client.** Names, contents and notifications take three different
  ways and can overtake each other. Correct: every name is eventually taken,
  contents end up under their own name, nothing is lost.
* **Keep-alive and heartbeat.** One-shot flags in a shared queue that its
  reader deletes; a shared packet two threads write without a lock; a client
  that goes through its own hook. Correct: a silent server is given up, and no
  packet is overlooked; a flag refuses one call and none is left over.
* **Contents.** Pieces of 1024 bytes, blocks of 4095, a count of 4096, with NUL
  bytes as ends. Correct: the bytes sent are the bytes stored and returned.
* **Client thread pool.** `notify_one()` after the unlock, a stop without the
  lock. Correct: FIFO, no task waits for a sleeper, the destructor returns.

`PROJECT.json` lists the hazards line by line.

## 2. Modules

| Module | Models | Uses |
|---|---|---|
| `TaskPool` | what the pool promises: a FIFO of tasks and workers that serve one task each | |
| `ThreadPool` | `threadpool.h`, `locker.h` | refines `TaskPool` |
| `Server` | `ser.cpp`, `monitor.cpp`, and the clients' connections | `TaskPool` as its pool |
| `Fifo` | what the blocking queue promises | |
| `BlockQueue` | `block_queue.h` | refines `Fifo` |
| `Log` | `log.cpp`, `log.h` | `Fifo` as its queue |
| `Handoff` | `open`/`close` of the hook and the client's event handling | |
| `Transfer` | the bytes of a file: `set_map()`, `Get_shm()`, `TransFile()`, `backup()`, `recover()`, `Recv_file()` | |
| `KeepAlive` | the client's start, `heart_handler()`, `Recv_file()`, `Send_keep_alive()` and `recv_keep_valie()` | |
| `ClientPool` | `client/threadpool.hpp` | refines `TaskPool` |
| `*Proofs` | the theorems about the eight modules other than `TaskPool` and `Fifo`, with their proofs | the module they are named after |
| `MC*` | model values and small sets for TLC | |

`Server` and `Log` are composed with the *abstract* pool and queue. That is
sound because the detailed modules are proved to implement them
(`PoolImplementsTaskPool`, `QueueImplementsFifo`). `TaskPool` lets tasks vanish
only when the pool is stopped (`Discard`): before that, a task leaves the queue
as its head and to one worker. `Server` uses the actions of a pool that is never
stopped, since `main()` creates it (`ser.cpp:55`) and never deletes it.

Definitions named `X_Something` and commented "Fault" stand just before the
definition `X` they vary. They are plausible mistakes in the code of `X`; none
is part of a specification. `PROJECT.json` ("mutants") says which property
each of them breaks.

### ThreadPool

Threads are the workers and any number of callers of `append()`. A step is the
code between two points where another thread can act: taking the mutex,
testing the size, `push_back` with `unlock`, `post`; and in `run()` the test of
`m_stop`, `wait`, `lock`, reading the front, `pop_front` with `unlock`,
`process()`. Reading the front and removing it are two steps, so that it is
the mutex, not the model, that keeps two workers off one request. A failing
`sem_wait()` lets the worker go on without a count, as the code does.
`Delete` needs a pool nobody is using. The pool is deleted under its detached
workers; the model takes the outcome most favourable to them, in which they can
still read `m_stop`.

### Server

The state is the kernel's (accept queue, descriptor table, epoll interest), the
loop's (`events[]`), the pool's, each worker's place in `process()`, the
monitors' `masg`, the number of heart threads on each monitor, the backup files
by block, and for each connection the bytes not yet read. Bytes are counted in
units: a message's first unit is the message itself, the others are `Rest`, and
`recv()` takes `TagLen` units whatever they are. So the difference between
`sizeof(TAG)` (4656) and `sizeof(struct recv_data)` (4884) survives as
3 against 4 units. `sign`, which the client leaves uninitialized in blocks, is
any of 0, 1 and "other". `pthread_cancel()` of an uninitialized id either
crashes the server or does nothing. Descriptors run out, and every open and
accept has its failing outcome. Bytes misread as a message are taken not to
spell the name of a real file; they become the name `Junk`.

### BlockQueue, Log

`BlockQueue` splits each operation in two steps inside the critical section, so
that the mutex matters. The wait of a timed `pop()` may end at any moment: its
deadline is computed in the wrong unit and can lie in the past. A wait that
fails makes the untimed `pop()` return false as well (`PopWaitFails`). `full()` and
`empty()` are the operators that the guards of `push()` and `pop()` use.
`Log` covers both modes, chosen in `init()`.
`Log` has one step per critical section of `write_log()`, since all that can go
wrong happens between them; the day a writer uses is that of its clock or, since
`localtime()` returns static data, that of another writer about to count its
line. Files are identified by day and suffix.

### Handoff

The hook's `open()` is seven steps: open, send the name, open the segment, give
it its size and map it, copy, truncate, write the secret and close. Each open
and close adds an inotify event, which the kernel merges with an equal last
unread one. The client reads the events there are and handles them one by one.
The copy goes to a *mapping*, which the client may have made unreachable by
unlinking the segment. A client that opens a segment before it has its size maps
0 bytes, which fails unnoticed, and dies reading them (`ShmCrash`). `SHM_NAME`
is modelled as a sequence because neither side ever clears it: `Overlay` writes
a name over what earlier ones left, so hook and client may spell the same file
differently. Processes open existing files for writing. The semaphore
`/memmap_sem` is posted by both sides and waited for by none, so it has no part
in the model. Contents are single values: `Recv_file()` is modelled up to its
first 4096 bytes, and the server is taken to keep and return what it is sent.

### Transfer

What Handoff and Server take as one value or as numbered blocks is a sequence of
bytes here. `P` stands for the 1024 bytes of a piece and `B` for the 4096 of
`file_contents` and `data`. The buffers are modelled by what is in them, NUL
bytes included: `P - 1` bytes of a piece are moved though `P` were read, a
block's data end at its first NUL, `recover()` reads `B - 1` bytes at a time,
and `Recv_file()` compares its running count with `B`. `Get_shm()` cuts one
block in each step (`CutBlock`), at any moment of the copying and with more
pieces copied between two of them; when all are cut (`StartThreads`) each is
sent by a thread of its own or lost when `connect()` fails, and blocks are
stored in any order, also behind those of an older version. No two bytes of a
behaviour are alike, so that a byte in the wrong place is seen. The history
variables record what the user wrote, how far the copy was when each block was
cut, and which blocks were lost.

### KeepAlive

`Heart` is the thread of `main()` until it starts `heart_handler()`, and that
thread afterwards; `Recv` is the thread of `Recv_file()`; a member of `Procs` is a
thread of any other hooked process, or the client's first thread while it runs
tasks. Every `open()` and `close()` of each of them, except `Recv`, which makes
none, starts with `recv_keep_valie()` in its four steps `msgget`, `msgrcv`,
`IPC_RMID` and the verdict, since `start.sh` preloads the hook into the client
as well. The variable `msgid` says of each thread whether the queue it got from
`msgget()` still exists. Increasing `head_file.count` is a read and a write, with
`Recv`'s packets between them. The variable that `heart_handler()` gives to
its new socket hides the parameter, so `sockfd` is the connection under the *old
number*, which the new socket may or may not have got. A failed `recv()` goes on
with the previous packet. `exit()` stops all threads of the client; flags survive
it. On a closed connection `Recv_file()` first sends its `'0'` and then exits
(`RecvFlag`, `RecvExit`), and the other threads go on in between. The main thread
runs tasks also when the first `connect()` has failed (`TaskDenied`). `unreset` and
`credit` are history: the ticks since a reset of the count was kept, and the
flags that no call has answered for.

### ClientPool

One action between two points where another thread can act. A worker evaluates the
predicate and falls asleep in two steps, both under `m_lock`; `commit()`
needs the lock and so cannot come between them, but the destructor does not take
it and can. A running task may call `commit()`.

## 3. Runs

Passing runs:

| Run | Instance | Shows |
|---|---|---|
| `ThreadPool` | 2 workers, 2 callers, 2 requests and null, `m_max_requests` 1, 1 failed wait | `NoStrandedRequest`, `QueueBound`, refinement of `TaskPool` (`ImplementsTaskPool`), `QueuedIsServed` |
| `ServerSafety` | a file of 2 blocks, 2 block connections and 1 asking one, 2 descriptors, 2 workers | `MonitorExclusive`, `AppendHasRoom`, `StoreSound` |
| `ServerData` | 1 block connection, which sends either block of a file, 2 requests for that file, 3 descriptors, 2 workers | `HandlesOpen`, `ReplySound`, `EventIsHandled`, `DispatchedIsStored`, `RecoverReturns` |
| `BlockQueue` | 3 threads, 2 items, 2 slots | `NobodySleepsOverItem`, refinement of `Fifo` (`ImplementsFifo`), no deadlock |
| `Log` | 2 writers, 2 calls each, both modes, a queue of 1, 2 lines a file, 3 days, `fopen()` may fail | `ReturnedLineKept`, `FileLinesBounded`, `QueuedIsWritten` |
| `Handoff` | 2 processes with a file each, queues of 2 | `OpenMessageCovered`, `CloseMessageCovered`, `OpenMessageTaken` |
| `HandoffData` | 2 processes, 2 files each with names of different lengths, queue of 1, `shm_open()` may fail | `BackupIsOwn` |
| `Transfer` | 2 files, 2 opens, pieces of 3 and blocks of 7 bytes, texts of 1, 2 and 13 | `StoredExactly`, `ShortComesBack` |
| `KeepAlive` | 1 other caller, 3 ticks, 2 connections, 2 runs of the client | `FlagUsedOnce`, `NoStaleOffline`, `OfflineMeansNoReset`, `SilenceNoticed`, `CloseNoticed` |
| `ClientPool` | 3 workers, 1 caller, 3 tasks | `TaskHasTaker`, refinement of `TaskPool` (`PoolSpec`), `TaskTaken`, `JoinReturns` |

Every module has one type invariant, `TypeOK`, checked in its first run.

**Why these bounds.** Two workers and two callers are enough for every race of
the pool, which is over one mutex and one semaphore; with the limit 1 the queue
is empty, at its limit and one above it, and the theorems cover the rest. Two
descriptors for three connections force reuse and exhaustion; a third one lets
`recover()` open a backup while two connections live. Two slots with two items
wrap the circular buffer and tell orders apart; three threads give two waiting
consumers and a producer. `MonthLen` 2 over three days makes `tm_mday` return to
an old value. Two lines a file and four lines make several files. The names
`/ab` and `/c` leave `/cb` behind, a name that is neither's. With pieces of 3
and blocks of 7, texts of 1 and 2 bytes are shorter than a piece, and 13 is the
first length whose blocks (two, of 6 bytes each) do not reach its end, as 8191
is with the code's sizes; the theorem `TextsStored` covers every other size of
pieces, blocks and texts. Two opens let a newer version follow an older one,
shorter or longer, or another file. `Offline` 3 is the code's own value; two
connections are a connection and a reconnect, two runs an exit with flags left
behind and a start that finds them; the flags are drawn by three threads. Three
workers are one asleep, one on its way and one running a task that commits. The
counters `MaxAsks`, `MaxCalls`, `MaxDay`, `MaxOpens`, `MaxConns`, `MaxStarts`
and `MaxInterrupts` only bound the length of a run. Symmetry is used in safety
runs over threads, connections, requests and items, which the specifications
treat alike.

**Deadlock** is checked in the run of `BlockQueue`, where a thread can always
call or, waiting, wake up spuriously. The other systems may stop: the pool after
deletion, the server and the client after `exit`, the client's pool when its
destructor waits for a sleeper, the bounded clients, writers and processes.

**Fairness.** Weak fairness of each thread's steps inside an operation: the
kernel schedules runnable threads. Strong fairness of taking the
pool's mutex: a POSIX mutex that keeps becoming free is eventually granted
under the default scheduler, and no lock is held across a blocking call. In
`ClientPool` a worker's whole turn is strongly fair for the same reason,
including the end of its task, which the destructor's comment presumes ("前提：线程一定会执行完",
`threadpool.hpp:61`). In `KeepAlive` the client's two threads are weakly fair;
packets, the server and the other processes are not.
Nothing is assumed of clients, of
processes outside the hook, of `process()` returning, or of failures. So the
`send()` of `recover()` (`RecoverSend`), which blocks while its client does not read,
has no fairness: that each such call returns is a premise of `RecoverReturns`
(`SendReturns`), and that workers come back is one of `QueuedIsServed` and
`DispatchedIsStored`. In `Log` the log thread's `pop()` is taken not to fail.

### Disagreements between comments and code

Each of these runs must end in a violation; `PROJECT.json` ("findings") quotes
the comment.

| Run | What it shows |
|---|---|
| `ServerUnread` | a block sent just before the close is thrown away unread |
| `HandoffLoss` | the client takes the segment before the copy is in it, and the contents are gone |

`HandoffLoss` and `OpenMessageCovered` belong together: sending the name after
the copy would cure the loss, but without the two opens that now follow the
message it could wait for ever for an event (the fault `WriteSecret_LinkAfter`).

Also met while modelling; the models follow the code, and no run is needed to
see these:

* `append()` admits one request more than the maximum (`threadpool.h:81`, the
  comment is at 33); `QueueBound` says "one more" for that reason;
* the pool's destructor wakes no worker (`threadpool.h:73`), so one that waits
  never reads `m_stop`;
* `init()` keeps the heart thread's id in a local variable (`monitor.cpp:86`)
  that hides the member (`monitor.h:79`), so the thread is never cancelled;
* a request is longer than the server's reads (`main.hpp:298`), which from then
  on start inside a message, and blocks are sent with an uninitialized `sign`
  (`main.hpp:246`);
* `front()` returns the element popped last (`block_queue.h:93`); the deadline
  of a timed `pop()` takes milliseconds for microseconds and drops the fraction
  of the current second (`block_queue.h:180`);
* `recover()` of a file without a backup never returns: `read()` of -1 gives
  -1 and only 0 ends the loop (`monitor.cpp:167`), so the worker is lost, whatever
  `threadpool.h:27` says of workers; `RecoverReturns` is about the other files;
* in asynchronous mode a line is dropped when another writer takes the last slot
  between `full()` and `push()`, whose answer is ignored (`log.cpp:151`);
  `ReturnedLineKept` has the absence of another writer as its premise there;
* two processes that open one file at the same time leave a name in queue 1024,
  since their events are merged and each event takes one message
  (`inotify.cpp:132`): the premise `OwnFiles`;
* files whose names can come to be spelled alike in `SHM_NAME` share a segment: the
  same name in two directories, or `/cb` and a `/c` that follows `/ab`
  (`hook.c:113`, `main.hpp:166`); `BackupIsOwn` has `NamesApart` as its premise;
* a text as long as a piece is never stored whole: the last byte of each full
  piece is not copied (`hook.c:170`) and cuts its block short, although
  `main.hpp:280` says that the contents are sent; `StoredExactly` says which
  bytes arrive;
* a comment speaks of five times three seconds (`inotify.cpp:11`), the code tests
  for `'3'`: three ticks; before the first packet the count is 0 and not `'0'`
  and no tick is counted; and since `head_file.count ++` (`inotify.cpp:35`) can
  overwrite the 0 stored for a packet, a server that sends one in every tick can be
  given up. `OfflineMeansNoReset` says that this is the only way;
* when the client gives a connection up it sends itself a `'0'` and, unless
  another process takes it first, finds it when it opens `init.conf` to reconnect
  and exits (`get_message.h:19`, `start.sh:21`); when the reconnect fails it is
  not repeated (`inotify.cpp:10`);
* a worker of the client's pool that has found its predicate false when the
  destructor begins misses the wake-up (`threadpool.hpp:57`), and tasks in the queue
  are dropped when the workers find `stoped` set first (`threadpool.hpp:40`);
* the file is chosen and written in different critical sections of
  `write_log()`, so a line can land in another day's file, or be one too many.

## 4. Proofs

Each of the eight component modules has a module of theorems about its `Spec`.
They hold for every value of the constants that satisfies the module's named
assumption: finite sets of threads where threads are counted, sizes that are
positive, and distinct values for "none". A premise beyond that is in the
theorem's `ASSUME`, or in the property itself, and is named below. The bounds
on the length of a run (`MaxCalls`, `MaxOpens`, ...) are arbitrary numbers in
the proofs.

| Module | Theorem | Property |
|---|---|---|
| `ThreadPoolProofs` | `QueueBounded` | `QueueBound` |
| | `NoRequestStranded` | `NoStrandedRequest` |
| | `PoolImplementsTaskPool` | `ImplementsTaskPool` |
| `ServerProofs` | `MonitorsExclusive` | `MonitorExclusive` |
| | `HandlesAreOpen` | `HandlesOpen` |
| | `RoomToAppend` | `AppendHasRoom` |
| | `BackupsAreSound` | `StoreSound`, if `RoundTrip` |
| | `RepliesAreSound` | `ReplySound`, if `RoundTrip` |
| `BlockQueueProofs` | `NobodySleeps` | `NobodySleepsOverItem` |
| | `QueueImplementsFifo` | `ImplementsFifo` |
| `LogProofs` | `LinesAreKept` | `ReturnedLineKept` |
| | `FilesAreBounded` | `FileLinesBounded` |
| `HandoffProofs` | `OpenMessagesCovered` | `OpenMessageCovered` |
| | `CloseMessagesCovered` | `CloseMessageCovered` |
| | `BackupsAreOwn` | `BackupIsOwn` |
| `TransferProofs` | `TextsStored` | `StoredExactly` |
| | `ShortTextsReturn` | `ShortComesBack` |
| `KeepAliveProofs` | `OfflineOnlyIfNoReset` | `OfflineMeansNoReset`, an action property |
| | `NeverStaleOffline` | `NoStaleOffline` |
| | `FlagsUsedOnce` | `FlagUsedOnce` |
| `ClientPoolProofs` | `TaskAlwaysHasTaker` | `TaskHasTaker` |
| | `PoolImplementsTaskPool` | `PoolSpec`, if `Tasks` is finite |

Each module also has `TypeCorrect`, `Spec => []TypeOK`.

Few of the properties are inductive. What has to be added, and why, is the
argument of each proof:

**ThreadPool.** `PoolInv` says who holds the mutex: exactly the thread inside a
critical section. So the size test is still true when `push_back` runs
(`QueueBound`), and a worker between reading the front and popping it has the
head of the queue in `request` (refinement). `NoStrandedRequest` compares a
length with a count and two cardinalities; each step moves at most one thread
into or out of the sets counted (`CountThreads`), and `StrandedStep` goes through
the actions. `TaskPoolStep` shows that `AppendPush` is `Submit`, `PopFront` is
`Take` (a null request is taken too and leaves the worker free), `ProcessReturns`
is `Finish`, `Delete`, which sets `m_stop`, is `Discard`, and everything else is a
stutter.

**Server.** `Owners`: a descriptor that is reported, queued or being served
(`Owned`) is a connection's and disarmed in epoll, is in only one of the three
states, and only once in each. `EPOLLONESHOT` without a `modfd()` is what makes
it inductive: a descriptor is reported once, and only `accept()` arms it again,
which gets it only after the main thread has closed it; and what the main thread
closes it has just been reported. `Owners` and `Backups`, the same for the file
of `recover()`, are `MonitorExclusive` and `HandlesOpen` arranged for the proof;
that there are no more requests than descriptors follows. `StreamsSent` and
`MonitorsSent` follow a message from the client into the monitor: what a worker
handles was sent over the connection it serves, or is `Junk`. `StoreSound` and
`ReplySound` follow from it. `RoundTrip` says that `recover_file_name()` undoes
`transf_file_name()`, which is so when no name contains the `@` that stands for
`/`.

**BlockQueue.** `QueueInv` says that the thread inside is the holder of the
mutex and, in `IndexInv`, that `m_back` is `m_size` slots after `m_front`, or one
turn less: the modulus of the code without a modulus, true although both start
at -1 and `clear()` puts them back. Then `Contents` is the array between the
indexes, also for a thread that has moved one index and not yet counted
(`ContentsFacts`), and `push`, `pop` and `clear` are the steps of `Fifo`.
`NobodySleepsOverItem` is part of the invariant: `push` broadcasts and nobody
starts to wait on a queue that is not empty.

**Log.** `PlaceInv`: a line is in at most one place among the queue, the log
thread's hand and the files, and in none before it is put there. `KeptInv` adds
"and in one afterwards", in asynchronous mode for a writer that is alone; then
`ModeInv` keeps a free slot between its test of `full()` and its `push()`.
`FileInv` strengthens `FileLinesBounded`: the lines of the current file and the
writers on their way to it are at most the lines counted since the file was
opened and one for each writer that was late. It needs synchronous mode and an
unchanged day, the premises of the property.

**Handoff.** `OpenSpare` and `CloseSpare` are the two properties with one
message less whenever the next event would be merged with the last one:
without this the step that merges would break them. `LastInv` says that an open
event stays last only while its process is inside `open()`. The properties'
premises are `OwnFiles` (no two processes open one file) and, for opens, that
the segment can be mapped: without the mapping there are no further opens after
the message. For `BackupIsOwn`, `NameInv` says that a name in use is
one that its file can be spelled with (`Spelled`), whatever earlier names left in
`SHM_NAME`, and `DataInv` that contents on their way are contents the file has
had. The property's premise `NamesApart`, that no name can be spelled for two
files, is all that is needed: a hook and a client that spell one file differently
miss each other, and mix up nothing.

**Transfer.** For any sizes of pieces and blocks, `P >= 2` and `B > P`.
`ByteInv` follows the bytes: while the client may look, the segment holds the
pieces copied so far without their last bytes (`CopyInv`) and the server nothing
new (`OldInv`); a block already in the array holds what had been copied when it
was cut (`CutInv`), however far the copy has gone since; a block holds the bytes
from its offset to the first missing one (`BlockInv`); a byte is stored if it
survives, was copied in time, is in no lost block and no longer waits in a block
under way, and only then (`StoreInv`); `PhaseInv` and `NewInv` keep files and
versions apart. The lemmas say what a buffer, a C string, a block and a write at
an offset hold, byte by byte, so that the proof needs no induction over texts.
`ReturnInv` follows a short text back.

**KeepAlive.** `ResetInv` bounds `head_file.count` by the ticks since a reset was
kept, also the value that `heart_handler()` has read and not yet written back.
`CleanInv` follows the flags `'0'` through the client's life: before its open of
`init.conf` there may be some, but the check in that open finds no queue or
removes it, and while a connection is watched no `'0'` is sent but by a
`Recv_file()` that is about to exit; it may speak of the old connection, and the
invariant leaves out the moment between its flag and its exit (`rpc = "exit"`).
`StartInv` says that `Recv_file()` does not run before the first connection.
`FlagUsedOnce` is inductive with the types:
each receipt turns one flag into one refusal, and `IPC_RMID` only destroys.

**ClientPool.** `PoolInv`: under `m_lock` the queue stays empty from the predicate
to the wait; a task is in one place only. So a worker that falls asleep leaves no
task behind, and each notification or awake worker accounts for one task. In
the refinement, tasks are taken in the order of their push, also those a
running task commits.

**Only model-checked.** Liveness, because the prover has neither fairness nor
`ENABLED`: `QueuedIsServed`, `EventIsHandled`, `DispatchedIsStored`,
`RecoverReturns`, `QueuedIsWritten`, `OpenMessageTaken`, `SilenceNoticed`,
`CloseNoticed`, `TaskTaken` and `JoinReturns`. And the two violations of
"Disagreements", which are behaviours and not theorems.

## 5. Not modelled

Vendored and generated parts (`ini.h`, `init.h`), the MAC address lookup, the
scanning of the configuration, scripts, and `tests/inotify.cpp`, a watcher that
prints. In modelled files: functions nobody calls, the start-up of the
processes, the formatting of log lines, `Printdir()`, and the table `FileArray`
of created files with the client's own open of them: nothing else reads the
table, and what its open does to a file is what Handoff says of any process.
Paths by character (`/` and `@`, the prefix test of the hook) appear only as the
parameters `Transf`, `Back` and `Base`.

## 6. Plan

1. Created files in `Handoff`: `IN_CREATE`, on which the client itself calls
   the hook's `open()`, and files of subdirectories, which inotify does not
   report.
2. Proofs: `ReturnedLineKept` in asynchronous mode for several writers,
   with the lines dropped at a full queue counted.
