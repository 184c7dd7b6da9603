--------------------------------- MODULE Log ---------------------------------
(***************************************************************************)
(* The server's log, src/src/server/log/log.cpp and log.h.  write_log()    *)
(* reads the clock, then takes m_mutex three times: to count the line and  *)
(* change the file, to format, and to write.  In asynchronous mode the     *)
(* line goes through the blocking queue (Fifo, which BlockQueue is shown   *)
(* to implement) to the thread in async_write_log().                       *)
(*                                                                         *)
(* Each critical section is one step; what matters happens between them.   *)
(* A log file is known by its day and the number in its suffix, 0 without  *)
(* one; its contents are what has been written to the stream.              *)
(***************************************************************************)
EXTENDS Integers, Sequences, FiniteSets

CONSTANTS
    Writers,        \* threads that call write_log()
    Modes,          \* values init() may give m_is_async
    QueueSize,      \* max_queue_size
    SplitLines,     \* m_split_lines
    MonthLen,       \* days after which tm_mday comes again
    NoLine,
    NoFile,         \* m_fp is NULL
    OpenFails,      \* fopen() may fail
    MaxDay,         \* bound: the last day
    MaxCalls        \* bound: calls of each writer

VARIABLES
    day,        \* today
    m_is_async, m_today, m_count, m_fp,
    files,      \* the contents of every log file
    pc,         \* where each writer is in write_log()
    line,       \* the line it writes: who, which call, and my_tm's day
    calls,      \* calls begun by each writer
    queue,      \* *m_log_queue
    got,        \* single_log of the flush thread
    crashed     \* a null stream has been used

Days == 0 .. MaxDay
Parts == 0 .. (Cardinality(Writers) * MaxCalls) \div SplitLines
FileIds == [day : Days, part : Parts]
Lines == [who : Writers, nr : 1 .. MaxCalls, day : Days]

ASSUME LogAssumption ==
    /\ IsFiniteSet(Writers)
    /\ Modes \subseteq BOOLEAN /\ OpenFails \in BOOLEAN
    /\ QueueSize \in Nat /\ (TRUE \in Modes => QueueSize >= 1)
    /\ SplitLines \in Nat \ {0} /\ MonthLen \in Nat \ {0}
    /\ MaxDay \in Nat /\ MaxCalls \in Nat
    /\ NoLine \notin Lines /\ NoFile \notin FileIds

Flusher == "async_write_log"
Queue == INSTANCE Fifo WITH Threads <- {Flusher}, Items <- Lines,
                            NoItem <- NoLine, MaxSize <- QueueSize

fileVars == <<m_today, m_count, m_fp, files>>
vars == <<day, m_is_async, m_today, m_count, m_fp, files, pc, line, calls,
          queue, got, crashed>>

\* tm_mday of a day: all that write_log() compares.
MDay(d) == d % MonthLen

\* The stream that fopen() of a name gives.
Fopen(id) == {id} \union (IF OpenFails THEN {NoFile} ELSE {})

\* Log::init(), whose answer main() ignores.
Init ==
    /\ day = 0
    /\ m_is_async \in Modes
    /\ m_today = MDay(0)
    /\ m_count = 0
    /\ m_fp \in Fopen([day |-> 0, part |-> 0])
    /\ files = [id \in FileIds |-> <<>>]
    /\ pc = [w \in Writers |-> "idle"]
    /\ line = [w \in Writers |-> NoLine]
    /\ calls = [w \in Writers |-> 0]
    /\ Queue!Init
    /\ crashed = FALSE

Midnight ==
    /\ day < MaxDay
    /\ day' = day + 1
    /\ UNCHANGED <<m_is_async, fileVars, pc, line, calls, queue, got,
                   crashed>>

-----------------------------------------------------------------------------
(***************************************************************************)
(* write_log()                                                             *)
(***************************************************************************)

\* Writers between localtime() and the first lock.
Counting == {w \in Writers : pc[w] = "count"}

\* The clock is read before m_mutex is taken.  localtime() returns static
\* data, so that the day may be the one another thread has just put there.
Stamp(w) ==
    /\ ~crashed
    /\ pc[w] = "idle"
    /\ calls[w] < MaxCalls
    /\ calls' = [calls EXCEPT ![w] = @ + 1]
    /\ \E d \in {day} \union {line[v].day : v \in Counting} :
          line' = [line EXCEPT ![w] = [who |-> w, nr |-> calls[w] + 1,
                                       day |-> d]]
    /\ pc' = [pc EXCEPT ![w] = "count"]
    /\ UNCHANGED <<m_is_async, day, fileVars, queue, got, crashed>>

\* Fault: the suffix of the new file's name is forgotten.
NewLog_NoSuffix(d, n) == [day |-> d, part |-> 0]

\* Fault: the suffix is the count of lines.
NewLog_LineSuffix(d, n) ==
    [day |-> d, part |-> IF m_today # MDay(d) THEN 0 ELSE n]

\* The file a line of day d, the n-th since m_count was reset, starts.
NewLog(d, n) ==
    [day |-> d, part |-> IF m_today # MDay(d) THEN 0 ELSE n \div SplitLines]

TurnsFile(d, n) == m_today # MDay(d) \/ n % SplitLines = 0

\* First critical section: the line is counted and stays in the open file.
CountLine(w) ==
    /\ ~crashed
    /\ pc[w] = "count"
    /\ ~TurnsFile(line[w].day, m_count + 1)
    /\ m_count' = m_count + 1
    /\ pc' = [pc EXCEPT ![w] = "choose"]
    /\ UNCHANGED <<m_is_async, day, m_today, m_fp, files, line, calls, queue,
                   got, crashed>>

\* Fault: the new file is opened with mode "w".
ChangeFile_Truncates(w) ==
    LET d == line[w].day IN
    /\ ~crashed
    /\ pc[w] = "count"
    /\ TurnsFile(d, m_count + 1)
    /\ m_fp # NoFile
    /\ m_fp' \in Fopen(NewLog(d, m_count + 1))
    /\ files' = [files EXCEPT ![NewLog(d, m_count + 1)] = <<>>]
    /\ m_today' = MDay(d)
    /\ m_count' = IF m_today # MDay(d) THEN 0 ELSE m_count + 1
    /\ pc' = [pc EXCEPT ![w] = "choose"]
    /\ UNCHANGED <<m_is_async, day, line, calls, queue, got, crashed>>

\* First critical section: the line's day is not m_today, or the file is
\* full.  The open file is closed and another one opened for appending.
ChangeFile(w) ==
    LET d == line[w].day IN
    /\ ~crashed
    /\ pc[w] = "count"
    /\ TurnsFile(d, m_count + 1)
    /\ m_fp # NoFile
    /\ m_fp' \in Fopen(NewLog(d, m_count + 1))
    /\ m_today' = MDay(d)
    /\ m_count' = IF m_today # MDay(d) THEN 0 ELSE m_count + 1
    /\ pc' = [pc EXCEPT ![w] = "choose"]
    /\ UNCHANGED <<m_is_async, day, files, line, calls, queue, got, crashed>>

\* Second critical section, which formats into m_buf and copies it, then the
\* choice between the queue and the file.
Choose(w) ==
    /\ ~crashed
    /\ pc[w] = "choose"
    /\ pc' = [pc EXCEPT ![w] = IF m_is_async /\ Len(queue) < QueueSize
                               THEN "push" ELSE "write"]
    /\ UNCHANGED <<m_is_async, day, fileVars, line, calls, queue, got,
                   crashed>>

\* push() may find the queue full by now; its answer is ignored.
Push(w) ==
    /\ ~crashed
    /\ pc[w] = "push"
    /\ IF Len(queue) < QueueSize THEN Queue!Put(line[w])
                                 ELSE UNCHANGED <<queue, got>>
    /\ pc' = [pc EXCEPT ![w] = "idle"]
    /\ line' = [line EXCEPT ![w] = NoLine]
    /\ UNCHANGED <<m_is_async, day, fileVars, calls, crashed>>

\* Third critical section: fputs() to whatever file is open now.
Write(w) ==
    /\ ~crashed
    /\ pc[w] = "write"
    /\ m_fp # NoFile
    /\ files' = [files EXCEPT ![m_fp] = Append(@, line[w])]
    /\ pc' = [pc EXCEPT ![w] = "idle"]
    /\ line' = [line EXCEPT ![w] = NoLine]
    /\ UNCHANGED <<m_is_async, day, m_today, m_count, m_fp, calls, queue,
                   got, crashed>>

-----------------------------------------------------------------------------
(***************************************************************************)
(* async_write_log(): the flush thread                                     *)
(***************************************************************************)

FlushPop ==
    /\ ~crashed
    /\ Queue!Take(Flusher)
    /\ UNCHANGED <<m_is_async, day, fileVars, pc, line, calls, crashed>>

\* Fault: the item is dropped when the file changed meanwhile.
FlushWrite_Drops ==
    /\ ~crashed
    /\ m_fp # NoFile
    /\ Queue!Use(Flusher)
    /\ files' = IF got[Flusher].day = m_fp.day /\ m_fp.part = 0
                THEN [files EXCEPT ![m_fp] = Append(@, got[Flusher])]
                ELSE files
    /\ UNCHANGED <<m_is_async, day, m_today, m_count, m_fp, pc, line, calls,
                   crashed>>

FlushWrite ==
    /\ ~crashed
    /\ m_fp # NoFile
    /\ Queue!Use(Flusher)
    /\ files' = [files EXCEPT ![m_fp] = Append(@, got[Flusher])]
    /\ UNCHANGED <<m_is_async, day, m_today, m_count, m_fp, pc, line, calls,
                   crashed>>

\* fputs() or fclose() of a null stream.
Crash ==
    /\ ~crashed
    /\ m_fp = NoFile
    /\ \/ got[Flusher] # NoLine
       \/ \E w \in Writers :
             \/ pc[w] = "write"
             \/ pc[w] = "count" /\ TurnsFile(line[w].day, m_count + 1)
    /\ crashed' = TRUE
    /\ UNCHANGED <<m_is_async, day, fileVars, pc, line, calls, queue, got>>

WriterStep(w) ==
    CountLine(w) \/ ChangeFile(w) \/ Choose(w) \/ Push(w) \/ Write(w)

FlushStep == FlushPop \/ FlushWrite

Next ==
    \/ Midnight
    \/ \E w \in Writers : Stamp(w) \/ WriterStep(w)
    \/ FlushStep
    \/ Crash

Spec == Init /\ [][Next]_vars

\* The flush thread runs: it waits in pop() only while the queue is empty.
\* pop() answers false, which would end the thread, only when the wait for the
\* condition itself fails; that is taken not to happen here.
FairSpec == Spec /\ WF_vars(FlushStep)

-----------------------------------------------------------------------------
(***************************************************************************)
(* Properties                                                              *)
(***************************************************************************)

TypeOK ==
    /\ day \in Days
    /\ m_is_async \in BOOLEAN
    /\ m_today \in 0 .. MonthLen - 1
    /\ m_count \in 0 .. Cardinality(Writers) * MaxCalls
    /\ m_fp \in FileIds \union {NoFile}
    /\ files \in [FileIds -> Seq(Lines)]
    /\ pc \in [Writers -> {"idle", "count", "choose", "push", "write"}]
    /\ line \in [Writers -> Lines \union {NoLine}]
    /\ calls \in [Writers -> 0 .. MaxCalls]
    /\ queue \in Seq(Lines)
    /\ got \in [{Flusher} -> Lines \union {NoLine}]
    /\ crashed \in BOOLEAN

\* Where the line of w's n-th call is: places in the files, in the queue, and
\* with the flush thread.
InFiles(w, n) ==
    {p \in FileIds \X (1 .. Cardinality(Writers) * MaxCalls) :
        /\ p[2] <= Len(files[p[1]])
        /\ files[p[1]][p[2]].who = w /\ files[p[1]][p[2]].nr = n}

InQueue(w, n) ==
    {i \in 1 .. Len(queue) : queue[i].who = w /\ queue[i].nr = n}

WithFlusher(w, n) ==
    {l \in {got[Flusher]} \ {NoLine} : l.who = w /\ l.nr = n}

Returned(w, n) == n < calls[w] \/ (n = calls[w] /\ pc[w] = "idle")

\* It is in exactly one place.
Kept(w, n) ==
    Cardinality(InFiles(w, n)) + Cardinality(InQueue(w, n))
        + Cardinality(WithFlusher(w, n)) = 1

(***************************************************************************)
(* No line is lost or doubled: in synchronous mode the line of a           *)
(* write_log() that has returned is once in a file, however the files are  *)
(* closed and opened again around it.  Writers with an old time stamp make *)
(* the log go back to an earlier day's file, which only the mode "a" of    *)
(* fopen() keeps.  In asynchronous mode this is so for a writer that is    *)
(* the only one: full() and push() are two calls, and with other writers   *)
(* one of them may take the last slot of the queue in between.             *)
(***************************************************************************)
ReturnedLineKept ==
    \A w \in Writers :
        ~m_is_async \/ (\A v \in Writers \ {w} : calls[v] = 0) =>
            \A n \in 1 .. MaxCalls : Returned(w, n) => Kept(w, n)

(***************************************************************************)
(* As long as the day stays the same, a file exceeds m_split_lines by      *)
(* fewer lines than there are writers, although lines are counted in one   *)
(* critical section of write_log() and written in another.                 *)
(***************************************************************************)
FileLinesBounded ==
    ~m_is_async /\ day = 0 =>
        \A id \in FileIds :
            Len(files[id]) < SplitLines + Cardinality(Writers)

(***************************************************************************)
(* A line that push() queued is eventually written by async_write_log(),   *)
(* to whatever file is open by then, unless fopen() has failed and the     *)
(* stream is null.                                                         *)
(***************************************************************************)
QueuedIsWritten ==
    \A w \in Writers : \A n \in 1 .. MaxCalls :
        (InQueue(w, n) # {}) ~> (InFiles(w, n) # {} \/ m_fp = NoFile)
=============================================================================
