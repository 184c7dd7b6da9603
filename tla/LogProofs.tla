------------------------------ MODULE LogProofs ------------------------------
(***************************************************************************)
(* Proofs about Log, for any writers, any length of the queue and of the   *)
(* files, and any number of calls and days.                                *)
(***************************************************************************)
EXTENDS Log, FiniteSetTheorems, SequenceTheorems, TLAPS

\* The calls of write_log() that have been through the first lock.
Counted ==
    {c \in Writers \X (1 .. MaxCalls) :
        \/ c[2] < calls[c[1]]
        \/ c[2] = calls[c[1]] /\ pc[c[1]] # "count"}

(***************************************************************************)
(* A writer inside write_log() has the line of its last call, stamped with *)
(* a day that has come; m_count counts some of the calls.                  *)
(***************************************************************************)
CallInv ==
    /\ \A w \in Writers : pc[w] # "idle" =>
          /\ line[w] \in Lines
          /\ line[w].who = w /\ line[w].nr = calls[w]
          /\ line[w].day <= day
    /\ m_count <= Cardinality(Counted)

\* The places of a line in the files.
FilePlaces(w, n) ==
    {p \in FileIds \X (Nat \ {0}) :
        /\ p[2] <= Len(files[p[1]])
        /\ files[p[1]][p[2]].who = w /\ files[p[1]][p[2]].nr = n}

AtMostOne(S) == \A x, y \in S : x = y

(***************************************************************************)
(* A line is in one place at most, and in none before its write_log()      *)
(* returns.                                                                *)
(***************************************************************************)
PlaceInv ==
    \A w \in Writers, n \in 1 .. MaxCalls :
        /\ AtMostOne(FilePlaces(w, n)) /\ AtMostOne(InQueue(w, n))
        /\ FilePlaces(w, n) = {} \/ InQueue(w, n) = {}
        /\ FilePlaces(w, n) = {} \/ WithFlusher(w, n) = {}
        /\ InQueue(w, n) = {} \/ WithFlusher(w, n) = {}
        /\ ~Returned(w, n) =>
              /\ FilePlaces(w, n) = {}
              /\ InQueue(w, n) = {} /\ WithFlusher(w, n) = {}

\* No other writer has called write_log().
Alone(w) == \A v \in Writers \ {w} : calls[v] = 0

(***************************************************************************)
(* The queue is used in asynchronous mode only, and nobody takes the last  *)
(* slot of it from a single writer.                                        *)
(***************************************************************************)
ModeInv ==
    /\ ~m_is_async => /\ queue = <<>> /\ got[Flusher] = NoLine
                      /\ \A w \in Writers : pc[w] # "push"
    /\ \A w \in Writers : pc[w] = "push" /\ Alone(w) =>
                             Len(queue) < QueueSize

\* A line whose write_log() has returned is somewhere.
KeptInv ==
    \A w \in Writers, n \in 1 .. MaxCalls :
        /\ ~m_is_async \/ Alone(w)
        /\ Returned(w, n)
        => \/ FilePlaces(w, n) # {}
           \/ InQueue(w, n) # {} \/ WithFlusher(w, n) # {}

\* The part of the log that m_count has reached, and the writers whose line
\* is counted and not yet written.
Current == m_count \div SplitLines

Late == {w \in Writers : pc[w] \in {"choose", "write"}}

(***************************************************************************)
(* The parts behind the current one are still empty, and the current one   *)
(* and the lines on their way to it have lines that were counted since it  *)
(* was opened, and those of writers that were late then.                   *)
(***************************************************************************)
FileInv ==
    ~m_is_async /\ day = 0 =>
        /\ m_today = 0
        /\ m_fp # NoFile => m_fp = [day |-> 0, part |-> Current]
        /\ \A id \in FileIds :
              /\ Len(files[id]) < SplitLines + Cardinality(Writers)
              /\ id.part > Current => files[id] = <<>>
        /\ Len(files[[day |-> 0, part |-> Current]]) + Cardinality(Late)
              <= (m_count % SplitLines) + Cardinality(Writers)

-----------------------------------------------------------------------------
(***************************************************************************)
(* Types                                                                   *)
(***************************************************************************)

\* The number of calls, and the parts of a day's log.
LEMMA Bounds ==
    /\ Cardinality(Writers) \in Nat
    /\ Cardinality(Writers) * MaxCalls \in Nat
    /\ \A n \in 0 .. Cardinality(Writers) * MaxCalls :
          n \div SplitLines \in Parts
<1>1. Cardinality(Writers) \in Nat
  BY LogAssumption, FS_CardinalityType
<1> DEFINE M == Cardinality(Writers) * MaxCalls
<1>2. M \in Nat
  BY <1>1, LogAssumption
<1> HIDE DEF M
<1>3. \A n \in 0 .. M : n \div SplitLines \in 0 .. M \div SplitLines
  BY <1>2, LogAssumption
<1> QED
  BY <1>1, <1>2, <1>3 DEF Parts, M

\* There are at most so many calls.
LEMMA CallsBound ==
    ASSUME NEW S, S \subseteq Writers \X (1 .. MaxCalls)
    PROVE  /\ IsFiniteSet(S)
           /\ Cardinality(S) \in Nat
           /\ Cardinality(S) <= Cardinality(Writers) * MaxCalls
<1> DEFINE Calls == Writers \X (1 .. MaxCalls)
<1>1. IsFiniteSet(1 .. MaxCalls) /\ Cardinality(1 .. MaxCalls) = MaxCalls
  BY LogAssumption, FS_Interval
<1>2. /\ IsFiniteSet(Calls)
      /\ Cardinality(Calls) = Cardinality(Writers) * MaxCalls
  BY <1>1, LogAssumption, FS_Product
<1>3. S \in SUBSET Calls
  OBVIOUS
<1> HIDE DEF Calls
<1> QED
  BY <1>2, <1>3, FS_Subset, FS_CardinalityType

\* Counting a line counts one more call.
LEMMA CountGrows ==
    ASSUME TypeOK, CallInv, NEW w \in Writers, pc[w] = "count",
           calls' = calls, pc' = [pc EXCEPT ![w] = "choose"]
    PROVE  /\ Cardinality(Counted)' = Cardinality(Counted) + 1
           /\ m_count + 1 \in 0 .. Cardinality(Writers) * MaxCalls
           /\ m_count + 1 <= Cardinality(Counted)'
<1> DEFINE c == <<w, calls[w]>>
<1>1. c \in Writers \X (1 .. MaxCalls)
  BY DEF CallInv, Lines
<1>2. c \notin Counted
  BY <1>1, LogAssumption DEF Counted, TypeOK
<1>3. Counted' = Counted \union {c}
  <2>1. ASSUME NEW x \in Writers \X (1 .. MaxCalls), x # c
        PROVE  x \in Counted' <=> x \in Counted
    <3>1. CASE x[1] = w
      BY <2>1, <3>1 DEF Counted, TypeOK
    <3>2. CASE x[1] # w
      BY <2>1, <3>2 DEF Counted, TypeOK
    <3> QED
      BY <3>1, <3>2
  <2>2. c \in Counted'
    BY <1>1 DEF Counted, TypeOK
  <2>3. /\ Counted \subseteq Writers \X (1 .. MaxCalls)
        /\ Counted' \subseteq Writers \X (1 .. MaxCalls)
    BY DEF Counted
  <2> HIDE DEF c
  <2> QED
    BY <2>1, <2>2, <2>3
<1> HIDE DEF c
<1>4. Cardinality(Counted)' = Cardinality(Counted) + 1
  <2>1. IsFiniteSet(Counted) /\ Cardinality(Counted) \in Nat
    BY CallsBound DEF Counted
  <2> QED
    BY <1>2, <1>3, <2>1, FS_AddElement
<1>5. /\ Cardinality(Counted) \in Nat
      /\ Cardinality(Counted)' <= Cardinality(Writers) * MaxCalls
  BY CallsBound DEF Counted
<1> QED
  BY <1>4, <1>5, Bounds DEF TypeOK, CallInv

\* The initial state.
LEMMA TypeInit == Init => TypeOK /\ CallInv
<1> SUFFICES ASSUME Init PROVE TypeOK /\ CallInv
  OBVIOUS
<1>1. 0 \in 0 .. Cardinality(Writers) * MaxCalls /\ 0 \in Parts
  <2>1. 0 \div SplitLines = 0
    BY LogAssumption
  <2> QED
    BY <2>1, Bounds
<1>2. 0 \in Days /\ MDay(0) \in 0 .. MonthLen - 1
  BY LogAssumption DEF Days, MDay
<1>3. m_fp \in FileIds \union {NoFile}
  BY <1>1, <1>2 DEF Init, Fopen, FileIds
<1>4. files \in [FileIds -> Seq(Lines)] /\ queue \in Seq(Lines)
  BY EmptySeq DEF Init, Queue!Init
<1>5. TypeOK
  <2>1. m_count \in 0 .. Cardinality(Writers) * MaxCalls
    BY <1>1, Zenon DEF Init
  <2>2. /\ day \in Days /\ m_today \in 0 .. MonthLen - 1
        /\ pc \in [Writers -> {"idle", "count", "choose", "push", "write"}]
        /\ line \in [Writers -> Lines \union {NoLine}]
        /\ calls \in [Writers -> 0 .. MaxCalls]
        /\ got \in [{Flusher} -> Lines \union {NoLine}]
    BY <1>2, LogAssumption DEF Init, Queue!Init
  <2>3. m_is_async \in BOOLEAN /\ crashed \in BOOLEAN
    BY LogAssumption, Zenon DEF Init
  <2> QED
    BY <1>3, <1>4, <2>1, <2>2, <2>3, Zenon DEF TypeOK
<1>6. Cardinality(Counted) \in Nat
  BY CallsBound DEF Counted
<1> QED
  BY <1>5, <1>6 DEF Init, CallInv

\* A line's file is one of the files.
LEMMA NewLogType ==
    ASSUME NEW d \in Days, NEW n \in 0 .. Cardinality(Writers) * MaxCalls
    PROVE  NewLog(d, n) \in FileIds /\ MDay(d) \in 0 .. MonthLen - 1
<1>1. 0 \in Parts
  <2>1. 0 \div SplitLines = 0
    BY LogAssumption
  <2> QED
    BY <2>1, Bounds
<1>2. NewLog(d, n) \in FileIds
  BY <1>1, Bounds DEF NewLog, FileIds
<1> QED
  BY <1>2, LogAssumption DEF MDay, Days

\* The calls do not change as long as nobody counts.
LEMMA CountedStays ==
    ASSUME TypeOK, NEW w \in Writers, pc[w] \in {"choose", "push", "write"},
           pc' \in {[pc EXCEPT ![w] = "idle"], [pc EXCEPT ![w] = "push"],
                     [pc EXCEPT ![w] = "write"]},
           calls' = calls
    PROVE  Counted' = Counted
<1>1. \A v \in Writers : pc'[v] # "count" <=> pc[v] # "count"
  BY DEF TypeOK
<1> QED
  BY <1>1 DEF Counted

\* write_log() before its second lock.
LEMMA TypeCount ==
    ASSUME TypeOK, CallInv, NEW w \in Writers,
           Stamp(w) \/ CountLine(w) \/ ChangeFile(w)
    PROVE  TypeOK' /\ CallInv'
<1> USE DEF fileVars
<1>1. CASE Stamp(w)
  <2>1. PICK d \in {day} \union {line[v].day : v \in Counting} :
           line' = [line EXCEPT ![w] = [who |-> w, nr |-> calls[w] + 1,
                                        day |-> d]]
    BY <1>1 DEF Stamp
  <2>2. d \in Days /\ d <= day
    BY DEF Counting, CallInv, Lines, TypeOK, Days
  <2> DEFINE l == [who |-> w, nr |-> calls[w] + 1, day |-> d]
  <2>3. /\ pc[w] = "idle" /\ calls[w] < MaxCalls
        /\ calls' = [calls EXCEPT ![w] = @ + 1]
        /\ pc' = [pc EXCEPT ![w] = "count"]
        /\ UNCHANGED <<m_is_async, day, fileVars, queue, got, crashed>>
    BY <1>1 DEF Stamp
  <2>4. calls[w] + 1 \in 1 .. MaxCalls /\ calls[w] \in Nat
    BY <2>3, LogAssumption DEF TypeOK
  <2>5. l \in Lines
    BY <2>2, <2>4 DEF Lines
  <2>6. TypeOK'
    BY <2>1, <2>3, <2>4, <2>5, LogAssumption DEF TypeOK
  <2>7. Counted' = Counted
    <3> SUFFICES ASSUME NEW c \in Writers \X (1 .. MaxCalls)
                 PROVE  c \in Counted' <=> c \in Counted
      BY DEF Counted
    <3>1. CASE c[1] = w
      BY <2>3, <2>4, <3>1 DEF Counted, TypeOK
    <3>2. CASE c[1] # w
      BY <2>3, <3>2 DEF Counted, TypeOK
    <3> QED
      BY <3>1, <3>2
  <2>8. ASSUME NEW v \in Writers, pc'[v] # "idle"
        PROVE  /\ line'[v] \in Lines
               /\ line'[v].who = v /\ line'[v].nr = calls'[v]
               /\ line'[v].day <= day'
    <3>1. CASE v = w
      <4>1. line'[v] = l /\ calls'[v] = calls[w] + 1
        BY <2>1, <2>3, <3>1 DEF TypeOK
      <4> QED
        BY <2>2, <2>3, <2>5, <3>1, <4>1
    <3>2. CASE v # w
      BY <2>1, <2>3, <2>8, <3>2 DEF TypeOK, CallInv
    <3> QED
      BY <3>1, <3>2
  <2> QED
    BY <2>3, <2>6, <2>7, <2>8 DEF CallInv
<1>2. CASE CountLine(w) \/ ChangeFile(w)
  <2>1. /\ pc[w] = "count" /\ pc' = [pc EXCEPT ![w] = "choose"]
        /\ UNCHANGED <<calls, line, day, m_is_async, files, queue, got,
                       crashed>>
    BY <1>2 DEF CountLine, ChangeFile
  <2>2. /\ m_count + 1 \in 0 .. Cardinality(Writers) * MaxCalls
        /\ m_count + 1 <= Cardinality(Counted)'
        /\ 0 \in 0 .. Cardinality(Writers) * MaxCalls
        /\ 0 <= Cardinality(Counted)'
    <3>1. /\ m_count + 1 \in 0 .. Cardinality(Writers) * MaxCalls
          /\ m_count + 1 <= Cardinality(Counted)'
      BY <2>1, CountGrows
    <3>2. Cardinality(Counted)' \in Nat
      BY CallsBound DEF Counted
    <3> DEFINE M == Cardinality(Writers) * MaxCalls
    <3>3. M \in Nat
      BY Bounds
    <3> HIDE DEF M
    <3>4. 0 \in 0 .. M
      BY <3>3
    <3> QED
      BY <3>1, <3>2, <3>4 DEF M
  <2>3. line[w].day \in Days
    BY <2>1 DEF CallInv, Lines
  <2>4. /\ m_fp' \in FileIds \union {NoFile}
        /\ m_today' \in 0 .. MonthLen - 1
    <3>1. CASE CountLine(w)
      BY <3>1 DEF CountLine, TypeOK
    <3>2. CASE ChangeFile(w)
      BY <2>2, <2>3, <3>2, NewLogType DEF ChangeFile, Fopen
    <3> QED
      BY <1>2, <3>1, <3>2
  <2>5. m_count' \in {0, m_count + 1}
    BY <1>2 DEF CountLine, ChangeFile
  <2>6. TypeOK'
    BY <2>1, <2>2, <2>4, <2>5 DEF TypeOK
  <2>7. m_count' <= Cardinality(Counted)'
    BY <2>2, <2>5
  <2> QED
    BY <2>1, <2>6, <2>7 DEF CallInv, TypeOK
<1> QED
  BY <1>1, <1>2

\* write_log() behind its second lock, and the flush thread.
LEMMA TypeWrite ==
    ASSUME TypeOK, CallInv,
           \/ \E w \in Writers : Choose(w) \/ Push(w) \/ Write(w)
           \/ FlushStep
    PROVE  TypeOK' /\ CallInv'
<1> USE DEF fileVars
<1>1. ASSUME NEW w \in Writers, Choose(w) \/ Push(w) \/ Write(w)
      PROVE  TypeOK' /\ CallInv'
  <2>1. /\ pc[w] \in {"choose", "push", "write"}
        /\ pc' \in {[pc EXCEPT ![w] = "idle"], [pc EXCEPT ![w] = "push"],
                    [pc EXCEPT ![w] = "write"]}
        /\ \/ line' = line
           \/ /\ line' = [line EXCEPT ![w] = NoLine]
              /\ pc' = [pc EXCEPT ![w] = "idle"]
        /\ UNCHANGED <<calls, day, m_count, m_today, m_fp, m_is_async, got,
                       crashed>>
    BY <1>1 DEF Choose, Push, Write, Queue!Put
  <2>2. Counted' = Counted
    BY <2>1, CountedStays
  <2>3. line[w] \in Lines
    BY <2>1 DEF CallInv
  <2>4. queue' \in Seq(Lines)
    <3>1. queue' \in {queue, Append(queue, line[w])}
      BY <1>1 DEF Choose, Push, Write, Queue!Put
    <3>2. queue \in Seq(Lines)
      BY DEF TypeOK
    <3> QED
      BY <2>3, <3>1, <3>2, AppendProperties
  <2>5. files' \in [FileIds -> Seq(Lines)]
    <3>1. CASE files' = files
      BY <3>1 DEF TypeOK
    <3>2. CASE Write(w)
      <4>1. /\ m_fp \in FileIds
            /\ files' = [files EXCEPT ![m_fp] = Append(files[m_fp], line[w])]
        BY <3>2 DEF Write, TypeOK
      <4>2. files \in [FileIds -> Seq(Lines)] /\ files[m_fp] \in Seq(Lines)
        BY <4>1 DEF TypeOK
      <4>3. Append(files[m_fp], line[w]) \in Seq(Lines)
        BY <2>3, <4>2, AppendProperties
      <4> QED
        BY <4>1, <4>2, <4>3
    <3> QED
      BY <1>1, <3>1, <3>2 DEF Choose, Push
  <2>6. /\ pc' \in [Writers -> {"idle", "count", "choose", "push", "write"}]
        /\ line' \in [Writers -> Lines \union {NoLine}]
    BY <2>1 DEF TypeOK
  <2>7. TypeOK'
    BY <2>1, <2>4, <2>5, <2>6, Zenon DEF TypeOK
  <2>8. ASSUME NEW v \in Writers, pc'[v] # "idle"
        PROVE  pc[v] # "idle" /\ line'[v] = line[v]
    BY <2>1, <2>8 DEF TypeOK
  <2> QED
    BY <2>1, <2>2, <2>7, <2>8 DEF CallInv
<1>2. CASE FlushStep
  <2>1. UNCHANGED <<calls, day, m_count, m_today, m_fp, m_is_async, pc, line,
                    crashed>>
    BY <1>2 DEF FlushStep, FlushPop, FlushWrite
  <2>2. /\ got' \in [{Flusher} -> Lines \union {NoLine}]
        /\ queue' \in Seq(Lines)
        /\ files' \in [FileIds -> Seq(Lines)]
    <3>0. /\ got \in [{Flusher} -> Lines \union {NoLine}]
          /\ queue \in Seq(Lines) /\ files \in [FileIds -> Seq(Lines)]
      BY DEF TypeOK
    <3>1. CASE FlushPop
      <4>1. /\ queue # <<>> /\ queue' = Tail(queue) /\ files' = files
            /\ got' = [got EXCEPT ![Flusher] = Head(queue)]
        BY <3>1 DEF FlushPop, Queue!Take
      <4>2. Head(queue) \in Lines /\ Tail(queue) \in Seq(Lines)
        BY <3>0, <4>1, HeadTailProperties
      <4> QED
        BY <3>0, <4>1, <4>2
    <3>2. CASE FlushWrite
      <4>1. /\ m_fp # NoFile /\ got[Flusher] # NoLine /\ queue' = queue
            /\ got' = [got EXCEPT ![Flusher] = NoLine]
            /\ files' = [files EXCEPT ![m_fp] = Append(files[m_fp],
                                                       got[Flusher])]
        BY <3>2 DEF FlushWrite, Queue!Use
      <4>2. m_fp \in FileIds /\ got[Flusher] \in Lines
        BY <3>0, <4>1 DEF TypeOK
      <4>3. files[m_fp] \in Seq(Lines)
        BY <3>0, <4>2
      <4>4. Append(files[m_fp], got[Flusher]) \in Seq(Lines)
        BY <4>2, <4>3, AppendProperties
      <4> QED
        BY <3>0, <4>1, <4>2, <4>4
    <3> QED
      BY <1>2, <3>1, <3>2 DEF FlushStep
  <2>3. TypeOK'
    BY <2>1, <2>2, Zenon DEF TypeOK
  <2>4. Counted' = Counted
    BY <2>1 DEF Counted
  <2> QED
    BY <2>1, <2>3, <2>4 DEF CallInv
<1> QED
  BY <1>1, <1>2

\* A step keeps the types.
LEMMA TypeStep == TypeOK /\ CallInv /\ [Next]_vars => TypeOK' /\ CallInv'
<1> SUFFICES ASSUME TypeOK, CallInv, [Next]_vars PROVE TypeOK' /\ CallInv'
  OBVIOUS
<1> USE DEF fileVars
<1>1. CASE Midnight
  <2>1. /\ day' \in Days /\ day <= day'
        /\ UNCHANGED <<m_is_async, m_today, m_count, m_fp, files, pc, line,
                       calls, queue, got, crashed>>
    BY <1>1, LogAssumption DEF Midnight, TypeOK, Days
  <2>2. TypeOK'
    BY <2>1, Zenon DEF TypeOK
  <2>3. \A w \in Writers : line[w].day <= day => line[w].day <= day'
                           \/ line[w] \notin Lines
    BY <2>1 DEF Lines, Days, TypeOK
  <2>4. Counted' = Counted
    BY <2>1 DEF Counted
  <2> QED
    BY <2>1, <2>2, <2>3, <2>4 DEF CallInv
<1>2. CASE Crash \/ UNCHANGED vars
  <2>1. UNCHANGED <<m_is_async, day, m_today, m_count, m_fp, files, pc, line,
                    calls, queue, got>>
        /\ crashed' \in {crashed, TRUE}
    BY <1>2 DEF Crash, vars
  <2>2. Counted' = Counted
    BY <2>1 DEF Counted
  <2>3. crashed' \in BOOLEAN
    BY <2>1, Zenon DEF TypeOK
  <2> QED
    BY <2>1, <2>2, <2>3, Zenon DEF CallInv, TypeOK
<1> QED
  BY <1>1, <1>2, TypeCount, TypeWrite DEF Next, WriterStep

(***************************************************************************)
(* Types, and the count of lines: m_count stays below the number of calls. *)
(***************************************************************************)
THEOREM TypeCorrect == Spec => []TypeOK
  BY TypeInit, TypeStep, PTL DEF Spec

-----------------------------------------------------------------------------
(***************************************************************************)
(* The places of a line                                                    *)
(***************************************************************************)

\* Line l is that of w's n-th call.
Is(l, w, n) == l.who = w /\ l.nr = n

\* fputs() puts its line in one more place.
LEMMA Written ==
    ASSUME TypeOK, NEW id \in FileIds, NEW l \in Lines,
           files' = [files EXCEPT ![id] = Append(@, l)]
    PROVE  \A w, n :
              FilePlaces(w, n)' =
                 FilePlaces(w, n) \union
                    (IF Is(l, w, n) THEN {<<id, Len(files[id]) + 1>>} ELSE {})
<1> TAKE w, n
<1> DEFINE s == files[id]
           L == Len(s)
           t == Append(s, l)
           q == <<id, L + 1>>
<1>1. /\ files \in [FileIds -> Seq(Lines)] /\ s \in Seq(Lines) /\ L \in Nat
      /\ files' = [files EXCEPT ![id] = t]
  BY LenProperties DEF TypeOK
<1>2. /\ Len(t) = L + 1 /\ \A i \in 1 .. L : t[i] = s[i]
      /\ t[L + 1] = l
  BY <1>1, AppendProperties
<1> HIDE DEF t, L
<1>3. ASSUME NEW p \in FileIds \X (Nat \ {0}), p # q
      PROVE  p \in FilePlaces(w, n)' <=> p \in FilePlaces(w, n)
  <2>1. CASE p[1] = id
    <3>1. files'[p[1]] = t /\ files[p[1]] = s /\ p[2] # L + 1
      BY <1>1, <1>3, <2>1
    <3>2. p[2] <= Len(t) <=> p[2] <= L
      BY <1>1, <1>2, <3>1
    <3>3. p[2] <= L => t[p[2]] = s[p[2]]
      BY <1>1, <1>2
    <3> HIDE DEF s
    <3> QED
      BY <3>1, <3>2, <3>3 DEF FilePlaces, L
  <2>2. CASE p[1] # id
    <3>1. files'[p[1]] = files[p[1]]
      BY <1>1, <2>2
    <3> QED
      BY <3>1 DEF FilePlaces
  <2> QED
    BY <2>1, <2>2
<1>4. q \in FileIds \X (Nat \ {0}) /\ files'[id] = t
  BY <1>1
<1>5. q \in FilePlaces(w, n)' <=> Is(l, w, n)
  BY <1>1, <1>2, <1>4 DEF FilePlaces, Is
<1>6. q \notin FilePlaces(w, n)
  BY <1>1, <1>4 DEF FilePlaces, L
<1>7. /\ FilePlaces(w, n) \subseteq FileIds \X (Nat \ {0})
      /\ FilePlaces(w, n)' \subseteq FileIds \X (Nat \ {0})
  BY DEF FilePlaces
<1> HIDE DEF q
<1>8. FilePlaces(w, n)' =
         FilePlaces(w, n) \union (IF Is(l, w, n) THEN {q} ELSE {})
  BY <1>3, <1>5, <1>6, <1>7
<1> QED
  BY <1>8 DEF q, L

\* push() puts it in a slot of the queue.
LEMMA Pushed ==
    ASSUME TypeOK, NEW l \in Lines, queue' = Append(queue, l)
    PROVE  \A w, n :
              InQueue(w, n)' =
                 InQueue(w, n) \union
                    (IF Is(l, w, n) THEN {Len(queue) + 1} ELSE {})
<1> TAKE w, n
<1> DEFINE L == Len(queue)
<1>1. /\ Len(queue') = L + 1 /\ L \in Nat
      /\ \A i \in 1 .. L : queue'[i] = queue[i]
      /\ queue'[L + 1] = l
  BY AppendProperties, LenProperties DEF TypeOK
<1> HIDE DEF L
<1>2. ASSUME NEW i \in 1 .. L
      PROVE  i \in InQueue(w, n)' <=> i \in InQueue(w, n)
  BY <1>1 DEF InQueue, L
<1>3. L + 1 \in InQueue(w, n)' <=> Is(l, w, n)
  BY <1>1 DEF InQueue, Is
<1>4. /\ InQueue(w, n) \subseteq 1 .. L
      /\ InQueue(w, n)' \subseteq 1 .. L + 1
  BY <1>1 DEF InQueue, L
<1>5. \A i \in 1 .. L + 1 : i \in 1 .. L \/ i = L + 1
  BY <1>1
<1>6. L + 1 \notin 1 .. L /\ 1 .. L \subseteq 1 .. L + 1
  BY <1>1
<1> QED
  BY <1>2, <1>3, <1>4, <1>5, <1>6 DEF L

\* pop() takes the first one out, and the others move up.
LEMMA Popped ==
    ASSUME TypeOK, queue # <<>>, queue' = Tail(queue), NEW w, NEW n
    PROVE  /\ Is(Head(queue), w, n) <=> 1 \in InQueue(w, n)
           /\ \A i \in InQueue(w, n)' : i + 1 \in InQueue(w, n) /\ i + 1 # 1
           /\ \A i \in InQueue(w, n) : i = 1 \/ i - 1 \in InQueue(w, n)'
<1> DEFINE L == Len(queue)
<1>1. queue \in Seq(Lines) /\ L \in Nat /\ L # 0
  BY LenProperties, EmptySeq DEF TypeOK
<1>2. /\ Head(queue) = queue[1] /\ Len(queue') = L - 1
      /\ \A i \in 1 .. L - 1 : queue'[i] = queue[i + 1]
  BY <1>1, HeadTailProperties
<1> HIDE DEF L
<1>3. InQueue(w, n) = {i \in 1 .. L : Is(queue[i], w, n)}
  BY DEF InQueue, Is, L
<1>4. InQueue(w, n)' = {i \in 1 .. L - 1 : Is(queue[i + 1], w, n)}
  <2>1. InQueue(w, n)' = {i \in 1 .. L - 1 : Is(queue'[i], w, n)}
    BY <1>2 DEF InQueue, Is
  <2> QED
    BY <1>2, <2>1
<1>5. \A i \in 1 .. L : i = 1 \/ i - 1 \in 1 .. L - 1
  BY <1>1
<1>6. \A i \in 1 .. L - 1 : i + 1 \in 1 .. L /\ i + 1 # 1
  BY <1>1
<1>7. \A i \in 1 .. L : (i - 1) + 1 = i
  BY <1>1
<1>8. 1 \in 1 .. L
  BY <1>1
<1> QED
  BY <1>2, <1>3, <1>4, <1>5, <1>6, <1>7, <1>8

\* A writer that leaves write_log() has returned from its last call; the
\* others have returned from what they had.
LEMMA ReturnsFrom ==
    ASSUME TypeOK, CallInv, NEW v \in Writers, pc[v] \in {"push", "write"},
           pc' = [pc EXCEPT ![v] = "idle"], calls' = calls
    PROVE  /\ line[v] \in Lines
           /\ \A w \in Writers, n \in 1 .. MaxCalls :
                 /\ Is(line[v], w, n) <=> w = v /\ n = calls[v]
                 /\ Is(line[v], w, n) => ~Returned(w, n)
                 /\ Returned(w, n)' <=> Returned(w, n) \/ Is(line[v], w, n)
<1>1. /\ line[v] \in Lines /\ line[v].who = v /\ line[v].nr = calls[v]
      /\ \A w \in Writers : calls[w] \in 0 .. MaxCalls
      /\ pc \in [Writers -> {"idle", "count", "choose", "push", "write"}]
  BY DEF CallInv, TypeOK
<1>2. \A w \in Writers, n \in 1 .. MaxCalls :
         Is(line[v], w, n) <=> w = v /\ n = calls[v]
  BY <1>1 DEF Is
<1>3. ASSUME NEW w \in Writers, NEW n \in 1 .. MaxCalls
      PROVE  /\ w = v /\ n = calls[v] => ~Returned(w, n) /\ Returned(w, n)'
             /\ ~(w = v /\ n = calls[v]) => (Returned(w, n)' <=> Returned(w, n))
  <2>1. n \in Int /\ calls[w] \in Int
    BY <1>1, LogAssumption
  <2>2. CASE w = v
    BY <1>1, <2>1, <2>2 DEF Returned
  <2>3. CASE w # v
    BY <1>1, <2>1, <2>3 DEF Returned
  <2> QED
    BY <2>2, <2>3
<1> QED
  BY <1>1, <1>2, <1>3

\* write_log() leaves nothing behind, and nothing twice.
LEMMA PlaceStep ==
    ASSUME TypeOK, CallInv, PlaceInv, [Next]_vars
    PROVE  PlaceInv'
<1> USE DEF fileVars
<1> SUFFICES ASSUME NEW w \in Writers, NEW n \in 1 .. MaxCalls
             PROVE  /\ AtMostOne(FilePlaces(w, n))'
                    /\ AtMostOne(InQueue(w, n))'
                    /\ (FilePlaces(w, n) = {} \/ InQueue(w, n) = {})'
                    /\ (FilePlaces(w, n) = {} \/ WithFlusher(w, n) = {})'
                    /\ (InQueue(w, n) = {} \/ WithFlusher(w, n) = {})'
                    /\ ~Returned(w, n)' =>
                          /\ FilePlaces(w, n)' = {}
                          /\ InQueue(w, n)' = {} /\ WithFlusher(w, n)' = {}
  BY DEF PlaceInv
<1> DEFINE Goal ==
              /\ AtMostOne(FilePlaces(w, n))'
              /\ AtMostOne(InQueue(w, n))'
              /\ (FilePlaces(w, n) = {} \/ InQueue(w, n) = {})'
              /\ (FilePlaces(w, n) = {} \/ WithFlusher(w, n) = {})'
              /\ (InQueue(w, n) = {} \/ WithFlusher(w, n) = {})'
              /\ ~Returned(w, n)' =>
                    /\ FilePlaces(w, n)' = {}
                    /\ InQueue(w, n)' = {} /\ WithFlusher(w, n)' = {}
<1>0. /\ AtMostOne(FilePlaces(w, n)) /\ AtMostOne(InQueue(w, n))
      /\ FilePlaces(w, n) = {} \/ InQueue(w, n) = {}
      /\ FilePlaces(w, n) = {} \/ WithFlusher(w, n) = {}
      /\ InQueue(w, n) = {} \/ WithFlusher(w, n) = {}
      /\ ~Returned(w, n) => /\ FilePlaces(w, n) = {}
                            /\ InQueue(w, n) = {} /\ WithFlusher(w, n) = {}
  BY DEF PlaceInv
<1>1. files' = files => FilePlaces(w, n)' = FilePlaces(w, n)
  BY DEF FilePlaces
<1>2. queue' = queue => InQueue(w, n)' = InQueue(w, n)
  BY DEF InQueue
<1>3. got' = got => WithFlusher(w, n)' = WithFlusher(w, n)
  BY DEF WithFlusher
<1>4. ASSUME UNCHANGED <<files, queue, got>>,
             Returned(w, n)' <=> Returned(w, n)
      PROVE  Goal
  BY <1>0, <1>1, <1>2, <1>3, <1>4 DEF AtMostOne
<1>5. ASSUME NEW v \in Writers, CountLine(v) \/ ChangeFile(v) \/ Choose(v)
      PROVE  Goal
  <2>1. /\ UNCHANGED <<files, queue, got, calls>>
        /\ pc[v] # "idle"
        /\ \E p \in {"choose", "push", "write"} : pc' = [pc EXCEPT ![v] = p]
    BY <1>5 DEF CountLine, ChangeFile, Choose
  <2>2. Returned(w, n)' <=> Returned(w, n)
    BY <2>1 DEF Returned, TypeOK
  <2> QED
    BY <1>4, <2>1, <2>2
<1>6. ASSUME Midnight \/ Crash \/ UNCHANGED vars PROVE Goal
  <2>1. UNCHANGED <<files, queue, got, calls, pc>>
    BY <1>6 DEF Midnight, Crash, vars
  <2> QED
    BY <1>4, <2>1 DEF Returned
<1>7. ASSUME NEW v \in Writers, Stamp(v) PROVE Goal
  <2>1. /\ UNCHANGED <<files, queue, got>>
        /\ pc[v] = "idle" /\ pc' = [pc EXCEPT ![v] = "count"]
        /\ calls' = [calls EXCEPT ![v] = @ + 1]
        /\ calls[v] \in Int /\ n \in Int
    BY <1>7, LogAssumption DEF Stamp, TypeOK
  <2>2. Returned(w, n)' <=> Returned(w, n)
    <3>1. CASE w = v
      BY <2>1, <3>1 DEF Returned, TypeOK
    <3>2. CASE w # v
      BY <2>1, <3>2 DEF Returned, TypeOK
    <3> QED
      BY <3>1, <3>2
  <2> QED
    BY <1>4, <2>1, <2>2
<1>8. ASSUME NEW v \in Writers, Push(v) PROVE Goal
  <2>1. /\ pc[v] = "push" /\ pc' = [pc EXCEPT ![v] = "idle"]
        /\ UNCHANGED <<calls, files, got>>
        /\ queue' \in {queue, Append(queue, line[v])}
    BY <1>8 DEF Push, Queue!Put
  <2>2. /\ line[v] \in Lines
        /\ Is(line[v], w, n) => ~Returned(w, n)
        /\ Returned(w, n)' <=> Returned(w, n) \/ Is(line[v], w, n)
    BY <2>1, ReturnsFrom
  <2>3. CASE queue' = queue
    BY <1>0, <1>1, <1>2, <1>3, <2>1, <2>2, <2>3 DEF AtMostOne
  <2>4. CASE queue' = Append(queue, line[v])
    <3>1. InQueue(w, n)' =
             InQueue(w, n) \union
                (IF Is(line[v], w, n) THEN {Len(queue) + 1} ELSE {})
      BY <2>2, <2>4, Pushed
    <3>2. CASE Is(line[v], w, n)
      <4>1. InQueue(w, n)' = {Len(queue) + 1}
        BY <1>0, <2>2, <3>1, <3>2
      <4> QED
        BY <1>0, <1>1, <1>3, <2>1, <2>2, <3>2, <4>1 DEF AtMostOne
    <3>3. CASE ~Is(line[v], w, n)
      <4>1. InQueue(w, n)' = InQueue(w, n)
        BY <3>1, <3>3
      <4> QED
        BY <1>0, <1>1, <1>3, <2>1, <2>2, <3>3, <4>1 DEF AtMostOne
    <3> QED
      BY <3>2, <3>3
  <2> QED
    BY <2>1, <2>3, <2>4
<1>9. ASSUME NEW v \in Writers, Write(v) PROVE Goal
  <2>1. /\ pc[v] = "write" /\ pc' = [pc EXCEPT ![v] = "idle"]
        /\ UNCHANGED <<calls, queue, got>>
        /\ m_fp \in FileIds
        /\ files' = [files EXCEPT ![m_fp] = Append(@, line[v])]
    BY <1>9 DEF Write, TypeOK
  <2>2. /\ line[v] \in Lines
        /\ Is(line[v], w, n) => ~Returned(w, n)
        /\ Returned(w, n)' <=> Returned(w, n) \/ Is(line[v], w, n)
    BY <2>1, ReturnsFrom
  <2> DEFINE q == <<m_fp, Len(files[m_fp]) + 1>>
  <2>3. FilePlaces(w, n)' =
           FilePlaces(w, n) \union
              (IF Is(line[v], w, n) THEN {q} ELSE {})
    BY <2>1, <2>2, Written
  <2> HIDE DEF q
  <2>4. CASE Is(line[v], w, n)
    <3>1. FilePlaces(w, n)' = {q}
      BY <1>0, <2>2, <2>3, <2>4
    <3> QED
      BY <1>0, <1>2, <1>3, <2>1, <2>2, <2>4, <3>1 DEF AtMostOne
  <2>5. CASE ~Is(line[v], w, n)
    <3>1. FilePlaces(w, n)' = FilePlaces(w, n)
      BY <2>3, <2>5
    <3> QED
      BY <1>0, <1>2, <1>3, <2>1, <2>2, <2>5, <3>1 DEF AtMostOne
  <2> QED
    BY <2>4, <2>5
<1>10. ASSUME FlushPop PROVE Goal
  <2>1. /\ queue # <<>> /\ queue' = Tail(queue)
        /\ got[Flusher] = NoLine
        /\ got' = [got EXCEPT ![Flusher] = Head(queue)]
        /\ UNCHANGED <<files, calls, pc>>
    BY <1>10 DEF FlushPop, Queue!Take
  <2> DEFINE l == Head(queue)
  <2>2. l \in Lines /\ l # NoLine
    BY <2>1, HeadTailProperties, LogAssumption DEF TypeOK
  <2>3. got'[Flusher] = l
    BY <2>1 DEF TypeOK
  <2>4. /\ Is(l, w, n) <=> 1 \in InQueue(w, n)
        /\ \A i \in InQueue(w, n)' : i + 1 \in InQueue(w, n) /\ i + 1 # 1
        /\ InQueue(w, n)' \subseteq Int /\ InQueue(w, n) \subseteq Int
    <3>1. InQueue(w, n)' \subseteq Int /\ InQueue(w, n) \subseteq Int
      BY DEF InQueue
    <3> QED
      BY <2>1, <3>1, Popped
  <2>5. WithFlusher(w, n)' = IF Is(l, w, n) THEN {l} ELSE {}
    BY <2>2, <2>3 DEF WithFlusher, Is
  <2>6. AtMostOne(InQueue(w, n)')
    BY <1>0, <2>4 DEF AtMostOne
  <2>7. Is(l, w, n) => InQueue(w, n)' = {}
    BY <1>0, <2>4 DEF AtMostOne
  <2>8. InQueue(w, n)' # {} => InQueue(w, n) # {}
    BY <2>4
  <2>9. Is(l, w, n) => InQueue(w, n) # {}
    BY <2>4
  <2>10. /\ FilePlaces(w, n)' = FilePlaces(w, n)
         /\ Returned(w, n)' <=> Returned(w, n)
    BY <1>1, <2>1 DEF Returned
  <2> HIDE DEF l
  <2> QED
    BY <1>0, <2>5, <2>6, <2>7, <2>8, <2>9, <2>10 DEF AtMostOne
<1>11. ASSUME FlushWrite PROVE Goal
  <2>0. PICK x : x = got[Flusher]
    OBVIOUS
  <2>1. /\ x # NoLine /\ m_fp \in FileIds
        /\ got' = [got EXCEPT ![Flusher] = NoLine]
        /\ files' = [files EXCEPT ![m_fp] = Append(@, x)]
        /\ UNCHANGED <<queue, calls, pc>>
    BY <1>11, <2>0 DEF FlushWrite, Queue!Use, TypeOK
  <2>2. x \in Lines /\ got'[Flusher] = NoLine
    BY <2>0, <2>1 DEF TypeOK
  <2> DEFINE q == <<m_fp, Len(files[m_fp]) + 1>>
  <2>3. FilePlaces(w, n)' =
           FilePlaces(w, n) \union (IF Is(x, w, n) THEN {q} ELSE {})
    <3>1. m_fp \in FileIds /\ x \in Lines
      BY <2>1, <2>2
    <3>2. files' = [files EXCEPT ![m_fp] = Append(@, x)] =>
             \A u, k : FilePlaces(u, k)' =
                FilePlaces(u, k) \union
                   (IF Is(x, u, k) THEN {<<m_fp, Len(files[m_fp]) + 1>>}
                                   ELSE {})
      BY <3>1, Written
    <3> QED
      BY <2>1, <3>2
  <2>4. /\ WithFlusher(w, n)' = {}
        /\ WithFlusher(w, n) = IF Is(x, w, n) THEN {x} ELSE {}
    BY <2>0, <2>1, <2>2 DEF WithFlusher, Is
  <2>5. /\ InQueue(w, n)' = InQueue(w, n)
        /\ Returned(w, n)' <=> Returned(w, n)
    BY <1>2, <2>1 DEF Returned
  <2> HIDE DEF q
  <2>6. CASE Is(x, w, n)
    <3>1. FilePlaces(w, n)' = {q} /\ InQueue(w, n) = {} /\ Returned(w, n)
      BY <1>0, <2>3, <2>4, <2>6
    <3> QED
      BY <2>4, <2>5, <3>1 DEF AtMostOne
  <2>7. CASE ~Is(x, w, n)
    BY <1>0, <2>3, <2>4, <2>5, <2>7 DEF AtMostOne
  <2> QED
    BY <2>6, <2>7
<1> HIDE DEF Goal
<1>12. Goal
  BY <1>5, <1>6, <1>7, <1>8, <1>9, <1>10, <1>11
  DEF Next, WriterStep, FlushStep
<1> QED
  BY <1>12 DEF Goal

\* A writer that has begun no call is not inside one.
LEMMA NoCallIdle ==
    ASSUME TypeOK, CallInv, NEW w \in Writers, calls[w] = 0
    PROVE  pc[w] = "idle"
<1> SUFFICES ASSUME pc[w] # "idle" PROVE FALSE
  OBVIOUS
<1>1. line[w] \in Lines /\ line[w].nr = calls[w]
  BY DEF CallInv
<1>2. line[w].nr \in 1 .. MaxCalls
  BY <1>1 DEF Lines
<1> QED
  BY <1>1, <1>2, LogAssumption

\* A writer that is alone has been alone.
LEMMA AloneBefore ==
    ASSUME TypeOK, [Next]_vars, NEW w \in Writers, Alone(w)'
    PROVE  Alone(w)
<1> USE DEF fileVars
<1> SUFFICES ASSUME NEW v \in Writers \ {w}, calls'[v] = 0
             PROVE  calls[v] = 0
  BY DEF Alone
<1>1. CASE calls' = calls
  BY <1>1
<1>2. CASE \E u \in Writers : Stamp(u)
  <2>1. PICK u \in Writers : calls' = [calls EXCEPT ![u] = @ + 1]
    BY <1>2 DEF Stamp
  <2>2. \A x \in Writers : calls[x] \in Nat
    BY LogAssumption DEF TypeOK
  <2>3. v # u
    BY <2>1, <2>2 DEF TypeOK
  <2> QED
    BY <2>1, <2>3 DEF TypeOK
<1> QED
  BY <1>1, <1>2
  DEF Next, Midnight, WriterStep, CountLine, ChangeFile, Choose, Push, Write,
      FlushStep, FlushPop, FlushWrite, Crash, vars

\* Nobody but the flush thread touches the queue between full() and push() of
\* a single writer.
LEMMA ModeStep ==
    ASSUME TypeOK, CallInv, ModeInv, [Next]_vars
    PROVE  ModeInv'
<1> USE DEF fileVars
<1>0. /\ \A w \in Writers : Alone(w)' => Alone(w)
      /\ pc \in [Writers -> {"idle", "count", "choose", "push", "write"}]
      /\ Len(queue) \in Nat /\ QueueSize \in Nat
  BY AloneBefore, LenProperties, LogAssumption DEF TypeOK
<1>1. ASSUME UNCHANGED m_is_async, got' = got \/ m_is_async,
             queue' = queue \/ (queue # <<>> /\ queue' = Tail(queue)),
             \A w \in Writers : pc'[w] = "push" =>
                pc[w] = "push" \/ (m_is_async /\ Len(queue) < QueueSize)
      PROVE  ModeInv'
  <2>1. Len(queue') <= Len(queue) /\ Len(queue') \in Nat
    <3>1. CASE queue' = queue
      BY <1>0, <3>1
    <3>2. CASE queue # <<>> /\ queue' = Tail(queue)
      <4>1. queue \in Seq(Lines)
        BY DEF TypeOK
      <4>2. Len(queue') = Len(queue) - 1 /\ Len(queue) # 0
        BY <3>2, <4>1, HeadTailProperties, EmptySeq
      <4> QED
        BY <1>0, <4>2
    <3> QED
      BY <1>1, <3>1, <3>2
  <2> QED
    BY <1>0, <1>1, <2>1 DEF ModeInv
<1>2. CASE Midnight \/ Crash \/ UNCHANGED vars
  BY <1>1, <1>2 DEF Midnight, Crash, vars
<1>3. ASSUME NEW v \in Writers,
             Stamp(v) \/ CountLine(v) \/ ChangeFile(v) \/ Choose(v) \/ Write(v)
      PROVE  ModeInv'
  <2>1. /\ UNCHANGED <<m_is_async, queue, got>>
        /\ \E p \in {"idle", "count", "choose", "push", "write"} :
              /\ pc' = [pc EXCEPT ![v] = p]
              /\ p = "push" => m_is_async /\ Len(queue) < QueueSize
    BY <1>3, Zenon DEF Stamp, CountLine, ChangeFile, Choose, Write
  <2>2. \A w \in Writers : pc'[w] = "push" =>
           pc[w] = "push" \/ (m_is_async /\ Len(queue) < QueueSize)
    BY <1>0, <2>1
  <2> QED
    BY <1>1, <2>1, <2>2
<1>4. ASSUME NEW v \in Writers, Push(v) PROVE ModeInv'
  <2>1. /\ pc[v] = "push" /\ pc' = [pc EXCEPT ![v] = "idle"]
        /\ UNCHANGED m_is_async /\ m_is_async
    BY <1>4 DEF Push, ModeInv
  <2>2. calls[v] # 0
    BY <2>1, NoCallIdle
  <2>3. \A w \in Writers : pc'[w] = "push" => pc[w] = "push" /\ w # v
    BY <1>0, <2>1
  <2>4. \A w \in Writers \ {v} : ~Alone(w)
    BY <2>2 DEF Alone
  <2> QED
    BY <1>0, <2>1, <2>3, <2>4 DEF ModeInv
<1>5. CASE FlushStep
  <2>1. m_is_async
    BY <1>5 DEF FlushStep, FlushPop, FlushWrite, Queue!Take, Queue!Use,
                ModeInv
  <2> QED
    BY <1>1, <1>5, <2>1
    DEF FlushStep, FlushPop, FlushWrite, Queue!Take, Queue!Use
<1> QED
  BY <1>2, <1>3, <1>4, <1>5 DEF Next, WriterStep

\* A line gets somewhere by the time its write_log() returns.
LEMMA KeptStep ==
    ASSUME TypeOK, CallInv, ModeInv, KeptInv, [Next]_vars
    PROVE  KeptInv'
<1> USE DEF fileVars
<1> SUFFICES ASSUME NEW w \in Writers, NEW n \in 1 .. MaxCalls,
                    ~m_is_async' \/ Alone(w)', Returned(w, n)'
             PROVE  \/ FilePlaces(w, n)' # {}
                    \/ InQueue(w, n)' # {} \/ WithFlusher(w, n)' # {}
  BY DEF KeptInv
<1> DEFINE Goal == \/ FilePlaces(w, n)' # {}
                   \/ InQueue(w, n)' # {} \/ WithFlusher(w, n)' # {}
<1>0. m_is_async' = m_is_async
  BY DEF Next, Midnight, WriterStep, Stamp, CountLine, ChangeFile, Choose,
         Push, Write, FlushStep, FlushPop, FlushWrite, Crash, vars
<1>1. /\ ~m_is_async \/ Alone(w)
      /\ Returned(w, n) => \/ FilePlaces(w, n) # {}
                           \/ InQueue(w, n) # {} \/ WithFlusher(w, n) # {}
  BY <1>0, AloneBefore DEF KeptInv
<1>2. /\ files' = files => FilePlaces(w, n)' = FilePlaces(w, n)
      /\ queue' = queue => InQueue(w, n)' = InQueue(w, n)
      /\ got' = got => WithFlusher(w, n)' = WithFlusher(w, n)
  BY DEF FilePlaces, InQueue, WithFlusher
<1>3. ASSUME UNCHANGED <<files, queue, got>>, Returned(w, n) PROVE Goal
  BY <1>1, <1>2, <1>3
<1>4. ASSUME NEW v \in Writers, CountLine(v) \/ ChangeFile(v) \/ Choose(v)
      PROVE  Goal
  <2>1. /\ UNCHANGED <<files, queue, got, calls>>
        /\ \E p \in {"choose", "push", "write"} : pc' = [pc EXCEPT ![v] = p]
    BY <1>4 DEF CountLine, ChangeFile, Choose
  <2>2. Returned(w, n)
    BY <2>1 DEF Returned, TypeOK
  <2> QED
    BY <1>3, <2>1, <2>2
<1>5. ASSUME Midnight \/ Crash \/ UNCHANGED vars PROVE Goal
  <2>1. UNCHANGED <<files, queue, got, calls, pc>>
    BY <1>5 DEF Midnight, Crash, vars
  <2> QED
    BY <1>3, <2>1 DEF Returned
<1>6. ASSUME NEW v \in Writers, Stamp(v) PROVE Goal
  <2>1. /\ UNCHANGED <<files, queue, got>>
        /\ pc[v] = "idle" /\ pc' = [pc EXCEPT ![v] = "count"]
        /\ calls' = [calls EXCEPT ![v] = @ + 1]
        /\ calls[v] \in Int /\ n \in Int
    BY <1>6, LogAssumption DEF Stamp, TypeOK
  <2>2. Returned(w, n)
    BY <2>1 DEF Returned, TypeOK
  <2> QED
    BY <1>3, <2>1, <2>2
<1>7. ASSUME NEW v \in Writers, Push(v) PROVE Goal
  <2>1. /\ pc[v] = "push" /\ pc' = [pc EXCEPT ![v] = "idle"]
        /\ UNCHANGED <<calls, files, got>>
        /\ IF Len(queue) < QueueSize THEN queue' = Append(queue, line[v])
                                     ELSE queue' = queue
    BY <1>7 DEF Push, Queue!Put
  <2>2. /\ line[v] \in Lines
        /\ Is(line[v], w, n) <=> w = v /\ n = calls[v]
        /\ Returned(w, n)' <=> Returned(w, n) \/ Is(line[v], w, n)
    BY <2>1, ReturnsFrom
  <2>3. Is(line[v], w, n) => Len(queue) < QueueSize
    BY <1>1, <2>1, <2>2 DEF ModeInv
  <2>4. CASE queue' = queue /\ ~(Len(queue) < QueueSize)
    BY <1>3, <2>1, <2>2, <2>3, <2>4
  <2>5. CASE queue' = Append(queue, line[v])
    <3>1. InQueue(w, n)' =
             InQueue(w, n) \union
                (IF Is(line[v], w, n) THEN {Len(queue) + 1} ELSE {})
      BY <2>2, <2>5, Pushed
    <3> QED
      BY <1>1, <1>2, <2>1, <2>2, <3>1
  <2> QED
    BY <2>1, <2>4, <2>5
<1>8. ASSUME NEW v \in Writers, Write(v) PROVE Goal
  <2>1. /\ pc[v] = "write" /\ pc' = [pc EXCEPT ![v] = "idle"]
        /\ UNCHANGED <<calls, queue, got>>
        /\ m_fp \in FileIds
        /\ files' = [files EXCEPT ![m_fp] = Append(@, line[v])]
    BY <1>8 DEF Write, TypeOK
  <2>2. /\ line[v] \in Lines
        /\ Returned(w, n)' <=> Returned(w, n) \/ Is(line[v], w, n)
    BY <2>1, ReturnsFrom
  <2> DEFINE q == <<m_fp, Len(files[m_fp]) + 1>>
  <2>3. FilePlaces(w, n)' =
           FilePlaces(w, n) \union
              (IF Is(line[v], w, n) THEN {q} ELSE {})
    BY <2>1, <2>2, Written
  <2> HIDE DEF q
  <2> QED
    BY <1>1, <1>2, <2>1, <2>2, <2>3
<1>9. ASSUME FlushPop PROVE Goal
  <2>1. /\ queue # <<>> /\ queue' = Tail(queue)
        /\ got[Flusher] = NoLine
        /\ got' = [got EXCEPT ![Flusher] = Head(queue)]
        /\ UNCHANGED <<files, calls, pc>>
    BY <1>9 DEF FlushPop, Queue!Take
  <2>2. Head(queue) \in Lines /\ Head(queue) # NoLine
    BY <2>1, HeadTailProperties, LogAssumption DEF TypeOK
  <2>3. got'[Flusher] = Head(queue)
    BY <2>1 DEF TypeOK
  <2>4. /\ Is(Head(queue), w, n) => Head(queue) \in WithFlusher(w, n)'
        /\ WithFlusher(w, n) = {}
    BY <2>1, <2>2, <2>3 DEF WithFlusher, Is
  <2>5. InQueue(w, n) # {} =>
           Is(Head(queue), w, n) \/ InQueue(w, n)' # {}
    BY <2>1, Popped
  <2>6. Returned(w, n)
    BY <2>1 DEF Returned
  <2> QED
    BY <1>1, <1>2, <2>1, <2>4, <2>5, <2>6
<1>10. ASSUME FlushWrite PROVE Goal
  <2>0. PICK x : x = got[Flusher]
    OBVIOUS
  <2>1. /\ x # NoLine /\ m_fp \in FileIds
        /\ files' = [files EXCEPT ![m_fp] = Append(@, x)]
        /\ UNCHANGED <<queue, calls, pc>>
    BY <1>10, <2>0 DEF FlushWrite, Queue!Use, TypeOK
  <2>2. x \in Lines
    BY <2>0, <2>1 DEF TypeOK
  <2>3. files' = [files EXCEPT ![m_fp] = Append(@, x)] =>
           \A u, k : FilePlaces(u, k)' =
              FilePlaces(u, k) \union
                 (IF Is(x, u, k) THEN {<<m_fp, Len(files[m_fp]) + 1>>}
                                 ELSE {})
    BY <2>1, <2>2, Written
  <2>4. FilePlaces(w, n) # {} \/ Is(x, w, n) => FilePlaces(w, n)' # {}
    BY <2>1, <2>3
  <2>5. WithFlusher(w, n) # {} => Is(x, w, n)
    BY <2>0 DEF WithFlusher, Is
  <2>6. Returned(w, n)
    BY <2>1 DEF Returned
  <2> QED
    BY <1>1, <1>2, <2>1, <2>4, <2>5, <2>6
<1> QED
  BY <1>4, <1>5, <1>6, <1>7, <1>8, <1>9, <1>10
  DEF Next, WriterStep, FlushStep

\* A file has a line of each call at most.
LEMMA FileBound ==
    ASSUME TypeOK, PlaceInv, NEW id \in FileIds
    PROVE  Len(files[id]) <= Cardinality(Writers) * MaxCalls
<1> DEFINE s == files[id]
           L == Len(s)
           Calls == Writers \X (1 .. MaxCalls)
           f == [i \in 1 .. L |-> <<s[i].who, s[i].nr>>]
<1>1. s \in Seq(Lines) /\ L \in Nat
  BY LenProperties DEF TypeOK
<1>2. \A i \in 1 .. L : s[i] \in Lines
  BY <1>1, ElementOfSeq
<1>3. \A i \in 1 .. L : f[i] \in Calls
  BY <1>2 DEF Lines
<1>4. ASSUME NEW i \in 1 .. L, NEW j \in 1 .. L, f[i] = f[j] PROVE i = j
  <2> DEFINE w == s[i].who
             n == s[i].nr
  <2>1. /\ w \in Writers /\ n \in 1 .. MaxCalls
        /\ s[j].who = w /\ s[j].nr = n
    BY <1>2, <1>4 DEF Lines
  <2>2. <<id, i>> \in FilePlaces(w, n) /\ <<id, j>> \in FilePlaces(w, n)
    BY <1>1, <2>1 DEF FilePlaces
  <2>3. AtMostOne(FilePlaces(w, n))
    BY <2>1 DEF PlaceInv
  <2> QED
    BY <2>2, <2>3 DEF AtMostOne
<1>5. f \in Injection(1 .. L, Calls)
  BY <1>3, <1>4 DEF Injection, IsInjective
<1> HIDE DEF f, L, Calls
<1>6. /\ IsFiniteSet(Calls)
      /\ Cardinality(Calls) = Cardinality(Writers) * MaxCalls
  <2>1. IsFiniteSet(1 .. MaxCalls) /\ Cardinality(1 .. MaxCalls) = MaxCalls
    BY LogAssumption, FS_Interval
  <2> QED
    BY <2>1, LogAssumption, FS_Product DEF Calls
<1>7. Cardinality(1 .. L) = L /\ Cardinality(1 .. L) <= Cardinality(Calls)
  BY <1>1, <1>5, <1>6, FS_Interval, FS_Injection
<1> QED
  BY <1>6, <1>7 DEF L

\* What the invariants say of a line whose write_log() has returned.
LEMMA KeptOnce ==
    ASSUME TypeOK, PlaceInv, KeptInv
    PROVE  ReturnedLineKept
<1> SUFFICES ASSUME NEW w \in Writers, NEW n \in 1 .. MaxCalls,
                    ~m_is_async \/ Alone(w), Returned(w, n)
             PROVE  Kept(w, n)
  BY DEF ReturnedLineKept, Alone
<1> DEFINE F == InFiles(w, n)
           Q == InQueue(w, n)
           G == WithFlusher(w, n)
<1>1. F = FilePlaces(w, n)
  <2> DEFINE M == Cardinality(Writers) * MaxCalls
  <2>1. ASSUME NEW p \in FileIds \X (Nat \ {0}), p[2] <= Len(files[p[1]])
        PROVE  p \in FileIds \X (1 .. M)
    <3>1. p[1] \in FileIds /\ p[2] \in Nat \ {0} /\ p = <<p[1], p[2]>>
      OBVIOUS
    <3>2. Len(files[p[1]]) <= M /\ Len(files[p[1]]) \in Nat
      BY <3>1, FileBound, LenProperties DEF TypeOK
    <3>3. M \in Nat
      BY Bounds
    <3> HIDE DEF M
    <3>4. p[2] \in 1 .. M
      BY <2>1, <3>1, <3>2, <3>3
    <3> QED
      BY <3>1, <3>4
  <2>2. M \in Nat
    BY Bounds
  <2> HIDE DEF M
  <2>3. FileIds \X (1 .. M) \subseteq FileIds \X (Nat \ {0})
    BY <2>2
  <2>4. F = {p \in FileIds \X (1 .. M) :
                /\ p[2] <= Len(files[p[1]])
                /\ files[p[1]][p[2]].who = w /\ files[p[1]][p[2]].nr = n}
    BY DEF InFiles, M
  <2> QED
    BY <2>1, <2>3, <2>4 DEF FilePlaces
<1>2. /\ AtMostOne(F) /\ AtMostOne(Q) /\ AtMostOne(G)
      /\ F = {} \/ Q = {}
      /\ F = {} \/ G = {}
      /\ Q = {} \/ G = {}
      /\ F # {} \/ Q # {} \/ G # {}
  BY <1>1 DEF PlaceInv, KeptInv, WithFlusher, AtMostOne
<1> HIDE DEF F, Q, G
<1>3. ASSUME NEW S, AtMostOne(S)
      PROVE  Cardinality(S) = IF S = {} THEN 0 ELSE 1
  <2>1. CASE S = {}
    BY <2>1, FS_EmptySet
  <2>2. CASE S # {}
    <3>0. PICK x \in S : TRUE
      BY <2>2
    <3>1. S = {x}
      BY <1>3, <3>0 DEF AtMostOne
    <3> QED
      BY <2>2, <3>1, FS_Singleton
  <2> QED
    BY <2>1, <2>2
<1>4. Cardinality(F) + Cardinality(Q) + Cardinality(G) = 1
  BY <1>2, <1>3
<1> QED
  BY <1>4 DEF Kept, F, Q, G

\* Types, calls and places together.
LEMMA PlacesInvariant ==
    Spec => [](TypeOK /\ CallInv /\ PlaceInv /\ ModeInv /\ KeptInv)
<1>1. Init => PlaceInv /\ ModeInv /\ KeptInv
  <2> SUFFICES ASSUME Init PROVE PlaceInv /\ ModeInv /\ KeptInv
    OBVIOUS
  <2>1. ASSUME NEW w \in Writers, NEW n \in 1 .. MaxCalls
        PROVE  /\ FilePlaces(w, n) = {} /\ InQueue(w, n) = {}
               /\ WithFlusher(w, n) = {} /\ ~Returned(w, n)
    <3>1. FilePlaces(w, n) = {}
      <4>1. \A p \in FileIds \X (Nat \ {0}) : ~(p[2] <= Len(files[p[1]]))
        BY EmptySeq DEF Init
      <4> QED
        BY <4>1 DEF FilePlaces
    <3>2. InQueue(w, n) = {}
      BY EmptySeq DEF Init, Queue!Init, InQueue
    <3>3. WithFlusher(w, n) = {}
      BY DEF Init, Queue!Init, WithFlusher
    <3>4. ~Returned(w, n)
      BY LogAssumption DEF Init, Returned
    <3> QED
      BY <3>1, <3>2, <3>3, <3>4
  <2> QED
    BY <2>1 DEF Init, Queue!Init, PlaceInv, ModeInv, KeptInv, AtMostOne
<1>2. TypeOK /\ CallInv /\ PlaceInv /\ ModeInv /\ KeptInv /\ [Next]_vars
         => PlaceInv' /\ ModeInv' /\ KeptInv'
  BY PlaceStep, ModeStep, KeptStep
<1> QED
  BY <1>1, <1>2, TypeInit, TypeStep, PTL DEF Spec

(***************************************************************************)
(* write_log() loses and doubles no line in synchronous mode, nor in       *)
(* asynchronous mode for a single writer, for any number of writers, lines *)
(* and days, however often the file is changed between its three locks.    *)
(***************************************************************************)
THEOREM LinesAreKept == Spec => []ReturnedLineKept
  BY PlacesInvariant, KeptOnce, PTL

-----------------------------------------------------------------------------
(***************************************************************************)
(* The length of a file                                                    *)
(***************************************************************************)

\* The next line stays in the part of the log, or starts the next part.
LEMMA NextPart ==
    ASSUME NEW n \in Nat
    PROVE  /\ n % SplitLines \in 0 .. SplitLines - 1
           /\ n \div SplitLines \in Nat
           /\ (n + 1) % SplitLines # 0 =>
                 /\ (n + 1) \div SplitLines = n \div SplitLines
                 /\ (n + 1) % SplitLines = (n % SplitLines) + 1
           /\ (n + 1) % SplitLines = 0 =>
                 (n + 1) \div SplitLines = (n \div SplitLines) + 1
<1>1. n % SplitLines \in 0 .. SplitLines - 1 /\ n \div SplitLines \in Nat
  BY LogAssumption
<1>2. (n + 1) % SplitLines # 0 =>
         (n + 1) \div SplitLines = n \div SplitLines
  BY LogAssumption
<1>3. (n + 1) % SplitLines # 0 =>
         (n + 1) % SplitLines = (n % SplitLines) + 1
  <2> DEFINE p == SplitLines * (n \div SplitLines)
             q == SplitLines * ((n + 1) \div SplitLines)
  <2>1. n = p + (n % SplitLines) /\ p \in Int
    BY LogAssumption
  <2>2. n + 1 = q + ((n + 1) % SplitLines) /\ q \in Int
    BY LogAssumption
  <2>3. (n + 1) % SplitLines # 0 => p = q
    BY <1>2
  <2>4. (n + 1) % SplitLines \in Int
    BY LogAssumption
  <2> DEFINE r == n % SplitLines
             s == (n + 1) % SplitLines
  <2> HIDE DEF p, q, r, s
  <2>5. s # 0 => s = r + 1
    BY <1>1, <2>1, <2>2, <2>3, <2>4 DEF r, s
  <2> QED
    BY <2>5 DEF r, s
<1>4. (n + 1) % SplitLines = 0 =>
         (n + 1) \div SplitLines = (n \div SplitLines) + 1
  BY LogAssumption
<1> QED
  BY <1>1, <1>2, <1>3, <1>4

\* At most all writers are late.
LEMMA LateBound ==
    ASSUME NEW S, S \subseteq Writers
    PROVE  /\ IsFiniteSet(S) /\ Cardinality(S) \in Nat
           /\ Cardinality(S) <= Cardinality(Writers)
  BY LogAssumption, FS_Subset, FS_CardinalityType

\* The current part is one of the files.
LEMMA CurrentFile ==
    ASSUME TypeOK
    PROVE  [day |-> 0, part |-> Current] \in FileIds
<1>1. 0 \in Days
  BY LogAssumption DEF Days
<1>2. Current \in Parts
  BY Bounds DEF TypeOK, Current
<1> QED
  BY <1>1, <1>2 DEF FileIds

\* Counting: one more line on its way to the current part, or to a new one.
LEMMA FileCount ==
    ASSUME TypeOK, CallInv, FileInv, ~m_is_async, day = 0,
           NEW w \in Writers, CountLine(w) \/ ChangeFile(w)
    PROVE  FileInv'
<1> USE DEF fileVars
<1> DEFINE cur == [day |-> 0, part |-> Current]
           W == Cardinality(Writers)
           lateNow == Cardinality(Late)
           k == m_count % SplitLines
<1>0. /\ m_today = 0
      /\ m_fp # NoFile => m_fp = cur
      /\ \A id \in FileIds :
            /\ Len(files[id]) < SplitLines + W
            /\ id.part > Current => files[id] = <<>>
      /\ Len(files[cur]) + lateNow <= k + W
      /\ line[w].day = 0
      /\ pc[w] = "count" /\ pc' = [pc EXCEPT ![w] = "choose"]
      /\ UNCHANGED <<files, day, m_is_async, calls>>
  <2>1. pc[w] = "count"
    BY DEF CountLine, ChangeFile
  <2>2. line[w].day \in Days /\ line[w].day <= 0
    BY <2>1 DEF CallInv, Lines
  <2>3. line[w].day = 0
    BY <2>2 DEF Days
  <2> QED
    BY <2>1, <2>3 DEF FileInv, CountLine, ChangeFile
<1>1. m_count \in Nat /\ m_count + 1 \in 0 .. W * MaxCalls
  <2>1. m_count + 1 \in 0 .. W * MaxCalls
    BY <1>0, CountGrows
  <2>2. m_count \in Nat
    BY Bounds DEF TypeOK
  <2> QED
    BY <2>1, <2>2
<1>2. /\ Late' = Late \union {w} /\ w \notin Late
      /\ Late \subseteq Writers /\ Late' \subseteq Writers
  BY <1>0 DEF Late, TypeOK
<1>3. /\ Cardinality(Late)' = lateNow + 1
      /\ Cardinality(Late)' \in Nat /\ Cardinality(Late)' <= W
      /\ lateNow \in Nat /\ W \in Nat
  BY <1>2, LateBound, FS_AddElement, Bounds
<1>4. MDay(0) = 0
  BY LogAssumption DEF MDay
<1> HIDE DEF W, lateNow
<1>5. CASE CountLine(w)
  <2>1. /\ m_count' = m_count + 1 /\ (m_count + 1) % SplitLines # 0
        /\ UNCHANGED <<m_fp, m_today>>
    BY <1>5 DEF CountLine, TurnsFile
  <2>2. Current' = Current /\ m_count' % SplitLines = k + 1 /\ k \in Nat
    BY <1>1, <2>1, NextPart DEF Current
  <2>3. Len(files[cur]) \in Nat
    BY CurrentFile, LenProperties DEF TypeOK
  <2> HIDE DEF k
  <2>4. Len(files[cur]) + Cardinality(Late)' <= (m_count' % SplitLines) + W
    <3> DEFINE a == Len(files[cur])
               b == Cardinality(Late)'
               c == m_count' % SplitLines
    <3> HIDE DEF a, b, c
    <3>1. a + lateNow <= k + W /\ a \in Nat
      BY <1>0, <2>3 DEF a, k
    <3>2. b = lateNow + 1 /\ b \in Nat /\ c = k + 1 /\ k \in Nat
      BY <1>3, <2>2 DEF b, c
    <3>3. a + b <= c + W
      BY <1>3, <3>1, <3>2
    <3> QED
      BY <3>3 DEF a, b, c
  <2> QED
    BY <1>0, <2>1, <2>2, <2>4 DEF FileInv, W
<1>6. CASE ChangeFile(w)
  <2>1. (m_count + 1) % SplitLines = 0 /\ m_count' = m_count + 1
    BY <1>0, <1>4, <1>6 DEF ChangeFile, TurnsFile
  <2>2. Current' = Current + 1 /\ Current \in Nat
    BY <1>1, <2>1, NextPart DEF Current
  <2>3. NewLog(0, m_count + 1) = [day |-> 0, part |-> Current']
    BY <1>0, <1>4, <2>1 DEF NewLog, Current
  <2>4. /\ m_today' = 0
        /\ m_fp' # NoFile => m_fp' = [day |-> 0, part |-> Current']
    BY <1>0, <1>4, <1>6, <2>3 DEF ChangeFile, Fopen
  <2>5. [day |-> 0, part |-> Current'] \in FileIds
    <3>1. 0 \in Days /\ Current' \in Parts
      BY <1>1, <2>1, Bounds, LogAssumption DEF Days, Current, W
    <3> QED
      BY <3>1 DEF FileIds
  <2>6. files[[day |-> 0, part |-> Current']] = <<>>
    BY <1>0, <2>2, <2>5
  <2>7. \A id \in FileIds : id.part > Current' => files[id] = <<>>
    <3>1. \A id \in FileIds : id.part \in Int
      BY LogAssumption, Bounds DEF FileIds, Parts
    <3> QED
      BY <1>0, <2>2, <3>1
  <2>8. /\ Len(files[[day |-> 0, part |-> Current']]) + Cardinality(Late)'
              <= (m_count' % SplitLines) + W
    BY <1>3, <2>1, <2>6, EmptySeq
  <2> QED
    BY <1>0, <2>4, <2>7, <2>8 DEF FileInv, W
<1> QED
  BY <1>5, <1>6

\* Writing: a late line less, and one more in the current part.
LEMMA FileWrite ==
    ASSUME TypeOK, CallInv, FileInv, ~m_is_async, day = 0,
           NEW w \in Writers, Write(w)
    PROVE  FileInv'
<1> USE DEF fileVars
<1> DEFINE cur == [day |-> 0, part |-> Current]
           W == Cardinality(Writers)
           lateNow == Cardinality(Late)
           k == m_count % SplitLines
<1>0. /\ m_today = 0 /\ m_fp = cur
      /\ \A id \in FileIds :
            /\ Len(files[id]) < SplitLines + W
            /\ id.part > Current => files[id] = <<>>
      /\ Len(files[cur]) + lateNow <= k + W
      /\ pc[w] = "write" /\ pc' = [pc EXCEPT ![w] = "idle"]
      /\ files' = [files EXCEPT ![m_fp] = Append(@, line[w])]
      /\ UNCHANGED <<day, m_is_async, m_count, m_today, m_fp>>
  BY DEF Write, FileInv
<1>1. Late' = Late \ {w} /\ w \in Late /\ Late \subseteq Writers
  BY <1>0 DEF Late, TypeOK
<1>2. /\ Cardinality(Late)' = lateNow - 1
      /\ Cardinality(Late)' \in Nat
      /\ lateNow \in Nat /\ W \in Nat
  BY <1>1, LateBound, FS_RemoveElement, Bounds
<1>3. k \in 0 .. SplitLines - 1 /\ Current \in Nat
  <2>1. m_count \in Nat
    BY Bounds DEF TypeOK
  <2> QED
    BY <2>1, NextPart DEF Current
<1>4. cur \in FileIds /\ files[cur] \in Seq(Lines) /\ line[w] \in Lines
  BY <1>0, CurrentFile DEF TypeOK, CallInv
<1>5. files'[cur] = Append(files[cur], line[w])
      /\ \A id \in FileIds : id # cur => files'[id] = files[id]
  BY <1>0, <1>4 DEF TypeOK
<1>6. Len(files'[cur]) = Len(files[cur]) + 1 /\ Len(files[cur]) \in Nat
  BY <1>4, <1>5, AppendProperties, LenProperties
<1> HIDE DEF W, lateNow, k
<1>7. /\ Len(files'[cur]) + Cardinality(Late)' <= k + W
      /\ Len(files'[cur]) < SplitLines + W
  BY <1>0, <1>2, <1>3, <1>6, LogAssumption
<1>8. ~(cur.part > Current)
  BY <1>3
<1> HIDE DEF cur
<1>9. \A id \in FileIds : /\ Len(files'[id]) < SplitLines + W
                          /\ id.part > Current => files'[id] = <<>>
  BY <1>0, <1>5, <1>7, <1>8
<1>10. Current' = Current
  BY <1>0 DEF Current
<1> QED
  BY <1>0, <1>7, <1>9, <1>10 DEF FileInv, cur, k, W

\* The other steps change neither a file nor the number of late lines.
LEMMA FileStep ==
    ASSUME TypeOK, CallInv, ModeInv, FileInv, [Next]_vars
    PROVE  FileInv'
<1> USE DEF fileVars
<1> SUFFICES ASSUME ~m_is_async', day' = 0 PROVE FileInv'
  BY DEF FileInv
<1>1. ~m_is_async /\ day = 0
  <2>1. m_is_async' = m_is_async
    BY DEF Next, Midnight, WriterStep, Stamp, CountLine, ChangeFile, Choose,
           Push, Write, FlushStep, FlushPop, FlushWrite, Crash, vars
  <2>2. day' = day \/ day' = day + 1
    BY DEF Next, Midnight, WriterStep, Stamp, CountLine, ChangeFile, Choose,
           Push, Write, FlushStep, FlushPop, FlushWrite, Crash, vars
  <2>3. day \in Nat
    BY LogAssumption DEF TypeOK, Days
  <2> QED
    BY <2>1, <2>2, <2>3
<1>2. ASSUME UNCHANGED <<m_is_async, day, m_today, m_count, m_fp, files>>,
             Late' = Late
      PROVE  FileInv'
  <2>1. Current' = Current
    BY <1>2 DEF Current
  <2> QED
    BY <1>2, <2>1 DEF FileInv
<1>3. CASE Midnight
  <2>1. day' = day + 1
    BY <1>3 DEF Midnight
  <2> QED
    BY <1>1, <2>1
<1>4. CASE Crash \/ UNCHANGED vars
  BY <1>2, <1>4 DEF Crash, vars, Late
<1>5. ASSUME NEW w \in Writers, Stamp(w) \/ Choose(w) PROVE FileInv'
  <2>1. /\ UNCHANGED <<m_is_async, day, m_today, m_count, m_fp, files>>
        /\ \/ pc[w] = "idle" /\ pc' = [pc EXCEPT ![w] = "count"]
           \/ pc[w] = "choose" /\ pc' = [pc EXCEPT ![w] = "write"]
    BY <1>1, <1>5 DEF Stamp, Choose
  <2>2. Late' = Late
    BY <2>1 DEF Late, TypeOK
  <2> QED
    BY <1>2, <2>1, <2>2
<1>6. ASSUME NEW w \in Writers PROVE ~Push(w)
  BY <1>1 DEF Push, ModeInv
<1>7. ~FlushStep
  BY <1>1
  DEF FlushStep, FlushPop, FlushWrite, Queue!Take, Queue!Use, ModeInv
<1> QED
  BY <1>1, <1>3, <1>4, <1>5, <1>6, <1>7, FileCount, FileWrite
  DEF Next, WriterStep

(***************************************************************************)
(* In synchronous mode, until the day changes, a file outgrows             *)
(* m_split_lines by fewer lines than there are writers: only those that    *)
(* were between their locks when it was opened write a line into it that   *)
(* was counted before.                                                     *)
(***************************************************************************)
THEOREM FilesAreBounded == Spec => []FileLinesBounded
<1>1. Init => FileInv
  <2> SUFFICES ASSUME Init PROVE FileInv
    OBVIOUS
  <2>1. m_count = 0 /\ 0 % SplitLines = 0 /\ 0 \div SplitLines = 0
    BY LogAssumption DEF Init
  <2>2. Current = 0 /\ m_count % SplitLines = 0
    BY <2>1 DEF Current
  <2>3. m_today = 0
    BY LogAssumption DEF Init, MDay
  <2>4. m_fp # NoFile => m_fp = [day |-> 0, part |-> Current]
    BY <2>2 DEF Init, Fopen
  <2>5. Late = {}
    BY DEF Init, Late
  <2>6. Cardinality(Late) = 0 /\ Cardinality(Writers) \in Nat
    BY <2>5, FS_EmptySet, Bounds
  <2>7. TypeOK
    BY TypeInit
  <2>8. \A id \in FileIds : files[id] = <<>>
    BY DEF Init
  <2>9. Len(files[[day |-> 0, part |-> Current]]) = 0
    BY <2>7, <2>8, CurrentFile, EmptySeq
  <2>10. \A id \in FileIds :
            Len(files[id]) < SplitLines + Cardinality(Writers)
    BY <2>6, <2>8, EmptySeq, LogAssumption
  <2> QED
    BY <2>2, <2>3, <2>4, <2>6, <2>8, <2>9, <2>10 DEF FileInv
<1>2. TypeOK /\ CallInv /\ ModeInv /\ FileInv /\ [Next]_vars => FileInv'
  BY FileStep
<1>3. FileInv => FileLinesBounded
  BY DEF FileInv, FileLinesBounded
<1> QED
  BY <1>1, <1>2, <1>3, PlacesInvariant, PTL DEF Spec
=============================================================================
