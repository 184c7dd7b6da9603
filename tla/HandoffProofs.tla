--------------------------- MODULE HandoffProofs ---------------------------
(***************************************************************************)
(* Proofs about Handoff, for any finite set of processes, any files with   *)
(* any base names, queues of any length and any number of opens.           *)
(***************************************************************************)
EXTENDS Handoff, FiniteSetTheorems, SequenceTheorems, TLAPS

\* The types of what does not depend on names; a process in open() or
\* close() has one of its files there.
Events == [kind : {"open", "close"}, file : Files]

Basic ==
    /\ queue1024 \in Seq(Files) /\ queue1025 \in Seq(Files)
    /\ events \in Seq(Events) /\ buf \in Seq(Events)
    /\ hpc \in [Procs -> {"idle", "link", "map", "size", "copy", "truncate",
                          "secret", "opened", "close"}]
    /\ hfile \in [Procs -> Files \union {NoName}]
    /\ opens \in 0 .. MaxOpens
    /\ cpc \in {"idle", "open", "shm", "send", "close", "dead"}
    /\ cfile \in Files \union {NoName}
    /\ asked \in SUBSET Files
    /\ \A p \in Procs : hpc[p] # "idle" => hfile[p] \in Wanted(p)

\* Where a name is in use for a file, it is one that SHM_NAME spells for it.
NameInv ==
    /\ \A p \in Procs : hmap[p] # <<>> =>
          /\ hpc[p] \in {"size", "copy", "truncate", "secret"}
          /\ hmap[p] \in Spelled(hfile[p])
    /\ cpc \in {"shm", "send"} => cfile \in Files /\ cname \in Spelled(cfile)

\* Contents on their way to the server are contents that file has had.
DataInv ==
    /\ \A f \in Files :
          /\ content[f] \in had[f]
          /\ \A n \in Spelled(f) :
                segment[n] \in had[f] \union {Zeros, Unsized, None}
          /\ backup[f] \in had[f] \union {None}
    /\ cpc = "send" => cval \in had[cfile] \union {Zeros}

\* The event that inotify may still merge with the next one.
LastIs(e) == events # <<>> /\ events[Len(events)] = e

\* A process in S whose next event of kind k would be merged.
Merges(k, S) == \E p \in InHook(S) : LastIs(Event(k, hfile[p]))

\* An open event is last only while its process is still in open().
LastInv ==
    \A f \in Files : LastIs(Event("open", f)) =>
        \E p \in InHook({"link", "map", "size", "copy", "truncate", "secret"}) :
            hfile[p] = f

\* The two properties, with one message less if an event may be merged.
OpenSpare ==
    Len(queue1024)
      + (IF Merges("open", {"link", "map", "size", "copy", "truncate"})
         THEN 1 ELSE 0)
        <= Pending("open")
             + Cardinality(InHook({"map", "size", "copy", "truncate"}))

Active ==
    {"link", "map", "size", "copy", "truncate", "secret", "opened", "close"}

CloseSpare ==
    Len(queue1025) + (IF Merges("close", Active) THEN 1 ELSE 0)
        <= Pending("close") + Cardinality(InHook({"close"}))

-----------------------------------------------------------------------------
\* An event is added to a queue of events, or merged with the last one.
LEMMA NotifyType ==
    ASSUME NEW q \in Seq(Events), NEW k \in {"open", "close"}, NEW f \in Files
    PROVE  /\ Event(k, f) \in Events
           /\ Notify(q, Event(k, f)) \in Seq(Events)
  BY AppendProperties DEF Notify, Event, Events

\* The initial state satisfies Basic.
LEMMA BasicInit == Init => Basic
<1> SUFFICES ASSUME Init PROVE Basic
  OBVIOUS
<1>1. <<>> \in Seq(Files) /\ <<>> \in Seq(Events)
  BY EmptySeq
<1>2. opens \in 0 .. MaxOpens
  BY HandoffAssumption DEF Init
<1>3. /\ hpc \in [Procs -> {"idle"}]
      /\ hfile \in [Procs -> {NoName}]
      /\ \A p \in Procs : hpc[p] = "idle"
  BY DEF Init
<1> HIDE DEF Init
<1>4. /\ queue1024 = <<>> /\ queue1025 = <<>> /\ events = <<>> /\ buf = <<>>
      /\ cpc = "idle" /\ cfile = NoName /\ asked = {}
  BY DEF Init
<1>5. /\ hpc \in [Procs -> {"idle", "link", "map", "size", "copy", "truncate",
                            "secret", "opened", "close"}]
      /\ hfile \in [Procs -> Files \union {NoName}]
  BY <1>3
<1> QED
  BY <1>1, <1>2, <1>3, <1>4, <1>5 DEF Basic

\* The steps of a hooked process preserve Basic.
LEMMA BasicHook ==
    ASSUME Basic, NEW p \in Procs,
           \/ \E f \in Files : HookOpen(p, f)
           \/ HookStep(p) \/ ProcessWrites(p) \/ HookCloseLink(p)
    PROVE  Basic'
<1> USE HandoffAssumption DEF Basic, clientVars, hookVars
<1>0. hpc[p] # "idle" => hfile[p] \in Files
  OBVIOUS
<1>1. ASSUME NEW f \in Files, HookOpen(p, f) PROVE Basic'
  <2>1. events' \in Seq(Events)
    BY <1>1, NotifyType DEF HookOpen
  <2>2. \A q \in Procs : hpc'[q] # "idle" => hfile'[q] \in Wanted(q)
    BY <1>1 DEF HookOpen
  <2> QED
    BY <1>1, <2>1, <2>2 DEF HookOpen
<1>2. ASSUME NEW q \in Seq(Files), hpc[p] # "idle"
      PROVE  LinkSent(q, hfile[p]) \in Seq(Files)
  BY <1>0, <1>2, AppendProperties DEF LinkSent
<1>3. CASE HookLink(p)
  BY <1>2, <1>3 DEF HookLink
<1>4. CASE MapRefused(p)
  BY <1>4 DEF MapRefused
<1>5. CASE OpenSegment(p) \/ MapSegment(p)
  BY <1>5 DEF OpenSegment, MapSegment
<1>6. CASE CopyFile(p)
  BY <1>0, <1>6, NotifyType DEF CopyFile
<1>7. CASE TruncateFile(p)
  BY <1>0, <1>7, NotifyType DEF TruncateFile
<1>8. CASE WriteSecret(p)
  BY <1>0, <1>8, NotifyType DEF WriteSecret
<1>9. CASE HookClose(p)
  BY <1>0, <1>9, NotifyType DEF HookClose
<1>10. CASE ProcessWrites(p)
  BY <1>10 DEF ProcessWrites
<1>11. CASE HookCloseLink(p)
  BY <1>2, <1>11 DEF HookCloseLink
<1> QED
  BY <1>1, <1>3, <1>4, <1>5, <1>6, <1>7, <1>8, <1>9, <1>10, <1>11
  DEF HookStep

\* So do those of the client.
LEMMA BasicClient ==
    ASSUME Basic, ClientStep \/ \E f \in Files : WriteBack(f)
    PROVE  Basic'
<1> USE HandoffAssumption DEF Basic, clientVars, hookVars
<1>1. CASE ReadEvents
  BY <1>1, EmptySeq DEF ReadEvents
<1>2. CASE HandleEvent
  <2>1. Head(buf) \in Events /\ buf' \in Seq(Events)
    BY <1>2, HeadTailProperties DEF HandleEvent
  <2> QED
    BY <1>2, <2>1 DEF HandleEvent, Events
<1>3. CASE OpenNoMessage \/ ShmMissing \/ ShmCrash \/ ShmRead
  BY <1>3 DEF OpenNoMessage, ShmMissing, ShmCrash, ShmRead
<1>4. CASE OpenMessage
  BY <1>4, HeadTailProperties DEF OpenMessage
<1>5. CASE SendBlocks
  BY <1>5 DEF SendBlocks
<1>6. CASE CloseTask
  <2>1. CASE queue1025 = <<>>
    BY <1>6, <2>1 DEF CloseTask
  <2>2. CASE queue1025 # <<>>
    <3>1. Head(queue1025) \in Files /\ Tail(queue1025) \in Seq(Files)
      BY <2>2, HeadTailProperties
    <3> QED
      BY <1>6, <2>2, <3>1 DEF CloseTask
  <2> QED
    BY <2>1, <2>2
<1>7. ASSUME NEW f \in Files, WriteBack(f) PROVE Basic'
  BY <1>7, NotifyType DEF WriteBack
<1> QED
  BY <1>1, <1>2, <1>3, <1>4, <1>5, <1>6, <1>7 DEF ClientStep

\* Basic holds in every reachable state.
LEMMA BasicStep == Basic /\ [Next]_vars => Basic'
<1> SUFFICES ASSUME Basic, [Next]_vars PROVE Basic'
  OBVIOUS
<1>1. CASE UNCHANGED vars
  BY <1>1 DEF vars, Basic
<1> QED
  BY <1>1, BasicHook, BasicClient DEF Next

-----------------------------------------------------------------------------
(***************************************************************************)
(* Names and contents                                                      *)
(***************************************************************************)

\* The types that Basic leaves out.
Segments == [ShmNames -> Contents \union {Zeros, Unsized, None}]

Types ==
    /\ content \in [Files -> Contents]
    /\ segment \in Segments
    /\ hname \in [Procs -> ShmNames]
    /\ hmap \in [Procs -> ShmNames]
    /\ cname \in ShmNames
    /\ cval \in Contents \union {Zeros, None}
    /\ cpc = "send" => cval \in Contents \union {Zeros}
    /\ backup \in [Files -> Contents \union {None}]
    /\ had \in [Files -> SUBSET Contents]

\* Setting SHM_NAME for a file makes it one of the names spelled for it.
LEMMA SpelledName ==
    ASSUME NEW f \in Files, NEW n \in ShmNames
    PROVE  /\ Overlay(n, Base(f)) \in Spelled(f)
           /\ Spelled(f) \subseteq ShmNames
           /\ <<>> \in ShmNames
  BY HandoffAssumption DEF Spelled

\* The initial state.
LEMMA NamesInit ==
    ASSUME Init
    PROVE  Types /\ NameInv /\ DataInv
<1>1. content \in [Files -> Contents] /\ had \in [Files -> SUBSET Contents]
  BY DEF Init, Contents
<1>2. Types
  BY <1>1, HandoffAssumption DEF Init, Types, Segments
<1>3. NameInv
  BY DEF Init, NameInv
<1>4. DataInv
  <2>1. \A f \in Files : \A n \in Spelled(f) : n \in ShmNames
    BY SpelledName, HandoffAssumption
  <2> QED
    BY <2>1 DEF Init, DataInv
<1> QED
  BY <1>2, <1>3, <1>4

\* The steps of a hooked process: SHM_NAME is the name of its file.
LEMMA NamesHook ==
    ASSUME Basic, Types, NameInv, NEW p \in Procs,
           \/ \E f \in Files : HookOpen(p, f)
           \/ HookStep(p) \/ ProcessWrites(p) \/ HookCloseLink(p)
    PROVE  Types' /\ NameInv'
<1> USE DEF Types, NameInv, clientVars, hookVars
<1>0. /\ hpc[p] # "idle" => hfile[p] \in Files
      /\ hpc \in [Procs -> {"idle", "link", "map", "size", "copy", "truncate",
                            "secret", "opened", "close"}]
      /\ hfile \in [Procs -> Files \union {NoName}]
      /\ segment \in [ShmNames -> Contents \union {Zeros, Unsized, None}]
  BY HandoffAssumption DEF Basic, Segments
<1>1. ASSUME NEW f \in Files, HookOpen(p, f) PROVE Types' /\ NameInv'
  BY <1>0, <1>1 DEF HookOpen
<1>2. CASE HookLink(p)
  BY <1>0, <1>2 DEF HookLink
<1>3. CASE MapRefused(p) \/ OpenSegment(p)
  <2> DEFINE n == Overlay(hname[p], Base(hfile[p]))
  <2>1. hpc[p] = "map" /\ hfile[p] \in Files
    BY <1>0, <1>3 DEF MapRefused, OpenSegment
  <2>2. n \in Spelled(hfile[p]) /\ n \in ShmNames
    BY <2>1, SpelledName
  <2> HIDE DEF n
  <2>3. Created(n) \in Segments
    BY <1>0 DEF Created, Segments
  <2>4. CASE MapRefused(p)
    <3>1. /\ hname' = [hname EXCEPT ![p] = n]
          /\ segment' \in Segments
          /\ hpc' = [hpc EXCEPT ![p] = "opened"]
      BY <2>3, <2>4 DEF MapRefused, n
    <3> QED
      BY <1>0, <2>1, <2>2, <2>4, <3>1 DEF MapRefused
  <2>5. CASE OpenSegment(p)
    <3>1. /\ hname' = [hname EXCEPT ![p] = n]
          /\ hmap' = [hmap EXCEPT ![p] = n]
          /\ segment' \in Segments
          /\ hpc' = [hpc EXCEPT ![p] = "size"]
      BY <2>3, <2>5 DEF OpenSegment, n
    <3> QED
      BY <1>0, <2>1, <2>2, <2>5, <3>1 DEF OpenSegment
  <2> QED
    BY <1>3, <2>4, <2>5
<1>4. CASE MapSegment(p) \/ CopyFile(p)
  <2>1. segment' \in Segments
    BY <1>0, <1>4 DEF MapSegment, CopyFile, Segments
  <2> QED
    BY <1>0, <1>4, <2>1 DEF MapSegment, CopyFile
<1>5. ASSUME NEW v \in Contents, SetContent(hfile[p], v), hfile[p] \in Files
      PROVE  /\ content' \in [Files -> Contents]
             /\ had' \in [Files -> SUBSET Contents]
  BY <1>5 DEF SetContent
<1>6. CASE TruncateFile(p)
  <2>1. Empty \in Contents
    BY DEF Contents
  <2> QED
    BY <1>0, <1>5, <1>6, <2>1 DEF TruncateFile
<1>7. CASE WriteSecret(p)
  <2>1. Secret \in Contents
    BY DEF Contents
  <2>2. /\ hpc[p] = "secret" /\ SetContent(hfile[p], Secret)
        /\ hpc' = [hpc EXCEPT ![p] = "opened"]
        /\ hmap' = [hmap EXCEPT ![p] = <<>>]
        /\ UNCHANGED <<segment, hfile, hname, cpc, cfile, cname, cval, backup>>
    BY <1>7 DEF WriteSecret
  <2>3. hfile[p] \in Files
    BY <1>0, <2>2
  <2>4. /\ content' \in [Files -> Contents]
        /\ had' \in [Files -> SUBSET Contents]
    BY <1>5, <2>1, <2>2, <2>3
  <2>5. Types'
    BY <2>2, <2>4, HandoffAssumption
  <2>6. NameInv'
    BY <1>0, <2>2
  <2> QED
    BY <2>5, <2>6
<1>8. CASE HookClose(p)
  BY <1>0, <1>8 DEF HookClose
<1>9. CASE ProcessWrites(p)
  <2>1. News \subseteq Contents
    BY DEF Contents
  <2> QED
    BY <1>0, <1>5, <1>9, <2>1 DEF ProcessWrites
<1>10. CASE HookCloseLink(p)
  BY <1>0, <1>10 DEF HookCloseLink
<1> QED
  BY <1>1, <1>2, <1>3, <1>4, <1>6, <1>7, <1>8, <1>9, <1>10 DEF HookStep

\* The steps of the client: so is its own SHM_NAME.
LEMMA NamesClient ==
    ASSUME Basic, Types, NameInv,
           ClientStep \/ \E f \in Files : WriteBack(f)
    PROVE  Types' /\ NameInv'
<1> USE DEF Types, NameInv, clientVars, hookVars
<1>1. CASE ReadEvents
  BY <1>1 DEF ReadEvents
<1>2. CASE HandleEvent
  <2>1. Head(buf) \in Events
    BY <1>2, HeadTailProperties DEF HandleEvent, Basic
  <2> QED
    BY <1>2, <2>1 DEF HandleEvent, Events
<1>3. CASE OpenNoMessage \/ ShmMissing \/ ShmCrash
  BY <1>3 DEF OpenNoMessage, ShmMissing, ShmCrash
<1>4. CASE OpenMessage
  <2>1. cfile' \in Files /\ cname' = Overlay(cname, Base(cfile'))
    BY <1>4, HeadTailProperties DEF OpenMessage, Basic
  <2>2. cname' \in Spelled(cfile') /\ cname' \in ShmNames
    BY <2>1, SpelledName
  <2> QED
    BY <1>4, <2>1, <2>2 DEF OpenMessage
<1>5. CASE ShmRead
  BY <1>5 DEF ShmRead, Segments
<1>6. CASE SendBlocks
  <2>1. backup' \in [Files -> Contents \union {None}]
    BY <1>6 DEF SendBlocks
  <2>2. segment' \in Segments
    BY <1>6 DEF SendBlocks, Segments
  <2>3. \A p \in Procs : hmap'[p] \in {hmap[p], <<>>}
    BY <1>6 DEF SendBlocks
  <2>4. hmap' \in [Procs -> ShmNames]
    BY <1>6, HandoffAssumption DEF SendBlocks
  <2> QED
    BY <1>6, <2>1, <2>2, <2>3, <2>4 DEF SendBlocks
<1>7. CASE CloseTask
  <2>1. CASE queue1025 = <<>>
    BY <1>7, <2>1 DEF CloseTask
  <2>2. CASE queue1025 # <<>>
    <3>1. Head(queue1025) \in Files
      BY <2>2, HeadTailProperties DEF Basic
    <3>2. cname' = Overlay(cname, Base(Head(queue1025)))
      BY <1>7, <2>2 DEF CloseTask
    <3>3. cname' \in ShmNames
      BY <3>1, <3>2, SpelledName
    <3> QED
      BY <1>7, <3>1, <3>3 DEF CloseTask
  <2> QED
    BY <2>1, <2>2
<1>8. ASSUME NEW f \in Files, WriteBack(f) PROVE Types' /\ NameInv'
  <2>1. (IF backup[f] = None THEN Empty ELSE backup[f]) \in Contents
    BY DEF Contents
  <2> QED
    BY <1>8, <2>1 DEF WriteBack, SetContent
<1> QED
  BY <1>1, <1>2, <1>3, <1>4, <1>5, <1>6, <1>7, <1>8 DEF ClientStep

\* A file has had its contents, and what was copied from it.
LEMMA DataStep ==
    ASSUME NamesApart, Basic, Types, NameInv, DataInv, [Next]_vars
    PROVE  DataInv'
<1> USE DEF DataInv, clientVars, hookVars
<1>0. /\ \A f \in Files : Spelled(f) \subseteq ShmNames
      /\ \A p \in Procs : hpc[p] # "idle" => hfile[p] \in Files
      /\ content \in [Files -> Contents] /\ had \in [Files -> SUBSET Contents]
      /\ segment \in [ShmNames -> Contents \union {Zeros, Unsized, None}]
      /\ backup \in [Files -> Contents \union {None}]
  BY SpelledName, HandoffAssumption DEF Basic, Types, Segments
<1>1. ASSUME NEW f \in Files, NEW v, SetContent(f, v),
             UNCHANGED <<segment, cpc, cfile, cval, backup>>
      PROVE  DataInv'
  <2>1. /\ \A g \in Files : had[g] \subseteq had'[g]
        /\ \A g \in Files : content'[g] \in had'[g]
    BY <1>0, <1>1 DEF SetContent
  <2>2. cpc = "send" => cfile \in Files
    BY DEF NameInv
  <2> QED
    BY <1>1, <2>1, <2>2
<1>2. ASSUME NEW p \in Procs,
             \/ \E f \in Files : HookOpen(p, f)
             \/ HookLink(p) \/ HookClose(p) \/ HookCloseLink(p)
      PROVE  DataInv'
  BY <1>2 DEF HookOpen, HookLink, HookClose, HookCloseLink
<1>3. ASSUME NEW p \in Procs,
             MapRefused(p) \/ OpenSegment(p) \/ MapSegment(p)
      PROVE  DataInv'
  <2>1. \A n \in ShmNames : segment'[n] \in {segment[n], Zeros, Unsized}
    BY <1>0, <1>3 DEF MapRefused, OpenSegment, MapSegment, Created
  <2> QED
    BY <1>0, <1>3, <2>1 DEF MapRefused, OpenSegment, MapSegment
<1>4. ASSUME NEW p \in Procs, CopyFile(p) PROVE DataInv'
  <2>1. hfile[p] \in Files
    BY <1>0, <1>4 DEF CopyFile
  <2>2. ASSUME hmap[p] # <<>>,
               segment' = [segment EXCEPT ![hmap[p]] = content[hfile[p]]],
               NEW f \in Files
        PROVE  \A n \in Spelled(f) :
                  segment'[n] \in had[f] \union {Zeros, Unsized, None}
    <3>1. hmap[p] \in Spelled(hfile[p])
      BY <2>2 DEF NameInv
    <3>2. CASE f = hfile[p]
      BY <1>0, <2>1, <2>2, <3>1, <3>2
    <3>3. CASE f # hfile[p]
      <4>1. hmap[p] \notin Spelled(f)
        BY <2>1, <3>1, <3>3 DEF NamesApart
      <4> QED
        BY <1>0, <2>2, <4>1
    <3> QED
      BY <3>2, <3>3
  <2>3. \A f \in Files : \A n \in Spelled(f) :
           segment'[n] \in had[f] \union {Zeros, Unsized, None}
    BY <1>4, <2>2 DEF CopyFile
  <2> QED
    BY <1>4, <2>3 DEF CopyFile
<1>5. ASSUME NEW p \in Procs,
             TruncateFile(p) \/ WriteSecret(p) \/ ProcessWrites(p)
      PROVE  DataInv'
  BY <1>0, <1>1, <1>5 DEF TruncateFile, WriteSecret, ProcessWrites
<1>6. ASSUME NEW f \in Files, WriteBack(f) PROVE DataInv'
  BY <1>1, <1>6 DEF WriteBack
<1>7. CASE ReadEvents \/ OpenNoMessage \/ OpenMessage \/ ShmMissing
           \/ ShmCrash \/ CloseTask
  BY <1>7 DEF ReadEvents, OpenNoMessage, OpenMessage, ShmMissing, ShmCrash,
              CloseTask
<1>8. CASE HandleEvent
  <2>1. Head(buf) \in Events
    BY <1>8, HeadTailProperties DEF HandleEvent, Basic
  <2> QED
    BY <1>8, <2>1 DEF HandleEvent, Events
<1>9. CASE ShmRead
  BY <1>9 DEF ShmRead, NameInv
<1>10. CASE SendBlocks
  <2>1. cfile \in Files /\ cval \in had[cfile] \union {Zeros}
    BY <1>10 DEF SendBlocks, NameInv
  <2>2. \A f \in Files : backup'[f] \in had[f] \union {None}
    BY <1>0, <1>10, <2>1 DEF SendBlocks
  <2>3. \A f \in Files : \A n \in Spelled(f) :
           segment'[n] \in had[f] \union {Zeros, Unsized, None}
    BY <1>0, <1>10 DEF SendBlocks
  <2> QED
    BY <1>10, <2>2, <2>3 DEF SendBlocks
<1>11. CASE UNCHANGED vars
  BY <1>11 DEF vars
<1> QED
  BY <1>2, <1>3, <1>4, <1>5, <1>6, <1>7, <1>8, <1>9, <1>10, <1>11
  DEF Next, HookStep, ClientStep

\* The types hold in every reachable state.
LEMMA NamesInvariant == Spec => [](Basic /\ Types /\ NameInv)
<1>1. Init => Types /\ NameInv
  BY NamesInit
<1>2. Basic /\ Types /\ NameInv /\ [Next]_vars => Types' /\ NameInv'
  <2> SUFFICES ASSUME Basic, Types, NameInv, [Next]_vars
               PROVE  Types' /\ NameInv'
    OBVIOUS
  <2>1. CASE UNCHANGED vars
    BY <2>1 DEF vars, Types, NameInv
  <2> QED
    BY <2>1, NamesHook, NamesClient DEF Next
<1> QED
  BY <1>1, <1>2, BasicInit, BasicStep, PTL DEF Spec

(***************************************************************************)
(* Type correctness, whatever pieces of earlier names SHM_NAME keeps: each *)
(* side holds the name of some segment in it, and what the client reads    *)
(* and sends is some contents.                                             *)
(***************************************************************************)
THEOREM TypeCorrect == Spec => []TypeOK
<1>1. Basic /\ Types => TypeOK
  BY DEF Basic, Types, TypeOK, Events, Segments
<1> QED
  BY <1>1, NamesInvariant, PTL

(***************************************************************************)
(* A backup is a copy of its own file, if no name that SHM_NAME may spell  *)
(* for one file is one it may spell for another: whatever opens, closes,   *)
(* lost messages, merged events and pieces of earlier names make the       *)
(* client read which segment when.                                         *)
(***************************************************************************)
THEOREM BackupsAreOwn == Spec => []BackupIsOwn
<1>1. Init => DataInv
  BY NamesInit
<1>2. DataInv => BackupIsOwn
  BY DEF DataInv, BackupIsOwn
<1>3. NamesApart /\ Basic /\ Types /\ NameInv /\ DataInv /\ [Next]_vars
      => DataInv'
  BY DataStep
<1>4. CASE NamesApart
  BY <1>1, <1>2, <1>3, <1>4, NamesInvariant, PTL DEF Spec
<1>5. CASE ~NamesApart
  <2>1. BackupIsOwn
    BY <1>5 DEF BackupIsOwn
  <2> QED
    BY <2>1, PTL
<1> QED
  BY <1>4, <1>5

-----------------------------------------------------------------------------
(***************************************************************************)
(* Messages and events                                                     *)
(***************************************************************************)

\* The events of kind k in s.
Places(k, s) == {i \in 1 .. Len(s) : s[i].kind = k}
Count(k, s) == Cardinality(Places(k, s))

\* Counting the events of a queue.
LEMMA CountFacts ==
    ASSUME NEW s \in Seq(Events), NEW k
    PROVE  /\ IsFiniteSet(Places(k, s))
           /\ Count(k, s) \in Nat
           /\ s = <<>> => Count(k, s) = 0
           /\ s # <<>> /\ s[Len(s)].kind = k => Count(k, s) >= 1
<1>1. Len(s) \in Nat /\ IsFiniteSet(1 .. Len(s))
  BY LenProperties, FS_Interval
<1>2. IsFiniteSet(Places(k, s)) /\ Count(k, s) \in Nat
  BY <1>1, FS_Subset, FS_CardinalityType DEF Places, Count
<1>3. ASSUME s = <<>> PROVE Count(k, s) = 0
  <2>1. Places(k, s) = {}
    BY <1>3 DEF Places
  <2> QED
    BY <2>1, FS_EmptySet DEF Count
<1>4. ASSUME s # <<>>, s[Len(s)].kind = k PROVE Count(k, s) >= 1
  <2>1. Len(s) \in Places(k, s)
    BY <1>1, <1>4, EmptySeq DEF Places
  <2>2. Count(k, s) # 0
    BY <1>2, <2>1, FS_EmptySet DEF Count
  <2> QED
    BY <1>2, <2>2
<1> QED
  BY <1>2, <1>3, <1>4

\* Adding one event at the end.
LEMMA CountAppend ==
    ASSUME NEW s \in Seq(Events), NEW e \in Events, NEW k
    PROVE  Count(k, Append(s, e)) =
              Count(k, s) + (IF e.kind = k THEN 1 ELSE 0)
<1> DEFINE n == Len(s) + 1
           t == Append(s, e)
<1>1. /\ Len(s) \in Nat /\ Len(t) = n /\ t[n] = e
      /\ \A i \in 1 .. Len(s) : t[i] = s[i]
  BY LenProperties, AppendProperties
<1>2. n \notin Places(k, s)
  BY <1>1 DEF Places
<1> HIDE DEF t
<1>3. CASE e.kind = k
  <2>1. Places(k, t) = Places(k, s) \union {n}
    BY <1>1, <1>3 DEF Places
  <2>2. Cardinality(Places(k, s) \union {n}) = Cardinality(Places(k, s)) + 1
    BY <1>2, CountFacts, FS_AddElement
  <2>3. Count(k, t) = Count(k, s) + 1
    BY <2>1, <2>2 DEF Count
  <2> QED
    BY <1>3, <2>3 DEF t
<1>4. CASE e.kind # k
  <2>1. Places(k, t) = Places(k, s)
    BY <1>1, <1>4 DEF Places
  <2>2. Count(k, t) = Count(k, s) /\ Count(k, s) \in Nat
    BY <2>1, CountFacts DEF Count
  <2> QED
    BY <1>4, <2>2 DEF t
<1> QED
  BY <1>3, <1>4

\* Taking one event from the front.
LEMMA CountTail ==
    ASSUME NEW s \in Seq(Events), s # <<>>, NEW k
    PROVE  Count(k, Tail(s)) >=
              Count(k, s) - (IF Head(s).kind = k THEN 1 ELSE 0)
<1> DEFINE t == Tail(s)
           Rest == Places(k, s) \ {1}
           f == [i \in Rest |-> i - 1]
<1>1. /\ Len(s) \in Nat \ {0} /\ t \in Seq(Events)
      /\ Len(t) = Len(s) - 1 /\ Head(s) = s[1]
      /\ \A i \in 1 .. Len(t) : t[i] = s[i + 1]
  BY LenProperties, EmptySeq, HeadTailProperties
<1>2. /\ IsFiniteSet(Places(k, s)) /\ Count(k, s) \in Nat
      /\ IsFiniteSet(Places(k, t)) /\ Count(k, t) \in Nat
  BY <1>1, CountFacts
<1>3. IsFiniteSet(Rest)
  BY <1>2, FS_RemoveElement
<1>4. Cardinality(Rest) =
         Count(k, s) - (IF Head(s).kind = k THEN 1 ELSE 0)
  <2>1. 1 \in Places(k, s) <=> Head(s).kind = k
    BY <1>1 DEF Places
  <2>2. Cardinality(Rest) = IF 1 \in Places(k, s)
                            THEN Cardinality(Places(k, s)) - 1
                            ELSE Cardinality(Places(k, s))
    BY <1>2, FS_RemoveElement
  <2> QED
    BY <1>2, <2>1, <2>2 DEF Count
<1> HIDE DEF t
<1>5. f \in Injection(Rest, Places(k, t))
  <2>1. \A i \in Rest : i \in Int /\ i - 1 \in Places(k, t)
    BY <1>1 DEF Places
  <2>2. f \in [Rest -> Places(k, t)]
    BY <2>1
  <2>3. \A i, j \in Rest : f[i] = f[j] => i = j
    BY <2>1
  <2> QED
    BY <2>2, <2>3 DEF Injection, IsInjective
<1>6. Cardinality(Rest) <= Cardinality(Places(k, t))
  BY <1>2, <1>5, FS_Injection
<1> QED
  BY <1>4, <1>6 DEF Count, t

\* Notify merges or adds; either way its event is the last one then.
LEMMA NotifyFacts ==
    ASSUME NEW q \in Seq(Events), NEW e \in Events
    PROVE  /\ Notify(q, e) \in Seq(Events)
           /\ Notify(q, e) # <<>>
           /\ Notify(q, e)[Len(Notify(q, e))] = e
           /\ \A k : Count(k, Notify(q, e)) = Count(k, q) +
                 (IF e.kind = k /\ ~(q # <<>> /\ q[Len(q)] = e) THEN 1 ELSE 0)
<1>1. CASE q # <<>> /\ q[Len(q)] = e
  <2>1. Notify(q, e) = q
    BY <1>1 DEF Notify
  <2>2. \A k : Count(k, q) \in Nat
    BY CountFacts
  <2> QED
    BY <1>1, <2>1, <2>2
<1>2. CASE ~(q # <<>> /\ q[Len(q)] = e)
  <2>1. Notify(q, e) = Append(q, e)
    BY <1>2 DEF Notify
  <2>2. /\ Append(q, e) \in Seq(Events) /\ Append(q, e) # <<>>
        /\ Append(q, e)[Len(Append(q, e))] = e
    BY AppendProperties, LenProperties
  <2>3. \A k : Count(k, Append(q, e)) =
                  Count(k, q) + (IF e.kind = k THEN 1 ELSE 0)
    BY CountAppend
  <2> QED
    BY <1>2, <2>1, <2>2, <2>3
<1> QED
  BY <1>1, <1>2

\* What the client is still to handle, after one event.
LEMMA NewEvent ==
    ASSUME Basic, NEW e \in Events, events' = Notify(events, e),
           UNCHANGED <<buf, cpc>>
    PROVE  /\ \A g : LastIs(g)' <=> g = e
           /\ \A k : /\ Pending(k) \in Nat
                     /\ Pending(k)' = Pending(k) +
                           (IF e.kind = k /\ ~LastIs(e) THEN 1 ELSE 0)
<1>1. events \in Seq(Events) /\ buf \in Seq(Events)
  BY DEF Basic
<1>2. \A g : LastIs(g)' <=> g = e
  BY <1>1, NotifyFacts DEF LastIs
<1>3. ASSUME NEW k
      PROVE  /\ Pending(k) \in Nat
             /\ Pending(k)' = Pending(k) +
                   (IF e.kind = k /\ ~LastIs(e) THEN 1 ELSE 0)
  <2> DEFINE E == Count(k, events)
             E1 == Count(k, events')
             B == Count(k, buf)
             A == IF cpc = k THEN 1 ELSE 0
  <2>1. E \in Nat /\ B \in Nat /\ A \in Nat
    BY <1>1, CountFacts
  <2>2. E1 = E + (IF e.kind = k /\ ~LastIs(e) THEN 1 ELSE 0)
    BY <1>1, NotifyFacts DEF LastIs
  <2>3. Pending(k) = E + B + A /\ Pending(k)' = E1 + B + A
    BY DEF Pending, Count, Places
  <2> HIDE DEF E, E1, B, A
  <2> QED
    BY <2>1, <2>2, <2>3
<1> QED
  BY <1>2, <1>3

\* Where the processes are, after one of them has moved on.
LEMMA Moves ==
    ASSUME Basic, NEW p \in Procs, NEW s, NEW S,
           hpc' = [hpc EXCEPT ![p] = s]
    PROVE  /\ Cardinality(InHook(S)) \in Nat
           /\ Cardinality(InHook(S))' =
                 Cardinality(InHook(S)) - (IF hpc[p] \in S THEN 1 ELSE 0)
                                        + (IF s \in S THEN 1 ELSE 0)
<1> DEFINE I == InHook(S)
           R == InHook(S) \ {p}
<1>1. IsFiniteSet(I) /\ Cardinality(I) \in Nat
  BY HandoffAssumption, FS_Subset, FS_CardinalityType DEF InHook
<1>2. p \in I <=> hpc[p] \in S
  BY DEF InHook
<1>3. /\ IsFiniteSet(R)
      /\ Cardinality(R) = Cardinality(I) - (IF hpc[p] \in S THEN 1 ELSE 0)
  BY <1>1, <1>2, FS_RemoveElement
<1>4. InHook(S)' = IF s \in S THEN R \union {p} ELSE R
  BY DEF InHook, Basic
<1>5. CASE s \in S
  <2>1. InHook(S)' = R \union {p} /\ p \notin R
    BY <1>4, <1>5
  <2>2. Cardinality(R \union {p}) = Cardinality(R) + 1
    BY <1>3, <2>1, FS_AddElement
  <2>3. Cardinality(InHook(S))' = Cardinality(R) + 1
    BY <2>1, <2>2
  <2> HIDE DEF R, I
  <2> QED
    BY <1>1, <1>3, <1>5, <2>3 DEF I
<1>6. CASE s \notin S
  <2>1. Cardinality(InHook(S))' = Cardinality(R)
    BY <1>4, <1>6
  <2> HIDE DEF R, I
  <2> QED
    BY <1>1, <1>3, <1>6, <2>1 DEF I
<1> QED
  BY <1>5, <1>6

\* Processes with files of their own.
LEMMA Apart ==
    ASSUME OwnFiles, Basic, NEW p \in Procs, hpc[p] # "idle"
    PROVE  /\ hfile[p] \in Files
           /\ \A q \in Procs : q # p /\ hpc[q] # "idle" => hfile[q] # hfile[p]
  BY HandoffAssumption DEF OwnFiles, Basic

\* An open that a process announces is not its last act in open().
LEMMA LastStep ==
    ASSUME ~ShmFails, Basic, LastInv, [Next]_vars
    PROVE  LastInv'
<1> DEFINE Opening == {"link", "map", "size", "copy", "truncate", "secret"}
<1> USE DEF clientVars, hookVars
<1>0. hpc \in [Procs -> {"idle", "link", "map", "size", "copy", "truncate",
                         "secret", "opened", "close"}]
  BY DEF Basic
<1>1. ASSUME NEW p \in Procs, NEW f \in Files,
             hpc'[p] \in Opening, hfile'[p] = f,
             events' = Notify(events, Event("open", f))
      PROVE  LastInv'
  <2>0. events \in Seq(Events) /\ Event("open", f) \in Events
    BY NotifyType DEF Basic
  <2>1. \A g : LastIs(g)' <=> g = Event("open", f)
    BY <1>1, <2>0, NotifyFacts DEF LastIs
  <2>2. p \in InHook(Opening)' /\ hfile'[p] = f
    BY <1>1 DEF InHook
  <2> QED
    BY <2>1, <2>2 DEF LastInv, Event
<1>2. ASSUME NEW f \in Files, NEW q \in Seq(Events),
             events' = Notify(q, Event("close", f))
      PROVE  LastInv'
  <2>1. \A g : LastIs(g)' <=> g = Event("close", f)
    BY <1>2, NotifyType, NotifyFacts DEF LastIs
  <2> QED
    BY <2>1 DEF LastInv, Event
<1>3. ASSUME UNCHANGED <<events, hfile>>,
             InHook(Opening) \subseteq InHook(Opening)'
      PROVE  LastInv'
  BY <1>3 DEF LastInv, LastIs
<1>4. ASSUME NEW p \in Procs, NEW f \in Files, HookOpen(p, f) PROVE LastInv'
  <2>1. hpc'[p] \in Opening /\ hfile'[p] = f
    BY <1>0, <1>4 DEF HookOpen, Basic
  <2> QED
    BY <1>1, <1>4, <2>1 DEF HookOpen
<1>5. ASSUME NEW p \in Procs, HookLink(p) \/ OpenSegment(p) \/ MapSegment(p)
      PROVE  LastInv'
  <2>1. InHook(Opening) \subseteq InHook(Opening)'
    BY <1>0, <1>5 DEF InHook, HookLink, OpenSegment, MapSegment
  <2> QED
    BY <1>3, <1>5, <2>1 DEF HookLink, OpenSegment, MapSegment
<1>6. ASSUME NEW p \in Procs, CopyFile(p) \/ TruncateFile(p) PROVE LastInv'
  <2>1. hpc'[p] \in Opening
    BY <1>0, <1>6 DEF CopyFile, TruncateFile
  <2>2. hfile[p] \in Files
    BY <1>6, HandoffAssumption DEF Basic, CopyFile, TruncateFile
  <2> QED
    BY <1>1, <1>6, <2>1, <2>2 DEF CopyFile, TruncateFile
<1>7. ASSUME NEW p \in Procs, WriteSecret(p) \/ HookClose(p) PROVE LastInv'
  <2>1. hfile[p] \in Files /\ events \in Seq(Events)
    BY <1>7, HandoffAssumption DEF Basic, WriteSecret, HookClose
  <2> QED
    BY <1>2, <1>7, <2>1 DEF WriteSecret, HookClose
<1>8. ASSUME NEW p \in Procs, ProcessWrites(p) \/ HookCloseLink(p)
      PROVE  LastInv'
  <2>1. InHook(Opening) \subseteq InHook(Opening)'
    BY <1>0, <1>8 DEF InHook, ProcessWrites, HookCloseLink
  <2> QED
    BY <1>3, <1>8, <2>1 DEF ProcessWrites, HookCloseLink
<1>9. CASE ReadEvents
  BY <1>9 DEF ReadEvents, LastInv, LastIs
<1>10. CASE \/ HandleEvent \/ OpenNoMessage \/ OpenMessage \/ ShmMissing
            \/ ShmCrash \/ ShmRead \/ SendBlocks \/ CloseTask
            \/ UNCHANGED vars
  <2>1. UNCHANGED <<events, hpc, hfile>>
    BY <1>10 DEF HandleEvent, OpenNoMessage, OpenMessage, ShmMissing, ShmCrash,
                 ShmRead, SendBlocks, CloseTask, vars
  <2> QED
    BY <1>3, <2>1 DEF InHook
<1>11. ASSUME NEW f \in Files, WriteBack(f) PROVE LastInv'
  <2>1. Notify(events, Event("open", f)) \in Seq(Events)
    BY NotifyType DEF Basic
  <2> QED
    BY <1>2, <1>11, <2>1 DEF WriteBack
<1> QED
  BY <1>4, <1>5, <1>6, <1>7, <1>8, <1>9, <1>10, <1>11
  DEF Next, HookStep, ClientStep, MapRefused

\* What the client is still to handle, as it goes on handling it.
LEMMA ClientPending ==
    ASSUME Basic, NEW k \in {"open", "close"}
    PROVE  /\ Pending(k) \in Nat
           /\ UNCHANGED <<events, buf, cpc>> => Pending(k)' = Pending(k)
           /\ ReadEvents \/ HandleEvent => Pending(k)' >= Pending(k)
           /\ /\ UNCHANGED <<events, buf>>
              /\ cpc = k
              /\ cpc' # k
              => /\ Pending(k)' = Pending(k) - 1
                 /\ \A f \in Files : LastIs(Event(k, f)) => Pending(k)' >= 1
<1> DEFINE E == Count(k, events)
           E1 == Count(k, events')
           B == Count(k, buf)
           B1 == Count(k, buf')
           A == IF cpc = k THEN 1 ELSE 0
           A1 == IF cpc' = k THEN 1 ELSE 0
<1>1. /\ events \in Seq(Events) /\ buf \in Seq(Events)
      /\ E \in Nat /\ B \in Nat /\ A \in Nat
  BY CountFacts DEF Basic
<1>2. Pending(k) = E + B + A /\ Pending(k)' = E1 + B1 + A1
  BY DEF Pending, Count, Places
<1>3. ASSUME UNCHANGED <<events, buf, cpc>>
      PROVE  E1 = E /\ B1 = B /\ A1 = A
  BY <1>3
<1>4. ASSUME ReadEvents PROVE E1 = 0 /\ B = 0 /\ B1 = E /\ A1 = A
  BY <1>4, CountFacts, EmptySeq DEF ReadEvents
<1>5. ASSUME HandleEvent
      PROVE  /\ E1 = E /\ A = 0 /\ B1 \in Nat
             /\ B1 >= B - A1
  <2>1. buf # <<>> /\ buf' = Tail(buf) /\ cpc' = Head(buf).kind
    BY <1>5 DEF HandleEvent
  <2>2. B1 >= B - A1
    BY <1>1, <2>1, CountTail
  <2>3. Tail(buf) \in Seq(Events)
    BY <1>1, <2>1, HeadTailProperties
  <2>4. B1 \in Nat
    BY <2>1, <2>3, CountFacts
  <2> QED
    BY <1>5, <2>2, <2>4 DEF HandleEvent
<1>6. ASSUME UNCHANGED <<events, buf>>, cpc = k, cpc' # k
      PROVE  E1 = E /\ B1 = B /\ A = 1 /\ A1 = 0
  BY <1>6
<1>7. ASSUME NEW f \in Files, LastIs(Event(k, f)) PROVE E >= 1
  BY <1>1, <1>7, CountFacts DEF LastIs, Event
<1> HIDE DEF E, E1, B, B1, A, A1
<1>8. ReadEvents => Pending(k)' >= Pending(k)
  BY <1>1, <1>2, <1>4
<1>9. A1 \in {0, 1}
  BY DEF A1
<1>10. HandleEvent => Pending(k)' >= Pending(k)
  BY <1>1, <1>2, <1>5, <1>9
<1> QED
  BY <1>1, <1>2, <1>3, <1>6, <1>7, <1>8, <1>10

\* It is a number.
LEMMA PendingNat ==
    Basic => Pending("open") \in Nat /\ Pending("close") \in Nat
  BY ClientPending

\* The opens cover the messages, with one to spare if one may be merged.
LEMMA OpenStep ==
    ASSUME OwnFiles, ~ShmFails, Basic, LastInv, OpenSpare, [Next]_vars
    PROVE  OpenSpare'
<1> DEFINE Going == {"link", "map", "size", "copy", "truncate"}
           Inside == {"map", "size", "copy", "truncate"}
           L == Len(queue1024)
           L1 == Len(queue1024')
           M == Merges("open", Going)
           M1 == Merges("open", Going)'
           E == Pending("open")
           E1 == Pending("open")'
           H == Cardinality(InHook(Inside))
           H1 == Cardinality(InHook(Inside))'
<1> USE DEF clientVars, hookVars
<1>0. hpc \in [Procs -> {"idle", "link", "map", "size", "copy", "truncate",
                         "secret", "opened", "close"}]
  BY DEF Basic
<1>1. L \in Nat /\ E \in Nat
  BY LenProperties, ClientPending DEF Basic
<1>2. IsFiniteSet(InHook(Inside)) /\ H \in Nat
  BY HandoffAssumption, FS_Subset, FS_CardinalityType DEF InHook
<1>3. L <= E + H /\ (M => L + 1 <= E + H)
  BY <1>1, <1>2 DEF OpenSpare
<1>4. ASSUME L1 \in Nat, E1 \in Nat, H1 \in Nat,
             L1 <= E1 + H1, M1 => L1 + 1 <= E1 + H1
      PROVE  OpenSpare'
  BY <1>4 DEF OpenSpare
<1>5. ASSUME NEW p \in Procs, NEW f \in Files,
             events' = Notify(events, Event("open", f)),
             UNCHANGED <<buf, cpc>>
      PROVE  /\ \A g : LastIs(g)' <=> g = Event("open", f)
             /\ E1 = E + (IF LastIs(Event("open", f)) THEN 0 ELSE 1)
  <2>1. Event("open", f) \in Events /\ Event("open", f).kind = "open"
    BY NotifyType DEF Event, Basic
  <2> QED
    BY <1>5, <2>1, NewEvent
<1>6. ASSUME NEW f \in Files, NEW q \in Seq(Events),
             events' = Notify(q, Event("close", f))
      PROVE  ~M1
  <2>1. \A g : LastIs(g)' <=> g = Event("close", f)
    BY <1>6, NotifyType, NotifyFacts DEF LastIs
  <2> QED
    BY <2>1 DEF Merges, Event
<1>7. /\ \A p \in Procs : \A s :
            hpc' = [hpc EXCEPT ![p] = s] =>
               H1 = H - (IF hpc[p] \in Inside THEN 1 ELSE 0)
                      + (IF s \in Inside THEN 1 ELSE 0)
      /\ hpc' = hpc => H1 = H
  <2>1. hpc' = hpc => H1 = H
    BY DEF InHook
  <2> HIDE DEF Inside
  <2> QED
    BY <2>1, Moves
<1>8. /\ UNCHANGED <<events, buf, cpc>> => E1 = E
      /\ ReadEvents \/ HandleEvent => E1 >= E
      /\ UNCHANGED <<events, buf>> /\ cpc = "open" /\ cpc' # "open" =>
            /\ E1 = E - 1
            /\ \A f \in Files : LastIs(Event("open", f)) => E1 >= 1
      /\ E1 \in Nat
  <2>1. Basic' => (Pending("open") \in Nat /\ Pending("close") \in Nat)'
    BY PendingNat, PTL
  <2>2. E1 \in Nat
    BY <2>1, BasicStep
  <2> QED
    BY <2>2, ClientPending
<1> HIDE DEF H, H1, E, E1
<1>9. ASSUME NEW p \in Procs, NEW r, NEW s,
             hpc[p] = r, hpc' = [hpc EXCEPT ![p] = s]
      PROVE  /\ r \notin Inside /\ s \notin Inside => H1 = H
             /\ r \in Inside /\ s \in Inside => H1 = H
             /\ r \notin Inside /\ s \in Inside => H1 = H + 1
             /\ r \in Inside /\ s \notin Inside => H1 = H - 1
  <2>1. H1 = H - (IF r \in Inside THEN 1 ELSE 0)
               + (IF s \in Inside THEN 1 ELSE 0)
    BY <1>7, <1>9, Zenon
  <2> HIDE DEF Inside
  <2> QED
    BY <1>2, <2>1
<1>10. ASSUME NEW p \in Procs, NEW f \in Files, HookOpen(p, f)
       PROVE  OpenSpare'
  <2>1. ~LastIs(Event("open", f))
    <3>1. ASSUME NEW q \in Procs, hpc[q] # "idle" PROVE hfile[q] # f
      BY <1>10, <3>1 DEF HookOpen, OwnFiles, Basic
    <3> QED
      BY <1>10, <3>1 DEF LastInv, InHook
  <2>2. E1 = E + 1
    BY <1>5, <1>10, <2>1 DEF HookOpen
  <2>3. H1 = H
    BY <1>9, <1>10 DEF HookOpen
  <2>4. L1 = L
    BY <1>10 DEF HookOpen
  <2> HIDE DEF L, L1, M, M1
  <2> QED
    BY <1>1, <1>2, <1>3, <1>4, <2>2, <2>3, <2>4
<1>11. ASSUME NEW p \in Procs, HookLink(p) PROVE OpenSpare'
  <2>1. H1 = H + 1
    BY <1>9, <1>11 DEF HookLink
  <2>2. E1 = E
    BY <1>8, <1>11 DEF HookLink
  <2>3. L1 \in Nat /\ L1 <= L + 1
    <3>1. hfile[p] \in Files /\ queue1024 \in Seq(Files)
      BY <1>11, HandoffAssumption DEF HookLink, Basic
    <3> QED
      BY <1>1, <1>11, <3>1, AppendProperties DEF HookLink, LinkSent
  <2>4. M1 => M
    BY <1>0, <1>11 DEF HookLink, Merges, LastIs, InHook
  <2> HIDE DEF L, L1, M, M1
  <2> QED
    BY <1>1, <1>2, <1>3, <1>4, <2>1, <2>2, <2>3, <2>4
<1>12. ASSUME NEW p \in Procs, OpenSegment(p) \/ MapSegment(p)
       PROVE  OpenSpare'
  <2>1. H1 = H
    <3>1. CASE OpenSegment(p)
      BY <1>9, <3>1 DEF OpenSegment
    <3>2. CASE MapSegment(p)
      BY <1>9, <3>2 DEF MapSegment
    <3> QED
      BY <1>12, <3>1, <3>2
  <2>2. E1 = E /\ L1 = L
    BY <1>8, <1>12 DEF OpenSegment, MapSegment
  <2>3. M1 => M
    BY <1>0, <1>12 DEF OpenSegment, MapSegment, Merges, LastIs, InHook
  <2> HIDE DEF L, L1, M, M1
  <2> QED
    BY <1>1, <1>2, <1>3, <1>4, <2>1, <2>2, <2>3
<1>13. ASSUME NEW p \in Procs, hpc[p] \in Going,
              LastIs(Event("open", hfile[p]))
       PROVE  M
  BY <1>13 DEF Merges, InHook
<1>14. ASSUME NEW p \in Procs, CopyFile(p) PROVE OpenSpare'
  <2>1. H1 = H
    BY <1>9, <1>14 DEF CopyFile
  <2>2. hfile[p] \in Files /\ L1 = L
    BY <1>14, Apart DEF CopyFile
  <2>3. E1 = E + (IF LastIs(Event("open", hfile[p])) THEN 0 ELSE 1)
    BY <1>5, <1>14, <2>2 DEF CopyFile
  <2>4. LastIs(Event("open", hfile[p])) => M
    BY <1>13, <1>14 DEF CopyFile
  <2> HIDE DEF L, L1, M, M1
  <2> QED
    BY <1>1, <1>2, <1>3, <1>4, <2>1, <2>2, <2>3, <2>4
<1>15. ASSUME NEW p \in Procs, TruncateFile(p) PROVE OpenSpare'
  <2>1. H1 = H - 1 /\ H1 \in Nat
    <3>0. hpc[p] = "truncate" /\ hpc' = [hpc EXCEPT ![p] = "secret"]
      BY <1>15 DEF TruncateFile
    <3>1. "truncate" \in Inside /\ "secret" \notin Inside
      OBVIOUS
    <3>2. H1 = H - 1
      BY <1>9, <3>0, <3>1, Zenon
    <3>3. p \in InHook(Inside)
      BY <1>15 DEF TruncateFile, InHook
    <3>4. H # 0
      BY <1>2, <3>3, FS_EmptySet DEF H
    <3> QED
      BY <1>2, <3>2, <3>4
  <2>2. hfile[p] \in Files /\ L1 = L
    BY <1>15, Apart DEF TruncateFile
  <2>3. /\ E1 = E + (IF LastIs(Event("open", hfile[p])) THEN 0 ELSE 1)
        /\ \A g : LastIs(g)' <=> g = Event("open", hfile[p])
    BY <1>5, <1>15, <2>2 DEF TruncateFile
  <2>4. LastIs(Event("open", hfile[p])) => M
    BY <1>13, <1>15 DEF TruncateFile
  <2>5. ~M1
    <3>1. \A q \in Procs : q # p /\ hpc[q] # "idle" => hfile[q] # hfile[p]
      BY <1>15, Apart DEF TruncateFile
    <3> QED
      BY <1>0, <1>15, <2>3, <3>1 DEF TruncateFile, Merges, InHook, Event
  <2> HIDE DEF L, L1, M, M1
  <2> QED
    BY <1>1, <1>2, <1>3, <1>4, <2>1, <2>2, <2>3, <2>4, <2>5
<1>16. ASSUME NEW p \in Procs, WriteSecret(p) \/ HookClose(p)
       PROVE  OpenSpare'
  <2>0. /\ hpc[p] \in {"secret", "close"} /\ L1 = L
        /\ hfile[p] \in Files
        /\ events' = Notify(events, Event("close", hfile[p]))
        /\ UNCHANGED <<buf, cpc>>
    BY <1>16, Apart DEF WriteSecret, HookClose
  <2>1. H1 = H
    <3>1. CASE WriteSecret(p)
      <4>1. hpc[p] = "secret" /\ hpc' = [hpc EXCEPT ![p] = "opened"]
        BY <3>1 DEF WriteSecret
      <4> QED
        BY <1>9, <4>1
    <3>2. CASE HookClose(p)
      <4>1. hpc[p] = "close" /\ hpc' = [hpc EXCEPT ![p] = "idle"]
        BY <3>2 DEF HookClose
      <4> QED
        BY <1>9, <4>1
    <3> QED
      BY <1>16, <3>1, <3>2
  <2>2. E1 = E
    <3>1. /\ Event("close", hfile[p]) \in Events
          /\ Event("close", hfile[p]).kind = "close"
      BY <2>0, NotifyType DEF Event, Basic
    <3>2. E1 = E + 0
      BY <2>0, <3>1, NewEvent DEF E, E1
    <3> QED
      BY <1>1, <3>2
  <2>3. ~M1
    BY <1>6, <2>0 DEF Basic
  <2> HIDE DEF L, L1, M, M1
  <2> QED
    BY <1>1, <1>2, <1>3, <1>4, <2>0, <2>1, <2>2, <2>3
<1>17. ASSUME NEW p \in Procs, ProcessWrites(p) \/ HookCloseLink(p)
       PROVE  OpenSpare'
  <2>1. H1 = H
    <3>1. CASE ProcessWrites(p)
      BY <1>7, <3>1 DEF ProcessWrites
    <3>2. CASE HookCloseLink(p)
      BY <1>9, <3>2 DEF HookCloseLink
    <3> QED
      BY <1>17, <3>1, <3>2
  <2>2. E1 = E /\ L1 = L
    BY <1>8, <1>17 DEF ProcessWrites, HookCloseLink
  <2>3. M1 => M
    BY <1>0, <1>17 DEF ProcessWrites, HookCloseLink, Merges, LastIs, InHook
  <2> HIDE DEF L, L1, M, M1
  <2> QED
    BY <1>1, <1>2, <1>3, <1>4, <2>1, <2>2, <2>3
<1>18. CASE ReadEvents \/ HandleEvent
  <2>1. H1 = H /\ L1 = L
    BY <1>7, <1>18 DEF ReadEvents, HandleEvent
  <2>2. M1 => M
    BY <1>18 DEF ReadEvents, HandleEvent, Merges, LastIs, InHook
  <2>3. E1 \in Nat /\ E1 >= E
    BY <1>8, <1>18
  <2> HIDE DEF L, L1, M, M1
  <2> QED
    BY <1>1, <1>2, <1>3, <1>4, <2>1, <2>2, <2>3
<1>19. CASE OpenNoMessage
  <2>1. H1 = H /\ L1 = 0
    BY <1>7, <1>19 DEF OpenNoMessage
  <2>2. M1 => M
    BY <1>19 DEF OpenNoMessage, Merges, LastIs, InHook
  <2>3. M => \E f \in Files : LastIs(Event("open", f))
    BY HandoffAssumption DEF Merges, InHook, Basic
  <2>4. E1 \in Nat /\ \A f \in Files : LastIs(Event("open", f)) => E1 >= 1
    BY <1>8, <1>19 DEF OpenNoMessage
  <2> HIDE DEF L, L1, M, M1
  <2> QED
    BY <1>1, <1>2, <1>3, <1>4, <2>1, <2>2, <2>3, <2>4
<1>20. CASE OpenMessage
  <2>1. H1 = H /\ L1 = L - 1 /\ L1 \in Nat
    BY <1>1, <1>7, <1>20, HeadTailProperties, LenProperties
    DEF OpenMessage, Basic
  <2>2. M1 => M
    BY <1>20 DEF OpenMessage, Merges, LastIs, InHook
  <2>3. E1 = E - 1
    BY <1>8, <1>20 DEF OpenMessage
  <2> HIDE DEF L, L1, M, M1
  <2> QED
    BY <1>1, <1>2, <1>3, <1>4, <1>8, <2>1, <2>2, <2>3
<1>21. CASE \/ ShmMissing \/ ShmCrash \/ ShmRead \/ SendBlocks
            \/ CloseTask \/ UNCHANGED vars
  <2>1. UNCHANGED <<hpc, hfile, events, buf, queue1024>>
    BY <1>21 DEF ShmMissing, ShmCrash, ShmRead, SendBlocks, CloseTask,
                 vars
  <2>2. UNCHANGED cpc \/ (cpc # "open" /\ cpc' # "open")
    BY <1>21 DEF ShmMissing, ShmCrash, ShmRead, SendBlocks, CloseTask,
                 vars
  <2>3. H1 = H /\ L1 = L /\ E1 = E
    BY <1>7, <2>1, <2>2 DEF E, E1, Pending
  <2>4. M1 => M
    BY <2>1 DEF Merges, LastIs, InHook
  <2> HIDE DEF L, L1, M, M1
  <2> QED
    BY <1>1, <1>2, <1>3, <1>4, <2>3, <2>4
<1>22. ASSUME NEW f \in Files, WriteBack(f) PROVE OpenSpare'
  <2>1. H1 = H /\ L1 = L
    BY <1>7, <1>22 DEF WriteBack
  <2> DEFINE q == Notify(events, Event("open", f))
  <2>2. q \in Seq(Events) /\ events' = Notify(q, Event("close", f))
    BY <1>22, NotifyType DEF WriteBack, Basic
  <2>3. ~M1
    BY <1>6, <2>2
  <2>4. E1 >= E /\ E1 \in Nat
    <3> DEFINE C0 == Count("open", events)
               C1 == Count("open", q)
               C2 == Count("open", events')
               B == Count("open", buf)
               A == IF cpc = "open" THEN 1 ELSE 0
    <3>1. events \in Seq(Events) /\ buf \in Seq(Events)
      BY DEF Basic
    <3>2. C0 \in Nat /\ B \in Nat /\ A \in Nat
      BY <3>1, CountFacts
    <3>3. C1 \in Nat /\ C1 >= C0
      <4>1. Event("open", f) \in Events /\ Event("open", f).kind = "open"
        BY <3>1, NotifyType DEF Event
      <4>2. C1 \in {C0, C0 + 1}
        BY <3>1, <3>2, <4>1, NotifyFacts
      <4> QED
        BY <3>2, <4>2
    <3>4. C2 = C1
      <4>1. Event("close", f) \in Events /\ Event("close", f).kind = "close"
        BY <3>1, NotifyType DEF Event
      <4>2. C2 = C1 + 0
        BY <2>2, <4>1, NotifyFacts
      <4> QED
        BY <3>3, <4>2
    <3>5. E = C0 + B + A /\ E1 = C2 + B + A
      BY <1>22 DEF WriteBack, E, E1, Pending, Count, Places
    <3> HIDE DEF C0, C1, C2, B, A, q
    <3> QED
      BY <3>2, <3>3, <3>4, <3>5
  <2> HIDE DEF L, L1, M, M1, q
  <2> QED
    BY <1>1, <1>2, <1>3, <1>4, <2>1, <2>3, <2>4
<1> QED
  BY <1>10, <1>11, <1>12, <1>14, <1>15, <1>16, <1>17, <1>18, <1>19, <1>20,
     <1>21, <1>22
  DEF Next, HookStep, ClientStep, MapRefused

\* The closes cover the messages in the same way.
LEMMA CloseStep ==
    ASSUME OwnFiles, Basic, CloseSpare, [Next]_vars
    PROVE  CloseSpare'
<1> DEFINE Last == {"close"}
           L == Len(queue1025)
           L1 == Len(queue1025')
           M == Merges("close", Active)
           M1 == Merges("close", Active)'
           E == Pending("close")
           E1 == Pending("close")'
           H == Cardinality(InHook(Last))
           H1 == Cardinality(InHook(Last))'
<1> USE DEF clientVars, hookVars
<1>0. /\ hpc \in [Procs -> {"idle", "link", "map", "size", "copy", "truncate",
                            "secret", "opened", "close"}]
      /\ events \in Seq(Events)
  BY DEF Basic
<1>1. L \in Nat /\ E \in Nat
  BY LenProperties, ClientPending DEF Basic
<1>2. IsFiniteSet(InHook(Last)) /\ H \in Nat
  BY HandoffAssumption, FS_Subset, FS_CardinalityType DEF InHook
<1>3. L <= E + H /\ (M => L + 1 <= E + H)
  BY <1>1, <1>2 DEF CloseSpare
<1>4. ASSUME L1 \in Nat, E1 \in Nat, H1 \in Nat,
             L1 <= E1 + H1, M1 => L1 + 1 <= E1 + H1
      PROVE  CloseSpare'
  BY <1>4 DEF CloseSpare
<1>5. ASSUME NEW k \in {"open", "close"}, NEW f \in Files,
             events' = Notify(events, Event(k, f)),
             UNCHANGED <<buf, cpc>>
      PROVE  /\ \A g : LastIs(g)' <=> g = Event(k, f)
             /\ k = "open" => E1 = E /\ ~M1
             /\ k = "close" =>
                   E1 = E + (IF LastIs(Event("close", f)) THEN 0 ELSE 1)
  <2>1. Event(k, f) \in Events /\ Event(k, f).kind = k
    BY NotifyType DEF Event, Basic
  <2>2. \A g : LastIs(g)' <=> g = Event(k, f)
    BY <1>5, <2>1, NewEvent
  <2>3. E1 = E + (IF k = "close" /\ ~LastIs(Event(k, f)) THEN 1 ELSE 0)
    BY <1>5, <2>1, NewEvent
  <2>4. k = "open" => ~M1
    BY <2>2 DEF Merges, Event
  <2> HIDE DEF E, E1, M1
  <2> QED
    BY <1>1, <2>2, <2>3, <2>4
<1>6. ASSUME NEW p \in Procs, NEW r, NEW s,
             hpc[p] = r, hpc' = [hpc EXCEPT ![p] = s]
      PROVE  /\ r # "close" /\ s # "close" => H1 = H
             /\ r # "close" /\ s = "close" => H1 = H + 1
             /\ r = "close" /\ s # "close" => H1 = H - 1 /\ H1 \in Nat
  <2> HIDE DEF Last
  <2>1. H1 = H - (IF hpc[p] \in Last THEN 1 ELSE 0)
               + (IF s \in Last THEN 1 ELSE 0)
    BY <1>6, Moves
  <2>2. /\ r \in Last <=> r = "close"
        /\ s \in Last <=> s = "close"
    BY DEF Last
  <2>3. r = "close" => H # 0
    <3>1. r = "close" => p \in InHook(Last)
      BY <1>6 DEF InHook, Last
    <3> QED
      BY <1>2, <3>1, FS_EmptySet
  <2> HIDE DEF H, H1
  <2> QED
    BY <1>2, <1>6, <2>1, <2>2, <2>3
<1>7. /\ UNCHANGED hpc => H1 = H
      /\ UNCHANGED <<hpc, hfile, events>> => (M1 => M)
      /\ UNCHANGED <<events, buf, cpc>> => E1 = E
  BY DEF InHook, Merges, LastIs, Pending
<1>8. E1 \in Nat
  <2>1. Basic' => (Pending("open") \in Nat /\ Pending("close") \in Nat)'
    BY PendingNat, PTL
  <2> QED
    BY <2>1, BasicStep
<1> HIDE DEF H, H1, E, E1
<1>9. ASSUME NEW p \in Procs,
             \/ \E f \in Files : HookOpen(p, f)
             \/ CopyFile(p) \/ TruncateFile(p)
      PROVE  CloseSpare'
  <2>1. PICK f \in Files : events' = Notify(events, Event("open", f))
    <3>1. CASE \E f \in Files : HookOpen(p, f)
      BY <3>1 DEF HookOpen
    <3>2. CASE CopyFile(p) \/ TruncateFile(p)
      BY <3>2, Apart DEF CopyFile, TruncateFile
    <3> QED
      BY <1>9, <3>1, <3>2
  <2>2. UNCHANGED <<buf, cpc, queue1025>>
    BY <1>9 DEF HookOpen, CopyFile, TruncateFile
  <2>3. PICK s \in {"link", "truncate", "secret"} :
           hpc[p] # "close" /\ hpc' = [hpc EXCEPT ![p] = s]
    BY <1>9 DEF HookOpen, CopyFile, TruncateFile
  <2>4. H1 = H
    BY <1>6, <2>3
  <2>5. E1 = E /\ ~M1 /\ L1 = L
    BY <1>5, <2>1, <2>2
  <2> HIDE DEF L, L1, M, M1
  <2> QED
    BY <1>1, <1>2, <1>3, <1>4, <2>4, <2>5
<1>10. ASSUME NEW p \in Procs,
              \/ HookLink(p) \/ MapRefused(p) \/ OpenSegment(p)
              \/ MapSegment(p) \/ ProcessWrites(p)
       PROVE  CloseSpare'
  <2>1. UNCHANGED <<events, buf, cpc, queue1025, hfile>>
    BY <1>10
    DEF HookLink, MapRefused, OpenSegment, MapSegment, ProcessWrites
  <2>2. \/ UNCHANGED hpc
        \/ \E s \in {"map", "opened", "size", "copy"} :
              /\ hpc[p] \in Active \ {"close"}
              /\ hpc' = [hpc EXCEPT ![p] = s]
    BY <1>10
    DEF HookLink, MapRefused, OpenSegment, MapSegment, ProcessWrites, Active
  <2>3. H1 = H
    BY <1>6, <1>7, <2>2
  <2>4. M1 => M
    BY <1>0, <2>1, <2>2 DEF Merges, InHook, LastIs, Active
  <2>5. E1 = E /\ L1 = L
    BY <1>7, <2>1
  <2> HIDE DEF L, L1, M, M1
  <2> QED
    BY <1>1, <1>2, <1>3, <1>4, <2>3, <2>4, <2>5
<1>11. ASSUME NEW p \in Procs, hpc[p] \in Active,
              LastIs(Event("close", hfile[p]))
       PROVE  M
  BY <1>11 DEF Merges, InHook
<1>12. ASSUME NEW p \in Procs, WriteSecret(p) PROVE CloseSpare'
  <2>1. /\ hpc[p] = "secret" /\ hpc' = [hpc EXCEPT ![p] = "opened"]
        /\ events' = Notify(events, Event("close", hfile[p]))
        /\ UNCHANGED <<buf, cpc, queue1025>>
    BY <1>12 DEF WriteSecret
  <2>2. H1 = H
    <3>1. hpc[p] = "secret" /\ hpc' = [hpc EXCEPT ![p] = "opened"]
      BY <2>1
    <3>2. "secret" # "close" /\ "opened" # "close"
      OBVIOUS
    <3> QED
      BY <1>6, <3>1, <3>2, Zenon
  <2>3. hfile[p] \in Files /\ L1 = L
    BY <2>1, Apart
  <2>4. E1 = E + (IF LastIs(Event("close", hfile[p])) THEN 0 ELSE 1)
    BY <1>5, <2>1, <2>3
  <2>5. LastIs(Event("close", hfile[p])) => M
    BY <1>11, <2>1 DEF Active
  <2> HIDE DEF L, L1, M, M1
  <2> QED
    BY <1>1, <1>2, <1>3, <1>4, <2>2, <2>3, <2>4, <2>5
<1>13. ASSUME NEW p \in Procs, HookCloseLink(p) PROVE CloseSpare'
  <2>1. /\ hpc[p] = "opened" /\ hpc' = [hpc EXCEPT ![p] = "close"]
        /\ UNCHANGED <<events, buf, cpc, hfile>>
    BY <1>13 DEF HookCloseLink
  <2>2. H1 = H + 1 /\ E1 = E
    BY <1>6, <1>7, <2>1
  <2>3. L1 \in Nat /\ L1 <= L + 1
    <3>1. hfile[p] \in Files /\ queue1025 \in Seq(Files)
      BY <2>1, Apart DEF Basic
    <3> QED
      BY <1>1, <1>13, <3>1, AppendProperties DEF HookCloseLink, LinkSent
  <2>4. M1 => M
    BY <1>0, <2>1 DEF Merges, InHook, LastIs, Active
  <2> HIDE DEF L, L1, M, M1
  <2> QED
    BY <1>1, <1>2, <1>3, <1>4, <2>2, <2>3, <2>4
<1>14. ASSUME NEW p \in Procs, HookClose(p) PROVE CloseSpare'
  <2>1. /\ hpc[p] = "close" /\ hpc' = [hpc EXCEPT ![p] = "idle"]
        /\ hfile' = [hfile EXCEPT ![p] = NoName]
        /\ events' = Notify(events, Event("close", hfile[p]))
        /\ UNCHANGED <<buf, cpc, queue1025>>
    BY <1>14 DEF HookClose
  <2>2. H1 = H - 1 /\ H1 \in Nat
    <3>1. hpc[p] = "close" /\ hpc' = [hpc EXCEPT ![p] = "idle"]
      BY <2>1
    <3>2. \A r, s : hpc[p] = r /\ hpc' = [hpc EXCEPT ![p] = s]
                    /\ r = "close" /\ s # "close"
                    => H1 = H - 1 /\ H1 \in Nat
      BY <1>6
    <3>3. "idle" # "close"
      OBVIOUS
    <3> QED
      BY <3>1, <3>2, <3>3, Zenon
  <2>3. /\ hfile[p] \in Files /\ L1 = L
        /\ \A q \in Procs : q # p /\ hpc[q] # "idle" => hfile[q] # hfile[p]
    BY <2>1, Apart
  <2>4. /\ E1 = E + (IF LastIs(Event("close", hfile[p])) THEN 0 ELSE 1)
        /\ \A g : LastIs(g)' <=> g = Event("close", hfile[p])
    BY <1>5, <2>1, <2>3
  <2>5. LastIs(Event("close", hfile[p])) => M
    BY <1>11, <2>1 DEF Active
  <2>6. ~M1
    BY <1>0, <2>1, <2>3, <2>4 DEF Merges, InHook, Event, Active, Basic
  <2> HIDE DEF L, L1, M, M1
  <2> QED
    BY <1>1, <1>2, <1>3, <1>4, <2>2, <2>3, <2>4, <2>5, <2>6
<1>15. CASE ReadEvents \/ HandleEvent
  <2>1. H1 = H /\ L1 = L
    BY <1>7, <1>15 DEF ReadEvents, HandleEvent
  <2>2. M1 => M
    BY <1>15 DEF ReadEvents, HandleEvent, Merges, LastIs, InHook
  <2>3. E1 >= E
    BY <1>15, ClientPending DEF E, E1
  <2> HIDE DEF L, L1, M, M1
  <2> QED
    BY <1>1, <1>2, <1>3, <1>4, <1>8, <2>1, <2>2, <2>3
<1>16. CASE \/ OpenNoMessage \/ OpenMessage \/ ShmMissing \/ ShmCrash
            \/ ShmRead \/ SendBlocks \/ UNCHANGED vars
  <2>1. UNCHANGED <<hpc, hfile, events, buf, queue1025>>
    BY <1>16 DEF OpenNoMessage, OpenMessage, ShmMissing, ShmCrash, ShmRead,
                 SendBlocks, vars
  <2>2. UNCHANGED cpc \/ (cpc # "close" /\ cpc' # "close")
    BY <1>16 DEF OpenNoMessage, OpenMessage, ShmMissing, ShmCrash, ShmRead,
                 SendBlocks, vars
  <2>3. H1 = H /\ L1 = L /\ E1 = E /\ (M1 => M)
    BY <1>7, <2>1, <2>2 DEF E, E1, Pending
  <2> HIDE DEF L, L1, M, M1
  <2> QED
    BY <1>1, <1>2, <1>3, <1>4, <2>3
<1>17. CASE CloseTask
  <2>1. /\ UNCHANGED <<hpc, hfile, events, buf>>
        /\ cpc = "close" /\ cpc' # "close"
    BY <1>17 DEF CloseTask
  <2>2. H1 = H /\ (M1 => M)
    BY <1>7, <2>1
  <2>3. /\ E1 = E - 1
        /\ \A f \in Files : LastIs(Event("close", f)) => E1 >= 1
    BY <2>1, ClientPending DEF E, E1
  <2>4. M => \E f \in Files : LastIs(Event("close", f))
    BY HandoffAssumption DEF Merges, InHook, Basic, Active
  <2>5. L1 = 0 \/ (L1 = L - 1 /\ L1 \in Nat)
    <3>1. CASE queue1025 = <<>>
      BY <1>17, <3>1 DEF CloseTask
    <3>2. CASE queue1025 # <<>>
      BY <1>1, <1>17, <3>2, HeadTailProperties, LenProperties
      DEF CloseTask, Basic
    <3> QED
      BY <3>1, <3>2
  <2> HIDE DEF L, L1, M, M1
  <2> QED
    BY <1>1, <1>2, <1>3, <1>4, <1>8, <2>2, <2>3, <2>4, <2>5
<1>18. ASSUME NEW f \in Files, WriteBack(f) PROVE CloseSpare'
  <2> DEFINE e == Event("close", f)
             q == Notify(events, Event("open", f))
             C0 == Count("close", events)
             C1 == Count("close", q)
             C2 == Count("close", events')
             B == Count("close", buf)
             A == IF cpc = "close" THEN 1 ELSE 0
  <2>1. H1 = H /\ L1 = L
    BY <1>7, <1>18 DEF WriteBack
  <2>2. /\ Event("open", f) \in Events /\ Event("open", f).kind = "open"
        /\ e \in Events /\ e.kind = "close" /\ e # Event("open", f)
    BY <1>0, NotifyType DEF Event
  <2>3. buf \in Seq(Events) /\ events' = Notify(q, e)
    BY <1>18 DEF WriteBack, Basic
  <2>4. C0 \in Nat /\ B \in Nat /\ A \in Nat
    BY <1>0, <2>3, CountFacts
  <2>5. /\ q \in Seq(Events) /\ q[Len(q)] = Event("open", f)
        /\ C1 = C0 + 0
    <3>1. \A k : Count(k, q) = Count(k, events) +
                    (IF /\ Event("open", f).kind = k
                        /\ ~(events # <<>>
                              /\ events[Len(events)] = Event("open", f))
                     THEN 1 ELSE 0)
      BY <1>0, <2>2, NotifyFacts
    <3>2. Event("open", f).kind # "close"
      BY <2>2
    <3> QED
      BY <1>0, <2>2, <3>1, <3>2, NotifyFacts
  <2>6. C2 = C1 + 1
    <3> HIDE DEF q
    <3>1. \A k : Count(k, Notify(q, e)) = Count(k, q) +
                    (IF e.kind = k /\ ~(q # <<>> /\ q[Len(q)] = e)
                     THEN 1 ELSE 0)
      BY <2>2, <2>5, NotifyFacts
    <3>2. ~(q # <<>> /\ q[Len(q)] = e) /\ e.kind = "close"
      BY <2>2, <2>5
    <3> HIDE DEF e
    <3> QED
      BY <2>3, <3>1, <3>2
  <2>7. E = C0 + B + A /\ E1 = C2 + B + A
    BY <1>18 DEF WriteBack, E, E1, Pending, Count, Places
  <2> HIDE DEF C0, C1, C2, B, A, q, e
  <2>8. E1 = E + 1
    BY <2>4, <2>5, <2>6, <2>7
  <2> HIDE DEF L, L1, M, M1
  <2> QED
    BY <1>1, <1>2, <1>3, <1>4, <2>1, <2>8
<1> QED
  BY <1>9, <1>10, <1>12, <1>13, <1>14, <1>15, <1>16, <1>17, <1>18
  DEF Next, HookStep, ClientStep

(***************************************************************************)
(* No message of an open outlives the events the client will be told of,   *)
(* for any processes with files of their own that can map their segments.  *)
(***************************************************************************)
THEOREM OpenMessagesCovered == Spec => []OpenMessageCovered
<1>1. Init => LastInv /\ OpenSpare
  <2> SUFFICES ASSUME Init PROVE LastInv /\ OpenSpare
    OBVIOUS
  <2>1. events = <<>> /\ queue1024 = <<>>
    BY DEF Init
  <2>2. LastInv /\ Len(queue1024) = 0
    BY <2>1 DEF LastInv, LastIs
  <2>3. ~Merges("open", {"link", "map", "size", "copy", "truncate"})
    BY <2>1 DEF Merges, LastIs
  <2> DEFINE E == Pending("open")
             H == Cardinality(InHook({"map", "size", "copy", "truncate"}))
  <2>4. E \in Nat
    BY BasicInit, PendingNat
  <2>5. H \in Nat
    BY HandoffAssumption, FS_Subset, FS_CardinalityType DEF InHook
  <2> HIDE DEF E, H
  <2>6. 0 <= E + H
    BY <2>4, <2>5
  <2> QED
    BY <2>2, <2>3, <2>6 DEF OpenSpare, E, H
<1>2. Basic /\ OpenSpare => OpenMessageCovered
  <2> SUFFICES ASSUME Basic, OpenSpare PROVE OpenMessageCovered
    OBVIOUS
  <2> DEFINE E == Pending("open")
             H == Cardinality(InHook({"map", "size", "copy", "truncate"}))
             L == Len(queue1024)
  <2>1. E \in Nat /\ L \in Nat
    BY PendingNat, LenProperties DEF Basic
  <2>2. H \in Nat
    BY HandoffAssumption, FS_Subset, FS_CardinalityType DEF InHook
  <2>3. L + 1 <= E + H \/ L + 0 <= E + H
    BY DEF OpenSpare
  <2> HIDE DEF E, H, L
  <2>4. L <= E + H
    BY <2>1, <2>2, <2>3
  <2> QED
    BY <2>4 DEF OpenMessageCovered, E, H, L
<1>3. OwnFiles /\ ~ShmFails
        /\ Basic /\ LastInv /\ OpenSpare /\ [Next]_vars
      => LastInv' /\ OpenSpare'
  BY LastStep, OpenStep
<1>4. ~(OwnFiles /\ ~ShmFails) => OpenMessageCovered
  BY DEF OpenMessageCovered
<1>5. CASE OwnFiles /\ ~ShmFails
  BY <1>1, <1>2, <1>3, <1>5, BasicInit, BasicStep, PTL DEF Spec
<1>6. CASE ~(OwnFiles /\ ~ShmFails)
  BY <1>4, <1>6, PTL
<1> QED
  BY <1>5, <1>6

(***************************************************************************)
(* Nor does a message of a close outlive the closes: here sending comes    *)
(* first, and set_map() may fail.                                          *)
(***************************************************************************)
THEOREM CloseMessagesCovered == Spec => []CloseMessageCovered
<1>1. Init => CloseSpare
  <2> SUFFICES ASSUME Init PROVE CloseSpare
    OBVIOUS
  <2>1. Len(queue1025) = 0 /\ ~Merges("close", Active)
    BY DEF Init, Merges, LastIs
  <2> DEFINE E == Pending("close")
             H == Cardinality(InHook({"close"}))
  <2>2. E \in Nat
    BY BasicInit, PendingNat
  <2>3. H \in Nat
    BY HandoffAssumption, FS_Subset, FS_CardinalityType DEF InHook
  <2> HIDE DEF E, H
  <2>4. 0 <= E + H
    BY <2>2, <2>3
  <2> QED
    BY <2>1, <2>4 DEF CloseSpare, E, H
<1>2. Basic /\ CloseSpare => CloseMessageCovered
  <2> SUFFICES ASSUME Basic, CloseSpare PROVE CloseMessageCovered
    OBVIOUS
  <2> DEFINE E == Pending("close")
             H == Cardinality(InHook({"close"}))
             L == Len(queue1025)
  <2>1. E \in Nat /\ L \in Nat
    BY PendingNat, LenProperties DEF Basic
  <2>2. H \in Nat
    BY HandoffAssumption, FS_Subset, FS_CardinalityType DEF InHook
  <2>3. L + 1 <= E + H \/ L + 0 <= E + H
    BY DEF CloseSpare
  <2> HIDE DEF E, H, L
  <2>4. L <= E + H
    BY <2>1, <2>2, <2>3
  <2> QED
    BY <2>4 DEF CloseMessageCovered, E, H, L
<1>3. OwnFiles /\ Basic /\ CloseSpare /\ [Next]_vars => CloseSpare'
  BY CloseStep
<1>4. ~OwnFiles => CloseMessageCovered
  BY DEF CloseMessageCovered
<1>5. CASE OwnFiles
  BY <1>1, <1>2, <1>3, <1>5, BasicInit, BasicStep, PTL DEF Spec
<1>6. CASE ~OwnFiles
  BY <1>4, <1>6, PTL
<1> QED
  BY <1>5, <1>6
=============================================================================
