------------------------------ MODULE Handoff ------------------------------
(***************************************************************************)
(* The hand-off of a file between a hooked process and the client.         *)
(*                                                                         *)
(* src/src/hook/hook.c replaces open() and close() in the processes that   *)
(* preload it.  open() opens the file, sends its name to message queue     *)
(* 1024, copies the contents to a shared memory segment named after the    *)
(* file and overwrites the file with "It is a secret".  close() sends the  *)
(* name to queue 1025.  The client (handle_events() of                     *)
(* src/src/client/inotify.cpp, do_thing of main.hpp) is told of every open *)
(* and close by inotify; on an open it takes a message from 1024 and sends *)
(* the segment to the server, on a close it takes one from 1025 and asks   *)
(* for the file, which Recv_file() writes back.  The semaphore /memmap_sem *)
(* is posted by both sides and waited for by none, so it has no part here. *)
(*                                                                         *)
(* The server is taken to keep what it is sent and to answer; how it may   *)
(* fail to is the subject of Server.  Processes open existing files for    *)
(* writing, without O_TRUNC.  Contents are single values, so Recv_file()   *)
(* is modelled for as long as it has received no more than 4096 bytes.  A  *)
(* call that the keep-alive flag denies has no effect here.                *)
(***************************************************************************)
EXTENDS Integers, Sequences, FiniteSets

CONSTANTS
    Procs,      \* hooked processes, one thread each
    Files,      \* regular files below the watched path
    Wanted(_),  \* the files a process opens
    NoName,     \* "no file"
    Base(_),    \* the part of a path from its last '/', as a sequence
    ShmNames,   \* names of segments: all that SHM_NAME may come to hold
    Original(_),\* the contents a file starts with
    News,       \* contents a process may write into a file it has open
    Empty,      \* no contents at all
    Secret,     \* "It is a secret"
    Zeros,      \* a segment nothing has been copied to
    Unsized,    \* a segment of size 0: ftruncate() is still to come
    None,       \* no segment, or no backup
    ShmFails,   \* shm_open() may fail in set_map()
    MaxMsgs,    \* messages a queue holds
    MaxOpens    \* bound: opens of all processes together

Contents == {Original(f) : f \in Files} \union News \union {Empty, Secret}

\* SHM_NAME is never cleared: a shorter name leaves the end of the old one.
Overlay(old, new) == new \o SubSeq(old, Len(new) + 1, Len(old))

ASSUME HandoffAssumption ==
    /\ IsFiniteSet(Procs)
    /\ NoName \notin Files
    /\ \A f \in Files : Base(f) \in Seq(STRING) /\ Base(f) # <<>>
    /\ <<>> \in ShmNames
    /\ \A n \in ShmNames, f \in Files : Overlay(n, Base(f)) \in ShmNames
    /\ \A p \in Procs : Wanted(p) \subseteq Files
    /\ {Zeros, Unsized, None} \intersect Contents = {}
    /\ Empty # Secret
    /\ ShmFails \in BOOLEAN
    /\ MaxMsgs \in Nat /\ MaxOpens \in Nat

VARIABLES
    content,    \* what each file holds
    queue1024,  \* names of opened files
    queue1025,  \* names of closed files
    events,     \* inotify's events the client has not read, oldest first
    buf,        \* events it has read and not handled
    segment,    \* shared memory by name
    hpc,        \* where each process is in open() or close()
    hfile,      \* the file it has open
    hname,      \* its SHM_NAME
    hmap,       \* the name under which its segment is reachable, <<>> if none
    opens,      \* opens so far
    cpc,        \* where the client is
    cfile,      \* open_file->file_name
    cname,      \* the client's SHM_NAME
    cval,       \* what it has read from the segment
    backup,     \* what the server holds for each file
    asked,      \* files asked for and not yet written back
    had         \* contents each file has had

hookVars == <<hpc, hfile, hname, hmap, opens>>
clientVars == <<buf, cpc, cfile, cname, cval>>
vars == <<content, queue1024, queue1025, events, buf, segment, hpc, hfile,
          hname, hmap, opens, cpc, cfile, cname, cval, backup, asked, had>>

\* The names that SHM_NAME may spell when it has been set for a file.
Spelled(f) == {Overlay(n, Base(f)) : n \in ShmNames}

Init ==
    /\ content = [f \in Files |-> Original(f)]
    /\ queue1024 = <<>> /\ queue1025 = <<>>
    /\ events = <<>> /\ buf = <<>>
    /\ segment = [n \in ShmNames |-> None]
    /\ hpc = [p \in Procs |-> "idle"]
    /\ hfile = [p \in Procs |-> NoName]
    /\ hname = [p \in Procs |-> <<>>]
    /\ hmap = [p \in Procs |-> <<>>]
    /\ opens = 0
    /\ cpc = "idle" /\ cfile = NoName /\ cname = <<>> /\ cval = None
    /\ backup = [f \in Files |-> None]
    /\ asked = {}
    /\ had = [f \in Files |-> {Original(f)}]

Event(k, f) == [kind |-> k, file |-> f]

\* inotify merges an event with the last one if that is equal and unread.
Notify(q, e) ==
    IF q # <<>> /\ q[Len(q)] = e THEN q ELSE Append(q, e)

\* The file gets new contents.
SetContent(f, v) ==
    /\ content' = [content EXCEPT ![f] = v]
    /\ had' = [had EXCEPT ![f] = @ \union {v}]

-----------------------------------------------------------------------------
(***************************************************************************)
(* open() of the hook                                                      *)
(***************************************************************************)

\* orig_open() of a watched file.
HookOpen(p, f) ==
    /\ hpc[p] = "idle"
    /\ opens < MaxOpens
    /\ f \in Wanted(p)
    /\ opens' = opens + 1
    /\ hfile' = [hfile EXCEPT ![p] = f]
    /\ hpc' = [hpc EXCEPT ![p] = "link"]
    /\ events' = Notify(events, Event("open", f))
    /\ UNCHANGED <<content, queue1024, queue1025, segment, hname, hmap,
                   clientVars, backup, asked, had>>

\* A message whose type is the size of the file: none for an empty file,
\* since msgsnd() refuses type 0, and none when the queue is full.
LinkSent(q, f) ==
    IF content[f] # Empty /\ Len(q) < MaxMsgs THEN Append(q, f) ELSE q

HookLink(p) ==
    /\ hpc[p] = "link"
    /\ queue1024' = LinkSent(queue1024, hfile[p])
    /\ hpc' = [hpc EXCEPT ![p] = "map"]
    /\ UNCHANGED <<content, queue1025, events, segment, hfile, hname, hmap,
                   opens, clientVars, backup, asked, had>>

\* shm_open() with O_CREAT: an old segment of that name is used as it is.
Created(n) == [segment EXCEPT ![n] = IF @ = None THEN Unsized ELSE @]

\* set_map() returns before it has touched the file: shm_open() has failed, or
\* sem_open() after it.
MapRefused(p) ==
    LET n == Overlay(hname[p], Base(hfile[p])) IN
    /\ ShmFails
    /\ hpc[p] = "map"
    /\ hpc' = [hpc EXCEPT ![p] = "opened"]
    /\ hname' = [hname EXCEPT ![p] = n]
    /\ segment' \in {segment, Created(n)}
    /\ UNCHANGED <<content, queue1024, queue1025, events, hfile, hmap, opens,
                   clientVars, backup, asked, had>>

OpenSegment(p) ==
    LET n == Overlay(hname[p], Base(hfile[p])) IN
    /\ hpc[p] = "map"
    /\ hname' = [hname EXCEPT ![p] = n]
    /\ hmap' = [hmap EXCEPT ![p] = n]
    /\ segment' = Created(n)
    /\ hpc' = [hpc EXCEPT ![p] = "size"]
    /\ UNCHANGED <<content, queue1024, queue1025, events, hfile, opens,
                   clientVars, backup, asked, had>>

\* ftruncate() and mmap(): a segment of size 0 gets its size, any other has it.
MapSegment(p) ==
    /\ hpc[p] = "size"
    /\ segment' = IF hmap[p] = <<>> THEN segment
                  ELSE [segment EXCEPT ![hmap[p]] =
                           IF @ = Unsized THEN Zeros ELSE @]
    /\ hpc' = [hpc EXCEPT ![p] = "copy"]
    /\ UNCHANGED <<content, queue1024, queue1025, events, hfile, hname, hmap,
                   opens, clientVars, backup, asked, had>>

\* The file is opened again and copied to the mapping, which the client may
\* have unlinked by now.  An empty file leaves the segment alone.
CopyFile(p) ==
    /\ hpc[p] = "copy"
    /\ segment' = IF hmap[p] = <<>> \/ content[hfile[p]] = Empty THEN segment
                  ELSE [segment EXCEPT ![hmap[p]] = content[hfile[p]]]
    /\ events' = Notify(events, Event("open", hfile[p]))
    /\ hpc' = [hpc EXCEPT ![p] = "truncate"]
    /\ UNCHANGED <<content, queue1024, queue1025, hfile, hname, hmap, opens,
                   clientVars, backup, asked, had>>

\* orig_open() with O_TRUNC.
TruncateFile(p) ==
    /\ hpc[p] = "truncate"
    /\ SetContent(hfile[p], Empty)
    /\ events' = Notify(events, Event("open", hfile[p]))
    /\ hpc' = [hpc EXCEPT ![p] = "secret"]
    /\ UNCHANGED <<queue1024, queue1025, segment, hfile, hname, hmap, opens,
                   clientVars, backup, asked>>

\* Fault: the name is sent once more when the copy is complete.
WriteSecret_LinkAfter(p) ==
    /\ hpc[p] = "secret"
    /\ SetContent(hfile[p], Secret)
    /\ queue1024' = IF Len(queue1024) < MaxMsgs
                    THEN Append(queue1024, hfile[p]) ELSE queue1024
    /\ events' = Notify(events, Event("close", hfile[p]))
    /\ hpc' = [hpc EXCEPT ![p] = "opened"]
    /\ hmap' = [hmap EXCEPT ![p] = <<>>]
    /\ UNCHANGED <<queue1025, segment, hfile, hname, opens, clientVars,
                   backup, asked>>

\* The secret is written and that descriptor closed; open() returns.
WriteSecret(p) ==
    /\ hpc[p] = "secret"
    /\ SetContent(hfile[p], Secret)
    /\ events' = Notify(events, Event("close", hfile[p]))
    /\ hpc' = [hpc EXCEPT ![p] = "opened"]
    /\ hmap' = [hmap EXCEPT ![p] = <<>>]
    /\ UNCHANGED <<queue1024, queue1025, segment, hfile, hname, opens,
                   clientVars, backup, asked>>

-----------------------------------------------------------------------------
\* The process writes to the file it has open.
ProcessWrites(p) ==
    /\ hpc[p] = "opened"
    /\ \E v \in News : SetContent(hfile[p], v)
    /\ UNCHANGED <<queue1024, queue1025, events, segment, hookVars,
                   clientVars, backup, asked>>

\* close(): the name goes to queue 1025 first ...
HookCloseLink(p) ==
    /\ hpc[p] = "opened"
    /\ queue1025' = LinkSent(queue1025, hfile[p])
    /\ hpc' = [hpc EXCEPT ![p] = "close"]
    /\ UNCHANGED <<content, queue1024, events, segment, hfile, hname, hmap,
                   opens, clientVars, backup, asked, had>>

\* Fault: the descriptor is left open, so inotify has nothing to report.
HookClose_NoEvent(p) ==
    /\ hpc[p] = "close"
    /\ hpc' = [hpc EXCEPT ![p] = "idle"]
    /\ hfile' = [hfile EXCEPT ![p] = NoName]
    /\ UNCHANGED <<content, queue1024, queue1025, events, segment, hname,
                   hmap, opens, clientVars, backup, asked, had>>

\* ... and orig_close() follows.
HookClose(p) ==
    /\ hpc[p] = "close"
    /\ events' = Notify(events, Event("close", hfile[p]))
    /\ hpc' = [hpc EXCEPT ![p] = "idle"]
    /\ hfile' = [hfile EXCEPT ![p] = NoName]
    /\ UNCHANGED <<content, queue1024, queue1025, segment, hname, hmap, opens,
                   clientVars, backup, asked, had>>

-----------------------------------------------------------------------------
(***************************************************************************)
(* The client                                                              *)
(***************************************************************************)

\* handle_events() reads the events there are.
ReadEvents ==
    /\ cpc = "idle"
    /\ buf = <<>>
    /\ events # <<>>
    /\ buf' = events
    /\ events' = <<>>
    /\ UNCHANGED <<content, queue1024, queue1025, segment, hookVars, cpc,
                   cfile, cname, cval, backup, asked, had>>

\* The next one starts Open_task or Close_task, whichever file it is about.
HandleEvent ==
    /\ cpc = "idle"
    /\ buf # <<>>
    /\ cpc' = Head(buf).kind
    /\ buf' = Tail(buf)
    /\ UNCHANGED <<content, queue1024, queue1025, events, segment, hookVars,
                   cfile, cname, cval, backup, asked, had>>

\* Send_img() with key 1024 finds nothing.
OpenNoMessage ==
    /\ cpc = "open"
    /\ queue1024 = <<>>
    /\ cpc' = "idle"
    /\ UNCHANGED <<content, queue1024, queue1025, events, buf, segment,
                   hookVars, cfile, cname, cval, backup, asked, had>>

\* Fault: SHM_NAME is left as it was.
OpenMessage_OldName ==
    /\ cpc = "open"
    /\ queue1024 # <<>>
    /\ cfile' = Head(queue1024)
    /\ cname' = IF cname = <<>> THEN Base(cfile') ELSE cname
    /\ queue1024' = Tail(queue1024)
    /\ cpc' = "shm"
    /\ UNCHANGED <<content, queue1025, events, buf, segment, hookVars, cval,
                   backup, asked, had>>

\* Send_img() takes a message: it is gone, whatever becomes of the file.
OpenMessage ==
    /\ cpc = "open"
    /\ queue1024 # <<>>
    /\ cfile' = Head(queue1024)
    /\ cname' = Overlay(cname, Base(cfile'))
    /\ queue1024' = Tail(queue1024)
    /\ cpc' = "shm"
    /\ UNCHANGED <<content, queue1025, events, buf, segment, hookVars, cval,
                   backup, asked, had>>

\* Get_shm() finds no segment: the task is over.
ShmMissing ==
    /\ cpc = "shm"
    /\ segment[cname] = None
    /\ cpc' = "idle"
    /\ cfile' = NoName
    /\ UNCHANGED <<content, queue1024, queue1025, events, buf, segment,
                   hookVars, cname, cval, backup, asked, had>>

\* Get_shm() finds a segment of size 0: mmap() of length 0 fails, unnoticed,
\* and reading at the address it returned ends the client.
ShmCrash ==
    /\ cpc = "shm"
    /\ segment[cname] = Unsized
    /\ cpc' = "dead"
    /\ UNCHANGED <<content, queue1024, queue1025, events, buf, segment,
                   hookVars, cfile, cname, cval, backup, asked, had>>

\* Get_shm() copies the segment into its blocks.
ShmRead ==
    /\ cpc = "shm"
    /\ segment[cname] \notin {None, Unsized}
    /\ cval' = segment[cname]
    /\ cpc' = "send"
    /\ UNCHANGED <<content, queue1024, queue1025, events, buf, segment,
                   hookVars, cfile, cname, backup, asked, had>>

\* Fault: TransFile does not look at strlen(file_contents).
SendBlocks_EmptyToo ==
    /\ cpc = "send"
    /\ backup' = [backup EXCEPT ![cfile] = cval]
    /\ segment' = [segment EXCEPT ![cname] = None]
    /\ hmap' = [p \in Procs |-> IF hmap[p] = cname THEN <<>> ELSE hmap[p]]
    /\ cpc' = "idle" /\ cfile' = NoName /\ cval' = None
    /\ UNCHANGED <<content, queue1024, queue1025, events, buf, hpc, hfile,
                   hname, opens, cname, asked, had>>

\* TransFile sends the blocks that are not empty strings, then the segment
\* is unlinked; a mapping of it is no longer reachable by name.
SendBlocks ==
    /\ cpc = "send"
    /\ backup' = IF cval = Zeros THEN backup
                 ELSE [backup EXCEPT ![cfile] = cval]
    /\ segment' = [segment EXCEPT ![cname] = None]
    /\ hmap' = [p \in Procs |-> IF hmap[p] = cname THEN <<>> ELSE hmap[p]]
    /\ cpc' = "idle" /\ cfile' = NoName /\ cval' = None
    /\ UNCHANGED <<content, queue1024, queue1025, events, buf, hpc, hfile,
                   hname, opens, cname, asked, had>>

\* Close_task: Send_img() with key 1025 and, if it found a message, a request
\* to the server.  Send_img() sets SHM_NAME here too.
CloseTask ==
    /\ cpc = "close"
    /\ IF queue1025 = <<>> THEN UNCHANGED <<queue1025, asked, cname>>
       ELSE /\ asked' = asked \union {Head(queue1025)}
            /\ cname' = Overlay(cname, Base(Head(queue1025)))
            /\ queue1025' = Tail(queue1025)
    /\ cpc' = "idle"
    /\ UNCHANGED <<content, queue1024, events, buf, segment, hookVars, cfile,
                   cval, backup, had>>

\* Recv_file() replaces the file by what the server sends, which is an empty
\* string when it has no backup.
WriteBack(f) ==
    /\ cpc # "dead"
    /\ f \in asked
    /\ SetContent(f, IF backup[f] = None THEN Empty ELSE backup[f])
    /\ asked' = asked \ {f}
    /\ events' = Notify(Notify(events, Event("open", f)), Event("close", f))
    /\ UNCHANGED <<queue1024, queue1025, segment, hookVars, clientVars,
                   backup>>

HookStep(p) ==
    \/ HookLink(p) \/ MapRefused(p) \/ OpenSegment(p) \/ MapSegment(p)
    \/ CopyFile(p) \/ TruncateFile(p) \/ WriteSecret(p) \/ HookClose(p)

ClientStep ==
    \/ ReadEvents \/ HandleEvent \/ OpenNoMessage \/ OpenMessage
    \/ ShmMissing \/ ShmCrash \/ ShmRead \/ SendBlocks \/ CloseTask

Next ==
    \/ \E p \in Procs :
          \/ \E f \in Files : HookOpen(p, f)
          \/ HookStep(p) \/ ProcessWrites(p) \/ HookCloseLink(p)
    \/ ClientStep
    \/ \E f \in Files : WriteBack(f)

Spec == Init /\ [][Next]_vars

\* A process inside the hook and the client both run.
FairSpec ==
    Spec /\ WF_vars(ClientStep) /\ \A p \in Procs : WF_vars(HookStep(p))

-----------------------------------------------------------------------------
(***************************************************************************)
(* Properties                                                              *)
(***************************************************************************)

TypeOK ==
    /\ content \in [Files -> Contents]
    /\ queue1024 \in Seq(Files) /\ queue1025 \in Seq(Files)
    /\ events \in Seq([kind : {"open", "close"}, file : Files])
    /\ buf \in Seq([kind : {"open", "close"}, file : Files])
    /\ segment \in [ShmNames -> Contents \union {Zeros, Unsized, None}]
    /\ hpc \in [Procs -> {"idle", "link", "map", "size", "copy", "truncate",
                          "secret", "opened", "close"}]
    /\ hfile \in [Procs -> Files \union {NoName}]
    /\ hname \in [Procs -> ShmNames]
    /\ hmap \in [Procs -> ShmNames]
    /\ opens \in 0 .. MaxOpens
    /\ cpc \in {"idle", "open", "shm", "send", "close", "dead"}
    /\ cfile \in Files \union {NoName}
    /\ cname \in ShmNames
    /\ cval \in Contents \union {Zeros, None}
    /\ backup \in [Files -> Contents \union {None}]
    /\ asked \in SUBSET Files
    /\ had \in [Files -> SUBSET Contents]

\* The events of kind k that have not been handled.
Pending(k) ==
    Cardinality({i \in 1 .. Len(events) : events[i].kind = k})
    + Cardinality({i \in 1 .. Len(buf) : buf[i].kind = k})
    + (IF cpc = k THEN 1 ELSE 0)

InHook(S) == {p \in Procs : hpc[p] \in S}

\* No two processes open the same file.
OwnFiles ==
    \A p, q \in Procs : p # q => Wanted(p) \intersect Wanted(q) = {}

(***************************************************************************)
(* No message is forgotten, if every process has files of its own and can  *)
(* map its segments: each message in queue 1024 is matched by an open      *)
(* event not handled yet, counting one for each process that is about to   *)
(* open its file again.                                                    *)
(* The event of a process's own open comes before the message and may be   *)
(* spent on nothing, and inotify merges events, so the messages live on    *)
(* the two opens that set_map() makes.                                     *)
(***************************************************************************)
OpenMessageCovered ==
    OwnFiles /\ ~ShmFails =>
        Len(queue1024) <=
            Pending("open")
              + Cardinality(InHook({"map", "size", "copy", "truncate"}))

(***************************************************************************)
(* The same of queue 1025, whose message is sent before the close: each    *)
(* one is matched by a close event, or by a process about to close.        *)
(***************************************************************************)
CloseMessageCovered ==
    OwnFiles =>
        Len(queue1025) <= Pending("close") + Cardinality(InHook({"close"}))

(***************************************************************************)
(* A backup is a copy of its own file: it holds contents which that file   *)
(* has had, although names and contents travel by different ways and each  *)
(* side keeps in SHM_NAME what is left of its earlier files, so that the   *)
(* two may look for one file under different names.  This needs base names *)
(* of which none is the beginning of another (or equal to it): after "/ab" *)
(* the buffer spells "/cb" for "/c", and that would be the segment of a    *)
(* file "/cb" as well.                                                     *)
(***************************************************************************)
NamesApart ==
    \A f, g \in Files : f # g => Spelled(f) \intersect Spelled(g) = {}

BackupIsOwn ==
    NamesApart => \A f \in Files : backup[f] # None => backup[f] \in had[f]

(***************************************************************************)
(* Every message of an open is received by the client, which is told of    *)
(* opens and not of messages (Send_img() with key 1024), unless the client *)
(* has died of a segment without a size.                                   *)
(***************************************************************************)
OpenMessageTaken ==
    \A n \in 1 .. MaxMsgs :
        (Len(queue1024) = n) ~> (Len(queue1024) # n \/ cpc = "dead")

(***************************************************************************)
(* The client "sends the contents of the file" (main.hpp, comment in       *)
(* Open_task), so that nothing is lost: the first contents of a file that  *)
(* nobody writes to are in the file, in its segment, with the client or on *)
(* the server.  The message is sent before the copy is made, and a second  *)
(* open makes a backup of the secret.                                      *)
(***************************************************************************)
OriginalKept ==
    \A f \in Files :
        \/ content[f] = Original(f)
        \/ \E n \in ShmNames : segment[n] = Original(f)
        \/ cfile = f /\ cval = Original(f)
        \/ backup[f] = Original(f)
=============================================================================
