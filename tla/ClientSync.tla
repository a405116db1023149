----------------------------- MODULE ClientSync -----------------------------
(***************************************************************************)
(* Mounted clients and the server they keep in step.  On each client two   *)
(* threads share sync_mutex: the watcher thread turns inotify events into  *)
(* Store and Delete, and the async thread compares the mount with each     *)
(* file listing the server sends and fetches, stores or removes files.     *)
(* A user works in the mount at the same time and takes no lock.  A client *)
(* may be unmounted, by a signal that ends its process wherever it is, and *)
(* mounted again by a new process.                                         *)
(*                                                                         *)
(* Store, Fetch and Delete take two steps each, the call that decides      *)
(* (lock or stat) and the transfer; module WriteLocks looks inside them.   *)
(* Here operations and listings may fail; the server does not restart.     *)
(* The handler of a call that its client has given up goes on as a stray,  *)
(* and may check, write and release under the client's next operation.     *)
(***************************************************************************)
EXTENDS Naturals, Sequences, FiniteSets

CONSTANTS
    Client,         \* mounted clients
    File,           \* file names
    Ignored,        \* those whose extension the watcher does not know
    Data,           \* non-empty contents
    Empty,          \* the content of a file of no bytes
    Stored,         \* the files the server has from the start
    Initial,        \* their contents
    Written,        \* the contents users write
    Absent,         \* there is no such file
    NoClient,       \* the empty string, which map::operator[] inserts as owner
    Deleted,        \* the files users delete
    MaxTime,        \* bound: the last second of the clock, which starts at 1
    MaxEdits,       \* bound: changes the users make
    MaxFailures,    \* bound: times that opendir or a listing fails
    MaxInterruptions,   \* bound: broken off operations, overflows and unmounts
    MaxTrouble      \* bound: failures and interruptions together

ASSUME SyncConstants ==
    /\ Ignored \subseteq File /\ Stored \subseteq File /\ Deleted \subseteq File
    /\ Empty \notin Data
    /\ Initial \subseteq Data
    /\ Written \subseteq Data \cup {Empty}
    /\ MaxTime \in Nat \ {0} /\ MaxEdits \in Nat
    /\ MaxFailures \in Nat /\ MaxInterruptions \in Nat /\ MaxTrouble \in Nat

VARIABLES
    server,     \* the server's files
    locks,      \* file_write_locks: the owner's identity, Absent if there is no entry
    local,      \* the files in each client's mount
    inotify,    \* events the kernel has queued for each client
    watcher,    \* watcher thread: events read, and whether it holds sync_mutex
    sync,       \* async thread: where it is, the listing, the files it has seen
    op,         \* the client operation the thread with sync_mutex is in
    clock,      \* seconds, as st_mtime counts them
    edits,      \* changes made by users
    failures,   \* times that opendir or a listing has failed
    interruptions,  \* broken off operations, overflows and unmounts
    strays,     \* calls nobody waits for any more, and how far their handlers are
    abandoned   \* history: files with a StoreFile or DeleteFile that was a stray

calls == <<strays, abandoned>>
world == <<clock, edits, failures, interruptions, calls>>
vars == <<server, locks, local, inotify, watcher, sync, op, world>>

-----------------------------------------------------------------------------
\* GetModifiedTime of a file that is not there; no file is that old.
Epoch == 0

\* What a transfer leaves that is broken off in the middle.
Cut(n) == [cut |-> n]

Content == Data \cup {Empty} \cup { Cut(n) : n \in 1..MaxInterruptions }
Copy == [data : Content, mtime : 1..MaxTime]
Files == [File -> Copy \cup {Absent}]

ASSUME AbsentIsNoCopy == Absent \notin Copy

\* client_id is made anew for each process, and so ends with it: the process that
\* the n-th interruption ended has this one.
Gone(n) == [gone |-> n]

Identity == Client \cup { Gone(n) : n \in 1..MaxInterruptions }
Owner == Identity \cup {Absent, NoClient}

ASSUME OwnersDiffer ==
    /\ \A n \in 1..MaxInterruptions : Gone(n) \notin Client
    /\ Absent \notin Identity /\ NoClient \notin Identity /\ NoClient # Absent

Stray ==
    [rpc : {"RequestWriteAccess", "StoreFile", "DeleteFile"},
     client : Identity, file : File,
     data : Content,                        \* what the handler will have received
     at : {"sent", "checked", "done"},      \* done: before it releases the lock
     number : 1..MaxInterruptions]

Event == [mask : {"IN_CREATE", "IN_MODIFY", "IN_DELETE"}, name : File]

WatcherThread == [batch : Seq(Event), locked : BOOLEAN]
AsyncThread ==
    [phase : {"asked", "listing", "answered", "local", "remote", "failed", "asleep", "ended",
              "unmounted"},
     list : [File -> {Epoch} \cup 1..MaxTime \cup {Absent}],
     opened : SUBSET File, seen : SUBSET File]

NoOp == [name |-> "none"]
Operation == [name : {"Store", "Put", "Delete", "Unlink", "Fetch", "Transfer"},
              file : File]

Mounted(c) == sync[c].phase # "unmounted"

Exists(files, f) == files[f] # Absent

SameData(a, b) ==
    IF a = Absent \/ b = Absent THEN a = b ELSE a.data = b.data

\* The kernel merges an event with the last one in the queue if they are equal.
Queued(q, mask, f) ==
    LET e == [mask |-> mask, name |-> f]
    IN  IF q # << >> /\ q[Len(q)] = e THEN q ELSE Append(q, e)

\* The events of a file that is opened for writing, truncated and written:
\* creating an empty one does not modify it.
Touched(q, existed, f, copy) ==
    LET created == IF existed THEN q ELSE Queued(q, "IN_CREATE", f)
    IN  IF existed \/ copy.data # Empty THEN Queued(created, "IN_MODIFY", f) ELSE created

\* A file in the directory of client c gets a content, or goes.  The kernel
\* watches the directory while it is mounted.
WriteLocal(c, f, copy) ==
    /\ local' = [local EXCEPT ![c][f] = copy]
    /\ inotify' = [inotify EXCEPT ![c] =
          IF Mounted(c) THEN Touched(@, Exists(local[c], f), f, copy) ELSE @]

RemoveLocal(c, f) ==
    /\ local' = [local EXCEPT ![c][f] = Absent]
    /\ inotify' = [inotify EXCEPT ![c] =
          IF Mounted(c) THEN Queued(@, "IN_DELETE", f) ELSE @]

Begin(c, name, f) == op' = [op EXCEPT ![c] = [name |-> name, file |-> f]]
End(c) == op' = [op EXCEPT ![c] = NoOp]

\* sync_mutex: the watcher holds it for a batch, the async thread for a listing.
Syncing(c) == sync[c].phase \in {"local", "remote", "asleep"}
MutexFree(c) == ~watcher[c].locked /\ ~Syncing(c)

-----------------------------------------------------------------------------
(* Users and time *)

UserWrite(c, f, d) ==
    /\ edits < MaxEdits
    /\ edits' = edits + 1
    /\ ~SameData(local[c][f], [data |-> d])
    /\ WriteLocal(c, f, [data |-> d, mtime |-> clock])
    /\ UNCHANGED <<server, locks, watcher, sync, op, clock, failures, interruptions, calls>>

UserDelete(c, f) ==
    /\ edits < MaxEdits
    /\ edits' = edits + 1
    /\ f \in Deleted
    /\ Exists(local[c], f)
    /\ RemoveLocal(c, f)
    /\ UNCHANGED <<server, locks, watcher, sync, op, clock, failures, interruptions, calls>>

Tick ==
    /\ clock < MaxTime
    /\ clock' = clock + 1
    /\ UNCHANGED <<server, locks, local, inotify, watcher, sync, op, edits, failures, interruptions, calls>>

-----------------------------------------------------------------------------
(* The watcher thread *)

\* read returns all queued events; sync_mutex is not held yet.
WatcherRead(c) ==
    /\ watcher[c].batch = << >>
    /\ ~watcher[c].locked
    /\ inotify[c] # << >>
    /\ watcher' = [watcher EXCEPT ![c].batch = inotify[c]]
    /\ inotify' = [inotify EXCEPT ![c] = << >>]
    /\ UNCHANGED <<server, locks, local, sync, op, world>>

WatcherLock(c) ==
    /\ watcher[c].batch # << >>
    /\ MutexFree(c)
    /\ watcher' = [watcher EXCEPT ![c].locked = TRUE]
    /\ UNCHANGED <<server, locks, local, inotify, sync, op, world>>

\* Mutant: modified files are not stored.
WatcherEvent_noModify(c) ==
    LET e == Head(watcher[c].batch)
    IN  /\ watcher[c].locked
        /\ watcher[c].batch # << >>
        /\ op[c] = NoOp
        /\ watcher' = [watcher EXCEPT ![c].batch = Tail(@)]
        /\ IF e.name \in Ignored \/ e.mask = "IN_MODIFY"
           THEN UNCHANGED op
           ELSE Begin(c, IF e.mask = "IN_CREATE" THEN "Store" ELSE "Delete", e.name)
        /\ UNCHANGED <<server, locks, local, inotify, sync, world>>

\* InotifyEventCallback: nothing for an unknown extension, else one operation.
WatcherEvent(c) ==
    LET e == Head(watcher[c].batch)
    IN  /\ watcher[c].locked
        /\ watcher[c].batch # << >>
        /\ op[c] = NoOp
        /\ watcher' = [watcher EXCEPT ![c].batch = Tail(@)]
        /\ \/ /\ e.name \in Ignored
              /\ UNCHANGED op
           \/ /\ e.name \notin Ignored
              /\ e.mask \in {"IN_CREATE", "IN_MODIFY"}
              /\ Begin(c, "Store", e.name)
           \/ /\ e.name \notin Ignored
              /\ e.mask = "IN_DELETE"
              /\ Begin(c, "Delete", e.name)
        /\ UNCHANGED <<server, locks, local, inotify, sync, world>>

WatcherUnlock(c) ==
    /\ watcher[c].locked
    /\ watcher[c].batch = << >>
    /\ op[c] = NoOp
    /\ watcher' = [watcher EXCEPT ![c].locked = FALSE]
    /\ UNCHANGED <<server, locks, local, inotify, sync, op, world>>

-----------------------------------------------------------------------------
(* The async thread *)

NoListing == [f \in File |-> Absent]
Asking == [phase |-> "asked", list |-> NoListing, opened |-> {}, seen |-> {}]

\* The server's handler opens its directory.
ProcessCallback(c) ==
    /\ sync[c].phase = "asked"
    /\ sync' = [sync EXCEPT
          ![c].phase = "listing",
          ![c].opened = { f \in File : Exists(server, f) }]
    /\ UNCHANGED <<server, locks, local, inotify, watcher, op, world>>

\* readdir returns a name, and then the file's time is read: if the file has
\* been deleted in between it is listed with the time 0.
ListFile(c, f) ==
    /\ sync[c].phase = "listing"
    /\ f \notin sync[c].seen
    /\ f \in sync[c].opened \/ Exists(server, f)
    /\ sync' = [sync EXCEPT
          ![c].seen = @ \cup {f},
          ![c].list[f] = IF Exists(server, f) THEN server[f].mtime ELSE Epoch]
    /\ UNCHANGED <<server, locks, local, inotify, watcher, op, world>>

\* readdir may miss files that came or went while it ran.
ListDone(c) ==
    /\ sync[c].phase = "listing"
    /\ \A f \in sync[c].opened \ sync[c].seen : ~Exists(server, f)
    /\ sync' = [sync EXCEPT ![c].phase = "answered", ![c].opened = {}, ![c].seen = {}]
    /\ UNCHANGED <<server, locks, local, inotify, watcher, op, world>>

Failure ==
    /\ failures < MaxFailures
    /\ failures + interruptions < MaxTrouble
    /\ failures' = failures + 1

\* When the server cannot open its directory, it answers with a listing of no files.
ProcessCallbackFails(c) ==
    /\ Failure
    /\ sync[c].phase = "asked"
    /\ sync' = [sync EXCEPT ![c].phase = "answered"]
    /\ UNCHANGED <<server, locks, local, inotify, watcher, op, clock, edits, interruptions, calls>>

\* The call for a listing fails, and the client gets another status than OK.
ListingFails(c) ==
    /\ Failure
    /\ sync[c].phase \in {"asked", "listing"}
    /\ sync' = [sync EXCEPT ![c] = [Asking EXCEPT !.phase = "failed"]]
    /\ UNCHANGED <<server, locks, local, inotify, watcher, op, clock, edits, interruptions, calls>>

\* The async thread then sleeps DFS_RESET_TIMEOUT, with sync_mutex locked.
HandleFailure(c) ==
    /\ sync[c].phase = "failed"
    /\ MutexFree(c)
    /\ sync' = [sync EXCEPT ![c].phase = "asleep"]
    /\ UNCHANGED <<server, locks, local, inotify, watcher, op, world>>

\* Mutant: the async thread does not take sync_mutex.
HandleCallbackList_unguarded(c) ==
    /\ sync[c].phase = "answered"
    /\ sync' = [sync EXCEPT
          ![c].phase = "local",
          ![c].opened = { f \in File : Exists(local[c], f) }]
    /\ UNCHANGED <<server, locks, local, inotify, watcher, op, world>>

\* The completion queue delivers the answer; take sync_mutex and open the mount.
HandleCallbackList(c) ==
    /\ sync[c].phase = "answered"
    /\ MutexFree(c)
    /\ sync' = [sync EXCEPT
          ![c].phase = "local",
          ![c].opened = { f \in File : Exists(local[c], f) }]
    /\ UNCHANGED <<server, locks, local, inotify, watcher, op, world>>

\* opendir fails: the handler returns, and with it the async thread ends.
HandleCallbackListFails(c) ==
    /\ Failure
    /\ sync[c].phase = "answered"
    /\ MutexFree(c)
    /\ sync' = [sync EXCEPT ![c].phase = "ended"]
    /\ UNCHANGED <<server, locks, local, inotify, watcher, op, clock, edits, interruptions, calls>>

\* Mutant: on equal times the client's side wins.
VisitLocal_localWins(c, f) ==
    LET theirs == sync[c].list[f]
        ours == local[c][f]
    IN  /\ sync[c].phase = "local"
        /\ op[c] = NoOp
        /\ f \notin sync[c].seen
        /\ f \in sync[c].opened \/ ours # Absent
        /\ sync' = [sync EXCEPT ![c].seen = @ \cup {f}]
        /\ IF ours # Absent /\ theirs = Absent
           THEN RemoveLocal(c, f) /\ UNCHANGED op
           ELSE /\ UNCHANGED <<local, inotify>>
                /\ IF ours = Absent THEN UNCHANGED op
                   ELSE Begin(c, IF theirs > ours.mtime THEN "Fetch" ELSE "Store", f)
        /\ UNCHANGED <<server, locks, watcher, world>>

\* readdir returns a file of the mount.  The newer side of a file both have
\* wins, the server's on equal times; a file the listing lacks is removed; one
\* that has gone by now counts as seen and is passed over.
VisitLocal(c, f) ==
    LET theirs == sync[c].list[f]
        ours == local[c][f]
    IN  /\ sync[c].phase = "local"
        /\ op[c] = NoOp
        /\ f \notin sync[c].seen
        /\ f \in sync[c].opened \/ ours # Absent
        /\ sync' = [sync EXCEPT ![c].seen = @ \cup {f}]
        /\ \/ /\ ours # Absent /\ theirs # Absent
              /\ theirs >= ours.mtime
              /\ Begin(c, "Fetch", f)
              /\ UNCHANGED <<local, inotify>>
           \/ /\ ours # Absent /\ theirs # Absent
              /\ theirs < ours.mtime
              /\ Begin(c, "Store", f)
              /\ UNCHANGED <<local, inotify>>
           \/ /\ ours # Absent /\ theirs = Absent
              /\ RemoveLocal(c, f)
              /\ UNCHANGED op
           \/ /\ ours = Absent
              /\ UNCHANGED <<local, inotify, op>>
        /\ UNCHANGED <<server, locks, watcher, world>>

\* readdir is at its end; it may miss files that came or went meanwhile.
LocalDone(c) ==
    /\ sync[c].phase = "local"
    /\ op[c] = NoOp
    /\ \A f \in sync[c].opened \ sync[c].seen : ~Exists(local[c], f)
    /\ sync' = [sync EXCEPT ![c].phase = "remote"]
    /\ UNCHANGED <<server, locks, local, inotify, watcher, op, world>>

\* Fetch what is listed and was not seen in the mount.
VisitRemote(c, f) ==
    /\ sync[c].phase = "remote"
    /\ op[c] = NoOp
    /\ f \notin sync[c].seen
    /\ sync[c].list[f] # Absent
    /\ sync' = [sync EXCEPT ![c].seen = @ \cup {f}]
    /\ Begin(c, "Fetch", f)
    /\ UNCHANGED <<server, locks, local, inotify, watcher, world>>

\* Mutant: the listing is handled again.
InitCallbackList_again(c) ==
    /\ \/ /\ sync[c].phase = "remote"
          /\ op[c] = NoOp
          /\ \A f \in File \ sync[c].seen : sync[c].list[f] = Absent
       \/ sync[c].phase = "asleep"
    /\ sync' = [sync EXCEPT ![c].phase = "answered", ![c].opened = {}, ![c].seen = {}]
    /\ UNCHANGED <<server, locks, local, inotify, watcher, op, world>>

\* Release sync_mutex and ask for the next listing.
InitCallbackList(c) ==
    /\ \/ /\ sync[c].phase = "remote"
          /\ op[c] = NoOp
          /\ \A f \in File \ sync[c].seen : sync[c].list[f] = Absent
       \/ sync[c].phase = "asleep"
    /\ sync' = [sync EXCEPT ![c] = Asking]
    /\ UNCHANGED <<server, locks, local, inotify, watcher, op, world>>

-----------------------------------------------------------------------------
(* The operations, called by the thread that holds sync_mutex *)

\* Mutant: a client that already has the lock is refused too.
RequestWriteAccess_once(c) ==
    LET f == op[c].file
    IN  /\ op[c].name \in {"Store", "Delete"}
        /\ IF locks[f] = Absent
           THEN /\ locks' = [locks EXCEPT ![f] = c]
                /\ Begin(c, IF op[c].name = "Store" THEN "Put" ELSE "Unlink", f)
           ELSE End(c) /\ UNCHANGED locks
        /\ UNCHANGED <<server, local, inotify, watcher, sync, world>>

\* Mutant: the lock is granted whoever has it.
RequestWriteAccess_always(c) ==
    LET f == op[c].file
    IN  /\ op[c].name \in {"Store", "Delete"}
        /\ locks' = [locks EXCEPT ![f] = c]
        /\ Begin(c, IF op[c].name = "Store" THEN "Put" ELSE "Unlink", f)
        /\ UNCHANGED <<server, local, inotify, watcher, sync, world>>

\* RequestWriteAccess, at the start of Store and Delete.
RequestWriteAccess(c) ==
    LET f == op[c].file
    IN  /\ op[c].name \in {"Store", "Delete"}
        /\ \/ /\ locks[f] \in {Absent, c}
              /\ locks' = [locks EXCEPT ![f] = c]
              /\ Begin(c, IF op[c].name = "Store" THEN "Put" ELSE "Unlink", f)
           \/ /\ locks[f] \notin {Absent, c}
              /\ End(c)
              /\ UNCHANGED locks
        /\ UNCHANGED <<server, local, inotify, watcher, sync, world>>

\* Mutant: the time of a stored file is rounded up.
StoreFile_roundedUp(c) ==
    LET f == op[c].file
        ours == local[c][f]
    IN  /\ op[c].name = "Put"
        /\ IF ours # Absent /\ ~SameData(ours, server[f]) /\ ours.data # Empty
           THEN /\ server' = [server EXCEPT ![f] = [data |-> ours.data, mtime |-> clock + 1]]
                /\ locks' = [locks EXCEPT ![f] = Absent]
           ELSE UNCHANGED <<server, locks>>
        /\ End(c)
        /\ UNCHANGED <<local, inotify, watcher, sync, world>>

\* A local file that is missing, the same as the server's or empty is not
\* stored.
ToStore(c, f) ==
    LET ours == local[c][f]
    IN  ours # Absent /\ ~SameData(ours, server[f]) /\ ours.data # Empty

\* The server has the whole file, and releases the lock.
WholeStore(c, f) ==
    /\ server' = [server EXCEPT ![f] = [data |-> local[c][f].data, mtime |-> clock]]
    /\ locks' = [locks EXCEPT ![f] = Absent]

\* The comparison file_write_locks[filename] != client_id: reading the map with
\* operator[] gives a file that has no entry the empty string as owner.
Refuse(f) == locks' = [locks EXCEPT ![f] = IF @ = Absent THEN NoClient ELSE @]

\* The lock stays with a client that does not store, and a stored file releases it.
\* A client whose lock a stray has released is refused.
StoreFile(c) ==
    LET f == op[c].file
    IN  /\ op[c].name = "Put"
        /\ \/ /\ ToStore(c, f)
              /\ locks[f] = c
              /\ WholeStore(c, f)
           \/ /\ ToStore(c, f)
              /\ locks[f] # c
              /\ Refuse(f)
              /\ UNCHANGED server
           \/ /\ ~ToStore(c, f)
              /\ UNCHANGED <<server, locks>>
        /\ End(c)
        /\ UNCHANGED <<local, inotify, watcher, sync, world>>

\* A file the server does not have is not deleted, and the lock stays.
DeleteFile(c) ==
    LET f == op[c].file
    IN  /\ op[c].name = "Unlink"
        /\ \/ /\ locks[f] = c
              /\ Exists(server, f)
              /\ server' = [server EXCEPT ![f] = Absent]
              /\ locks' = [locks EXCEPT ![f] = Absent]
           \/ /\ locks[f] = c
              /\ ~Exists(server, f)
              /\ UNCHANGED <<server, locks>>
           \/ /\ locks[f] # c
              /\ Refuse(f)
              /\ UNCHANGED server
        /\ End(c)
        /\ UNCHANGED <<local, inotify, watcher, sync, world>>

\* Stat and the checksums, at the start of Fetch.
FetchStat(c) ==
    LET f == op[c].file
    IN  /\ op[c].name = "Fetch"
        /\ IF Exists(server, f) /\ ~SameData(local[c][f], server[f])
           THEN Begin(c, "Transfer", f)
           ELSE End(c)
        /\ UNCHANGED <<server, locks, local, inotify, watcher, sync, world>>

\* The transfer truncates the local file first: when the server's file has
\* gone since the stat, an empty one stays.  utime gives the copy the time of
\* the server's file, but what the stream still buffers (the whole of a small
\* file) is written after that, when the stream closes, and the time is now.
FetchFile(c) ==
    LET f == op[c].file
    IN  /\ op[c].name = "Transfer"
        /\ \/ /\ Exists(server, f)
              /\ \E t \in {server[f].mtime, clock} :
                    WriteLocal(c, f, [data |-> server[f].data, mtime |-> t])
           \/ /\ ~Exists(server, f)
              /\ WriteLocal(c, f, [data |-> Empty, mtime |-> clock])
        /\ End(c)
        /\ UNCHANGED <<server, locks, watcher, sync, world>>

-----------------------------------------------------------------------------
(* Operations that fail, and events that are lost *)

Interruption ==
    /\ interruptions < MaxInterruptions
    /\ failures + interruptions < MaxTrouble
    /\ interruptions' = interruptions + 1

\* A fetch that is broken off leaves the local file empty or short.
CutFetches(f) ==
    { [data |-> d, mtime |-> clock] : d \in
        {Empty} \cup (IF Exists(server, f) THEN {Cut(interruptions')} ELSE {}) }

\* The calls that may have been on their way when the operation of client c was
\* broken off as the n-th interruption, by the name the server knows c under.  A
\* StoreFile has sent the whole file or only some chunks of it, and an empty file
\* has none.  (When the Stat of a Store fails, the file is sent all the same.)
Sent(c, id, n) ==
    LET f == op[c].file
        Call(rpc, d) == [rpc |-> rpc, client |-> id, file |-> f, data |-> d,
                         at |-> "sent", number |-> n]
    IN  CASE op[c].name \in {"Store", "Delete"} -> { Call("RequestWriteAccess", Empty) }
          [] op[c].name = "Unlink" -> { Call("DeleteFile", Empty) }
          [] op[c].name = "Put" ->
                { Call("StoreFile", d) : d \in
                    IF Exists(local[c], f) /\ local[c][f].data # Empty
                    THEN {local[c][f].data, Cut(n)} ELSE {} }
          [] OTHER -> {}

\* The handler of the call is on its own from here.
Abandon(m, others) ==
    /\ strays' = others \cup {m}
    /\ abandoned' = IF m.rpc = "RequestWriteAccess" THEN abandoned
                    ELSE abandoned \cup {m.file}

\* A call misses its deadline or fails, and the operation returns; nobody looks
\* at its result.  Its handler may not have answered yet, or not even started.
GiveUp(c) ==
    LET f == op[c].file
    IN  /\ Interruption
        /\ op[c] # NoOp
        /\ \/ /\ op[c].name = "Fetch"
              /\ UNCHANGED <<local, inotify, calls>>
           \/ /\ \E m \in Sent(c, c, interruptions') : Abandon(m, strays)
              /\ UNCHANGED <<local, inotify>>
           \/ /\ op[c].name = "Transfer"
              /\ \E copy \in CutFetches(f) : WriteLocal(c, f, copy)
              /\ UNCHANGED calls
        /\ End(c)
        /\ UNCHANGED <<server, locks, watcher, sync, clock, edits, failures>>

\* The kernel's queue is full, and the last event is lost.  The event that says so
\* is none of those the watcher looks for.
Overflow(c) ==
    /\ Interruption
    /\ inotify[c] # << >>
    /\ inotify' = [inotify EXCEPT ![c] = SubSeq(@, 1, Len(@) - 1)]
    /\ UNCHANGED <<server, locks, local, watcher, sync, op, clock, edits, failures, calls>>

-----------------------------------------------------------------------------
(* The handlers of calls that nobody waits for *)

Ends(m) == strays' = strays \ {m}
GoesOn(m, where) == strays' = (strays \ {m}) \cup {[m EXCEPT !.at = where]}

\* A free lock is granted, or one that the client has already; the client may have
\* begun another operation, or be gone.
StrayGrant(m) ==
    /\ m.rpc = "RequestWriteAccess"
    /\ \/ /\ locks[m.file] \in {Absent, m.client}
          /\ locks' = [locks EXCEPT ![m.file] = m.client]
       \/ /\ locks[m.file] \notin {Absent, m.client}
          /\ UNCHANGED locks
    /\ Ends(m)
    /\ UNCHANGED server

\* StoreFile and DeleteFile look for the lock of their client, and refuse without it.
StrayCheck(m) ==
    /\ m.rpc # "RequestWriteAccess" /\ m.at = "sent"
    /\ \/ /\ locks[m.file] = m.client
          /\ GoesOn(m, "checked")
          /\ UNCHANGED locks
       \/ /\ locks[m.file] # m.client
          /\ Refuse(m.file)
          /\ Ends(m)
    /\ UNCHANGED server

\* The file is replaced by what the client had sent of it, whoever has written it
\* meanwhile.
StrayStore(m) ==
    /\ m.rpc = "StoreFile" /\ m.at = "checked"
    /\ server' = [server EXCEPT ![m.file] = [data |-> m.data, mtime |-> clock]]
    /\ GoesOn(m, "done")
    /\ UNCHANGED locks

\* A file that is not there is not deleted, and the lock stays.
StrayDelete(m) ==
    /\ m.rpc = "DeleteFile" /\ m.at = "checked"
    /\ server' = [server EXCEPT ![m.file] = Absent]
    /\ IF Exists(server, m.file) THEN GoesOn(m, "done") ELSE Ends(m)
    /\ UNCHANGED locks

\* The lock is released, whoever holds it by now; it stays if the stored file is
\* gone again when StoreFile looks at it.
StrayRelease(m) ==
    /\ m.at = "done"
    /\ \/ locks' = [locks EXCEPT ![m.file] = Absent]
       \/ m.rpc = "StoreFile" /\ ~Exists(server, m.file) /\ UNCHANGED locks
    /\ Ends(m)
    /\ UNCHANGED server

\* The call never reaches the server.
StrayLost(m) ==
    /\ m.at = "sent"
    /\ Ends(m)
    /\ UNCHANGED <<server, locks>>

StrayStep ==
    /\ \E m \in strays :
          StrayGrant(m) \/ StrayCheck(m) \/ StrayStore(m) \/ StrayDelete(m) \/ StrayRelease(m)
          \/ StrayLost(m)
    /\ UNCHANGED <<local, inotify, watcher, sync, op, clock, edits, failures, interruptions,
                   abandoned>>

-----------------------------------------------------------------------------
(* The process of a client *)

\* The server does not hear of the end of a process, and its client_id is never
\* used again.
Orphaned(c, id) == [f \in File |-> IF locks[f] = c THEN id ELSE locks[f]]
OrphanedStrays(c, id) ==
    { IF m.client = c THEN [m EXCEPT !.client = id] ELSE m : m \in strays }

NoEvents == [batch |-> << >>, locked |-> FALSE]

\* HandleSignal calls Unmount and then exit, which ends the threads wherever they
\* are, and the call they are waiting in.
Unmount(c) ==
    LET id == Gone(interruptions')
        f == op[c].file
    IN  /\ Mounted(c)
        /\ Interruption
        /\ locks' = Orphaned(c, id)
        /\ \/ /\ strays' = OrphanedStrays(c, id)
              /\ UNCHANGED <<local, abandoned>>
           \/ /\ \E m \in Sent(c, id, interruptions') : Abandon(m, OrphanedStrays(c, id))
              /\ UNCHANGED local
           \/ /\ op[c].name = "Transfer"
              /\ \E copy \in CutFetches(f) : local' = [local EXCEPT ![c][f] = copy]
              /\ strays' = OrphanedStrays(c, id)
              /\ UNCHANGED abandoned
        /\ inotify' = [inotify EXCEPT ![c] = << >>]
        /\ watcher' = [watcher EXCEPT ![c] = NoEvents]
        /\ sync' = [sync EXCEPT ![c] = [Asking EXCEPT !.phase = "unmounted"]]
        /\ End(c)
        /\ UNCHANGED <<server, clock, edits, failures>>

\* A new process watches the directory, starts the threads and asks for a listing.
Mount(c) ==
    /\ ~Mounted(c)
    /\ sync' = [sync EXCEPT ![c] = Asking]
    /\ UNCHANGED <<server, locks, local, inotify, watcher, op, world>>

-----------------------------------------------------------------------------
\* Every client has been mounted on the server's files and has asked once.
Init ==
    /\ server \in { s \in [File -> {Absent} \cup [data : Initial, mtime : {1}]] :
                       \A f \in File : Exists(s, f) <=> f \in Stored }
    /\ locks = [f \in File |-> Absent]
    /\ local = [c \in Client |-> server]
    /\ inotify = [c \in Client |-> << >>]
    /\ watcher = [c \in Client |-> NoEvents]
    /\ sync = [c \in Client |-> Asking]
    /\ op = [c \in Client |-> NoOp]
    /\ clock = 1
    /\ edits = 0
    /\ failures = 0
    /\ interruptions = 0
    /\ strays = {}
    /\ abandoned = {}

OperationStep(c) ==
    RequestWriteAccess(c) \/ StoreFile(c) \/ DeleteFile(c) \/ FetchStat(c) \/ FetchFile(c)

WatcherStep(c) == WatcherRead(c) \/ WatcherEvent(c) \/ WatcherUnlock(c)

ServerStep(c) == ProcessCallback(c) \/ ListDone(c) \/ \E f \in File : ListFile(c, f)

AsyncStep(c) ==
    \/ LocalDone(c) \/ InitCallbackList(c)
    \/ \E f \in File : VisitLocal(c, f) \/ VisitRemote(c, f)

UserStep ==
    \E c \in Client, f \in File : UserDelete(c, f) \/ \E d \in Written : UserWrite(c, f, d)

Next ==
    \/ UserStep
    \/ Tick
    \/ StrayStep
    \/ \E c \in Client :
          \/ OperationStep(c) \/ WatcherStep(c) \/ WatcherLock(c)
          \/ AsyncStep(c) \/ ServerStep(c)
          \/ HandleCallbackList(c) \/ HandleFailure(c)
          \/ ProcessCallbackFails(c) \/ ListingFails(c) \/ HandleCallbackListFails(c)
          \/ GiveUp(c) \/ Overflow(c) \/ Unmount(c) \/ Mount(c)

Spec == Init /\ [][Next]_vars

\* The threads and the server run, also the handlers that nobody waits for, and a thread
\* that waits for sync_mutex and again and again finds it free gets it some time.  Users
\* may stop any time, and need not mount again.
Fairness ==
    /\ WF_vars(StrayStep)
    /\ \A c \in Client :
          /\ WF_vars(OperationStep(c)) /\ WF_vars(WatcherStep(c))
          /\ WF_vars(AsyncStep(c)) /\ WF_vars(ServerStep(c))
          /\ SF_vars(WatcherLock(c)) /\ SF_vars(HandleCallbackList(c) \/ HandleFailure(c))

FairSpec == Spec /\ Fairness

-----------------------------------------------------------------------------
(* Properties *)

\* The types of the variables, and the bounds of the model.
TypeOK ==
    /\ server \in Files
    /\ locks \in [File -> Owner]
    /\ local \in [Client -> Files]
    /\ inotify \in [Client -> Seq(Event)]
    /\ watcher \in [Client -> WatcherThread]
    /\ sync \in [Client -> AsyncThread]
    /\ op \in [Client -> Operation \cup {NoOp}]
    /\ clock \in 1..MaxTime
    /\ edits \in 0..MaxEdits
    /\ failures \in 0..MaxFailures
    /\ interruptions \in 0..MaxInterruptions
    /\ strays \subseteq Stray
    /\ abandoned \subseteq File

InSync(c, f) == SameData(local[c][f], server[f])

\* Nothing about file f is on its way from client c to the server.
Settled(c, f) ==
    /\ op[c] = NoOp
    /\ \A i \in 1..Len(inotify[c]) : inotify[c][i].name # f
    /\ \A i \in 1..Len(watcher[c].batch) : watcher[c].batch[i].name # f

\* A client alone on the server that is not interrupted, and whose user writes no
\* empty file (which is never stored): whenever all events of a file have been handled,
\* the mount and the server have the same content for it, however the two threads and the
\* user have interleaved.
SettledIsInSync ==
    interruptions = 0 =>
        \A c \in Client, f \in File \ Ignored : Settled(c, f) => InSync(c, f)

\* sync_mutex works: the watcher's operations and the async thread's never mix,
\* so each operation belongs to one thread and finds its lock taken.
OneThreadSyncs ==
    \A c \in Client :
        /\ ~(watcher[c].locked /\ Syncing(c))
        /\ op[c] # NoOp => watcher[c].locked \/ Syncing(c)

\* One writer per file, as the clients see it: between the grant and the end of the
\* transfer no other client stores or deletes the same file, as long as no StoreFile or
\* DeleteFile for it has been given up.  A RequestWriteAccess that is given up and
\* granted late does no harm, nor do lost events and clients that end elsewhere.
OneStorer ==
    \A c, d \in Client :
        (/\ op[c].name \in {"Put", "Unlink"} /\ op[d].name \in {"Put", "Unlink"}
         /\ op[c].file = op[d].file /\ op[c].file \notin abandoned) => c = d

\* After the last change the users make, also to a directory that is not mounted,
\* mounts and server agree for good, also when operations have failed, their handlers
\* have gone on and events were lost.  The exceptions: a lock no client can take, that of
\* a process that ended or the ownerless one of a call that was refused after its lock
\* had been released, and an empty local file that a fetch has left, which is newer than
\* the server's and never stored.
Converges ==
    \A c \in Client, f \in File \ Ignored :
        <>[](\/ InSync(c, f) \/ ~Mounted(c)
             \/ locks[f] \notin Client \cup {Absent}
             \/ interruptions > 0 /\ Exists(local[c], f) /\ local[c][f].data = Empty)

\* Clients do not overwrite each other's files for ever: once the users stop,
\* the server's files stop changing.
UpdatesStop == <>[][UNCHANGED server]_server

\* How far the call of client c for a listing is.
Exchange(c) ==
    CASE sync[c].phase \in {"asked", "listing"} -> "asked"
      [] sync[c].phase = "answered" -> "listed"
      [] sync[c].phase \in {"local", "remote", "ended"} -> "answered"
      [] sync[c].phase \in {"failed", "asleep", "unmounted"} -> "none"

Exchanges == INSTANCE ListingSpec WITH exchange <- [c \in Client |-> Exchange(c)]

\* The client's side of the exchange that CallbackService implements: each listing is
\* handled once, and was taken after the one before it had been handled.  The async
\* thread gets to it, however long the watcher holds sync_mutex.
ImplementsListings == Exchanges!FairSpec

\* docs/part2.md:17, "Deletion requests should come from a client [...] if Client1
\* deletes a file locally": a file goes from the server only if a user deletes it.
OnlyUsersDelete ==
    [][\A f \in File \ Deleted : Exists(server, f) => Exists(server', f)]_server

\* docs/part2.md:17, on a file that Client1 deletes: the server should "then notify
\* all clients that the file has been deleted".  While users only delete, files go
\* and none comes back.
OnlyUsersCreate ==
    [][Written = {} => \A f \in File : Exists(server', f) => Exists(server, f)]_server
=============================================================================
