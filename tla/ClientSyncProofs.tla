-------------------------- MODULE ClientSyncProofs --------------------------
(***************************************************************************)
(* Theorems about ClientSync, for any number of clients and files, any     *)
(* contents, and any bounds on time, changes, failures and interruptions.  *)
(*                                                                         *)
(* OneStorer rests on the lock table: who is past the grant is the owner   *)
(* (Held), unless a handler that nobody waits for may have released the    *)
(* lock, and those are of files that the history names (LateWriters).      *)
(* OneThreadSyncs is inductive with one addition: a thread that sleeps     *)
(* after a failed listing is in no operation (Exclusive), since it wakes   *)
(* up and releases sync_mutex without looking.                             *)
(* ListingsAreExchanges goes through the actions of the async thread.      *)
(***************************************************************************)
EXTENDS ClientSync, TLAPS

\* Between the grant and the end of the transfer, the client owns the lock.
Held ==
    \A c \in Client :
        op[c].name \in {"Put", "Unlink"} /\ op[c].file \notin abandoned => locks[op[c].file] = c

\* The handlers of given up calls that can release a lock.
LateWriters ==
    \A m \in strays :
        m.file \in abandoned \/ (m.rpc = "RequestWriteAccess" /\ m.at = "sent")

Holding == Held /\ LateWriters

\* The threads of one client, and what OneThreadSyncs needs to be inductive.
Exclusive(c) ==
    /\ ~(watcher[c].locked /\ Syncing(c))
    /\ op[c] # NoOp => watcher[c].locked \/ Syncing(c)
    /\ sync[c].phase = "asleep" => op[c] = NoOp

Mutex == \A c \in Client : Exclusive(c)

-----------------------------------------------------------------------------
(* Types *)

\* The kernel's queue stays a queue of events.
LEMMA QueuedType ==
    ASSUME NEW q \in Seq(Event), NEW mask \in {"IN_CREATE", "IN_MODIFY", "IN_DELETE"},
           NEW f \in File
    PROVE  Queued(q, mask, f) \in Seq(Event)
<1>1. [mask |-> mask, name |-> f] \in Event
  BY DEF Event
<1> QED
  BY <1>1 DEF Queued

\* ... also after the events of a file that is written.
LEMMA TouchedType ==
    ASSUME NEW q \in Seq(Event), NEW existed \in BOOLEAN, NEW f \in File, NEW copy
    PROVE  Touched(q, existed, f, copy) \in Seq(Event)
<1> DEFINE created == IF existed THEN q ELSE Queued(q, "IN_CREATE", f)
<1>1. created \in Seq(Event)
  BY QueuedType
<1>2. Queued(created, "IN_MODIFY", f) \in Seq(Event)
  BY <1>1, QueuedType
<1> QED
  BY <1>1, <1>2 DEF Touched

\* A file of the mount is written, by a user or by Fetch.
LEMMA WriteLocalType ==
    ASSUME TypeOK, NEW c \in Client, NEW f \in File, NEW copy \in Copy,
           WriteLocal(c, f, copy)
    PROVE  local' \in [Client -> Files] /\ inotify' \in [Client -> Seq(Event)]
<1>1. local' \in [Client -> Files]
  BY DEF TypeOK, WriteLocal, Files
<1>2. Touched(inotify[c], Exists(local[c], f), f, copy) \in Seq(Event)
  BY TouchedType DEF TypeOK, Exists
<1>3. inotify' = [inotify EXCEPT ![c] =
         IF Mounted(c) THEN Touched(inotify[c], Exists(local[c], f), f, copy) ELSE inotify[c]]
  BY DEF WriteLocal, TypeOK
<1>4. inotify' \in [Client -> Seq(Event)]
  BY <1>2, <1>3 DEF TypeOK
<1> QED
  BY <1>1, <1>4

\* A file of the mount is removed, by a user or by HandleCallbackList.
LEMMA RemoveLocalType ==
    ASSUME TypeOK, NEW c \in Client, NEW f \in File, RemoveLocal(c, f)
    PROVE  local' \in [Client -> Files] /\ inotify' \in [Client -> Seq(Event)]
<1>1. local' \in [Client -> Files]
  BY DEF TypeOK, RemoveLocal, Files
<1>2. Queued(inotify[c], "IN_DELETE", f) \in Seq(Event)
  BY QueuedType DEF TypeOK
<1>3. inotify' = [inotify EXCEPT ![c] =
         IF Mounted(c) THEN Queued(inotify[c], "IN_DELETE", f) ELSE inotify[c]]
  BY DEF RemoveLocal, TypeOK
<1>4. inotify' \in [Client -> Seq(Event)]
  BY <1>2, <1>3 DEF TypeOK
<1> QED
  BY <1>1, <1>4

\* A thread calls an operation or goes on to its second half.
LEMMA BeginType ==
    ASSUME TypeOK, NEW c \in Client, NEW f \in File,
           NEW name \in {"Store", "Put", "Delete", "Unlink", "Fetch", "Transfer"},
           Begin(c, name, f)
    PROVE  op' \in [Client -> Operation \cup {NoOp}]
BY DEF TypeOK, Begin, Operation

\* An operation returns.
LEMMA EndType ==
    ASSUME TypeOK, NEW c \in Client, End(c)
    PROVE  op' \in [Client -> Operation \cup {NoOp}]
BY DEF TypeOK, End

\* Of a thread that is in an operation, the file of the operation.
LEMMA OperationFile ==
    ASSUME TypeOK, NEW c \in Client, op[c].name # "none"
    PROVE  op[c] \in Operation /\ op[c].file \in File
BY DEF TypeOK, Operation, NoOp

\* The variables start with their types.
LEMMA InitType == Init => TypeOK
<1> SUFFICES ASSUME Init PROVE TypeOK
  OBVIOUS
<1>1. server \in Files
  BY SyncConstants DEF Init, Files, Copy, Content
<1>2. sync \in [Client -> AsyncThread]
  BY DEF Init, Asking, NoListing, AsyncThread
<1>3. watcher \in [Client -> WatcherThread]
  BY DEF Init, NoEvents, WatcherThread
<1>4. inotify \in [Client -> Seq(Event)]
  BY DEF Init
<1> QED
  BY <1>1, <1>2, <1>3, <1>4, SyncConstants DEF Init, TypeOK, Owner

\* Users and the clock.
LEMMA UserType ==
    ASSUME TypeOK, UserStep \/ Tick
    PROVE  TypeOK'
<1>1. ASSUME NEW c \in Client, NEW f \in File, UserDelete(c, f) PROVE TypeOK'
  <2>1. local' \in [Client -> Files] /\ inotify' \in [Client -> Seq(Event)]
    BY <1>1, RemoveLocalType DEF UserDelete
  <2> QED
    BY <1>1, <2>1, SyncConstants DEF UserDelete, TypeOK, calls
<1>2. ASSUME NEW c \in Client, NEW f \in File, NEW d \in Written, UserWrite(c, f, d)
      PROVE TypeOK'
  <2>1. [data |-> d, mtime |-> clock] \in Copy
    BY SyncConstants DEF TypeOK, Copy, Content
  <2>2. local' \in [Client -> Files] /\ inotify' \in [Client -> Seq(Event)]
    BY <1>2, <2>1, WriteLocalType DEF UserWrite
  <2> QED
    BY <1>2, <2>2, SyncConstants DEF UserWrite, TypeOK, calls
<1>3. CASE Tick
  BY <1>3, SyncConstants DEF Tick, TypeOK, calls
<1> QED
  BY <1>1, <1>2, <1>3 DEF UserStep

\* The watcher thread.
LEMMA WatcherType ==
    ASSUME TypeOK, NEW c \in Client, WatcherStep(c) \/ WatcherLock(c)
    PROVE  TypeOK'
<1>1. CASE WatcherRead(c)
  BY <1>1 DEF WatcherRead, TypeOK, world, calls, WatcherThread
<1>2. CASE WatcherLock(c)
  BY <1>2 DEF WatcherLock, TypeOK, world, calls, WatcherThread
<1>3. CASE WatcherUnlock(c)
  BY <1>3 DEF WatcherUnlock, TypeOK, world, calls, WatcherThread
<1>4. CASE WatcherEvent(c)
  <2>1. Head(watcher[c].batch) \in Event /\ Tail(watcher[c].batch) \in Seq(Event)
    BY <1>4 DEF WatcherEvent, TypeOK, WatcherThread
  <2>2. Head(watcher[c].batch).name \in File
    BY <2>1 DEF Event
  <2>3. op' \in [Client -> Operation \cup {NoOp}]
    BY <1>4, <2>2, BeginType DEF WatcherEvent, TypeOK
  <2>4. watcher' \in [Client -> WatcherThread]
    BY <1>4, <2>1 DEF WatcherEvent, TypeOK, WatcherThread
  <2> QED
    BY <1>4, <2>3, <2>4 DEF WatcherEvent, TypeOK, world, calls
<1> QED
  BY <1>1, <1>2, <1>3, <1>4 DEF WatcherStep

\* The async thread of one client changes.
LEMMA ThreadType ==
    ASSUME TypeOK, NEW c \in Client, NEW m \in AsyncThread,
           sync' = [sync EXCEPT ![c] = m]
    PROVE  sync' \in [Client -> AsyncThread]
BY DEF TypeOK

\* The server's side of a listing, and the listings that fail.
LEMMA ListingType ==
    ASSUME TypeOK, NEW c \in Client,
           \/ ServerStep(c) \/ ProcessCallbackFails(c) \/ ListingFails(c)
           \/ HandleFailure(c) \/ HandleCallbackList(c) \/ HandleCallbackListFails(c)
    PROVE  TypeOK'
<1>0. sync[c] \in AsyncThread
  BY DEF TypeOK
<1>1. CASE ProcessCallback(c)
  <2> DEFINE m == [sync[c] EXCEPT !.phase = "listing", !.opened = { f \in File : Exists(server, f) }]
  <2>1. m \in AsyncThread
    BY <1>0 DEF AsyncThread
  <2>2. sync' = [sync EXCEPT ![c] = m]
    BY <1>1 DEF ProcessCallback, TypeOK
  <2> QED
    BY <1>1, <2>1, <2>2, ThreadType DEF ProcessCallback, TypeOK, world, calls
<1>2. ASSUME NEW f \in File, ListFile(c, f) PROVE TypeOK'
  <2> DEFINE time == IF Exists(server, f) THEN server[f].mtime ELSE Epoch
             m == [sync[c] EXCEPT !.seen = @ \cup {f}, !.list = [@ EXCEPT ![f] = time]]
  <2>1. time \in {Epoch} \cup 1..MaxTime \cup {Absent}
    BY DEF TypeOK, Files, Copy, Exists
  <2>2. m \in AsyncThread
    BY <1>0, <2>1 DEF AsyncThread
  <2>3. sync' = [sync EXCEPT ![c] = m]
    BY <1>2 DEF ListFile, TypeOK
  <2> QED
    BY <1>2, <2>2, <2>3, ThreadType DEF ListFile, TypeOK, world, calls
<1>3. CASE ListDone(c)
  <2> DEFINE m == [sync[c] EXCEPT !.phase = "answered", !.opened = {}, !.seen = {}]
  <2>1. m \in AsyncThread
    BY <1>0 DEF AsyncThread
  <2>2. sync' = [sync EXCEPT ![c] = m]
    BY <1>3 DEF ListDone, TypeOK
  <2> QED
    BY <1>3, <2>1, <2>2, ThreadType DEF ListDone, TypeOK, world, calls
<1>4. CASE ProcessCallbackFails(c)
  <2> DEFINE m == [sync[c] EXCEPT !.phase = "answered"]
  <2>1. m \in AsyncThread
    BY <1>0 DEF AsyncThread
  <2>2. sync' = [sync EXCEPT ![c] = m]
    BY <1>4 DEF ProcessCallbackFails, TypeOK
  <2> QED
    BY <1>4, <2>1, <2>2, ThreadType, SyncConstants DEF ProcessCallbackFails, TypeOK, Failure, calls
<1>5. CASE ListingFails(c)
  <2> DEFINE m == [Asking EXCEPT !.phase = "failed"]
  <2>1. Asking \in AsyncThread
    BY DEF Asking, NoListing, AsyncThread
  <2>2. m \in AsyncThread
    BY <2>1 DEF AsyncThread
  <2>3. sync' = [sync EXCEPT ![c] = m]
    BY <1>5 DEF ListingFails
  <2> QED
    BY <1>5, <2>2, <2>3, ThreadType, SyncConstants DEF ListingFails, TypeOK, Failure, calls
<1>6. CASE HandleFailure(c)
  <2> DEFINE m == [sync[c] EXCEPT !.phase = "asleep"]
  <2>1. m \in AsyncThread
    BY <1>0 DEF AsyncThread
  <2>2. sync' = [sync EXCEPT ![c] = m]
    BY <1>6 DEF HandleFailure, TypeOK
  <2> QED
    BY <1>6, <2>1, <2>2, ThreadType DEF HandleFailure, TypeOK, world, calls
<1>7. CASE HandleCallbackList(c)
  <2> DEFINE m == [sync[c] EXCEPT !.phase = "local", !.opened = { f \in File : Exists(local[c], f) }]
  <2>1. m \in AsyncThread
    BY <1>0 DEF AsyncThread
  <2>2. sync' = [sync EXCEPT ![c] = m]
    BY <1>7 DEF HandleCallbackList, TypeOK
  <2> QED
    BY <1>7, <2>1, <2>2, ThreadType DEF HandleCallbackList, TypeOK, world, calls
<1>8. CASE HandleCallbackListFails(c)
  <2> DEFINE m == [sync[c] EXCEPT !.phase = "ended"]
  <2>1. m \in AsyncThread
    BY <1>0 DEF AsyncThread
  <2>2. sync' = [sync EXCEPT ![c] = m]
    BY <1>8 DEF HandleCallbackListFails, TypeOK
  <2> QED
    BY <1>8, <2>1, <2>2, ThreadType, SyncConstants DEF HandleCallbackListFails, TypeOK, Failure, calls
<1> QED
  BY <1>1, <1>2, <1>3, <1>4, <1>5, <1>6, <1>7, <1>8 DEF ServerStep

\* The async thread goes on to the next file.
LEMMA SeenType ==
    ASSUME TypeOK, NEW c \in Client, NEW f \in File,
           sync' = [sync EXCEPT ![c].seen = @ \cup {f}]
    PROVE  sync' \in [Client -> AsyncThread]
<1> DEFINE m == [sync[c] EXCEPT !.seen = @ \cup {f}]
<1>0. sync[c] \in AsyncThread
  BY DEF TypeOK
<1>1. m \in AsyncThread
  BY <1>0 DEF AsyncThread
<1>2. sync' = [sync EXCEPT ![c] = m]
  BY DEF TypeOK
<1> QED
  BY <1>1, <1>2, ThreadType

\* The async thread inside sync_mutex.
LEMMA AsyncType ==
    ASSUME TypeOK, NEW c \in Client, AsyncStep(c)
    PROVE  TypeOK'
<1>1. CASE LocalDone(c)
  <2> DEFINE m == [sync[c] EXCEPT !.phase = "remote"]
  <2>0. sync[c] \in AsyncThread
    BY DEF TypeOK
  <2>1. m \in AsyncThread
    BY <2>0 DEF AsyncThread
  <2>2. sync' = [sync EXCEPT ![c] = m]
    BY <1>1 DEF LocalDone, TypeOK
  <2>3. sync' \in [Client -> AsyncThread]
    BY <2>1, <2>2, ThreadType
  <2> QED
    BY <1>1, <2>3 DEF LocalDone, TypeOK, world, calls
<1>2. CASE InitCallbackList(c)
  <2>1. Asking \in AsyncThread
    BY DEF Asking, NoListing, AsyncThread
  <2>2. sync' = [sync EXCEPT ![c] = Asking]
    BY <1>2 DEF InitCallbackList
  <2>3. sync' \in [Client -> AsyncThread]
    BY <2>1, <2>2, ThreadType
  <2> QED
    BY <1>2, <2>3 DEF InitCallbackList, TypeOK, world, calls
<1>3. ASSUME NEW f \in File, VisitLocal(c, f) PROVE TypeOK'
  <2>1. sync' \in [Client -> AsyncThread]
    BY <1>3, SeenType DEF VisitLocal
  <2>2. op' \in [Client -> Operation \cup {NoOp}]
    BY <1>3, BeginType DEF VisitLocal, TypeOK
  <2>3. local' \in [Client -> Files] /\ inotify' \in [Client -> Seq(Event)]
    BY <1>3, RemoveLocalType DEF VisitLocal, TypeOK
  <2> QED
    BY <1>3, <2>1, <2>2, <2>3 DEF VisitLocal, TypeOK, world, calls
<1>4. ASSUME NEW f \in File, VisitRemote(c, f) PROVE TypeOK'
  <2>1. sync' \in [Client -> AsyncThread]
    BY <1>4, SeenType DEF VisitRemote
  <2>2. op' \in [Client -> Operation \cup {NoOp}]
    BY <1>4, BeginType DEF VisitRemote
  <2> QED
    BY <1>4, <2>1, <2>2 DEF VisitRemote, TypeOK, world, calls
<1> QED
  BY <1>1, <1>2, <1>3, <1>4 DEF AsyncStep

\* The lock of a call that is refused has an owner still, or none in particular.
LEMMA RefuseType ==
    ASSUME TypeOK, NEW f \in File, Refuse(f)
    PROVE  locks' \in [File -> Owner]
BY DEF TypeOK, Refuse, Owner

\* The operations; what they write has the time of the server or of the clock.
LEMMA OperationType ==
    ASSUME TypeOK, NEW c \in Client, OperationStep(c)
    PROVE  TypeOK'
<1> DEFINE f == op[c].file
<1>0. op[c].name # "none" => f \in File
  BY OperationFile
<1>1. CASE RequestWriteAccess(c)
  <2>1. f \in File
    BY <1>0, <1>1 DEF RequestWriteAccess
  <2>2. op' \in [Client -> Operation \cup {NoOp}]
    BY <1>1, <2>1, BeginType, EndType DEF RequestWriteAccess
  <2>3. locks' \in [File -> Owner]
    BY <1>1, <2>1 DEF RequestWriteAccess, TypeOK, Owner, Identity
  <2> QED
    BY <1>1, <2>2, <2>3 DEF RequestWriteAccess, TypeOK, world, calls
<1>2. CASE StoreFile(c)
  <2>1. f \in File
    BY <1>0, <1>2 DEF StoreFile
  <2>2. ASSUME local[c][f] # Absent
        PROVE  [data |-> local[c][f].data, mtime |-> clock] \in Copy
    BY <2>1, <2>2 DEF TypeOK, Files, Copy
  <2>3. server' \in Files /\ locks' \in [File -> Owner]
    <3>1. CASE ToStore(c, f) /\ WholeStore(c, f)
      <4>1. local[c][f] # Absent
        BY <3>1 DEF ToStore
      <4> DEFINE copy == [data |-> local[c][f].data, mtime |-> clock]
      <4>2. server' = [server EXCEPT ![f] = copy] /\ locks' = [locks EXCEPT ![f] = Absent]
        BY <3>1 DEF WholeStore
      <4>3. copy \in Copy
        BY <2>2, <4>1
      <4> HIDE DEF copy, f
      <4> QED
        BY <4>2, <4>3 DEF TypeOK, Files, Owner
    <3>2. CASE Refuse(f) /\ UNCHANGED server
      BY <2>1, <3>2, RefuseType DEF TypeOK
    <3>3. CASE UNCHANGED <<server, locks>>
      BY <3>3 DEF TypeOK
    <3> QED
      BY <1>2, <3>1, <3>2, <3>3 DEF StoreFile
  <2>4. op' \in [Client -> Operation \cup {NoOp}]
    BY <1>2, EndType DEF StoreFile
  <2> QED
    BY <1>2, <2>3, <2>4 DEF StoreFile, TypeOK, world, calls
<1>3. CASE DeleteFile(c)
  <2>1. server' \in Files /\ locks' \in [File -> Owner]
    <3>1. f \in File
      BY <1>0, <1>3 DEF DeleteFile
    <3>2. locks' \in [File -> Owner]
      BY <1>3, <3>1, RefuseType DEF DeleteFile, TypeOK, Owner
    <3>3. server' \in Files
      BY <1>3 DEF DeleteFile, TypeOK, Files
    <3> QED
      BY <3>2, <3>3
  <2>2. op' \in [Client -> Operation \cup {NoOp}]
    BY <1>3, EndType DEF DeleteFile
  <2> QED
    BY <1>3, <2>1, <2>2 DEF DeleteFile, TypeOK, world, calls
<1>4. CASE FetchStat(c)
  <2>1. f \in File
    BY <1>0, <1>4 DEF FetchStat
  <2>2. op' \in [Client -> Operation \cup {NoOp}]
    BY <1>4, <2>1, BeginType, EndType DEF FetchStat
  <2> QED
    BY <1>4, <2>2 DEF FetchStat, TypeOK, world, calls
<1>5. CASE FetchFile(c)
  <2>1. f \in File
    BY <1>0, <1>5 DEF FetchFile
  <2>2. PICK copy \in Copy : WriteLocal(c, f, copy)
    <3>1. CASE Exists(server, f)
      <4>1. server[f] \in Copy
        BY <2>1, <3>1 DEF TypeOK, Files, Exists
      <4>2. \A t \in {server[f].mtime, clock} : [data |-> server[f].data, mtime |-> t] \in Copy
        BY <4>1 DEF TypeOK, Copy
      <4> QED
        BY <1>5, <3>1, <4>2 DEF FetchFile
    <3>2. CASE ~Exists(server, f)
      <4>1. [data |-> Empty, mtime |-> clock] \in Copy
        BY DEF TypeOK, Copy, Content
      <4> QED
        BY <1>5, <3>2, <4>1 DEF FetchFile
    <3> QED
      BY <3>1, <3>2
  <2>3. local' \in [Client -> Files] /\ inotify' \in [Client -> Seq(Event)]
    BY <2>1, <2>2, WriteLocalType
  <2>4. op' \in [Client -> Operation \cup {NoOp}]
    BY <1>5, EndType DEF FetchFile
  <2> QED
    BY <1>5, <2>3, <2>4 DEF FetchFile, TypeOK, world, calls
<1> QED
  BY <1>1, <1>2, <1>3, <1>4, <1>5 DEF OperationStep

\* What is broken off leaves files with a content and a time.
LEMMA CutType ==
    ASSUME TypeOK, Interruption, NEW f \in File
    PROVE  interruptions' \in 1..MaxInterruptions /\ CutFetches(f) \subseteq Copy
<1>1. interruptions' \in 1..MaxInterruptions
  BY SyncConstants DEF Interruption, TypeOK
<1>2. \A d \in {Empty, Cut(interruptions')} : [data |-> d, mtime |-> clock] \in Copy
  BY <1>1 DEF TypeOK, Copy, Content
<1> QED
  BY <1>1, <1>2 DEF CutFetches

\* The call that was on its way was one of the client's, for a file.
LEMMA SentType ==
    ASSUME TypeOK, NEW c \in Client, NEW id \in Identity, NEW n \in 1..MaxInterruptions
    PROVE  Sent(c, id, n) \subseteq Stray
<1> DEFINE f == op[c].file
<1>1. op[c].name # "none" => f \in File
  BY OperationFile
<1>2. ASSUME f \in File, NEW rpc \in {"RequestWriteAccess", "StoreFile", "DeleteFile"},
             NEW d \in Content
      PROVE  [rpc |-> rpc, client |-> id, file |-> f, data |-> d, at |-> "sent", number |-> n]
                \in Stray
  BY <1>2 DEF Stray
<1>3. Empty \in Content /\ Cut(n) \in Content
  BY DEF Content
<1>4. ASSUME f \in File, Exists(local[c], f) PROVE local[c][f].data \in Content
  BY <1>4 DEF TypeOK, Files, Copy, Exists
<1> HIDE DEF f
<1>5. CASE op[c].name \in {"Store", "Delete", "Unlink"}
  BY <1>1, <1>2, <1>3, <1>5 DEF Sent, f
<1>6. CASE op[c].name = "Put"
  <2>1. f \in File
    BY <1>1, <1>6
  <2>2. CASE Exists(local[c], f)
    BY <1>2, <1>3, <1>4, <1>6, <2>1, <2>2 DEF Sent, f
  <2>3. CASE ~Exists(local[c], f)
    BY <1>6, <2>3 DEF Sent, f
  <2> QED
    BY <2>2, <2>3
<1> QED
  BY <1>5, <1>6 DEF Sent

\* A stray is one more of them, and so is what it has touched.
LEMMA AbandonType ==
    ASSUME TypeOK, NEW m \in Stray, NEW others \in SUBSET Stray, Abandon(m, others)
    PROVE  strays' \subseteq Stray /\ abandoned' \subseteq File
BY DEF Abandon, TypeOK, Stray

\* An operation fails.
LEMMA GiveUpType ==
    ASSUME TypeOK, NEW c \in Client, GiveUp(c)
    PROVE  TypeOK'
<1> DEFINE f == op[c].file
<1>1. op[c] \in Operation /\ f \in File
  BY DEF GiveUp, TypeOK, Operation
<1>2. Interruption
  BY DEF GiveUp
<1>3. op' \in [Client -> Operation \cup {NoOp}]
  BY EndType DEF GiveUp
<1>4. interruptions' \in 1..MaxInterruptions
  BY <1>1, <1>2, CutType
<1>5. /\ local' \in [Client -> Files] /\ inotify' \in [Client -> Seq(Event)]
      /\ strays' \subseteq Stray /\ abandoned' \subseteq File
  <2>1. CASE UNCHANGED <<local, inotify, calls>>
    BY <2>1 DEF TypeOK, calls
  <2>2. ASSUME NEW m \in Sent(c, c, interruptions'), Abandon(m, strays),
               UNCHANGED <<local, inotify>>
        PROVE  strays' \subseteq Stray /\ abandoned' \subseteq File
    <3>1. c \in Identity
      BY DEF Identity
    <3>2. m \in Stray
      BY <1>4, <3>1, SentType
    <3> QED
      BY <2>2, <3>2, AbandonType DEF TypeOK
  <2>3. ASSUME NEW copy \in CutFetches(f), WriteLocal(c, f, copy)
        PROVE  local' \in [Client -> Files] /\ inotify' \in [Client -> Seq(Event)]
    <3>1. copy \in Copy
      BY <1>1, <1>2, CutType
    <3> QED
      BY <1>1, <2>3, <3>1, WriteLocalType
  <2> QED
    BY <2>1, <2>2, <2>3 DEF GiveUp, TypeOK, calls
<1>6. interruptions' \in 0..MaxInterruptions
  BY <1>4, SyncConstants
<1> QED
  BY <1>3, <1>5, <1>6 DEF GiveUp, TypeOK

\* A handler that nobody waits for goes on.
LEMMA StrayType ==
    ASSUME TypeOK, StrayStep
    PROVE  TypeOK'
<1>1. PICK m \in Stray :
         \/ StrayGrant(m) \/ StrayCheck(m) \/ StrayStore(m) \/ StrayDelete(m)
         \/ StrayRelease(m) \/ StrayLost(m)
  BY DEF StrayStep, TypeOK
<1>2. m.file \in File /\ m.client \in Owner /\ m.data \in Content
  BY DEF Stray, Owner
<1>3. strays' \subseteq Stray
  <2>1. \A at \in {"checked", "done"} : [m EXCEPT !.at = at] \in Stray
    BY DEF Stray
  <2> QED
    BY <1>1, <2>1 DEF StrayGrant, StrayCheck, StrayStore, StrayDelete, StrayRelease, StrayLost,
                      Ends, GoesOn, TypeOK
<1>4. locks' \in [File -> Owner]
  BY <1>1, <1>2, RefuseType
     DEF StrayGrant, StrayCheck, StrayStore, StrayDelete, StrayRelease, StrayLost, TypeOK, Owner
<1>5. server' \in Files
  <2>1. [data |-> m.data, mtime |-> clock] \in Copy
    BY <1>2 DEF Copy, TypeOK
  <2> QED
    BY <1>1, <1>2, <2>1
       DEF StrayGrant, StrayCheck, StrayStore, StrayDelete, StrayRelease, StrayLost, TypeOK, Files
<1> QED
  BY <1>3, <1>4, <1>5 DEF StrayStep, TypeOK

\* An event is lost.
LEMMA OverflowType ==
    ASSUME TypeOK, NEW c \in Client, Overflow(c)
    PROVE  TypeOK'
<1>1. SubSeq(inotify[c], 1, Len(inotify[c]) - 1) \in Seq(Event)
  BY DEF TypeOK
<1>2. interruptions' \in 0..MaxInterruptions
  BY SyncConstants DEF Overflow, Interruption, TypeOK
<1> QED
  BY <1>1, <1>2 DEF Overflow, TypeOK, calls

\* The process of a client ends, and another one mounts the directory.
LEMMA MountType ==
    ASSUME TypeOK, NEW c \in Client, Unmount(c) \/ Mount(c)
    PROVE  TypeOK'
<1>0. Asking \in AsyncThread /\ [Asking EXCEPT !.phase = "unmounted"] \in AsyncThread
  BY DEF Asking, NoListing, AsyncThread
<1>1. CASE Mount(c)
  BY <1>0, <1>1, ThreadType DEF Mount, TypeOK, world, calls
<1>2. CASE Unmount(c)
  <2>1. sync' \in [Client -> AsyncThread]
    BY <1>0, <1>2, ThreadType DEF Unmount
  <2>2. op' \in [Client -> Operation \cup {NoOp}]
    BY <1>2, EndType DEF Unmount
  <2>3. inotify' \in [Client -> Seq(Event)] /\ watcher' \in [Client -> WatcherThread]
    BY <1>2 DEF Unmount, NoEvents, WatcherThread, TypeOK
  <2>4. interruptions' \in 1..MaxInterruptions
    BY <1>2, SyncConstants DEF Unmount, Interruption, TypeOK
  <2>5. op[c].name # "none" => op[c].file \in File
    BY OperationFile
  <2>6. PICK id \in Identity : id = Gone(interruptions')
    BY <2>4 DEF Identity
  <2>7. locks' \in [File -> Owner]
    BY <1>2, <2>6 DEF Unmount, Orphaned, TypeOK, Owner
  <2>8. OrphanedStrays(c, id) \subseteq Stray
    <3>1. \A m \in Stray : [m EXCEPT !.client = id] \in Stray
      BY DEF Stray
    <3> QED
      BY <3>1 DEF OrphanedStrays, TypeOK
  <2>9. /\ local' \in [Client -> Files]
        /\ strays' \subseteq Stray /\ abandoned' \subseteq File
    <3>1. CASE strays' = OrphanedStrays(c, id) /\ UNCHANGED <<local, abandoned>>
      BY <2>8, <3>1 DEF TypeOK
    <3>2. ASSUME NEW m \in Sent(c, id, interruptions'), Abandon(m, OrphanedStrays(c, id))
          PROVE  strays' \subseteq Stray /\ abandoned' \subseteq File
      <4>1. m \in Stray
        BY <2>4, SentType
      <4> QED
        BY <2>8, <3>2, <4>1, AbandonType
    <3>3. ASSUME op[c].name = "Transfer", NEW copy \in CutFetches(op[c].file),
                 local' = [local EXCEPT ![c][op[c].file] = copy]
          PROVE  local' \in [Client -> Files]
      <4>1. op[c].file \in File
        BY <2>5, <3>3
      <4>2. copy \in Copy
        BY <1>2, <4>1, CutType DEF Unmount
      <4> QED
        BY <3>3, <4>1, <4>2 DEF TypeOK, Files
    <3> QED
      BY <1>2, <2>6, <2>8, <3>1, <3>2, <3>3 DEF Unmount, TypeOK
  <2>10. interruptions' \in 0..MaxInterruptions
    BY <2>4, SyncConstants
  <2> QED
    BY <1>2, <2>1, <2>2, <2>3, <2>7, <2>9, <2>10 DEF Unmount, TypeOK
<1> QED
  BY <1>1, <1>2

\* Every variable keeps its type: files have a content and a time within the
\* bounds, locks have an owner that is a client, and each thread is somewhere.
THEOREM TypeCorrect == Spec => []TypeOK
<1>1. TypeOK /\ [Next]_vars => TypeOK'
  <2> SUFFICES ASSUME TypeOK, [Next]_vars PROVE TypeOK'
    OBVIOUS
  <2>1. CASE UserStep \/ Tick
    BY <2>1, UserType
  <2>2. ASSUME NEW c \in Client, OperationStep(c) PROVE TypeOK'
    BY <2>2, OperationType
  <2>3. ASSUME NEW c \in Client, WatcherStep(c) \/ WatcherLock(c) PROVE TypeOK'
    BY <2>3, WatcherType
  <2>4. ASSUME NEW c \in Client, AsyncStep(c) PROVE TypeOK'
    BY <2>4, AsyncType
  <2>5. ASSUME NEW c \in Client,
               \/ ServerStep(c) \/ ProcessCallbackFails(c) \/ ListingFails(c)
               \/ HandleFailure(c) \/ HandleCallbackList(c) \/ HandleCallbackListFails(c)
        PROVE  TypeOK'
    BY <2>5, ListingType
  <2>6. ASSUME NEW c \in Client, Unmount(c) \/ Mount(c) PROVE TypeOK'
    BY <2>6, MountType
  <2>7. ASSUME NEW c \in Client, GiveUp(c) PROVE TypeOK'
    BY <2>7, GiveUpType
  <2>8. ASSUME NEW c \in Client, Overflow(c) PROVE TypeOK'
    BY <2>8, OverflowType
  <2>9. CASE StrayStep
    BY <2>9, StrayType
  <2>10. CASE UNCHANGED vars
    BY <2>10 DEF vars, world, calls, TypeOK
  <2> QED
    BY <2>1, <2>2, <2>3, <2>4, <2>5, <2>6, <2>7, <2>8, <2>9, <2>10 DEF Next
<1> QED
  BY <1>1, InitType, PTL DEF Spec

-----------------------------------------------------------------------------
(* sync_mutex *)

\* A client that takes no step keeps its threads where they are.
LEMMA OthersStay ==
    ASSUME NEW c \in Client, Exclusive(c),
           sync'[c] = sync[c], watcher'[c] = watcher[c], op'[c] = op[c]
    PROVE  Exclusive(c)'
BY DEF Exclusive, Syncing

\* The watcher locks sync_mutex when it is free and unlocks it between operations.
LEMMA WatcherMutex ==
    ASSUME TypeOK, NEW c \in Client, Exclusive(c), WatcherStep(c) \/ WatcherLock(c)
    PROVE  Exclusive(c)'
<1>0. sync' = sync
  BY DEF WatcherStep, WatcherRead, WatcherEvent, WatcherUnlock, WatcherLock
<1>1. CASE WatcherRead(c)
  <2>1. watcher'[c].locked = watcher[c].locked /\ op'[c] = op[c]
    BY <1>1 DEF WatcherRead, TypeOK, WatcherThread
  <2> QED
    BY <1>0, <2>1 DEF Exclusive, Syncing
<1>2. CASE WatcherLock(c)
  <2>1. watcher'[c].locked /\ op'[c] = op[c] /\ ~Syncing(c) /\ op[c] = NoOp
    BY <1>2 DEF WatcherLock, TypeOK, WatcherThread, MutexFree, Exclusive
  <2> QED
    BY <1>0, <2>1 DEF Exclusive, Syncing
<1>3. CASE WatcherUnlock(c)
  <2>1. ~watcher'[c].locked /\ op'[c] = NoOp
    BY <1>3 DEF WatcherUnlock, TypeOK, WatcherThread
  <2> QED
    BY <1>0, <2>1 DEF Exclusive, Syncing
<1>4. CASE WatcherEvent(c)
  <2>1. watcher[c].locked /\ watcher'[c].locked
    BY <1>4 DEF WatcherEvent, TypeOK, WatcherThread
  <2> QED
    BY <1>0, <2>1 DEF Exclusive, Syncing
<1> QED
  BY <1>1, <1>2, <1>3, <1>4 DEF WatcherStep

\* The async thread holds no mutex while it waits for a listing, and takes it when it is
\* free.
LEMMA ListingMutex ==
    ASSUME TypeOK, NEW c \in Client, Exclusive(c),
           \/ ServerStep(c) \/ ProcessCallbackFails(c) \/ ListingFails(c)
           \/ HandleFailure(c) \/ HandleCallbackList(c) \/ HandleCallbackListFails(c)
    PROVE  Exclusive(c)'
<1>0. watcher' = watcher /\ op' = op
  BY DEF ServerStep, ProcessCallback, ListFile, ListDone, ProcessCallbackFails,
         ListingFails, HandleFailure, HandleCallbackList, HandleCallbackListFails
<1>1. CASE ServerStep(c) \/ ProcessCallbackFails(c) \/ ListingFails(c)
  <2>1. ~Syncing(c)
    BY <1>1 DEF ServerStep, ProcessCallback, ListFile, ListDone, ProcessCallbackFails,
                ListingFails, Syncing
  <2>2. sync'[c].phase \notin {"local", "remote", "asleep"}
    <3>1. ASSUME NEW f \in File, ListFile(c, f) PROVE sync'[c].phase = "listing"
      BY <3>1 DEF ListFile, TypeOK, AsyncThread
    <3>2. CASE ProcessCallback(c) \/ ListDone(c) \/ ProcessCallbackFails(c)
      BY <3>2 DEF ProcessCallback, ListDone, ProcessCallbackFails, TypeOK, AsyncThread
    <3>3. CASE ListingFails(c)
      BY <3>3 DEF ListingFails, TypeOK, Asking
    <3> QED
      BY <1>1, <3>1, <3>2, <3>3 DEF ServerStep
  <2> QED
    BY <1>0, <2>1, <2>2 DEF Exclusive, Syncing
<1>2. CASE HandleFailure(c) \/ HandleCallbackList(c) \/ HandleCallbackListFails(c)
  <2>1. MutexFree(c)
    BY <1>2 DEF HandleFailure, HandleCallbackList, HandleCallbackListFails
  <2>2. ~watcher[c].locked /\ op[c] = NoOp
    BY <2>1 DEF MutexFree, Exclusive
  <2> QED
    BY <1>0, <2>2 DEF Exclusive, Syncing
<1> QED
  BY <1>1, <1>2

\* The async thread begins operations while it holds sync_mutex, and releases it when none
\* is left.
LEMMA AsyncMutex ==
    ASSUME TypeOK, NEW c \in Client, Exclusive(c), AsyncStep(c)
    PROVE  Exclusive(c)'
<1>0. watcher' = watcher
  BY DEF AsyncStep, LocalDone, InitCallbackList, VisitLocal, VisitRemote
<1>1. Syncing(c)
  BY DEF AsyncStep, LocalDone, InitCallbackList, VisitLocal, VisitRemote, Syncing
<1>2. ~watcher'[c].locked
  BY <1>0, <1>1 DEF Exclusive
<1>3. CASE LocalDone(c)
  <2>1. sync'[c].phase = "remote" /\ op'[c] = NoOp
    BY <1>3 DEF LocalDone, TypeOK, AsyncThread
  <2> QED
    BY <1>2, <2>1 DEF Exclusive, Syncing
<1>4. CASE InitCallbackList(c)
  <2>1. sync'[c].phase = "asked" /\ op'[c] = NoOp
    BY <1>4 DEF InitCallbackList, TypeOK, Asking, Exclusive
  <2> QED
    BY <1>2, <2>1 DEF Exclusive, Syncing
<1>5. ASSUME NEW f \in File, VisitLocal(c, f) \/ VisitRemote(c, f) PROVE Exclusive(c)'
  <2>1. sync'[c].phase \in {"local", "remote"}
    BY <1>5 DEF VisitLocal, VisitRemote, TypeOK, AsyncThread
  <2> QED
    BY <1>2, <2>1 DEF Exclusive, Syncing
<1> QED
  BY <1>3, <1>4, <1>5 DEF AsyncStep

\* An operation ends inside sync_mutex.
LEMMA OperationMutex ==
    ASSUME TypeOK, NEW c \in Client, Exclusive(c), OperationStep(c) \/ GiveUp(c)
    PROVE  Exclusive(c)'
<1>1. watcher' = watcher /\ sync' = sync
  BY DEF GiveUp, OperationStep, RequestWriteAccess, StoreFile, DeleteFile, FetchStat, FetchFile
<1>2. op[c] # NoOp
  BY DEF GiveUp, OperationStep, RequestWriteAccess, StoreFile, DeleteFile, FetchStat, FetchFile,
         NoOp
<1>3. sync[c].phase # "asleep" /\ (watcher[c].locked \/ Syncing(c))
  BY <1>2 DEF Exclusive
<1> QED
  BY <1>1, <1>3 DEF Exclusive, Syncing

\* No thread holds sync_mutex when the client is unmounted, nor when it starts.
LEMMA MountMutex ==
    ASSUME TypeOK, NEW c \in Client, Exclusive(c), Unmount(c) \/ Mount(c)
    PROVE  Exclusive(c)'
<1>1. CASE Unmount(c)
  <2>1. op'[c] = NoOp /\ ~watcher'[c].locked /\ sync'[c].phase = "unmounted"
    BY <1>1 DEF Unmount, End, NoEvents, Asking, TypeOK
  <2> QED
    BY <2>1 DEF Exclusive, Syncing
<1>2. CASE Mount(c)
  <2>1. ~Syncing(c) /\ ~Syncing(c)' /\ sync'[c].phase = "asked"
    BY <1>2 DEF Mount, Mounted, Asking, Syncing, TypeOK
  <2> QED
    BY <1>2, <2>1 DEF Mount, Exclusive
<1> QED
  BY <1>1, <1>2

\* What the steps of client d leave alone.
LEMMA OnlyOwnThreads ==
    ASSUME TypeOK, NEW d \in Client, NEW c \in Client, c # d,
           \/ OperationStep(d) \/ WatcherStep(d) \/ WatcherLock(d)
           \/ AsyncStep(d) \/ ServerStep(d)
           \/ HandleCallbackList(d) \/ HandleFailure(d)
           \/ ProcessCallbackFails(d) \/ ListingFails(d) \/ HandleCallbackListFails(d)
           \/ GiveUp(d) \/ Unmount(d) \/ Mount(d)
    PROVE  sync'[c] = sync[c] /\ watcher'[c] = watcher[c] /\ op'[c] = op[c]
<1>1. CASE OperationStep(d)
  BY <1>1 DEF OperationStep, RequestWriteAccess, StoreFile, DeleteFile, FetchStat, FetchFile,
              Begin, End, TypeOK
<1>2. CASE WatcherStep(d) \/ WatcherLock(d)
  BY <1>2 DEF WatcherStep, WatcherRead, WatcherEvent, WatcherUnlock, WatcherLock, Begin, TypeOK
<1>3. CASE AsyncStep(d)
  BY <1>3 DEF AsyncStep, LocalDone, InitCallbackList, VisitLocal, VisitRemote, Begin, TypeOK
<1>4. CASE ServerStep(d) \/ ProcessCallbackFails(d) \/ ListingFails(d)
  BY <1>4 DEF ServerStep, ProcessCallback, ListFile, ListDone, ProcessCallbackFails,
              ListingFails, TypeOK
<1>5. CASE HandleFailure(d) \/ HandleCallbackList(d) \/ HandleCallbackListFails(d)
  BY <1>5 DEF HandleFailure, HandleCallbackList, HandleCallbackListFails, TypeOK
<1>6. CASE GiveUp(d) \/ Unmount(d) \/ Mount(d)
  BY <1>6 DEF GiveUp, Unmount, Mount, End, TypeOK
<1> QED
  BY <1>1, <1>2, <1>3, <1>4, <1>5, <1>6

\* The threads of every client exclude each other at all times.
LEMMA MutexInvariant == Spec => []Mutex
<1>1. Init => Mutex
  BY DEF Init, Mutex, Exclusive, Syncing, Asking, MutexFree
<1>2. TypeOK /\ Mutex /\ [Next]_vars => Mutex'
  <2> SUFFICES ASSUME TypeOK, Mutex, [Next]_vars, NEW c \in Client PROVE Exclusive(c)'
    BY DEF Mutex
  <2>0. Exclusive(c)
    BY DEF Mutex
  <2>1. CASE UserStep \/ Tick \/ StrayStep
    BY <2>0, <2>1, OthersStay DEF UserStep, UserWrite, UserDelete, Tick, StrayStep
  <2>2. ASSUME NEW d \in Client,
               \/ OperationStep(d) \/ WatcherStep(d) \/ WatcherLock(d)
               \/ AsyncStep(d) \/ ServerStep(d)
               \/ HandleCallbackList(d) \/ HandleFailure(d)
               \/ ProcessCallbackFails(d) \/ ListingFails(d) \/ HandleCallbackListFails(d)
               \/ GiveUp(d) \/ Unmount(d) \/ Mount(d)
        PROVE  Exclusive(c)'
    <3>1. CASE c = d
      BY <2>0, <2>2, <3>1, OperationMutex, WatcherMutex, AsyncMutex,
         ListingMutex, MountMutex
    <3>2. CASE c # d
      BY <2>0, <2>2, <3>2, OnlyOwnThreads, OthersStay
    <3> QED
      BY <3>1, <3>2
  <2>3. ASSUME NEW d \in Client, Overflow(d) PROVE Exclusive(c)'
    BY <2>0, <2>3, OthersStay DEF Overflow
  <2>4. CASE UNCHANGED vars
    BY <2>0, <2>4, OthersStay DEF vars
  <2> QED
    BY <2>1, <2>2, <2>3, <2>4 DEF Next
<1> QED
  BY <1>1, <1>2, TypeCorrect, PTL DEF Spec

\* The watcher thread and the async thread of a client are never both inside
\* sync_mutex, and no operation runs outside of it.
THEOREM ThreadsExclude == Spec => []OneThreadSyncs
<1>1. Mutex => OneThreadSyncs
  BY DEF Mutex, Exclusive, OneThreadSyncs
<1> QED
  BY <1>1, MutexInvariant, PTL

-----------------------------------------------------------------------------
(* The locks *)

\* The lock is granted when nobody else has it, and erased by its owner only.
LEMMA OperationHolds ==
    ASSUME TypeOK, Held, NEW d \in Client, OperationStep(d)
    PROVE  Held'
<1> SUFFICES ASSUME NEW c \in Client, op'[c].name \in {"Put", "Unlink"},
                    op'[c].file \notin abandoned'
             PROVE  locks'[op'[c].file] = c
  BY DEF Held
<1> DEFINE f == op[d].file
<1>0. abandoned' = abandoned
  BY DEF OperationStep, RequestWriteAccess, StoreFile, DeleteFile, FetchStat, FetchFile, world, calls
<1>1. f \in File
  BY OperationFile
     DEF OperationStep, RequestWriteAccess, StoreFile, DeleteFile, FetchStat, FetchFile
<1>2. CASE RequestWriteAccess(d)
  <2>1. CASE c = d
    BY <1>1, <1>2, <2>1 DEF RequestWriteAccess, Begin, End, NoOp, TypeOK
  <2>2. CASE c # d
    <3>1. op'[c] = op[c] /\ op[c].file \in File /\ locks[op[c].file] = c
      BY <1>0, <1>2, <2>2, OperationFile DEF RequestWriteAccess, Begin, End, TypeOK, Held
    <3>2. CASE locks[f] \in {Absent, d}
      <4>1. op[c].file # f
        BY <2>2, <3>1, <3>2, OwnersDiffer DEF Identity
      <4> QED
        BY <1>2, <3>1, <4>1 DEF RequestWriteAccess, TypeOK
    <3>3. CASE locks[f] \notin {Absent, d}
      BY <1>2, <3>1, <3>3 DEF RequestWriteAccess
    <3> QED
      BY <3>2, <3>3
  <2> QED
    BY <2>1, <2>2
<1>3. CASE StoreFile(d) \/ DeleteFile(d)
  <2>1. op'[d] = NoOp
    BY <1>3 DEF StoreFile, DeleteFile, End, TypeOK
  <2>2. c # d
    BY <2>1 DEF NoOp
  <2>3. op'[c] = op[c] /\ op[c].file \in File /\ locks[op[c].file] = c
    BY <1>0, <1>3, <2>2, OperationFile DEF StoreFile, DeleteFile, End, TypeOK, Held
  <2>4. CASE locks[f] = d
    <3>1. op[c].file # f
      BY <2>2, <2>3, <2>4
    <3> QED
      BY <1>3, <2>3, <2>4, <3>1 DEF StoreFile, WholeStore, DeleteFile, TypeOK
  <2>5. CASE locks[f] # d
    <3>1. locks' = locks \/ Refuse(f)
      BY <1>3, <2>5 DEF StoreFile, DeleteFile
    <3> QED
      BY <2>3, <3>1, OwnersDiffer DEF Refuse, TypeOK, Identity
  <2> QED
    BY <2>4, <2>5
<1>4. CASE FetchStat(d) \/ FetchFile(d)
  <2>1. locks' = locks /\ op'[d].name \notin {"Put", "Unlink"}
    BY <1>4 DEF FetchStat, FetchFile, Begin, End, NoOp, TypeOK
  <2>2. op'[c] = op[c]
    BY <1>4, <2>1 DEF FetchStat, FetchFile, Begin, End, TypeOK
  <2> QED
    BY <1>0, <2>1, <2>2 DEF Held
<1> QED
  BY <1>2, <1>3, <1>4 DEF OperationStep

\* Whoever begins an operation has not been granted the lock yet.
LEMMA BeginHolds ==
    ASSUME TypeOK, Held, NEW d \in Client, WatcherStep(d) \/ WatcherLock(d) \/ AsyncStep(d)
    PROVE  Held'
<1>1. locks' = locks /\ abandoned' = abandoned
  BY DEF WatcherStep, WatcherRead, WatcherEvent, WatcherUnlock, WatcherLock,
         AsyncStep, LocalDone, InitCallbackList, VisitLocal, VisitRemote, world, calls
<1>2. op' = op \/ \E f \in File, name \in {"Store", "Delete", "Fetch"} : Begin(d, name, f)
  <2>1. ASSUME WatcherEvent(d), Head(watcher[d].batch) \in Event
        PROVE  op' = op \/ \E f \in File, name \in {"Store", "Delete", "Fetch"} : Begin(d, name, f)
    BY <2>1 DEF WatcherEvent, Event
  <2>2. WatcherEvent(d) => Head(watcher[d].batch) \in Event
    BY DEF WatcherEvent, TypeOK, WatcherThread
  <2> QED
    BY <2>1, <2>2 DEF WatcherStep, WatcherRead, WatcherUnlock, WatcherLock,
         AsyncStep, LocalDone, InitCallbackList, VisitLocal, VisitRemote
<1>3. ASSUME NEW c \in Client, op'[c].name \in {"Put", "Unlink"}
      PROVE  op'[c] = op[c]
  BY <1>2, <1>3 DEF Begin, TypeOK
<1> QED
  BY <1>1, <1>3 DEF Held

\* A handler that nobody waits for writes when the file is known to have one.
LEMMA AbandonHolds ==
    ASSUME TypeOK, LateWriters, NEW c \in Client, NEW id, NEW n, NEW m \in Sent(c, id, n),
           NEW others, Abandon(m, others),
           \A o \in others : \E s \in strays : o.rpc = s.rpc /\ o.at = s.at /\ o.file = s.file
    PROVE  LateWriters' /\ abandoned \subseteq abandoned'
<1>1. m.at = "sent"
  BY DEF Sent
<1>2. abandoned \subseteq abandoned'
  BY DEF Abandon
<1>3. \A o \in others : o.file \in abandoned \/ (o.rpc = "RequestWriteAccess" /\ o.at = "sent")
  BY DEF LateWriters
<1> QED
  BY <1>1, <1>2, <1>3 DEF Abandon, LateWriters

\* An operation that fails leaves the server to the handler of its call.
LEMMA GiveUpHolds ==
    ASSUME TypeOK, Holding, NEW d \in Client, GiveUp(d)
    PROVE  Holding'
<1>1. LateWriters' /\ abandoned \subseteq abandoned'
  <2>1. CASE UNCHANGED calls
    BY <2>1 DEF Holding, LateWriters, calls
  <2>2. ASSUME NEW m \in Sent(d, d, interruptions'), Abandon(m, strays)
        PROVE  LateWriters' /\ abandoned \subseteq abandoned'
    BY <2>2, AbandonHolds DEF Holding
  <2> QED
    BY <2>1, <2>2 DEF GiveUp
<1>2. ASSUME NEW c \in Client, op'[c].name \in {"Put", "Unlink"}, op'[c].file \notin abandoned'
      PROVE  locks'[op'[c].file] = c
  <2>1. op'[d] = NoOp /\ locks' = locks
    BY DEF GiveUp, End, TypeOK
  <2>2. op'[c] = op[c]
    BY <1>2, <2>1 DEF GiveUp, End, TypeOK, NoOp
  <2> QED
    BY <1>1, <1>2, <2>1, <2>2 DEF Holding, Held
<1> QED
  BY <1>1, <1>2 DEF Holding, Held

\* A process that ends gives up its own locks only.
LEMMA MountHolds ==
    ASSUME TypeOK, Holding, NEW d \in Client, Unmount(d) \/ Mount(d)
    PROVE  Holding'
<1>1. CASE Mount(d)
  BY <1>1 DEF Mount, Holding, Held, LateWriters, world, calls
<1>2. CASE Unmount(d)
  <2> DEFINE id == Gone(interruptions')
  <2>1. \A o \in OrphanedStrays(d, id) :
           \E s \in strays : o.rpc = s.rpc /\ o.at = s.at /\ o.file = s.file
    <3> SUFFICES ASSUME NEW s \in strays, NEW o,
                        o = IF s.client = d THEN [s EXCEPT !.client = id] ELSE s
                 PROVE  o.rpc = s.rpc /\ o.at = s.at /\ o.file = s.file
      BY DEF OrphanedStrays
    <3>1. s \in Stray
      BY DEF TypeOK
    <3> QED
      BY <3>1 DEF Stray
  <2>2. LateWriters' /\ abandoned \subseteq abandoned'
    <3>1. CASE strays' = OrphanedStrays(d, id) /\ UNCHANGED abandoned
      <4>1. \A o \in strays' : \E s \in strays : o.rpc = s.rpc /\ o.at = s.at /\ o.file = s.file
        BY <2>1, <3>1
      <4> QED
        BY <3>1, <4>1 DEF Holding, LateWriters
    <3>2. ASSUME NEW m \in Sent(d, id, interruptions'), Abandon(m, OrphanedStrays(d, id))
          PROVE  LateWriters' /\ abandoned \subseteq abandoned'
      BY <2>1, <3>2, AbandonHolds DEF Holding
    <3> QED
      BY <1>2, <3>1, <3>2 DEF Unmount
  <2>3. ASSUME NEW c \in Client, op'[c].name \in {"Put", "Unlink"}, op'[c].file \notin abandoned'
        PROVE  locks'[op'[c].file] = c
    <3>1. c # d
      BY <1>2, <2>3 DEF Unmount, End, NoOp, TypeOK
    <3>2. op'[c] = op[c]
      BY <1>2, <3>1 DEF Unmount, End, TypeOK
    <3>3. op[c].file \in File /\ locks[op[c].file] = c
      BY <2>2, <2>3, <3>2, OperationFile DEF Holding, Held
    <3> QED
      BY <1>2, <3>1, <3>2, <3>3 DEF Unmount, Orphaned
  <2> QED
    BY <2>2, <2>3 DEF Holding, Held
<1> QED
  BY <1>1, <1>2

\* A late grant takes only what is free or the client's own, and a late release is one
\* of those that the history names.
LEMMA StrayHolds ==
    ASSUME TypeOK, Holding, StrayStep
    PROVE  Holding'
<1>1. PICK m \in strays :
         \/ StrayGrant(m) \/ StrayCheck(m) \/ StrayStore(m) \/ StrayDelete(m)
         \/ StrayRelease(m) \/ StrayLost(m)
  BY DEF StrayStep
<1>2. op' = op /\ abandoned' = abandoned /\ m \in Stray
  BY DEF StrayStep, TypeOK
<1>3. m.file \in abandoned \/ (m.rpc = "RequestWriteAccess" /\ m.at = "sent")
  BY DEF Holding, LateWriters
<1>4. LateWriters'
  <2>1. ASSUME NEW n \in strays', n \notin strays
        PROVE  n.file \in abandoned
    <3>1. m.rpc # "RequestWriteAccess" /\ n.file = m.file
      BY <1>1, <1>2, <2>1 DEF StrayGrant, StrayCheck, StrayStore, StrayDelete, StrayRelease,
                              StrayLost, Ends, GoesOn, Stray
    <3> QED
      BY <1>3, <3>1
  <2> QED
    BY <1>2, <2>1 DEF Holding, LateWriters
<1>5. ASSUME NEW c \in Client, op[c].name \in {"Put", "Unlink"}, op[c].file \notin abandoned
      PROVE  locks'[op[c].file] = c
  <2> DEFINE g == op[c].file
  <2>1. g \in File /\ locks[g] = c /\ c # Absent
    BY <1>5, OperationFile, OwnersDiffer DEF Holding, Held, Identity
  <2>2. CASE m.file # g
    BY <1>1, <1>2, <2>1, <2>2
       DEF StrayGrant, StrayCheck, StrayStore, StrayDelete, StrayRelease, StrayLost, Refuse, TypeOK,
           Stray
  <2>3. CASE m.file = g
    <3>1. StrayGrant(m) \/ StrayLost(m)
      BY <1>1, <1>3, <1>5, <2>3
         DEF StrayCheck, StrayStore, StrayDelete, StrayRelease
    <3> QED
      BY <2>1, <2>3, <3>1 DEF StrayGrant, StrayLost, TypeOK
  <2> QED
    BY <2>2, <2>3
<1> QED
  BY <1>2, <1>4, <1>5 DEF Holding, Held

\* At all times, whoever is past the grant of a file without given up calls owns the lock.
LEMMA HoldingInvariant == Spec => []Holding
<1>1. Init => Holding
  BY DEF Init, Holding, Held, LateWriters, NoOp
<1>2. TypeOK /\ Holding /\ [Next]_vars => Holding'
  <2> SUFFICES ASSUME TypeOK, Holding, [Next]_vars PROVE Holding'
    OBVIOUS
  <2>0. UNCHANGED calls => LateWriters'
    BY DEF Holding, LateWriters, calls
  <2>1. CASE UserStep \/ Tick
    BY <2>0, <2>1 DEF UserStep, UserWrite, UserDelete, Tick, Holding, Held, calls
  <2>2. ASSUME NEW d \in Client, OperationStep(d) PROVE Holding'
    <3>1. UNCHANGED calls
      BY <2>2 DEF OperationStep, RequestWriteAccess, StoreFile, DeleteFile, FetchStat, FetchFile,
                  world
    <3> QED
      BY <2>0, <2>2, <3>1, OperationHolds DEF Holding
  <2>3. ASSUME NEW d \in Client, WatcherStep(d) \/ WatcherLock(d) \/ AsyncStep(d)
        PROVE  Holding'
    <3>1. UNCHANGED calls
      BY <2>3 DEF WatcherStep, WatcherRead, WatcherEvent, WatcherUnlock, WatcherLock,
         AsyncStep, LocalDone, InitCallbackList, VisitLocal, VisitRemote, world
    <3> QED
      BY <2>0, <2>3, <3>1, BeginHolds DEF Holding
  <2>4. ASSUME NEW d \in Client,
               \/ ServerStep(d) \/ HandleCallbackList(d) \/ HandleFailure(d)
               \/ ProcessCallbackFails(d) \/ ListingFails(d) \/ HandleCallbackListFails(d)
        PROVE  Holding'
    <3>1. locks' = locks /\ op' = op /\ UNCHANGED calls
      BY <2>4 DEF ServerStep, ProcessCallback, ListFile, ListDone, ProcessCallbackFails,
         ListingFails, HandleFailure, HandleCallbackList, HandleCallbackListFails, world
    <3> QED
      BY <2>0, <3>1 DEF Holding, Held, calls
  <2>5. ASSUME NEW d \in Client, Unmount(d) \/ Mount(d) PROVE Holding'
    BY <2>5, MountHolds
  <2>6. ASSUME NEW d \in Client, GiveUp(d) PROVE Holding'
    BY <2>6, GiveUpHolds
  <2>7. ASSUME NEW d \in Client, Overflow(d) PROVE Holding'
    BY <2>0, <2>7 DEF Overflow, Holding, Held, calls
  <2>8. CASE StrayStep
    BY <2>8, StrayHolds
  <2>9. CASE UNCHANGED vars
    BY <2>0, <2>9 DEF vars, Holding, Held, world, calls
  <2> QED
    BY <2>1, <2>2, <2>3, <2>4, <2>5, <2>6, <2>7, <2>8, <2>9 DEF Next
<1> QED
  BY <1>1, <1>2, TypeCorrect, PTL DEF Spec

\* Two clients are never both between the grant of a file's lock and the end of
\* its transfer, unless a StoreFile or DeleteFile for that file was given up: however
\* late the grants of given up requests come, whichever processes end, and whatever
\* happens to other files.
THEOREM StorersExclude == Spec => []OneStorer
<1>1. Holding => OneStorer
  BY DEF Holding, Held, OneStorer
<1> QED
  BY <1>1, HoldingInvariant, PTL
-----------------------------------------------------------------------------
(* The exchange with the server *)

\* One client's call moves on.
LEMMA OneMoves ==
    ASSUME NEW c \in Client, NEW from, NEW to, Exchange(c) \in from, Exchange(c)' = to,
           \A b \in Client : b # c => sync'[b] = sync[b]
    PROVE  Exchanges!Moves(c, from, to)
<1>1. \A b \in Client : b # c => Exchange(b)' = Exchange(b)
  BY DEF Exchange
<1> QED
  BY <1>1 DEF Exchanges!Moves

\* Nothing moves.
LEMMA NoneMoves ==
    ASSUME NEW c \in Client, Exchange(c)' = Exchange(c),
           \A b \in Client : b # c => sync'[b] = sync[b]
    PROVE  UNCHANGED [b \in Client |-> Exchange(b)]
<1>1. \A b \in Client : Exchange(b)' = Exchange(b)
  BY DEF Exchange
<1> QED
  BY <1>1

\* A listing is asked for, taken and handled, or fails.
LEMMA ThreadExchanges ==
    ASSUME TypeOK, NEW c \in Client,
           \/ AsyncStep(c) \/ ServerStep(c)
           \/ HandleCallbackList(c) \/ HandleFailure(c)
           \/ ProcessCallbackFails(c) \/ ListingFails(c) \/ HandleCallbackListFails(c)
           \/ Unmount(c) \/ Mount(c)
    PROVE  Exchanges!Next \/ UNCHANGED [b \in Client |-> Exchange(b)]
<1>1. \A b \in Client : b # c => sync'[b] = sync[b]
  BY DEF AsyncStep, LocalDone, InitCallbackList, VisitLocal, VisitRemote,
         ServerStep, ProcessCallback, ListFile, ListDone, ProcessCallbackFails,
         ListingFails, HandleFailure, HandleCallbackList, HandleCallbackListFails,
         Unmount, Mount, TypeOK
<1>2. sync[c] \in AsyncThread
  BY DEF TypeOK
<1>3. CASE Exchange(c) \in {"none", "answered"} /\ Exchange(c)' = "asked"
  BY <1>1, <1>3, OneMoves DEF Exchanges!Ask, Exchanges!Next
<1>4. CASE Exchange(c) = "asked" /\ Exchange(c)' = "listed"
  BY <1>1, <1>4, OneMoves DEF Exchanges!Take, Exchanges!Next
<1>5. CASE Exchange(c) = "listed" /\ Exchange(c)' = "answered"
  BY <1>1, <1>5, OneMoves DEF Exchanges!Answer, Exchanges!Next
<1>6. CASE Exchange(c) \in {"asked", "listed", "answered"} /\ Exchange(c)' = "none"
  BY <1>1, <1>6, OneMoves DEF Exchanges!Leave, Exchanges!Next
<1>7. CASE Exchange(c)' = Exchange(c)
  BY <1>1, <1>7, NoneMoves
<1>8. CASE AsyncStep(c)
  <2>1. ASSUME NEW f \in File, VisitLocal(c, f) \/ VisitRemote(c, f)
        PROVE  Exchange(c)' = Exchange(c)
    BY <2>1 DEF VisitLocal, VisitRemote, Exchange, TypeOK, AsyncThread
  <2>2. LocalDone(c) => Exchange(c)' = Exchange(c)
    BY DEF LocalDone, Exchange, TypeOK, AsyncThread
  <2>3. InitCallbackList(c) => Exchange(c) \in {"none", "answered"} /\ Exchange(c)' = "asked"
    BY DEF InitCallbackList, Asking, Exchange, TypeOK, AsyncThread
  <2> QED
    BY <1>3, <1>7, <1>8, <2>1, <2>2, <2>3 DEF AsyncStep
<1>9. CASE ServerStep(c) \/ ProcessCallbackFails(c) \/ ListingFails(c)
  <2>1. ASSUME NEW f \in File, ListFile(c, f) PROVE Exchange(c)' = Exchange(c)
    BY <2>1 DEF ListFile, Exchange, TypeOK, AsyncThread
  <2>2. ProcessCallback(c) => Exchange(c)' = Exchange(c)
    BY DEF ProcessCallback, Exchange, TypeOK, AsyncThread
  <2>3. ListDone(c) \/ ProcessCallbackFails(c) => Exchange(c) = "asked" /\ Exchange(c)' = "listed"
    BY DEF ListDone, ProcessCallbackFails, Exchange, TypeOK, AsyncThread
  <2>4. ListingFails(c) => Exchange(c) = "asked" /\ Exchange(c)' = "none"
    BY DEF ListingFails, Asking, Exchange, TypeOK, AsyncThread
  <2> QED
    BY <1>4, <1>6, <1>7, <1>9, <2>1, <2>2, <2>3, <2>4 DEF ServerStep
<1>10. CASE HandleCallbackList(c) \/ HandleCallbackListFails(c)
  <2>1. Exchange(c) = "listed" /\ Exchange(c)' = "answered"
    BY <1>10 DEF HandleCallbackList, HandleCallbackListFails, Exchange, TypeOK, AsyncThread
  <2> QED
    BY <1>5, <2>1
<1>11. CASE HandleFailure(c)
  <2>1. Exchange(c)' = Exchange(c)
    BY <1>11 DEF HandleFailure, Exchange, TypeOK, AsyncThread
  <2> QED
    BY <1>7, <2>1
<1>12. CASE Unmount(c)
  <2>1. Exchange(c)' = "none"
    BY <1>12 DEF Unmount, Asking, Exchange, TypeOK
  <2>2. Exchange(c) \in {"none", "asked", "listed", "answered"}
    BY <1>2 DEF Exchange, AsyncThread
  <2> QED
    BY <1>6, <1>7, <2>1, <2>2
<1>13. CASE Mount(c)
  <2>1. Exchange(c) = "none" /\ Exchange(c)' = "asked"
    BY <1>13 DEF Mount, Mounted, Asking, Exchange, TypeOK
  <2> QED
    BY <1>3, <2>1
<1> QED
  BY <1>8, <1>9, <1>10, <1>11, <1>12, <1>13

\* The async thread uses a listing once, asks for the next one only when it is done
\* with it or did not get it, and whatever fails or is unmounted, no listing of an
\* earlier call is handled later.
THEOREM ListingsAreExchanges == Spec => Exchanges!Spec
<1>1. Init => Exchanges!Init
  BY DEF Init, Exchanges!Init, Exchange, Asking
<1>2. TypeOK /\ [Next]_vars => [Exchanges!Next]_[c \in Client |-> Exchange(c)]
  <2> SUFFICES ASSUME TypeOK, [Next]_vars
               PROVE  Exchanges!Next \/ UNCHANGED [c \in Client |-> Exchange(c)]
    OBVIOUS
  <2>1. sync' = sync => UNCHANGED [c \in Client |-> Exchange(c)]
    BY DEF Exchange
  <2>2. CASE UserStep \/ Tick \/ StrayStep \/ UNCHANGED vars
    BY <2>1, <2>2 DEF UserStep, UserWrite, UserDelete, Tick, StrayStep, vars
  <2>3. ASSUME NEW c \in Client,
               \/ OperationStep(c) \/ WatcherStep(c) \/ WatcherLock(c)
               \/ GiveUp(c) \/ Overflow(c)
        PROVE  sync' = sync
    BY <2>3 DEF OperationStep, RequestWriteAccess, StoreFile, DeleteFile, FetchStat, FetchFile,
                WatcherStep, WatcherRead, WatcherEvent, WatcherUnlock, WatcherLock,
                GiveUp, Overflow
  <2> QED
    BY <2>1, <2>2, <2>3, ThreadExchanges DEF Next
<1> QED
  BY <1>1, <1>2, TypeCorrect, PTL DEF Spec, Exchanges!Spec
=============================================================================
