----------------------------- MODULE WriteLocks -----------------------------
(***************************************************************************)
(* The write locks of the part 2 server and the operations that use them:  *)
(* the handlers RequestWriteAccess, StoreFile, DeleteFile and              *)
(* GetFileStatus of DFSServiceImpl, which gRPC runs concurrently on its    *)
(* worker threads, and the control flow of DFSClientNodeP2::Store and      *)
(* ::Delete, which issue these calls one after the other.                  *)
(*                                                                         *)
(* Each critical section on lock_mutex is one action, and so is each file  *)
(* system call; the gaps between them, where other handlers run, are       *)
(* states.  A client stops waiting when a deadline expires or a reply is   *)
(* lost; the handler of its call keeps running.  A write may fail.  The    *)
(* server process may restart: the lock table is memory and is lost, the   *)
(* files stay.                                                             *)
(*                                                                         *)
(* A user may write the local file between its checksum and its upload,    *)
(* but not while it is read for the upload: what is sent is always the     *)
(* whole of one version.                                                   *)
(***************************************************************************)
EXTENDS Naturals, Sequences, FiniteSets

CONSTANTS
    Client,     \* client identities (client_id strings, never empty)
    File,       \* file names
    Version,    \* contents a client's copy of a file may have
    Copies,     \* the versions that each client may have a copy of
    Rpc,        \* identities of calls; their number bounds the calls in flight
    NChunks,    \* number of chunks (64 KiB buffers) of a non-empty file
    NoEntry,    \* file_write_locks.count(f) = 0
    NoClient,   \* the empty string, which map::operator[] inserts as owner
    Absent,     \* there is no such file
    Hole        \* a chunk of zeroes, left by a write beyond the end of file

ASSUME LockValues ==
    /\ NoEntry \notin Client
    /\ NoClient \notin Client
    /\ NoEntry # NoClient

ASSUME CopyValues == Copies \in [Client -> SUBSET Version]

ASSUME ChunkValues ==
    /\ NChunks \in Nat \ {0}
    /\ Hole \notin Version
    /\ Absent \notin Seq(Version \cup {Hole})

VARIABLES
    file_write_locks,   \* the server's map from file name to client_id
    disk,               \* content of each file under the server's mount path
    call,               \* the calls in flight, with the state of their handlers
    fault               \* history: what has gone wrong with calls on each file

vars == <<file_write_locks, disk, call, fault>>

-----------------------------------------------------------------------------
(* Data *)

Content == { s \in Seq(Version \cup {Hole}) : Len(s) <= NChunks }

\* A file a user wrote: empty, or all the chunks of one version.
Whole(v) == [i \in 1..NChunks |-> v]
LocalContent == { << >> } \cup { Whole(v) : v \in Version }
Local(c) == { << >> } \cup { Whole(v) : v \in Copies[c] }

\* Mutant: the file is opened for appending.
WriteAt_append(s, pos, chunk) == Append(s, chunk)

\* Write at a file offset: what lies between the old end and it reads as zero.
WriteAt(s, pos, chunk) ==
    [i \in 1..(IF Len(s) > pos THEN Len(s) ELSE pos + 1) |->
        IF i = pos + 1 THEN chunk ELSE IF i <= Len(s) THEN s[i] ELSE Hole]

Procedure == {"RequestWriteAccess", "GetFileStatus", "StoreFile", "DeleteFile"}

Progress == {"sent", "found", "checked", "open", "stored", "removed", "done"}

Status == {"none", "OK", "NOT_FOUND", "CANCELLED", "PERMISSION_DENIED",
           "RESOURCE_EXHAUSTED", "UNAVAILABLE"}

CallState ==
    [rpc    : Procedure,
     op     : {"Store", "Delete"},              \* the client operation it serves
     client : Client,
     file   : File,
     data   : Content,                          \* what a Store has read locally
     at     : Progress,
     pos    : 0..NChunks,                       \* chunks written so far
     linked : BOOLEAN,                          \* the open file still has its name
     live   : BOOLEAN,                          \* the client waits for the answer
     status : Status,
     crc    : Content]                          \* checksum in a GetFileStatus answer

Unused == [at |-> "unused"]

Request(rpc, op, c, f, d) ==
    [rpc |-> rpc, op |-> op, client |-> c, file |-> f, data |-> d, at |-> "sent",
     pos |-> 0, linked |-> FALSE, live |-> TRUE, status |-> "none", crc |-> << >>]

InUse(r) == call[r].at # "unused"

\* A client performs one operation at a time: a user command is one thread,
\* and the watcher and async threads of a mounted client hold sync_mutex.
Idle(c) == \A r \in Rpc : InUse(r) => ~(call[r].client = c /\ call[r].live)

At(r, rpc, where) == InUse(r) /\ call[r].rpc = rpc /\ call[r].at = where

\* The handler returns a status; nobody reads it if the client has gone.
Answered(m, status, crc) ==
    IF m.live
    THEN [Request(m.rpc, m.op, m.client, m.file, m.data)
            EXCEPT !.at = "done", !.status = status, !.crc = crc]
    ELSE Unused

Return(r, status) == call' = [call EXCEPT ![r] = Answered(@, status, << >>)]

MoveTo(r, where) == call' = [call EXCEPT ![r].at = where]

-----------------------------------------------------------------------------
(* The server: one action per critical section or system call *)

\* Mutant: the lock is granted to whoever asks.
RequestWriteAccess_always(r) ==
    /\ At(r, "RequestWriteAccess", "sent")
    /\ file_write_locks' = [file_write_locks EXCEPT ![call[r].file] = call[r].client]
    /\ Return(r, "OK")
    /\ UNCHANGED <<disk, fault>>

\* Grant a free lock, or one the same client holds already.
RequestWriteAccess(r) ==
    LET f == call[r].file
        c == call[r].client
    IN  /\ At(r, "RequestWriteAccess", "sent")
        /\ \/ /\ file_write_locks[f] \in {NoEntry, c}
              /\ file_write_locks' = [file_write_locks EXCEPT ![f] = c]
              /\ Return(r, "OK")
           \/ /\ file_write_locks[f] \notin {NoEntry, c}
              /\ Return(r, "RESOURCE_EXHAUSTED")
              /\ UNCHANGED file_write_locks
        /\ UNCHANGED <<disk, fault>>

\* stat finds the file or not.
StatFile(r) ==
    /\ At(r, "GetFileStatus", "sent")
    /\ IF disk[call[r].file] = Absent
       THEN Return(r, "NOT_FOUND")
       ELSE MoveTo(r, "found")
    /\ UNCHANGED <<file_write_locks, disk, fault>>

\* Then, without a lock, the checksum: 0 for a file that is gone by now, as for
\* an empty one.  A file that is being rewritten while it is read differs from
\* every local file with either of its contents.
ChecksumFile(r) ==
    LET f == call[r].file
    IN  /\ At(r, "GetFileStatus", "found")
        /\ call' = [call EXCEPT ![r] =
                      Answered(@, "OK", IF disk[f] = Absent THEN << >> ELSE disk[f])]
        /\ UNCHANGED <<file_write_locks, disk, fault>>

GetFileStatus(r) == StatFile(r) \/ ChecksumFile(r)

\* The comparison file_write_locks[filename] != client_id: reading the map
\* with operator[] gives a file that has no entry the empty string as owner.
Looked(owner) == IF owner = NoEntry THEN NoClient ELSE owner

\* Mutant: a refused handler erases the entry on its way out.
CheckLock_erase(r) ==
    LET f == call[r].file
        c == call[r].client
    IN  /\ IF file_write_locks[f] = c
           THEN MoveTo(r, "checked") /\ UNCHANGED file_write_locks
           ELSE /\ Return(r, "PERMISSION_DENIED")
                /\ file_write_locks' = [file_write_locks EXCEPT ![f] = NoEntry]
        /\ UNCHANGED <<disk, fault>>

CheckLock(r) ==
    LET f == call[r].file
        c == call[r].client
    IN  /\ file_write_locks' = [file_write_locks EXCEPT ![f] = Looked(@)]
        /\ IF file_write_locks[f] = c
           THEN MoveTo(r, "checked")
           ELSE Return(r, "PERMISSION_DENIED")
        /\ UNCHANGED <<disk, fault>>

\* The first chunk has arrived: an empty file has none.
StoreFileCheck(r) ==
    /\ At(r, "StoreFile", "sent")
    /\ call[r].data # << >>
    /\ CheckLock(r)

\* Mutant: the file is opened without truncating it.
StoreFileOpen_keep(r) ==
    LET f == call[r].file
    IN  /\ At(r, "StoreFile", "checked")
        /\ disk' = [disk EXCEPT ![f] = IF @ = Absent THEN << >> ELSE @]
        /\ call' = [call EXCEPT ![r].at = "open", ![r].linked = TRUE]
        /\ UNCHANGED <<file_write_locks, fault>>

\* ofstream::open truncates; it may fail, and the lock then stays.
StoreFileOpen(r) ==
    /\ At(r, "StoreFile", "checked")
    /\ \/ /\ disk' = [disk EXCEPT ![call[r].file] = << >>]
          /\ call' = [call EXCEPT ![r].at = "open", ![r].linked = TRUE]
       \/ /\ Return(r, "CANCELLED")
          /\ UNCHANGED disk
    /\ UNCHANGED <<file_write_locks, fault>>

\* Write the next chunk at this handler's own offset in the file it opened.
StoreFileWrite(r) ==
    LET f == call[r].file
        pos == call[r].pos
    IN  /\ At(r, "StoreFile", "open")
        /\ pos < Len(call[r].data)
        /\ call' = [call EXCEPT ![r].pos = pos + 1]
        /\ disk' = IF call[r].linked
                   THEN [disk EXCEPT ![f] = WriteAt(@, pos, call[r].data[pos + 1])]
                   ELSE disk
        /\ UNCHANGED <<file_write_locks, fault>>

\* A write fails, on a full disk for example.  The stream is bad from then on,
\* so that the chunks that follow are read and not written; nobody looks at it.
StoreFileWriteFails(r) ==
    LET m == call[r]
    IN  /\ At(r, "StoreFile", "open")
        /\ m.pos < Len(m.data)
        /\ call' = [call EXCEPT ![r].pos = Len(m.data)]
        /\ fault' = [fault EXCEPT ![m.file] = @ \cup {"write"}]
        /\ UNCHANGED <<file_write_locks, disk>>

\* Mutant: the handler stops reading after any chunk.
StoreFileEnd_early(r) ==
    /\ At(r, "StoreFile", "open")
    /\ call[r].pos > 0
    /\ MoveTo(r, "stored")
    /\ UNCHANGED <<file_write_locks, disk, fault>>

\* Read returns false after the last chunk, and likewise in the middle of a
\* stream whose client has gone; then close and stat.  Without any chunk
\* full_path is empty and stat fails, as it does when the file is gone.
StoreFileEnd(r) ==
    LET m == call[r]
    IN  /\ \/ /\ At(r, "StoreFile", "sent")
              /\ m.data = << >> \/ ~m.live
              /\ Return(r, "CANCELLED")
           \/ /\ At(r, "StoreFile", "open")
              /\ m.pos = Len(m.data) \/ (m.pos > 0 /\ ~m.live)
              /\ IF disk[m.file] = Absent
                 THEN Return(r, "CANCELLED")
                 ELSE MoveTo(r, "stored")
        /\ UNCHANGED <<file_write_locks, disk, fault>>

\* Mutant: the lock is not released.
EraseLock_never(r) ==
    /\ Return(r, "OK")
    /\ UNCHANGED <<file_write_locks, disk, fault>>

\* file_write_locks.erase(filename), whoever holds the lock.
EraseLock(r) ==
    /\ file_write_locks' = [file_write_locks EXCEPT ![call[r].file] = NoEntry]
    /\ Return(r, "OK")
    /\ UNCHANGED <<disk, fault>>

StoreFileRelease(r) ==
    /\ At(r, "StoreFile", "stored")
    /\ EraseLock(r)

DeleteFileCheck(r) ==
    /\ At(r, "DeleteFile", "sent")
    /\ CheckLock(r)

Unlinked(m, f) ==
    IF m.at = "open" /\ m.file = f THEN [m EXCEPT !.linked = FALSE] ELSE m

\* remove unlinks the name; a handler that has the file open keeps writing to
\* a file without a name.  Both failures return with the lock still held.
DeleteFileRemove(r) ==
    LET f == call[r].file
    IN  /\ At(r, "DeleteFile", "checked")
        /\ \/ /\ disk[f] # Absent
              /\ disk' = [disk EXCEPT ![f] = Absent]
              /\ call' = [q \in Rpc |->
                    IF q = r THEN [call[q] EXCEPT !.at = "removed"]
                             ELSE Unlinked(call[q], f)]
           \/ /\ disk[f] = Absent
              /\ Return(r, "NOT_FOUND")
              /\ UNCHANGED disk
           \/ /\ Return(r, "CANCELLED")
              /\ UNCHANGED disk
        /\ UNCHANGED <<file_write_locks, fault>>

DeleteFileRelease(r) ==
    /\ At(r, "DeleteFile", "removed")
    /\ EraseLock(r)

-----------------------------------------------------------------------------
(* The client *)

Begin(c, op, f) ==
    /\ Idle(c)
    /\ \E r \in Rpc :
          /\ ~InUse(r)
          /\ call' = [call EXCEPT ![r] =
                        Request("RequestWriteAccess", op, c, f, << >>)]
    /\ UNCHANGED <<file_write_locks, disk, fault>>

\* The next call of the operation takes the place of the one just answered.
CallNext(r, rpc, d) ==
    LET m == call[r]
    IN  call' = [call EXCEPT ![r] = Request(rpc, m.op, m.client, m.file, d)]

Finish(r) == call' = [call EXCEPT ![r] = Unused]

\* Mutant: the status of RequestWriteAccess is not looked at.
LockReply_unchecked(r) ==
    /\ At(r, "RequestWriteAccess", "done")
    /\ call[r].live
    /\ IF call[r].op = "Delete"
       THEN CallNext(r, "DeleteFile", << >>)
       ELSE \E d \in Local(call[r].client) : CallNext(r, "GetFileStatus", d)
    /\ UNCHANGED <<file_write_locks, disk, fault>>

\* Store and Delete go on only when the lock is granted.  Store then opens the
\* local file, or returns NOT_FOUND when there is none, and keeps the lock.
LockReply(r) ==
    /\ At(r, "RequestWriteAccess", "done")
    /\ call[r].live
    /\ \/ /\ call[r].status = "OK"
          /\ call[r].op = "Delete"
          /\ CallNext(r, "DeleteFile", << >>)
       \/ /\ call[r].status = "OK"
          /\ call[r].op = "Store"
          /\ \/ \E d \in Local(call[r].client) : CallNext(r, "GetFileStatus", d)
             \/ Finish(r)
       \/ /\ call[r].status # "OK"
          /\ Finish(r)
    /\ UNCHANGED <<file_write_locks, disk, fault>>

\* Equal checksums end the Store with ALREADY_EXISTS, again with the lock;
\* every other answer, failures too, leads to the upload.  It reads the local
\* file again, which a user may have written since its checksum was taken.
StatReply(r) ==
    LET m == call[r]
    IN  /\ At(r, "GetFileStatus", "done")
        /\ m.live
        /\ IF m.status = "OK" /\ m.crc = m.data
           THEN Finish(r)
           ELSE \E d \in Local(call[r].client) : CallNext(r, "StoreFile", d)
        /\ UNCHANGED <<file_write_locks, disk, fault>>

FinalReply(r) ==
    /\ At(r, "StoreFile", "done") \/ At(r, "DeleteFile", "done")
    /\ call[r].live
    /\ Finish(r)
    /\ UNCHANGED <<file_write_locks, disk, fault>>

-----------------------------------------------------------------------------
(* Failures *)

\* Mutant: no deadline is set for the upload.
GiveUp_noDeadline(r) ==
    /\ InUse(r)
    /\ call[r].live
    /\ call[r].rpc # "StoreFile"
    /\ IF call[r].rpc = "GetFileStatus"
       THEN (\E d \in Local(call[r].client) : CallNext(r, "StoreFile", d)) /\ UNCHANGED fault
       ELSE IF call[r].at = "done"
            THEN Finish(r) /\ UNCHANGED fault
            ELSE /\ call' = [call EXCEPT ![r].live = FALSE]
                 /\ fault' = [fault EXCEPT ![call[r].file] = @ \cup {"abandon"}]
    /\ UNCHANGED <<file_write_locks, disk>>

\* The deadline expires or the reply is lost.  A failed stat does not stop a
\* Store; any other failure ends the operation.  The handler, if it has not
\* answered yet, is on its own from here.
GiveUp(r) ==
    LET m == call[r]
    IN  /\ InUse(r)
        /\ m.live
        /\ \/ /\ m.rpc = "GetFileStatus"
              /\ \E d \in Local(call[r].client) : CallNext(r, "StoreFile", d)
              /\ UNCHANGED fault
           \/ /\ m.rpc # "GetFileStatus"
              /\ m.at # "done"
              /\ call' = [call EXCEPT ![r].live = FALSE]
              /\ fault' = [fault EXCEPT ![m.file] = @ \cup {"abandon"}]
           \/ /\ m.rpc # "GetFileStatus"
              /\ m.at = "done"
              /\ Finish(r)
              /\ UNCHANGED fault
        /\ UNCHANGED <<file_write_locks, disk>>

\* A call that was given up before the server saw it may never reach it.
DropCall(r) ==
    /\ InUse(r)
    /\ call[r].at = "sent"
    /\ ~call[r].live
    /\ Finish(r)
    /\ UNCHANGED <<file_write_locks, disk, fault>>

\* The server process ends and is started again: handlers are lost with it,
\* calls not yet taken reach the new process, answers already given stand.
ServerRestart ==
    /\ file_write_locks' = [f \in File |-> NoEntry]
    /\ call' = [r \in Rpc |->
          IF ~InUse(r) \/ call[r].at \in {"sent", "done"}
          THEN call[r]
          ELSE Answered(call[r], "UNAVAILABLE", << >>)]
    /\ fault' = [f \in File |->
          IF \E r \in Rpc : InUse(r) /\ call[r].file = f
          THEN fault[f] \cup {"restart"}
          ELSE fault[f]]
    /\ UNCHANGED disk

-----------------------------------------------------------------------------
Init ==
    /\ file_write_locks = [f \in File |-> NoEntry]
    /\ disk \in [File -> {Absent} \cup LocalContent]
    /\ call = [r \in Rpc |-> Unused]
    /\ fault = [f \in File |-> {}]

ServerStep(r) ==
    \/ RequestWriteAccess(r) \/ GetFileStatus(r)
    \/ StoreFileCheck(r) \/ StoreFileOpen(r)
    \/ StoreFileWrite(r) \/ StoreFileWriteFails(r)
    \/ StoreFileEnd(r) \/ StoreFileRelease(r)
    \/ DeleteFileCheck(r) \/ DeleteFileRemove(r) \/ DeleteFileRelease(r)

ClientStep(r) == LockReply(r) \/ StatReply(r) \/ FinalReply(r)

Next ==
    \/ \E c \in Client, op \in {"Store", "Delete"}, f \in File : Begin(c, op, f)
    \/ \E r \in Rpc : ServerStep(r) \/ ClientStep(r) \/ GiveUp(r) \/ DropCall(r)
    \/ ServerRestart

Spec == Init /\ [][Next]_vars

\* Every call has a deadline, so that the thread that waits for it goes on, with
\* an answer or without.  Nothing is assumed of the server.
Fairness == \A r \in Rpc : WF_vars(GiveUp(r) \/ ClientStep(r))

FairSpec == Spec /\ Fairness

-----------------------------------------------------------------------------
(* Properties *)

\* The types of the variables: owners are clients, files have at most NChunks
\* chunks, calls are records with the fields of their procedure.
TypeOK ==
    /\ file_write_locks \in [File -> Client \cup {NoEntry, NoClient}]
    /\ disk \in [File -> Content \cup {Absent}]
    /\ call \in [Rpc -> CallState \cup {Unused}]
    /\ fault \in [File -> SUBSET {"abandon", "restart", "write"}]

\* A handler between its lock check and its return.
Past(r) == InUse(r) /\ call[r].at \in {"checked", "open", "stored", "removed"}

\* As long as no call on a file was abandoned, at most one handler at a time is
\* past the lock check of StoreFile or DeleteFile for it, and the lock is its
\* client's: the check stays valid after lock_mutex has been given up.
OneWriterPerFile ==
    \A f \in File : "abandon" \notin fault[f] =>
        \A r \in Rpc : Past(r) /\ call[r].file = f =>
            /\ file_write_locks[f] = call[r].client
            /\ \A q \in Rpc : Past(q) /\ call[q].file = f => q = r

\* ... and what the handler is about to acknowledge is what the disk holds: the
\* whole content for a store, no file for a delete.  The handler does not look
\* whether its writes succeed: one that failed voids the promise for stores.
AcknowledgedIsDone ==
    \A r \in Rpc : InUse(r) /\ "abandon" \notin fault[call[r].file] =>
        /\ call[r].at = "stored" /\ "write" \notin fault[call[r].file] =>
              disk[call[r].file] = call[r].data
        /\ call[r].at = "removed" => disk[call[r].file] = Absent

\* Without faults a file under the server's mount is absent or whole whenever
\* no handler has it open, and a handler that has it open has written a prefix.
WholeFilesOnServer ==
    \A f \in File : fault[f] = {} =>
        \/ disk[f] \in {Absent} \cup LocalContent
        \/ \E r \in Rpc : /\ At(r, "StoreFile", "open")
                          /\ call[r].file = f
                          /\ disk[f] = SubSeq(call[r].data, 1, call[r].pos)

\* When StoreFile or DeleteFile has answered OK, its client no longer holds the
\* lock, so that the next writer is not refused.
SuccessReleasesLock ==
    \A r \in Rpc :
        /\ At(r, "StoreFile", "done") \/ At(r, "DeleteFile", "done")
        /\ call[r].status = "OK"
        /\ "abandon" \notin fault[call[r].file]
        => file_write_locks[call[r].file] # call[r].client

\* Only an abandoned call or a restart lets a lock check meet a file without
\* an entry, and leave it owned by no client.
NoOwnerlessLock ==
    \A f \in File : file_write_locks[f] = NoClient =>
        "abandon" \in fault[f] \/ "restart" \in fault[f]

\* A lock changes hands only through a release by its holder's own handler, or
\* by a restart, as long as no call was abandoned.
OnlyHolderReleases ==
    [][\A f \in File, c \in Client :
          /\ file_write_locks[f] = c
          /\ file_write_locks'[f] # c
          /\ "abandon" \notin fault[f]
          => \/ ServerRestart
             \/ \E r \in Rpc : Past(r) /\ call[r].client = c /\ call[r].file = f]_vars

\* Even an abandoned handler never takes a lock from the client that holds it:
\* a held lock becomes free before another client has it.
NeverStolen ==
    [][\A f \in File : \A c \in Client :
          file_write_locks[f] = c => file_write_locks'[f] \in {c, NoEntry}]_vars

\* Every Store and Delete returns to its caller, even from a server that never
\* answers.
OperationsReturn == \A c \in Client : []<>Idle(c)

\* A Store that stops because the checksums are equal was right to: the server's
\* file is still the one whose checksum the client took, for the lock has kept
\* others from it since before the server's stat, and between that and its checksum.
SkippedIsSame ==
    \A r \in Rpc :
        /\ At(r, "GetFileStatus", "done")
        /\ call[r].status = "OK"
        /\ call[r].crc = call[r].data
        /\ "abandon" \notin fault[call[r].file]
        /\ "restart" \notin fault[call[r].file]
        => disk[call[r].file] = call[r].data

\* The clients that have a handler past the lock check of a file.
Inside(f) == { call[r].client : r \in { q \in Rpc : Past(q) /\ call[q].file = f } }

\* The promise of the locks, in the abstract.
Promise == INSTANCE LockSpec WITH
    Free <- NoEntry, Nobody <- NoClient,
    Intact <- {Absent} \cup LocalContent,
    owner <- file_write_locks,
    inside <- [f \in File |-> Inside(f)],
    content <- disk, trouble <- fault

\* RequestWriteAccess, StoreFile and DeleteFile, with their checks and file system
\* calls in separate steps, implement the locks that the clients rely on.
ImplementsLocks == Promise!Spec

-----------------------------------------------------------------------------
(* What the documentation and the messages say, without exceptions *)

\* docs/part2.md: only one client may write to the server at any given time.
\* A handler whose call was abandoned releases the lock under a later writer.
OnlyOneWriter ==
    \A r, q \in Rpc :
        Past(r) /\ Past(q) /\ call[r].file = call[q].file
            => call[r].client = call[q].client

\* "File stored successfully": a handler whose writes succeed gets there only
\* with the whole file.
StoredIsWhole ==
    \A r \in Rpc :
        At(r, "StoreFile", "stored") /\ "write" \notin fault[call[r].file] =>
            disk[call[r].file] \in LocalContent
=============================================================================
