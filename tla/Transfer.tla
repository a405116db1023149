------------------------------ MODULE Transfer ------------------------------
(***************************************************************************)
(* Part 1: Store, Fetch, Delete, List and Stat of DFSClientNodeP1 and the  *)
(* handlers they call, which run concurrently and know neither locks nor   *)
(* checksums.  Part 2 has kept these loops; its FetchFile and ListFiles    *)
(* still read without a lock.                                              *)
(*                                                                         *)
(* A file is a sequence of blocks; it is read, sent and written in chunks  *)
(* of Buffer blocks, the last of which may be smaller.  Handlers have      *)
(* files open: a file lives on without its name as long as one has, so     *)
(* names and files are apart.                                              *)
(***************************************************************************)
EXTENDS Naturals, Sequences

CONSTANTS
    Client,     \* clients, each with a mount and one operation at a time
    File,       \* file names
    Version,    \* contents of files
    Size,       \* number of blocks of each version
    Buffer,     \* number of blocks in a chunk (64 KiB)
    Rpc,        \* identities of calls; their number bounds the calls in flight
    Inode,      \* identities of files on the server's disk
    MaxGone,    \* bound on the calls given up and the stores whose writes fail
    Fetchers,   \* bound: the clients that fetch
    Absent,     \* no file
    Hole        \* a block of zeroes, left by a write beyond the end of file

ASSUME TransferConstants ==
    /\ Size \in [Version -> Nat \ {0}]
    /\ Buffer \in Nat \ {0}
    /\ MaxGone \in Nat
    /\ Fetchers \subseteq Client
    /\ Absent \notin Inode \cup File
    /\ \A v \in Version : \A i \in 1..Size[v] : Hole # <<v, i>>

VARIABLES
    name,       \* the server's directory: the file of each name
    inode,      \* contents of the server's files
    local,      \* the files in each client's mount
    call,       \* the calls in flight, with the state of their handlers
    broken,     \* history: names that may have partial copies
    gone        \* number of calls given up and of stores whose writes failed

vars == <<name, inode, local, call, broken, gone>>

-----------------------------------------------------------------------------
(* Files and calls *)

Block(v, i) == <<v, i>>
Content(v) == [i \in 1..Size[v] |-> Block(v, i)]
Contents == { Content(v) : v \in Version }

\* Write at a file offset: what lies between the old end and it reads as zero.
WriteAt(s, pos, chunk) ==
    LET end == pos + Len(chunk)
    IN  [i \in 1..(IF Len(s) > end THEN Len(s) ELSE end) |->
            IF i \in (pos + 1)..end THEN chunk[i - pos]
            ELSE IF i <= Len(s) THEN s[i] ELSE Hole]

\* What read returns at an offset: fewer blocks at the end of the file, or none.
ChunkAt(s, pos) ==
    SubSeq(s, pos + 1, IF pos + Buffer < Len(s) THEN pos + Buffer ELSE Len(s))

\* What List looks at.
Directory == Absent

Unused == [at |-> "unused"]
InUse(r) == call[r].at # "unused"

\* What ListFiles has: names still to be returned by readdir, names in its reply,
\* and among these the files that had gone when their time was read.
NoListing == [names |-> {}, listed |-> {}, gone |-> {}]

Request(rpc, c, f, data) ==
    [rpc |-> rpc, client |-> c, file |-> f, data |-> data, at |-> "sent",
     fd |-> Absent, pos |-> 0, stream |-> << >>, live |-> TRUE, status |-> "none",
     opened |-> FALSE, disturbed |-> FALSE, listing |-> NoListing, size |-> 0]

Reads(rpc) == rpc \notin {"StoreFile", "DeleteFile"}
At(r, rpc, where) == InUse(r) /\ call[r].rpc = rpc /\ call[r].at = where
Idle(c) == \A r \in Rpc : InUse(r) => ~(call[r].client = c /\ call[r].live)

\* A file has a name or is open.
Kept(i, names, calls) ==
    \/ \E f \in File : names[f] = i
    \/ \E r \in Rpc : calls[r].at \in {"open", "eof"} /\ calls[r].fd = i

Reclaim == inode' = [i \in Inode |-> IF Kept(i, name', call') THEN inode[i] ELSE << >>]

\* Call r becomes m, and has changed a file, or the directory, under the other calls
\* that look at it.
Disturbing(r, files, m) ==
    call' = [q \in Rpc |->
        IF q = r THEN m
        ELSE IF InUse(q) /\ call[q].live /\ call[q].file \in files /\ call[q].at # "sent"
        THEN [call[q] EXCEPT !.disturbed = TRUE]
        ELSE call[q]]

\* Mutant: a handler that returns leaves its file open.
Answered_leak(m, status) ==
    IF m.live THEN [m EXCEPT !.at = "done", !.status = status] ELSE Unused

\* A handler returns a status; nobody reads it if the client has gone.
Answered(m, status) ==
    IF m.live THEN [m EXCEPT !.at = "done", !.status = status, !.fd = Absent, !.pos = 0,
                           !.listing.names = {}]
    ELSE Unused

Return(r, status) ==
    /\ call' = [call EXCEPT ![r] = Answered(@, status)]
    /\ UNCHANGED name
    /\ Reclaim

BeingStored(i) == \E r \in Rpc : At(r, "StoreFile", "open") /\ call[r].fd = i

-----------------------------------------------------------------------------
(* The server *)

\* The first chunk opens the file, which truncates or creates it.
StoreFileOpen(r) ==
    LET m == call[r]
    IN  /\ At(r, "StoreFile", "sent")
        /\ m.data # << >>
        /\ \/ \E i \in Inode :
                 /\ IF name[m.file] = Absent THEN ~Kept(i, name, call) ELSE i = name[m.file]
                 /\ name' = [name EXCEPT ![m.file] = i]
                 /\ inode' = [inode EXCEPT ![i] = << >>]
                 /\ Disturbing(r, {m.file, Directory}, [m EXCEPT !.at = "open", !.fd = i])
           \/ Return(r, "CANCELLED")
        /\ UNCHANGED <<local, broken, gone>>

\* Mutant: each chunk is appended to the file.
StoreFileWrite_append(r) ==
    LET m == call[r]
        chunk == ChunkAt(m.data, m.pos)
    IN  /\ At(r, "StoreFile", "open")
        /\ chunk # << >>
        /\ inode' = [inode EXCEPT ![m.fd] = @ \o chunk]
        /\ Disturbing(r, {m.file}, [m EXCEPT !.pos = @ + Len(chunk)])
        /\ UNCHANGED <<name, local, broken, gone>>

StoreFileWrite(r) ==
    LET m == call[r]
        chunk == ChunkAt(m.data, m.pos)
    IN  /\ At(r, "StoreFile", "open")
        /\ chunk # << >>
        /\ inode' = [inode EXCEPT ![m.fd] = WriteAt(@, m.pos, chunk)]
        /\ Disturbing(r, {m.file}, [m EXCEPT !.pos = @ + Len(chunk)])
        /\ UNCHANGED <<name, local, broken, gone>>

\* A write fails, as on a full disk, and leaves nothing or a part of its chunk.  The
\* stream has failed from then on and writes nothing more; nobody looks, and the loop
\* goes on to the end.
StoreFileWriteFails(r) ==
    LET m == call[r]
        chunk == ChunkAt(m.data, m.pos)
    IN  /\ At(r, "StoreFile", "open")
        /\ chunk # << >>
        /\ \/ UNCHANGED inode
           \/ \E n \in 1..(Len(chunk) - 1) :
                 inode' = [inode EXCEPT ![m.fd] = WriteAt(@, m.pos, SubSeq(chunk, 1, n))]
        /\ Disturbing(r, {m.file}, [m EXCEPT !.pos = Len(m.data), !.disturbed = TRUE])
        /\ broken' = broken \cup {m.file}
        /\ gone < MaxGone /\ gone' = gone + 1
        /\ UNCHANGED <<name, local>>

\* Mutant: the handler stops after the first chunk.
StoreFileEnd_first(r) ==
    LET m == call[r]
    IN  /\ \/ At(r, "StoreFile", "sent") /\ (m.data = << >> \/ ~m.live)
           \/ At(r, "StoreFile", "open") /\ m.pos > 0
        /\ Return(r, IF m.at = "open" /\ name[m.file] # Absent THEN "OK" ELSE "CANCELLED")
        /\ UNCHANGED <<local, broken, gone>>

\* Read returns false at the end of the stream, or anywhere once the client has
\* gone; then stat, which fails if no chunk came or the name has been removed.
StoreFileEnd(r) ==
    LET m == call[r]
    IN  /\ \/ At(r, "StoreFile", "sent") /\ (m.data = << >> \/ ~m.live)
           \/ At(r, "StoreFile", "open") /\ (m.pos = Len(m.data) \/ (m.pos > 0 /\ ~m.live))
        /\ Return(r, IF m.at = "open" /\ name[m.file] # Absent THEN "OK" ELSE "CANCELLED")
        /\ UNCHANGED <<local, broken, gone>>

FetchFileOpen(r) ==
    LET m == call[r]
    IN  /\ At(r, "FetchFile", "sent")
        /\ IF name[m.file] = Absent
           THEN Return(r, "NOT_FOUND")
           ELSE /\ call' = [call EXCEPT ![r].at = "open", ![r].fd = name[m.file],
                                       ![r].disturbed = BeingStored(name[m.file])]
                /\ UNCHANGED <<name, inode>>
        /\ UNCHANGED <<local, broken, gone>>

\* Mutant: every chunk is read from the start of the file.
FetchFileRead_seek(r) ==
    LET m == call[r]
        chunk == ChunkAt(inode[m.fd], m.pos)
    IN  /\ At(r, "FetchFile", "open")
        /\ chunk # << >>
        /\ call' = [call EXCEPT
              ![r].at = IF Len(chunk) < Buffer THEN "eof" ELSE "open",
              ![r].pos = @ + Len(chunk),
              ![r].stream = Append(@, ChunkAt(inode[m.fd], 0))]
        /\ UNCHANGED <<name, inode, local, broken, gone>>

\* Read a chunk at this handler's offset and send it.  A chunk that does not fill
\* the buffer sets eofbit and is the last one.
FetchFileRead(r) ==
    LET m == call[r]
        chunk == ChunkAt(inode[m.fd], m.pos)
    IN  /\ At(r, "FetchFile", "open")
        /\ chunk # << >>
        /\ call' = [call EXCEPT
              ![r].at = IF Len(chunk) < Buffer THEN "eof" ELSE "open",
              ![r].pos = @ + Len(chunk),
              ![r].stream = Append(@, chunk)]
        /\ UNCHANGED <<name, inode, local, broken, gone>>

\* The end of the file, wherever it is by now.
FetchFileEnd(r) ==
    /\ \/ At(r, "FetchFile", "eof")
       \/ At(r, "FetchFile", "open") /\ ChunkAt(inode[call[r].fd], call[r].pos) = << >>
    /\ Return(r, "OK")
    /\ UNCHANGED <<local, broken, gone>>

\* remove: the name goes, handlers that have the file open keep it.
DeleteFile(r) ==
    LET m == call[r]
    IN  /\ At(r, "DeleteFile", "sent")
        /\ \/ /\ name[m.file] # Absent
              /\ name' = [name EXCEPT ![m.file] = Absent]
              /\ Disturbing(r, {m.file, Directory}, Answered(m, "OK"))
              /\ Reclaim
           \/ Return(r, IF name[m.file] = Absent THEN "NOT_FOUND" ELSE "CANCELLED")
        /\ UNCHANGED <<local, broken, gone>>

\* stat: a file that is being stored has the size it has by now.
GetFileStatus(r) ==
    LET m == call[r]
        i == name[m.file]
    IN  /\ At(r, "GetFileStatus", "sent")
        /\ call' = [call EXCEPT ![r] =
              IF i = Absent THEN Answered(m, "NOT_FOUND")
              ELSE Answered([m EXCEPT !.size = Len(inode[i]), !.disturbed = BeingStored(i)], "OK")]
        /\ UNCHANGED <<name, inode, local, broken, gone>>

ListFilesOpen(r) ==
    /\ At(r, "ListFiles", "sent")
    /\ \/ /\ call' = [call EXCEPT ![r].at = "scan",
                                    ![r].listing.names = { f \in File : name[f] # Absent }]
          /\ UNCHANGED <<name, inode>>
       \/ Return(r, "CANCELLED")
    /\ UNCHANGED <<local, broken, gone>>

\* A name from readdir and then the file's time, which is 0 if it has gone.
ListFilesRead(r) ==
    /\ At(r, "ListFiles", "scan")
    /\ \E f \in File :
          /\ f \notin call[r].listing.listed
          /\ f \in call[r].listing.names \/ name[f] # Absent
          /\ call' = [call EXCEPT
                ![r].listing.names = @ \ {f},
                ![r].listing.listed = @ \cup {f},
                ![r].listing.gone = IF name[f] = Absent THEN @ \cup {f} ELSE @]
    /\ UNCHANGED <<name, inode, local, broken, gone>>

\* Mutant: the loop ends at the first entry that is to be left out.
ListFilesEnd_early(r) ==
    /\ At(r, "ListFiles", "scan")
    /\ Return(r, "OK")
    /\ UNCHANGED <<local, broken, gone>>

\* readdir may miss files that came or went while it ran.
ListFilesEnd(r) ==
    /\ At(r, "ListFiles", "scan")
    /\ \A f \in call[r].listing.names : name[f] = Absent
    /\ Return(r, "OK")
    /\ UNCHANGED <<local, broken, gone>>

-----------------------------------------------------------------------------
(* The clients *)

Call(c, rpc, f, data) ==
    /\ Idle(c)
    /\ \E r \in Rpc : ~InUse(r) /\ call' = [call EXCEPT ![r] = Request(rpc, c, f, data)]
    /\ UNCHANGED <<name, inode, local, broken, gone>>

\* A file that is not in the mount is not stored.  Fetches by two clients change no
\* more than their own mounts: Fetchers bounds what is explored.
Store(c, f) == local[c][f] # Absent /\ Call(c, "StoreFile", f, local[c][f])
Fetch(c, f) == c \in Fetchers /\ Call(c, "FetchFile", f, << >>)
Delete(c, f) == Call(c, "DeleteFile", f, << >>)
Stat(c, f) == Call(c, "GetFileStatus", f, << >>)
List(c) == Call(c, "ListFiles", Directory, << >>)

\* Nothing more to read: Finish gives the status, and the operation returns.
Finished(r) ==
    /\ InUse(r) /\ call[r].live /\ call[r].at = "done"
    /\ call[r].rpc = "FetchFile" => call[r].opened /\ call[r].stream = << >>

\* The client has returned: nothing is left, or a handler on its own.  One that only
\* reads can do nothing any more that anybody sees.
Leave(r) ==
    LET m == call[r]
        partial == \/ m.rpc = "StoreFile" /\ ~Finished(r)
                   \/ m.rpc = "FetchFile" /\ (m.disturbed \/ ~Finished(r))
    IN  /\ call' = [call EXCEPT ![r] =
              IF m.at = "done" \/ Reads(m.rpc) THEN Unused
              ELSE [m EXCEPT !.live = FALSE, !.disturbed = FALSE]]
        /\ broken' = IF partial THEN broken \cup {m.file} ELSE broken
        /\ UNCHANGED <<name, local>>
        /\ Reclaim

\* Mutant: the local file is opened for appending.
FetchOpen_append(r) ==
    LET m == call[r]
    IN  /\ InUse(r) /\ m.live /\ m.rpc = "FetchFile" /\ ~m.opened
        /\ local' = [local EXCEPT ![m.client][m.file] = IF @ = Absent THEN << >> ELSE @]
        /\ call' = [call EXCEPT ![r].opened = TRUE]
        /\ UNCHANGED <<name, inode, broken, gone>>

\* Fetch truncates or creates the local file as soon as the call is on its way.
FetchOpen(r) ==
    LET m == call[r]
    IN  /\ InUse(r) /\ m.live /\ m.rpc = "FetchFile" /\ ~m.opened
        /\ local' = [local EXCEPT ![m.client][m.file] = << >>]
        /\ call' = [call EXCEPT ![r].opened = TRUE]
        /\ UNCHANGED <<name, inode, broken, gone>>

FetchRead(r) ==
    LET m == call[r]
    IN  /\ InUse(r) /\ m.live /\ m.opened /\ m.stream # << >>
        /\ local' = [local EXCEPT ![m.client][m.file] = @ \o Head(m.stream)]
        /\ call' = [call EXCEPT ![r].stream = Tail(@)]
        /\ UNCHANGED <<name, inode, broken, gone>>

\* The client looks at the status and returns.  A fetch whose status is OK returns
\* NOT_FOUND all the same if no chunk came: it has made the local file empty.
Finish(r) == Finished(r) /\ Leave(r) /\ UNCHANGED gone

\* The deadline expires, the reply is lost, or the local file cannot be opened.
GiveUp(r) ==
    /\ gone < MaxGone
    /\ InUse(r) /\ call[r].live
    /\ Leave(r)
    /\ gone' = gone + 1

\* A call that was given up before the server saw it may never reach it.
DropCall(r) ==
    /\ InUse(r) /\ ~call[r].live /\ call[r].at = "sent"
    /\ call' = [call EXCEPT ![r] = Unused]
    /\ UNCHANGED <<name, inode, local, broken, gone>>

-----------------------------------------------------------------------------
\* The server's files are whole and not empty (StoreFile makes no empty file), and
\* no two names are one file.  Users may have empty files.
Init ==
    /\ name \in [File -> Inode \cup {Absent}]
    /\ \A f, g \in File : name[f] = name[g] /\ name[f] # Absent => f = g
    /\ inode \in [Inode -> Contents \cup {<< >>}]
    /\ \A i \in Inode : (\E f \in File : name[f] = i) <=> inode[i] # << >>
    /\ local \in [Client -> [File -> Contents \cup {<< >>, Absent}]]
    /\ call = [r \in Rpc |-> Unused]
    /\ broken = {}
    /\ gone = 0

ServerStep(r) ==
    \/ StoreFileOpen(r) \/ StoreFileWrite(r) \/ StoreFileWriteFails(r) \/ StoreFileEnd(r)
    \/ FetchFileOpen(r) \/ FetchFileRead(r) \/ FetchFileEnd(r)
    \/ DeleteFile(r) \/ GetFileStatus(r)
    \/ ListFilesOpen(r) \/ ListFilesRead(r) \/ ListFilesEnd(r)

Next ==
    \/ \E c \in Client :
          \/ List(c)
          \/ \E f \in File : Store(c, f) \/ Fetch(c, f) \/ Delete(c, f) \/ Stat(c, f)
    \/ \E r \in Rpc :
          \/ ServerStep(r)
          \/ FetchOpen(r) \/ FetchRead(r) \/ Finish(r)
          \/ GiveUp(r) \/ DropCall(r)

Spec == Init /\ [][Next]_vars

-----------------------------------------------------------------------------
(* Properties *)

AnyBlock == {Hole} \cup UNION { { Block(v, i) : i \in 1..Size[v] } : v \in Version }
Blocks == Seq(AnyBlock)

CallState ==
    [rpc : {"StoreFile", "FetchFile", "DeleteFile", "GetFileStatus", "ListFiles"},
     client : Client, file : File \cup {Directory},
     data : Blocks, at : {"sent", "open", "eof", "scan", "done"}, fd : Inode \cup {Absent},
     pos : Nat, stream : Seq(Blocks), live : BOOLEAN,
     status : {"none", "OK", "NOT_FOUND", "CANCELLED"},
     opened : BOOLEAN, disturbed : BOOLEAN, size : Nat,
     listing : [names : SUBSET File, listed : SUBSET File, gone : SUBSET File]]

\* The types of the variables; a handler that is open has an open file.
TypeOK ==
    /\ name \in [File -> Inode \cup {Absent}]
    /\ inode \in [Inode -> Blocks]
    /\ local \in [Client -> [File -> Blocks \cup {Absent}]]
    /\ call \in [Rpc -> CallState \cup {Unused}]
    /\ broken \subseteq File
    /\ gone \in 0..MaxGone
    /\ \A r \in Rpc : InUse(r) => (call[r].at \in {"open", "eof"} <=> call[r].fd # Absent)

InPlace(s) == \A i \in 1..Len(s) : s[i] = Hole \/ \E v \in Version : s[i] = Block(v, i)

\* Chunks are never lost in the middle, doubled or swapped: whatever runs
\* concurrently or breaks off, each block of each file is at its own place.
ChunksInPlace ==
    /\ \A i \in Inode : InPlace(inode[i])
    /\ \A c \in Client, f \in File : local[c][f] # Absent => InPlace(local[c][f])

\* A fetch that returns OK, and during which nobody changed the server's file, has
\* brought all of it.
FetchedIsSame ==
    \A r \in Rpc :
        /\ At(r, "FetchFile", "done") /\ call[r].status = "OK"
        /\ Finished(r)
        /\ ~call[r].disturbed
        => local[call[r].client][call[r].file] = inode[name[call[r].file]]

\* A store that is answered OK, none of whose writes failed, and during which nobody
\* else changed the file, has put all of it on the server, whoever else reads.
StoredIsSame ==
    \A r \in Rpc :
        At(r, "StoreFile", "done") /\ call[r].status = "OK" /\ ~call[r].disturbed
            => /\ name[call[r].file] # Absent
               /\ inode[name[call[r].file]] = call[r].data

\* What List and Stat tell, if nothing was changed meanwhile, is what there is: all
\* files, none that has gone, and a size that is not that of a half-written file.
AnsweredIsCurrent ==
    \A r \in Rpc :
        LET m == call[r]
        IN  /\ At(r, "ListFiles", "done") /\ m.status = "OK" /\ ~m.disturbed
                => /\ m.listing.listed = { f \in File : name[f] # Absent }
                   /\ m.listing.gone = {}
            /\ At(r, "GetFileStatus", "done") /\ m.status = "OK" /\ ~m.disturbed
                => /\ name[m.file] # Absent
                   /\ m.size = Len(inode[name[m.file]])

\* Stores that overlap mix their chunks and may leave zeroes behind the end of the
\* shorter one, but none before: when the last is through, the file has the length
\* of some version and is filled as far as some version goes, unless before that a
\* write failed, a store or fetch was broken off, or a fetch overlapped a store, whose
\* partial copy may have been stored again.
MixedIsFilled ==
    \A f \in File :
        name[f] # Absent /\ f \notin broken /\ ~BeingStored(name[f]) =>
            LET s == inode[name[f]]
            IN  /\ \E v \in Version : Len(s) = Size[v]
                /\ \E v \in Version : \A i \in 1..Size[v] : i <= Len(s) /\ s[i] # Hole
=============================================================================
