-------------------------- MODULE WriteLocksProofs --------------------------
(***************************************************************************)
(* What WriteLocks promises, for any number of clients, files, versions,   *)
(* chunks and calls in flight.                                             *)
(***************************************************************************)
EXTENDS WriteLocks, SequenceTheorems, TLAPS

-----------------------------------------------------------------------------
(* The data and the records of calls *)

\* The content of an empty file, which a Store may read, is a content.
LEMMA EmptyIsContent == << >> \in Content
  BY ChunkValues, EmptySeq DEF Content

\* The copy of a version that a Store reads has all the chunks.
LEMMA WholeLength ==
    ASSUME NEW v \in Version
    PROVE  Whole(v) \in Seq(Version) /\ Len(Whole(v)) = NChunks
  BY ChunkValues, IsASeq DEF Whole

\* What a Store reads from the mount can be a file on the server.
LEMMA LocalIsContent == LocalContent \subseteq Content
  <1>1. SUFFICES ASSUME NEW v \in Version PROVE Whole(v) \in Content
    BY EmptyIsContent DEF LocalContent
  <1>2. Whole(v) \in Seq(Version \cup {Hole}) /\ Len(Whole(v)) <= NChunks
    BY WholeLength, ChunkValues
  <1> QED BY <1>2 DEF Content

\* A client's copy is one of the copies there are.
LEMMA LocalOfClient == ASSUME NEW c \in Client PROVE Local(c) \subseteq LocalContent
  BY CopyValues DEF Local, LocalContent

\* outfile.write keeps a file a sequence of at most NChunks chunks.
LEMMA WriteAtContent ==
    ASSUME NEW s \in Content, NEW pos \in 0..NChunks, pos < NChunks,
           NEW chunk \in Version \cup {Hole}
    PROVE  WriteAt(s, pos, chunk) \in Content
  BY ChunkValues DEF WriteAt, Content

\* Writing the next chunk of d at the end of a prefix of d gives the longer
\* prefix: a StoreFile that nobody disturbs copies its stream.
LEMMA WriteAtPrefix ==
    ASSUME NEW d \in Content, NEW pos \in 0..NChunks, pos < Len(d)
    PROVE  WriteAt(SubSeq(d, 1, pos), pos, d[pos + 1]) = SubSeq(d, 1, pos + 1)
  BY ChunkValues DEF WriteAt, Content

\* The prefixes a StoreFile starts from and ends with.
LEMMA WholePrefix ==
    ASSUME NEW d \in Content
    PROVE  SubSeq(d, 1, Len(d)) = d /\ SubSeq(d, 1, 0) = << >>
  BY DEF Content

\* What a client sends is a call.
LEMMA RequestType ==
    ASSUME NEW rpc \in Procedure, NEW op \in {"Store", "Delete"},
           NEW c \in Client, NEW f \in File, NEW d \in Content
    PROVE  Request(rpc, op, c, f, d) \in CallState
  BY EmptyIsContent, ChunkValues DEF Request, CallState, Progress, Status

\* What a handler leaves behind when it returns is a call or nothing.
LEMMA AnsweredType ==
    ASSUME NEW m \in CallState, NEW status \in Status, NEW crc \in Content
    PROVE  Answered(m, status, crc) \in CallState \cup {Unused}
  <1>1. CASE m.live
    <2>1. Request(m.rpc, m.op, m.client, m.file, m.data) \in CallState
      BY RequestType DEF CallState
    <2>2. [Request(m.rpc, m.op, m.client, m.file, m.data)
             EXCEPT !.at = "done", !.status = status, !.crc = crc] \in CallState
      BY <2>1 DEF CallState, Progress
    <2> QED BY <1>1, <2>2 DEF Answered
  <1>2. CASE ~m.live
    BY <1>2 DEF Answered
  <1> QED BY <1>1, <1>2

\* A call in flight is told from a free identity by its progress.
LEMMA UnusedIsNoCall == ASSUME NEW m \in CallState PROVE m.at # "unused"
  BY DEF CallState, Progress

\* A call in use has the fields of a call.
LEMMA UseType ==
    ASSUME TypeOK, NEW r \in Rpc
    PROVE  /\ InUse(r) => call[r] \in CallState
           /\ ~InUse(r) => call[r] = Unused
  BY UnusedIsNoCall DEF TypeOK, InUse, Unused

-----------------------------------------------------------------------------
(* The inductive invariant *)

\* A file that a handler has open under its name exists.
LinkedExists ==
    \A r \in Rpc : InUse(r) /\ call[r].at = "open" /\ call[r].linked
        => disk[call[r].file] # Absent

\* Which handlers reach which points, and what they may have written.
CallShape ==
    \A r \in Rpc : InUse(r) =>
        /\ call[r].data \in LocalContent
        /\ call[r].pos <= Len(call[r].data)
        /\ call[r].at \in {"sent", "found", "checked", "done"} => call[r].pos = 0
        /\ call[r].at = "found" => call[r].rpc = "GetFileStatus"
        /\ call[r].at \in {"open", "stored"} => call[r].rpc = "StoreFile"
        /\ call[r].at = "removed" => call[r].rpc = "DeleteFile"
        /\ call[r].at = "checked" => call[r].rpc \in {"StoreFile", "DeleteFile"}

\* A client waits for one call at a time.
OneLiveCall ==
    \A q, r \in Rpc :
        /\ InUse(q) /\ call[q].live
        /\ InUse(r) /\ call[r].live
        /\ call[q].client = call[r].client
        => q = r

\* Without abandoned calls every call on the file has its client waiting.
Attended ==
    \A r \in Rpc : InUse(r) /\ "abandon" \notin fault[call[r].file] => call[r].live

\* ... and the lock a handler has checked is still its client's.
Holding ==
    \A r \in Rpc : Past(r) /\ "abandon" \notin fault[call[r].file]
        => file_write_locks[call[r].file] = call[r].client

\* The client was granted the lock and has not been told of its release.
Granted(r) ==
    \/ call[r].rpc = "RequestWriteAccess" /\ call[r].at = "done" /\ call[r].status = "OK"
    \/ call[r].rpc = "GetFileStatus"
    \/ call[r].rpc \in {"StoreFile", "DeleteFile"} /\ call[r].at # "done"

\* Without an abandoned call or a restart the lock is the client's from the grant
\* to the release.
GrantedHolds ==
    \A r \in Rpc : /\ InUse(r) /\ Granted(r)
                   /\ "abandon" \notin fault[call[r].file]
                   /\ "restart" \notin fault[call[r].file]
        => file_write_locks[call[r].file] = call[r].client

\* What an attended handler has done so far, as long as its writes succeed, is
\* what the disk holds.
OnDisk ==
    \A r \in Rpc : InUse(r) /\ "abandon" \notin fault[call[r].file] =>
        /\ call[r].at = "open" => call[r].linked
        /\ call[r].at = "removed" => disk[call[r].file] = Absent
        /\ "write" \notin fault[call[r].file] =>
              /\ call[r].at = "open" =>
                    disk[call[r].file] = SubSeq(call[r].data, 1, call[r].pos)
              /\ call[r].at = "stored" => disk[call[r].file] = call[r].data

Inv == /\ TypeOK
       /\ LinkedExists
       /\ CallShape
       /\ OneLiveCall
       /\ Attended
       /\ Holding
       /\ GrantedHolds
       /\ OnDisk
       /\ SuccessReleasesLock
       /\ NoOwnerlessLock
       /\ WholeFilesOnServer

-----------------------------------------------------------------------------
(* Types *)

\* The server starts with variables of their types.
LEMMA InitType == Init => TypeOK
  BY LocalIsContent DEF Init, TypeOK

\* Returning a status keeps the calls calls.
LEMMA ReturnType ==
    ASSUME TypeOK, NEW r \in Rpc, InUse(r), NEW status \in Status, Return(r, status)
    PROVE  call' \in [Rpc -> CallState \cup {Unused}]
  BY UseType, AnsweredType, EmptyIsContent DEF TypeOK, Return

\* A handler that goes on stays a call.
LEMMA MoveType ==
    ASSUME TypeOK, NEW r \in Rpc, InUse(r), NEW where \in Progress, MoveTo(r, where)
    PROVE  call' \in [Rpc -> CallState \cup {Unused}]
  <1>1. [call[r] EXCEPT !.at = where] \in CallState
    BY UseType DEF CallState
  <1> QED BY <1>1 DEF TypeOK, MoveTo

\* The next call of a Store or Delete is a call.
LEMMA NextCallType ==
    ASSUME TypeOK, NEW r \in Rpc, InUse(r), NEW rpc \in Procedure,
           NEW d \in Content, CallNext(r, rpc, d)
    PROVE  call' \in [Rpc -> CallState \cup {Unused}]
  <1>1. Request(rpc, call[r].op, call[r].client, call[r].file, d) \in CallState
    BY UseType, RequestType DEF CallState
  <1> QED BY <1>1 DEF TypeOK, CallNext

\* An operation that ends frees the identity of its call.
LEMMA FinishType ==
    ASSUME TypeOK, NEW r \in Rpc, Finish(r)
    PROVE  call' \in [Rpc -> CallState \cup {Unused}]
  BY DEF TypeOK, Finish

\* The lock check of StoreFile and DeleteFile keeps the types.
LEMMA CheckLockType ==
    ASSUME TypeOK, NEW r \in Rpc, InUse(r), CheckLock(r)
    PROVE  TypeOK'
  <1>1. call' \in [Rpc -> CallState \cup {Unused}]
    BY ReturnType, MoveType DEF CheckLock, Status, Progress
  <1> QED BY <1>1, UseType DEF TypeOK, CheckLock, Looked

\* The release of the lock keeps the types.
LEMMA EraseLockType ==
    ASSUME TypeOK, NEW r \in Rpc, InUse(r), EraseLock(r)
    PROVE  TypeOK'
  <1>1. call' \in [Rpc -> CallState \cup {Unused}]
    BY ReturnType DEF EraseLock, Status
  <1> QED BY <1>1, UseType DEF TypeOK, EraseLock

\* The steps of the server's handlers keep the types.
LEMMA ServerType ==
    ASSUME TypeOK, LinkedExists, NEW r \in Rpc, ServerStep(r)
    PROVE  TypeOK'
  <1> USE DEF At
  <1>0. InUse(r) /\ call[r] \in CallState
    <2>1. InUse(r)
      BY DEF ServerStep, RequestWriteAccess, GetFileStatus, StatFile,
             ChecksumFile, StoreFileCheck, StoreFileOpen, StoreFileWrite,
             StoreFileWriteFails, StoreFileEnd, StoreFileRelease, DeleteFileCheck, DeleteFileRemove, DeleteFileRelease
    <2> QED BY <2>1, UseType
  <1>a. call[r].file \in File /\ call[r].client \in Client
    BY <1>0 DEF CallState
  <1>1. CASE RequestWriteAccess(r)
    <2>1. call' \in [Rpc -> CallState \cup {Unused}]
      BY <1>0, <1>1, ReturnType DEF RequestWriteAccess, Status
    <2> QED BY <1>1, <1>a, <2>1 DEF RequestWriteAccess, TypeOK
  <1>2. CASE GetFileStatus(r)
    <2>1. CASE StatFile(r)
      <3>1. call' \in [Rpc -> CallState \cup {Unused}]
        BY <1>0, <2>1, ReturnType, MoveType DEF StatFile, Status, Progress
      <3> QED BY <2>1, <3>1 DEF StatFile, TypeOK
    <2>2. CASE ChecksumFile(r)
      <3> DEFINE crc == IF disk[call[r].file] = Absent THEN << >> ELSE disk[call[r].file]
      <3>1. crc \in Content
        BY <1>a, EmptyIsContent DEF TypeOK
      <3>2. Answered(call[r], "OK", crc) \in CallState \cup {Unused}
        BY <1>0, <3>1, AnsweredType DEF Status
      <3> QED BY <2>2, <3>2 DEF ChecksumFile, TypeOK
    <2> QED BY <1>2, <2>1, <2>2 DEF GetFileStatus
  <1>3. CASE StoreFileCheck(r)
    BY <1>0, <1>3, CheckLockType DEF StoreFileCheck
  <1>4. CASE StoreFileOpen(r)
    <2>1. CASE Return(r, "CANCELLED") /\ UNCHANGED disk
      BY <1>0, <1>4, <2>1, ReturnType DEF StoreFileOpen, TypeOK, Status
    <2>2. CASE /\ disk' = [disk EXCEPT ![call[r].file] = << >>]
               /\ call' = [call EXCEPT ![r].at = "open", ![r].linked = TRUE]
      <3>1. [call[r] EXCEPT !.at = "open", !.linked = TRUE] \in CallState
        BY <1>0 DEF CallState, Progress
      <3>2. call' \in [Rpc -> CallState \cup {Unused}]
        BY <2>2, <3>1 DEF TypeOK
      <3> QED BY <1>4, <1>a, <2>2, <3>2, EmptyIsContent DEF StoreFileOpen, TypeOK
    <2> QED BY <1>4, <2>1, <2>2 DEF StoreFileOpen
  <1>5. CASE StoreFileWrite(r)
    <2>1. [call[r] EXCEPT !.pos = call[r].pos + 1] \in CallState
      BY <1>0, <1>5, ChunkValues, SMTT(30) DEF StoreFileWrite, CallState, Content
    <2>2. call' \in [Rpc -> CallState \cup {Unused}]
      <3>1. call' = [call EXCEPT ![r] = [call[r] EXCEPT !.pos = call[r].pos + 1]]
        BY <1>5 DEF StoreFileWrite
      <3> QED BY <2>1, <3>1 DEF TypeOK
    <2>3. disk' \in [File -> Content \cup {Absent}]
      <3>1. CASE call[r].linked
        <4>1. disk[call[r].file] \in Content
          BY <1>0, <1>a, <1>5, <3>1 DEF StoreFileWrite, LinkedExists, TypeOK
        <4>2. call[r].data[call[r].pos + 1] \in Version \cup {Hole}
          BY <1>0, <1>5, ChunkValues DEF StoreFileWrite, CallState, Content
        <4>3. call[r].pos < NChunks /\ call[r].pos \in 0..NChunks
          BY <1>0, <1>5, ChunkValues DEF StoreFileWrite, CallState, Content
        <4>4. WriteAt(disk[call[r].file], call[r].pos, call[r].data[call[r].pos + 1])
                \in Content
          BY <4>1, <4>2, <4>3, WriteAtContent
        <4> QED BY <1>5, <1>a, <3>1, <4>4 DEF StoreFileWrite, TypeOK
      <3>2. CASE ~call[r].linked
        BY <1>5, <3>2 DEF StoreFileWrite, TypeOK
      <3> QED BY <3>1, <3>2
    <2> QED BY <1>5, <2>2, <2>3 DEF StoreFileWrite, TypeOK
  <1>6. CASE StoreFileEnd(r)
    <2>1. call' \in [Rpc -> CallState \cup {Unused}]
      BY <1>0, <1>6, ReturnType, MoveType DEF StoreFileEnd, Status, Progress
    <2> QED BY <1>6, <2>1 DEF StoreFileEnd, TypeOK
  <1>7. CASE StoreFileRelease(r)
    BY <1>0, <1>7, EraseLockType DEF StoreFileRelease
  <1>8. CASE DeleteFileCheck(r)
    BY <1>0, <1>8, CheckLockType DEF DeleteFileCheck
  <1>9. CASE DeleteFileRemove(r)
    <2>1. call' \in [Rpc -> CallState \cup {Unused}]
      <3>1. [call[r] EXCEPT !.at = "removed"] \in CallState
        BY <1>0 DEF CallState, Progress
      <3>2. ASSUME NEW q \in Rpc
            PROVE  Unlinked(call[q], call[r].file) \in CallState \cup {Unused}
        BY UseType, ZenonT(60) DEF Unlinked, CallState, Unused
      <3> QED BY <1>0, <1>9, <3>1, <3>2, ReturnType DEF DeleteFileRemove, Status
    <2>2. disk' \in [File -> Content \cup {Absent}]
      BY <1>9 DEF DeleteFileRemove, TypeOK
    <2> QED BY <1>9, <2>1, <2>2 DEF DeleteFileRemove, TypeOK
  <1>10. CASE DeleteFileRelease(r)
    BY <1>0, <1>10, EraseLockType DEF DeleteFileRelease
  <1>11. CASE StoreFileWriteFails(r)
    <2>1. Len(call[r].data) \in 0..NChunks
      BY <1>0, ChunkValues DEF CallState, Content
    <2>2. [call[r] EXCEPT !.pos = Len(call[r].data)] \in CallState
      BY <1>0, <2>1 DEF CallState
    <2> QED BY <1>11, <1>a, <2>2 DEF StoreFileWriteFails, TypeOK
  <1> QED BY <1>1, <1>2, <1>3, <1>4, <1>5, <1>6, <1>7, <1>8, <1>9, <1>10, <1>11
          DEF ServerStep

\* The steps of Store and Delete, and their failures, keep the types.
LEMMA ClientType ==
    ASSUME TypeOK, NEW r \in Rpc, ClientStep(r) \/ GiveUp(r) \/ DropCall(r)
    PROVE  TypeOK'
  <1>0. InUse(r) /\ call[r] \in CallState
    <2>1. InUse(r)
      BY DEF ClientStep, LockReply, StatReply, FinalReply, GiveUp, DropCall, At
    <2> QED BY <2>1, UseType
  <1>a. Local(call[r].client) \subseteq LocalContent /\ call[r].file \in File
    BY <1>0, LocalOfClient DEF CallState
  <1>1. CASE ClientStep(r)
    <2>1. call' \in [Rpc -> CallState \cup {Unused}]
      BY <1>0, <1>a, <1>1, NextCallType, FinishType, LocalIsContent, EmptyIsContent
         DEF ClientStep, LockReply, StatReply, FinalReply, Procedure
    <2> QED BY <1>1, <2>1
            DEF ClientStep, LockReply, StatReply, FinalReply, TypeOK
  <1>2. CASE GiveUp(r)
    <2>1. [call[r] EXCEPT !.live = FALSE] \in CallState
      BY <1>0 DEF CallState
    <2>2. call' \in [Rpc -> CallState \cup {Unused}]
      <3>1. CASE \E d \in Local(call[r].client) : CallNext(r, "StoreFile", d)
        BY <1>0, <1>a, <3>1, NextCallType, LocalIsContent DEF Procedure
      <3>2. CASE call' = [call EXCEPT ![r].live = FALSE]
        BY <2>1, <3>2 DEF TypeOK
      <3>3. CASE Finish(r)
        BY <3>3, FinishType
      <3> QED BY <1>2, <3>1, <3>2, <3>3 DEF GiveUp
    <2> QED BY <1>2, <1>a, <2>2 DEF GiveUp, TypeOK
  <1>3. CASE DropCall(r)
    BY <1>3, FinishType DEF DropCall, TypeOK
  <1> QED BY <1>1, <1>2, <1>3

\* Every step keeps the types.
LEMMA NextType ==
    ASSUME TypeOK, LinkedExists, Next
    PROVE  TypeOK'
  <1>1. ASSUME NEW c \in Client, NEW op \in {"Store", "Delete"}, NEW f \in File,
               Begin(c, op, f)
        PROVE  TypeOK'
    <2>1. Request("RequestWriteAccess", op, c, f, << >>) \in CallState
      BY RequestType, EmptyIsContent DEF Procedure
    <2> QED BY <1>1, <2>1 DEF Begin, TypeOK
  <1>2. CASE ServerRestart
    <2>1. ASSUME NEW r \in Rpc, InUse(r)
          PROVE  Answered(call[r], "UNAVAILABLE", << >>) \in CallState \cup {Unused}
      BY <2>1, UseType, AnsweredType, EmptyIsContent DEF Status
    <2>2. call' \in [Rpc -> CallState \cup {Unused}]
      BY <1>2, <2>1 DEF ServerRestart, TypeOK
    <2> QED BY <1>2, <2>2 DEF ServerRestart, TypeOK
  <1> QED BY <1>1, <1>2, ServerType, ClientType DEF Next

-----------------------------------------------------------------------------
(* Calls other than the one that takes the step *)

\* A step of one call keeps its client and file, revives no client, and leaves
\* the other calls alone, but for the name of a file they have open.
LEMMA CallFrame ==
    ASSUME TypeOK, NEW r \in Rpc,
           ServerStep(r) \/ ClientStep(r) \/ GiveUp(r) \/ DropCall(r)
    PROVE  /\ InUse(r)
           /\ InUse(r)' => /\ call'[r].client = call[r].client
                           /\ call'[r].file = call[r].file
                           /\ \/ call'[r].live = call[r].live
                              \/ /\ GiveUp(r)
                                 /\ ~call'[r].live
                                 /\ "abandon" \in fault'[call[r].file]
           /\ \A q \in Rpc \ {r} :
                 \/ call'[q] = call[q]
                 \/ DeleteFileRemove(r) /\ call'[q] = Unlinked(call[q], call[r].file)
           /\ \A f \in File : fault[f] \subseteq fault'[f]
  <1> DEFINE Kept ==
        /\ InUse(r)' => /\ call'[r].client = call[r].client
                        /\ call'[r].file = call[r].file
                        /\ call'[r].live = call[r].live
        /\ \A q \in Rpc \ {r} : call'[q] = call[q]
  <1>0. InUse(r) /\ call[r] \in CallState
    <2>1. InUse(r)
      BY DEF ServerStep, RequestWriteAccess, GetFileStatus, StatFile,
             ChecksumFile, StoreFileCheck, StoreFileOpen, StoreFileWrite,
             StoreFileWriteFails, StoreFileEnd, StoreFileRelease, DeleteFileCheck, DeleteFileRemove, DeleteFileRelease, ClientStep,
             LockReply, StatReply, FinalReply, GiveUp, DropCall, At
    <2> QED BY <2>1, UseType
  <1>1. ASSUME NEW status, NEW crc,
               call' = [call EXCEPT ![r] = Answered(@, status, crc)]
        PROVE  Kept
    <2>1. /\ call'[r] = Answered(call[r], status, crc)
          /\ \A q \in Rpc \ {r} : call'[q] = call[q]
      BY <1>1 DEF TypeOK
    <2>2. CASE call[r].live
      BY <2>1, <2>2 DEF Answered, Request
    <2>3. CASE ~call[r].live
      BY <2>1, <2>3 DEF Answered, InUse, Unused
    <2> QED BY <2>2, <2>3
  <1>2. ASSUME NEW m, call' = [call EXCEPT ![r] = m],
               m.client = call[r].client, m.file = call[r].file,
               m.live = call[r].live
        PROVE  Kept
    BY <1>2 DEF TypeOK
  <1>3. ASSUME NEW where, MoveTo(r, where) PROVE Kept
    BY <1>0, <1>3 DEF MoveTo, TypeOK, CallState
  <1>4. ASSUME NEW rpc, NEW d, CallNext(r, rpc, d), call[r].live PROVE Kept
    BY <1>2, <1>4 DEF CallNext, Request
  <1>5. ASSUME Finish(r) PROVE Kept
    BY <1>5 DEF Finish, TypeOK, InUse, Unused
  <1>6. CASE DeleteFileRemove(r)
    <2>1. CASE \E status \in Status : Return(r, status)
      BY <1>0, <1>1, <1>6, <2>1 DEF Return, DeleteFileRemove
    <2>2. CASE ~ \E status \in Status : Return(r, status)
      BY <1>0, <1>6, <2>2 DEF DeleteFileRemove, Status, CallState
    <2> QED BY <2>1, <2>2
  <1>7. CASE ServerStep(r) /\ ~DeleteFileRemove(r) /\ ~StoreFileWriteFails(r)
    <2>1. Kept
      <3>1. CASE RequestWriteAccess(r) \/ StoreFileEnd(r)
        BY <1>1, <1>3, <3>1 DEF RequestWriteAccess, StoreFileEnd, Return
      <3>2. CASE GetFileStatus(r)
        BY <1>1, <1>3, <3>2 DEF GetFileStatus, StatFile, ChecksumFile, Return
      <3>3. CASE StoreFileCheck(r) \/ DeleteFileCheck(r)
        BY <1>1, <1>3, <3>3 DEF StoreFileCheck, DeleteFileCheck, CheckLock, Return
      <3>4. CASE StoreFileOpen(r)
        BY <1>0, <1>1, <3>4 DEF StoreFileOpen, Return, TypeOK, CallState
      <3>5. CASE StoreFileWrite(r)
        BY <1>0, <3>5 DEF StoreFileWrite, TypeOK, CallState
      <3>6. CASE StoreFileRelease(r) \/ DeleteFileRelease(r)
        BY <1>1, <3>6 DEF StoreFileRelease, DeleteFileRelease, EraseLock, Return
      <3> QED BY <1>7, <3>1, <3>2, <3>3, <3>4, <3>5, <3>6 DEF ServerStep
    <2>2. UNCHANGED fault
      BY <1>7 DEF ServerStep, RequestWriteAccess, GetFileStatus, StatFile,
             ChecksumFile, StoreFileCheck, StoreFileOpen, StoreFileWrite,
             StoreFileWriteFails, StoreFileEnd, StoreFileRelease, DeleteFileCheck, DeleteFileRelease, CheckLock, EraseLock
    <2> QED BY <1>0, <2>1, <2>2
  <1>8. CASE ClientStep(r)
    <2>1. Kept /\ UNCHANGED fault
      BY <1>4, <1>5, <1>8 DEF ClientStep, LockReply, StatReply, FinalReply
    <2> QED BY <1>0, <2>1
  <1>9. CASE GiveUp(r)
    <2>1. CASE /\ call' = [call EXCEPT ![r].live = FALSE]
               /\ fault' = [fault EXCEPT ![call[r].file] = @ \cup {"abandon"}]
      <3>1. call[r].file \in File
        BY <1>0 DEF CallState
      <3>2. \A f \in File : fault[f] \subseteq fault'[f]
        BY <2>1 DEF TypeOK
      <3>3. "abandon" \in fault'[call[r].file]
        BY <2>1, <3>1 DEF TypeOK
      <3>4. /\ call'[r].client = call[r].client
            /\ call'[r].file = call[r].file
            /\ ~call'[r].live
            /\ \A q \in Rpc \ {r} : call'[q] = call[q]
        BY <1>0, <2>1 DEF TypeOK, CallState
      <3> QED BY <1>0, <1>9, <3>2, <3>3, <3>4
    <2>2. CASE Kept /\ UNCHANGED fault
      BY <1>0, <2>2
    <2> QED BY <1>4, <1>5, <1>9, <2>1, <2>2 DEF GiveUp
  <1>10. CASE DropCall(r)
    BY <1>0, <1>5, <1>10 DEF DropCall
  <1>11. CASE StoreFileWriteFails(r)
    <2>1. Kept
      BY <1>0, <1>11 DEF StoreFileWriteFails, TypeOK, CallState
    <2>2. \A f \in File : fault[f] \subseteq fault'[f]
      BY <1>11 DEF StoreFileWriteFails, TypeOK
    <2> QED BY <1>0, <2>1, <2>2
  <1> QED BY <1>6, <1>7, <1>8, <1>9, <1>10, <1>11

\* A client waits for one call at a time, and a call nobody waits for has
\* been recorded as abandoned.
LEMMA LiveInv ==
    ASSUME TypeOK, OneLiveCall, Attended, TypeOK', Next
    PROVE  OneLiveCall' /\ Attended'
  <1>1. ASSUME NEW r \in Rpc,
               ServerStep(r) \/ ClientStep(r) \/ GiveUp(r) \/ DropCall(r)
        PROVE  OneLiveCall' /\ Attended'
    <2>1. ASSUME NEW q \in Rpc, InUse(q)'
          PROVE  /\ InUse(q)
                 /\ call'[q].client = call[q].client
                 /\ call'[q].file = call[q].file
                 /\ call'[q].live => call[q].live
                 /\ "abandon" \notin fault'[call[q].file] => call'[q].live = call[q].live
      <3>1. CASE q = r
        BY <1>1, <2>1, <3>1, CallFrame
      <3>2. CASE q # r /\ call'[q] = call[q]
        BY <2>1, <3>2 DEF InUse
      <3>3. CASE q # r /\ call'[q] = Unlinked(call[q], call[r].file)
        <4>1. InUse(q)
          BY <2>1, <3>3 DEF Unlinked, InUse
        <4> QED BY <3>3, <4>1, UseType DEF Unlinked, CallState
      <3> QED BY <1>1, <3>1, <3>2, <3>3, CallFrame
    <2>2. \A q \in Rpc : InUse(q)' => fault[call[q].file] \subseteq fault'[call[q].file]
      BY <1>1, <2>1, CallFrame, UseType DEF CallState
    <2> QED BY <2>1, <2>2 DEF OneLiveCall, Attended
  <1>2. ASSUME NEW c \in Client, NEW op \in {"Store", "Delete"}, NEW f \in File,
               Begin(c, op, f)
        PROVE  OneLiveCall' /\ Attended'
    BY <1>2 DEF Begin, Idle, Request, InUse, OneLiveCall, Attended, TypeOK
  <1>3. CASE ServerRestart
    <2>1. ASSUME NEW q \in Rpc, InUse(q)'
          PROVE  /\ InUse(q)
                 /\ call'[q].client = call[q].client
                 /\ call'[q].file = call[q].file
                 /\ call'[q].live = call[q].live
      BY <1>3, <2>1 DEF ServerRestart, Answered, Request, InUse, Unused, TypeOK
    <2>2. \A g \in File : fault[g] \subseteq fault'[g]
      BY <1>3 DEF ServerRestart
    <2> QED BY <2>1, <2>2, UseType DEF OneLiveCall, Attended, CallState
  <1> QED BY <1>1, <1>2, <1>3 DEF Next

\* A request starts at chunk 0 of a local file; a handler moves forward only.
LEMMA ShapeInv ==
    ASSUME TypeOK, CallShape, TypeOK', Next
    PROVE  CallShape'
  <1> DEFINE Good(m) ==
        /\ m.data \in LocalContent
        /\ m.pos <= Len(m.data)
        /\ m.at \in {"sent", "found", "checked", "done"} => m.pos = 0
        /\ m.at = "found" => m.rpc = "GetFileStatus"
        /\ m.at \in {"open", "stored"} => m.rpc = "StoreFile"
        /\ m.at = "removed" => m.rpc = "DeleteFile"
        /\ m.at = "checked" => m.rpc \in {"StoreFile", "DeleteFile"}
  <1>0. \A d \in LocalContent : Len(d) \in Nat
    BY LocalIsContent DEF Content
  <1>e. << >> \in LocalContent
    BY DEF LocalContent
  <1>1. ASSUME NEW rpc, NEW op, NEW c, NEW f, NEW d \in LocalContent
        PROVE  Good(Request(rpc, op, c, f, d))
    BY <1>0 DEF Request
  <1>2. ASSUME NEW q \in Rpc, InUse(q), NEW status, NEW crc, call[q].live
        PROVE  Good(Answered(call[q], status, crc))
    BY <1>0, <1>2 DEF CallShape, Answered, Request
  <1>3. ASSUME NEW q \in Rpc, InUse(q), ~call[q].live, NEW status, NEW crc
        PROVE  Answered(call[q], status, crc) = Unused
    BY <1>3 DEF Answered
  <1>4. ASSUME NEW r \in Rpc,
               ServerStep(r) \/ ClientStep(r) \/ GiveUp(r) \/ DropCall(r)
        PROVE  CallShape'
    <2>0. InUse(r) /\ call[r] \in CallState /\ Good(call[r])
      BY <1>4, CallFrame, UseType DEF CallShape
    <2>l. Local(call[r].client) \subseteq LocalContent
      BY <2>0, LocalOfClient DEF CallState
    <2>1. ASSUME NEW q \in Rpc, q # r, InUse(q)'
          PROVE  Good(call'[q])
      <3>1. CASE call'[q] = call[q]
        BY <2>1, <3>1 DEF InUse, CallShape
      <3>2. CASE call'[q] = Unlinked(call[q], call[r].file)
        <4>1. InUse(q)
          BY <2>1, <3>2 DEF Unlinked, InUse
        <4> QED BY <3>2, <4>1, UseType DEF Unlinked, CallState, CallShape
      <3> QED BY <1>4, <2>1, <3>1, <3>2, CallFrame
    <2>2. ASSUME InUse(r)'
          PROVE  Good(call'[r])
      <3>1. ASSUME NEW status, NEW crc,
                   call' = [call EXCEPT ![r] = Answered(@, status, crc)]
            PROVE  Good(call'[r])
        <4>1. call'[r] = Answered(call[r], status, crc)
          BY <3>1 DEF TypeOK
        <4>2. CASE call[r].live
          BY <1>2, <2>0, <4>1, <4>2
        <4>3. CASE ~call[r].live
          BY <2>0, <2>2, <4>1, <4>3 DEF Answered, InUse, Unused
        <4> QED BY <4>2, <4>3
      <3>2. ASSUME NEW rpc, NEW d \in LocalContent, CallNext(r, rpc, d)
            PROVE  Good(call'[r])
        BY <1>1, <3>2 DEF CallNext, TypeOK
      <3>3. ASSUME Finish(r) PROVE FALSE
        BY <2>2, <3>3 DEF Finish, TypeOK, InUse, Unused
      <3>4. CASE ServerStep(r)
        <4>1. CASE RequestWriteAccess(r)
          BY <3>1, <4>1 DEF RequestWriteAccess, Return
        <4>2. CASE GetFileStatus(r)
          <5>1. CASE At(r, "GetFileStatus", "sent") /\ MoveTo(r, "found")
            BY <2>0, <5>1 DEF At, MoveTo, CallState, TypeOK
          <5> QED BY <3>1, <4>2, <5>1 DEF GetFileStatus, StatFile, ChecksumFile, Return
        <4>3. CASE StoreFileCheck(r) \/ DeleteFileCheck(r)
          <5>1. CASE MoveTo(r, "checked")
            BY <2>0, <4>3, <5>1 DEF StoreFileCheck, DeleteFileCheck, At, MoveTo, CallState, TypeOK
          <5> QED BY <3>1, <4>3, <5>1
                  DEF StoreFileCheck, DeleteFileCheck, CheckLock, Return
        <4>4. CASE StoreFileOpen(r)
          <5>1. CASE call' = [call EXCEPT ![r].at = "open", ![r].linked = TRUE]
            BY <2>0, <4>4, <5>1 DEF StoreFileOpen, At, CallState, TypeOK
          <5> QED BY <3>1, <4>4, <5>1 DEF StoreFileOpen, Return
        <4>5. CASE StoreFileWrite(r)
          BY <1>0, <2>0, <4>5 DEF StoreFileWrite, At, CallState, TypeOK
        <4>9. CASE StoreFileWriteFails(r)
          BY <1>0, <2>0, <4>9 DEF StoreFileWriteFails, At, CallState, TypeOK
        <4>6. CASE StoreFileEnd(r)
          <5>1. CASE At(r, "StoreFile", "open") /\ MoveTo(r, "stored")
            BY <2>0, <5>1 DEF At, MoveTo, CallState, TypeOK
          <5> QED BY <3>1, <4>6, <5>1 DEF StoreFileEnd, Return
        <4>7. CASE StoreFileRelease(r) \/ DeleteFileRelease(r)
          BY <3>1, <4>7 DEF StoreFileRelease, DeleteFileRelease, EraseLock, Return
        <4>8. CASE DeleteFileRemove(r)
          <5>1. CASE call'[r] = [call[r] EXCEPT !.at = "removed"]
            BY <2>0, <4>8, <5>1 DEF DeleteFileRemove, At, CallState
          <5> QED BY <3>1, <4>8, <5>1 DEF DeleteFileRemove, Return
        <4> QED BY <3>4, <4>1, <4>2, <4>3, <4>4, <4>5, <4>6, <4>7, <4>8, <4>9
                DEF ServerStep
      <3>5. CASE ClientStep(r)
        BY <1>e, <2>0, <2>l, <3>2, <3>3, <3>5
           DEF ClientStep, LockReply, StatReply, FinalReply
      <3>6. CASE GiveUp(r)
        <4>1. CASE call' = [call EXCEPT ![r].live = FALSE]
          BY <2>0, <4>1 DEF CallState, TypeOK
        <4> QED BY <2>0, <2>l, <3>2, <3>3, <3>6, <4>1 DEF GiveUp
      <3>7. CASE DropCall(r)
        BY <3>3, <3>7 DEF DropCall
      <3> QED BY <1>4, <3>4, <3>5, <3>6, <3>7
    <2> QED BY <2>1, <2>2 DEF CallShape
  <1>5. ASSUME NEW c \in Client, NEW op \in {"Store", "Delete"}, NEW f \in File,
               Begin(c, op, f)
        PROVE  CallShape'
    BY <1>1, <1>5, <1>e DEF Begin, CallShape, TypeOK, InUse
  <1>6. CASE ServerRestart
    <2>1. ASSUME NEW q \in Rpc, InUse(q)'
          PROVE  Good(call'[q])
      <3>1. CASE call'[q] = call[q]
        BY <2>1, <3>1 DEF CallShape, InUse
      <3>2. CASE InUse(q) /\ call'[q] = Answered(call[q], "UNAVAILABLE", << >>)
        BY <1>2, <1>3, <2>1, <3>2 DEF InUse, Unused
      <3> QED BY <1>6, <3>1, <3>2 DEF ServerRestart
    <2> QED BY <2>1 DEF CallShape
  <1> QED BY <1>4, <1>5, <1>6 DEF Next

-----------------------------------------------------------------------------
(* The lock table *)

\* A StoreFile or DeleteFile has answered OK.
Succeeded(r) ==
    /\ At(r, "StoreFile", "done") \/ At(r, "DeleteFile", "done")
    /\ call[r].status = "OK"

\* How a step takes a call past the lock check, to a grant, or to success.
LEMMA Moves ==
    ASSUME TypeOK, CallShape, NEW r \in Rpc,
           ServerStep(r) \/ ClientStep(r) \/ GiveUp(r) \/ DropCall(r),
           NEW q \in Rpc, InUse(q)'
    PROVE  /\ InUse(q)
           /\ call'[q].client = call[q].client
           /\ call'[q].file = call[q].file
           /\ Past(q)' => \/ Past(q)
                          \/ /\ q = r /\ CheckLock(r)
                             /\ file_write_locks[call[r].file] = call[r].client
           /\ Granted(q)' => Granted(q) \/ (q = r /\ RequestWriteAccess(r)
                                /\ file_write_locks'[call[r].file] = call[r].client)
           /\ Succeeded(q)' => Succeeded(q) \/ (q = r /\ EraseLock(r))
  <1> DEFINE Goal ==
        /\ Past(r)' => \/ Past(r)
                       \/ /\ CheckLock(r)
                          /\ file_write_locks[call[r].file] = call[r].client
        /\ Granted(r)' => Granted(r) \/ (RequestWriteAccess(r)
                             /\ file_write_locks'[call[r].file] = call[r].client)
        /\ Succeeded(r)' => Succeeded(r) \/ EraseLock(r)
  <1>0. InUse(r) /\ call[r] \in CallState
    BY CallFrame, UseType
  <1>1. CASE q # r
    <2>1. CASE call'[q] = call[q]
      BY <1>1, <2>1 DEF InUse, Past, Granted, Succeeded, At
    <2>2. CASE call'[q] = Unlinked(call[q], call[r].file)
      <3>1. InUse(q)
        BY <2>2 DEF Unlinked, InUse
      <3> QED BY <1>1, <2>2, <3>1, UseType
              DEF Unlinked, CallState, InUse, Past, Granted, Succeeded, At
    <2> QED BY <1>1, <2>1, <2>2, CallFrame
  <1>2. CASE q = r
    <2>0. /\ InUse(q)
          /\ call'[q].client = call[q].client
          /\ call'[q].file = call[q].file
      BY <1>2, CallFrame
    <2>a. InUse(r)'
      BY <1>2
    <2>b. SUFFICES Goal
      BY <1>2, <2>0
    <2>1. ASSUME NEW status, status # "OK", Return(r, status)
          PROVE  /\ call'[r].rpc = call[r].rpc
                 /\ call'[r].at = "done"
                 /\ call'[r].status # "OK"
      BY <1>0, <2>a, <2>1 DEF Return, Answered, Request, InUse, Unused, TypeOK
    <2>2. ASSUME NEW rpc, NEW d, CallNext(r, rpc, d)
          PROVE  /\ call'[r].rpc = rpc
                 /\ call'[r].at = "sent"
      BY <2>2 DEF CallNext, Request, TypeOK
    <2>3. ASSUME Finish(r) PROVE FALSE
      BY <2>a, <2>3 DEF Finish, TypeOK, InUse, Unused
    <2>4. CASE ServerStep(r)
      <3>1. CASE RequestWriteAccess(r)
        <4>1. CASE Return(r, "RESOURCE_EXHAUSTED")
          BY <2>1, <3>1, <4>1
             DEF Past, Granted, Succeeded, At, RequestWriteAccess
        <4>2. CASE Return(r, "OK") /\ file_write_locks' =
                      [file_write_locks EXCEPT ![call[r].file] = call[r].client]
          <5>1. /\ call'[r].rpc = "RequestWriteAccess"
                /\ call'[r].at = "done"
            BY <2>a, <3>1, <4>2
               DEF RequestWriteAccess, Return, Answered, Request, At, InUse, Unused, TypeOK
          <5>2. file_write_locks'[call[r].file] = call[r].client
            BY <1>0, <4>2 DEF TypeOK, CallState
          <5> QED BY <3>1, <5>1, <5>2 DEF Past, Granted, Succeeded, At
        <4> QED BY <3>1, <4>1, <4>2 DEF RequestWriteAccess
      <3>2. CASE GetFileStatus(r)
        <4>1. /\ call'[r].rpc = "GetFileStatus"
              /\ call'[r].at \in {"found", "done"}
          <5>1. call[r].rpc = "GetFileStatus"
            BY <3>2 DEF GetFileStatus, StatFile, ChecksumFile, At
          <5>2. ASSUME NEW status, NEW crc,
                       call' = [call EXCEPT ![r] = Answered(@, status, crc)]
                PROVE  /\ call'[r].rpc = "GetFileStatus"
                       /\ call'[r].at = "done"
            BY <2>a, <5>1, <5>2 DEF Answered, Request, InUse, Unused, TypeOK
          <5>3. CASE MoveTo(r, "found")
            BY <1>0, <5>1, <5>3 DEF MoveTo, TypeOK, CallState
          <5> QED BY <3>2, <5>2, <5>3 DEF GetFileStatus, StatFile, ChecksumFile, Return
        <4> QED BY <3>2, <4>1
                DEF Past, Granted, Succeeded, At, GetFileStatus, StatFile, ChecksumFile
      <3>3. CASE StoreFileCheck(r) \/ DeleteFileCheck(r)
        <4>0. CheckLock(r) /\ call[r].at = "sent"
                 /\ call[r].rpc \in {"StoreFile", "DeleteFile"}
          BY <3>3 DEF StoreFileCheck, DeleteFileCheck, At
        <4>1. CASE file_write_locks[call[r].file] = call[r].client
          <5>1. call'[r].rpc = call[r].rpc /\ call'[r].at = "checked"
            BY <1>0, <4>0, <4>1 DEF CheckLock, MoveTo, TypeOK, CallState
          <5> QED BY <4>0, <4>1, <5>1 DEF Past, Granted, Succeeded, At
        <4>2. CASE file_write_locks[call[r].file] # call[r].client
          BY <2>1, <4>0, <4>2 DEF CheckLock, Past, Granted, Succeeded, At
        <4> QED BY <4>1, <4>2
      <3>4. CASE StoreFileOpen(r)
        <4>1. CASE call' = [call EXCEPT ![r].at = "open", ![r].linked = TRUE]
          <5>1. call'[r].rpc = call[r].rpc /\ call'[r].at = "open"
            BY <1>0, <4>1 DEF TypeOK, CallState
          <5> QED BY <3>4, <5>1 DEF StoreFileOpen, Past, Granted, Succeeded, At
        <4> QED BY <2>1, <3>4, <4>1
                DEF StoreFileOpen, Past, Granted, Succeeded, At
      <3>5. CASE StoreFileWrite(r)
        <4>1. call'[r].rpc = call[r].rpc /\ call'[r].at = "open"
          BY <1>0, <3>5 DEF StoreFileWrite, At, TypeOK, CallState
        <4> QED BY <3>5, <4>1 DEF StoreFileWrite, Past, Granted, Succeeded, At
      <3>9. CASE StoreFileWriteFails(r)
        <4>1. call'[r].rpc = call[r].rpc /\ call'[r].at = "open"
          BY <1>0, <3>9 DEF StoreFileWriteFails, At, TypeOK, CallState
        <4> QED BY <3>9, <4>1 DEF StoreFileWriteFails, Past, Granted, Succeeded, At
      <3>6. CASE StoreFileEnd(r)
        <4>1. CASE At(r, "StoreFile", "open") /\ MoveTo(r, "stored")
          <5>1. call'[r].rpc = call[r].rpc /\ call'[r].at = "stored"
            BY <1>0, <4>1 DEF MoveTo, TypeOK, CallState
          <5> QED BY <4>1, <5>1 DEF Past, Granted, Succeeded, At
        <4> QED BY <2>1, <3>6, <4>1
                DEF StoreFileEnd, Past, Granted, Succeeded, At
      <3>7. CASE StoreFileRelease(r) \/ DeleteFileRelease(r)
        <4>1. EraseLock(r) /\ call[r].rpc \in {"StoreFile", "DeleteFile"}
          BY <3>7 DEF StoreFileRelease, DeleteFileRelease, At
        <4>2. call'[r].rpc = call[r].rpc /\ call'[r].at = "done"
          BY <2>a, <4>1 DEF EraseLock, Return, Answered, Request, InUse, Unused, TypeOK
        <4> QED BY <4>1, <4>2 DEF Past, Granted
      <3>8. CASE DeleteFileRemove(r)
        <4>1. CASE call'[r] = [call[r] EXCEPT !.at = "removed"]
          <5>1. call'[r].rpc = call[r].rpc /\ call'[r].at = "removed"
            BY <1>0, <4>1 DEF CallState
          <5> QED BY <3>8, <5>1 DEF DeleteFileRemove, Past, Granted, Succeeded, At
        <4> QED BY <2>1, <3>8, <4>1
                DEF DeleteFileRemove, Past, Granted, Succeeded, At
      <3> QED BY <2>4, <3>1, <3>2, <3>3, <3>4, <3>5, <3>6, <3>7, <3>8, <3>9
              DEF ServerStep
    <2>5. CASE ClientStep(r)
      <3>1. CASE LockReply(r)
        BY <2>2, <2>3, <3>1 DEF LockReply, Past, Granted, Succeeded, At
      <3>2. CASE StatReply(r)
        BY <2>2, <2>3, <3>2 DEF StatReply, Past, Granted, Succeeded, At
      <3>3. CASE FinalReply(r)
        BY <2>3, <3>3 DEF FinalReply
      <3> QED BY <2>5, <3>1, <3>2, <3>3 DEF ClientStep
    <2>6. CASE GiveUp(r)
      <3>1. CASE call' = [call EXCEPT ![r].live = FALSE]
        <4>1. /\ call'[r].rpc = call[r].rpc
              /\ call'[r].at = call[r].at
              /\ call'[r].status = call[r].status
          BY <1>0, <3>1 DEF TypeOK, CallState
        <4> QED BY <1>0, <4>1 DEF Past, Granted, Succeeded, At
      <3>2. CASE /\ call[r].rpc = "GetFileStatus"
                 /\ \E d \in Local(call[r].client) : CallNext(r, "StoreFile", d)
        <4>1. call'[r].rpc = "StoreFile" /\ call'[r].at = "sent"
          BY <2>2, <3>2
        <4>2. ~Past(r)' /\ ~Succeeded(r)'
          BY <4>1 DEF Past, Succeeded, At
        <4>3. Granted(r)
          BY <3>2 DEF Granted
        <4> QED BY <4>2, <4>3
      <3> QED BY <2>3, <2>6, <3>1, <3>2 DEF GiveUp
    <2>7. CASE DropCall(r)
      BY <2>3, <2>7 DEF DropCall
    <2> QED BY <2>4, <2>5, <2>6, <2>7
  <1> QED BY <1>1, <1>2

\* What a step does to the lock table.
LEMMA LockChanges ==
    ASSUME NEW r \in Rpc,
           ServerStep(r) \/ ClientStep(r) \/ GiveUp(r) \/ DropCall(r)
    PROVE  \/ UNCHANGED file_write_locks
           \/ RequestWriteAccess(r)
           \/ CheckLock(r) /\ Granted(r)
           \/ EraseLock(r) /\ Past(r) /\ call[r].at \in {"stored", "removed"}
  BY DEF ServerStep, RequestWriteAccess, GetFileStatus, StatFile,
         ChecksumFile, StoreFileCheck, StoreFileOpen, StoreFileWrite,
         StoreFileWriteFails, StoreFileEnd, StoreFileRelease, DeleteFileCheck, DeleteFileRemove, DeleteFileRelease, ClientStep,
         LockReply, StatReply, FinalReply, GiveUp, DropCall, At, Past, Granted

\* In the steps of a call, faults are only added.
LEMMA FaultsGrow ==
    ASSUME TypeOK, NEW r \in Rpc,
           ServerStep(r) \/ ClientStep(r) \/ GiveUp(r) \/ DropCall(r),
           NEW q \in Rpc, InUse(q)
    PROVE  /\ fault[call[q].file] \subseteq fault'[call[q].file]
           /\ call[q].file \in File /\ call[q].client \in Client
  BY CallFrame, UseType DEF CallState

\* The lock check stays valid: whoever is past it still holds the lock.
LEMMA LockInv ==
    ASSUME TypeOK, CallShape, OneLiveCall, Attended, Holding, GrantedHolds,
           SuccessReleasesLock, NoOwnerlessLock, Next, TypeOK'
    PROVE  Holding' /\ GrantedHolds' /\ SuccessReleasesLock' /\ NoOwnerlessLock'
  <1> DEFINE Lock(q) == file_write_locks[call[q].file]
  <1>1. ASSUME NEW r \in Rpc,
               ServerStep(r) \/ ClientStep(r) \/ GiveUp(r) \/ DropCall(r)
        PROVE  Holding' /\ GrantedHolds' /\ SuccessReleasesLock' /\ NoOwnerlessLock'
    <2>0. InUse(r) /\ call[r].file \in File /\ call[r].client \in Client
      BY <1>1, CallFrame, FaultsGrow
    \* An attended call of the same client is this one.
    <2>a. ASSUME NEW q \in Rpc, InUse(q), call[q].file = call[r].file,
                 call[q].client = call[r].client,
                 "abandon" \notin fault[call[q].file]
          PROVE  q = r
      BY <2>0, <2>a DEF Attended, OneLiveCall
    <2>b. ASSUME EraseLock(r), Past(r), InUse(r)'
          PROVE  ~Past(r)' /\ ~Granted(r)'
      <3>1. call[r].rpc \in {"StoreFile", "DeleteFile"}
        BY <2>0, <2>b DEF Past, CallShape
      <3>2. call'[r].at = "done" /\ call'[r].rpc = call[r].rpc
        BY <2>b DEF EraseLock, Return, Answered, Request, InUse, Unused, TypeOK
      <3> QED BY <3>1, <3>2 DEF Past, Granted
    \* A lock held by the client of an attended call survives every step but
    \* that call's own release.
    <2>c. ASSUME NEW q \in Rpc, InUse(q), "abandon" \notin fault[call[q].file],
                 Lock(q) = call[q].client, ~(q = r /\ EraseLock(r) /\ Past(r))
          PROVE  file_write_locks'[call[q].file] = call[q].client
      <3>0. call[q].file \in File /\ call[q].client \in Client
        BY <1>1, <2>c, FaultsGrow
      <3>1. CASE RequestWriteAccess(r)
        BY <2>0, <2>c, <3>0, <3>1, LockValues DEF RequestWriteAccess, TypeOK
      <3>2. CASE CheckLock(r)
        BY <2>0, <2>c, <3>0, <3>2, LockValues DEF CheckLock, Looked, TypeOK
      <3>3. CASE EraseLock(r) /\ Past(r)
        <4>1. call[q].file # call[r].file
          BY <2>0, <2>a, <2>c, <3>3 DEF Holding
        <4> QED BY <2>0, <2>c, <3>0, <3>3, <4>1 DEF EraseLock, TypeOK
      <3> QED BY <1>1, <2>c, <3>1, <3>2, <3>3, LockChanges
    <2>d. ASSUME NEW q \in Rpc, InUse(q)'
          PROVE  /\ InUse(q)
                 /\ call'[q].client = call[q].client
                 /\ call'[q].file = call[q].file
                 /\ fault[call[q].file] \subseteq fault'[call'[q].file]
                 /\ call[q].file \in File /\ call[q].client \in Client
      BY <1>1, <2>d, Moves, FaultsGrow
    <2>1. ASSUME NEW q \in Rpc, InUse(q)', Past(q)',
                 "abandon" \notin fault'[call'[q].file]
          PROVE  file_write_locks'[call'[q].file] = call'[q].client
      <3>0. "abandon" \notin fault[call[q].file]
        BY <2>1, <2>d
      <3>1. Past(q) => Lock(q) = call[q].client
        BY <3>0 DEF Holding
      <3>2. Lock(q) = call[q].client
        BY <1>1, <2>1, <3>1, Moves
      <3>3. ~(q = r /\ EraseLock(r) /\ Past(r))
        BY <2>1, <2>b
      <3> QED BY <2>1, <2>c, <2>d, <3>0, <3>2, <3>3
    <2>2. ASSUME NEW q \in Rpc, InUse(q)', Granted(q)',
                 "abandon" \notin fault'[call'[q].file],
                 "restart" \notin fault'[call'[q].file]
          PROVE  file_write_locks'[call'[q].file] = call'[q].client
      <3>0. "abandon" \notin fault[call[q].file] /\ "restart" \notin fault[call[q].file]
        BY <2>2, <2>d
      <3>1. CASE q = r /\ file_write_locks'[call[r].file] = call[r].client
        BY <2>2, <2>d, <3>1
      <3>2. CASE Granted(q)
        <4>1. Lock(q) = call[q].client
          BY <2>2, <2>d, <3>0, <3>2 DEF GrantedHolds
        <4>2. ~(q = r /\ EraseLock(r) /\ Past(r))
          BY <2>2, <2>b
        <4> QED BY <2>2, <2>c, <2>d, <3>0, <4>1, <4>2
      <3> QED BY <1>1, <2>2, <3>1, <3>2, Moves
    <2>3. ASSUME NEW q \in Rpc, InUse(q)', Succeeded(q)',
                 "abandon" \notin fault'[call'[q].file]
          PROVE  file_write_locks'[call'[q].file] # call'[q].client
      <3>0. "abandon" \notin fault[call[q].file]
        BY <2>3, <2>d
      <3>1. CASE q = r /\ EraseLock(r)
        BY <2>0, <2>3, <2>d, <3>1, LockValues DEF EraseLock, TypeOK
      <3>2. CASE Succeeded(q)
        <4>1. Lock(q) # call[q].client
          BY <3>0, <3>2 DEF SuccessReleasesLock, Succeeded
        <4>2. CASE RequestWriteAccess(r)
          <5>1. q # r
            BY <3>2, <4>2 DEF Succeeded, RequestWriteAccess, At
          <5>2. ~(call[q].file = call[r].file /\ call[q].client = call[r].client)
            BY <2>3, <2>a, <2>d, <3>0, <5>1
          <5> QED BY <2>0, <2>3, <2>d, <4>1, <4>2, <5>2 DEF RequestWriteAccess, TypeOK
        <4>3. CASE CheckLock(r)
          BY <2>0, <2>3, <2>d, <4>1, <4>3, LockValues DEF CheckLock, Looked, TypeOK
        <4>4. CASE EraseLock(r)
          BY <2>0, <2>3, <2>d, <4>1, <4>4, LockValues DEF EraseLock, TypeOK
        <4> QED BY <1>1, <2>3, <2>d, <4>1, <4>2, <4>3, <4>4, LockChanges
      <3> QED BY <1>1, <2>3, <3>1, <3>2, Moves
    <2>4. ASSUME NEW f \in File, "abandon" \notin fault'[f], "restart" \notin fault'[f]
          PROVE  file_write_locks'[f] # NoClient
      <3>0. /\ "abandon" \notin fault[f] /\ "restart" \notin fault[f]
            /\ file_write_locks[f] # NoClient
        BY <1>1, <2>4, CallFrame DEF NoOwnerlessLock
      <3>1. CASE RequestWriteAccess(r)
        BY <2>0, <2>4, <3>0, <3>1, LockValues DEF RequestWriteAccess, TypeOK
      <3>2. CASE CheckLock(r) /\ Granted(r)
        <4>1. CASE f = call[r].file
          <5>1. file_write_locks[f] = call[r].client
            BY <2>0, <3>0, <3>2, <4>1 DEF GrantedHolds
          <5> QED BY <2>0, <3>2, <4>1, <5>1, LockValues DEF CheckLock, Looked, TypeOK
        <4>2. CASE f # call[r].file
          BY <2>0, <2>4, <3>0, <3>2, <4>2 DEF CheckLock, TypeOK
        <4> QED BY <4>1, <4>2
      <3>3. CASE EraseLock(r)
        BY <2>0, <2>4, <3>0, <3>3, LockValues DEF EraseLock, TypeOK
      <3> QED BY <1>1, <3>0, <3>1, <3>2, <3>3, LockChanges
    <2> QED BY <2>1, <2>2, <2>3, <2>4
            DEF Holding, GrantedHolds, SuccessReleasesLock, NoOwnerlessLock, Past,
                Succeeded, At
  <1>2. ASSUME NEW c \in Client, NEW op \in {"Store", "Delete"}, NEW f \in File,
               Begin(c, op, f)
        PROVE  Holding' /\ GrantedHolds' /\ SuccessReleasesLock' /\ NoOwnerlessLock'
    <2>1. UNCHANGED <<file_write_locks, fault>>
      BY <1>2 DEF Begin
    <2>2. ASSUME NEW q \in Rpc, call'[q] # call[q]
          PROVE  call'[q].at = "sent" /\ call'[q].rpc = "RequestWriteAccess"
      BY <1>2, <2>2 DEF Begin, Request, TypeOK
    <2>3. Holding'
      BY <2>1, <2>2 DEF Holding, Past, InUse
    <2>4. GrantedHolds'
      BY <2>1, <2>2 DEF GrantedHolds, Granted, InUse
    <2>5. SuccessReleasesLock'
      BY <2>1, <2>2 DEF SuccessReleasesLock, At, InUse
    <2> QED BY <2>1, <2>3, <2>4, <2>5 DEF NoOwnerlessLock
  <1>3. CASE ServerRestart
    <2>1. ASSUME NEW q \in Rpc, InUse(q)'
          PROVE  /\ InUse(q)
                 /\ call[q].file \in File /\ call[q].client \in Client
                 /\ call'[q].file = call[q].file
                 /\ call'[q].client = call[q].client
                 /\ "restart" \in fault'[call'[q].file]
                 /\ ~Past(q)'
      <3>1. CASE call'[q] = call[q] /\ (~InUse(q) \/ call[q].at \in {"sent", "done"})
        BY <1>3, <2>1, <3>1, UseType DEF ServerRestart, InUse, Past, CallState
      <3>2. CASE InUse(q) /\ call'[q] = Answered(call[q], "UNAVAILABLE", << >>)
        <4>1. /\ call'[q].file = call[q].file
              /\ call'[q].client = call[q].client
              /\ call'[q].at = "done"
          BY <2>1, <3>2 DEF Answered, Request, InUse, Unused
        <4> QED BY <1>3, <3>2, <4>1, UseType DEF ServerRestart, Past, CallState
      <3> QED BY <1>3, <3>1, <3>2 DEF ServerRestart
    <2>2. \A f \in File : file_write_locks'[f] = NoEntry
      BY <1>3 DEF ServerRestart
    <2>3. Holding'
      BY <2>1 DEF Holding, Past
    <2>4. GrantedHolds'
      BY <2>1 DEF GrantedHolds
    <2>5. SuccessReleasesLock'
      BY <2>1, <2>2, LockValues DEF SuccessReleasesLock, At
    <2>6. NoOwnerlessLock'
      BY <2>2, LockValues DEF NoOwnerlessLock
    <2> QED BY <2>3, <2>4, <2>5, <2>6
  <1> QED BY <1>1, <1>2, <1>3 DEF Next

-----------------------------------------------------------------------------
(* The disk *)

Opened(r) ==
    /\ At(r, "StoreFile", "checked")
    /\ disk' = [disk EXCEPT ![call[r].file] = << >>]
    /\ call' = [call EXCEPT ![r].at = "open", ![r].linked = TRUE]

Removed(r) ==
    /\ At(r, "DeleteFile", "checked")
    /\ disk' = [disk EXCEPT ![call[r].file] = Absent]
    /\ call' = [q \in Rpc |-> IF q = r THEN [call[q] EXCEPT !.at = "removed"]
                                       ELSE Unlinked(call[q], call[r].file)]

\* In every other step the disk stays, and a handler comes to none of the
\* points that say something about it but by closing its file.
LEMMA QuietStep ==
    ASSUME TypeOK, CallShape, NEW r \in Rpc,
           ServerStep(r) \/ ClientStep(r) \/ GiveUp(r) \/ DropCall(r),
           ~StoreFileWrite(r), ~StoreFileWriteFails(r), ~Opened(r), ~Removed(r)
    PROVE  /\ UNCHANGED disk
           /\ \A q \in Rpc : q # r => call'[q] = call[q]
           /\ InUse(r)' /\ call'[r].at \in {"open", "stored", "removed"} =>
                 /\ call'[r].data = call[r].data /\ call'[r].pos = call[r].pos
                 /\ call'[r].linked = call[r].linked
                 /\ \/ call'[r].at = call[r].at
                    \/ StoreFileEnd(r) /\ call[r].at = "open" /\ call'[r].at = "stored"
           /\ call[r].at = "open" /\ call[r].live /\ disk[call[r].file] # Absent =>
                 InUse(r)' /\ call'[r].at \in {"open", "stored"}
  <1> DEFINE Goal ==
        /\ InUse(r)' /\ call'[r].at \in {"open", "stored", "removed"} =>
              /\ call'[r].data = call[r].data /\ call'[r].pos = call[r].pos
              /\ call'[r].linked = call[r].linked
              /\ \/ call'[r].at = call[r].at
                 \/ StoreFileEnd(r) /\ call[r].at = "open" /\ call'[r].at = "stored"
        /\ call[r].at = "open" /\ call[r].live /\ disk[call[r].file] # Absent =>
              InUse(r)' /\ call'[r].at \in {"open", "stored"}
  <1>0. InUse(r) /\ call[r] \in CallState
    BY CallFrame, UseType
  <1>1. UNCHANGED disk /\ \A q \in Rpc : q # r => call'[q] = call[q]
    <2>1. CASE StoreFileOpen(r)
      BY <2>1 DEF StoreFileOpen, Opened, Return, TypeOK
    <2>2. CASE DeleteFileRemove(r)
      BY <2>2 DEF DeleteFileRemove, Removed, Return, TypeOK
    <2>3. CASE ~StoreFileOpen(r) /\ ~DeleteFileRemove(r)
      <3>1. UNCHANGED disk
        BY <2>3 DEF ServerStep, RequestWriteAccess, GetFileStatus, StatFile,
             ChecksumFile, StoreFileCheck, StoreFileWriteFails, StoreFileEnd,
             StoreFileRelease, DeleteFileCheck, DeleteFileRelease, CheckLock,
             EraseLock, ClientStep, LockReply, StatReply, FinalReply, GiveUp, DropCall
      <3> QED BY <2>3, <3>1, CallFrame
    <2> QED BY <2>1, <2>2, <2>3
  <1>2. SUFFICES Goal
    BY <1>1
  <1>3. ASSUME NEW status, NEW crc, call[r].at # "open",
               call' = [call EXCEPT ![r] = Answered(@, status, crc)]
        PROVE  Goal
    BY <1>0, <1>3 DEF Answered, Request, InUse, Unused, TypeOK
  <1>4. ASSUME NEW rpc, NEW d, CallNext(r, rpc, d), call[r].at # "open"
        PROVE  Goal
    BY <1>0, <1>4 DEF CallNext, Request, TypeOK
  <1>5. ASSUME Finish(r), call[r].at # "open" \/ ~call[r].live
        PROVE  Goal
    BY <1>0, <1>5 DEF Finish, TypeOK, InUse, Unused
  <1>6. CASE ServerStep(r)
    <2>1. CASE RequestWriteAccess(r)
      BY <1>3, <2>1 DEF RequestWriteAccess, Return, At
    <2>2. CASE GetFileStatus(r)
      <3>1. CASE MoveTo(r, "found")
        BY <1>0, <2>2, <3>1
           DEF GetFileStatus, StatFile, ChecksumFile, At, MoveTo, TypeOK, CallState
      <3> QED BY <1>3, <2>2, <3>1 DEF GetFileStatus, StatFile, ChecksumFile, Return, At
    <2>3. CASE StoreFileCheck(r) \/ DeleteFileCheck(r)
      <3>1. CASE MoveTo(r, "checked")
        BY <1>0, <2>3, <3>1
           DEF StoreFileCheck, DeleteFileCheck, At, MoveTo, TypeOK, CallState
      <3> QED BY <1>3, <2>3, <3>1
              DEF StoreFileCheck, DeleteFileCheck, CheckLock, Return, At
    <2>4. CASE StoreFileOpen(r)
      BY <1>3, <2>4 DEF StoreFileOpen, Opened, Return, At
    <2>5. CASE StoreFileEnd(r)
      <3>1. CASE At(r, "StoreFile", "sent") /\ Return(r, "CANCELLED")
        BY <1>3, <3>1 DEF Return, At
      <3>2. CASE MoveTo(r, "stored") /\ call[r].at = "open"
        BY <1>0, <2>5, <3>2 DEF MoveTo, InUse, TypeOK, CallState
      <3>3. CASE disk[call[r].file] = Absent /\ Return(r, "CANCELLED")
        BY <1>0, <3>3 DEF Return, Answered, Request, InUse, Unused, TypeOK
      <3> QED BY <2>5, <3>1, <3>2, <3>3 DEF StoreFileEnd, At
    <2>6. CASE StoreFileRelease(r) \/ DeleteFileRelease(r)
      BY <1>3, <2>6 DEF StoreFileRelease, DeleteFileRelease, EraseLock, Return, At
    <2>7. CASE DeleteFileRemove(r)
      BY <1>3, <2>7 DEF DeleteFileRemove, Removed, Return, At
    <2> QED BY <1>6, <2>1, <2>2, <2>3, <2>4, <2>5, <2>6, <2>7 DEF ServerStep
  <1>7. CASE ClientStep(r)
    BY <1>4, <1>5, <1>7 DEF ClientStep, LockReply, StatReply, FinalReply, At
  <1>8. CASE GiveUp(r)
    <2>1. CASE call' = [call EXCEPT ![r].live = FALSE]
      BY <1>0, <2>1 DEF InUse, TypeOK, CallState
    <2>2. CASE /\ call[r].rpc = "GetFileStatus"
               /\ \E d \in Local(call[r].client) : CallNext(r, "StoreFile", d)
      <3>1. call[r].at # "open"
        BY <1>0, <2>2 DEF CallShape
      <3> QED BY <1>4, <2>2, <3>1
    <2> QED BY <1>5, <1>8, <2>1, <2>2 DEF GiveUp
  <1>9. CASE DropCall(r)
    BY <1>5, <1>9 DEF DropCall
  <1> QED BY <1>6, <1>7, <1>8, <1>9

\* What handlers that hold their locks write is what they acknowledge.
LEMMA DiskInv ==
    ASSUME Inv, Next, TypeOK', CallShape', Attended'
    PROVE  LinkedExists' /\ OnDisk' /\ WholeFilesOnServer'
  <1> USE DEF Inv
  <1>1. ASSUME NEW r \in Rpc,
               ServerStep(r) \/ ClientStep(r) \/ GiveUp(r) \/ DropCall(r)
        PROVE  LinkedExists' /\ OnDisk'
    <2>0. InUse(r) /\ call[r] \in CallState /\ call[r].file \in File
      BY <1>1, CallFrame, UseType DEF CallState
    <2>a. ASSUME NEW q \in Rpc, InUse(q)'
          PROVE  /\ InUse(q)
                 /\ call[q] \in CallState /\ call[q].file \in File
                 /\ call'[q].file = call[q].file
                 /\ fault[call[q].file] \subseteq fault'[call'[q].file]
      BY <1>1, <2>a, Moves, FaultsGrow, UseType
    \* Only one handler past the check can be attended.
    <2>b. ASSUME NEW q \in Rpc, Past(q), Past(r), call[q].file = call[r].file,
                 "abandon" \notin fault[call[q].file]
          PROVE  q = r
      BY <2>b DEF Holding, Attended, OneLiveCall, Past
    <2>c. ASSUME NEW q \in Rpc, InUse(q)', "abandon" \notin fault'[call'[q].file],
                 call'[q].at \in {"open", "stored", "removed"},
                 q # r, Past(r), call'[q].at = call[q].at
          PROVE  call[q].file # call[r].file
      BY <2>a, <2>b, <2>c DEF Past
    <2>1. CASE Opened(r)
      <3>1. /\ Past(r)
            /\ disk' = [disk EXCEPT ![call[r].file] = << >>]
            /\ \A q \in Rpc : q # r => call'[q] = call[q]
            /\ call'[r].at = "open" /\ call'[r].linked
            /\ call'[r].file = call[r].file
            /\ call'[r].data = call[r].data /\ call'[r].pos = call[r].pos
        BY <2>0, <2>1 DEF Opened, At, Past, TypeOK, CallState
      <3>2. call[r].pos = 0
        BY <2>0, <2>1 DEF Opened, At, CallShape
      <3>3. LinkedExists'
        <4>1. << >> # Absent
          BY ChunkValues, EmptySeq
        <4> QED BY <2>0, <2>a, <3>1, <4>1 DEF LinkedExists, InUse, TypeOK
      <3>4. ASSUME NEW q \in Rpc, q # r, InUse(q)',
                   "abandon" \notin fault'[call'[q].file],
                   call'[q].at \in {"open", "stored", "removed"}
            PROVE  disk'[call'[q].file] = disk[call[q].file]
        BY <2>0, <2>a, <2>c, <3>1, <3>4 DEF TypeOK
      <3>5. SubSeq(call[r].data, 1, 0) = << >>
        BY <2>0, WholePrefix DEF CallState
      <3>6. OnDisk'
        BY <2>0, <2>a, <3>1, <3>2, <3>4, <3>5 DEF OnDisk, InUse, TypeOK
      <3> QED BY <3>3, <3>6
    <2>2. CASE Removed(r)
      <3>1. /\ Past(r)
            /\ disk' = [disk EXCEPT ![call[r].file] = Absent]
            /\ \A q \in Rpc : q # r => call'[q] = Unlinked(call[q], call[r].file)
            /\ call'[r].at = "removed" /\ call'[r].file = call[r].file
        BY <2>0, <2>2 DEF Removed, At, Past, TypeOK, CallState
      <3>2. ASSUME NEW q \in Rpc, q # r, InUse(q)'
            PROVE  /\ call'[q].at = call[q].at /\ call'[q].data = call[q].data
                   /\ call'[q].pos = call[q].pos
                   /\ call[q].file # call[r].file => call'[q] = call[q]
                   /\ call[q].file = call[r].file /\ call[q].at = "open"
                         => ~call'[q].linked
        BY <2>a, <3>1, <3>2, ZenonT(60) DEF Unlinked, CallState
      <3>3. LinkedExists'
        BY <2>0, <2>a, <3>1, <3>2 DEF LinkedExists, TypeOK
      <3>4. OnDisk'
        BY <2>0, <2>a, <2>c, <3>1, <3>2 DEF OnDisk, TypeOK
      <3> QED BY <3>3, <3>4
    <2>3. CASE StoreFileWrite(r)
      <3>1. /\ Past(r) /\ call[r].at = "open" /\ call[r].pos < Len(call[r].data)
            /\ \A q \in Rpc : q # r => call'[q] = call[q]
            /\ call'[r].at = "open" /\ call'[r].file = call[r].file
            /\ call'[r].linked = call[r].linked
            /\ call'[r].data = call[r].data /\ call'[r].pos = call[r].pos + 1
        BY <2>0, <2>3 DEF StoreFileWrite, At, Past, TypeOK, CallState
      <3>2. \A f \in File : f # call[r].file => disk'[f] = disk[f]
        BY <2>0, <2>3 DEF StoreFileWrite, TypeOK
      <3>3. call[r].linked => disk'[call[r].file] =
               WriteAt(disk[call[r].file], call[r].pos, call[r].data[call[r].pos + 1])
        BY <2>0, <2>3 DEF StoreFileWrite, TypeOK
      <3>4. ~call[r].linked => disk' = disk
        BY <2>3 DEF StoreFileWrite
      <3>5. disk[call[r].file] # Absent => disk'[call[r].file] # Absent
        <4>1. CASE call[r].linked
          <5>1. disk[call[r].file] \in Content
            BY <2>0, <3>1, <4>1 DEF LinkedExists, TypeOK
          <5>2. call[r].pos \in 0..NChunks /\ call[r].pos < NChunks
            BY <2>0, <3>1, ChunkValues DEF CallState, Content
          <5>3. call[r].data[call[r].pos + 1] \in Version \cup {Hole}
            BY <2>0, <3>1, ChunkValues DEF CallState, Content
          <5>4. disk'[call[r].file] \in Content
            BY <3>3, <4>1, <5>1, <5>2, <5>3, WriteAtContent
          <5> QED BY <5>4, ChunkValues DEF Content
        <4>2. CASE ~call[r].linked
          BY <3>4, <4>2
        <4> QED BY <4>1, <4>2
      <3>6. LinkedExists'
        BY <2>0, <2>a, <3>1, <3>2, <3>5 DEF LinkedExists, InUse
      <3>0. ASSUME InUse(r)', "abandon" \notin fault'[call'[r].file]
            PROVE  call'[r].linked
        BY <2>0, <2>a, <3>0, <3>1 DEF OnDisk
      <3>7. ASSUME InUse(r)', "abandon" \notin fault'[call'[r].file],
                   "write" \notin fault'[call'[r].file]
            PROVE  disk'[call'[r].file] = SubSeq(call'[r].data, 1, call'[r].pos)
        <4>1. /\ call[r].linked
              /\ disk[call[r].file] = SubSeq(call[r].data, 1, call[r].pos)
          BY <2>0, <2>a, <3>1, <3>7 DEF OnDisk
        <4>2. call[r].data \in Content /\ call[r].pos \in 0..NChunks
          BY <2>0 DEF CallState
        <4>3. WriteAt(SubSeq(call[r].data, 1, call[r].pos), call[r].pos,
                      call[r].data[call[r].pos + 1])
                = SubSeq(call[r].data, 1, call[r].pos + 1)
          BY <3>1, <4>2, WriteAtPrefix
        <4> QED BY <3>1, <3>3, <4>1, <4>3
      <3>9. ASSUME NEW q \in Rpc, q # r, InUse(q)',
                   "abandon" \notin fault'[call'[q].file],
                   call'[q].at \in {"open", "stored", "removed"}
            PROVE  /\ call'[q] = call[q] /\ disk'[call[q].file] = disk[call[q].file]
                   /\ InUse(q) /\ "abandon" \notin fault[call[q].file]
        BY <2>a, <2>c, <3>1, <3>2, <3>9
      <3>10. ASSUME NEW q \in Rpc, InUse(q)', "abandon" \notin fault'[call'[q].file]
            PROVE  /\ call'[q].at = "open" => call'[q].linked
                   /\ call'[q].at = "removed" => disk'[call'[q].file] = Absent
                   /\ "write" \notin fault'[call'[q].file] =>
                         /\ call'[q].at = "open" =>
                              disk'[call'[q].file] = SubSeq(call'[q].data, 1, call'[q].pos)
                         /\ call'[q].at = "stored" => disk'[call'[q].file] = call'[q].data
        <4>1. CASE q = r
          BY <3>0, <3>1, <3>7, <3>10, <4>1
        <4>2. CASE q # r /\ call'[q].at \in {"open", "stored", "removed"}
          <5>1. /\ call'[q] = call[q] /\ disk'[call[q].file] = disk[call[q].file]
                /\ InUse(q) /\ "abandon" \notin fault[call[q].file]
            BY <3>9, <3>10, <4>2
          <5>2. "write" \notin fault'[call'[q].file] => "write" \notin fault[call[q].file]
            BY <2>a, <3>10
          <5> QED BY <5>1, <5>2 DEF OnDisk
        <4>3. CASE call'[q].at \notin {"open", "stored", "removed"}
          BY <4>3
        <4> QED BY <4>1, <4>2, <4>3
      <3>8. OnDisk'
        BY <3>10 DEF OnDisk
      <3> QED BY <3>6, <3>8
    <2>5. CASE StoreFileWriteFails(r)
      <3>1. /\ UNCHANGED disk
            /\ \A q \in Rpc : q # r => call'[q] = call[q]
            /\ call[r].at = "open" /\ call'[r].at = "open"
            /\ call'[r].linked = call[r].linked
            /\ "write" \in fault'[call[r].file]
        BY <2>0, <2>5 DEF StoreFileWriteFails, At, TypeOK, CallState
      <3>2. LinkedExists'
        BY <2>0, <2>a, <3>1 DEF LinkedExists
      <3>3. ASSUME NEW q \in Rpc, InUse(q)', "abandon" \notin fault'[call'[q].file]
            PROVE  InUse(q) /\ "abandon" \notin fault[call[q].file]
        BY <2>a, <3>3
      <3>4. ASSUME InUse(r)', "abandon" \notin fault'[call'[r].file]
            PROVE  call'[r].linked /\ "write" \in fault'[call'[r].file]
        BY <2>0, <2>a, <3>1, <3>3, <3>4 DEF OnDisk
      <3>5. ASSUME NEW q \in Rpc, q # r, InUse(q)', "abandon" \notin fault'[call'[q].file]
            PROVE  /\ call'[q] = call[q] /\ disk'[call[q].file] = disk[call[q].file]
                   /\ "write" \notin fault'[call'[q].file] => "write" \notin fault[call[q].file]
        BY <2>a, <3>1, <3>5
      <3>6. OnDisk'
        BY <3>1, <3>3, <3>4, <3>5 DEF OnDisk
      <3> QED BY <3>2, <3>6
    <2>4. CASE /\ ~Opened(r) /\ ~Removed(r)
               /\ ~StoreFileWrite(r) /\ ~StoreFileWriteFails(r)
      <3>1. /\ UNCHANGED disk
            /\ \A q \in Rpc : q # r => call'[q] = call[q]
            /\ InUse(r)' /\ call'[r].at \in {"open", "stored", "removed"} =>
                 /\ call'[r].data = call[r].data /\ call'[r].pos = call[r].pos
                 /\ call'[r].linked = call[r].linked
                 /\ \/ call'[r].at = call[r].at
                    \/ StoreFileEnd(r) /\ call[r].at = "open" /\ call'[r].at = "stored"
        BY <1>1, <2>4, QuietStep
      <3>2. LinkedExists'
        BY <2>0, <2>a, <3>1 DEF LinkedExists
      <3>3. ASSUME NEW q \in Rpc, InUse(q)', "abandon" \notin fault'[call'[q].file]
            PROVE  /\ call'[q].at = "open" => call'[q].linked
                   /\ call'[q].at = "removed" => disk'[call'[q].file] = Absent
                   /\ "write" \notin fault'[call'[q].file] =>
                        /\ call'[q].at = "open" =>
                             disk'[call'[q].file] = SubSeq(call'[q].data, 1, call'[q].pos)
                        /\ call'[q].at = "stored" => disk'[call'[q].file] = call'[q].data
        <4>1. CASE call'[q].at = call[q].at
          BY <2>a, <3>1, <3>3, <4>1 DEF OnDisk
        <4>2. CASE q = r /\ StoreFileEnd(r) /\ call[r].at = "open" /\ call'[r].at = "stored"
          <5>1. call[r].live
            BY <2>0, <2>a, <3>3, <4>2 DEF Attended
          <5>2. call[r].pos = Len(call[r].data)
            BY <4>2, <5>1 DEF StoreFileEnd, At
          <5>3. SubSeq(call[r].data, 1, Len(call[r].data)) = call[r].data
            BY <2>0, WholePrefix DEF CallState
          <5>4. "write" \notin fault'[call'[r].file] => disk[call[r].file] = call[r].data
            BY <2>0, <2>a, <3>3, <4>2, <5>2, <5>3 DEF OnDisk
          <5> QED BY <2>a, <3>1, <3>3, <4>2, <5>4
        <4> QED BY <3>1, <3>3, <4>1, <4>2
      <3> QED BY <3>2, <3>3 DEF OnDisk
    <2> QED BY <2>1, <2>2, <2>3, <2>4, <2>5
  <1>2. ASSUME NEW c \in Client, NEW op \in {"Store", "Delete"}, NEW f \in File,
               Begin(c, op, f)
        PROVE  LinkedExists' /\ OnDisk' /\ WholeFilesOnServer'
    <2>1. PICK r \in Rpc :
             /\ ~InUse(r)
             /\ call' = [call EXCEPT ![r] =
                           Request("RequestWriteAccess", op, c, f, << >>)]
      BY <1>2 DEF Begin
    <2>2. UNCHANGED <<disk, fault>>
      BY <1>2 DEF Begin
    <2>3. call'[r].at = "sent" /\ \A q \in Rpc : q # r => call'[q] = call[q]
      BY <2>1 DEF Request, TypeOK
    <2>4. LinkedExists'
      BY <2>2, <2>3 DEF LinkedExists, InUse
    <2>5. OnDisk'
      BY <2>2, <2>3 DEF OnDisk, InUse
    <2>6. WholeFilesOnServer'
      BY <2>1, <2>2, <2>3 DEF WholeFilesOnServer, At, InUse
    <2> QED BY <2>4, <2>5, <2>6
  <1>3. CASE ServerRestart
    <2>1. ASSUME NEW q \in Rpc, InUse(q)'
          PROVE  /\ call'[q].at \in {"sent", "done"}
                 /\ ~Past(q)'
      <3>1. CASE call'[q] = call[q] /\ (~InUse(q) \/ call[q].at \in {"sent", "done"})
        BY <2>1, <3>1 DEF InUse, Past
      <3>2. CASE InUse(q) /\ call'[q] = Answered(call[q], "UNAVAILABLE", << >>)
        BY <2>1, <3>2 DEF Answered, Request, InUse, Unused, Past
      <3> QED BY <1>3, <3>1, <3>2 DEF ServerRestart
    <2>2. LinkedExists'
      BY <2>1 DEF LinkedExists
    <2>3. OnDisk'
      BY <2>1 DEF OnDisk
    <2>4. WholeFilesOnServer'
      <3>1. SUFFICES ASSUME NEW f \in File, fault'[f] = {}
                     PROVE  disk'[f] \in {Absent} \cup LocalContent
        BY DEF WholeFilesOnServer
      <3>2. fault[f] = {} /\ ~ \E r \in Rpc : InUse(r) /\ call[r].file = f
        BY <1>3, <3>1 DEF ServerRestart
      <3> QED BY <1>3, <3>2 DEF ServerRestart, WholeFilesOnServer, At
    <2> QED BY <2>2, <2>3, <2>4
  <1>4. ASSUME NEW r \in Rpc,
               ServerStep(r) \/ ClientStep(r) \/ GiveUp(r) \/ DropCall(r)
        PROVE  WholeFilesOnServer'
    <2>0. InUse(r) /\ call[r] \in CallState /\ call[r].file \in File
      BY <1>4, CallFrame, UseType DEF CallState
    <2>1. SUFFICES ASSUME NEW f \in File, fault'[f] = {},
                          \A q \in Rpc : InUse(q)' /\ call'[q].file = f
                                            => call'[q].at # "open"
                   PROVE  disk'[f] \in {Absent} \cup LocalContent
      <3>1. ASSUME NEW f \in File, fault'[f] = {}, NEW q \in Rpc,
                   InUse(q)', call'[q].file = f, call'[q].at = "open"
            PROVE  /\ At(q, "StoreFile", "open")'
                   /\ disk'[f] = SubSeq(call'[q].data, 1, call'[q].pos)
        <4>1. OnDisk' /\ fault'[call'[q].file] = {}
          BY <1>1, <1>4, <3>1
        <4> QED BY <3>1, <4>1 DEF OnDisk, CallShape, At
      <3> QED BY <3>1 DEF WholeFilesOnServer
    <2>2. fault[f] = {}
      BY <1>4, <2>1, CallFrame
    <2>3. CASE Opened(r)
      <3>1. call'[r].at = "open" /\ call'[r].file = call[r].file /\ InUse(r)'
        BY <2>0, <2>3 DEF Opened, InUse, TypeOK, CallState
      <3>2. call[r].file # f
        BY <2>1, <3>1
      <3>3. disk'[f] = disk[f] /\ \A q \in Rpc : q # r => call'[q] = call[q]
        BY <2>0, <2>3, <3>2 DEF Opened, TypeOK
      <3> QED BY <2>1, <2>2, <3>2, <3>3 DEF WholeFilesOnServer, At, InUse
    <2>4. CASE StoreFileWrite(r)
      <3>1. call'[r].at = "open" /\ call'[r].file = call[r].file /\ InUse(r)'
        BY <2>0, <2>4 DEF StoreFileWrite, At, InUse, TypeOK, CallState
      <3>2. call[r].file # f
        BY <2>1, <3>1
      <3>3. disk'[f] = disk[f] /\ \A q \in Rpc : q # r => call'[q] = call[q]
        BY <2>0, <2>4, <3>2 DEF StoreFileWrite, TypeOK
      <3> QED BY <2>1, <2>2, <3>2, <3>3 DEF WholeFilesOnServer, At, InUse
    <2>5. CASE Removed(r)
      <3>1. CASE call[r].file = f
        BY <2>0, <2>5, <3>1 DEF Removed, TypeOK
      <3>2. CASE call[r].file # f
        <4>1. disk'[f] = disk[f]
          BY <2>0, <2>5, <3>2 DEF Removed, TypeOK
        <4>2. ASSUME NEW q \in Rpc, InUse(q), call[q].file = f
              PROVE  call'[q] = call[q]
          BY <2>5, <3>2, <4>2 DEF Removed, Unlinked
        <4> QED BY <2>1, <2>2, <4>1, <4>2 DEF WholeFilesOnServer, At, InUse
      <3> QED BY <3>1, <3>2
    <2>7. CASE StoreFileWriteFails(r)
      <3>1. call'[r].at = "open" /\ call'[r].file = call[r].file /\ InUse(r)'
        BY <2>0, <2>7 DEF StoreFileWriteFails, At, InUse, TypeOK, CallState
      <3>2. call[r].file # f
        BY <2>1, <3>1
      <3>3. disk'[f] = disk[f] /\ \A q \in Rpc : q # r => call'[q] = call[q]
        BY <2>0, <2>7, <3>2 DEF StoreFileWriteFails, TypeOK
      <3> QED BY <2>1, <2>2, <3>2, <3>3 DEF WholeFilesOnServer, At, InUse
    <2>6. CASE /\ ~Opened(r) /\ ~Removed(r)
               /\ ~StoreFileWrite(r) /\ ~StoreFileWriteFails(r)
      <3>1. /\ UNCHANGED disk
            /\ \A q \in Rpc : q # r => call'[q] = call[q]
            /\ call[r].at = "open" /\ call[r].live /\ disk[call[r].file] # Absent =>
                 InUse(r)' /\ call'[r].at \in {"open", "stored"}
            /\ InUse(r)' => call'[r].file = call[r].file
        BY <1>4, <2>6, QuietStep, CallFrame
      <3>2. CASE disk[f] \in {Absent} \cup LocalContent
        BY <3>1, <3>2
      <3>3. ASSUME NEW q \in Rpc, At(q, "StoreFile", "open"), call[q].file = f,
                   disk[f] # Absent
            PROVE  disk'[f] \in LocalContent
        <4>1. q = r
          BY <2>1, <3>1, <3>3 DEF At, InUse
        <4>2. call[r].live
          BY <2>2, <3>3, <4>1 DEF Attended, At
        <4>3. InUse(r)' /\ call'[r].at = "stored" /\ call'[r].file = f
          BY <2>1, <3>1, <3>3, <4>1, <4>2 DEF At
        <4>4. OnDisk' /\ fault'[f] = {}
          BY <1>1, <1>4, <2>1
        <4>5. disk'[f] = call'[r].data
          BY <4>3, <4>4 DEF OnDisk
        <4> QED BY <4>3, <4>5 DEF CallShape
      <3> QED BY <2>2, <3>2, <3>3 DEF WholeFilesOnServer
    <2> QED BY <2>3, <2>4, <2>5, <2>6, <2>7
  <1> QED BY <1>1, <1>2, <1>3, <1>4 DEF Next

-----------------------------------------------------------------------------
(* The checksum that a Store relies on *)

\* Only StoreFile and DeleteFile, past their lock check, change a file.
LEMMA DiskChanges ==
    ASSUME TypeOK, CallShape, NEW r \in Rpc,
           ServerStep(r) \/ ClientStep(r) \/ GiveUp(r) \/ DropCall(r),
           NEW f \in File, disk'[f] # disk[f]
    PROVE  Past(r) /\ Past(r)' /\ call[r].file = f
  <1>0. InUse(r) /\ call[r] \in CallState /\ call[r].file \in File
    BY CallFrame, UseType DEF CallState
  <1>1. StoreFileWrite(r) \/ Opened(r) \/ Removed(r)
    BY QuietStep DEF StoreFileWriteFails
  <1>2. Past(r) /\ Past(r)'
    BY <1>0, <1>1
       DEF StoreFileWrite, Opened, Removed, At, Past, InUse, TypeOK, CallState
  <1>3. call[r].file = f
    BY <1>0, <1>1 DEF StoreFileWrite, Opened, Removed, TypeOK
  <1> QED BY <1>2, <1>3

\* A GetFileStatus that has answered OK has read the file as it is, or none.
LEMMA StatAnswer ==
    ASSUME TypeOK, NEW r \in Rpc,
           ServerStep(r) \/ ClientStep(r) \/ GiveUp(r) \/ DropCall(r),
           At(r, "GetFileStatus", "done")', call'[r].status = "OK"
    PROVE  /\ call'[r].file = call[r].file
           /\ At(r, "GetFileStatus", "found")
           /\ disk[call[r].file] # Absent => call'[r].crc = disk[call[r].file]
           /\ UNCHANGED disk
  <1>0. InUse(r) /\ call[r] \in CallState /\ InUse(r)'
    BY CallFrame, UseType DEF At
  <1>1. CASE GetFileStatus(r)
    <2>1. CASE Return(r, "NOT_FOUND")
      BY <1>0, <2>1 DEF Return, Answered, Request, TypeOK, InUse, Unused
    <2>2. CASE MoveTo(r, "found")
      BY <1>0, <2>2 DEF MoveTo, At, TypeOK, CallState
    <2>3. CASE ChecksumFile(r)
      BY <1>0, <2>3 DEF ChecksumFile, Answered, Request, TypeOK, InUse, Unused
    <2> QED BY <1>1, <2>1, <2>2, <2>3 DEF GetFileStatus, StatFile
  <1>2. ASSUME NEW status, NEW crc, call[r].rpc # "GetFileStatus",
               call' = [call EXCEPT ![r] = Answered(@, status, crc)]
        PROVE  FALSE
    BY <1>0, <1>2 DEF Answered, Request, TypeOK, At, InUse, Unused
  <1>3. ASSUME NEW m, call' = [call EXCEPT ![r] = m], m.rpc # "GetFileStatus" \/ m.at # "done"
        PROVE  FALSE
    BY <1>3 DEF TypeOK, At
  <1>4. ASSUME Finish(r) PROVE FALSE
    BY <1>0, <1>4 DEF Finish, TypeOK, InUse, Unused
  <1>5. ASSUME NEW rpc, NEW d, CallNext(r, rpc, d) PROVE FALSE
    BY <1>3, <1>5 DEF CallNext, Request
  <1>6. CASE ServerStep(r) /\ ~GetFileStatus(r)
    <2>1. call[r].rpc # "GetFileStatus"
      <3>1. CASE StoreFileOpen(r) \/ StoreFileWrite(r) \/ StoreFileWriteFails(r)
        BY <3>1 DEF StoreFileOpen, StoreFileWrite, StoreFileWriteFails, At
      <3> QED BY <1>6, <3>1
              DEF ServerStep, RequestWriteAccess, StoreFileCheck, StoreFileEnd,
                  StoreFileRelease, DeleteFileCheck, DeleteFileRemove,
                  DeleteFileRelease, At
    <2>2. call'[r].rpc # "GetFileStatus" \/ call'[r].at # "done" \/ ~InUse(r)'
      <3>1. CASE RequestWriteAccess(r) \/ StoreFileCheck(r) \/ DeleteFileCheck(r)
        BY <1>0, <1>2, <2>1, <3>1
           DEF RequestWriteAccess, StoreFileCheck, DeleteFileCheck, CheckLock, MoveTo,
               Return, TypeOK, CallState
      <3>2. CASE \/ StoreFileOpen(r) \/ StoreFileWrite(r)
                 \/ StoreFileWriteFails(r) \/ StoreFileEnd(r)
        BY <1>0, <1>2, <2>1, <3>2
           DEF StoreFileOpen, StoreFileWrite, StoreFileWriteFails, StoreFileEnd,
               MoveTo, Return, TypeOK, CallState
      <3>3. CASE DeleteFileRemove(r)
        BY <1>0, <1>2, <2>1, <3>3
           DEF DeleteFileRemove, MoveTo, Return, TypeOK, CallState
      <3>4. CASE StoreFileRelease(r) \/ DeleteFileRelease(r)
        BY <1>0, <1>2, <2>1, <3>4
           DEF StoreFileRelease, DeleteFileRelease, EraseLock, Return, TypeOK, CallState
      <3> QED BY <1>6, <3>1, <3>2, <3>3, <3>4 DEF ServerStep
    <2> QED BY <2>2 DEF At
  <1>7. CASE ClientStep(r)
    BY <1>4, <1>5, <1>7 DEF ClientStep, LockReply, StatReply, FinalReply
  <1>8. CASE GiveUp(r)
    <2>1. ASSUME call' = [call EXCEPT ![r].live = FALSE], call[r].rpc # "GetFileStatus"
          PROVE  FALSE
      BY <1>0, <2>1 DEF TypeOK, CallState, At
    <2> QED BY <1>4, <1>5, <1>8, <2>1 DEF GiveUp
  <1>9. CASE DropCall(r)
    BY <1>4, <1>9 DEF DropCall
  <1> QED BY <1>1, <1>6, <1>7, <1>8, <1>9

\* A GetFileStatus that goes on to the checksum has seen the file.
LEMMA StatSees ==
    ASSUME TypeOK, CallShape, NEW r \in Rpc,
           ServerStep(r) \/ ClientStep(r) \/ GiveUp(r) \/ DropCall(r),
           InUse(r)', call'[r].at = "found"
    PROVE  /\ call'[r].file = call[r].file
           /\ disk[call[r].file] # Absent
           /\ UNCHANGED disk
  <1>0. InUse(r) /\ call[r] \in CallState
    BY CallFrame, UseType
  <1>1. CASE StatFile(r)
    <2>1. CASE Return(r, "NOT_FOUND")
      BY <1>0, <2>1 DEF Return, Answered, Request, TypeOK, InUse, Unused
    <2>2. CASE MoveTo(r, "found") /\ disk[call[r].file] # Absent
      BY <1>0, <1>1, <2>2 DEF StatFile, MoveTo, TypeOK, CallState
    <2> QED BY <1>1, <2>1, <2>2 DEF StatFile
  <1>2. ASSUME NEW status, NEW crc,
               call' = [call EXCEPT ![r] = Answered(@, status, crc)]
        PROVE  FALSE
    BY <1>0, <1>2 DEF Answered, Request, TypeOK, InUse, Unused
  <1>3. ASSUME NEW where, where # "found", MoveTo(r, where) PROVE FALSE
    BY <1>0, <1>3 DEF MoveTo, TypeOK, CallState
  <1>4. ASSUME Finish(r) PROVE FALSE
    BY <1>4 DEF Finish, TypeOK, InUse, Unused
  <1>5. ASSUME NEW rpc, NEW d, CallNext(r, rpc, d) PROVE FALSE
    BY <1>5 DEF CallNext, Request, TypeOK
  <1>6. CASE ServerStep(r) /\ ~StatFile(r)
    <2>1. CASE RequestWriteAccess(r) \/ ChecksumFile(r)
      BY <1>2, <2>1 DEF RequestWriteAccess, ChecksumFile, Return
    <2>2. CASE StoreFileCheck(r) \/ DeleteFileCheck(r) \/ StoreFileEnd(r)
      BY <1>2, <1>3, <2>2
         DEF StoreFileCheck, DeleteFileCheck, CheckLock, StoreFileEnd, Return
    <2>3. CASE StoreFileOpen(r) \/ StoreFileWrite(r) \/ StoreFileWriteFails(r)
      BY <1>0, <1>2, <2>3
         DEF StoreFileOpen, StoreFileWrite, StoreFileWriteFails, At, Return, TypeOK,
             CallState
    <2>4. CASE DeleteFileRemove(r)
      BY <1>0, <1>2, <2>4 DEF DeleteFileRemove, Return, CallState
    <2>5. CASE StoreFileRelease(r) \/ DeleteFileRelease(r)
      BY <1>2, <2>5 DEF StoreFileRelease, DeleteFileRelease, EraseLock, Return
    <2> QED BY <1>6, <2>1, <2>2, <2>3, <2>4, <2>5 DEF ServerStep, GetFileStatus
  <1>7. CASE ClientStep(r)
    BY <1>4, <1>5, <1>7 DEF ClientStep, LockReply, StatReply, FinalReply
  <1>8. CASE GiveUp(r)
    <2>1. CASE call' = [call EXCEPT ![r].live = FALSE] /\ call[r].rpc # "GetFileStatus"
      BY <1>0, <2>1 DEF CallShape, TypeOK, CallState
    <2> QED BY <1>4, <1>5, <1>8, <2>1 DEF GiveUp
  <1>9. CASE DropCall(r)
    BY <1>4, <1>9 DEF DropCall
  <1> QED BY <1>1, <1>6, <1>7, <1>8, <1>9

\* The lock is the Store's while its GetFileStatus is in flight: a handler that
\* changed the file would be a second call of the client.
LEMMA LockedStays ==
    ASSUME Inv, NEW r \in Rpc,
           ServerStep(r) \/ ClientStep(r) \/ GiveUp(r) \/ DropCall(r),
           NEW q \in Rpc, q # r, InUse(q)', call'[q].rpc = "GetFileStatus",
           "abandon" \notin fault'[call'[q].file], "restart" \notin fault'[call'[q].file]
    PROVE  /\ InUse(q) /\ call'[q] = call[q]
           /\ "abandon" \notin fault[call[q].file] /\ "restart" \notin fault[call[q].file]
           /\ disk'[call[q].file] = disk[call[q].file]
  <1>1. call'[q] = call[q]
    <2>1. CASE call'[q] = Unlinked(call[q], call[r].file) /\ call[q].at = "open"
      <3>1. InUse(q) /\ call[q].rpc = "GetFileStatus"
        BY <2>1, UseType DEF Inv, Unlinked, InUse, CallState
      <3> QED BY <2>1, <3>1 DEF Inv, CallShape
    <2>2. CASE call'[q] = Unlinked(call[q], call[r].file) /\ call[q].at # "open"
      BY <2>2 DEF Unlinked
    <2> QED BY <2>1, <2>2, CallFrame DEF Inv
  <1>2. InUse(q)
    BY <1>1 DEF InUse
  <1>3. /\ "abandon" \notin fault[call[q].file] /\ "restart" \notin fault[call[q].file]
        /\ call[q].file \in File
    BY <1>1, <1>2, FaultsGrow DEF Inv
  <1>4. disk'[call[q].file] = disk[call[q].file]
    <2> SUFFICES ASSUME disk'[call[q].file] # disk[call[q].file] PROVE FALSE
      OBVIOUS
    <2>1. Past(r) /\ call[r].file = call[q].file
      BY <1>3, DiskChanges DEF Inv
    <2>2. call[r].client = call[q].client
      BY <1>1, <1>2, <1>3, <2>1 DEF Inv, Holding, GrantedHolds, Granted
    <2>3. InUse(r) /\ call[r].live /\ call[q].live
      BY <1>2, <1>3, <2>1 DEF Inv, Attended, Past
    <2> QED BY <1>2, <2>2, <2>3 DEF Inv, OneLiveCall
  <1> QED BY <1>1, <1>2, <1>3, <1>4

\* A file that its stat has found is there for the checksum.
FoundStays ==
    \A r \in Rpc :
        /\ At(r, "GetFileStatus", "found")
        /\ "abandon" \notin fault[call[r].file]
        /\ "restart" \notin fault[call[r].file]
        => disk[call[r].file] # Absent

\* What stat has found stays, and what the checksum has shown to be the same stays
\* so until the Store has read the answer.
LEMMA SkipInv ==
    ASSUME Inv, FoundStays, SkippedIsSame, Next, TypeOK'
    PROVE  FoundStays' /\ SkippedIsSame'
  <1> DEFINE Kept(q) ==
        /\ call'[q].at = "found" => disk'[call'[q].file] # Absent
        /\ call'[q].at = "done" /\ call'[q].status = "OK" /\ call'[q].crc = call'[q].data
              => disk'[call'[q].file] = call'[q].data
  <1> SUFFICES ASSUME NEW q \in Rpc, InUse(q)', call'[q].rpc = "GetFileStatus",
                      "abandon" \notin fault'[call'[q].file],
                      "restart" \notin fault'[call'[q].file]
               PROVE  Kept(q)
    BY DEF FoundStays, SkippedIsSame, At
  <1>0. TypeOK /\ CallShape
    BY DEF Inv
  <1>1. ASSUME NEW r \in Rpc,
               ServerStep(r) \/ ClientStep(r) \/ GiveUp(r) \/ DropCall(r)
        PROVE  Kept(q)
    <2>1. CASE q = r
      <3>0. InUse(q) /\ /\ fault[call[q].file] \subseteq fault'[call[q].file]
        BY <1>0, <1>1, <2>1, CallFrame, FaultsGrow
      <3>1. ASSUME call'[q].at = "found" PROVE disk'[call'[q].file] # Absent
        BY <1>0, <1>1, <2>1, <3>1, StatSees
      <3>2. ASSUME call'[q].at = "done", call'[q].status = "OK",
                   call'[q].crc = call'[q].data
            PROVE  disk'[call'[q].file] = call'[q].data
        <4>1. /\ call'[q].file = call[q].file
              /\ At(q, "GetFileStatus", "found")
              /\ disk[call[q].file] # Absent => call'[q].crc = disk[call[q].file]
              /\ UNCHANGED disk
          BY <1>0, <1>1, <2>1, <3>2, StatAnswer DEF At
        <4>2. disk[call[q].file] # Absent
          BY <3>0, <4>1 DEF FoundStays
        <4> QED BY <3>2, <4>1, <4>2
      <3> QED BY <3>1, <3>2
    <2>2. CASE q # r
      BY <1>1, <2>2, LockedStays DEF FoundStays, SkippedIsSame, At
    <2> QED BY <2>1, <2>2
  <1>2. ASSUME NEW c \in Client, NEW op \in {"Store", "Delete"}, NEW f \in File,
               Begin(c, op, f)
        PROVE  Kept(q)
    <2>1. call'[q] = call[q] /\ UNCHANGED <<disk, fault>>
      BY <1>0, <1>2 DEF Begin, Request, TypeOK
    <2> QED BY <2>1 DEF FoundStays, SkippedIsSame, At, InUse
  <1>3. CASE ServerRestart
    <2>1. InUse(q) /\ call'[q].file = call[q].file /\ call[q].file \in File
      BY <1>0, <1>3, UseType DEF ServerRestart, Answered, Request, InUse, Unused, CallState
    <2>2. "restart" \in fault'[call[q].file]
      BY <1>3, <2>1 DEF ServerRestart
    <2> QED BY <2>1, <2>2
  <1> QED BY <1>1, <1>2, <1>3 DEF Next

-----------------------------------------------------------------------------
(* The theorems *)

\* The invariant holds when the server starts.
LEMMA InitInv == Init => Inv
  <1> SUFFICES ASSUME Init PROVE Inv
    OBVIOUS
  <1>1. TypeOK
    BY InitType
  <1>2. \A r \in Rpc : ~InUse(r)
    BY DEF Init, InUse, Unused
  <1>3. LinkedExists /\ CallShape /\ OneLiveCall /\ Attended
    BY <1>2 DEF LinkedExists, CallShape, OneLiveCall, Attended
  <1>4. Holding /\ GrantedHolds /\ OnDisk
    BY <1>2 DEF Holding, GrantedHolds, OnDisk, Past
  <1>5. SuccessReleasesLock
    BY <1>2 DEF SuccessReleasesLock, At
  <1>6. NoOwnerlessLock /\ WholeFilesOnServer
    BY LockValues DEF Init, NoOwnerlessLock, WholeFilesOnServer
  <1> QED BY <1>1, <1>3, <1>4, <1>5, <1>6 DEF Inv

\* Every step keeps the invariant.
LEMMA NextInv == Inv /\ Next => Inv'
  <1> SUFFICES ASSUME Inv, Next PROVE Inv'
    OBVIOUS
  <1>1. TypeOK'
    BY NextType DEF Inv
  <1>2. OneLiveCall' /\ Attended'
    BY <1>1, LiveInv DEF Inv
  <1>3. CallShape'
    BY <1>1, ShapeInv DEF Inv
  <1>4. Holding' /\ GrantedHolds' /\ SuccessReleasesLock' /\ NoOwnerlessLock'
    BY <1>1, LockInv DEF Inv
  <1>5. LinkedExists' /\ OnDisk' /\ WholeFilesOnServer'
    BY <1>1, <1>2, <1>3, DiskInv
  <1> QED BY <1>1, <1>2, <1>3, <1>4, <1>5 DEF Inv

\* A step that changes nothing keeps the invariant.
LEMMA StutterInv == Inv /\ UNCHANGED vars => Inv'
  BY DEF Inv, vars, TypeOK, LinkedExists, CallShape, OneLiveCall, Attended, Holding,
         GrantedHolds, OnDisk, SuccessReleasesLock, NoOwnerlessLock,
         WholeFilesOnServer, Granted, Past, At, InUse

\* The inductive invariant holds in every reachable state.
THEOREM Invariance == Spec => []Inv
  <1>1. Inv /\ [Next]_vars => Inv'
    BY NextInv, StutterInv
  <1> QED BY <1>1, InitInv, PTL DEF Spec

\* Every variable keeps its type.
THEOREM TypeCorrect == Spec => []TypeOK
  <1>1. Inv => TypeOK
    BY DEF Inv
  <1> QED BY <1>1, Invariance, PTL

\* Two handlers are never both past the lock check of StoreFile or DeleteFile
\* for one file while every call on that file is attended by its client.
THEOREM WritersExclude == Spec => []OneWriterPerFile
  <1>1. Inv => OneWriterPerFile
    BY DEF Inv, OneWriterPerFile, Holding, Attended, OneLiveCall, Past
  <1> QED BY <1>1, Invariance, PTL

\* What StoreFile and DeleteFile acknowledge has happened on the disk.
THEOREM AcknowledgementsAreTrue == Spec => []AcknowledgedIsDone
  <1>1. Inv => AcknowledgedIsDone
    BY DEF Inv, AcknowledgedIsDone, OnDisk
  <1> QED BY <1>1, Invariance, PTL

\* Without faults the server never keeps a partial file that nobody writes.
THEOREM FilesAreWhole == Spec => []WholeFilesOnServer
  <1>1. Inv => WholeFilesOnServer
    BY DEF Inv
  <1> QED BY <1>1, Invariance, PTL

\* A client that was told of success does not hold the lock any more.
THEOREM SuccessReleases == Spec => []SuccessReleasesLock
  <1>1. Inv => SuccessReleasesLock
    BY DEF Inv
  <1> QED BY <1>1, Invariance, PTL

\* Without abandoned calls and restarts no file is owned by the empty client identity.
THEOREM OwnersAreClients == Spec => []NoOwnerlessLock
  <1>1. Inv => NoOwnerlessLock
    BY DEF Inv
  <1> QED BY <1>1, Invariance, PTL

\* A Store that ends because the checksums are equal leaves the server with the
\* content that its client has.
THEOREM SkipsAreTrue == Spec => []SkippedIsSame
  <1> DEFINE Skip == FoundStays /\ SkippedIsSame
  <1>1. Init => Skip
    BY DEF Init, FoundStays, SkippedIsSame, At, InUse, Unused
  <1>2. Inv /\ Skip /\ [Next]_vars => Skip'
    <2>1. Inv /\ Skip /\ Next => Skip'
      BY SkipInv, NextInv DEF Inv
    <2>2. Skip /\ UNCHANGED vars => Skip'
      BY DEF vars, FoundStays, SkippedIsSame, At, InUse
    <2> QED BY <2>1, <2>2
  <1>3. Skip => SkippedIsSame
    OBVIOUS
  <1> QED BY <1>1, <1>2, <1>3, Invariance, PTL DEF Spec

\* No step gives a held lock to another client.
LEMMA HeldOrFree ==
    ASSUME TypeOK, Next, NEW f \in File, NEW c \in Client, file_write_locks[f] = c
    PROVE  file_write_locks'[f] \in {c, NoEntry}
  <1>1. ASSUME NEW r \in Rpc, ServerStep(r) \/ ClientStep(r) \/ GiveUp(r) \/ DropCall(r)
        PROVE  file_write_locks'[f] \in {c, NoEntry}
    <2>0. call[r].file \in File /\ call[r].client \in Client
      BY <1>1, CallFrame, UseType DEF CallState
    <2>1. CASE RequestWriteAccess(r)
      BY <2>0, <2>1, LockValues DEF RequestWriteAccess, TypeOK
    <2>2. CASE CheckLock(r)
      BY <2>0, <2>2, LockValues DEF CheckLock, Looked, TypeOK
    <2>3. CASE EraseLock(r)
      BY <2>0, <2>3 DEF EraseLock, TypeOK
    <2> QED BY <1>1, <2>1, <2>2, <2>3, LockChanges
  <1>2. ASSUME NEW d \in Client, NEW op \in {"Store", "Delete"}, NEW g \in File,
               Begin(d, op, g)
        PROVE  file_write_locks'[f] \in {c, NoEntry}
    BY <1>2 DEF Begin
  <1>3. CASE ServerRestart
    BY <1>3 DEF ServerRestart
  <1> QED BY <1>1, <1>2, <1>3 DEF Next

\* A lock that is held becomes free before another client holds it, whatever
\* calls are abandoned and however often the server restarts.
THEOREM LocksAreNotStolen == Spec => NeverStolen
  <1>1. TypeOK /\ [Next]_vars =>
          [\A f \in File : \A c \in Client :
              file_write_locks[f] = c => file_write_locks'[f] \in {c, NoEntry}]_vars
    BY HeldOrFree
  <1> QED BY <1>1, TypeCorrect, PTL DEF Spec, NeverStolen

\* Without abandoned calls a lock is lost only in the step of a handler of the
\* client that holds it, or with the server process.
THEOREM HoldersRelease == Spec => OnlyHolderReleases
  <1> DEFINE Rule == \A f \in File, c \in Client :
                        /\ file_write_locks[f] = c
                        /\ file_write_locks'[f] # c
                        /\ "abandon" \notin fault[f]
                        => \/ ServerRestart
                           \/ \E r \in Rpc :
                                 Past(r) /\ call[r].client = c /\ call[r].file = f
  <1>1. ASSUME Inv, Next PROVE Rule
    <2>1. ASSUME NEW r \in Rpc,
                 ServerStep(r) \/ ClientStep(r) \/ GiveUp(r) \/ DropCall(r)
          PROVE  Rule
      <3>0. call[r].file \in File /\ call[r].client \in Client
        BY <1>1, <2>1, CallFrame, UseType DEF CallState, Inv
      <3>1. CASE RequestWriteAccess(r)
        BY <1>1, <3>0, <3>1, LockValues DEF RequestWriteAccess, TypeOK, Inv
      <3>2. CASE CheckLock(r)
        BY <1>1, <3>0, <3>2, LockValues DEF CheckLock, Looked, TypeOK, Inv
      <3>3. CASE EraseLock(r) /\ Past(r)
        BY <1>1, <3>0, <3>3 DEF EraseLock, TypeOK, Inv, Holding
      <3> QED BY <2>1, <3>1, <3>2, <3>3, LockChanges
    <2>2. ASSUME NEW c \in Client, NEW op \in {"Store", "Delete"}, NEW f \in File,
                 Begin(c, op, f)
          PROVE  Rule
      BY <2>2 DEF Begin
    <2>3. CASE ServerRestart
      BY <2>3
    <2> QED BY <1>1, <2>1, <2>2, <2>3 DEF Next
  <1>2. Inv /\ [Next]_vars => [Rule]_vars
    BY <1>1
  <1> QED BY <1>2, Invariance, PTL DEF Spec, OnlyHolderReleases
-----------------------------------------------------------------------------
(* The implementation of LockSpec *)

\* Calls other than the one that takes the step stay inside or outside.
LEMMA OthersStay ==
    ASSUME TypeOK, NEW r \in Rpc,
           ServerStep(r) \/ ClientStep(r) \/ GiveUp(r) \/ DropCall(r),
           NEW q \in Rpc, q # r
    PROVE  /\ Past(q)' <=> Past(q)
           /\ Past(q) => /\ call'[q].client = call[q].client
                         /\ call'[q].file = call[q].file
  <1>1. CASE call'[q] = call[q]
    BY <1>1 DEF Past, InUse
  <1>2. CASE call'[q] = Unlinked(call[q], call[r].file) /\ call[q].at = "open"
    BY <1>2, UseType DEF Unlinked, Past, InUse, CallState
  <1>3. CASE call'[q] = Unlinked(call[q], call[r].file) /\ call[q].at # "open"
    BY <1>3 DEF Unlinked, Past, InUse
  <1> QED BY <1>1, <1>2, <1>3, CallFrame

\* Nobody goes in or out of another file, nor of this one if the handler that
\* takes the step does not.
LEMMA InsideFrame ==
    ASSUME TypeOK, NEW r \in Rpc,
           ServerStep(r) \/ ClientStep(r) \/ GiveUp(r) \/ DropCall(r),
           NEW f \in File, f # call[r].file \/ (Past(r)' <=> Past(r))
    PROVE  Inside(f)' = Inside(f)
  <1>1. InUse(r)' => call'[r].client = call[r].client /\ call'[r].file = call[r].file
    BY CallFrame
  <1>2. ASSUME NEW q \in Rpc
        PROVE  /\ (Past(q) /\ call[q].file = f)' <=> (Past(q) /\ call[q].file = f)
               /\ Past(q) /\ call[q].file = f => call'[q].client = call[q].client
    <2>1. CASE q = r
      BY <1>1, <2>1 DEF Past
    <2>2. CASE q # r
      BY <2>2, OthersStay
    <2> QED BY <2>1, <2>2
  <1> QED BY <1>2 DEF Inside

\* While its calls are attended, only one handler is past the lock check of a file:
\* the one that takes the step, if its client has the lock.
LEMMA AloneInside ==
    ASSUME Inv, NEW r \in Rpc, InUse(r), "abandon" \notin fault[call[r].file],
           Past(r) \/ file_write_locks[call[r].file] = call[r].client,
           NEW q \in Rpc, Past(q), call[q].file = call[r].file
    PROVE  q = r
  BY DEF Inv, Holding, Attended, OneLiveCall, Past

\* Its client is then the only one inside, before the step and after it.
LEMMA InsideAlone ==
    ASSUME Inv, NEW r \in Rpc,
           ServerStep(r) \/ ClientStep(r) \/ GiveUp(r) \/ DropCall(r),
           NEW f \in File, f = call[r].file, "abandon" \notin fault[f],
           Past(r) \/ file_write_locks[f] = call[r].client
    PROVE  /\ Inside(f) = IF Past(r) THEN {call[r].client} ELSE {}
           /\ Inside(f)' = IF Past(r)' THEN {call[r].client} ELSE {}
  <1>0. /\ TypeOK /\ InUse(r)
        /\ InUse(r)' => call'[r].client = call[r].client /\ call'[r].file = f
    BY CallFrame DEF Inv
  <1>1. ASSUME NEW q \in Rpc, Past(q), call[q].file = f PROVE q = r
    BY <1>0, <1>1, AloneInside
  <1>2. ASSUME NEW q \in Rpc, Past(q)', call'[q].file = f PROVE q = r
    BY <1>0, <1>1, <1>2, OthersStay
  <1>3. Inside(f) = IF Past(r) THEN {call[r].client} ELSE {}
    BY <1>1 DEF Inside
  <1>4. Inside(f)' = IF Past(r)' THEN {call[r].client} ELSE {}
    <2>1. Past(r)' => InUse(r)'
      BY DEF Past
    <2>2. { q \in Rpc : Past(q)' /\ call'[q].file = f } = IF Past(r)' THEN {r} ELSE {}
      BY <1>0, <1>2, <2>1
    <2> QED BY <1>0, <2>1, <2>2 DEF Inside
  <1> QED BY <1>3, <1>4

\* A fault is recorded when a client gives a call up or a write fails, and then
\* nothing else happens to the file.
LEMMA FaultChange ==
    ASSUME TypeOK, NEW r \in Rpc,
           ServerStep(r) \/ ClientStep(r) \/ GiveUp(r) \/ DropCall(r),
           fault' # fault
    PROVE  /\ \/ fault' = [fault EXCEPT ![call[r].file] = @ \cup {"abandon"}]
              \/ /\ fault' = [fault EXCEPT ![call[r].file] = @ \cup {"write"}]
                 /\ Past(r)
           /\ UNCHANGED <<file_write_locks, disk>>
           /\ Past(r)' <=> Past(r)
  <1>1. GiveUp(r) \/ StoreFileWriteFails(r)
    BY DEF ServerStep, RequestWriteAccess, GetFileStatus, StatFile, ChecksumFile,
           StoreFileCheck, StoreFileOpen, StoreFileWrite, StoreFileEnd,
           StoreFileRelease, DeleteFileCheck, DeleteFileRemove, DeleteFileRelease,
           CheckLock, EraseLock, ClientStep, LockReply, StatReply, FinalReply, DropCall
  <1>2. CASE GiveUp(r)
    <2>1. /\ call' = [call EXCEPT ![r].live = FALSE]
          /\ fault' = [fault EXCEPT ![call[r].file] = @ \cup {"abandon"}]
          /\ UNCHANGED <<file_write_locks, disk>>
      BY <1>2 DEF GiveUp
    <2>2. Past(r)' <=> Past(r)
      BY <1>2, <2>1, UseType DEF GiveUp, Past, InUse, TypeOK, CallState
    <2> QED BY <2>1, <2>2
  <1>3. CASE StoreFileWriteFails(r)
    <2>1. /\ fault' = [fault EXCEPT ![call[r].file] = @ \cup {"write"}]
          /\ UNCHANGED <<file_write_locks, disk>>
      BY <1>3 DEF StoreFileWriteFails
    <2>2. Past(r) /\ Past(r)'
      BY <1>3, UseType DEF StoreFileWriteFails, At, Past, InUse, TypeOK, CallState
    <2> QED BY <2>1, <2>2
  <1> QED BY <1>1, <1>2, <1>3

\* A step of a call concerns its file only.
LEMMA OthersFrame ==
    ASSUME TypeOK, CallShape, NEW r \in Rpc,
           ServerStep(r) \/ ClientStep(r) \/ GiveUp(r) \/ DropCall(r)
    PROVE  Promise!Others(call[r].file)
  <1>0. call[r].file \in File
    BY CallFrame, UseType DEF CallState
  <1>1. SUFFICES ASSUME NEW g \in File, g # call[r].file
                 PROVE  /\ file_write_locks'[g] = file_write_locks[g]
                        /\ Inside(g)' = Inside(g)
                        /\ disk'[g] = disk[g]
                        /\ fault'[g] = fault[g]
    BY DEF Promise!Others
  <1>2. file_write_locks'[g] = file_write_locks[g]
    BY <1>0, <1>1, LockChanges DEF RequestWriteAccess, CheckLock, EraseLock, TypeOK
  <1>3. Inside(g)' = Inside(g)
    BY <1>1, InsideFrame
  <1>4. disk'[g] = disk[g]
    BY <1>1, DiskChanges
  <1>5. fault'[g] = fault[g]
    BY <1>0, <1>1, FaultChange DEF TypeOK
  <1> QED BY <1>2, <1>3, <1>4, <1>5

\* A step that changes neither the lock, nor who is inside, nor the content of its
\* file changes nothing that the promise speaks of.
LEMMA NothingChanges ==
    ASSUME TypeOK, CallShape, NEW r \in Rpc,
           ServerStep(r) \/ ClientStep(r) \/ GiveUp(r) \/ DropCall(r),
           UNCHANGED <<file_write_locks, disk, fault>>, Past(r)' <=> Past(r)
    PROVE  UNCHANGED Promise!vars
  <1>1. \A f \in File : Inside(f)' = Inside(f)
    BY InsideFrame
  <1> QED BY <1>1 DEF Promise!vars

\* An attended step of a call is one of the promise's.
LEMMA AttendedStep ==
    ASSUME Inv, NEW r \in Rpc,
           ServerStep(r) \/ ClientStep(r) \/ GiveUp(r) \/ DropCall(r),
           UNCHANGED fault,
           NEW f \in File, NEW c \in Client, f = call[r].file, c = call[r].client,
           "abandon" \notin fault[f]
    PROVE  \/ UNCHANGED Promise!vars
           \/ Promise!Acquire(c, f) \/ Promise!Enter(c, f) \/ Promise!Change(c, f)
           \/ Promise!Leave(c, f) \/ Promise!Orphan(f)
  <1>0. /\ TypeOK /\ CallShape /\ InUse(r)
        /\ f \in DOMAIN file_write_locks
        /\ Past(r) => file_write_locks[f] = c
    BY CallFrame DEF Inv, Holding, TypeOK
  <1>1. CASE disk' # disk
    <2>1. disk'[f] # disk[f]
      <3>1. StoreFileWrite(r) \/ Opened(r) \/ Removed(r)
        BY <1>0, <1>1, QuietStep DEF StoreFileWriteFails
      <3>2. PICK s : disk' = [disk EXCEPT ![f] = s]
        BY <1>1, <3>1 DEF StoreFileWrite, Opened, Removed
      <3> QED BY <1>0, <1>1, <3>2 DEF TypeOK
    <2>2. Past(r) /\ Past(r)'
      BY <1>0, <2>1, DiskChanges
    <2>3. file_write_locks' = file_write_locks
      BY <1>1, LockChanges DEF RequestWriteAccess, CheckLock, EraseLock
    <2>4. Inside(f) = {c} /\ Inside(f)' = {c}
      BY <2>2, InsideAlone
    <2>5. Promise!Change(c, f)
      BY <1>0, <2>2, <2>3, <2>4 DEF Promise!Change
    <2> QED BY <2>5
  <1>2. CASE disk' = disk /\ file_write_locks' = file_write_locks
    <2>1. CASE Past(r)' <=> Past(r)
      BY <1>0, <1>2, <2>1, NothingChanges
    <2>2. CASE Past(r)' /\ ~Past(r)
      <3>1. file_write_locks[f] = c
        BY <1>0, <2>2, Moves DEF Past
      <3>2. Inside(f) = {} /\ Inside(f)' = {c}
        BY <2>2, <3>1, InsideAlone
      <3>3. Promise!Enter(c, f)
        BY <1>2, <3>1, <3>2 DEF Promise!Enter
      <3> QED BY <3>3
    <2>3. CASE ~Past(r)' /\ Past(r)
      <3>1. Inside(f) = {c} /\ Inside(f)' = {}
        BY <2>3, InsideAlone
      <3>2. Promise!Leave(c, f)
        BY <1>0, <1>2, <2>3, <3>1 DEF Promise!Leave
      <3> QED BY <3>2
    <2> QED BY <2>1, <2>2, <2>3
  <1>3. CASE RequestWriteAccess(r)
    <2>1. disk' = disk /\ ~Past(r)
      BY <1>3 DEF RequestWriteAccess, At, Past
    <2>2. ~Past(r)'
      <3>1. ASSUME NEW status, Return(r, status) PROVE ~Past(r)'
        BY <1>0, <3>1 DEF Return, Answered, Request, Past, InUse, Unused, TypeOK
      <3> QED BY <1>3, <3>1 DEF RequestWriteAccess
    <2>3. CASE file_write_locks[f] = NoEntry
      <3>1. file_write_locks'[f] = c
        BY <1>0, <1>3, <2>3, LockValues DEF RequestWriteAccess
      <3>2. Inside(f)' = Inside(f)
        BY <1>0, <2>1, <2>2, InsideFrame
      <3>3. Promise!Acquire(c, f)
        BY <2>1, <2>3, <3>1, <3>2 DEF Promise!Acquire
      <3> QED BY <3>3
    <2>4. CASE file_write_locks[f] # NoEntry
      <3>1. file_write_locks' = file_write_locks
        BY <1>0, <1>3, <2>4 DEF RequestWriteAccess, TypeOK
      <3> QED BY <1>0, <2>1, <2>2, <3>1, NothingChanges
    <2> QED BY <2>3, <2>4
  <1>4. CASE CheckLock(r) /\ Granted(r) /\ file_write_locks' # file_write_locks
    <2>1. file_write_locks[f] = NoEntry /\ file_write_locks'[f] = NoClient
      BY <1>0, <1>4 DEF CheckLock, Looked, TypeOK
    <2>2. "restart" \in fault[f]
      BY <1>0, <1>4, <2>1, LockValues DEF Inv, GrantedHolds
    <2>3. Inside(f)' = Inside(f)
      <3>1. ~Past(r)
        BY <1>0, <2>1, LockValues
      <3>2. ~Past(r)'
        BY <1>0, <2>1, <3>1, LockValues, Moves DEF Past
      <3> QED BY <1>0, <3>1, <3>2, InsideFrame
    <2>4. Promise!Orphan(f)
      BY <1>4, <2>1, <2>2, <2>3 DEF CheckLock, Promise!Orphan
    <2> QED BY <2>4
  <1>5. CASE EraseLock(r) /\ Past(r) /\ call[r].at \in {"stored", "removed"}
    <2>1. disk' = disk /\ file_write_locks'[f] = NoEntry
      BY <1>0, <1>5 DEF EraseLock
    <2>2. disk[f] \in {Absent} \cup LocalContent \/ "write" \in fault[f]
      BY <1>0, <1>5 DEF Inv, OnDisk, CallShape
    <2>3. ~Past(r)'
      BY <1>0, <1>5 DEF EraseLock, Return, Answered, Request, Past, InUse, Unused, TypeOK
    <2>4. Inside(f) = {c} /\ Inside(f)' = {}
      BY <1>5, <2>3, InsideAlone
    <2>5. Promise!Leave(c, f)
      BY <1>0, <1>5, <2>1, <2>2, <2>4 DEF Promise!Leave
    <2> QED BY <2>5
  <1>6. disk' = disk /\ file_write_locks' # file_write_locks
            => \/ RequestWriteAccess(r)
               \/ CheckLock(r) /\ Granted(r)
               \/ EraseLock(r) /\ Past(r) /\ call[r].at \in {"stored", "removed"}
    BY LockChanges
  <1> QED BY <1>1, <1>2, <1>3, <1>4, <1>5, <1>6

\* A step of a call is a step of the promise, or none.
LEMMA CallImplements ==
    ASSUME Inv, Next, NEW r \in Rpc,
           ServerStep(r) \/ ClientStep(r) \/ GiveUp(r) \/ DropCall(r)
    PROVE  Promise!Next \/ UNCHANGED Promise!vars
  <1>a. TypeOK /\ CallShape
    BY DEF Inv
  <1>b. PICK f \in File, c \in Client : f = call[r].file /\ c = call[r].client
    BY <1>a, CallFrame, UseType DEF CallState
  <1>0. f = call[r].file /\ c = call[r].client /\ TypeOK /\ CallShape
    BY <1>a, <1>b
  <1>1. Promise!Others(f)
    BY <1>0, OthersFrame
  <1>2. CASE fault' # fault
    <2>1. Inside(f)' = Inside(f)
      BY <1>0, <1>2, FaultChange, InsideFrame
    <2>2. UNCHANGED <<file_write_locks, disk>>
      BY <1>0, <1>2, FaultChange
    <2>3. CASE fault'[f] = fault[f] \cup {"abandon"}
      <3>1. Promise!Abandon(f)
        BY <1>0, <2>1, <2>2, <2>3 DEF Promise!Abandon
      <3> QED BY <1>0, <1>1, <3>1 DEF Promise!Next
    <2>4. CASE fault'[f] = fault[f] \cup {"write"} /\ "abandon" \in fault[f]
      <3>1. Promise!Unpromised(f)
        BY <2>2, <2>4 DEF Promise!Unpromised
      <3> QED BY <1>0, <1>1, <3>1 DEF Promise!Next
    <2>5. CASE /\ fault'[f] = fault[f] \cup {"write"} /\ "abandon" \notin fault[f]
               /\ Past(r) /\ Past(r)'
      <3>1. Inside(f) = {c} /\ Inside(f)' = {c}
        BY <1>0, <2>5, InsideAlone
      <3>2. file_write_locks[f] = c
        BY <1>0, <2>5 DEF Inv, Holding
      <3>3. Promise!Miss(c, f)
        BY <1>0, <2>2, <2>5, <3>1, <3>2 DEF Promise!Miss
      <3> QED BY <1>0, <1>1, <3>3 DEF Promise!Next
    <2> QED BY <1>0, <1>2, <2>3, <2>4, <2>5, FaultChange DEF TypeOK
  <1>3. CASE fault' = fault /\ "abandon" \in fault[f]
    <2>1. file_write_locks[f] \in Client => file_write_locks'[f] \in {file_write_locks[f], NoEntry}
      BY <1>0, HeldOrFree
    <2>2. Promise!Unpromised(f)
      BY <1>3, <2>1 DEF Promise!Unpromised
    <2> QED BY <1>0, <1>1, <2>2 DEF Promise!Next
  <1>4. CASE fault' = fault /\ "abandon" \notin fault[f]
    <2>1. \/ UNCHANGED Promise!vars
          \/ Promise!Acquire(c, f) \/ Promise!Enter(c, f) \/ Promise!Change(c, f)
          \/ Promise!Leave(c, f) \/ Promise!Orphan(f)
      BY <1>0, <1>4, AttendedStep
    <2> QED BY <1>0, <1>1, <2>1 DEF Promise!Next
  <1> QED BY <1>2, <1>3, <1>4

\* The restart of the server is the promise's.
LEMMA RestartImplements ==
    ASSUME TypeOK, ServerRestart
    PROVE  Promise!Restart
  <1>1. ASSUME NEW r \in Rpc PROVE ~Past(r)'
    <2>1. CASE ~InUse(r) \/ call[r].at \in {"sent", "done"}
      BY <2>1 DEF ServerRestart, Past, InUse
    <2>2. CASE InUse(r) /\ call[r].at \notin {"sent", "done"}
      BY <2>2, UseType
         DEF ServerRestart, Answered, Request, Past, InUse, Unused, CallState
    <2> QED BY <2>1, <2>2
  <1>2. \A f \in File : Inside(f)' = {}
    BY <1>1 DEF Inside
  <1>3. ASSUME NEW f \in File
        PROVE  \/ fault'[f] = fault[f] \cup {"restart"}
               \/ Inside(f) = {} /\ fault'[f] = fault[f]
    BY DEF ServerRestart, Inside, Past
  <1> QED BY <1>2, <1>3 DEF ServerRestart, Promise!Restart

\* The handlers, with a step for each critical section and each call of the file
\* system, keep the promise of LockSpec: every step of theirs is one of its steps,
\* or changes nothing that it speaks of.
THEOREM LocksImplemented == Spec => ImplementsLocks
  <1>1. Init => Promise!Init
    <2>1. ASSUME Init PROVE \A f \in File : Inside(f) = {}
      BY <2>1 DEF Init, Inside, Past, InUse, Unused
    <2> QED BY <2>1 DEF Init, Promise!Init
  <1>2. Inv /\ [Next]_vars => [Promise!Next]_(Promise!vars)
    <2>1. ASSUME NEW c \in Client, NEW op \in {"Store", "Delete"}, NEW f \in File,
                 TypeOK, Begin(c, op, f)
          PROVE  UNCHANGED Promise!vars
      <3>1. PICK r \in Rpc : ~InUse(r) /\ call' = [call EXCEPT ![r] =
                                Request("RequestWriteAccess", op, c, f, << >>)]
        BY <2>1 DEF Begin
      <3>2. ASSUME NEW q \in Rpc
            PROVE  /\ Past(q)' <=> Past(q)
                   /\ Past(q) => call'[q] = call[q]
        BY <2>1, <3>1 DEF TypeOK, Past, InUse, Request
      <3>3. \A g \in File : Inside(g)' = Inside(g)
        BY <3>2 DEF Inside
      <3> QED BY <2>1, <3>3 DEF Begin, Promise!vars
    <2>2. ASSUME UNCHANGED vars PROVE UNCHANGED Promise!vars
      BY <2>2 DEF vars, Promise!vars, Inside, Past, InUse
    <2>3. Inv => TypeOK
      BY DEF Inv
    <2>4. Promise!Restart => Promise!Next
      BY DEF Promise!Next
    <2> QED BY <2>1, <2>2, <2>3, <2>4, CallImplements, RestartImplements DEF Next
  <1> QED BY <1>1, <1>2, Invariance, PTL DEF Spec, ImplementsLocks, Promise!Spec
=============================================================================
