# The distributed file system in TLA+

This directory holds TLA+ models of the distributed file system of `src/part2` and
of the transfers of `src/part1`, their TLC configurations, and proofs for TLAPS.

## 1. The system

A server keeps a directory of files. Clients store, fetch, delete, stat and list
files over gRPC. In part 2 a client can also *mount* a directory: two threads
then keep the directory and the server equal. Updates are guarded by per-file
write locks on the server.

| Component | State it keeps | Operations | Correct when |
|---|---|---|---|
| Write locks and file handlers of the server (`dfslib-servernode-p2.cpp`) | `file_write_locks` (file name -> client_id) under `lock_mutex`; the files under the mount path | `RequestWriteAccess`, `StoreFile`, `DeleteFile`, `GetFileStatus`, `FetchFile`, `ListFiles` | one writer per file from lock check to release; what is acknowledged is on the disk; files are whole between writers; a lock is not stolen |
| Client operations (`dfslib-clientnode-p2.cpp`) | a deadline per call | `Store`, `Delete`, `Fetch`, `Stat`, `List` | every operation returns; the lock is asked for before anything is written |
| Mounted client (`dfslib-clientnode-p2.cpp`, `src/dfs-client-p2.cpp`) | the mount, the kernel's inotify queue, `sync_mutex`, the listing being handled | `Mount`, `Unmount`, `InotifyWatcher`, `InotifyEventCallback`, `HandleCallbackList`, `InitCallbackList` | the two threads never mix; when nothing is pending mount and server agree; updates come to rest; files are deleted only by users |
| Asynchronous `CallbackList` service (`src/dfslibx-call-data.h`, `src/dfslibx-service-runner.h`, `dfslib-servernode-p2.cpp`) | `CallData` objects and their status, `queued_tags` under `queue_mutex`, gRPC's registered tags and completion queue, the thread pool | `Proceed`, `HandleAsyncRPC`, `RequestCallback`, `ProcessQueuedRequests`, `ProcessCallback` | each object has one owner and dies once; every call gets one answer; the server is always ready for the next call; the number of objects is bounded |
| Transfers (`StoreFile`, `FetchFile`, `Store`, `Fetch`) | file offsets, stream | chunked streams of 64 KiB | a copy is a version of the file, and an interrupted one is noticed |
| File checksum (`src/dfs-utils.h`, `src/CRC.h`) | a buffer of 2048 bytes, or half of a file that is smaller; a CRC-32 table | `dfs_file_checksum`, `CRC::Calculate` | equal files, and only those, have equal checksums (up to CRC collisions) |
| Part 1 (`src/part1`) | files only | the same transfers without locks or checksums, `List`, `Stat` | as the transfers; answers that nobody disturbed are exact |
| Client base class, command line programs, logging, generated and vendored code | configuration | start-up, getters, setters | no behaviour of its own |

How they interact:

- a *client operation* is a sequence of calls. `Store` = `RequestWriteAccess`,
  `GetFileStatus`, `StoreFile`; `Delete` = `RequestWriteAccess`, `DeleteFile`;
  `Fetch` = `GetFileStatus`, `FetchFile`. gRPC runs the handlers of different
  calls at the same time; they share the lock table and the files. Each call has
  a deadline. A client that gives up does not stop the handler;
- the *watcher thread* of a mounted client reads inotify events, locks
  `sync_mutex` and calls `Store` or `Delete` for each event;
- the *async thread* waits for a listing, locks `sync_mutex`,
  compares the listing with the mount, calls `Fetch` or `Store` or removes local
  files, unlocks, and asks for the next listing. What it writes to the mount makes
  inotify events for the watcher;
- a *signal* calls `client.Unmount()` and then `exit(0)`: whatever the threads were doing ends there. The
  server keeps the locks of the process that ended, and a new process has a new client_id (host and
  thread id). What happens in the directory while nobody has it mounted makes no events;
- a listing is the answer to a `CallbackList` call. The server answers every such
  call at once with the files it has, so the async thread polls;
- `CallbackList` is served through the completion queue by `CallData` objects
  that register, serve one call, spawn their successor and delete themselves.

What is hard here: handlers that outlive their calls; check and use of the lock in
different critical sections; streams that break and look as if they ended;
listings and events that are stale when they are handled; two threads and two
clients whose changes trigger each other; and objects that delete themselves
while several threads read one queue. The list `hazards` in `PROJECT.json` gives
each with its line and the properties that watch it.

## 2. Modules

    LockSpec                           what the locks promise (abstract)
        ^  (implements)
    WriteLocks  <- MCWriteLocks        locks and handlers, operations Store and Delete
        ^
        +------- WriteLocksProofs      its theorems
    ListingSpec                        what a call for a listing promises (abstract)
        ^  (implemented by ClientSync and by CallbackService)
    ClientSync  <- MCClientSync        mounted clients, their threads, the listing
        ^
        +------- ClientSyncProofs      its theorems
                     ^
                     +--- SettledProofs    a client alone on the server brings every change to it
    CallbackService <- MCCallbackService   CallData objects, queue, thread pool
        ^
        +------- CallbackServiceProofs its theorems
    Crc                                the CRC of CRC.h, and what a CRC is
        ^
        +------- CrcProofs             the loops over bits and bytes, linearity
        |            ^
        |            +--- CrcReferenceProofs   the table computes the remainder of a division
    FileChecksum <- MCFileChecksum     dfs_file_checksum on both sides of a comparison
        ^
        +------- FileChecksumProofs    its theorems, with those of the two above
    Transfer <- MCTransfer             part 1's handlers, the chunks of Fetch and Store
        ^
        +------- TransferProofs        its theorems

The specifications cut the system at its interfaces. `ClientSync` takes
`Store`, `Fetch` and `Delete` in two steps (the call that decides, the transfer) and looks at
what two threads and several clients do with them; `WriteLocks` looks inside
`Store` and `Delete`, at single critical sections, chunks, deadlines and
restarts; `CallbackService` looks inside the exchange that `ClientSync` has as
`asked` -> `answered`; `FileChecksum` inside the comparison that the others make of
contents; `Transfer` inside the transfers, also where nothing locks.

### WriteLocks

| Model | Code |
|---|---|
| `file_write_locks`, `NoEntry`, `NoClient` | the map; no entry; an entry that `operator[]` made with the empty client_id |
| `disk` | contents under the server's mount path, as sequences of at most `NChunks` chunks |
| `call[r]` | a call in flight: procedure, handler's progress (`at`), chunks written (`pos`), whether the open file still has its name (`linked`), whether its client waits (`live`) |
| `RequestWriteAccess` | this handler, one critical section |
| `StatFile`, `ChecksumFile` | `GetFileStatus`: `stat`, then `dfs_file_checksum`, with no lock around the two |
| `StoreFileCheck`, `Open`, `Write`, `End`, `Release` | `StoreFile`: lock check at the first chunk, `ofstream::open`, one write per chunk, end of stream and `stat`, `erase` |
| `StoreFileWriteFails` | a write that fails: this chunk and those after it are lost, and the handler goes on as if nothing had happened |
| `DeleteFileCheck`, `Remove`, `Release` | `DeleteFile`: lock check, `remove`, `erase` |
| `Begin`, `LockReply`, `StatReply`, `FinalReply` | `Store` and `Delete` of the client, from call to call |
| `GiveUp`, `DropCall` | deadline or lost reply; a call that never reaches the server |
| `ServerRestart` | the process is started again: lock table and handlers are lost, files stay |

`fault` is a history variable: which kinds of trouble (`"abandon"`, `"restart"`, `"write"`)
calls on a file have met. It appears in properties only and no guard reads it. No property promises more than
the code can keep: what is acknowledged, and what is whole, is said of files without a failed write, since nobody looks at
the result of `outfile.write` and `close` (`servernode-p2:299`). Mutual exclusion, the locks' owners, the return of operations and
skipped stores do not depend on it.

`Store` reads the local file twice, once for the checksum and once for the upload, and a user may write
it in between: the content is chosen anew when the upload begins. Each upload sends one version whole. That a user writes while the
chunks are being read (`clientnode-p2:179-194`), so that a mixture is sent, is left out: the server would store it as it was
sent, and "whole" in these properties means what one client sent.

`LockSpec` is what the locks promise, with no calls or handlers in it: a client acquires a free lock, goes in
under it alone, changes the file, and leaves, giving the lock back when the file is whole (or a write has failed: `Miss`) or keeping it. A
restart frees all locks and throws everybody out; after one, a lock may go to nobody (`Orphan`). The promise for
a file ends when a call on it is abandoned, but for one thing: a held lock is free before another client has
it. `WriteLocks` maps `owner` to the lock table, `inside` to the clients with a handler past the lock
check, and `content` to the disk; `ImplementsLocks` is `Promise!Spec`. A handler's lock check is then `Enter`, each
write `Change`, and `erase` is `Leave`; calls, replies and all of `GetFileStatus` are stutters. In the abstract
a `Restart` that finds nobody inside a file need not be marked as `trouble`, so one step of it could
stand for a release by somebody who is not inside; `OnlyHolderReleases` excludes that.

### ClientSync

| Model | Code |
|---|---|
| `server`, `locks` | the server's files with `st_mtime`, and its lock table |
| `local[c]`, `inotify[c]` | the mount, and events the kernel has queued (create, modify, delete; equal neighbours merged) |
| `watcher[c]` | the events of one `read`, and whether the thread holds `sync_mutex` |
| `sync[c]` | the async thread: asked, the server is `listing`, answered, visiting the mount (`local`), visiting the rest of the listing (`remote`), `failed` and `asleep`, ended; the times in the listing; the files readdir returned |
| `op[c]` | the operation that the thread with `sync_mutex` is in, and its second half (`Put`, `Unlink`, `Transfer`) |
| `WatcherRead`, `WatcherLock`, `WatcherEvent`, `WatcherUnlock` | `InotifyWatcher` of `dfs-client-p2.cpp` and `InotifyEventCallback` |
| `ProcessCallback`, `ListFile`, `ListDone` | the server's listing, file by file: a name from `readdir`, then its time, which is `Epoch` if the file has gone in between |
| `ProcessCallbackFails` | a failing `opendir`: the listing is empty and the status is OK |
| `ListingFails`, `HandleFailure` | the call for a listing fails: the async thread sleeps 4 s inside `sync_mutex` and asks again |
| `HandleCallbackList(Fails)`, `VisitLocal`, `LocalDone`, `VisitRemote`, `InitCallbackList` | `HandleCallbackList`, file by file |
| `RequestWriteAccess`, `StoreFile`, `DeleteFile`, `FetchStat`, `FetchFile` | the operations as the threads see them |
| `UserWrite`, `UserDelete`, `Tick` | users, who take no lock, and time |
| `GiveUp` | an operation fails at one of its calls and returns; a call that changes something on the server goes on as a stray, a fetch leaves an empty or a short file |
| `strays`, `StrayGrant`, `StrayCheck`, `StrayStore`, `StrayDelete`, `StrayRelease`, `StrayLost` | the handlers of calls that nobody waits for: they grant, check the lock, write what was sent (all of it, or a part, `Cut`) or remove, and release the lock, whoever has it by then; or the call never arrives |
| `Overflow` | the kernel's queue is full and an event is lost; `IN_Q_OVERFLOW` is none of the flags the watcher tests |
| `Unmount`, `Mount` | the signal handler, and a new process in the same directory |

A fetched copy gets the server's modification time or the current one: `Fetch` calls
`utime` while the `ofstream` is still open, so what the stream has buffered is
written, and the time set to now, when it closes. Small files always take the second
way. A listing has `Absent` for a file that is not in it.

`Unmount` ends the process, as `HandleSignal` does right after it has called `DFSClient::Unmount`. What that
function does before makes no difference here: it sets `unmounting`, which nobody reads (`Unmounting()` has
no caller), passes `inotify_rm_watch` its arguments in the wrong order, and detaches threads whose loops
have no end. The locks and strays of the process stay with an identity that no new process has
(`Gone(n)`, for the process that ended with the `n`-th interruption), and a stray of such a process can
still be granted a lock.

A handler that a client has given up meets the same client's next operation, as in `WriteLocks`: it may pass its check with
the lock that the retry was granted, overwrite what the retry stored, or take the lock away under it, so that a second client gets in. What follows in
the two directories is what `Converges` is about. The second call of a `Store` that has been refused leaves an ownerless lock (`Refuse`), also here.

### CallbackService

| Model | Code |
|---|---|
| `status[d]`, `client[d]` | a `CallData` object: its `CallStatus` (`"free"` if there is none) and the client whose call it serves or has answered; `None` if nobody's, or if the client went before the answer |
| `queued_tags`, `registered`, `cq` | the vector under `queue_mutex`, tags handed to gRPC, the completion queue |
| `thread[t]` | a `HandleAsyncRPC` thread: at the start, in `Next`, in `Proceed` before the spawn, before the listing, before `Finish` |
| `FirstCallData`, `NextEvent`, `Spawn`, `ProcessCallback`, `Finish`, `Delete` | `HandleAsyncRPC` and `Proceed`, cut where another thread can observe it |
| `ProcessQueuedRequests` | the queue thread |
| `CallbackList`, `Accept`, `ClientGone` | clients and gRPC (external: modelled from how it is used) |

### ListingSpec

`ClientSync` and `CallbackService` meet in the call `CallbackList`: the first has what a client does with the
listing and takes the server's part in it as given, the second has the server's objects and threads and none of the
files. `ListingSpec` is the contract between them: a client asks, the server takes a listing, the client gets it,
and asks again only then; a call that does not fail is answered. Both modules map their state to the progress of each client's
call (`Exchange`) and check `ImplementsListings`, which is `Exchanges!FairSpec`. So what `CallbackService` delivers is
what `ClientSync` assumes: one listing for each call, taken after the call was made. In `ClientSync` a failed call and
the end of a process are `Leave`, in `CallbackService` a client that goes.

### FileChecksum

| Model | Code |
|---|---|
| `sum[s]` | one side's run of `dfs_file_checksum` with its local variables; `taken` is history, the bytes the checksum was computed from |
| `crc_table`, `Continued` | the table of `CRC_32`, and `CRC::Calculate`, which continues a checksum with one more buffer |
| `Lstat`, `Open`, `ReadChunk` | the size, the stream, one round of the loop with all its returns |
| `Truncate`, `Extend`, `Change`, `Remove` | what `StoreFile`, `DeleteFile` and users do to the file meanwhile |

The stream really reads ahead into a buffer of the library. The model reads each chunk from
the file when the loop asks for it, which allows more interleavings than the library.

The checksum is computed as `CRC.h` does it. In `Crc` a register is the set of the positions of its one bits, so
that exclusive or is a symmetric difference; width, bits of a byte and polynomial are constants. `Reflect`, `Finalize`,
`UndoFinalize`, the table and both `CalculateRemainder`s are there for reflected input, which is what `CRC_32` has.
`MCFileChecksum` evaluates the same definitions with 32 bits and the polynomial of CRC-32, and assumes (so that TLC
checks it) that the nine digits give `0xCBF43926`, as `CRC.h:1562` says. The runs use a CRC of 4 bits and
bytes of 2. `Reference` says what a CRC is without a register: the remainder of the polynomial whose
coefficients are the bits of the data. `CrcIsRemainder` compares the two.

With so few bits different contents may well have equal checksums, as they may with 32. `ByteChangeDetected` is what
a CRC does promise, and `AlreadyExistsIsUnchanged` is therefore stated of the bytes taken, which no
CRC of any width could tell apart.

### Transfer

| Model | Code |
|---|---|
| `name`, `inode` | the server's directory and its files, apart because a file that a handler has open outlives its name |
| `call[r]` | a call: `fd` and `pos` of the handler's stream, chunks sent and not read yet, whether the client waits and has opened its local file |
| `StoreFileOpen`, `Write`, `WriteFails`, `End` | `StoreFile`; a write that fails leaves a part of its chunk or nothing, and the loop goes on without writing |
| `FetchFileOpen`, `Read`, `End` | `FetchFile`; a chunk that does not fill the buffer sets eofbit and ends the loop |
| `ListFilesOpen`, `Read`, `End`, `GetFileStatus` | `ListFiles` (names first, then each file's time, 0 if it has gone), `GetFileStatus` |
| `FetchOpen`, `FetchRead`, `Finish` | `Fetch`, which truncates the local file before anything has come |
| `Store`, `Delete`, `List`, `Stat`, `GiveUp`, `DropCall` | the other operations, deadlines, calls that never arrive; a call that only reads and is given up is forgotten, nobody sees what its handler does |

A version is a sequence of blocks and a chunk carries up to `Buffer` of them, so that the
versions can be shorter than a chunk and end in the middle of one. `broken` and
`disturbed` are history: which names may have partial copies, and which calls had
the file changed under them, or a write of their own fail. `StoreFile` of an empty file makes no file and is answered
CANCELLED; files that are empty on the server only exist while they are stored, or when the first write has failed.

## 3. Runs

Each passing run checks its invariants and properties over all reachable states of its instance.

| Run | Instance | What it shows |
|---|---|---|
| `operations` | 2 clients, each with a version of its own, 1 file, 2 calls, fair | mutual exclusion, no stolen lock, release after success, true acknowledgements, stores skipped only when the server has the file, whole files, with abandoned handlers, failing writes and restarts; operations return; `LockSpec` is implemented |
| `late_release` | as `operations`, 1 version, 3 calls | **finding**: an abandoned handler releases the lock under its client's next operation, and two clients write |
| `truncated` | as `operations` | **finding**: a broken stream is stored as if it had ended |
| `alone` | 1 client, 2 files (one with an extension that is not watched), 2 changes, 1 failing `opendir` or listing or 1 interruption | mount and server agree whenever no event is pending; the two threads never mix |
| `converge` | 1 client, a file both sides have, 1 change, 2 interruptions, 3 seconds, fair | mount and server end up equal, whatever operations fail, whatever their handlers still do, whatever event is lost, and wherever the process ends; the client's side of `ListingSpec` |
| `pair` | 2 clients, 1 file both change, 2 changes, fair | nobody stores between another client's grant and the end of its transfer; updates come to rest |
| `own_file` | 1 client, 1 new file | **finding**: a listing taken before a new file was stored removes it, here and on the server |
| `undeleted` | 2 clients, 1 file that one of them deletes | **finding**: a file deleted during a listing is listed as very old, and the other client stores it again |
| `calls` | 1 client that leaves twice, 2 threads, 8 objects, fair | each object is in one place, answers once, is replaced; bounded number; every call is answered; the server's side of `ListingSpec` |
| `compare` | 2 files of at most 5 bytes, buffer of 3, 2 changes during the loops | the checksum is computed from the file's bytes in order and from no byte that was not read, and is the remainder of their polynomial; files that differ in one byte have different checksums |
| `collision` | buffer of 6 | **finding**: a longer file has the same checksum |
| `part1` | 2 clients, 1 file, versions of 1 and 3 blocks, chunks of 2, 1 call given up or 1 failed write, 1 client that fetches | chunks in place, undisturbed transfers and answers exact, mixed stores without holes |

`findings` in `PROJECT.json` describes the five disagreements between code and documentation
in full.

`Converges` is checked for a file that both sides have. For a new file it does not hold:
with `Stored = {}` and `MaxEdits = 1` in `ClientSync_converge.cfg`, TLC finds a
behaviour in which the async thread removes the file from the mount (the listing is
older than the store), the watcher turns that into a delete on the server, and
listing and events restore and remove it for ever; likewise with `Deleted = {f1}` for a file that a user deletes. `SettledIsInSync` (run `alone`) does not contradict this:
the behaviour passes again and again through states in which mount and server agree.
`own_file` is the first half of it, where the file is lost.

`Converges` has three exceptions, and TLC finds a behaviour for each when it is left out. A process that ends
between the grant of a lock and its release leaves the lock to nobody: the file can be fetched, but never stored again
until the server restarts. A `StoreFile` whose lock an abandoned handler has released is refused, and its check gives the file the empty owner, which
nobody is. And a fetch that fails before its first chunk leaves an empty file that is newer than
the server's; `Store` sends no chunk of an empty file, so that both stay as they are. A fetch that fails
later leaves a prefix that *is* stored: the two sides agree then, on a file that nobody wrote.

### Bounds, and why they are enough

- `Rpc`: with three calls in flight a client's abandoned handler, its own next operation
  and a competitor can meet. That is the smallest number for which `late_release` exists;
  two suffice for contents, where one abandoned and one live writer meet.
- `operations` has two calls in flight and two versions: an abandoned and a live handler. `Copies` says which versions a client
  can have: its own one there, so that the disk shows whose file it is; any version in `truncated` and `late_release`. The proofs have any.
- `NChunks = 2`: the first chunk (lock check, truncation) and a later one; broken streams
  have a proper prefix. The proofs hold for any number.
- `MaxTime`: the last second of the clock; 2 or 3 make older, equal and newer modification
  times. It starts at 1; 0 is the time of a file that is not there.
- `Initial`: the contents of the files there at the start. One is enough where users write two.
- `MaxEdits`: changes by users. After the last one, liveness properties
  speak of what the threads make of it.
- `MaxFailures`: failing `opendir`s, on either side, and failing listings. One loses a whole listing.
  `MaxTrouble` bounds them together with interruptions; in `alone` it is 1, so that each kind meets every state, but not the other.
- `MaxGone`, `CallData`: clients that leave, and enough objects for every allocation. The run `calls`
  bounds the objects by 2 x threads + clients + gone = 7, below its 8: no allocation is held up.
- `MaxInterruptions`: operations that fail, events that are lost, and unmounts together, and so also the number of strays. Two allow a failure and
  then another in what repairs the first. `pair` has none: with them and two clients there are too many states
  (`OneStorer` with interruptions is proved). `converge` has one change by the user, which the strays of its store follow.
- `BufferSize` (3, in `collision` 6), `MaxSize` (5, 6), `MaxChanges` of `FileChecksum`: files smaller than the buffer
  (halved), equal to it, and larger, with a full and a partial last chunk; two changes allow a truncation and an
  extension. `CRCWidth` (4), `CHAR_BIT` (2) and the polynomial x^4 + x + 1: a register of two bytes, a primitive
  polynomial. Two values of a byte make all differences of one bit, and no byte is without a one bit.
- `MaxGone` of `Transfer`: calls given up and stores with a failed write, 1. A given-up handler, and what it leaves, can meet every operation of
  both clients. `Fetchers` is one of the two: a fetch changes nothing on the server and writes in its own mount only, so
  that the fetches of two clients do not notice each other. What is fetched is stored again by the same client, next to
  stores, deletes and reads of the other (the proofs have any number of fetching clients). `Rpc` and `Inode` are the
  calls in flight and the files that are named or open, 2 each.
- Deadlock checking is off in `ClientSync_alone.cfg`: when the async thread has ended on a
  failed `opendir`, and the users are done, the watcher has nothing left to do and the client really stops.
  It is off in the `FileChecksum` cfgs, where both functions return and that is all.

Symmetry is used for safety only; liveness runs have none.

### Fairness

- `WriteLocks`: weak fairness, for each call, of the client that waits for it: it takes the answer or its
  deadline expires (`GiveUp \/ ClientStep`). Nothing is assumed of the server.
- `ClientSync`: the threads run, the server answers, and its handlers go on also when nobody waits (`StrayStep`, weak). The two threads wait for
  `sync_mutex`, which they release after each batch and each listing; each gets it some time
  (strong). A mutex that starves one side for ever is excluded by this, and by nothing in the code. Nothing is
  assumed of users: they may never mount again, and `Converges` speaks of mounted clients only.
- `CallbackService`: the server's threads run (weak). gRPC serves waiting calls in order, hence each call
  that a registered object could take again and again gets one (strong, `Accept`).

## 4. Proofs

`WriteLocksProofs` proves, for any sets of clients, files, versions and calls and any
number of chunks, from the assumptions `LockValues` and `ChunkValues` (the special values differ
from the ordinary ones and from each other):

| Theorem | Property |
|---|---|
| `TypeCorrect` | `TypeOK` |
| `WritersExclude` | `OneWriterPerFile` |
| `AcknowledgementsAreTrue` | `AcknowledgedIsDone` |
| `FilesAreWhole` | `WholeFilesOnServer` |
| `SuccessReleases` | `SuccessReleasesLock` |
| `OwnersAreClients` | `NoOwnerlessLock` |
| `LocksAreNotStolen` | `NeverStolen` |
| `HoldersRelease` | `OnlyHolderReleases` |
| `SkipsAreTrue` | `SkippedIsSame` |
| `LocksImplemented` | `ImplementsLocks`: `WriteLocks` implements `LockSpec` |

None of these is inductive. The lock check is sound only because nobody else erases the
entry before the handler does. That is so because an attended handler's client waits for
it (`Attended`), a client waits for one call at a time (`OneLiveCall`), and so a
second handler past the check on the same file, whose lock has the same owner
(`Holding`), would be a second call of the same client. `GrantedHolds` follows
the lock from the grant through `GetFileStatus` to the release, which excludes the owner
that `operator[]` would insert; `OnDisk`, `CallShape` and `LinkedExists` follow
the offset of a handler and the file it has open. `Inv` is the conjunction; each action
has a lemma that says it preserves `Inv`, and the theorems follow from `Inv`.

`SkippedIsSame` is inductive once `Inv` holds: the client has the lock from before the server's `stat` until it has the checksum, so a handler
that changed the file between the two, or after them, would be a second call of the same client (`LockedStays`); so the file that `stat` found
is there when the checksum is taken (`FoundStays`).

`LocksImplemented` goes through the actions under `Inv`. A lock check that succeeds is an `Enter`: `Attended` and
`OneLiveCall` make the file empty of other handlers (`AloneInside`). Every other step of a handler leaves the set
`Inside` as it is, or takes its own client out of it (`InsideFrame`). On a file with an abandoned call only
`Unpromised` has to be shown. A step on one file does nothing to the others (`OthersFrame`), and a restart is
`Restart` on all files at once.

`ClientSyncProofs` proves, for any clients, files, contents and bounds, from `SyncConstants` (mainly
that the absence of a lock is no client, and no client the identity of those that ended), with operations that fail,
lost events, unmounts and mounts:

| Theorem | Property |
|---|---|
| `TypeCorrect` | `TypeOK` |
| `ThreadsExclude` | `OneThreadSyncs` |
| `StorersExclude` | `OneStorer` |
| `ListingsAreExchanges` | the safety part of `ImplementsListings`: `Exchanges!Spec`, without fairness |

`OneThreadSyncs` is not inductive: after a failed listing the async thread releases `sync_mutex`
without looking whether an operation runs, so the invariant (`Exclusive`) adds that none does.
`OneStorer` says of a file none of whose `StoreFile` or `DeleteFile` calls was given up that two clients are not both past the grant. Without that
condition it is false, as `late_release` shows: the handler that goes on releases the lock under its client's next operation. `Held` is the invariant for it: on such a file a
client past the grant is the owner in the lock table, since only strays in `abandoned` files can check or release (`LateWriters`), and
a stray `RequestWriteAccess` takes no lock that somebody has. `ListingsAreExchanges` needs no more than the types: each action of the async thread is a
step of `ListingSpec` for its client or a stutter, and the other actions leave `sync` alone.

`SettledProofs` proves `SettledIsInSync` (`AloneStaysInSync`) for one client, as the run `alone` has it, and any files, contents,
clock, changes by the user, and failing directory reads and listings:

    ASSUME NEW c, Client = {c}, Empty \notin Written
    PROVE  Spec => []SettledIsInSync

The two hypotheses are what the property needs, not what the proof does. With a second client the server changes without an event here.
And `Store` sends nothing of an empty file (see `Converges`), so that a user who empties a file leaves the server with the old
one. The property itself speaks of behaviours in which nothing was interrupted. `AbsentIsNoCopy` says that a file that is
absent is none that is there. `SettledIsInSync` says nothing of states with events, so it is far from inductive. The invariant
`Followed` says of each file the watcher does not ignore:

- a difference between the mount and the server has a cause that is still to be handled: an operation on the file that is under way, or an event
  for it in the watcher's batch or in the kernel's queue;
- an old removal that is still to be handled (the file is there again) is followed by a later change, which stores the file again;
- nobody deletes the server's file while it is fetched, and nobody else has its lock.

The second part is what makes it inductive: without it the watcher could delete on the server a file that is in the mount. Each
change of the mount, the server, the operation or the queue has a lemma that it keeps `Follows` for one file; each action is
one or two of these changes. TLC checked `Followed` on the instance of `alone`.

`CallbackServiceProofs` proves, for any finite sets of clients and threads (`CallbackConstants`) and any set of objects:

| Theorem | Property |
|---|---|
| `TypeCorrect` | `TypeOK` |
| `ObjectsHaveOnePlace` | `OnePlace` |
| `CallsHaveOneAnswer` | `OneAnswer` |
| `StaysReadyForClients` | `ReadyForClients` |
| `ObjectsStayBounded` | `ObjectsAreBounded` |
| `ListingsAreExchanges` | the safety part of `ImplementsListings` |

The invariant `Inv` has five parts. `Safe` follows the tags: no object is in two of the queue, gRPC's set, the completion queue and
a thread's hands, nor twice in one (`NoAliases`); its status is what the code there expects (`StatusFits`); accepted calls and the objects
that have yet to answer belong to each other (`OneObjectPerCall`). `Ready` counts: an object that takes a call
leaves the registered ones, and stands in its place as an event or a thread that has yet to spawn.
`ObjectsAreBounded` needs two more. An object whose client went before the answer is lost, and there are at most `gone` of those (`FewOrphans`, `NoneLost`).
And a client can have an answered object in the completion queue when its next call comes, but not two: the queue is first in, first out, so the
event of its answered call is taken before the event of the next one (`AnswersInOrder`). The counting is done with
maps from events and threads to objects and from objects to clients, by the library's theorems on finite sets (`ImageBound`, `UnionBound`, `FS_Injection`).

`TransferProofs` proves, for any clients, files, versions, calls and size of the buffer, and any number of calls given up, from `TransferConstants` (versions and
buffer are not empty, and the zeroes that a hole reads as are no block of a version):

| Theorem | Property |
|---|---|
| `TypeCorrect` | `TypeOK` |
| `BlocksAreInPlace` | `ChunksInPlace` |
| `FetchBringsAll` | `FetchedIsSame` |
| `StoreBringsAll` | `StoredIsSame` |
| `AnswersAreCurrent` | `AnsweredIsCurrent` |
| `MixIsFilled` | `MixedIsFilled` |

What a fetch brings is spread over the client's file and the chunks on their way. `FetchFits` takes the two as one
(`Arrives`): the written blocks, then chunks that are full but for the last, whose number is the handler's position. If nobody disturbed the call, each block is what
the server has at that place, and after the last chunk there is no more (`Copied`). That the two make one sequence needs that the client's file is nobody
else's, which is `OneLive`, and that a store does not open the file under another name (`Names`). `StoreFits` is the same for a store, whose file is as long as its
position. `MixedIsFilled` speaks of the moment when the last store is through; while they overlap, the file is as long as a version or
as far as some store has come, and filled as far as the store has come that truncated it last (`Mix`). Which one that is need not be said: there is one.
What clients store must be whole for that, fetched copies included (`CopiesFit`).

`CrcProofs` and `CrcReferenceProofs` prove what the CRC library computes, for any width, bits of a byte and generator, from `CrcConstants`
(a byte has at least one bit and no more than the CRC, and the generator's coefficients are below the width):

| Theorem | What it says |
|---|---|
| `CrcContinues` | continuing a CRC with more data gives the CRC of all data |
| `CrcShowsByte` | data that differ in one byte have different CRCs; also if that byte comes a second time, unless the bytes between undo the difference |
| `CrcIsReference` | `CRC::Calculate` with the table is `Reference`: the remainder of the data's polynomial |
| `CrcCollides` | data of one length have equal CRCs exactly if the generator divides the difference of their polynomials |
| `CrcShowsBurst` | data that differ within as many consecutive bytes as the CRC has have different CRCs |

The loops are recursive functions of the number of rounds, and their proofs are inductions over the rounds. The provers have no induction for operators, so each
is by a set of rounds: 0 is in it, each next one is, hence all are (`Upto`). The rest is the algebra of two facts. Residues of powers of x add up,
so that `Modulo` is linear (`ModuloXor`) and multiplying by x first or last is the same (`ModuloShift`). And a register is the reflection of a
remainder, on which a step of the bit loop is a multiplication by x (`TimesReflect`). One byte then raises the dividend by the bits of a byte and adds the byte (`DividendAppend`,
`ByteDivides`); the table has what the bit loop makes of each byte, and the loop is linear, which is why a byte can be taken out of the register and looked up.
Bursts are seen because multiplication by x loses nothing if the generator has the term 1 (`TimesInjective`), and what is below the generator's degree is its own remainder.

`FileChecksumProofs` proves, for files of any size, buffers of more than one byte, and any number of changes, from
`ChecksumConstants` and, where a change is to be seen, `ByteSurvives`:

| Theorem | Property |
|---|---|
| `TypeCorrect` | `TypeOK`: no byte that was not read gets into the checksum |
| `ChecksumIsOfFile` | `ChecksumOfFile` |
| `CrcIsTheRemainder` | `CrcIsRemainder` |
| `ByteChangeIsDetected` | `ByteChangeDetected` |
| `BurstIsDetected` | `BurstDetected`, below |
| `SameSizeIsUnchanged` | `SameSizeIsSame`, below |

After `k` rounds the position is the smaller of `k * b` and the size (`Sizes`). The first read fills the buffer, since a file smaller than
it has a buffer of half its size: so a later read that comes short leaves bytes of the chunk before, and none that was never
written. For a file that nobody changed, `Underway` says that the bytes taken are the first `k` chunks of the padded file and that the buffer
holds the last of them, from which the padding of the last chunk follows; `Opened` says that a stream has a content when its name is gone.
`SameSizeIsUnchanged` is the other side of the finding `collision`: two files *of one size* of which the same bytes were taken are equal,
so that only files of different sizes, or a collision of the CRC itself, can be taken for each other.

The invariant of the checksum itself is `Continues`: the checksum under way is the CRC of the bytes taken so far at once (`CrcInvHolds`). With `CrcIsReference`,
`CrcIsRemainder` follows. `ByteChangeDetected` is not a theorem of the CRC alone. The last buffer is not cleared, so a byte in the part of
the chunk before that fills it up is taken a second time, exactly a buffer later, and the two differences could cancel out. `ByteSurvives` excludes that: the generator has the term
1, and no byte in the register is itself again after one to `BufferSize` bytes of zeros. TLC evaluates the assumption for its instances. For CRC-32 and the buffer of 2048 bytes
(`dfs-utils.h:12`) it is too much for TLC but true: the generator is primitive, so that 8 n shifts change every register that is not 0 unless 2^32 - 1 divides n.
`BurstDetected` says of the bytes taken, whatever happens to the files meanwhile, that a change within consecutive bytes, four for CRC-32, is seen wherever the borders of the chunks are.

Only model-checked:

- liveness (`OperationsReturn`, `Converges`, `UpdatesStop`, `CallsAreAnswered`, and the fairness in `ImplementsListings`), which is out of the
  prover's reach. Every invariant and every safety property of the passing runs is proved;
- that 32 bits and the polynomial in `MCFileChecksum` give the check value of `CRC.h:1562`.

## 5. Not modelled, and abstractions

- Client identities are taken to be different (host name and thread id in the code).
- Outside `FileChecksum` contents are compared directly: the other modules take equal checksums for equal
  contents, which the finding `collision` shows to be an assumption.
- In `ClientSync` the server does not restart; `WriteLocks` has its restarts.
- `FetchFile` is one step in `ClientSync`, or one that breaks off, and so is the transfer of a `StoreFile`. `Transfer` has their chunks and overlaps. In the program a
  fetch that overlaps another client's store may bring a mixture of two versions, with an event that stores it again; such copies do not enter the exchange
  of listings and events here, and `UpdatesStop` and `Converges` say nothing of them.
- The server's writes may fail in `WriteLocks` and `Transfer`, not in `ClientSync`. In `WriteLocks` a failed write loses whole chunks; `Transfer` has parts of them. A client's writes to
  its own mount (`clientnode-p1:166-169`, `clientnode-p2:280-299`) succeed in all modules.
- The local file is read whole in one version by each upload, as said of `WriteLocks`.
- Users create, change and delete files in a mount; they do not rename them. Renames make `IN_MOVED_FROM` and `IN_MOVED_TO`, which the watcher does not ask for.
- In part 1 `Fetch` returns NOT_FOUND when the status is OK but no chunk came (`clientnode-p1:187`). `Finish` does not tell the two apart: the local file is
  empty either way, and no property speaks of what the user is told then.
- A change that is lost on both sides is agreement for `SettledIsInSync` and `Converges`. `OnlyUsersDelete` is the only property about lost files; the
  hazards in `PROJECT.json` that lose a change by the design of the code (equal times, a fetch over a fresh change) have none.
- Of `CRC.h`: input that is not reflected, CRCs narrower than a byte, the other predefined parameters, and the overloads
  of `Calculate` that `dfs_file_checksum` does not call.
- A read of the watcher takes all events there are; its buffer is larger than any queue of the instances.
- The output of `List` and `Stat`, the options of the command line programs, logging and generated code.
- The server's shutdown: its `Run` does not return.

## 6. Plan

Done: all modules of section 2, and proofs of the safety of each.

Left: an abstract transfer, in which a file goes from one version to another in one step. For transfers that nobody disturbs it says
what `FetchedIsSame` and `StoredIsSame` say. For stores that overlap it needs a history of the versions that were on their way, because
a store that ended earlier may have written what is there when the last one ends.
