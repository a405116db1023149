---------------------------- MODULE FileChecksum ----------------------------
(***************************************************************************)
(* dfs_file_checksum, with which Store and Fetch tell whether the local    *)
(* file and the server's are the same: each side runs the loop over its    *)
(* own file, one side after the other (Store the local one first, Fetch    *)
(* the server's).  The function takes no lock: handlers and users may      *)
(* change the file while it runs.                                          *)
(*                                                                         *)
(* The checksum itself is computed as the code does (module Crc), for a    *)
(* small width.  The bytes it was computed from are kept beside it: what   *)
(* holds whatever the width is stated of them.                             *)
(***************************************************************************)
EXTENDS Integers, Crc

CONSTANTS
    Side,           \* the two sides that are compared
    Byte,           \* values of a byte of a file, as sets of one bits
    BufferSize,     \* DFS_BUFFERSIZE
    MaxSize,        \* bound: size of files
    MaxChanges,     \* bound: changes to the files while they are read
    Absent,         \* there is no such file
    Uninit          \* a byte of the buffer that was never written

ASSUME ChecksumConstants ==
    /\ Byte \subseteq Char
    /\ BufferSize \in Nat \ {0, 1}
    /\ MaxSize \in Nat /\ MaxChanges \in Nat
    /\ Uninit \notin Byte
    /\ Absent \notin Seq(Byte)

VARIABLES
    file,       \* each side's file
    stream,     \* the content of an open file whose name was removed, else Absent
    sum,        \* each side's run of dfs_file_checksum: its local variables
    changed,    \* history: the file was changed while the function ran
    changes     \* changes so far

vars == <<file, stream, sum, changed, changes>>

-----------------------------------------------------------------------------
(* Sizes *)

\* Mutant: the last chunk is left out if it is not full.
ChunkCount_floor(size, buffer_size) == size \div buffer_size

\* Chunks of a file, the last of which may not be full.
ChunkCount(size, buffer_size) ==
    size \div buffer_size + (IF size % buffer_size # 0 THEN 1 ELSE 0)

\* Mutant: the buffer has the same size for all files.
BufferSizeFor_full(size) == BufferSize

\* Small files are halved: "works better if we have at least two chunks".
BufferSizeFor(size) ==
    IF size >= BufferSize THEN BufferSize
    ELSE IF size \div 2 = 0 THEN 1 ELSE size \div 2

-----------------------------------------------------------------------------
(* The function *)

\* The table that client and server make when they start.
crc_table == Table(CRC_32)

\* What the polynomial has to be for a CRC to show the change of a byte: the
\* generator has the term 1, and bytes of zeros, at most a buffer of them, do not
\* make of a byte that byte again.
ASSUME ByteSurvives ==
    /\ 0 \in Polynomial
    /\ \A byte \in Char \ {{}}, n \in 1..BufferSize :
           CalculateRemainder([k \in 1..n |-> {}], crc_table, byte) # byte

\* Mutant: every chunk begins a checksum of its own.
Continued_fresh(crc, data) == Calculate(data, crc_table, {})

\* The checksum with one more chunk.
Continued(crc, data) == Calculate(data, crc_table, crc)

\* taken is history: the bytes the checksum was computed from.
NotCalled == [at |-> "idle", crc |-> {}, taken |-> << >>]

\* A return: the checksum of no bytes is 0, as is that of a missing file.
Return(s) ==
    sum' = [sum EXCEPT ![s] = [at |-> "done", crc |-> @.crc, taken |-> @.taken]]

\* lstat: the size is taken once, before the file is opened.
Lstat(s) ==
    /\ sum[s].at = "idle"
    /\ \A t \in Side : sum[t].at \in {"idle", "done"}
    /\ \/ /\ file[s] = Absent
          /\ Return(s)
       \/ /\ file[s] # Absent
          /\ LET file_size == Len(file[s])
                 buffer_size == BufferSizeFor(file_size)
             IN  sum' = [sum EXCEPT ![s] =
                    [at |-> "open", crc |-> {}, taken |-> << >>, file_size |-> file_size,
                     buffer |-> [i \in 1..buffer_size |-> Uninit],
                     chunk_count |-> ChunkCount(file_size, buffer_size),
                     chunk_sequence |-> 0, current_position |-> 0]]
    /\ UNCHANGED <<file, stream, changed, changes>>

Open(s) ==
    /\ sum[s].at = "open"
    /\ \/ /\ file[s] = Absent
          /\ Return(s)
       \/ /\ file[s] # Absent
          /\ sum' = [sum EXCEPT ![s].at = "read"]
    /\ UNCHANGED <<file, stream, changed, changes>>

\* What the open stream reads: a file keeps its content when its name goes.
Reading(s) == IF stream[s] = Absent THEN file[s] ELSE stream[s]

\* Mutant: the last read asks for a full buffer too.
ReadSize_full(m) == Len(m.buffer)

ReadSize(m) ==
    LET left == m.file_size - m.current_position
    IN  IF left < Len(m.buffer) THEN left ELSE Len(m.buffer)

\* A read overwrites the front of the buffer and leaves the rest as it was.
Overwritten(buffer, data, pos, n) ==
    [i \in 1..Len(buffer) |-> IF i <= n /\ pos + i <= Len(data) THEN data[pos + i] ELSE buffer[i]]

\* What may be in a buffer: bytes that were never written may be any.
Possible(buffer) ==
    { data \in [1..Len(buffer) -> Byte] :
        \A i \in 1..Len(buffer) : buffer[i] # Uninit => data[i] = buffer[i] }

\* One round of the loop.  The CRC takes the whole buffer each time; a read
\* that finds less than it expects returns the checksum so far.
ReadChunk(s) ==
    LET m == sum[s]
        n == ReadSize(m)
        buffer == Overwritten(m.buffer, Reading(s), m.current_position, n)
    IN  /\ m.at = "read"
        /\ \/ /\ m.chunk_sequence = m.chunk_count
              /\ Return(s)
           \/ /\ m.chunk_sequence # m.chunk_count
              /\ m.current_position + n > Len(Reading(s))
              /\ Return(s)
           \/ /\ m.chunk_sequence # m.chunk_count
              /\ m.current_position + n <= Len(Reading(s))
              /\ \E data \in Possible(buffer) : sum' = [sum EXCEPT
                    ![s].buffer = buffer,
                    ![s].crc = Continued(@, data),
                    ![s].taken = @ \o buffer,
                    ![s].chunk_sequence = @ + 1,
                    ![s].current_position = @ + n]
        /\ UNCHANGED <<file, stream, changed, changes>>

-----------------------------------------------------------------------------
(* Others who use the file meanwhile: a StoreFile truncates it and writes   *)
(* it from the start, a DeleteFile removes its name.                        *)

Running(s) == sum[s].at \in {"open", "read"}

Change(s) ==
    /\ Running(s)
    /\ changes < MaxChanges
    /\ changes' = changes + 1
    /\ changed' = [changed EXCEPT ![s] = TRUE]

Truncate(s) ==
    /\ Change(s)
    /\ file' = [file EXCEPT ![s] = << >>]
    /\ UNCHANGED <<stream, sum>>

Extend(s) ==
    /\ Change(s)
    /\ file[s] # Absent
    /\ Len(file[s]) < MaxSize
    /\ \E b \in Byte : file' = [file EXCEPT ![s] = Append(@, b)]
    /\ UNCHANGED <<stream, sum>>

Remove(s) ==
    /\ Change(s)
    /\ file[s] # Absent
    /\ stream' = [stream EXCEPT ![s] = IF sum[s].at = "read" THEN Reading(s) ELSE @]
    /\ file' = [file EXCEPT ![s] = Absent]
    /\ UNCHANGED sum

-----------------------------------------------------------------------------
Files == UNION { [1..n -> Byte] : n \in 0..MaxSize }

Init ==
    /\ file \in [Side -> Files \cup {Absent}]
    /\ stream = [s \in Side |-> Absent]
    /\ sum = [s \in Side |-> NotCalled]
    /\ changed = [s \in Side |-> FALSE]
    /\ changes = 0

Next ==
    \E s \in Side :
        \/ Lstat(s) \/ Open(s) \/ ReadChunk(s)
        \/ Truncate(s) \/ Extend(s) \/ Remove(s)

Spec == Init /\ [][Next]_vars

-----------------------------------------------------------------------------
(* Properties *)

Chunk == [at : {"open", "read"}, crc : CRCType, taken : Seq(Byte), file_size : Nat,
          buffer : Seq(Byte \cup {Uninit}), chunk_count : Nat,
          chunk_sequence : Nat, current_position : Nat]

\* The types of the variables.  In particular the checksum is computed from bytes
\* of files: no byte of the buffer that was never written gets into it, even when
\* the file changes while it is read.
TypeOK ==
    /\ file \in [Side -> Seq(Byte) \cup {Absent}]
    /\ stream \in [Side -> Seq(Byte) \cup {Absent}]
    /\ sum \in [Side -> Chunk \cup [at : {"idle", "done"}, crc : CRCType, taken : Seq(Byte)]]
    /\ changed \in [Side -> BOOLEAN]
    /\ changes \in 0..MaxChanges

\* The bytes of file f, and then those that fill its last chunk: where the
\* file has ended the buffer still has the bytes of the chunk before.
Padded(f) ==
    LET b == BufferSizeFor(Len(f))
    IN  [i \in 1..(ChunkCount(Len(f), b) * b) |-> IF i <= Len(f) THEN f[i] ELSE f[i - b]]

\* Both sides have their checksums, of files that nobody changed meanwhile.
Compared == \A s \in Side : sum[s].at = "done" /\ ~changed[s] /\ file[s] # Absent

\* The loop reads every byte of the file once, in order, whatever its size is
\* relative to the buffer; only the end of the last chunk is not the file's.
ChecksumOfFile ==
    \A s \in Side :
        sum[s].at = "done" /\ ~changed[s] /\ file[s] # Absent => sum[s].taken = Padded(file[s])

FileResidues == Residues(CRCWidth + CHAR_BIT * (MaxSize + BufferSize))

\* The checksum that the loop continues from chunk to chunk, by a table and
\* starting from 0, is the CRC of all bytes taken at once: the remainder of their
\* polynomial by the generator.
CrcIsRemainder ==
    \A s \in Side : sum[s].crc = Reference(sum[s].taken, FileResidues)

\* Two files of one size that differ in a single byte have different checksums,
\* although a byte may be taken twice, the second time to fill the last chunk:
\* a byte changed in place is always transferred.
ByteChangeDetected ==
    Compared => \A s, t \in Side : \A i \in 1..Len(file[s]) :
        (/\ Len(file[t]) = Len(file[s])
         /\ { j \in 1..Len(file[s]) : file[s][j] # file[t][j] } = {i})
            => sum[s].crc # sum[t].crc

\* dfslib-clientnode-p2.cpp:129, "ALREADY_EXISTS - if the local cached file has
\* not changed from the server version": equal checksums mean equal files.  This
\* is said of the bytes taken, so that no collision of the CRC counts.
AlreadyExistsIsUnchanged ==
    Compared => \A s, t \in Side : sum[s].taken = sum[t].taken => file[s] = file[t]
=============================================================================
