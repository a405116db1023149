------------------------- MODULE FileChecksumProofs -------------------------
(***************************************************************************)
(* Theorems about FileChecksum, for files of any size, buffers of any      *)
(* size, a CRC of any width and any number of changes meanwhile.           *)
(*                                                                         *)
(* ChecksumOfFile needs to be said of the loop before it ends: after k     *)
(* rounds it took the first k chunks of the padded file, and the buffer    *)
(* has the last of them (Underway).  TypeOK needs that the first read      *)
(* fills the buffer, whatever the file's size (Sizes, FirstReadIsFull).    *)
(***************************************************************************)
EXTENDS FileChecksum, CrcReferenceProofs, SequenceTheorems

\* The local variables of a running function: the sizes follow from lstat's, and
\* the position from the rounds.
SizesFit(m) ==
    LET b == BufferSizeFor(m.file_size)
    IN  /\ Len(m.buffer) = b
        /\ m.chunk_count = ChunkCount(m.file_size, b)
        /\ m.chunk_sequence \in 0..m.chunk_count
        /\ m.current_position =
              IF m.chunk_sequence * b < m.file_size THEN m.chunk_sequence * b ELSE m.file_size
        /\ m.at = "open" => m.chunk_sequence = 0 /\ m.taken = << >>
        /\ Len(m.taken) = m.chunk_sequence * b
        /\ m.chunk_sequence > 0 => m.buffer \in Seq(Byte)

Sizes == \A s \in Side : Running(s) => SizesFit(sum[s])

\* What k rounds took of the file f, and where it is in the buffer.
Took(m, f) ==
    LET b == BufferSizeFor(Len(f))
        k == m.chunk_sequence
    IN  /\ m.taken = [i \in 1..(k * b) |-> Padded(f)[i]]
        /\ k > 0 => m.buffer = [i \in 1..b |-> Padded(f)[k * b - b + i]]

\* A file that nobody changed: it is there, has the size of lstat, and its first
\* chunks were taken.
Underway ==
    \A s \in Side :
        ~changed[s] =>
            /\ stream[s] = Absent
            /\ Running(s) =>
                  /\ file[s] # Absent
                  /\ Len(file[s]) = sum[s].file_size
                  /\ Took(sum[s], file[s])

\* An open stream has a content, also when the file's name is gone.
Opened == \A s \in Side : sum[s].at = "read" => Reading(s) # Absent

Inv == TypeOK /\ Sizes /\ Opened /\ Underway /\ ChecksumOfFile

-----------------------------------------------------------------------------
(* Sizes *)

\* A buffer has a byte, and no more than the file has.
LEMMA BufferSizes ==
    ASSUME NEW size \in Nat
    PROVE  /\ BufferSizeFor(size) \in Nat \ {0}
           /\ size > 0 => BufferSizeFor(size) <= size
<1>1. BufferSize \in Nat \ {0, 1}
  BY ChecksumConstants
<1>2. size \div 2 \in Nat /\ 2 * (size \div 2) <= size
  OBVIOUS
<1> QED
  BY <1>1, <1>2 DEF BufferSizeFor

\* Chunks are a natural number, none of an empty file.
LEMMA ChunkCounts ==
    ASSUME NEW size \in Nat, NEW b \in Nat \ {0}
    PROVE  /\ ChunkCount(size, b) \in Nat
           /\ size = 0 => ChunkCount(size, b) = 0
           /\ size <= ChunkCount(size, b) * b
           /\ ChunkCount(size, b) > 0 => ChunkCount(size, b) * b - b < size
<1> DEFINE q == size \div b
           r == size % b
<1>1. q \in Nat /\ r \in 0..(b - 1) /\ size = b * q + r
  OBVIOUS
<1>2. q * b = b * q /\ (q + 1) * b = b * q + b
  BY <1>1
<1>3. size = 0 => q = 0 /\ r = 0
  OBVIOUS
<1>4. ChunkCount(size, b) = q + (IF r # 0 THEN 1 ELSE 0)
  BY DEF ChunkCount
<1> HIDE DEF q, r
<1>5. CASE r = 0
  BY <1>1, <1>2, <1>3, <1>4, <1>5
<1>6. CASE r # 0
  BY <1>1, <1>2, <1>3, <1>4, <1>6
<1> QED
  BY <1>5, <1>6

\* The next chunk of a file begins within it.
LEMMA NextChunk ==
    ASSUME NEW size \in Nat, NEW k \in Nat,
           k < ChunkCount(size, BufferSizeFor(size))
    PROVE  LET b == BufferSizeFor(size)
           IN  /\ k * b \in Nat /\ k * b < size /\ (k + 1) * b = k * b + b
               /\ k = 0 => b <= size
<1> DEFINE b == BufferSizeFor(size)
           n == ChunkCount(size, b)
<1>1. b \in Nat \ {0} /\ (size > 0 => b <= size)
  BY BufferSizes
<1>2. n \in Nat /\ (size = 0 => n = 0) /\ (n > 0 => n * b - b < size)
  BY <1>1, ChunkCounts
<1>3. k < n
  OBVIOUS
<1> HIDE DEF b, n
<1>4. k * b \in Nat /\ (k + 1) * b = k * b + b /\ k * b + b <= n * b
  BY <1>1, <1>2, <1>3, Multiples
<1>5. n * b \in Nat
  BY <1>1, <1>2
<1>6. k * b < size /\ (k = 0 => b <= size)
  BY <1>1, <1>2, <1>3, <1>4, <1>5
<1> QED
  BY <1>4, <1>6 DEF b

-----------------------------------------------------------------------------
(* Data *)

\* A CRC is CRCWidth bits, whatever the data and the CRC it continues.
LEMMA ContinuedType ==
    ASSUME NEW crc, NEW data PROVE Continued(crc, data) \in CRCType
BY DEF Continued, Calculate, Finalize, CRCType

\* The bytes of a file are bytes, and so are those it leaves in the buffer.
LEMMA OverwrittenType ==
    ASSUME NEW S, NEW buffer \in Seq(S), NEW data \in Seq(Byte), NEW pos \in Nat, NEW n \in Nat
    PROVE  /\ Overwritten(buffer, data, pos, n) \in Seq(S \cup Byte)
           /\ Len(Overwritten(buffer, data, pos, n)) = Len(buffer)
<1>1. \A i \in 1..Len(buffer) : buffer[i] \in S
  OBVIOUS
<1>2. \A i \in 1..Len(buffer) : pos + i <= Len(data) => data[pos + i] \in Byte
  OBVIOUS
<1>3. Overwritten(buffer, data, pos, n) \in [1..Len(buffer) -> S \cup Byte]
  BY <1>1, <1>2 DEF Overwritten
<1> QED
  BY <1>3

\* A read of a full buffer leaves none of its bytes.
LEMMA FullReadType ==
    ASSUME NEW S, NEW buffer \in Seq(S), NEW data \in Seq(Byte), NEW pos \in Nat,
           pos + Len(buffer) <= Len(data)
    PROVE  Overwritten(buffer, data, pos, Len(buffer)) \in Seq(Byte)
<1>1. \A i \in 1..Len(buffer) : pos + i \in 1..Len(data)
  OBVIOUS
<1>2. \A i \in 1..Len(buffer) : data[pos + i] \in Byte
  BY <1>1
<1>3. Overwritten(buffer, data, pos, Len(buffer)) \in [1..Len(buffer) -> Byte]
  BY <1>1, <1>2 DEF Overwritten
<1> QED
  BY <1>3

-----------------------------------------------------------------------------
(* The padded file *)

\* The file itself, and then bytes of it: a byte of the padding is that of the
\* chunk before.
LEMMA PaddedIs ==
    ASSUME NEW f \in Seq(Byte)
    PROVE  LET b == BufferSizeFor(Len(f))
               n == ChunkCount(Len(f), b)
           IN  /\ b \in Nat \ {0} /\ n \in Nat /\ n * b \in Nat
               /\ Len(f) <= n * b
               /\ n > 0 => n * b - b < Len(f)
               /\ Padded(f) \in Seq(Byte)
               /\ Len(Padded(f)) = n * b
               /\ \A i \in 1..Len(f) : Padded(f)[i] = f[i]
               /\ \A i \in 1..(n * b) : i > Len(f) => Padded(f)[i] = f[i - b]
<1> DEFINE b == BufferSizeFor(Len(f))
           n == ChunkCount(Len(f), b)
<1>1. /\ b \in Nat \ {0} /\ n \in Nat
      /\ Len(f) <= n * b
      /\ (n > 0 => n * b - b < Len(f)) /\ (Len(f) = 0 => n = 0)
      /\ (Len(f) > 0 => b <= Len(f))
  <2>1. PICK size \in Nat : size = Len(f)
    OBVIOUS
  <2>2. BufferSizeFor(size) \in Nat \ {0} /\ (size > 0 => BufferSizeFor(size) <= size)
    BY BufferSizes
  <2>3. PICK c \in Nat \ {0} : c = BufferSizeFor(size)
    BY <2>2
  <2>4. /\ ChunkCount(size, c) \in Nat
        /\ size <= ChunkCount(size, c) * c
        /\ (ChunkCount(size, c) > 0 => ChunkCount(size, c) * c - c < size)
        /\ (size = 0 => ChunkCount(size, c) = 0)
    BY ChunkCounts
  <2> QED
    BY <2>1, <2>2, <2>3, <2>4
<1>2. Padded(f) = [i \in 1..(n * b) |-> IF i <= Len(f) THEN f[i] ELSE f[i - b]]
  BY DEF Padded
<1> HIDE DEF b, n
<1>3. n * b \in Nat
  BY <1>1
<1>4. ASSUME NEW i \in 1..(n * b), i > Len(f)
      PROVE  i - b \in 1..Len(f)
  BY <1>1, <1>3, <1>4
<1>5. Padded(f) \in [1..(n * b) -> Byte]
  BY <1>1, <1>2, <1>3, <1>4
<1>6. Padded(f) \in Seq(Byte) /\ Len(Padded(f)) = n * b
  BY <1>3, <1>5
<1>7. \A i \in 1..Len(f) : Padded(f)[i] = f[i]
  BY <1>1, <1>2, <1>3
<1>8. \A i \in 1..(n * b) : i > Len(f) => Padded(f)[i] = f[i - b]
  BY <1>1, <1>2, <1>3
<1> QED
  BY <1>1, <1>3, <1>6, <1>7, <1>8 DEF b, n

-----------------------------------------------------------------------------
(* Initially nothing runs *)

LEMMA InitInv == Init => Inv
<1> SUFFICES ASSUME Init PROVE Inv
  OBVIOUS
<1>1. TypeOK
  <2>1. Files \subseteq Seq(Byte)
    BY DEF Files
  <2>2. NotCalled \in [at : {"idle", "done"}, crc : CRCType, taken : Seq(Byte)]
    BY DEF NotCalled, CRCType
  <2> QED
    BY <2>1, <2>2, ChecksumConstants DEF Init, TypeOK
<1>2. \A s \in Side : sum[s].at = "idle"
  BY DEF Init, NotCalled
<1>3. \A s \in Side : stream[s] = Absent
  BY DEF Init
<1> QED
  BY <1>1, <1>2, <1>3 DEF Inv, Sizes, Opened, Underway, ChecksumOfFile, Running

-----------------------------------------------------------------------------
(* The steps, one side at a time *)

\* The conjuncts of the invariant, of one side.
SideFits(s) ==
    /\ Running(s) => SizesFit(sum[s])
    /\ sum[s].at = "read" => Reading(s) # Absent
    /\ ~changed[s] =>
          /\ stream[s] = Absent
          /\ Running(s) => /\ file[s] # Absent
                           /\ Len(file[s]) = sum[s].file_size
                           /\ Took(sum[s], file[s])
          /\ sum[s].at = "done" /\ file[s] # Absent => sum[s].taken = Padded(file[s])

LEMMA BySide == ASSUME TypeOK PROVE Inv <=> \A s \in Side : SideFits(s)
BY DEF Inv, Sizes, Opened, Underway, ChecksumOfFile, SideFits

LEMMA BySidePrimed == ASSUME TypeOK' PROVE Inv' <=> \A s \in Side : SideFits(s)'
BY DEF Inv, Sizes, Opened, Underway, ChecksumOfFile, SideFits

\* A side whose variables stay as they are.
LEMMA SideUnchanged ==
    ASSUME NEW s \in Side, SideFits(s),
           sum'[s] = sum[s], file'[s] = file[s], stream'[s] = stream[s],
           changed'[s] = changed[s]
    PROVE  SideFits(s)'
BY DEF SideFits, Running, Reading

\* A return keeps what was taken.
LEMMA ReturnType ==
    ASSUME TypeOK, NEW s \in Side, Return(s)
    PROVE  /\ sum' \in [Side -> Chunk \cup [at : {"idle", "done"}, crc : CRCType, taken : Seq(Byte)]]
           /\ sum'[s].at = "done" /\ sum'[s].taken = sum[s].taken
           /\ \A t \in Side : t # s => sum'[t] = sum[t]
<1>1. sum[s].crc \in CRCType /\ sum[s].taken \in Seq(Byte)
  BY DEF TypeOK, Chunk
<1>2. sum' = [sum EXCEPT ![s] = [at |-> "done", crc |-> sum[s].crc, taken |-> sum[s].taken]]
  BY DEF Return, TypeOK
<1>3. [at |-> "done", crc |-> sum[s].crc, taken |-> sum[s].taken] \in
         [at : {"idle", "done"}, crc : CRCType, taken : Seq(Byte)]
  BY <1>1
<1> QED
  BY <1>2, <1>3 DEF TypeOK

\* The function starts: nothing was taken, and the sizes are those of the file.
LEMMA LstatInv ==
    ASSUME Inv, NEW s \in Side, Lstat(s)
    PROVE  Inv'
<1>0. TypeOK /\ SideFits(s) /\ \A t \in Side : SideFits(t)
  BY BySide DEF Inv
<1>u. file' = file /\ stream' = stream /\ changed' = changed /\ changes' = changes
  BY DEF Lstat
<1>1. CASE file[s] = Absent /\ Return(s)
  <2>1. TypeOK'
    BY <1>0, <1>1, <1>u, ReturnType DEF TypeOK
  <2>2. SideFits(s)'
    BY <1>0, <1>1, <1>u, ReturnType DEF SideFits, Running
  <2>3. \A t \in Side : SideFits(t)'
    BY <1>0, <1>1, <1>u, <2>2, ReturnType, SideUnchanged
  <2> QED
    BY <2>1, <2>3, BySidePrimed
<1>2. CASE file[s] # Absent /\ ~(file[s] = Absent /\ Return(s))
  <2>1. PICK size \in Nat : size = Len(file[s])
    BY <1>0, <1>2 DEF TypeOK
  <2>2. PICK b \in Nat \ {0} : b = BufferSizeFor(size)
    BY BufferSizes
  <2>3. PICK buffer \in Seq({Uninit}) : buffer = [i \in 1..b |-> Uninit] /\ Len(buffer) = b
    <3>1. [i \in 1..b |-> Uninit] \in [1..b -> {Uninit}]
      OBVIOUS
    <3>2. [i \in 1..b |-> Uninit] \in Seq({Uninit}) /\ Len([i \in 1..b |-> Uninit]) = b
      BY <3>1
    <3> QED
      BY <3>2
  <2>4. PICK n \in Nat : n = ChunkCount(size, b)
    BY ChunkCounts
  <2> DEFINE m == [at |-> "open", crc |-> {}, taken |-> << >>, file_size |-> size,
                   buffer |-> buffer, chunk_count |-> n,
                   chunk_sequence |-> 0, current_position |-> 0]
  <2>5. sum' = [sum EXCEPT ![s] = m]
    BY <1>2, <2>1, <2>2, <2>3, <2>4 DEF Lstat
  <2>6. m \in Chunk
    BY <2>3 DEF Chunk, CRCType
  <2>7. TypeOK'
    BY <1>0, <1>u, <2>5, <2>6 DEF TypeOK
  <2>8. sum'[s] = m /\ \A t \in Side : t # s => sum'[t] = sum[t]
    BY <1>0, <2>5 DEF TypeOK
  <2>9. SizesFit(m)
    BY <2>2, <2>3, <2>4 DEF SizesFit
  <2>10. Took(m, file[s])
    BY <2>1, <2>2 DEF Took
  <2>11. SideFits(s)'
    <3>1. PICK x : x = m
      OBVIOUS
    <3>2. SizesFit(x) /\ Took(x, file[s]) /\ x.at = "open" /\ x.file_size = Len(file[s])
      BY <3>1, <2>9, <2>10, <2>1
    <3>3. sum'[s] = x
      BY <3>1, <2>8
    <3> QED
      BY <1>0, <1>2, <1>u, <3>2, <3>3 DEF SideFits
  <2>12. \A t \in Side : SideFits(t)'
    BY <1>0, <1>u, <2>8, <2>11, SideUnchanged
  <2> QED
    BY <2>7, <2>12, BySidePrimed
<1> QED
  BY <1>1, <1>2 DEF Lstat

\* The file is opened, or is gone meanwhile.
LEMMA OpenInv ==
    ASSUME Inv, NEW s \in Side, Open(s)
    PROVE  Inv'
<1>0. TypeOK /\ SideFits(s) /\ \A t \in Side : SideFits(t)
  BY BySide DEF Inv
<1>u. /\ file' = file /\ stream' = stream /\ changed' = changed /\ changes' = changes
      /\ sum[s].at = "open" /\ Running(s)
  BY DEF Open, Running
<1>1. CASE file[s] = Absent /\ Return(s)
  <2>1. TypeOK'
    BY <1>0, <1>1, <1>u, ReturnType DEF TypeOK
  <2>2. SideFits(s)'
    BY <1>0, <1>1, <1>u, ReturnType DEF SideFits, Running
  <2>3. \A t \in Side : SideFits(t)'
    BY <1>0, <1>1, <1>u, <2>2, ReturnType, SideUnchanged
  <2> QED
    BY <2>1, <2>3, BySidePrimed
<1>2. CASE file[s] # Absent /\ sum' = [sum EXCEPT ![s].at = "read"]
  <2>1. sum[s] \in Chunk
    BY <1>0, <1>u DEF TypeOK
  <2>2. PICK m \in Chunk : m = [sum[s] EXCEPT !.at = "read"]
    BY <2>1 DEF Chunk
  <2>3. sum' = [sum EXCEPT ![s] = m]
    BY <1>2, <2>2
  <2>4. TypeOK'
    BY <1>0, <1>u, <2>3 DEF TypeOK
  <2>5. sum'[s] = m /\ \A t \in Side : t # s => sum'[t] = sum[t]
    BY <1>0, <2>3 DEF TypeOK
  <2>6. /\ m.at = "read" /\ m.file_size = sum[s].file_size /\ m.buffer = sum[s].buffer
        /\ m.chunk_count = sum[s].chunk_count /\ m.chunk_sequence = sum[s].chunk_sequence
        /\ m.current_position = sum[s].current_position /\ m.taken = sum[s].taken
    BY <2>1, <2>2 DEF Chunk
  <2>7. SizesFit(m)
    BY <1>0, <1>u, <2>6 DEF SizesFit, SideFits
  <2>8. ~changed[s] => Len(file[s]) = m.file_size /\ Took(m, file[s])
    BY <1>0, <1>u, <2>6 DEF SideFits, Took
  <2>9. SideFits(s)'
    BY <1>0, <1>u, <1>2, <2>5, <2>6, <2>7, <2>8 DEF SideFits, Reading
  <2>10. \A t \in Side : SideFits(t)'
    BY <1>0, <1>u, <2>5, <2>9, SideUnchanged
  <2> QED
    BY <2>4, <2>10, BySidePrimed
<1> QED
  BY <1>1, <1>2 DEF Open

\* A round takes a buffer of bytes, whoever changed the file meanwhile.
LEMMA RoundType ==
    ASSUME TypeOK, NEW s \in Side, SideFits(s), sum[s].at = "read",
           sum[s].chunk_sequence # sum[s].chunk_count,
           sum[s].current_position + ReadSize(sum[s]) <= Len(Reading(s)),
           Reading(s) \in Seq(Byte)
    PROVE  LET m == sum[s]
               buffer == Overwritten(m.buffer, Reading(s), m.current_position, ReadSize(m))
           IN  buffer \in Seq(Byte) /\ Len(buffer) = Len(m.buffer)
<1>1. PICK m \in Chunk : m = sum[s]
  BY DEF TypeOK
<1>2. SizesFit(m) /\ m.chunk_sequence # m.chunk_count /\ m.at = "read"
  BY <1>1 DEF SideFits, Running
<1>3. PICK size \in Nat : size = m.file_size
  BY DEF Chunk
<1>4. PICK b \in Nat \ {0} : b = BufferSizeFor(size)
  BY BufferSizes
<1>5. Len(m.buffer) = b /\ m.buffer \in Seq(Byte \cup {Uninit})
  BY <1>2, <1>3, <1>4 DEF SizesFit, Chunk
<1>6. PICK k \in Nat : k = m.chunk_sequence /\ k < ChunkCount(size, b)
  <2>1. ChunkCount(size, b) \in Nat
    BY ChunkCounts
  <2> QED
    BY <1>2, <1>3, <1>4, <2>1 DEF SizesFit
<1>7. k * b \in Nat /\ k * b < size /\ (k = 0 => b <= size)
  BY <1>4, <1>6, NextChunk
<1>8. m.current_position = k * b
  BY <1>2, <1>3, <1>4, <1>6, <1>7 DEF SizesFit
<1>9. ReadSize(m) \in Nat /\ (k = 0 => ReadSize(m) = b)
  BY <1>3, <1>5, <1>7, <1>8 DEF ReadSize
<1>10. CASE k = 0
  <2>1. m.current_position + Len(m.buffer) <= Len(Reading(s)) /\ ReadSize(m) = Len(m.buffer)
    BY <1>1, <1>5, <1>9, <1>10
  <2>2. m.current_position \in Nat
    BY <1>7, <1>8
  <2>3. Overwritten(m.buffer, Reading(s), m.current_position, Len(m.buffer)) \in Seq(Byte)
    BY <1>5, <2>1, <2>2, FullReadType
  <2>4. Len(Overwritten(m.buffer, Reading(s), m.current_position, Len(m.buffer))) = Len(m.buffer)
    BY <1>5, <2>2, OverwrittenType
  <2> QED
    BY <1>1, <2>1, <2>3, <2>4
<1>11. CASE k # 0
  <2>1. m.buffer \in Seq(Byte)
    BY <1>2, <1>6, <1>11 DEF SizesFit
  <2>2. /\ Overwritten(m.buffer, Reading(s), m.current_position, ReadSize(m)) \in Seq(Byte \cup Byte)
        /\ Len(Overwritten(m.buffer, Reading(s), m.current_position, ReadSize(m))) = Len(m.buffer)
    BY <1>7, <1>8, <1>9, <2>1, OverwrittenType
  <2>3. Byte \cup Byte = Byte
    OBVIOUS
  <2> QED
    BY <1>1, <2>2, <2>3
<1> QED
  BY <1>10, <1>11

\* After a round the sizes still fit.
LEMMA RoundSizes ==
    ASSUME NEW m \in Chunk, SizesFit(m), m.at = "read", m.chunk_sequence # m.chunk_count,
           NEW w \in Chunk, w.at = "read", w.file_size = m.file_size,
           w.buffer \in Seq(Byte), Len(w.buffer) = Len(m.buffer),
           w.chunk_count = m.chunk_count, w.chunk_sequence = m.chunk_sequence + 1,
           w.current_position = m.current_position + ReadSize(m),
           w.taken = m.taken \o w.buffer
    PROVE  SizesFit(w)
<1>1. PICK size \in Nat : size = m.file_size
  BY DEF Chunk
<1>2. PICK b \in Nat \ {0} : b = BufferSizeFor(size)
  BY BufferSizes
<1>3. PICK n \in Nat : n = ChunkCount(size, b)
  BY ChunkCounts
<1>4. PICK k \in Nat : k = m.chunk_sequence /\ k < n
  BY <1>1, <1>2, <1>3 DEF SizesFit
<1>5. k * b \in Nat /\ k * b < size /\ (k + 1) * b = k * b + b
  BY <1>2, <1>3, <1>4, NextChunk
<1>6. m.current_position = k * b /\ Len(m.buffer) = b /\ m.chunk_count = n
  BY <1>1, <1>2, <1>3, <1>4, <1>5 DEF SizesFit
<1>7. w.current_position = IF k * b + b < size THEN k * b + b ELSE size
  <2>1. ReadSize(m) = IF size - k * b < b THEN size - k * b ELSE b
    BY <1>1, <1>6 DEF ReadSize
  <2>2. w.current_position = k * b + ReadSize(m)
    BY <1>6
  <2>3. \A x \in Nat : x + (IF size - x < b THEN size - x ELSE b)
                           = IF x + b < size THEN x + b ELSE size
    OBVIOUS
  <2> QED
    BY <1>5, <2>1, <2>2, <2>3
<1>8. /\ Len(w.buffer) = b
      /\ w.chunk_count = n
      /\ w.chunk_sequence = k + 1 /\ k + 1 \in 0..n
  BY <1>3, <1>4, <1>6
<1>9. w.chunk_sequence * b = k * b + b
  BY <1>5, <1>8
<1>10. /\ w.file_size = size /\ w.at # "open" /\ w.chunk_sequence # 0
       /\ w.current_position =
             IF w.chunk_sequence * b < size THEN w.chunk_sequence * b ELSE size
  BY <1>1, <1>4, <1>7, <1>9
<1>11. Len(w.taken) = w.chunk_sequence * b
  <2>1. Len(m.taken) = k * b /\ m.taken \in Seq(Byte)
    BY <1>1, <1>2, <1>4 DEF SizesFit, Chunk
  <2>2. Len(w.taken) = Len(m.taken) + Len(w.buffer)
    <3>1. \A c, d \in Seq(Byte) : Len(c \o d) = Len(c) + Len(d)
      OBVIOUS
    <3>2. w.taken = m.taken \o w.buffer /\ w.buffer \in Seq(Byte)
      OBVIOUS
    <3> QED
      BY <2>1, <3>1, <3>2
  <2> QED
    BY <1>6, <1>9, <2>1, <2>2
<1> QED
  BY <1>1, <1>2, <1>3, <1>8, <1>10, <1>11 DEF SizesFit

\* Two parts of a sequence that follow each other.
LEMMA Joined ==
    ASSUME NEW g \in Seq(Byte), NEW p \in Nat, NEW b \in Nat, p + b <= Len(g)
    PROVE  [i \in 1..p |-> g[i]] \o [i \in 1..b |-> g[p + i]] = [i \in 1..(p + b) |-> g[i]]
<1> DEFINE x == [i \in 1..p |-> g[i]]
           y == [i \in 1..b |-> g[p + i]]
           z == [i \in 1..(p + b) |-> g[i]]
<1>1. \A i \in 1..(p + b) : g[i] \in Byte
  OBVIOUS
<1>2. x \in [1..p -> Byte] /\ y \in [1..b -> Byte] /\ z \in [1..(p + b) -> Byte]
  BY <1>1
<1>3. x \in Seq(Byte) /\ y \in Seq(Byte) /\ z \in Seq(Byte)
  BY <1>2
<1>4. Len(x) = p /\ Len(y) = b /\ Len(z) = p + b
  BY <1>2
<1>5. /\ \A i \in 1..p : x[i] = g[i]
      /\ \A i \in 1..b : y[i] = g[p + i]
      /\ \A i \in 1..(p + b) : z[i] = g[i]
  OBVIOUS
<1> HIDE DEF x, y, z
<1>6. x \o y \in Seq(Byte) /\ Len(x \o y) = p + b
      /\ \A i \in 1..(p + b) : (x \o y)[i] = IF i <= p THEN x[i] ELSE y[i - p]
  <2>1. /\ x \o y \in Seq(Byte)
        /\ Len(x \o y) = Len(x) + Len(y)
        /\ \A i \in 1..(Len(x) + Len(y)) :
              (x \o y)[i] = IF i <= Len(x) THEN x[i] ELSE y[i - Len(x)]
    BY <1>3, ConcatProperties
  <2> QED
    BY <2>1, <1>4
<1>7. ASSUME NEW i \in 1..(p + b)
      PROVE  (IF i <= p THEN x[i] ELSE y[i - p]) = z[i]
  <2>1. i > p => i - p \in 1..b /\ p + (i - p) = i
    OBVIOUS
  <2>2. i <= p => i \in 1..p
    OBVIOUS
  <2> QED
    BY <1>5, <2>1, <2>2
<1>8. x \o y = z
  BY <1>3, <1>4, <1>6, <1>7, SeqEqual
<1> QED
  BY <1>8 DEF x, y, z

\* A round of a file that nobody changed takes its next chunk: where the file
\* ends, the buffer has the bytes of the chunk before, which are the padding.
LEMMA RoundTook ==
    ASSUME NEW f \in Seq(Byte),
           NEW m \in Chunk, SizesFit(m), m.at = "read", m.chunk_sequence # m.chunk_count,
           m.file_size = Len(f), Took(m, f),
           NEW buffer, buffer = Overwritten(m.buffer, f, m.current_position, ReadSize(m)),
           NEW w, w.chunk_sequence = m.chunk_sequence + 1,
           w.taken = m.taken \o buffer, w.buffer = buffer
    PROVE  Took(w, f)
<1>1. PICK size \in Nat : size = Len(f)
  OBVIOUS
<1>2. PICK b \in Nat \ {0} : b = BufferSizeFor(size)
  BY BufferSizes
<1>3. PICK n \in Nat : n = ChunkCount(size, b)
  BY ChunkCounts
<1>4. PICK k \in Nat : k = m.chunk_sequence /\ k < n
  BY <1>1, <1>2, <1>3 DEF SizesFit
<1>5. /\ k * b \in Nat /\ k * b < size /\ (k + 1) * b = k * b + b
      /\ (k = 0 => b <= size)
  BY <1>2, <1>3, <1>4, NextChunk
<1>6. m.current_position = k * b /\ Len(m.buffer) = b
  BY <1>1, <1>2, <1>3, <1>4, <1>5 DEF SizesFit
<1>7. PICK g \in Seq(Byte) :
         /\ g = Padded(f) /\ Len(g) = n * b
         /\ \A i \in 1..size : g[i] = f[i]
         /\ \A i \in 1..(n * b) : i > size => g[i] = f[i - b]
  BY <1>1, <1>2, <1>3, PaddedIs, ZenonT(60)
<1>8. n * b \in Nat /\ k * b + b <= n * b
  <2>1. k * b + b <= n * b
    BY <1>4, Multiples
  <2> QED
    BY <2>1
<1>9. PICK p \in Nat : p = k * b
  BY <1>5
<1>10. PICK len \in Nat : len = n * b
  BY <1>8
<1>11. m.taken = [i \in 1..p |-> g[i]] /\ (k > 0 => m.buffer = [i \in 1..b |-> g[p - b + i]])
  BY <1>1, <1>2, <1>4, <1>7, <1>9 DEF Took
<1>12. k > 0 => p - b \in Nat
  <2>1. CASE k > 0
    <3>1. k - 1 \in Nat
      BY <2>1
    <3>2. (k - 1) * b \in Nat /\ (k - 1) * b = k * b - b
      BY <3>1
    <3> QED
      BY <3>2, <1>9
  <2> QED
    BY <2>1
<1>13. ReadSize(m) = IF size - p < b THEN size - p ELSE b
  BY <1>1, <1>6, <1>9 DEF ReadSize
<1>14. buffer = [i \in 1..b |-> g[p + i]]
  <2>1. buffer = [i \in 1..b |-> IF i <= ReadSize(m) /\ p + i <= size THEN f[p + i] ELSE m.buffer[i]]
    BY <1>1, <1>6, <1>9 DEF Overwritten
  <2>2. ASSUME NEW i \in 1..b, i <= ReadSize(m) /\ p + i <= size
        PROVE  f[p + i] = g[p + i]
    BY <1>7, <2>2
  <2>3. ASSUME NEW i \in 1..b, ~(i <= ReadSize(m) /\ p + i <= size)
        PROVE  m.buffer[i] = g[p + i]
    <3>1. p + i > size /\ k > 0
      BY <1>5, <1>9, <1>13, <2>3
    <3>2. m.buffer[i] = g[p - b + i]
      BY <1>11, <3>1
    <3>3. p - b + i \in 1..size
      BY <1>5, <1>9, <1>12, <3>1
    <3>4. g[p - b + i] = f[p - b + i]
      BY <1>7, <3>3
    <3>5. p + i \in 1..len
      BY <1>8, <1>9, <1>10
    <3>6. g[p + i] = f[p + i - b]
      BY <1>7, <1>10, <3>1, <3>5
    <3>7. p + i - b = p - b + i
      OBVIOUS
    <3> QED
      BY <3>2, <3>4, <3>6, <3>7
  <2> QED
    BY <2>1, <2>2, <2>3
<1>15. w.taken = [i \in 1..(p + b) |-> g[i]]
  <2>1. p + b <= Len(g)
    BY <1>7, <1>8, <1>9
  <2> QED
    BY <1>11, <1>14, <2>1, Joined
<1> QED
  <2>1. w.chunk_sequence = k + 1 /\ (k + 1) * b = p + b /\ p + b - b = p
    BY <1>4, <1>5, <1>9
  <2>2. w.taken = [i \in 1..((k + 1) * b) |-> g[i]]
    BY <2>1, <1>15
  <2>3. w.buffer = [i \in 1..b |-> g[(k + 1) * b - b + i]]
    <3>1. \A i \in 1..b : (k + 1) * b - b + i = p + i
      BY <2>1
    <3> QED
      BY <3>1, <1>14
  <2> QED
    BY <1>1, <1>2, <1>7, <2>1, <2>2, <2>3 DEF Took

\* One round of the loop, or its end.
LEMMA ReadChunkInv ==
    ASSUME Inv, NEW s \in Side, ReadChunk(s)
    PROVE  Inv'
<1>0. TypeOK /\ SideFits(s) /\ \A t \in Side : SideFits(t)
  BY BySide DEF Inv
<1>u. /\ file' = file /\ stream' = stream /\ changed' = changed /\ changes' = changes
      /\ sum[s].at = "read" /\ Running(s)
  BY DEF ReadChunk, Running
<1>1. PICK m \in Chunk : m = sum[s]
  BY <1>0, <1>u DEF TypeOK
<1>2. SizesFit(m) /\ m.at = "read"
  BY <1>0, <1>1, <1>u DEF SideFits
<1>3. ~changed[s] => /\ file[s] # Absent /\ file[s] \in Seq(Byte) /\ Reading(s) = file[s]
                     /\ Len(file[s]) = m.file_size /\ Took(m, file[s])
  BY <1>0, <1>1, <1>u DEF SideFits, Reading, TypeOK
<1>4. /\ m.current_position \in Nat /\ m.file_size \in Nat
      /\ m.current_position <= m.file_size
      /\ ReadSize(m) \in Nat
      /\ m.current_position + ReadSize(m) <= m.file_size
  <2>1. PICK b \in Nat \ {0} : b = BufferSizeFor(m.file_size)
    BY BufferSizes DEF Chunk
  <2>2. m.current_position \in Nat /\ m.file_size \in Nat /\ m.chunk_sequence \in Nat
    BY DEF Chunk
  <2>3. m.current_position <= m.file_size /\ Len(m.buffer) = b
    BY <1>2, <2>1, <2>2 DEF SizesFit
  <2> QED
    BY <2>2, <2>3 DEF ReadSize
<1>5. CASE m.chunk_sequence = m.chunk_count /\ Return(s)
  <2>1. TypeOK'
    BY <1>0, <1>5, <1>u, ReturnType DEF TypeOK
  <2>2. ~changed[s] => m.taken = Padded(file[s])
    <3>1. SUFFICES ASSUME ~changed[s] PROVE m.taken = Padded(file[s])
      OBVIOUS
    <3>2. PICK f \in Seq(Byte) : f = file[s]
      BY <1>3, <3>1
    <3>3. m.file_size = Len(f) /\ Took(m, f)
      BY <1>3, <3>1, <3>2
    <3>4. m.chunk_sequence = ChunkCount(Len(f), BufferSizeFor(Len(f)))
      BY <1>2, <1>5, <3>3 DEF SizesFit
    <3>5. m.taken = [i \in 1..(ChunkCount(Len(f), BufferSizeFor(Len(f))) * BufferSizeFor(Len(f)))
                        |-> Padded(f)[i]]
      BY <3>3, <3>4 DEF Took
    <3>6. m.taken = Padded(f)
      BY <3>5 DEF Padded
    <3> QED
      BY <3>2, <3>6
  <2>3. SideFits(s)'
    BY <1>0, <1>1, <1>5, <1>u, <2>2, ReturnType DEF SideFits, Running
  <2>4. \A t \in Side : SideFits(t)'
    BY <1>0, <1>5, <1>u, <2>3, ReturnType, SideUnchanged
  <2> QED
    BY <2>1, <2>4, BySidePrimed
<1>6. CASE m.chunk_sequence # m.chunk_count /\ Return(s)
           /\ m.current_position + ReadSize(m) > Len(Reading(s))
  <2>1. TypeOK'
    BY <1>0, <1>6, <1>u, ReturnType DEF TypeOK
  <2>2. changed[s]
    BY <1>3, <1>4, <1>6
  <2>3. SideFits(s)'
    BY <1>0, <1>1, <1>6, <1>u, <2>2, ReturnType DEF SideFits, Running
  <2>4. \A t \in Side : SideFits(t)'
    BY <1>0, <1>6, <1>u, <2>3, ReturnType, SideUnchanged
  <2> QED
    BY <2>1, <2>4, BySidePrimed
<1>7. ASSUME m.chunk_sequence # m.chunk_count,
             m.current_position + ReadSize(m) <= Len(Reading(s)),
             NEW data, NEW buffer,
             buffer = Overwritten(m.buffer, Reading(s), m.current_position, ReadSize(m)),
             sum' = [sum EXCEPT
                    ![s].buffer = buffer,
                    ![s].crc = Continued(@, data),
                    ![s].taken = @ \o buffer,
                    ![s].chunk_sequence = @ + 1,
                    ![s].current_position = @ + ReadSize(m)]
      PROVE  Inv'
  <2>1. Reading(s) \in Seq(Byte)
    BY <1>0, <1>u DEF TypeOK, Reading, SideFits
  <2>2. buffer \in Seq(Byte) /\ Len(buffer) = Len(m.buffer)
    BY <1>0, <1>1, <1>u, <1>7, <2>1, RoundType
  <2>3. PICK w : w = [m EXCEPT !.buffer = buffer, !.crc = Continued(@, data),
                              !.taken = @ \o buffer, !.chunk_sequence = @ + 1,
                              !.current_position = @ + ReadSize(m)]
    OBVIOUS
  <2>4. /\ w.at = "read" /\ w.file_size = m.file_size /\ w.buffer = buffer
        /\ w.chunk_count = m.chunk_count /\ w.chunk_sequence = m.chunk_sequence + 1
        /\ w.current_position = m.current_position + ReadSize(m)
        /\ w.taken = m.taken \o buffer
    BY <1>2, <2>3 DEF Chunk
  <2>5. w \in Chunk
    <3>1. Continued(m.crc, data) \in CRCType
      BY ContinuedType
    <3>2. m.taken \o buffer \in Seq(Byte)
      BY <2>2 DEF Chunk
    <3>3. buffer \in Seq(Byte \cup {Uninit})
      BY <2>2
    <3>4. m.chunk_sequence + 1 \in Nat /\ m.current_position + ReadSize(m) \in Nat
      BY <1>4 DEF Chunk
    <3> QED
      BY <2>3, <3>1, <3>2, <3>3, <3>4 DEF Chunk
  <2>6. sum' = [sum EXCEPT ![s] = w]
    BY <1>1, <1>7, <2>3
  <2>7. TypeOK'
    BY <1>0, <1>u, <2>5, <2>6 DEF TypeOK
  <2>8. sum'[s] = w /\ \A t \in Side : t # s => sum'[t] = sum[t]
    BY <1>0, <2>6 DEF TypeOK
  <2>9. SizesFit(w)
    BY <1>2, <1>7, <2>2, <2>4, <2>5, RoundSizes
  <2>10. ~changed[s] => Took(w, file[s])
    BY <1>2, <1>3, <1>7, <2>4, RoundTook
  <2>11. SideFits(s)'
    BY <1>0, <1>3, <1>u, <2>4, <2>8, <2>9, <2>10 DEF SideFits, Reading
  <2>12. \A t \in Side : SideFits(t)'
    BY <1>0, <1>u, <2>8, <2>11, SideUnchanged
  <2> QED
    BY <2>7, <2>12, BySidePrimed
<1> QED
  <2> DEFINE buffer == Overwritten(sum[s].buffer, Reading(s), sum[s].current_position,
                                   ReadSize(sum[s]))
  <2>1. ASSUME sum[s].chunk_sequence # sum[s].chunk_count,
               sum[s].current_position + ReadSize(sum[s]) <= Len(Reading(s)),
               NEW data \in Possible(buffer),
               sum' = [sum EXCEPT
                    ![s].buffer = buffer,
                    ![s].crc = Continued(@, data),
                    ![s].taken = @ \o buffer,
                    ![s].chunk_sequence = @ + 1,
                    ![s].current_position = @ + ReadSize(sum[s])]
        PROVE  Inv'
    BY <1>1, <1>7, <2>1
  <2> QED
    BY <1>1, <1>5, <1>6, <2>1 DEF ReadChunk

\* Others change the file: nothing is said of what is taken from now on.
LEMMA ChangeInv ==
    ASSUME Inv, NEW s \in Side, Truncate(s) \/ Extend(s) \/ Remove(s)
    PROVE  Inv'
<1>0. TypeOK /\ SideFits(s) /\ \A t \in Side : SideFits(t)
  BY BySide DEF Inv
<1>u. /\ Running(s) /\ changes < MaxChanges /\ changes' = changes + 1
      /\ changed' = [changed EXCEPT ![s] = TRUE] /\ sum' = sum
  BY DEF Truncate, Extend, Remove, Change
<1>1. PICK content \in Seq(Byte) \cup {Absent} : file' = [file EXCEPT ![s] = content]
  <2>1. CASE Truncate(s)
    <3>1. << >> \in Seq(Byte)
      OBVIOUS
    <3> QED
      BY <2>1, <3>1 DEF Truncate
  <2>2. CASE Extend(s)
    <3>1. PICK b \in Byte : file' = [file EXCEPT ![s] = Append(file[s], b)]
      BY <1>0, <2>2 DEF Extend, TypeOK
    <3>2. Append(file[s], b) \in Seq(Byte)
      BY <1>0, <2>2 DEF Extend, TypeOK
    <3> QED
      BY <3>1, <3>2
  <2>3. CASE Remove(s)
    BY <2>3 DEF Remove
  <2> QED
    BY <2>1, <2>2, <2>3
<1>2. PICK open \in Seq(Byte) \cup {Absent} : stream' = [stream EXCEPT ![s] = open]
  <2>1. CASE Truncate(s) \/ Extend(s)
    BY <1>0, <2>1 DEF Truncate, Extend, TypeOK
  <2>2. CASE Remove(s)
    BY <1>0, <2>2 DEF Remove, Reading, TypeOK
  <2> QED
    BY <2>1, <2>2
<1>3. TypeOK'
  BY <1>0, <1>1, <1>2, <1>u, ChecksumConstants DEF TypeOK
<1>4. SideFits(s)'
  <2>1. changed'[s] = TRUE
    BY <1>0, <1>u DEF TypeOK
  <2>2. sum[s].at = "read" => Reading(s)' # Absent
    <3>1. << >> # Absent /\ \A b \in Byte, f \in Seq(Byte) : Append(f, b) # Absent
      <4>1. << >> \in Seq(Byte) /\ \A b \in Byte, f \in Seq(Byte) : Append(f, b) \in Seq(Byte)
        OBVIOUS
      <4> QED
        BY <4>1, ChecksumConstants
    <3>2. CASE Truncate(s)
      BY <1>0, <3>1, <3>2 DEF Truncate, Reading, TypeOK, SideFits
    <3>3. CASE Extend(s)
      BY <1>0, <3>1, <3>3 DEF Extend, Reading, TypeOK, SideFits
    <3>4. CASE Remove(s)
      BY <1>0, <3>4 DEF Remove, Reading, TypeOK, SideFits
    <3> QED
      BY <3>2, <3>3, <3>4
  <2> QED
    BY <1>0, <1>u, <2>1, <2>2 DEF SideFits, Running
<1>5. ASSUME NEW t \in Side, t # s PROVE SideFits(t)'
  BY <1>0, <1>1, <1>2, <1>5, <1>u, SideUnchanged DEF TypeOK
<1> QED
  BY <1>3, <1>4, <1>5, BySidePrimed

\* Every step keeps the invariant.
LEMMA NextInv == Inv /\ [Next]_vars => Inv'
<1> SUFFICES ASSUME Inv, [Next]_vars PROVE Inv'
  OBVIOUS
<1>1. CASE UNCHANGED vars
  BY <1>1 DEF Inv, TypeOK, Sizes, Opened, Underway, ChecksumOfFile, Running, Reading, vars
<1>2. ASSUME NEW s \in Side, Lstat(s) PROVE Inv'
  BY <1>2, LstatInv
<1>3. ASSUME NEW s \in Side, Open(s) PROVE Inv'
  BY <1>3, OpenInv
<1>4. ASSUME NEW s \in Side, ReadChunk(s) PROVE Inv'
  BY <1>4, ReadChunkInv
<1>5. ASSUME NEW s \in Side, Truncate(s) \/ Extend(s) \/ Remove(s) PROVE Inv'
  BY <1>5, ChangeInv
<1> QED
  BY <1>1, <1>2, <1>3, <1>4, <1>5 DEF Next

-----------------------------------------------------------------------------
(* The CRC, from step to step *)

\* The CRC so far is that of all bytes taken, computed at once.
Continues == \A s \in Side : sum[s].crc = Calculate(sum[s].taken, crc_table, {})

\* No file is larger than MaxSize, and less than a chunk is taken beyond its size.
Bounded ==
    \A s \in Side : /\ file[s] # Absent => Len(file[s]) <= MaxSize
                    /\ Running(s) => sum[s].file_size <= MaxSize
                    /\ Len(sum[s].taken) <= MaxSize + BufferSize

\* What a step does to the CRC of a side: it leaves it, begins a new one, or
\* continues it with a buffer of bytes.
Stays(s) ==
    /\ sum'[s].crc = sum[s].crc /\ sum'[s].taken = sum[s].taken
    /\ Running(s)' => Running(s) /\ sum'[s].file_size = sum[s].file_size

Begins(s) ==
    /\ sum'[s].crc = {} /\ sum'[s].taken = << >>
    /\ file[s] # Absent /\ sum'[s].file_size = Len(file[s])

TakesMore(s) ==
    /\ Running(s) /\ Running(s)' /\ sum'[s].file_size = sum[s].file_size
    /\ \E buffer \in Seq(Byte) :
          /\ sum'[s].crc = Continued(sum[s].crc, buffer)
          /\ sum'[s].taken = sum[s].taken \o buffer

\* A buffer of bytes that were all written may be only itself.
LEMMA PossibleIs ==
    ASSUME NEW buffer \in Seq(Byte), NEW data \in Possible(buffer)
    PROVE  data = buffer
<1>1. data \in [1..Len(buffer) -> Byte]
  BY DEF Possible
<1>2. \A i \in 1..Len(buffer) : buffer[i] \in Byte
  OBVIOUS
<1>3. \A i \in 1..Len(buffer) : data[i] = buffer[i]
  BY <1>2, ChecksumConstants DEF Possible
<1>4. data \in Seq(Byte) /\ Len(data) = Len(buffer)
  BY <1>1
<1> QED
  BY <1>3, <1>4, SeqEqual

\* Every step does one of the three, to each side.
LEMMA CrcStep ==
    ASSUME Inv, [Next]_vars, NEW t \in Side
    PROVE  Stays(t) \/ Begins(t) \/ TakesMore(t)
<1>0. TypeOK /\ \A s \in Side : SideFits(s)
  BY BySide DEF Inv
<1>1. CASE sum'[t] = sum[t]
  BY <1>1 DEF Stays, Running
<1>2. ASSUME NEW s \in Side, Return(s) PROVE Stays(t)
  <2>1. sum'[s].at = "done" /\ sum'[s].taken = sum[s].taken /\ sum'[s].crc = sum[s].crc
    BY <1>0, <1>2 DEF Return, TypeOK
  <2>2. CASE t = s
    BY <2>1, <2>2 DEF Stays, Running
  <2>3. CASE t # s
    <3>1. sum'[t] = sum[t]
      BY <1>0, <1>2, <2>3 DEF Return, TypeOK
    <3> QED
      BY <3>1 DEF Stays, Running
  <2> QED
    BY <2>2, <2>3
<1>3. ASSUME NEW s \in Side, Lstat(s) PROVE Stays(t) \/ Begins(t)
  <2>1. CASE Return(s)
    BY <1>2, <2>1
  <2>2. CASE ~Return(s)
    <3>1. file[s] # Absent /\ file[s] \in Seq(Byte)
      BY <1>0, <1>3, <2>2 DEF Lstat, TypeOK
    <3>2. \E b, c : sum' = [sum EXCEPT ![s] =
              [at |-> "open", crc |-> {}, taken |-> << >>, file_size |-> Len(file[s]),
               buffer |-> b, chunk_count |-> c,
               chunk_sequence |-> 0, current_position |-> 0]]
      BY <1>3, <2>2 DEF Lstat
    <3>3. CASE t = s
      <4>1. sum'[t].crc = {} /\ sum'[t].taken = << >> /\ sum'[t].file_size = Len(file[t])
        BY <1>0, <3>2, <3>3 DEF TypeOK
      <4> QED
        BY <3>1, <3>3, <4>1 DEF Begins
    <3>4. CASE t # s
      <4>1. sum'[t] = sum[t]
        BY <1>0, <3>2, <3>4 DEF TypeOK
      <4> QED
        BY <4>1 DEF Stays, Running
    <3> QED
      BY <3>3, <3>4
  <2> QED
    BY <2>1, <2>2
<1>4. ASSUME NEW s \in Side, Open(s) PROVE Stays(t)
  <2>1. CASE Return(s)
    BY <1>2, <2>1
  <2>2. CASE ~Return(s)
    <3>1. sum' = [sum EXCEPT ![s].at = "read"] /\ sum[s].at = "open"
      BY <1>4, <2>2 DEF Open
    <3>2. sum[s] \in Chunk
      BY <1>0, <3>1 DEF TypeOK
    <3>3. CASE t = s
      BY <1>0, <3>1, <3>2, <3>3 DEF TypeOK, Stays, Running, Chunk
    <3>4. CASE t # s
      <4>1. sum'[t] = sum[t]
        BY <1>0, <3>1, <3>4 DEF TypeOK
      <4> QED
        BY <4>1 DEF Stays, Running
    <3> QED
      BY <3>3, <3>4
  <2> QED
    BY <2>1, <2>2
<1>5. ASSUME NEW s \in Side, ReadChunk(s) PROVE Stays(t) \/ TakesMore(t)
  <2>1. CASE Return(s)
    BY <1>2, <2>1
  <2>2. CASE ~Return(s)
    <3> DEFINE buffer == Overwritten(sum[s].buffer, Reading(s), sum[s].current_position,
                                     ReadSize(sum[s]))
    <3>1. /\ sum[s].at = "read" /\ sum[s].chunk_sequence # sum[s].chunk_count
          /\ sum[s].current_position + ReadSize(sum[s]) <= Len(Reading(s))
      BY <1>5, <2>2 DEF ReadChunk
    <3>2. PICK data \in Possible(buffer) : sum' = [sum EXCEPT
                    ![s].buffer = buffer,
                    ![s].crc = Continued(@, data),
                    ![s].taken = @ \o buffer,
                    ![s].chunk_sequence = @ + 1,
                    ![s].current_position = @ + ReadSize(sum[s])]
      BY <1>5, <2>2 DEF ReadChunk
    <3>3. Reading(s) \in Seq(Byte)
      BY <1>0, <3>1 DEF TypeOK, Reading, SideFits
    <3>4. buffer \in Seq(Byte)
      BY <1>0, <3>1, <3>3, RoundType
    <3> HIDE DEF buffer
    <3>5. data = buffer
      BY <3>4, PossibleIs
    <3>6. sum[s] \in Chunk
      BY <1>0, <3>1 DEF TypeOK
    <3>7. CASE t = s
      <4>1. /\ sum'[t].at = "read" /\ sum'[t].file_size = sum[t].file_size
            /\ sum'[t].crc = Continued(sum[t].crc, buffer)
            /\ sum'[t].taken = sum[t].taken \o buffer
        BY <1>0, <3>1, <3>2, <3>5, <3>6, <3>7 DEF TypeOK, Chunk
      <4>2. Running(t) /\ Running(t)'
        BY <3>1, <3>7, <4>1 DEF Running
      <4> QED
        BY <3>4, <4>1, <4>2 DEF TakesMore
    <3>8. CASE t # s
      <4>1. sum'[t] = sum[t]
        BY <1>0, <3>2, <3>8 DEF TypeOK
      <4> QED
        BY <4>1 DEF Stays, Running
    <3> QED
      BY <3>7, <3>8
  <2> QED
    BY <2>1, <2>2
<1>6. ASSUME NEW s \in Side, Truncate(s) \/ Extend(s) \/ Remove(s) PROVE Stays(t)
  BY <1>6 DEF Truncate, Extend, Remove, Stays, Running
<1>7. CASE UNCHANGED vars
  BY <1>1, <1>7 DEF vars
<1> QED
  BY <1>3, <1>4, <1>5, <1>6, <1>7 DEF Next

\* The bytes of files are bytes of the CRC's, and their CRCs registers.
LEMMA CrcTypes ==
    ASSUME TypeOK, NEW s \in Side
    PROVE  /\ sum[s].taken \in Seq(Byte) /\ sum[s].crc \in CRCType
           /\ Seq(Byte) \subseteq Seq(Char) /\ crc_table = TheTable
<1>1. sum[s].taken \in Seq(Byte) /\ sum[s].crc \in CRCType
  BY DEF TypeOK, Chunk
<1>2. Seq(Byte) \subseteq Seq(Char)
  BY ChecksumConstants
<1>3. crc_table = TheTable
  BY DEF crc_table, TheTable
<1> QED
  BY <1>1, <1>2, <1>3

\* What is continued from chunk to chunk stays the CRC of everything.
LEMMA ContinuesStep == Inv /\ Continues /\ [Next]_vars => Continues'
<1> SUFFICES ASSUME Inv, Continues, [Next]_vars, NEW s \in Side
             PROVE  sum'[s].crc = Calculate(sum'[s].taken, crc_table, {})
  BY DEF Continues, crc_table
<1>1. TypeOK /\ sum[s].crc = Calculate(sum[s].taken, crc_table, {})
  BY DEF Inv, Continues
<1>2. /\ sum[s].taken \in Seq(Byte) /\ Seq(Byte) \subseteq Seq(Char)
      /\ crc_table = TheTable /\ {} \in CRCType
  BY <1>1, CrcTypes DEF CRCType
<1>3. CASE Stays(s)
  BY <1>1, <1>3 DEF Stays
<1>4. CASE Begins(s)
  BY <1>2, <1>4, CrcOfNothing DEF Begins
<1>5. CASE TakesMore(s)
  <2>1. PICK buffer \in Seq(Byte) : /\ sum'[s].crc = Continued(sum[s].crc, buffer)
                                    /\ sum'[s].taken = sum[s].taken \o buffer
    BY <1>5 DEF TakesMore
  <2>2. PICK d \in Seq(Char) : d = sum[s].taken
    BY <1>2
  <2>3. buffer \in Seq(Char)
    BY <1>2
  <2>4. Calculate(d \o buffer, TheTable, {})
            = Calculate(buffer, TheTable, Calculate(d, TheTable, {}))
    BY <1>2, <2>3, CrcContinues
  <2>5. sum'[s].crc = Calculate(buffer, TheTable, sum[s].crc)
    BY <1>2, <2>1 DEF Continued
  <2> QED
    BY <1>1, <1>2, <2>1, <2>2, <2>4, <2>5
<1> QED
  BY <1>3, <1>4, <1>5, CrcStep

\* What a running function took is less than a chunk more than the file's size.
LEMMA TakenBound ==
    ASSUME NEW m \in Chunk, SizesFit(m), m.file_size <= MaxSize
    PROVE  Len(m.taken) <= MaxSize + BufferSize
<1>1. PICK size \in Nat : size = m.file_size
  BY DEF Chunk
<1>2. PICK b \in Nat \ {0} : b = BufferSizeFor(size)
  BY BufferSizes
<1>3. PICK n \in Nat : n = ChunkCount(size, b)
  BY ChunkCounts
<1>4. b <= BufferSize /\ BufferSize \in Nat /\ MaxSize \in Nat
  BY <1>2, ChecksumConstants DEF BufferSizeFor
<1>5. n > 0 => n * b - b < size
  BY <1>2, <1>3, ChunkCounts
<1>6. PICK k \in 0..n : k = m.chunk_sequence
  BY <1>1, <1>2, <1>3 DEF SizesFit
<1>7. Len(m.taken) = k * b
  BY <1>1, <1>2, <1>6 DEF SizesFit
<1>8. n * b \in Nat /\ k * b \in Nat
  BY <1>2, <1>6
<1>9. n * b <= MaxSize + BufferSize
  <2>1. CASE n = 0
    <3>1. n * b = 0
      BY <1>2, <2>1
    <3> QED
      BY <1>4, <3>1
  <2>2. CASE n # 0
    BY <1>1, <1>2, <1>4, <1>5, <1>8, <2>2
  <2> QED
    BY <2>1, <2>2
<1>10. CASE k = n
  BY <1>7, <1>9, <1>10
<1>11. CASE k < n
  <2>1. k * b + b <= n * b
    <3>1. k \in Nat
      BY <1>6
    <3> QED
      BY <1>2, <1>3, <1>11, <3>1, Multiples
  <2> QED
    BY <1>2, <1>4, <1>7, <1>8, <1>9, <2>1
<1> QED
  BY <1>6, <1>10, <1>11

\* Files stay as small, and so does what is taken of them.
LEMMA BoundedStep == Inv /\ Bounded /\ [Next]_vars => Bounded'
<1> SUFFICES ASSUME Inv, Bounded, [Next]_vars, NEW s \in Side
             PROVE  /\ file'[s] # Absent => Len(file'[s]) <= MaxSize
                    /\ Running(s)' => sum'[s].file_size <= MaxSize
                    /\ Len(sum'[s].taken) <= MaxSize + BufferSize
  BY DEF Bounded
<1>1. TypeOK /\ TypeOK' /\ Sizes'
  BY NextInv DEF Inv
<1>2. /\ file[s] # Absent => Len(file[s]) <= MaxSize
      /\ Running(s) => sum[s].file_size <= MaxSize
      /\ Len(sum[s].taken) <= MaxSize + BufferSize
  BY DEF Bounded
<1>3. file'[s] # Absent => Len(file'[s]) <= MaxSize
  <2>1. CASE file'[s] = file[s]
    BY <1>2, <2>1
  <2>2. ASSUME NEW t \in Side, Truncate(t), t = s PROVE Len(file'[s]) <= MaxSize
    <3>1. file'[s] = << >>
      BY <1>1, <2>2 DEF Truncate, TypeOK
    <3> QED
      BY <3>1, ChecksumConstants
  <2>3. ASSUME NEW t \in Side, Extend(t), t = s PROVE Len(file'[s]) <= MaxSize
    <3>1. PICK b \in Byte : file'[s] = Append(file[s], b)
      BY <1>1, <2>3 DEF Extend, TypeOK
    <3>2. file[s] \in Seq(Byte) /\ Len(file[s]) < MaxSize
      BY <1>1, <2>3 DEF Extend, TypeOK
    <3> QED
      BY <3>1, <3>2, ChecksumConstants
  <2>4. ASSUME NEW t \in Side, Remove(t), t = s PROVE file'[s] = Absent
    BY <1>1, <2>4 DEF Remove, TypeOK
  <2>5. ASSUME NEW t \in Side, Truncate(t) \/ Extend(t) \/ Remove(t), t # s
        PROVE  file'[s] = file[s]
    BY <1>1, <2>5 DEF Truncate, Extend, Remove, TypeOK
  <2>6. ASSUME NEW t \in Side, Lstat(t) \/ Open(t) \/ ReadChunk(t)
        PROVE  file'[s] = file[s]
    BY <2>6 DEF Lstat, Open, ReadChunk
  <2>7. CASE UNCHANGED vars
    BY <2>1, <2>7 DEF vars
  <2> QED
    BY <2>1, <2>2, <2>3, <2>4, <2>5, <2>6, <2>7 DEF Next
<1>4. Running(s)' => sum'[s].file_size <= MaxSize
  BY <1>2, CrcStep DEF Stays, Begins, TakesMore
<1>5. CASE Running(s)'
  <2>1. PICK m : m = sum'[s]
    OBVIOUS
  <2>2. m \in Chunk
    BY <1>1, <1>5, <2>1 DEF TypeOK, Running
  <2>3. SizesFit(sum'[s])
    BY <1>1, <1>5 DEF Sizes, SizesFit, BufferSizeFor, ChunkCount
  <2> QED
    BY <1>3, <1>4, <1>5, <2>1, <2>2, <2>3, TakenBound
<1>6. CASE ~Running(s)'
  <2>1. CASE Stays(s)
    BY <1>2, <1>3, <1>6, <2>1 DEF Stays
  <2>2. CASE Begins(s)
    BY <1>3, <1>6, <2>2, ChecksumConstants DEF Begins
  <2>3. CASE TakesMore(s)
    BY <1>6, <2>3 DEF TakesMore
  <2> QED
    BY <2>1, <2>2, <2>3, CrcStep
<1> QED
  BY <1>5, <1>6

-----------------------------------------------------------------------------
(* Theorems *)

\* The invariant holds in every reachable state.
THEOREM InvHolds == Spec => []Inv
<1>1. Init => Inv
  BY InitInv
<1>2. Inv /\ [Next]_vars => Inv'
  BY NextInv
<1> QED
  BY <1>1, <1>2, PTL DEF Spec

\* The checksum is computed from bytes that were read: although the buffer is not
\* initialised, no byte of it gets into the CRC before the first read has filled
\* it, for a file of any size that others truncate, extend or remove meanwhile.
THEOREM TypeCorrect == Spec => []TypeOK
<1>1. Inv => TypeOK
  BY DEF Inv
<1> QED
  BY <1>1, InvHolds, PTL

\* Of a file that nobody changes meanwhile, dfs_file_checksum takes every byte
\* once, in order, and fills the last chunk with bytes of the one before, for
\* any size of the file and of the buffer.
THEOREM ChecksumIsOfFile == Spec => []ChecksumOfFile
<1>1. Inv => ChecksumOfFile
  BY DEF Inv
<1> QED
  BY <1>1, InvHolds, PTL

\* Two files of one size of which the same bytes were taken.
SameSizeIsSame ==
    Compared => \A s, t \in Side :
        Len(file[s]) = Len(file[t]) /\ sum[s].taken = sum[t].taken => file[s] = file[t]

\* What AlreadyExistsIsUnchanged claims does hold of two files of one size, so that
\* only files of different sizes, or a collision of the CRC, make Store and Fetch
\* return ALREADY_EXISTS for files that differ.
THEOREM SameSizeIsUnchanged == Spec => []SameSizeIsSame
<1>1. Inv => SameSizeIsSame
  <2> SUFFICES ASSUME Inv, Compared, NEW s \in Side, NEW t \in Side,
                      Len(file[s]) = Len(file[t]), sum[s].taken = sum[t].taken
               PROVE  file[s] = file[t]
    BY DEF SameSizeIsSame
  <2>1. PICK f \in Seq(Byte) : f = file[s] /\ sum[s].taken = Padded(f)
    BY DEF Inv, TypeOK, Compared, ChecksumOfFile
  <2>2. PICK g \in Seq(Byte) : g = file[t] /\ sum[t].taken = Padded(g)
    BY DEF Inv, TypeOK, Compared, ChecksumOfFile
  <2>3. Padded(f) = Padded(g) /\ Len(f) = Len(g)
    BY <2>1, <2>2
  <2>4. \A i \in 1..Len(f) : Padded(f)[i] = f[i]
    BY PaddedIs
  <2>5. \A i \in 1..Len(g) : Padded(g)[i] = g[i]
    BY PaddedIs
  <2>6. f = g
    BY <2>3, <2>4, <2>5, SeqEqual
  <2> QED
    BY <2>1, <2>2, <2>6
<1> QED
  BY <1>1, InvHolds, PTL

\* The invariant, with what is said of the CRC.
CrcInv == Inv /\ Continues /\ Bounded

\* The CRC that the loop continues is that of all bytes taken, at every step.
THEOREM CrcInvHolds == Spec => []CrcInv
<1>1. Init => CrcInv
  <2> SUFFICES ASSUME Init PROVE CrcInv
    OBVIOUS
  <2>1. \A s \in Side : sum[s].at = "idle" /\ sum[s].crc = {} /\ sum[s].taken = << >>
    BY DEF Init, NotCalled
  <2>2. Continues
    <3>1. Calculate(<< >>, crc_table, {}) = {}
      BY CrcOfNothing DEF crc_table, TheTable
    <3> QED
      BY <2>1, <3>1 DEF Continues
  <2>3. Bounded
    <3>1. \A f \in Files : f \in Seq(Byte) /\ Len(f) <= MaxSize
      BY ChecksumConstants DEF Files
    <3>2. \A s \in Side : file[s] \in Files \cup {Absent}
      BY DEF Init
    <3> QED
      BY <2>1, <3>1, <3>2, ChecksumConstants DEF Bounded, Running
  <2> QED
    BY <2>2, <2>3, InitInv DEF CrcInv
<1>2. CrcInv /\ [Next]_vars => CrcInv'
  BY NextInv, ContinuesStep, BoundedStep DEF CrcInv
<1> QED
  BY <1>1, <1>2, PTL DEF Spec

\* The checksum is the remainder of the polynomial of all bytes taken, for a file
\* of any size, however many chunks it was read in and whoever changed it meanwhile.
THEOREM CrcIsTheRemainder == Spec => []CrcIsRemainder
<1>1. CrcInv => CrcIsRemainder
  <2> SUFFICES ASSUME CrcInv, NEW s \in Side
               PROVE  sum[s].crc = Reference(sum[s].taken, FileResidues)
    BY DEF CrcIsRemainder
  <2>1. /\ TypeOK /\ sum[s].crc = Calculate(sum[s].taken, crc_table, {})
        /\ Len(sum[s].taken) <= MaxSize + BufferSize
    BY DEF CrcInv, Inv, Continues, Bounded
  <2>2. PICK d \in Seq(Char) : d = sum[s].taken
    BY <2>1, CrcTypes
  <2>3. PICK u \in Nat : u = MaxSize + BufferSize
    BY ChecksumConstants
  <2>4. PICK n \in Nat : n = CRCWidth + CHAR_BIT * u
    <3>1. CRCWidth \in Nat /\ CHAR_BIT \in Nat
      BY CrcConstants
    <3>2. CHAR_BIT * u \in Nat
      BY <3>1
    <3> QED
      BY <3>1, <3>2
  <2>5. CRCWidth + Len(d) * CHAR_BIT <= n
    <3>1. CRCWidth \in Nat /\ CHAR_BIT \in Nat \ {0} /\ Len(d) \in Nat /\ Len(d) <= u
      BY <2>1, <2>2, <2>3, CrcConstants
    <3>2. CHAR_BIT * u = u * CHAR_BIT /\ u * CHAR_BIT \in Nat /\ Len(d) * CHAR_BIT \in Nat
      BY <3>1
    <3>3. CASE Len(d) = u
      BY <2>4, <3>1, <3>2, <3>3
    <3>4. CASE Len(d) < u
      <4>1. Len(d) * CHAR_BIT + CHAR_BIT <= u * CHAR_BIT
        BY <3>1, <3>4, Multiples
      <4> QED
        BY <2>4, <3>1, <3>2, <4>1
    <3> QED
      BY <3>1, <3>3, <3>4
  <2>6. Calculate(d, TheTable, {}) = Reference(d, Residues(n))
    BY <2>5, CrcIsReference
  <2>7. Residues(n) = FileResidues /\ crc_table = TheTable
    BY <2>3, <2>4 DEF FileResidues, crc_table, TheTable
  <2> QED
    BY <2>1, <2>2, <2>6, <2>7
<1> QED
  BY <1>1, CrcInvHolds, PTL

\* A change of one byte in place is always detected, for any size of the file and
\* of the buffer: that the end of the last chunk repeats bytes of the chunk before
\* cannot hide it.
THEOREM ByteChangeIsDetected == Spec => []ByteChangeDetected
<1>1. CrcInv => ByteChangeDetected
  <2> SUFFICES ASSUME CrcInv, Compared, NEW s \in Side, NEW t \in Side,
                      NEW i \in 1..Len(file[s]), Len(file[t]) = Len(file[s]),
                      { j \in 1..Len(file[s]) : file[s][j] # file[t][j] } = {i}
               PROVE  sum[s].crc # sum[t].crc
    BY DEF ByteChangeDetected
  <2>1. TypeOK /\ ChecksumOfFile /\ Continues
    BY DEF CrcInv, Inv
  <2>2. PICK f \in Seq(Byte) : f = file[s] /\ sum[s].taken = Padded(f)
    BY <2>1 DEF TypeOK, Compared, ChecksumOfFile
  <2>3. PICK g \in Seq(Byte) : g = file[t] /\ sum[t].taken = Padded(g)
    BY <2>1 DEF TypeOK, Compared, ChecksumOfFile
  <2>4. PICK size \in Nat \ {0} : size = Len(f) /\ size = Len(g) /\ i \in 1..size
    BY <2>2, <2>3
  <2>5. f[i] # g[i] /\ \A j \in 1..size : j # i => f[j] = g[j]
    BY <2>2, <2>3, <2>4
  <2>6. PICK b \in Nat \ {0} : b = BufferSizeFor(size) /\ b <= size /\ b <= BufferSize
    <3>1. BufferSizeFor(size) \in Nat \ {0} /\ BufferSizeFor(size) <= size
      BY BufferSizes
    <3>2. BufferSizeFor(size) <= BufferSize
      BY ChecksumConstants DEF BufferSizeFor
    <3> QED
      BY <3>1, <3>2
  <2>7. PICK n \in Nat : n = ChunkCount(size, b)
    BY ChunkCounts
  <2>8. PICK len \in Nat : len = n * b
    BY <2>6
  <2>9. PICK d \in Seq(Byte) : d = Padded(f)
    BY PaddedIs
  <2>10. PICK e \in Seq(Byte) : e = Padded(g)
    BY PaddedIs
  <2>11. /\ size <= len /\ len - b < size /\ Len(d) = len
         /\ \A j \in 1..size : d[j] = f[j]
         /\ \A j \in 1..len : j > size => d[j] = f[j - b]
    <3>1. /\ Len(f) <= n * b /\ (n > 0 => n * b - b < Len(f))
          /\ Len(Padded(f)) = n * b
          /\ \A j \in 1..Len(f) : Padded(f)[j] = f[j]
          /\ \A j \in 1..(n * b) : j > Len(f) => Padded(f)[j] = f[j - b]
      <4>1. LET c == BufferSizeFor(Len(f))
                m == ChunkCount(Len(f), c)
            IN  /\ Len(f) <= m * c /\ (m > 0 => m * c - c < Len(f))
                /\ Len(Padded(f)) = m * c
                /\ \A j \in 1..Len(f) : Padded(f)[j] = f[j]
                /\ \A j \in 1..(m * c) : j > Len(f) => Padded(f)[j] = f[j - c]
        BY PaddedIs
      <4>2. BufferSizeFor(Len(f)) = b /\ ChunkCount(Len(f), b) = n
        BY <2>4, <2>6, <2>7
      <4> QED
        BY <4>1, <4>2
    <3>2. n > 0
      <4>1. n = 0 => n * b = 0
        BY <2>6
      <4> QED
        BY <2>4, <3>1, <4>1
    <3> QED
      BY <2>4, <2>8, <2>9, <3>1, <3>2
  <2>12. /\ Len(e) = len
         /\ \A j \in 1..size : e[j] = g[j]
         /\ \A j \in 1..len : j > size => e[j] = g[j - b]
    <3>1. /\ Len(Padded(g)) = n * b
          /\ \A j \in 1..Len(g) : Padded(g)[j] = g[j]
          /\ \A j \in 1..(n * b) : j > Len(g) => Padded(g)[j] = g[j - b]
      <4>1. LET c == BufferSizeFor(Len(g))
                m == ChunkCount(Len(g), c)
            IN  /\ Len(Padded(g)) = m * c
                /\ \A j \in 1..Len(g) : Padded(g)[j] = g[j]
                /\ \A j \in 1..(m * c) : j > Len(g) => Padded(g)[j] = g[j - c]
        BY PaddedIs
      <4>2. BufferSizeFor(Len(g)) = b /\ ChunkCount(Len(g), b) = n
        BY <2>4, <2>6, <2>7
      <4> QED
        BY <4>1, <4>2
    <3> QED
      BY <2>4, <2>8, <2>10, <3>1
  <2>13. d \in Seq(Char) /\ e \in Seq(Char) /\ crc_table = TheTable /\ {} \in CRCType
    BY <2>1, CrcTypes DEF CRCType
  <2>14. i \in 1..Len(d) /\ d[i] = f[i] /\ e[i] = g[i] /\ d[i] # e[i]
    BY <2>4, <2>5, <2>11, <2>12
  <2>15. ASSUME NEW j \in 1..Len(d)
         PROVE  d[j] = e[j] \/ (Xor(d[j], e[j]) = Xor(d[i], e[i]) /\ j \in {i, i + b})
    <3>1. CASE j <= size
      <4>1. j \in 1..size /\ d[j] = f[j] /\ e[j] = g[j]
        BY <2>4, <2>11, <2>12, <3>1
      <4>2. CASE j = i
        BY <4>2
      <4>3. CASE j # i
        BY <2>5, <4>1, <4>3
      <4> QED
        BY <4>2, <4>3
    <3>2. CASE j > size
      <4>1. PICK h \in 1..size : h = j - b
        BY <2>6, <2>8, <2>11, <3>2
      <4>2. d[j] = f[h] /\ e[j] = g[h]
        BY <2>11, <2>12, <3>2, <4>1
      <4>3. CASE h = i
        <5>1. d[j] = d[i] /\ e[j] = e[i]
          BY <2>14, <4>2, <4>3
        <5>2. j = i + b
          BY <2>6, <4>1, <4>3
        <5> QED
          BY <5>1, <5>2
      <4>4. CASE h # i
        BY <2>5, <4>2, <4>4
      <4> QED
        BY <4>3, <4>4
    <3> QED
      BY <2>4, <2>11, <3>1, <3>2
  <2>16. CalculateRemainder([k \in 1..b |-> {}], TheTable, Xor(d[i], e[i])) # Xor(d[i], e[i])
    <3>1. d[i] \in Char /\ e[i] \in Char
      BY <2>11, <2>12, <2>13, <2>14
    <3>2. Xor(d[i], e[i]) \in Char
      BY <3>1, XorType DEF Char
    <3>3. Xor(d[i], e[i]) # {}
      BY <2>14, XorSame
    <3>4. b \in 1..BufferSize
      BY <2>6, ChecksumConstants
    <3>5. PICK c \in Char \ {{}} : c = Xor(d[i], e[i])
      BY <3>2, <3>3
    <3>6. CalculateRemainder([k \in 1..b |-> {}], crc_table, c) # c
      BY <3>4, ByteSurvives
    <3> QED
      BY <2>13, <3>5, <3>6
  <2>17. Calculate(d, TheTable, {}) # Calculate(e, TheTable, {})
    <3>1. Len(d) = Len(e) /\ 0 \in Polynomial
      BY <2>11, <2>12, ByteSurvives
    <3>2. \A j \in 1..Len(d) :
              d[j] = e[j] \/ (Xor(d[j], e[j]) = Xor(d[i], e[i]) /\ j \in {i, i + b})
      BY <2>15
    <3>3. PICK crc \in CRCType : crc = {}
      BY <2>13
    <3>4. Calculate(d, TheTable, crc) # Calculate(e, TheTable, crc)
      BY <2>13, <2>14, <2>16, <3>1, <3>2, CrcShowsByte
    <3> QED
      BY <3>3, <3>4
  <2>18. /\ sum[s].crc = Calculate(d, TheTable, {})
         /\ sum[t].crc = Calculate(e, TheTable, {})
    BY <2>1, <2>2, <2>3, <2>9, <2>10, <2>13 DEF Continues
  <2> QED
    BY <2>17, <2>18
<1> QED
  BY <1>1, CrcInvHolds, PTL

\* As many bytes taken, all those that differ next to each other, and no more bits
\* of them than the CRC has: four bytes of CRC-32.
BurstDetected ==
    \A s, t \in Side :
        LET d == sum[s].taken
            e == sum[t].taken
        IN  \A i, k \in 0..Len(d) :
                (/\ Len(e) = Len(d) /\ e # d
                 /\ i + k <= Len(d) /\ k * CHAR_BIT <= CRCWidth
                 /\ \A j \in 1..Len(d) : d[j] # e[j] => j \in (i + 1)..(i + k))
                    => sum[s].crc # sum[t].crc

\* A change of bytes next to each other is always seen in what was taken, also while
\* the loops still run and others change the files: continuing the CRC from chunk
\* to chunk loses nothing at the borders of chunks.
THEOREM BurstIsDetected == Spec => []BurstDetected
<1>1. CrcInv => BurstDetected
  <2> SUFFICES ASSUME CrcInv, NEW s \in Side, NEW t \in Side,
                      NEW i \in 0..Len(sum[s].taken), NEW k \in 0..Len(sum[s].taken),
                      Len(sum[t].taken) = Len(sum[s].taken), sum[t].taken # sum[s].taken,
                      i + k <= Len(sum[s].taken), k * CHAR_BIT <= CRCWidth,
                      \A j \in 1..Len(sum[s].taken) :
                          sum[s].taken[j] # sum[t].taken[j] => j \in (i + 1)..(i + k)
               PROVE  sum[s].crc # sum[t].crc
    BY DEF BurstDetected
  <2>1. /\ TypeOK /\ sum[s].crc = Calculate(sum[s].taken, crc_table, {})
        /\ sum[t].crc = Calculate(sum[t].taken, crc_table, {})
    BY DEF CrcInv, Inv, Continues
  <2>2. crc_table = TheTable
    BY DEF crc_table, TheTable
  <2>3. PICK d \in Seq(Char) : d = sum[s].taken
    BY <2>1, CrcTypes
  <2>4. PICK e \in Seq(Char) : e = sum[t].taken
    BY <2>1, CrcTypes
  <2>5. i \in Nat /\ k \in Nat /\ i + k <= Len(d) /\ Len(d) = Len(e) /\ d # e
    BY <2>3, <2>4
  <2>6. \A j \in 1..Len(d) : d[j] # e[j] => j \in (i + 1)..(i + k)
    BY <2>3, <2>4
  <2>7. Calculate(d, TheTable, {}) # Calculate(e, TheTable, {})
    BY <2>5, <2>6, ByteSurvives, CrcShowsBurst
  <2> QED
    BY <2>1, <2>2, <2>3, <2>4, <2>7
<1> QED
  BY <1>1, CrcInvHolds, PTL
=============================================================================
