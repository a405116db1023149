---------------------------- MODULE TransferProofs ----------------------------
(***************************************************************************)
(* What the operations of part 1 promise each other, for any number of     *)
(* clients, files, versions and calls, and any size of the buffer.         *)
(***************************************************************************)
EXTENDS Transfer, SequenceTheorems, WellFoundedInduction, TLAPS

-----------------------------------------------------------------------------
(* The inductive invariant *)

\* What a call can be in each state of its handler.
CallFits(r) ==
    LET m == call[r]
    IN  /\ m.rpc = "ListFiles" <=> m.file = Directory
        /\ m.at \in {"open", "eof"} => m.rpc \in {"StoreFile", "FetchFile"}
        /\ m.at = "eof" => m.rpc = "FetchFile"
        /\ m.at = "scan" => m.rpc = "ListFiles"
        /\ Reads(m.rpc) \/ m.at = "done" => m.live
        /\ m.rpc # "FetchFile" => m.stream = << >> /\ ~m.opened
        /\ m.at = "sent" => m.stream = << >> /\ m.pos = 0 /\ m.listing = NoListing
        /\ m.rpc = "StoreFile" /\ m.at = "open" => m.data # << >> /\ m.pos <= Len(m.data)
        /\ m.rpc = "StoreFile" /\ ~m.live => m.file \in broken
        /\ m.status # "none" <=> m.at = "done"

\* Each client waits for one call at a time.
OneLive ==
    \A r, q \in Rpc :
        /\ InUse(r) /\ call[r].live
        /\ InUse(q) /\ call[q].live
        /\ call[r].client = call[q].client
        => r = q

\* No file has two names, or a name other than that under which it was opened.
Names ==
    /\ \A f, g \in File : name[f] = name[g] /\ name[f] # Absent => f = g
    /\ \A r \in Rpc : \A f \in File :
          InUse(r) /\ call[r].fd # Absent /\ name[f] = call[r].fd => f = call[r].file

\* The blocks that a fetch has written, the chunks that are on the way after them,
\* all full but the last, and the number of both.
Written(r) == IF call[r].opened THEN local[call[r].client][call[r].file] ELSE << >>

OnTheWay(r, k) == Len(Written(r)) + (k - 1) * Buffer

Arrives(r, p, b) ==
    \/ p \in 1..Len(Written(r)) /\ b = Written(r)[p]
    \/ \E k \in 1..Len(call[r].stream) : \E i \in 1..Len(call[r].stream[k]) :
          p = OnTheWay(r, k) + i /\ b = call[r].stream[k][i]

Sent(r) ==
    LET n == Len(call[r].stream)
    IN  IF n = 0 THEN Len(Written(r)) ELSE OnTheWay(r, n) + Len(call[r].stream[n])

FullChunks(r) ==
    LET n == Len(call[r].stream)
    IN  \A k \in 1..n : k < n \/ call[r].at = "open" => Len(call[r].stream[k]) = Buffer

\* Whatever arrives belongs at its place, and is what the server has there as long
\* as the file has not been changed.
AtPlace(b, p) == b = Hole \/ \E v \in Version : b = Block(v, p)

Copied(r) ==
    LET m == call[r]
        i == name[m.file]
    IN  /\ i # Absent /\ ~BeingStored(i)
        /\ m.at # "done" => m.fd = i
        /\ \A p, b : Arrives(r, p, b) => p \in 1..Len(inode[i]) /\ b = inode[i][p]
        /\ Sent(r) <= Len(inode[i])
        /\ m.at # "open" => Sent(r) = Len(inode[i])

FetchFits(r) ==
    LET m == call[r]
    IN  m.rpc = "FetchFile" =>
            /\ Written(r) \in Blocks
            /\ FullChunks(r)
            /\ m.at \in {"open", "eof"} => m.pos = Sent(r)
            /\ \A p, b : Arrives(r, p, b) => AtPlace(b, p)
            /\ (m.at \in {"open", "eof"} \/ m.status = "OK") /\ ~m.disturbed => Copied(r)
            /\ m.at = "sent" \/ m.status \in {"NOT_FOUND", "CANCELLED"} => Sent(r) = 0

\* The file is as far as the handler, as long as nobody else changes it.
StoreFits(r) ==
    LET m == call[r]
        i == name[m.file]
    IN  m.rpc = "StoreFile" =>
            /\ InPlace(m.data)
            /\ m.at = "open" /\ m.live /\ ~m.disturbed =>
                  /\ m.fd = i /\ Len(inode[i]) = m.pos
                  /\ \A p \in 1..m.pos : inode[i][p] = m.data[p]
            /\ m.status = "OK" /\ ~m.disturbed => i # Absent /\ inode[i] = m.data

\* The scan has returned or is going to return every name there is.
AnswerFits(r) ==
    LET m == call[r]
        named == { f \in File : name[f] # Absent }
    IN  /\ m.rpc = "ListFiles" /\ (m.at = "scan" \/ m.status = "OK") /\ ~m.disturbed
              => m.listing.names \cup m.listing.listed = named /\ m.listing.gone = {}
        /\ m.rpc = "ListFiles" /\ m.at = "done" => m.listing.names = {}
        /\ m.rpc = "GetFileStatus" /\ m.status = "OK" /\ ~m.disturbed
              => name[m.file] # Absent /\ m.size = Len(inode[name[m.file]])

Calls ==
    \A r \in Rpc : InUse(r) => CallFits(r) /\ FetchFits(r) /\ StoreFits(r) /\ AnswerFits(r)

\* The size of the smallest version: every copy is filled so far.
Least == CHOOSE n \in { Size[v] : v \in Version } : \A v \in Version : n <= Size[v]

Filled(s) == \A p \in 1..Least : p <= Len(s) /\ s[p] # Hole

Whole(s) == (\E v \in Version : Len(s) = Size[v]) /\ Filled(s)

\* Store r has file i open.
Stores(r, i) == At(r, "StoreFile", "open") /\ call[r].fd = i

\* While stores overlap, the length is that of a version or as far as one of them is,
\* and the file is filled as far as the one that truncated it last.
Mix(f) ==
    LET s == inode[name[f]]
    IN  /\ \/ \E v \in Version : Len(s) = Size[v]
           \/ \E r \in Rpc : Stores(r, name[f]) /\ call[r].pos = Len(s)
        /\ \/ Filled(s)
           \/ \E r \in Rpc :
                 /\ Stores(r, name[f])
                 /\ \A p \in 1..Least : p <= call[r].pos => p <= Len(s) /\ s[p] # Hole

MixFits == \A f \in File : name[f] # Absent /\ f \notin broken => Mix(f)

Fetching(c, f) ==
    \E r \in Rpc : /\ InUse(r) /\ call[r].rpc = "FetchFile" /\ call[r].opened
                   /\ call[r].client = c /\ call[r].file = f

\* What is stored, or can be stored, is whole or empty.
CopiesFit ==
    /\ \A c \in Client, f \in File : f \notin broken /\ ~Fetching(c, f) =>
          local[c][f] \in {Absent, << >>} \/ Whole(local[c][f])
    /\ \A r \in Rpc : InUse(r) /\ call[r].rpc = "StoreFile" /\ call[r].file \notin broken =>
          call[r].data = << >> \/ Whole(call[r].data)

Inv ==
    /\ TypeOK
    /\ OneLive
    /\ Names
    /\ ChunksInPlace
    /\ Calls
    /\ MixFits
    /\ CopiesFit

-----------------------------------------------------------------------------
(* Files and chunks *)

\* Whatever versions there are, one is smallest.
LEMMA LeastIs ==
    ASSUME NEW w \in Version
    PROVE  /\ Least \in Nat \ {0} /\ \A v \in Version : Least <= Size[v]
           /\ Least \in { Size[v] : v \in Version }
  <1> DEFINE S == { Size[v] : v \in Version }
             R == OpToRel(<, Nat)
  <1>1. S \subseteq Nat \ {0} /\ S # {}
    BY TransferConstants
  <1>2. IsWellFoundedOn(R, Nat)
    BY NatLessThanWellFounded
  <1> HIDE DEF R, S
  <1>3. PICK n \in S : \A m \in S : <<m, n>> \notin R
    BY <1>1, <1>2, WFMin
  <1>4. \A m \in S : n <= m
    <2>1. \A m \in Nat, k \in Nat : m < k => <<m, k>> \in R
      BY DEF R, OpToRel
    <2> HIDE DEF R
    <2>2. ASSUME NEW m \in S PROVE n <= m
      <3>1. ~(m < n)
        BY <1>1, <1>3, <2>1
      <3> QED BY <1>1, <3>1
    <2> QED BY <2>2
  <1>5. \A v \in Version : n <= Size[v]
    BY <1>4 DEF S
  <1>6. Least \in S /\ \A v \in Version : Least <= Size[v]
    BY <1>5 DEF Least, S
  <1> QED BY <1>1, <1>6 DEF S

\* Sequences of blocks, and their lengths.
LEMMA BlocksType ==
    /\ << >> \in Blocks
    /\ \A s \in Blocks : /\ Len(s) \in Nat /\ DOMAIN s = 1..Len(s)
                         /\ \A i \in 1..Len(s) : s[i] \in AnyBlock
                         /\ Len(s) = 0 <=> s = << >>
  BY DEF Blocks

\* A chunk is a part of the file; it is not full only at the end of it.
LEMMA ChunkAtIs ==
    ASSUME NEW s \in Blocks, NEW pos \in Nat
    PROVE  LET c == ChunkAt(s, pos)
           IN  /\ c \in Blocks /\ Len(c) \in Nat /\ Len(c) <= Buffer
               /\ c = << >> => Len(s) <= pos
               /\ c # << >> => pos + Len(c) <= Len(s) /\ Len(c) > 0
               /\ c # << >> /\ Len(c) # Buffer => pos + Len(c) = Len(s)
               /\ \A i \in 1..Len(c) : c[i] = s[pos + i] /\ pos + i \in 1..Len(s)
  <1> DEFINE n == IF pos + Buffer < Len(s) THEN pos + Buffer ELSE Len(s)
             c == ChunkAt(s, pos)
  <1>1. Len(s) \in Nat /\ n \in Nat /\ n <= Len(s) /\ Buffer \in Nat \ {0}
    BY BlocksType, TransferConstants
  <1>2. c = SubSeq(s, pos + 1, n)
    BY DEF ChunkAt
  <1>3. \A i \in (pos + 1)..n : s[i] \in AnyBlock
    BY <1>1, BlocksType
  <1> HIDE DEF c, n
  <1>4. /\ c \in Seq(AnyBlock)
        /\ Len(c) = IF pos + 1 <= n THEN n - (pos + 1) + 1 ELSE 0
        /\ \A i \in 1..(n - (pos + 1) + 1) : c[i] = s[pos + 1 + i - 1]
    BY <1>1, <1>2, <1>3, SubSeqProperties
  <1>5. c = << >> <=> Len(c) = 0
    BY <1>4
  <1>6. \A i \in 1..Len(c) : c[i] = s[pos + i] /\ pos + i \in 1..Len(s)
    <2> TAKE i \in 1..Len(c)
    <2>1. pos + 1 + i - 1 = pos + i /\ i \in 1..(n - (pos + 1) + 1) /\ pos + i \in 1..Len(s)
      BY <1>1, <1>4
    <2> QED BY <1>4, <2>1
  <1> QED BY <1>1, <1>4, <1>5, <1>6 DEF Blocks, n, c

\* A write leaves the rest of the file as it is.
LEMMA WriteAtIs ==
    ASSUME NEW s \in Blocks, NEW pos \in Nat, NEW c \in Blocks
    PROVE  LET w == WriteAt(s, pos, c)
               end == pos + Len(c)
           IN  /\ w \in Blocks /\ Len(w) = (IF Len(s) > end THEN Len(s) ELSE end)
               /\ \A i \in 1..Len(w) :
                     w[i] = IF i \in (pos + 1)..end THEN c[i - pos]
                            ELSE IF i <= Len(s) THEN s[i] ELSE Hole
  <1> DEFINE end == pos + Len(c)
             n == IF Len(s) > end THEN Len(s) ELSE end
             e(i) == IF i \in (pos + 1)..end THEN c[i - pos]
                     ELSE IF i <= Len(s) THEN s[i] ELSE Hole
             w == [i \in 1..n |-> e(i)]
  <1>1. Len(s) \in Nat /\ Len(c) \in Nat /\ n \in Nat
    BY BlocksType
  <1>2. \A i \in 1..n : e(i) \in AnyBlock
    <2> TAKE i \in 1..n
    <2>1. CASE i \in (pos + 1)..end
      <3>1. i - pos \in 1..Len(c)
        BY <1>1, <2>1
      <3> QED BY <2>1, <3>1, BlocksType
    <2>2. CASE i \notin (pos + 1)..end
      <3>1. Hole \in AnyBlock
        BY DEF AnyBlock
      <3>2. CASE i <= Len(s)
        <4>1. i \in 1..Len(s)
          BY <1>1, <3>2
        <4> QED BY <2>2, <3>2, <4>1, BlocksType
      <3>3. CASE ~(i <= Len(s))
        BY <2>2, <3>1, <3>3
      <3> QED BY <3>2, <3>3
    <2> QED BY <2>1, <2>2
  <1>3. w = WriteAt(s, pos, c)
    BY DEF WriteAt
  <1>4. w \in Seq(AnyBlock) /\ Len(w) = n /\ \A i \in 1..n : w[i] = e(i)
    <2> HIDE DEF e, n
    <2> QED BY <1>1, <1>2
  <1> QED BY <1>3, <1>4 DEF Blocks

-----------------------------------------------------------------------------
(* Types *)

\* A call in use has the fields of a call.
LEMMA CallType ==
    ASSUME TypeOK, NEW r \in Rpc, InUse(r)
    PROVE  /\ call[r] \in CallState
           /\ call[r].at \in {"open", "eof"} <=> call[r].fd # Absent
  BY DEF TypeOK, InUse, Unused

\* What its fields are.
LEMMA FieldTypes ==
    ASSUME NEW m \in CallState
    PROVE  /\ m.rpc \in {"StoreFile", "FetchFile", "DeleteFile", "GetFileStatus", "ListFiles"}
           /\ m.client \in Client /\ m.file \in File \cup {Directory} /\ m.data \in Blocks
           /\ m.at \in {"sent", "open", "eof", "scan", "done"} /\ m.fd \in Inode \cup {Absent}
           /\ m.pos \in Nat /\ m.stream \in Seq(Blocks)
           /\ m.live \in BOOLEAN /\ m.status \in {"none", "OK", "NOT_FOUND", "CANCELLED"}
           /\ m.opened \in BOOLEAN /\ m.disturbed \in BOOLEAN /\ m.size \in Nat
           /\ m.listing \in [names : SUBSET File, listed : SUBSET File, gone : SUBSET File]
  BY DEF CallState

\* An answer keeps what the client is going to read.
LEMMA AnsweredIs ==
    ASSUME NEW m \in CallState, NEW status \in {"OK", "NOT_FOUND", "CANCELLED"}
    PROVE  LET a == Answered(m, status)
           IN  /\ ~m.live => a = Unused
               /\ m.live =>
                     /\ a \in CallState /\ a.at = "done" /\ a.status = status
                     /\ a.fd = Absent /\ a.pos = 0 /\ a.listing.names = {}
                     /\ a.listing.listed = m.listing.listed /\ a.listing.gone = m.listing.gone
                     /\ a.rpc = m.rpc /\ a.client = m.client /\ a.file = m.file
                     /\ a.data = m.data /\ a.stream = m.stream /\ a.live = m.live
                     /\ a.opened = m.opened /\ a.disturbed = m.disturbed /\ a.size = m.size
  BY ZenonT(60) DEF Answered, CallState

\* A step of call r that may disturb others.
Others(r) ==
    \A q \in Rpc \ {r} : \/ call'[q] = call[q]
                         \/ InUse(q) /\ call'[q] = [call[q] EXCEPT !.disturbed = TRUE]

LEMMA DisturbingIs ==
    ASSUME TypeOK, NEW r \in Rpc, NEW files, NEW m, Disturbing(r, files, m)
    PROVE  /\ call' = [q \in Rpc |-> call'[q]] /\ call'[r] = m /\ Others(r)
           /\ \A q \in Rpc \ {r} :
                 InUse(q) /\ call[q].live /\ call[q].file \in files /\ call[q].at # "sent"
                     => call'[q].disturbed
  <1>1. \A q \in Rpc : call'[q] =
            IF q = r THEN m
            ELSE IF InUse(q) /\ call[q].live /\ call[q].file \in files /\ call[q].at # "sent"
            THEN [call[q] EXCEPT !.disturbed = TRUE]
            ELSE call[q]
    BY DEF Disturbing
  <1>2. call' = [q \in Rpc |-> call'[q]]
    BY DEF Disturbing
  <1>3. \A q \in Rpc : InUse(q) => [call[q] EXCEPT !.disturbed = TRUE].disturbed
    BY CallType DEF CallState
  <1> QED BY <1>1, <1>2, <1>3 DEF Others

\* Other calls keep all but this.
LEMMA OtherCall ==
    ASSUME TypeOK, NEW r \in Rpc, Others(r), NEW q \in Rpc \ {r}
    PROVE  /\ InUse(q)' <=> InUse(q)
           /\ call'[q] \in CallState \cup {Unused}
           /\ InUse(q) =>
                 LET m == call[q]
                     n == call'[q]
                 IN  /\ n \in CallState
                     /\ n.rpc = m.rpc /\ n.client = m.client /\ n.file = m.file
                     /\ n.data = m.data /\ n.at = m.at /\ n.fd = m.fd /\ n.pos = m.pos
                     /\ n.stream = m.stream /\ n.live = m.live /\ n.status = m.status
                     /\ n.opened = m.opened /\ n.listing = m.listing /\ n.size = m.size
                     /\ n.disturbed = m.disturbed \/ n.disturbed
  <1>1. CASE call'[q] = call[q]
    BY <1>1, CallType DEF InUse, TypeOK
  <1>2. CASE InUse(q) /\ call'[q] = [call[q] EXCEPT !.disturbed = TRUE]
    BY <1>2, CallType, ZenonT(60) DEF InUse, CallState
  <1> QED BY <1>1, <1>2 DEF Others

\* A step of one call keeps the types if that call does.
LEMMA TypeKept ==
    ASSUME TypeOK, NEW r \in Rpc, call' = [q \in Rpc |-> call'[q]], Others(r),
           call'[r] \in CallState \cup {Unused},
           call'[r] \in CallState => (call'[r].at \in {"open", "eof"} <=> call'[r].fd # Absent),
           name' \in [File -> Inode \cup {Absent}],
           inode' \in [Inode -> Blocks],
           local' \in [Client -> [File -> Blocks \cup {Absent}]],
           broken' \subseteq File, gone' \in 0..MaxGone
    PROVE  TypeOK'
  <1>1. call' \in [Rpc -> CallState \cup {Unused}]
    BY OtherCall
  <1>2. ASSUME NEW q \in Rpc, InUse(q)'
        PROVE  call'[q].at \in {"open", "eof"} <=> call'[q].fd # Absent
    <2>1. CASE q = r
      BY <1>2, <2>1 DEF InUse, Unused
    <2>2. CASE q # r
      BY <1>2, <2>2, OtherCall, CallType
    <2> QED BY <2>1, <2>2
  <1> QED BY <1>1, <1>2 DEF TypeOK

\* Files that nobody needs any more are emptied.
LEMMA ReclaimType ==
    ASSUME TypeOK, Reclaim
    PROVE  /\ inode' \in [Inode -> Blocks]
           /\ \A i \in Inode : inode'[i] = inode[i] \/ inode'[i] = << >>
           /\ \A f \in File : name'[f] \in Inode => inode'[name'[f]] = inode[name'[f]]
           /\ \A q \in Rpc : call'[q].at \in {"open", "eof"} /\ call'[q].fd \in Inode
                 => inode'[call'[q].fd] = inode[call'[q].fd]
  BY BlocksType DEF Reclaim, Kept, TypeOK

\* A step that changes no call but r.
Own(r) == call' = [q \in Rpc |-> call'[q]] /\ \A q \in Rpc \ {r} : call'[q] = call[q]

\* A handler returns.
LEMMA ReturnIs ==
    ASSUME TypeOK, NEW r \in Rpc, InUse(r), NEW status \in {"OK", "NOT_FOUND", "CANCELLED"},
           Return(r, status)
    PROVE  /\ Own(r) /\ Others(r) /\ call'[r] = Answered(call[r], status)
           /\ call'[r] \in CallState \cup {Unused}
           /\ call'[r] \in CallState => call'[r].at = "done" /\ call'[r].fd = Absent
           /\ UNCHANGED name /\ inode' \in [Inode -> Blocks]
  <1>1. Own(r) /\ call'[r] = Answered(call[r], status) /\ UNCHANGED name /\ Reclaim
    BY DEF Return, Own, TypeOK
  <1>2. /\ call'[r] \in CallState \cup {Unused}
        /\ call'[r] \in CallState => call'[r].at = "done" /\ call'[r].fd = Absent
    <2>1. CASE call[r].live
      BY <1>1, <2>1, CallType, AnsweredIs
    <2>2. CASE ~call[r].live
      BY <1>1, <2>2, CallType, AnsweredIs DEF Unused, CallState
    <2> QED BY <2>1, <2>2
  <1> QED BY <1>1, <1>2, ReclaimType DEF Own, Others

LEMMA ReturnTypeOK ==
    ASSUME TypeOK, NEW r \in Rpc, InUse(r), NEW status \in {"OK", "NOT_FOUND", "CANCELLED"},
           Return(r, status), UNCHANGED <<local, broken, gone>>
    PROVE  TypeOK'
  <1>1. /\ call' = [q \in Rpc |-> call'[q]] /\ Others(r)
        /\ call'[r] \in CallState \cup {Unused}
        /\ call'[r] \in CallState => (call'[r].at \in {"open", "eof"} <=> call'[r].fd # Absent)
    BY ReturnIs DEF Own
  <1>2. name' \in [File -> Inode \cup {Absent}] /\ inode' \in [Inode -> Blocks]
    BY ReturnIs DEF TypeOK
  <1>3. /\ local' \in [Client -> [File -> Blocks \cup {Absent}]]
        /\ broken' \subseteq File /\ gone' \in 0..MaxGone
    BY DEF TypeOK
  <1> QED BY <1>1, <1>2, <1>3, TypeKept

LEMMA StoreFileOpenIs ==
    ASSUME TypeOK, NEW r \in Rpc, CallFits(r), StoreFileOpen(r), ~Return(r, "CANCELLED")
    PROVE  LET m == call[r]
           IN  /\ InUse(r) /\ m \in CallState /\ m.rpc = "StoreFile" /\ m.at = "sent" /\ m.file \in File
               /\ m.data # << >>
               /\ \E i \in Inode :
                     /\ IF name[m.file] = Absent THEN ~Kept(i, name, call) ELSE i = name[m.file]
                     /\ \A f \in File : name'[f] = IF f = m.file THEN i ELSE name[f]
                     /\ \A j \in Inode : inode'[j] = IF j = i THEN << >> ELSE inode[j]
                     /\ Disturbing(r, {m.file, Directory}, [m EXCEPT !.at = "open", !.fd = i])
               /\ TypeOK' /\ UNCHANGED <<local, broken, gone>>
  <1> DEFINE m == call[r]
  <1>1. /\ InUse(r) /\ m \in CallState /\ m.rpc = "StoreFile" /\ m.at = "sent" /\ m.file \in File
        /\ m.data # << >> /\ UNCHANGED <<local, broken, gone>>
    BY CallType, FieldTypes DEF StoreFileOpen, At, CallFits
  <1>2. PICK i \in Inode :
            /\ IF name[m.file] = Absent THEN ~Kept(i, name, call) ELSE i = name[m.file]
            /\ name' = [name EXCEPT ![m.file] = i]
            /\ inode' = [inode EXCEPT ![i] = << >>]
            /\ Disturbing(r, {m.file, Directory}, [m EXCEPT !.at = "open", !.fd = i])
    BY DEF StoreFileOpen
  <1>3. /\ \A f \in File : name'[f] = IF f = m.file THEN i ELSE name[f]
        /\ \A j \in Inode : inode'[j] = IF j = i THEN << >> ELSE inode[j]
        /\ name' \in [File -> Inode \cup {Absent}]
        /\ inode' \in [Inode -> Blocks]
    BY <1>1, <1>2, BlocksType DEF TypeOK
  <1> DEFINE n == [m EXCEPT !.at = "open", !.fd = i]
  <1>4. n \in CallState /\ n.at = "open" /\ n.fd = i /\ Disturbing(r, {m.file, Directory}, n)
    BY <1>1, <1>2 DEF CallState
  <1> HIDE DEF n
  <1>5. /\ call' = [q \in Rpc |-> call'[q]] /\ Others(r)
        /\ call'[r] \in CallState \cup {Unused}
        /\ call'[r].at \in {"open", "eof"} <=> call'[r].fd # Absent
    BY <1>4, DisturbingIs, TransferConstants
  <1>6. /\ local' \in [Client -> [File -> Blocks \cup {Absent}]]
        /\ broken' \subseteq File /\ gone' \in 0..MaxGone
    BY <1>1 DEF TypeOK
  <1>7. TypeOK'
    BY <1>3, <1>5, <1>6, TypeKept
  <1> QED BY <1>1, <1>2, <1>3, <1>7

LEMMA StoreFileWriteIs ==
    ASSUME TypeOK, NEW r \in Rpc, CallFits(r), StoreFileWrite(r)
    PROVE  LET m == call[r]
               chunk == ChunkAt(m.data, m.pos)
               n == call'[r]
           IN  /\ InUse(r) /\ m \in CallState /\ m.rpc = "StoreFile" /\ m.at = "open" /\ m.file \in File
               /\ m.fd \in Inode /\ chunk # << >>
               /\ \A j \in Inode : inode'[j] = IF j = m.fd THEN WriteAt(inode[j], m.pos, chunk)
                                              ELSE inode[j]
               /\ Disturbing(r, {m.file}, n)
               /\ n \in CallState /\ n = [m EXCEPT !.pos = m.pos + Len(chunk)]
               /\ TypeOK' /\ UNCHANGED <<name, local, broken, gone>>
  <1> DEFINE m == call[r]
             chunk == ChunkAt(m.data, m.pos)
             n == [m EXCEPT !.pos = m.pos + Len(chunk)]
  <1>1. /\ InUse(r) /\ m \in CallState /\ m.rpc = "StoreFile" /\ m.at = "open" /\ m.file \in File
        /\ m.fd \in Inode /\ UNCHANGED <<name, local, broken, gone>>
    BY CallType, FieldTypes DEF StoreFileWrite, At, CallFits
  <1>2. /\ chunk # << >> /\ inode' = [inode EXCEPT ![m.fd] = WriteAt(@, m.pos, chunk)]
        /\ Disturbing(r, {m.file}, [m EXCEPT !.pos = @ + Len(chunk)])
    BY DEF StoreFileWrite
  <1>3. m.data \in Blocks /\ m.pos \in Nat
    BY <1>1, FieldTypes
  <1>4. chunk \in Blocks /\ Len(chunk) \in Nat
    BY <1>3, ChunkAtIs
  <1>5. n \in CallState /\ n.at = m.at /\ n.fd = m.fd
    BY <1>1, <1>3, <1>4, SMTT(30) DEF CallState
  <1>6. call' = [q \in Rpc |-> call'[q]] /\ Others(r) /\ call'[r] = n
    BY <1>2, DisturbingIs
  <1> HIDE DEF m, n, chunk
  <1>7. /\ inode' \in [Inode -> Blocks]
        /\ \A j \in Inode : inode'[j] = IF j = m.fd THEN WriteAt(inode[j], m.pos, chunk) ELSE inode[j]
    <2>1. WriteAt(inode[m.fd], m.pos, chunk) \in Blocks
      BY <1>1, <1>3, <1>4, WriteAtIs DEF TypeOK
    <2> QED BY <1>1, <1>2, <2>1 DEF TypeOK
  <1>8. call'[r].at \in {"open", "eof"} <=> call'[r].fd # Absent
    BY <1>1, <1>5, <1>6, TransferConstants
  <1>9. /\ local' \in [Client -> [File -> Blocks \cup {Absent}]]
        /\ broken' \subseteq File /\ gone' \in 0..MaxGone
        /\ name' \in [File -> Inode \cup {Absent}]
    BY <1>1 DEF TypeOK
  <1>10. TypeOK'
    BY <1>5, <1>6, <1>7, <1>8, <1>9, TypeKept
  <1>11. Disturbing(r, {m.file}, call'[r])
    BY <1>2, <1>6 DEF n, m, chunk
  <1> QED BY <1>1, <1>2, <1>5, <1>6, <1>7, <1>10, <1>11 DEF m, n, chunk

\* A step of one call that changes nothing else.
LEMMA OwnTypeOK ==
    ASSUME TypeOK, NEW r \in Rpc, Own(r), UNCHANGED <<name, inode, local, broken, gone>>,
           call'[r] \in CallState \cup {Unused},
           call'[r] \in CallState => (call'[r].at \in {"open", "eof"} <=> call'[r].fd # Absent)
    PROVE  TypeOK'
  <1>1. Others(r)
    BY DEF Own, Others
  <1>2. /\ local' \in [Client -> [File -> Blocks \cup {Absent}]]
        /\ broken' \subseteq File /\ gone' \in 0..MaxGone
        /\ name' \in [File -> Inode \cup {Absent}] /\ inode' \in [Inode -> Blocks]
    BY DEF TypeOK
  <1> QED BY <1>1, <1>2, TypeKept DEF Own

LEMMA FetchFileOpenIs ==
    ASSUME TypeOK, NEW r \in Rpc, CallFits(r), FetchFileOpen(r), ~Return(r, "NOT_FOUND")
    PROVE  LET m == call[r]
               n == call'[r]
           IN  /\ InUse(r) /\ m \in CallState /\ m.rpc = "FetchFile" /\ m.at = "sent" /\ m.file \in File
               /\ name[m.file] \in Inode
               /\ n \in CallState
               /\ n = [m EXCEPT !.at = "open", !.fd = name[m.file], !.disturbed = BeingStored(name[m.file])]
               /\ Own(r) /\ TypeOK' /\ UNCHANGED <<name, inode, local, broken, gone>>
  <1> DEFINE m == call[r]
             n == [m EXCEPT !.at = "open", !.fd = name[m.file], !.disturbed = BeingStored(name[m.file])]
  <1>1. /\ InUse(r) /\ m \in CallState /\ m.rpc = "FetchFile" /\ m.at = "sent" /\ m.file \in File
    BY CallType, FieldTypes DEF FetchFileOpen, At, CallFits
  <1>2. /\ name[m.file] \in Inode /\ UNCHANGED <<name, inode, local, broken, gone>>
        /\ call' = [call EXCEPT ![r].at = "open", ![r].fd = name[m.file],
                               ![r].disturbed = BeingStored(name[m.file])]
    BY <1>1 DEF FetchFileOpen, TypeOK
  <1>3. Own(r) /\ call'[r] = n
    BY <1>1, <1>2 DEF Own, TypeOK
  <1>4. BeingStored(name[m.file]) \in BOOLEAN
    BY DEF BeingStored
  <1>5. n \in CallState /\ n.at = "open" /\ n.fd = name[m.file]
    BY <1>1, <1>2, <1>4 DEF CallState
  <1> HIDE DEF n
  <1>6. TypeOK'
    BY <1>2, <1>3, <1>5, OwnTypeOK, TransferConstants
  <1> QED BY <1>1, <1>2, <1>3, <1>5, <1>6 DEF n

LEMMA FetchFileReadIs ==
    ASSUME TypeOK, NEW r \in Rpc, CallFits(r), FetchFileRead(r)
    PROVE  LET m == call[r]
               chunk == ChunkAt(inode[m.fd], m.pos)
               n == call'[r]
           IN  /\ InUse(r) /\ m \in CallState /\ m.rpc = "FetchFile" /\ m.at = "open"
               /\ m.file \in File /\ m.fd \in Inode
               /\ chunk # << >> /\ chunk \in Blocks
               /\ n \in CallState
               /\ n = [m EXCEPT !.at = IF Len(chunk) < Buffer THEN "eof" ELSE "open",
                                !.pos = m.pos + Len(chunk),
                                !.stream = Append(m.stream, chunk)]
               /\ Own(r) /\ TypeOK' /\ UNCHANGED <<name, inode, local, broken, gone>>
  <1> DEFINE m == call[r]
             chunk == ChunkAt(inode[m.fd], m.pos)
             n == [m EXCEPT !.at = IF Len(chunk) < Buffer THEN "eof" ELSE "open",
                            !.pos = m.pos + Len(chunk),
                            !.stream = Append(m.stream, chunk)]
  <1>1. /\ InUse(r) /\ m \in CallState /\ m.rpc = "FetchFile" /\ m.at = "open" /\ m.file \in File
        /\ m.fd \in Inode /\ UNCHANGED <<name, inode, local, broken, gone>>
    BY CallType, FieldTypes DEF FetchFileRead, At, CallFits
  <1>2. /\ chunk # << >>
        /\ call' = [call EXCEPT
              ![r].at = IF Len(chunk) < Buffer THEN "eof" ELSE "open",
              ![r].pos = @ + Len(chunk),
              ![r].stream = Append(@, chunk)]
    BY DEF FetchFileRead
  <1>3. inode[m.fd] \in Blocks /\ m.pos \in Nat /\ m.stream \in Seq(Blocks)
    BY <1>1, FieldTypes DEF TypeOK
  <1>4. chunk \in Blocks /\ Len(chunk) \in Nat
    BY <1>3, ChunkAtIs
  <1>5. Own(r) /\ call'[r] = n
    BY <1>1, <1>2 DEF Own, TypeOK
  <1>6. Append(m.stream, chunk) \in Seq(Blocks)
    BY <1>3, <1>4, AppendProperties
  <1>7. n \in CallState /\ n.at \in {"open", "eof"} /\ n.fd = m.fd
    <2>1. m.pos + Len(chunk) \in Nat
      BY <1>3, <1>4
    <2> HIDE DEF chunk
    <2> QED BY <1>1, <1>6, <2>1 DEF CallState
  <1> HIDE DEF n
  <1>8. TypeOK'
    BY <1>1, <1>5, <1>7, OwnTypeOK, TransferConstants
  <1> QED BY <1>1, <1>2, <1>4, <1>5, <1>7, <1>8 DEF n

LEMMA DeleteFileIs ==
    ASSUME TypeOK, NEW r \in Rpc, CallFits(r), DeleteFile(r),
           ~Return(r, "NOT_FOUND"), ~Return(r, "CANCELLED")
    PROVE  LET m == call[r]
           IN  /\ InUse(r) /\ m \in CallState /\ m.rpc = "DeleteFile" /\ m.at = "sent" /\ m.file \in File
               /\ \A f \in File : name'[f] = IF f = m.file THEN Absent ELSE name[f]
               /\ Disturbing(r, {m.file, Directory}, call'[r]) /\ Reclaim
               /\ call'[r] = Answered(m, "OK") /\ call'[r] \in CallState \cup {Unused}
               /\ TypeOK' /\ UNCHANGED <<local, broken, gone>>
  <1> DEFINE m == call[r]
             n == Answered(m, "OK")
  <1>1. /\ InUse(r) /\ m \in CallState /\ m.rpc = "DeleteFile" /\ m.at = "sent" /\ m.file \in File
        /\ UNCHANGED <<local, broken, gone>>
    BY CallType, FieldTypes DEF DeleteFile, At, CallFits
  <1>2. /\ name' = [name EXCEPT ![m.file] = Absent]
        /\ Disturbing(r, {m.file, Directory}, n) /\ Reclaim
    BY DEF DeleteFile
  <1>3. /\ n \in CallState \cup {Unused}
        /\ n \in CallState => n.at = "done" /\ n.fd = Absent
    <2>1. CASE m.live
      BY <1>1, <2>1, AnsweredIs
    <2>2. CASE ~m.live
      BY <1>1, <2>2, AnsweredIs DEF Unused, CallState
    <2> QED BY <2>1, <2>2
  <1> HIDE DEF n
  <1>4. call' = [q \in Rpc |-> call'[q]] /\ Others(r) /\ call'[r] = n
    BY <1>2, DisturbingIs
  <1>5. /\ \A f \in File : name'[f] = IF f = m.file THEN Absent ELSE name[f]
        /\ name' \in [File -> Inode \cup {Absent}]
        /\ inode' \in [Inode -> Blocks]
    BY <1>1, <1>2, ReclaimType DEF TypeOK
  <1>6. /\ local' \in [Client -> [File -> Blocks \cup {Absent}]]
        /\ broken' \subseteq File /\ gone' \in 0..MaxGone
    BY <1>1 DEF TypeOK
  <1>7. call'[r] \in CallState => (call'[r].at \in {"open", "eof"} <=> call'[r].fd # Absent)
    BY <1>3, <1>4
  <1>8. TypeOK'
    BY <1>3, <1>4, <1>5, <1>6, <1>7, TypeKept
  <1> QED BY <1>1, <1>2, <1>3, <1>4, <1>5, <1>8 DEF n

\* The answer of GetFileStatus.
LEMMA GetFileStatusIs ==
    ASSUME TypeOK, NEW r \in Rpc, CallFits(r), GetFileStatus(r)
    PROVE  LET m == call[r]
               n == call'[r]
               i == name[m.file]
           IN  /\ InUse(r) /\ m \in CallState /\ m.rpc = "GetFileStatus" /\ m.at = "sent" /\ m.file \in File
               /\ m.live /\ n \in CallState /\ n.at = "done" /\ n.status # "none"
               /\ n.rpc = m.rpc /\ n.client = m.client /\ n.file = m.file /\ n.live
               /\ n.stream = m.stream /\ n.opened = m.opened /\ n.data = m.data
               /\ n.status = "OK" => i # Absent /\ n.size = Len(inode[i])
               /\ Own(r) /\ TypeOK' /\ UNCHANGED <<name, inode, local, broken, gone>>
  <1> DEFINE m == call[r]
             i == name[m.file]
             w == [m EXCEPT !.size = Len(inode[i]), !.disturbed = BeingStored(i)]
             n == IF i = Absent THEN Answered(m, "NOT_FOUND") ELSE Answered(w, "OK")
  <1>1. /\ InUse(r) /\ m \in CallState /\ m.rpc = "GetFileStatus" /\ m.at = "sent" /\ m.file \in File
        /\ m.live /\ UNCHANGED <<name, inode, local, broken, gone>>
    BY CallType, FieldTypes DEF GetFileStatus, At, CallFits, Reads
  <1>2. Own(r) /\ call'[r] = n
    BY <1>1 DEF GetFileStatus, Own, TypeOK
  <1>3. i \in Inode => /\ w \in CallState /\ w.live /\ w.rpc = m.rpc /\ w.client = m.client
                       /\ w.file = m.file /\ w.stream = m.stream /\ w.opened = m.opened /\ w.data = m.data
                       /\ w.size = Len(inode[i])
    <2> SUFFICES ASSUME i \in Inode
                 PROVE  /\ w \in CallState /\ w.live /\ w.rpc = m.rpc /\ w.client = m.client
                        /\ w.file = m.file /\ w.stream = m.stream /\ w.opened = m.opened /\ w.data = m.data
                        /\ w.size = Len(inode[i])
      OBVIOUS
    <2>1. BeingStored(i) \in BOOLEAN /\ Len(inode[i]) \in Nat
      BY BlocksType DEF BeingStored, TypeOK
    <2> QED BY <1>1, <2>1 DEF CallState
  <1>4. i \in Inode \cup {Absent}
    BY <1>1 DEF TypeOK
  <1>5. /\ n \in CallState /\ n.at = "done" /\ n.fd = Absent /\ n.status # "none"
        /\ n.rpc = m.rpc /\ n.client = m.client /\ n.file = m.file /\ n.live
        /\ n.stream = m.stream /\ n.opened = m.opened /\ n.data = m.data
        /\ n.status = "OK" => i # Absent /\ n.size = Len(inode[i])
    <2>1. CASE i = Absent
      BY <1>1, <2>1, AnsweredIs
    <2>2. CASE i # Absent
      <3> HIDE DEF w
      <3>1. LET a == Answered(w, "OK")
            IN  /\ a \in CallState /\ a.at = "done" /\ a.fd = Absent /\ a.status # "none"
                /\ a.rpc = m.rpc /\ a.client = m.client /\ a.file = m.file /\ a.live
                /\ a.stream = m.stream /\ a.opened = m.opened /\ a.data = m.data /\ a.size = Len(inode[i])
        BY <1>1, <1>3, <1>4, <2>2, AnsweredIs
      <3> QED BY <2>2, <3>1
    <2> QED BY <2>1, <2>2
  <1> HIDE DEF n
  <1>6. TypeOK'
    BY <1>1, <1>2, <1>5, OwnTypeOK
  <1> QED BY <1>1, <1>2, <1>5, <1>6

LEMMA ListFilesOpenIs ==
    ASSUME TypeOK, NEW r \in Rpc, CallFits(r), ListFilesOpen(r), ~Return(r, "CANCELLED")
    PROVE  LET m == call[r]
               n == call'[r]
           IN  /\ InUse(r) /\ m \in CallState /\ m.rpc = "ListFiles" /\ m.at = "sent"
               /\ n \in CallState /\ n.at = "scan"
               /\ n.rpc = m.rpc /\ n.client = m.client /\ n.file = m.file /\ n.live = m.live
               /\ n.stream = m.stream /\ n.opened = m.opened /\ n.status = m.status
               /\ n.data = m.data
               /\ n.listing.names = { f \in File : name[f] # Absent }
               /\ n.listing.listed = m.listing.listed /\ n.listing.gone = m.listing.gone
               /\ Own(r) /\ TypeOK' /\ UNCHANGED <<name, inode, local, broken, gone>>
  <1> DEFINE m == call[r]
             names == { f \in File : name[f] # Absent }
             n == [m EXCEPT !.at = "scan", !.listing = [m.listing EXCEPT !.names = names]]
  <1>1. /\ InUse(r) /\ m \in CallState /\ m.rpc = "ListFiles" /\ m.at = "sent" /\ m.fd = Absent
        /\ UNCHANGED <<local, broken, gone>>
    BY CallType, FieldTypes DEF ListFilesOpen, At
  <1>2. /\ call' = [call EXCEPT ![r].at = "scan", ![r].listing.names = names]
        /\ UNCHANGED <<name, inode>>
    BY DEF ListFilesOpen
  <1>3. Own(r) /\ call'[r] = n
    BY <1>1, <1>2, ZenonT(60) DEF Own, TypeOK
  <1>4. names \in SUBSET File /\ m.listing \in [names : SUBSET File, listed : SUBSET File, gone : SUBSET File]
    BY <1>1, FieldTypes
  <1> HIDE DEF names
  <1>5. /\ n \in CallState /\ n.at = "scan" /\ n.fd = Absent
        /\ n.rpc = m.rpc /\ n.client = m.client /\ n.file = m.file /\ n.live = m.live
        /\ n.stream = m.stream /\ n.opened = m.opened /\ n.status = m.status /\ n.data = m.data
        /\ n.listing.names = names
        /\ n.listing.listed = m.listing.listed /\ n.listing.gone = m.listing.gone
    BY <1>1, <1>4 DEF CallState
  <1> HIDE DEF n
  <1>6. TypeOK'
    BY <1>1, <1>2, <1>3, <1>5, OwnTypeOK
  <1> QED BY <1>1, <1>2, <1>3, <1>5, <1>6 DEF names

LEMMA ListFilesReadIs ==
    ASSUME TypeOK, NEW r \in Rpc, CallFits(r), ListFilesRead(r)
    PROVE  LET m == call[r]
               n == call'[r]
           IN  /\ InUse(r) /\ m \in CallState /\ m.rpc = "ListFiles" /\ m.at = "scan"
               /\ n \in CallState /\ n.at = "scan"
               /\ n.rpc = m.rpc /\ n.client = m.client /\ n.file = m.file /\ n.live = m.live
               /\ n.stream = m.stream /\ n.opened = m.opened /\ n.status = m.status
               /\ n.disturbed = m.disturbed /\ n.data = m.data
               /\ \E f \in File :
                     /\ f \in m.listing.names \/ name[f] # Absent
                     /\ n.listing.names = m.listing.names \ {f}
                     /\ n.listing.listed = m.listing.listed \cup {f}
                     /\ n.listing.gone = IF name[f] = Absent THEN m.listing.gone \cup {f}
                                         ELSE m.listing.gone
               /\ Own(r) /\ TypeOK' /\ UNCHANGED <<name, inode, local, broken, gone>>
  <1> DEFINE m == call[r]
  <1>1. /\ InUse(r) /\ m \in CallState /\ m.rpc = "ListFiles" /\ m.at = "scan" /\ m.fd = Absent
        /\ UNCHANGED <<name, inode, local, broken, gone>>
    BY CallType, FieldTypes DEF ListFilesRead, At
  <1>2. PICK f \in File :
            /\ f \in m.listing.names \/ name[f] # Absent
            /\ call' = [call EXCEPT
                  ![r].listing.names = @ \ {f},
                  ![r].listing.listed = @ \cup {f},
                  ![r].listing.gone = IF name[f] = Absent THEN @ \cup {f} ELSE @]
    BY DEF ListFilesRead
  <1> DEFINE l == [m.listing EXCEPT !.names = @ \ {f}, !.listed = @ \cup {f},
                                    !.gone = IF name[f] = Absent THEN @ \cup {f} ELSE @]
             n == [m EXCEPT !.listing = l]
  <1>3. Own(r) /\ call'[r] = n
    BY <1>1, <1>2, ZenonT(60) DEF Own, TypeOK
  <1>4. m.listing \in [names : SUBSET File, listed : SUBSET File, gone : SUBSET File]
    BY <1>1, FieldTypes
  <1>5. /\ l \in [names : SUBSET File, listed : SUBSET File, gone : SUBSET File]
        /\ l.names = m.listing.names \ {f} /\ l.listed = m.listing.listed \cup {f}
        /\ l.gone = IF name[f] = Absent THEN m.listing.gone \cup {f} ELSE m.listing.gone
    BY <1>2, <1>4
  <1> HIDE DEF l
  <1>6. /\ n \in CallState /\ n.at = "scan" /\ n.fd = Absent
        /\ n.rpc = m.rpc /\ n.client = m.client /\ n.file = m.file /\ n.live = m.live
        /\ n.stream = m.stream /\ n.opened = m.opened /\ n.status = m.status /\ n.data = m.data
        /\ n.disturbed = m.disturbed /\ n.listing = l
    BY <1>1, <1>5 DEF CallState
  <1> HIDE DEF n
  <1>7. TypeOK'
    BY <1>1, <1>3, <1>6, OwnTypeOK
  <1> QED BY <1>1, <1>2, <1>3, <1>5, <1>6, <1>7

\* A call that a client makes.
LEMMA CallIs ==
    ASSUME TypeOK, NEW c \in Client, NEW f \in File \cup {Directory}, NEW data \in Blocks,
           NEW rpc \in {"StoreFile", "FetchFile", "DeleteFile", "GetFileStatus", "ListFiles"},
           Call(c, rpc, f, data)
    PROVE  /\ Idle(c) /\ TypeOK' /\ UNCHANGED <<name, inode, local, broken, gone>>
           /\ \E r \in Rpc : /\ Own(r) /\ ~InUse(r) /\ call'[r] = Request(rpc, c, f, data)
                             /\ call'[r] \in CallState
  <1>1. PICK r \in Rpc : ~InUse(r) /\ call' = [call EXCEPT ![r] = Request(rpc, c, f, data)]
    BY DEF Call
  <1>2. Own(r) /\ call'[r] = Request(rpc, c, f, data)
    BY <1>1 DEF Own, TypeOK
  <1>3. Request(rpc, c, f, data) \in CallState
    BY BlocksType DEF Request, CallState, NoListing
  <1>4. call'[r].at = "sent" /\ call'[r].fd = Absent
    BY <1>2 DEF Request
  <1>5. Idle(c) /\ UNCHANGED <<name, inode, local, broken, gone>>
    BY DEF Call
  <1>6. TypeOK'
    BY <1>2, <1>3, <1>4, <1>5, OwnTypeOK
  <1> QED BY <1>1, <1>2, <1>3, <1>5, <1>6

LEMMA FetchOpenIs ==
    ASSUME TypeOK, NEW r \in Rpc, CallFits(r), FetchOpen(r)
    PROVE  LET m == call[r]
           IN  /\ InUse(r) /\ m \in CallState /\ m.rpc = "FetchFile" /\ m.live /\ ~m.opened
               /\ m.client \in Client /\ m.file \in File
               /\ \A c \in Client, f \in File :
                     local'[c][f] = IF c = m.client /\ f = m.file THEN << >> ELSE local[c][f]
               /\ call'[r] \in CallState /\ call'[r] = [m EXCEPT !.opened = TRUE]
               /\ Own(r) /\ TypeOK' /\ UNCHANGED <<name, inode, broken, gone>>
  <1> DEFINE m == call[r]
             n == [m EXCEPT !.opened = TRUE]
  <1>1. /\ InUse(r) /\ m \in CallState /\ m.rpc = "FetchFile" /\ m.live /\ ~m.opened
        /\ m.client \in Client /\ m.file \in File
        /\ UNCHANGED <<name, inode, broken, gone>>
    BY CallType, FieldTypes DEF FetchOpen, CallFits
  <1>2. /\ local' = [local EXCEPT ![m.client][m.file] = << >>]
        /\ call' = [call EXCEPT ![r].opened = TRUE]
    BY DEF FetchOpen
  <1>3. Own(r) /\ call'[r] = n /\ Others(r)
    BY <1>1, <1>2 DEF Own, Others, TypeOK
  <1>4. n \in CallState /\ n.at = m.at /\ n.fd = m.fd
    BY <1>1 DEF CallState
  <1> HIDE DEF n
  <1>5. /\ \A c \in Client, f \in File :
              local'[c][f] = IF c = m.client /\ f = m.file THEN << >> ELSE local[c][f]
        /\ local' \in [Client -> [File -> Blocks \cup {Absent}]]
    BY <1>1, <1>2, BlocksType DEF TypeOK
  <1>6. call'[r].at \in {"open", "eof"} <=> call'[r].fd # Absent
    BY <1>1, <1>3, <1>4, CallType
  <1>7. /\ broken' \subseteq File /\ gone' \in 0..MaxGone
        /\ name' \in [File -> Inode \cup {Absent}] /\ inode' \in [Inode -> Blocks]
    BY <1>1 DEF TypeOK
  <1>8. TypeOK'
    BY <1>3, <1>4, <1>5, <1>6, <1>7, TypeKept DEF Own
  <1> QED BY <1>1, <1>3, <1>4, <1>5, <1>8 DEF n

LEMMA FetchReadIs ==
    ASSUME TypeOK, NEW r \in Rpc, CallFits(r), FetchRead(r), Written(r) \in Blocks
    PROVE  LET m == call[r]
           IN  /\ InUse(r) /\ m \in CallState /\ m.rpc = "FetchFile" /\ m.live /\ m.opened
               /\ m.client \in Client /\ m.file \in File /\ m.stream # << >>
               /\ Head(m.stream) \in Blocks /\ Tail(m.stream) \in Seq(Blocks)
               /\ \A c \in Client, f \in File :
                     local'[c][f] = IF c = m.client /\ f = m.file
                                    THEN local[c][f] \o Head(m.stream) ELSE local[c][f]
               /\ call'[r] \in CallState /\ call'[r] = [m EXCEPT !.stream = Tail(m.stream)]
               /\ Own(r) /\ TypeOK' /\ UNCHANGED <<name, inode, broken, gone>>
  <1> DEFINE m == call[r]
             n == [m EXCEPT !.stream = Tail(m.stream)]
  <1>1. /\ InUse(r) /\ m \in CallState /\ m.rpc = "FetchFile" /\ m.live /\ m.opened
        /\ m.client \in Client /\ m.file \in File /\ m.stream # << >>
        /\ UNCHANGED <<name, inode, broken, gone>>
    BY CallType, FieldTypes DEF FetchRead, CallFits
  <1>2. /\ local' = [local EXCEPT ![m.client][m.file] = @ \o Head(m.stream)]
        /\ call' = [call EXCEPT ![r].stream = Tail(@)]
    BY DEF FetchRead
  <1>3. Own(r) /\ call'[r] = n /\ Others(r)
    BY <1>1, <1>2 DEF Own, Others, TypeOK
  <1>4. Head(m.stream) \in Blocks /\ Tail(m.stream) \in Seq(Blocks)
    BY <1>1, FieldTypes, HeadTailProperties
  <1>5. n \in CallState /\ n.at = m.at /\ n.fd = m.fd
    BY <1>1, <1>4 DEF CallState
  <1> HIDE DEF n
  <1>6. local[m.client][m.file] \o Head(m.stream) \in Blocks
    BY <1>1, <1>4 DEF Written, Blocks
  <1>7. /\ \A c \in Client, f \in File :
              local'[c][f] = IF c = m.client /\ f = m.file
                             THEN local[c][f] \o Head(m.stream) ELSE local[c][f]
        /\ local' \in [Client -> [File -> Blocks \cup {Absent}]]
    <2> DEFINE w == local[m.client][m.file] \o Head(m.stream)
    <2>1. local' = [local EXCEPT ![m.client][m.file] = w]
      BY <1>1, <1>2 DEF TypeOK
    <2>2. w \in Blocks
      BY <1>6
    <2> HIDE DEF w
    <2>3. /\ \A c \in Client, f \in File :
                local'[c][f] = IF c = m.client /\ f = m.file THEN w ELSE local[c][f]
          /\ local' \in [Client -> [File -> Blocks \cup {Absent}]]
      BY <1>1, <2>1, <2>2 DEF TypeOK
    <2> QED BY <2>3 DEF w
  <1>8. call'[r].at \in {"open", "eof"} <=> call'[r].fd # Absent
    BY <1>1, <1>3, <1>5, CallType
  <1>9. /\ broken' \subseteq File /\ gone' \in 0..MaxGone
        /\ name' \in [File -> Inode \cup {Absent}] /\ inode' \in [Inode -> Blocks]
    BY <1>1 DEF TypeOK
  <1>10. TypeOK'
    BY <1>3, <1>5, <1>7, <1>8, <1>9, TypeKept DEF Own
  <1> QED BY <1>1, <1>3, <1>4, <1>5, <1>7, <1>10 DEF n

\* A client returns, and what it leaves.
LEMMA LeaveIs ==
    ASSUME TypeOK, NEW r \in Rpc, InUse(r), CallFits(r), Leave(r), gone' \in 0..MaxGone
    PROVE  LET m == call[r]
           IN  /\ m \in CallState
               /\ \/ call'[r] = Unused
                  \/ /\ m.rpc \in {"StoreFile", "DeleteFile"} /\ m.at # "done"
                     /\ call'[r] = [m EXCEPT !.live = FALSE, !.disturbed = FALSE]
                     /\ call'[r] \in CallState
               /\ broken \subseteq broken'
               /\ m.rpc = "StoreFile" /\ ~Finished(r) => m.file \in broken'
               /\ m.rpc = "FetchFile" /\ (m.disturbed \/ ~Finished(r)) => m.file \in broken'
               /\ Own(r) /\ Reclaim /\ TypeOK' /\ UNCHANGED <<name, local>>
  <1> DEFINE m == call[r]
             d == [m EXCEPT !.live = FALSE, !.disturbed = FALSE]
             partial == \/ m.rpc = "StoreFile" /\ ~Finished(r)
                        \/ m.rpc = "FetchFile" /\ (m.disturbed \/ ~Finished(r))
  <1>1. /\ m \in CallState /\ UNCHANGED <<name, local>> /\ Reclaim
        /\ broken' = IF partial THEN broken \cup {m.file} ELSE broken
        /\ call' = [call EXCEPT ![r] = IF m.at = "done" \/ Reads(m.rpc) THEN Unused ELSE d]
    BY CallType DEF Leave
  <1>2. Own(r) /\ Others(r) /\ call'[r] = IF m.at = "done" \/ Reads(m.rpc) THEN Unused ELSE d
    BY <1>1 DEF Own, Others, TypeOK
  <1>3. d \in CallState /\ d.at = m.at /\ d.fd = m.fd
    BY <1>1 DEF CallState
  <1> HIDE DEF d
  <1>4. \/ call'[r] = Unused
        \/ m.rpc \in {"StoreFile", "DeleteFile"} /\ m.at # "done" /\ call'[r] = d
    BY <1>2 DEF Reads
  <1>5. partial => m.file \in File
    BY <1>1, FieldTypes DEF CallFits
  <1>6. broken' \subseteq File /\ broken \subseteq broken' /\ (partial => m.file \in broken')
    BY <1>1, <1>5 DEF TypeOK
  <1>7. /\ call'[r] \in CallState \cup {Unused}
        /\ call'[r] \in CallState => (call'[r].at \in {"open", "eof"} <=> call'[r].fd # Absent)
    BY <1>3, <1>4, CallType DEF Unused, CallState
  <1>8. /\ inode' \in [Inode -> Blocks] /\ name' \in [File -> Inode \cup {Absent}]
        /\ local' \in [Client -> [File -> Blocks \cup {Absent}]]
    BY <1>1, ReclaimType DEF TypeOK
  <1>9. TypeOK'
    BY <1>2, <1>6, <1>7, <1>8, TypeKept DEF Own
  <1> QED BY <1>1, <1>2, <1>3, <1>4, <1>6, <1>9 DEF d

LEMMA DropCallIs ==
    ASSUME TypeOK, NEW r \in Rpc, DropCall(r)
    PROVE  /\ InUse(r) /\ call[r].at = "sent" /\ call'[r] = Unused
           /\ Own(r) /\ TypeOK' /\ UNCHANGED <<name, inode, local, broken, gone>>
  <1>1. /\ InUse(r) /\ call[r].at = "sent" /\ call' = [call EXCEPT ![r] = Unused]
        /\ UNCHANGED <<name, inode, local, broken, gone>>
    BY DEF DropCall
  <1>2. Own(r) /\ call'[r] = Unused
    BY <1>1 DEF Own, TypeOK
  <1>3. TypeOK'
    BY <1>1, <1>2, OwnTypeOK DEF Unused, CallState
  <1> QED BY <1>1, <1>2, <1>3

-----------------------------------------------------------------------------
(* What a step leaves alone *)

\* The step of call r leaves file f, or the directory, as it is.
SameFile(r, f) ==
    /\ f \in File => /\ name'[f] = name[f]
                     /\ name[f] # Absent => /\ inode'[name[f]] = inode[name[f]]
                                            /\ Stores(r, name[f])' => Stores(r, name[f])
    /\ f = Directory => { g \in File : name'[g] # Absent } = { g \in File : name[g] # Absent }

\* It changes nothing under call q unless it says so.
Spares(r, q) ==
    /\ call[q].live /\ call[q].at # "sent" /\ ~call'[q].disturbed => SameFile(r, call[q].file)
    /\ call[q].rpc = "FetchFile" =>
          local'[call[q].client][call[q].file] = local[call[q].client][call[q].file]

\* A file that nobody stores is not stored after a step that leaves it alone.
LEMMA StoredBefore ==
    ASSUME TypeOK, NEW r \in Rpc, Others(r), NEW i, Stores(r, i)' => Stores(r, i),
           ~BeingStored(i)
    PROVE  ~BeingStored(i)'
  <1>1. ASSUME NEW q \in Rpc, Stores(q, i)' PROVE Stores(q, i)
    <2>1. CASE q = r
      BY <1>1, <2>1
    <2>2. CASE q # r
      BY <1>1, <2>2, OtherCall DEF Stores, At
    <2> QED BY <2>1, <2>2
  <1> QED BY <1>1 DEF BeingStored, Stores

\* What the invariant says of a call stays true while others step.
LEMMA OtherCallFits ==
    ASSUME TypeOK, NEW r \in Rpc, Others(r), broken \subseteq broken',
           NEW q \in Rpc \ {r}, InUse(q), Spares(r, q),
           CallFits(q), FetchFits(q), StoreFits(q), AnswerFits(q)
    PROVE  CallFits(q)' /\ FetchFits(q)' /\ StoreFits(q)' /\ AnswerFits(q)'
  <1> DEFINE m == call[q]
             n == call'[q]
  <1>1. /\ m \in CallState /\ n \in CallState
        /\ n.rpc = m.rpc /\ n.client = m.client /\ n.file = m.file
        /\ n.data = m.data /\ n.at = m.at /\ n.fd = m.fd /\ n.pos = m.pos
        /\ n.stream = m.stream /\ n.live = m.live /\ n.status = m.status
        /\ n.opened = m.opened /\ n.listing = m.listing /\ n.size = m.size
        /\ n.disturbed = m.disturbed \/ n.disturbed
    BY OtherCall, CallType
  <1>2. m.live /\ m.at # "sent" /\ ~n.disturbed => ~m.disturbed /\ SameFile(r, m.file)
    BY <1>1, FieldTypes DEF Spares
  <1>3. CallFits(q)'
    BY <1>1 DEF CallFits
  <1>4. FetchFits(q)'
    <2> SUFFICES ASSUME m.rpc = "FetchFile" PROVE FetchFits(q)'
      BY <1>1 DEF FetchFits
    <2>1. local'[n.client][n.file] = local[m.client][m.file]
      BY <1>1 DEF Spares
    <2>2. /\ Written(q)' = Written(q) /\ Sent(q)' = Sent(q)
          /\ FullChunks(q)' <=> FullChunks(q)
      BY <1>1, <2>1 DEF Written, OnTheWay, Sent, FullChunks
    <2>3. \A p, b : Arrives(q, p, b)' <=> Arrives(q, p, b)
      BY <1>1, <2>1 DEF Written, OnTheWay, Arrives
    <2>4. ASSUME n.at \in {"open", "eof"} \/ n.status = "OK", ~n.disturbed
          PROVE  Copied(q)'
      <3>1. m.live /\ m.at # "sent"
        BY <1>1, <2>4 DEF CallFits, Reads
      <3>2. Copied(q) /\ SameFile(r, m.file) /\ m.file \in File
        BY <1>1, <1>2, <2>4, <3>1, FieldTypes DEF FetchFits, CallFits
      <3>3. PICK i : i = name[m.file]
        OBVIOUS
      <3>4. i # Absent /\ name'[n.file] = i /\ inode'[i] = inode[i] /\ ~BeingStored(i)'
        <4>1. i # Absent /\ ~BeingStored(i)
          BY <3>2, <3>3 DEF Copied
        <4>2. name'[n.file] = i /\ inode'[i] = inode[i]
          BY <1>1, <3>2, <3>3, <4>1 DEF SameFile
        <4>3. Stores(r, i)' => Stores(r, i)
          BY <1>1, <3>2, <3>3, <4>1, <4>2 DEF SameFile, Stores
        <4> QED BY <4>1, <4>2, <4>3, StoredBefore
      <3>5. /\ n.at # "done" => n.fd = i
            /\ \A p, b : Arrives(q, p, b) => p \in 1..Len(inode[i]) /\ b = inode[i][p]
            /\ Sent(q) <= Len(inode[i])
            /\ n.at # "open" => Sent(q) = Len(inode[i])
        BY <1>1, <3>2, <3>3 DEF Copied
      <3>6. ~BeingStored(name[call[q].file])'
        BY <3>4 DEF BeingStored
      <3> QED BY <2>2, <2>3, <3>4, <3>5, <3>6 DEF Copied
    <2> QED BY <1>1, <2>2, <2>3, <2>4 DEF FetchFits
  <1>5. StoreFits(q)'
    <2> SUFFICES ASSUME m.rpc = "StoreFile" PROVE StoreFits(q)'
      BY <1>1 DEF StoreFits
    <2>1. m.file \in File
      BY <1>1, FieldTypes DEF CallFits
    <2>2. m.status = "OK" => m.live /\ m.at = "done"
      BY DEF CallFits
    <2>3. m.at = "open" => m.fd # Absent
      BY <1>1, CallType
    <2>4. n.at = "open" /\ n.live /\ ~n.disturbed =>
              /\ n.fd = name'[n.file] /\ Len(inode'[name'[n.file]]) = n.pos
              /\ \A p \in 1..n.pos : inode'[name'[n.file]][p] = n.data[p]
      BY <1>1, <1>2, <2>1, <2>3 DEF StoreFits, SameFile
    <2>5. n.status = "OK" /\ ~n.disturbed => name'[n.file] # Absent /\ inode'[name'[n.file]] = n.data
      BY <1>1, <1>2, <2>1, <2>2 DEF StoreFits, SameFile
    <2>6. InPlace(n.data)
      BY <1>1 DEF StoreFits
    <2> QED BY <2>4, <2>5, <2>6 DEF StoreFits, InPlace
  <1>6. AnswerFits(q)'
    <2>1. m.status = "OK" \/ m.at = "scan" => m.live /\ m.at # "sent"
      BY DEF CallFits, Reads
    <2>2. /\ m.rpc = "ListFiles" => m.file = Directory
          /\ m.rpc # "ListFiles" => m.file \in File
      BY <1>1, FieldTypes DEF CallFits
    <2>3. n.rpc = "ListFiles" /\ (n.at = "scan" \/ n.status = "OK") /\ ~n.disturbed
              => /\ n.listing.names \cup n.listing.listed = { f \in File : name'[f] # Absent }
                 /\ n.listing.gone = {}
      BY <1>1, <1>2, <2>1, <2>2 DEF AnswerFits, SameFile
    <2>4. n.rpc = "GetFileStatus" /\ n.status = "OK" /\ ~n.disturbed
              => name'[n.file] # Absent /\ n.size = Len(inode'[name'[n.file]])
      BY <1>1, <1>2, <2>1, <2>2 DEF AnswerFits, SameFile
    <2> QED BY <1>1, <2>3, <2>4 DEF AnswerFits
  <1> QED BY <1>3, <1>4, <1>5, <1>6

\* So all calls fit after a step of r that spares the others, if r does.
LEMMA CallsKept ==
    ASSUME TypeOK, Calls, NEW r \in Rpc, Others(r), broken \subseteq broken',
           \A q \in Rpc \ {r} : InUse(q) => Spares(r, q),
           InUse(r)' => CallFits(r)' /\ FetchFits(r)' /\ StoreFits(r)' /\ AnswerFits(r)'
    PROVE  Calls'
  <1>1. ASSUME NEW q \in Rpc, InUse(q)'
        PROVE  CallFits(q)' /\ FetchFits(q)' /\ StoreFits(q)' /\ AnswerFits(q)'
    <2>1. CASE q = r
      BY <1>1, <2>1
    <2>2. CASE q # r
      <3>1. InUse(q) /\ Spares(r, q)
        BY <1>1, <2>2, OtherCall
      <3>2. CallFits(q) /\ FetchFits(q) /\ StoreFits(q) /\ AnswerFits(q)
        BY <3>1 DEF Calls
      <3> QED BY <2>2, <3>1, <3>2, OtherCallFits
    <2> QED BY <2>1, <2>2
  <1> QED BY <1>1 DEF Calls

\* A step of a call that is not new makes no second live call of a client.
LEMMA OneLiveKept ==
    ASSUME TypeOK, OneLive, NEW r \in Rpc, Others(r), InUse(r),
           InUse(r)' /\ call'[r].live => call[r].live /\ call'[r].client = call[r].client
    PROVE  OneLive'
  <1>1. \A q \in Rpc : InUse(q)' /\ call'[q].live =>
            InUse(q) /\ call[q].live /\ call'[q].client = call[q].client
    BY OtherCall
  <1> QED BY <1>1 DEF OneLive

\* Steps that leave all named files and the directory alone.
Calm(r) ==
    /\ Own(r)
    /\ UNCHANGED name
    /\ \A f \in File : name[f] # Absent => inode'[name[f]] = inode[name[f]]
    /\ \A i \in Inode : Stores(r, i)' => Stores(r, i)

LEMMA CalmSpares ==
    ASSUME TypeOK, NEW r \in Rpc, Calm(r)
    PROVE  Others(r) /\ \A f : SameFile(r, f)
  <1>1. \A f \in File : name[f] # Absent => (Stores(r, name[f])' => Stores(r, name[f]))
    BY DEF Calm, TypeOK
  <1> QED BY <1>1 DEF Calm, SameFile, Own, Others

\* Mixed files stay as they are, unless r leaves one.
LEMMA CalmMix ==
    ASSUME TypeOK, MixFits, NEW r \in Rpc, Calm(r), broken \subseteq broken',
           \A f \in File : name[f] # Absent /\ f \notin broken' /\ Stores(r, name[f]) =>
              \/ Stores(r, name[f])' /\ call'[r].pos = call[r].pos
              \/ /\ call[r].pos = Len(inode[name[f]]) => \E v \in Version : Len(inode[name[f]]) = Size[v]
                 /\ (\A p \in 1..Least : p <= call[r].pos =>
                        p <= Len(inode[name[f]]) /\ inode[name[f]][p] # Hole) => Filled(inode[name[f]])
    PROVE  MixFits'
  <1> SUFFICES ASSUME NEW f \in File, name'[f] # Absent, f \notin broken'
               PROVE  LET s == inode'[name'[f]]
                      IN  /\ \/ \E v \in Version : Len(s) = Size[v]
                             \/ \E q \in Rpc : Stores(q, name[f])' /\ call'[q].pos = Len(s)
                          /\ \/ Filled(s)
                             \/ \E q \in Rpc :
                                   /\ Stores(q, name[f])'
                                   /\ \A p \in 1..Least : p <= call'[q].pos => p <= Len(s) /\ s[p] # Hole
    BY DEF MixFits, Mix, Filled
  <1>0. PICK i, s : i = name[f] /\ s = inode[i]
    OBVIOUS
  <1>1. name'[f] = i /\ name[f] = i /\ i # Absent /\ inode[i] = s /\ inode'[i] = s /\ f \notin broken
    BY <1>0 DEF Calm
  <1>2. \A q \in Rpc \ {r} : Stores(q, i) => Stores(q, i)' /\ call'[q].pos = call[q].pos
    BY DEF Calm, Own, Stores, At, InUse
  <1>3. /\ \/ \E v \in Version : Len(s) = Size[v]
           \/ \E q \in Rpc : Stores(q, i) /\ call[q].pos = Len(s)
        /\ \/ Filled(s)
           \/ \E q \in Rpc :
                 /\ Stores(q, i)
                 /\ \A p \in 1..Least : p <= call[q].pos => p <= Len(s) /\ s[p] # Hole
    BY <1>1 DEF MixFits, Mix
  <1>4. Stores(r, i) =>
            \/ Stores(r, i)' /\ call'[r].pos = call[r].pos
            \/ /\ call[r].pos = Len(s) => \E v \in Version : Len(s) = Size[v]
               /\ (\A p \in 1..Least : p <= call[r].pos => p <= Len(s) /\ s[p] # Hole) => Filled(s)
    BY <1>1 DEF Stores
  <1>5. \/ \E v \in Version : Len(s) = Size[v]
        \/ \E q \in Rpc : Stores(q, i)' /\ call'[q].pos = Len(s)
    BY <1>2, <1>3, <1>4
  <1>6. \/ Filled(s)
        \/ \E q \in Rpc : /\ Stores(q, i)'
                          /\ \A p \in 1..Least : p <= call'[q].pos => p <= Len(s) /\ s[p] # Hole
    BY <1>2, <1>3, <1>4
  <1>7. \A q \in Rpc : Stores(q, name[f])' <=> Stores(q, i)'
    BY <1>1 DEF Stores
  <1> QED BY <1>1, <1>5, <1>6, <1>7

-----------------------------------------------------------------------------
(* Fetch and FetchFile *)

\* Where the chunks are that are on their way.
LEMMA OnTheWayIs ==
    ASSUME NEW w \in Nat, NEW k \in Nat
    PROVE  /\ w + k * Buffer \in Nat
           /\ w + (k + 1 - 1) * Buffer = w + k * Buffer
           /\ w + (k - 1) * Buffer + Buffer = w + k * Buffer
           /\ w + Buffer + (k - 1) * Buffer = w + (k + 1 - 1) * Buffer
  <1>1. Buffer \in Nat
    BY TransferConstants
  <1>2. k * Buffer \in Nat /\ (k + 1 - 1) * Buffer = k * Buffer
    BY <1>1
  <1>3. (k - 1) * Buffer \in Int /\ (k - 1) * Buffer + Buffer = k * Buffer
    BY <1>1
  <1> QED BY <1>1, <1>2, <1>3

\* A fetch as it arrives.
LEMMA FetchTypes ==
    ASSUME TypeOK, NEW r \in Rpc, InUse(r), Written(r) \in Blocks
    PROVE  /\ Len(Written(r)) \in Nat /\ Len(call[r].stream) \in Nat
           /\ \A k \in 1..Len(call[r].stream) : call[r].stream[k] \in Blocks /\ Len(call[r].stream[k]) \in Nat
           /\ call[r].stream = << >> <=> Len(call[r].stream) = 0
           /\ \A k \in 1..Len(call[r].stream) : OnTheWay(r, k) \in Nat
           /\ Sent(r) \in Nat
  <1> DEFINE m == call[r]
             w == Len(Written(r))
             n == Len(m.stream)
  <1>1. /\ w \in Nat /\ n \in Nat
        /\ \A k \in 1..n : m.stream[k] \in Blocks
        /\ m.stream = << >> <=> n = 0
    BY CallType, FieldTypes, BlocksType
  <1>2. \A k \in 1..n : m.stream[k] \in Blocks /\ Len(m.stream[k]) \in Nat
    BY <1>1, BlocksType
  <1>3. ASSUME NEW k \in 1..n PROVE OnTheWay(r, k) \in Nat
    <2>1. k - 1 \in Nat
      BY <1>1
    <2> QED BY <1>1, <2>1, OnTheWayIs DEF OnTheWay
  <1>4. Sent(r) \in Nat
    <2>1. CASE n = 0
      BY <1>1, <2>1 DEF Sent
    <2>2. CASE n # 0
      <3>1. n \in 1..n
        BY <1>1, <2>2
      <3>2. PICK k \in 1..n : k = n
        BY <3>1
      <3>3. PICK a \in Nat, b \in Nat : a = OnTheWay(r, k) /\ b = Len(m.stream[k])
        BY <1>2, <1>3
      <3>4. Sent(r) = a + b
        BY <2>2, <3>2, <3>3 DEF Sent
      <3> QED BY <3>4
    <2> QED BY <2>1, <2>2
  <1> QED BY <1>1, <1>2, <1>3, <1>4

\* While the handler reads, all chunks are full.
LEMMA SentFull ==
    ASSUME TypeOK, NEW r \in Rpc, InUse(r), Written(r) \in Blocks, FullChunks(r), call[r].at = "open"
    PROVE  Sent(r) = Len(Written(r)) + Len(call[r].stream) * Buffer
  <1> DEFINE m == call[r]
             w == Len(Written(r))
             n == Len(m.stream)
  <1>1. w \in Nat /\ n \in Nat /\ Buffer \in Nat
    BY FetchTypes, TransferConstants
  <1>2. CASE n = 0
    BY <1>1, <1>2 DEF Sent
  <1>3. CASE n # 0
    <2>1. Len(m.stream[n]) = Buffer
      BY <1>1, <1>3 DEF FullChunks
    <2>2. Sent(r) = w + (n - 1) * Buffer + Buffer
      BY <1>3, <2>1 DEF Sent, OnTheWay
    <2> HIDE DEF w, n
    <2> QED BY <1>1, <2>2, OnTheWayIs DEF w, n
  <1> QED BY <1>2, <1>3

\* FetchFile has opened the file, and nothing has arrived.
LEMMA FetchFileOpenFits ==
    ASSUME TypeOK, NEW r \in Rpc, CallFits(r), FetchFits(r), FetchFileOpen(r), ~Return(r, "NOT_FOUND")
    PROVE  CallFits(r)' /\ FetchFits(r)' /\ StoreFits(r)' /\ AnswerFits(r)'
  <1> DEFINE m == call[r]
             n == call'[r]
  <1>1. /\ InUse(r) /\ m \in CallState /\ m.rpc = "FetchFile" /\ m.at = "sent" /\ m.file \in File
        /\ name[m.file] \in Inode
        /\ n \in CallState
        /\ n = [m EXCEPT !.at = "open", !.fd = name[m.file], !.disturbed = BeingStored(name[m.file])]
        /\ Own(r) /\ UNCHANGED <<name, inode, local, broken, gone>>
    BY FetchFileOpenIs
  <1>2. /\ n.at = "open" /\ n.fd = name[m.file] /\ n.disturbed = BeingStored(name[m.file])
        /\ n.rpc = m.rpc /\ n.client = m.client /\ n.file = m.file
        /\ n.data = m.data /\ n.pos = m.pos
        /\ n.stream = m.stream /\ n.live = m.live /\ n.status = m.status /\ n.opened = m.opened
    BY <1>1 DEF CallState
  <1> HIDE DEF n
  <1>3. /\ CallFits(r)' /\ n.status = "none" /\ m.stream = << >> /\ m.pos = 0
    BY <1>1, <1>2, FieldTypes DEF CallFits, n, Reads
  <1>4. Written(r) \in Blocks /\ Sent(r) = 0
    BY <1>1 DEF FetchFits
  <1>5. Len(Written(r)) = 0 /\ Len(m.stream) = 0
    BY <1>3, <1>4 DEF Sent
  <1>6. /\ Written(r)' = Written(r) /\ Sent(r)' = 0 /\ FullChunks(r)'
        /\ \A p, b : ~Arrives(r, p, b)'
    <2>1. Written(r)' = Written(r)
      BY <1>1, <1>2 DEF Written, n
    <2>2. call'[r].stream = m.stream
      BY <1>2 DEF n
    <2> QED BY <1>5, <2>1, <2>2 DEF Sent, FullChunks, Arrives
  <1>7. n.disturbed \/ Copied(r)'
    <2> SUFFICES ASSUME ~n.disturbed PROVE Copied(r)'
      OBVIOUS
    <2>1. PICK i \in Inode : i = name[m.file]
      BY <1>1
    <2>2. ~BeingStored(i)
      BY <1>2, <2>1
    <2>3. Others(r) /\ (Stores(r, i)' => Stores(r, i))
      BY <1>1, <1>2 DEF Own, Others, Stores, At, n
    <2>4. ~BeingStored(i)'
      BY <2>2, <2>3, StoredBefore
    <2>5. name'[call'[r].file] = i /\ call'[r].fd = i /\ call'[r].at = "open"
      BY <1>1, <1>2, <2>1 DEF n
    <2>6. ~BeingStored(name[call[r].file])'
      BY <2>4, <2>5 DEF BeingStored
    <2>7. i # Absent /\ Len(inode'[i]) \in Nat
      BY <1>1, BlocksType, TransferConstants DEF TypeOK
    <2> QED BY <1>6, <2>5, <2>6, <2>7 DEF Copied
  <1>8. FetchFits(r)'
    BY <1>2, <1>3, <1>4, <1>6, <1>7 DEF FetchFits, n
  <1> QED BY <1>1, <1>2, <1>3, <1>8 DEF StoreFits, AnswerFits, n

\* One more chunk is on its way.
LEMMA FetchFileReadArrives ==
    ASSUME TypeOK, NEW r \in Rpc, CallFits(r), FetchFits(r), FetchFileRead(r)
    PROVE  LET chunk == ChunkAt(inode[call[r].fd], call[r].pos)
           IN  /\ Written(r)' = Written(r)
               /\ Sent(r)' = Sent(r) + Len(chunk) /\ call'[r].pos = Sent(r)'
               /\ FullChunks(r)'
               /\ \A p, b : Arrives(r, p, b)' =>
                     \/ Arrives(r, p, b)
                     \/ \E i \in 1..Len(chunk) : p = call[r].pos + i /\ b = chunk[i]
  <1> DEFINE m == call[r]
             chunk == ChunkAt(inode[m.fd], m.pos)
  <1>0. PICK w, n : w = Len(Written(r)) /\ n = Len(m.stream)
    OBVIOUS
  <1>1. /\ InUse(r) /\ m \in CallState /\ m.rpc = "FetchFile" /\ m.at = "open" /\ m.fd \in Inode
        /\ chunk \in Blocks
        /\ call'[r] \in CallState
        /\ call'[r] = [m EXCEPT !.at = IF Len(chunk) < Buffer THEN "eof" ELSE "open",
                                !.pos = m.pos + Len(chunk),
                                !.stream = Append(m.stream, chunk)]
        /\ Own(r) /\ UNCHANGED <<name, inode, local, broken, gone>>
    BY FetchFileReadIs
  <1>2. /\ call'[r].at = IF Len(chunk) < Buffer THEN "eof" ELSE "open"
        /\ call'[r].pos = m.pos + Len(chunk) /\ call'[r].stream = Append(m.stream, chunk)
        /\ call'[r].client = m.client /\ call'[r].file = m.file /\ call'[r].opened = m.opened
    <2> HIDE DEF chunk
    <2> QED BY <1>1 DEF CallState
  <1>3. Written(r) \in Blocks /\ FullChunks(r) /\ m.pos = Sent(r)
    BY <1>1 DEF FetchFits
  <1>4. Sent(r) = w + n * Buffer /\ w \in Nat /\ n \in Nat /\ Sent(r) \in Nat
    BY <1>0, <1>1, <1>3, SentFull, FetchTypes
  <1>5. /\ inode[m.fd] \in Blocks /\ Len(chunk) \in Nat /\ Len(chunk) <= Buffer /\ Buffer \in Nat
    BY <1>1, <1>3, <1>4, ChunkAtIs, TransferConstants DEF TypeOK
  <1> HIDE DEF chunk
  <1>6. /\ m.stream \in Seq(Blocks) /\ Len(Append(m.stream, chunk)) = n + 1
        /\ Append(m.stream, chunk)[n + 1] = chunk
        /\ \A k \in 1..n : Append(m.stream, chunk)[k] = m.stream[k]
    BY <1>0, <1>1, FieldTypes, AppendProperties
  <1>7. Written(r)' = Written(r)
    BY <1>1, <1>2 DEF Written
  <1>8. \A k : OnTheWay(r, k)' = w + (k - 1) * Buffer /\ OnTheWay(r, k) = w + (k - 1) * Buffer
    BY <1>0, <1>7 DEF OnTheWay
  <1>9. OnTheWay(r, n + 1)' = Sent(r)
    BY <1>4, <1>8, OnTheWayIs
  <1>10. Len(call'[r].stream) = n + 1 /\ n + 1 # 0
    BY <1>2, <1>4, <1>6
  <1>11. Sent(r)' = Sent(r) + Len(chunk)
    <2>1. Sent(r)' = OnTheWay(r, Len(call[r].stream))' + Len(call'[r].stream[n + 1])
      BY <1>10 DEF Sent
    <2>2. OnTheWay(r, Len(call[r].stream))' = OnTheWay(r, n + 1)'
      BY <1>8, <1>10 DEF OnTheWay
    <2> QED BY <1>2, <1>6, <1>9, <2>1, <2>2
  <1>12. FullChunks(r)'
    <2> SUFFICES ASSUME NEW k \in 1..(n + 1), k < n + 1 \/ call'[r].at = "open"
                 PROVE  Len(call'[r].stream[k]) = Buffer
      BY <1>10 DEF FullChunks
    <2>1. CASE k = n + 1
      BY <1>2, <1>4, <1>5, <1>6, <2>1
    <2>2. CASE k # n + 1
      <3>1. k \in 1..n
        BY <1>4, <2>2
      <3> QED BY <1>0, <1>1, <1>2, <1>3, <1>6, <3>1 DEF FullChunks
    <2> QED BY <2>1, <2>2
  <1>13. ASSUME NEW p, NEW b, Arrives(r, p, b)'
         PROVE  Arrives(r, p, b) \/ \E i \in 1..Len(chunk) : p = m.pos + i /\ b = chunk[i]
    <2>1. CASE p \in 1..Len(Written(r)') /\ b = Written(r)'[p]
      BY <1>7, <2>1 DEF Arrives
    <2>2. CASE \E k \in 1..Len(call'[r].stream) : \E i \in 1..Len(call'[r].stream[k]) :
                  p = OnTheWay(r, k)' + i /\ b = call'[r].stream[k][i]
      <3>1. PICK k \in 1..(n + 1) : \E i \in 1..Len(call'[r].stream[k]) :
                  p = OnTheWay(r, k)' + i /\ b = call'[r].stream[k][i]
        BY <1>10, <2>2
      <3>2. CASE k = n + 1
        BY <1>2, <1>3, <1>6, <1>9, <3>1, <3>2
      <3>3. CASE k # n + 1
        <4>1. k \in 1..n /\ call'[r].stream[k] = m.stream[k] /\ OnTheWay(r, k)' = OnTheWay(r, k)
          BY <1>2, <1>4, <1>6, <1>8, <3>3
        <4> QED BY <1>0, <3>1, <4>1 DEF Arrives
      <3> QED BY <3>2, <3>3
    <2>3. \/ p \in 1..Len(Written(r)') /\ b = Written(r)'[p]
          \/ \E k \in 1..Len(call'[r].stream) : \E i \in 1..Len(call'[r].stream[k]) :
                  p = OnTheWay(r, k)' + i /\ b = call'[r].stream[k][i]
      BY <1>13, <1>8 DEF Arrives, OnTheWay
    <2> QED BY <2>1, <2>2, <2>3
  <1> QED BY <1>2, <1>3, <1>7, <1>11, <1>12, <1>13 DEF chunk

\* The chunk is what the file has there.
LEMMA FetchFileReadFits ==
    ASSUME TypeOK, ChunksInPlace, NEW r \in Rpc, CallFits(r), FetchFits(r), FetchFileRead(r)
    PROVE  CallFits(r)' /\ FetchFits(r)' /\ StoreFits(r)' /\ AnswerFits(r)'
  <1> DEFINE m == call[r]
             n == call'[r]
  <1>0. PICK chunk : chunk = ChunkAt(inode[m.fd], m.pos)
    OBVIOUS
  <1>1. /\ InUse(r) /\ m \in CallState /\ m.rpc = "FetchFile" /\ m.at = "open"
        /\ m.file \in File /\ m.fd \in Inode
        /\ chunk # << >> /\ chunk \in Blocks /\ n \in CallState
        /\ n = [m EXCEPT !.at = IF Len(chunk) < Buffer THEN "eof" ELSE "open",
                         !.pos = m.pos + Len(chunk),
                         !.stream = Append(m.stream, chunk)]
        /\ Own(r) /\ UNCHANGED <<name, inode, local, broken, gone>>
    BY <1>0, FetchFileReadIs
  <1>2. /\ n.at = (IF Len(chunk) < Buffer THEN "eof" ELSE "open")
        /\ n.rpc = m.rpc /\ n.client = m.client /\ n.file = m.file /\ n.data = m.data
        /\ n.fd = m.fd /\ n.live = m.live /\ n.status = m.status /\ n.opened = m.opened
        /\ n.disturbed = m.disturbed
    BY <1>1 DEF CallState
  <1>3. /\ Written(r)' = Written(r) /\ Sent(r)' = Sent(r) + Len(chunk) /\ n.pos = Sent(r)'
        /\ FullChunks(r)'
        /\ \A p, b : Arrives(r, p, b)' =>
              \/ Arrives(r, p, b)
              \/ \E i \in 1..Len(chunk) : p = m.pos + i /\ b = chunk[i]
    BY <1>0, FetchFileReadArrives
  <1>4. /\ Written(r) \in Blocks /\ m.pos = Sent(r) /\ m.pos \in Nat /\ m.live /\ m.status = "none"
        /\ \A p, b : Arrives(r, p, b) => AtPlace(b, p)
        /\ ~m.disturbed => Copied(r)
    BY <1>1, FieldTypes DEF FetchFits, CallFits, Reads
  <1>5. PICK s \in Blocks : s = inode[m.fd] /\ Len(s) \in Nat
    BY <1>1, BlocksType DEF TypeOK
  <1>6. /\ Len(chunk) \in Nat /\ Len(chunk) <= Buffer /\ m.pos + Len(chunk) <= Len(s)
        /\ Len(chunk) # Buffer => m.pos + Len(chunk) = Len(s)
        /\ \A i \in 1..Len(chunk) : chunk[i] = s[m.pos + i] /\ m.pos + i \in 1..Len(s)
    <2>1. PICK pos \in Nat : pos = m.pos /\ chunk = ChunkAt(s, pos)
      BY <1>0, <1>4, <1>5
    <2> HIDE DEF m
    <2>2. /\ Len(chunk) \in Nat /\ Len(chunk) <= Buffer
          /\ chunk # << >> => pos + Len(chunk) <= Len(s)
          /\ chunk # << >> /\ Len(chunk) # Buffer => pos + Len(chunk) = Len(s)
          /\ \A i \in 1..Len(chunk) : chunk[i] = s[pos + i] /\ pos + i \in 1..Len(s)
      BY <2>1, ChunkAtIs
    <2> QED BY <1>1, <2>1, <2>2
  <1> HIDE DEF n
  <1>7. CallFits(r)'
    BY <1>1, <1>2, <1>4, FieldTypes DEF CallFits, n
  <1>8. \A p, b : Arrives(r, p, b)' => AtPlace(b, p)
    <2>1. \A p \in 1..Len(s) : AtPlace(s[p], p)
      BY <1>1, <1>5 DEF ChunksInPlace, InPlace, AtPlace
    <2>2. ASSUME NEW i \in 1..Len(chunk) PROVE AtPlace(chunk[i], m.pos + i)
      BY <1>6, <2>1
    <2> QED BY <1>3, <1>4, <2>2
  <1>9. n.disturbed \/ Copied(r)'
    <2> SUFFICES ASSUME ~m.disturbed PROVE Copied(r)'
      BY <1>2
    <2>1. Copied(r)
      BY <1>4
    <2>2. PICK i : i = name[m.file]
      OBVIOUS
    <2>3. /\ i # Absent /\ ~BeingStored(i) /\ m.fd = i
          /\ \A p, b : Arrives(r, p, b) => p \in 1..Len(s) /\ b = s[p]
      BY <1>1, <1>5, <2>1, <2>2 DEF Copied
    <2>4. Others(r) /\ (Stores(r, i)' => Stores(r, i))
      BY <1>1, <1>2 DEF Own, Others, Stores, At, n
    <2>5. ~BeingStored(i)'
      BY <2>3, <2>4, StoredBefore
    <2>6. name'[call'[r].file] = i /\ call'[r].fd = i /\ inode'[i] = s
      BY <1>1, <1>2, <1>5, <2>2, <2>3 DEF n
    <2>7. ~BeingStored(name[call[r].file])'
      BY <2>5, <2>6 DEF BeingStored
    <2>8. Sent(r)' <= Len(s) /\ (call'[r].at # "open" => Sent(r)' = Len(s))
      BY <1>2, <1>3, <1>4, <1>6, TransferConstants DEF n
    <2>9. \A p, b : Arrives(r, p, b)' => p \in 1..Len(s) /\ b = s[p]
      BY <1>3, <1>6, <2>3
    <2> QED BY <2>3, <2>6, <2>7, <2>8, <2>9 DEF Copied
  <1>10. FetchFits(r)'
    BY <1>2, <1>3, <1>4, <1>8, <1>9 DEF FetchFits, n
  <1> QED BY <1>1, <1>2, <1>7, <1>10 DEF StoreFits, AnswerFits, n

\* What arrives does not depend on who has it: the client has taken a chunk.
LEMMA FetchReadArrives ==
    ASSUME TypeOK, NEW r \in Rpc, CallFits(r), FetchFits(r), FetchRead(r)
    PROVE  /\ Written(r)' \in Blocks /\ Sent(r)' = Sent(r) /\ FullChunks(r)'
           /\ \A p, b : Arrives(r, p, b)' => Arrives(r, p, b)
  <1> DEFINE m == call[r]
  <1>1. InUse(r) /\ m.rpc = "FetchFile"
    BY DEF FetchRead, CallFits
  <1>2. Written(r) \in Blocks /\ FullChunks(r)
    BY <1>1 DEF FetchFits
  <1>3. /\ m \in CallState /\ m.rpc = "FetchFile" /\ m.opened
        /\ m.client \in Client /\ m.file \in File /\ m.stream # << >>
        /\ Head(m.stream) \in Blocks /\ Tail(m.stream) \in Seq(Blocks)
        /\ local'[m.client][m.file] = local[m.client][m.file] \o Head(m.stream)
        /\ call'[r] \in CallState /\ call'[r] = [m EXCEPT !.stream = Tail(m.stream)]
    BY <1>2, FetchReadIs
  <1>4. /\ call'[r].stream = Tail(m.stream) /\ call'[r].at = m.at
        /\ call'[r].client = m.client /\ call'[r].file = m.file /\ call'[r].opened = m.opened
    BY <1>3 DEF CallState
  <1>5. PICK w, l, n, h : w = Written(r) /\ l = Len(w) /\ n = Len(m.stream) /\ h = Head(m.stream)
    OBVIOUS
  <1>6. /\ w \in Blocks /\ h \in Blocks /\ l \in Nat /\ Len(h) \in Nat /\ n \in Nat \ {0} /\ Buffer \in Nat
        /\ h = m.stream[1] /\ m.stream \in Seq(Blocks)
    <2>1. w \in Blocks /\ h \in Blocks /\ m.stream \in Seq(Blocks)
      BY <1>2, <1>3, <1>5, FieldTypes
    <2>2. l \in Nat /\ Len(h) \in Nat /\ Buffer \in Nat
      BY <1>5, <2>1, BlocksType, TransferConstants
    <2>3. n \in Nat \ {0}
      BY <1>1, <1>2, <1>3, <1>5, FetchTypes
    <2>4. h = m.stream[1]
      BY <1>5
    <2> QED BY <2>1, <2>2, <2>3, <2>4
  <1>7. /\ Len(Tail(m.stream)) = n - 1
        /\ \A k \in 1..(n - 1) : Tail(m.stream)[k] = m.stream[k + 1]
    <2> HIDE DEF m
    <2>1. PICK s \in Seq(Blocks) : s = m.stream
      BY <1>6
    <2>2. /\ Len(Tail(s)) = Len(s) - 1
          /\ \A k \in 1..Len(Tail(s)) : Tail(s)[k] = s[k + 1]
      <3>1. s # << >>
        BY <1>3, <2>1
      <3> QED BY ONLY <3>1, HeadTailProperties, s \in Seq(Blocks)
    <2> QED BY <1>5, <2>1, <2>2
  <1>8. Written(r)' = w \o h
    BY <1>3, <1>4, <1>5 DEF Written
  <1>9. /\ w \o h \in Blocks /\ Len(w \o h) = l + Len(h)
        /\ \A i \in 1..(l + Len(h)) : (w \o h)[i] = IF i <= l THEN w[i] ELSE h[i - l]
    BY <1>5, <1>6, ConcatProperties DEF Blocks
  <1>10. /\ \A k : OnTheWay(r, k) = l + (k - 1) * Buffer
         /\ \A k : OnTheWay(r, k)' = l + Len(h) + (k - 1) * Buffer
    BY <1>5, <1>8, <1>9 DEF OnTheWay
  <1>11. OnTheWay(r, 1) = l
    BY <1>6, <1>10
  <1>12. \A k \in 1..(n - 1) : OnTheWay(r, k)' = OnTheWay(r, k + 1)
    <2> TAKE k \in 1..(n - 1)
    <2>1. Len(h) = Buffer
      BY <1>2, <1>5, <1>6 DEF FullChunks
    <2>2. k \in Nat
      OBVIOUS
    <2>3. l + Buffer + (k - 1) * Buffer = l + (k + 1 - 1) * Buffer
      BY <1>6, <2>2, OnTheWayIs
    <2> QED BY <1>10, <2>1, <2>3
  <1>13. Sent(r)' = Sent(r)
    <2>1. CASE n = 1
      <3>1. Sent(r) = l + Len(h)
        BY <1>5, <1>6, <1>11, <2>1 DEF Sent
      <3>2. Sent(r)' = Len(w \o h)
        BY <1>4, <1>7, <1>8, <2>1 DEF Sent
      <3> QED BY <1>9, <3>1, <3>2
    <2>2. CASE n # 1
      <3>1. n - 1 \in 1..(n - 1) /\ n - 1 # 0 /\ n # 0 /\ n - 1 + 1 = n
        BY <1>6, <2>2
      <3>2. PICK k : k = n - 1
        OBVIOUS
      <3>3. Len(call'[r].stream) = k /\ k # 0
        BY <1>4, <1>7, <3>1, <3>2
      <3>4. Sent(r)' = OnTheWay(r, Len(call[r].stream))' + Len(call'[r].stream[k])
        BY <3>3 DEF Sent
      <3>5. OnTheWay(r, Len(call[r].stream))' = OnTheWay(r, k)'
        BY <3>3 DEF OnTheWay
      <3>6. Sent(r) = OnTheWay(r, n) + Len(m.stream[n])
        BY <1>5, <3>1 DEF Sent
      <3>7. OnTheWay(r, k)' = OnTheWay(r, n) /\ call'[r].stream[k] = m.stream[n]
        BY <1>4, <1>7, <1>12, <3>1, <3>2
      <3> QED BY <3>4, <3>5, <3>6, <3>7
    <2> QED BY <2>1, <2>2
  <1>14. FullChunks(r)'
    <2> SUFFICES ASSUME NEW k \in 1..(n - 1), k < n - 1 \/ m.at = "open"
                 PROVE  Len(call'[r].stream[k]) = Buffer
      BY <1>4, <1>7 DEF FullChunks
    <2>1. k + 1 \in 1..n /\ (k + 1 < n \/ m.at = "open")
      BY <1>6
    <2>2. Len(m.stream[k + 1]) = Buffer
      BY <1>2, <1>5, <2>1 DEF FullChunks
    <2> QED BY <1>4, <1>7, <2>2
  <1>15. ASSUME NEW p, NEW b, Arrives(r, p, b)'
         PROVE  Arrives(r, p, b)
    <2>1. \/ p \in 1..Len(w \o h) /\ b = (w \o h)[p]
          \/ \E k \in 1..(n - 1) : \E i \in 1..Len(call'[r].stream[k]) :
                  p = OnTheWay(r, k)' + i /\ b = call'[r].stream[k][i]
      BY <1>4, <1>7, <1>8, <1>10, <1>15 DEF Arrives, OnTheWay
    <2>2. CASE p \in 1..Len(w \o h) /\ b = (w \o h)[p]
      <3>1. CASE p <= l
        <4>1. p \in 1..l /\ b = w[p]
          BY <1>6, <1>9, <2>2, <3>1, SMTT(30)
        <4> QED BY <1>5, <4>1 DEF Arrives
      <3>2. CASE ~(p <= l)
        <4>1. p - l \in 1..Len(h) /\ p = l + (p - l) /\ b = h[p - l]
          <5>1. l \in Nat /\ Len(h) \in Nat
            BY <1>6
          <5>2. p \in 1..(l + Len(h)) /\ b = (w \o h)[p]
            BY <1>9, <2>2
          <5>3. p \in Nat /\ p - l \in 1..Len(h) /\ p = l + (p - l)
            BY <3>2, <5>1, <5>2
          <5>4. b = h[p - l]
            BY <1>9, <3>2, <5>2
          <5> QED BY <5>3, <5>4
        <4>2. PICK i \in 1..Len(h) : p = l + i /\ b = h[i]
          BY <4>1
        <4>3. 1 \in 1..n
          BY <1>6
        <4> QED BY <1>5, <1>6, <1>11, <4>2, <4>3 DEF Arrives
      <3> QED BY <3>1, <3>2
    <2>3. CASE \E k \in 1..(n - 1) : \E i \in 1..Len(call'[r].stream[k]) :
                  p = OnTheWay(r, k)' + i /\ b = call'[r].stream[k][i]
      <3>1. PICK k \in 1..(n - 1) : \E i \in 1..Len(call'[r].stream[k]) :
                  p = OnTheWay(r, k)' + i /\ b = call'[r].stream[k][i]
        BY <2>3
      <3>2. call'[r].stream[k] = m.stream[k + 1] /\ k + 1 \in 1..n /\ OnTheWay(r, k)' = OnTheWay(r, k + 1)
        BY <1>4, <1>6, <1>7, <1>12
      <3>3. PICK j \in 1..n : \E i \in 1..Len(m.stream[j]) : p = OnTheWay(r, j) + i /\ b = m.stream[j][i]
        BY <3>1, <3>2
      <3> QED BY <1>5, <3>3 DEF Arrives
    <2> QED BY <2>1, <2>2, <2>3
  <1> QED BY <1>8, <1>9, <1>13, <1>14, <1>15

\* A copy stays one while the server's files stay as they are.
LEMMA CopiedKept ==
    ASSUME TypeOK, NEW r \in Rpc, Copied(r), Calm(r),
           call[r].file \in File, call'[r].file = call[r].file, Sent(r)' = Sent(r),
           \A p, b : Arrives(r, p, b)' => Arrives(r, p, b),
           call'[r].at # "done" => call[r].at # "done" /\ call'[r].fd = call[r].fd,
           call'[r].at # "open" => call[r].at # "open" \/ Sent(r) = Len(inode[name[call[r].file]])
    PROVE  Copied(r)'
  <1>1. PICK i, s : i = name[call[r].file] /\ s = inode[i]
    OBVIOUS
  <1>2. i # Absent /\ ~BeingStored(i)
    BY <1>1 DEF Copied
  <1>3. name'[call'[r].file] = i /\ inode'[i] = s
    BY <1>1, <1>2 DEF Calm
  <1>4. i \in Inode
    BY <1>1, <1>2 DEF TypeOK
  <1>5. Others(r) /\ (Stores(r, i)' => Stores(r, i))
    BY <1>4 DEF Calm, Own, Others
  <1>6. ~BeingStored(i)'
    BY <1>2, <1>5, StoredBefore
  <1>7. ~BeingStored(name[call[r].file])'
    BY <1>3, <1>6 DEF BeingStored
  <1>8. /\ call[r].at # "done" => call[r].fd = i
        /\ \A p, b : Arrives(r, p, b) => p \in 1..Len(s) /\ b = s[p]
        /\ Sent(r) <= Len(s)
        /\ call[r].at # "open" => Sent(r) = Len(s)
    BY <1>1 DEF Copied
  <1> QED BY <1>1, <1>2, <1>3, <1>7, <1>8 DEF Copied

LEMMA FetchReadFits ==
    ASSUME TypeOK, NEW r \in Rpc, CallFits(r), FetchFits(r), FetchRead(r)
    PROVE  CallFits(r)' /\ FetchFits(r)' /\ StoreFits(r)' /\ AnswerFits(r)'
  <1> DEFINE m == call[r]
             n == call'[r]
  <1>1. InUse(r) /\ m.rpc = "FetchFile"
    BY DEF FetchRead, CallFits
  <1>2. Written(r) \in Blocks
    BY <1>1 DEF FetchFits
  <1>3. /\ m \in CallState /\ m.opened /\ m.file \in File /\ m.stream # << >>
        /\ n \in CallState /\ n = [m EXCEPT !.stream = Tail(m.stream)]
        /\ Own(r) /\ UNCHANGED <<name, inode, broken, gone>>
    BY <1>2, FetchReadIs
  <1>4. /\ n.at = m.at /\ n.rpc = m.rpc /\ n.client = m.client /\ n.file = m.file /\ n.data = m.data
        /\ n.fd = m.fd /\ n.pos = m.pos /\ n.live = m.live /\ n.status = m.status
        /\ n.opened = m.opened /\ n.disturbed = m.disturbed
    BY <1>3 DEF CallState
  <1> HIDE DEF n
  <1>5. m.at # "sent"
    BY <1>3 DEF CallFits
  <1>6. CallFits(r)'
    BY <1>1, <1>3, <1>4, <1>5 DEF CallFits, n
  <1>7. Calm(r)
    BY <1>1, <1>3, <1>4 DEF Calm, Stores, At, n
  <1>8. /\ Written(r)' \in Blocks /\ Sent(r)' = Sent(r) /\ FullChunks(r)'
        /\ \A p, b : Arrives(r, p, b)' => Arrives(r, p, b)
    BY FetchReadArrives
  <1>9. Copied(r) => Copied(r)'
    BY <1>3, <1>4, <1>7, <1>8, CopiedKept DEF n
  <1>10. FetchFits(r)'
    BY <1>1, <1>4, <1>8, <1>9 DEF FetchFits, n
  <1> QED BY <1>1, <1>4, <1>6, <1>10 DEF StoreFits, AnswerFits, n

LEMMA FetchOpenFits ==
    ASSUME TypeOK, NEW r \in Rpc, CallFits(r), FetchFits(r), FetchOpen(r)
    PROVE  CallFits(r)' /\ FetchFits(r)' /\ StoreFits(r)' /\ AnswerFits(r)'
  <1> DEFINE m == call[r]
             n == call'[r]
  <1>1. /\ InUse(r) /\ m.rpc = "FetchFile" /\ m \in CallState /\ ~m.opened /\ m.file \in File
        /\ m.client \in Client /\ local'[m.client][m.file] = << >>
        /\ n \in CallState /\ n = [m EXCEPT !.opened = TRUE]
        /\ Own(r) /\ UNCHANGED <<name, inode, broken, gone>>
    BY FetchOpenIs
  <1>2. /\ n.at = m.at /\ n.rpc = m.rpc /\ n.client = m.client /\ n.file = m.file /\ n.data = m.data
        /\ n.fd = m.fd /\ n.pos = m.pos /\ n.live = m.live /\ n.status = m.status
        /\ n.stream = m.stream /\ n.disturbed = m.disturbed
    BY <1>1 DEF CallState
  <1> HIDE DEF n
  <1>3. CallFits(r)'
    BY <1>1, <1>2 DEF CallFits, n
  <1>4. Calm(r)
    BY <1>1, <1>2 DEF Calm, Stores, At, n
  <1>5. Written(r)' = Written(r)
    <2>1. Written(r) = << >>
      BY <1>1 DEF Written
    <2>2. local'[call'[r].client][call'[r].file] = << >>
      BY <1>1, <1>2 DEF n
    <2> QED BY <2>1, <2>2 DEF Written
  <1>6. /\ Sent(r)' = Sent(r) /\ (FullChunks(r)' <=> FullChunks(r))
        /\ \A p, b : Arrives(r, p, b)' => Arrives(r, p, b)
    BY <1>2, <1>5 DEF Sent, OnTheWay, FullChunks, Arrives, n
  <1>7. Copied(r) => Copied(r)'
    BY <1>1, <1>2, <1>4, <1>6, CopiedKept DEF n
  <1>8. FetchFits(r)'
    BY <1>1, <1>2, <1>5, <1>6, <1>7 DEF FetchFits, n
  <1> QED BY <1>1, <1>2, <1>3, <1>8 DEF StoreFits, AnswerFits, n

-----------------------------------------------------------------------------
(* Handlers that return *)

\* A return is calm.
LEMMA ReclaimCalm ==
    ASSUME TypeOK, NEW r \in Rpc, Own(r), UNCHANGED name, Reclaim,
           \A i \in Inode : Stores(r, i)' => Stores(r, i)
    PROVE  Calm(r) /\ \A i \in Inode : inode'[i] = inode[i] \/ inode'[i] = << >>
  BY ReclaimType DEF Calm, TypeOK

LEMMA ReturnCalm ==
    ASSUME TypeOK, NEW r \in Rpc, InUse(r), NEW status \in {"OK", "NOT_FOUND", "CANCELLED"},
           Return(r, status)
    PROVE  Calm(r) /\ \A i \in Inode : inode'[i] = inode[i] \/ inode'[i] = << >>
  <1>1. /\ Own(r) /\ UNCHANGED name /\ Reclaim
        /\ call'[r] = Answered(call[r], status)
    BY ReturnIs DEF Return
  <1>2. call'[r].at # "open"
    <2>1. CASE call[r].live
      BY <1>1, <2>1, CallType, AnsweredIs
    <2>2. CASE ~call[r].live
      BY <1>1, <2>2, CallType, AnsweredIs DEF Unused
    <2> QED BY <2>1, <2>2
  <1> QED BY <1>1, <1>2, ReclaimCalm DEF Stores, At

\* What the handler promises with its answer.
LEMMA ReturnFits ==
    ASSUME TypeOK, NEW r \in Rpc, InUse(r), CallFits(r), FetchFits(r), StoreFits(r),
           NEW status \in {"OK", "NOT_FOUND", "CANCELLED"},
           Return(r, status), UNCHANGED local, InUse(r)',
           call[r].rpc = "FetchFile" /\ status # "OK" => call[r].at = "sent",
           call[r].rpc = "FetchFile" /\ status = "OK" =>
              /\ call[r].at \in {"open", "eof"}
              /\ ~call[r].disturbed => call[r].at # "open" \/ Sent(r) = Len(inode[name[call[r].file]]),
           call[r].rpc = "StoreFile" /\ status = "OK" /\ ~call[r].disturbed =>
              name[call[r].file] # Absent /\ inode[name[call[r].file]] = call[r].data,
           call[r].rpc = "ListFiles" /\ status = "OK" /\ ~call[r].disturbed =>
              /\ call[r].listing.listed = { f \in File : name[f] # Absent }
              /\ call[r].listing.gone = {},
           call[r].rpc # "GetFileStatus"
    PROVE  CallFits(r)' /\ FetchFits(r)' /\ StoreFits(r)' /\ AnswerFits(r)'
  <1> DEFINE m == call[r]
             n == call'[r]
  <1>1. m \in CallState /\ Calm(r) /\ n = Answered(m, status)
    BY CallType, ReturnIs, ReturnCalm
  <1>2. m.live
    BY <1>1, AnsweredIs DEF InUse, Unused
  <1>3. /\ n \in CallState /\ n.at = "done" /\ n.status = status
        /\ n.fd = Absent /\ n.listing.names = {}
        /\ n.listing.listed = m.listing.listed /\ n.listing.gone = m.listing.gone
        /\ n.rpc = m.rpc /\ n.client = m.client /\ n.file = m.file
        /\ n.data = m.data /\ n.stream = m.stream /\ n.live = m.live
        /\ n.opened = m.opened /\ n.disturbed = m.disturbed
    <2> HIDE DEF n
    <2>0. PICK w \in CallState : w = m
      BY <1>1
    <2>1. PICK a : a = Answered(w, status)
      OBVIOUS
    <2>2. /\ a \in CallState /\ a.at = "done" /\ a.status = status
          /\ a.fd = Absent /\ a.listing.names = {}
          /\ a.listing.listed = w.listing.listed /\ a.listing.gone = w.listing.gone
          /\ a.rpc = w.rpc /\ a.client = w.client /\ a.file = w.file
          /\ a.data = w.data /\ a.stream = w.stream /\ a.live = w.live
          /\ a.opened = w.opened /\ a.disturbed = w.disturbed
      <3>1. w.live
        BY <1>2, <2>0
      <3>2. LET x == Answered(w, status)
            IN  /\ ~w.live => x = Unused
                /\ w.live =>
                      /\ x \in CallState /\ x.at = "done" /\ x.status = status
                      /\ x.fd = Absent /\ x.pos = 0 /\ x.listing.names = {}
                      /\ x.listing.listed = w.listing.listed /\ x.listing.gone = w.listing.gone
                      /\ x.rpc = w.rpc /\ x.client = w.client /\ x.file = w.file
                      /\ x.data = w.data /\ x.stream = w.stream /\ x.live = w.live
                      /\ x.opened = w.opened /\ x.disturbed = w.disturbed /\ x.size = w.size
        BY ONLY AnsweredIs, w \in CallState, status \in {"OK", "NOT_FOUND", "CANCELLED"}
      <3> QED BY ONLY <2>1, <3>1, <3>2
    <2> QED BY <1>1, <2>0, <2>1, <2>2
  <1> HIDE DEF n
  <1>4. CallFits(r)'
    BY <1>2, <1>3 DEF CallFits, n
  <1>5. FetchFits(r)'
    <2> SUFFICES ASSUME m.rpc = "FetchFile" PROVE FetchFits(r)'
      BY <1>3 DEF FetchFits, n
    <2>1. Written(r)' = Written(r)
      BY <1>3 DEF Written, n
    <2>2. /\ Sent(r)' = Sent(r) /\ (FullChunks(r) => FullChunks(r)')
          /\ \A p, b : Arrives(r, p, b)' => Arrives(r, p, b)
      BY <1>3, <2>1 DEF Sent, OnTheWay, FullChunks, Arrives, n
    <2>3. status = "OK" /\ ~m.disturbed => Copied(r)'
      <3> SUFFICES ASSUME status = "OK", ~m.disturbed PROVE Copied(r)'
        OBVIOUS
      <3>1. Copied(r) /\ m.file \in File
        BY <1>1, FieldTypes DEF FetchFits, CallFits
      <3> QED BY <1>1, <1>3, <2>2, <3>1, CopiedKept DEF n
    <2>4. status # "OK" => Sent(r) = 0
      BY DEF FetchFits
    <2> QED BY <1>3, <2>1, <2>2, <2>3, <2>4 DEF FetchFits, n
  <1>6. StoreFits(r)'
    <2> SUFFICES ASSUME m.rpc = "StoreFile" PROVE StoreFits(r)'
      BY <1>3 DEF StoreFits, n
    <2>1. m.file \in File
      BY <1>1, FieldTypes DEF CallFits
    <2>2. status = "OK" /\ ~m.disturbed => name'[n.file] # Absent /\ inode'[name'[n.file]] = n.data
      BY <1>1, <1>3, <2>1 DEF Calm
    <2>3. InPlace(n.data)
      BY <1>3 DEF StoreFits
    <2> QED BY <1>3, <2>2, <2>3 DEF StoreFits, InPlace, n
  <1>7. AnswerFits(r)'
    BY <1>1, <1>3 DEF AnswerFits, Calm, n
  <1> QED BY <1>4, <1>5, <1>6, <1>7

LEMMA FetchFileEndFits ==
    ASSUME TypeOK, NEW r \in Rpc, CallFits(r), FetchFits(r), StoreFits(r), FetchFileEnd(r), InUse(r)'
    PROVE  CallFits(r)' /\ FetchFits(r)' /\ StoreFits(r)' /\ AnswerFits(r)'
  <1> DEFINE m == call[r]
  <1>1. /\ InUse(r) /\ m.rpc = "FetchFile" /\ m.at \in {"open", "eof"}
        /\ Return(r, "OK") /\ UNCHANGED local
        /\ m.at = "open" => ChunkAt(inode[m.fd], m.pos) = << >>
    BY DEF FetchFileEnd, At
  <1>2. m.at = "open" /\ ~m.disturbed => Sent(r) = Len(inode[name[m.file]])
    <2> SUFFICES ASSUME m.at = "open", ~m.disturbed PROVE Sent(r) = Len(inode[name[m.file]])
      OBVIOUS
    <2>1. Copied(r) /\ m.pos = Sent(r) /\ m.pos \in Nat
      BY <1>1, CallType, FieldTypes DEF FetchFits
    <2>2. m.fd = name[m.file] /\ m.fd # Absent /\ Sent(r) <= Len(inode[m.fd])
      BY <2>1 DEF Copied
    <2>3. m.fd \in Inode
      BY <1>1, <2>2, CallType, FieldTypes
    <2>4. PICK w \in Blocks : w = inode[m.fd]
      BY <2>3 DEF TypeOK
    <2>5. PICK pos \in Nat : pos = m.pos
      BY <2>1
    <2>6. Len(w) <= pos /\ Len(w) \in Nat
      BY <1>1, <2>4, <2>5, ChunkAtIs, BlocksType
    <2> QED BY <2>1, <2>2, <2>4, <2>5, <2>6
  <1> QED BY <1>1, <1>2, ReturnFits

LEMMA StoreFileEndFits ==
    ASSUME TypeOK, NEW r \in Rpc, CallFits(r), FetchFits(r), StoreFits(r), StoreFileEnd(r), InUse(r)'
    PROVE  CallFits(r)' /\ FetchFits(r)' /\ StoreFits(r)' /\ AnswerFits(r)'
  <1> DEFINE m == call[r]
  <1>1. PICK status \in {"OK", "CANCELLED"} :
            /\ InUse(r) /\ m.rpc = "StoreFile" /\ UNCHANGED local
            /\ Return(r, status)
            /\ status = "OK" => m.at = "open" /\ name[m.file] # Absent
                                /\ (m.live => m.pos = Len(m.data))
    BY DEF StoreFileEnd, At
  <1>2. m.live
    <2>1. call'[r] = Answered(m, status) /\ m \in CallState
      BY <1>1, ReturnIs, CallType
    <2> QED BY <2>1, AnsweredIs DEF InUse, Unused
  <1>3. status = "OK" /\ ~m.disturbed => inode[name[m.file]] = m.data
    <2> SUFFICES ASSUME status = "OK", ~m.disturbed PROVE inode[name[m.file]] = m.data
      OBVIOUS
    <2>1. PICK i, w, d : i = name[m.file] /\ w = inode[i] /\ d = m.data
      OBVIOUS
    <2>2. Len(w) = Len(d) /\ \A p \in 1..Len(d) : w[p] = d[p]
      BY <1>1, <1>2, <2>1 DEF StoreFits
    <2>3. m.file \in File
      BY <1>1, CallType, FieldTypes DEF CallFits
    <2>4. w \in Blocks /\ d \in Blocks
      BY <1>1, <2>1, <2>3, CallType, FieldTypes DEF TypeOK
    <2> QED BY <2>1, <2>2, <2>4, SeqEqual DEF Blocks
  <1> QED BY <1>1, <1>3, ReturnFits

LEMMA ListFilesEndFits ==
    ASSUME TypeOK, NEW r \in Rpc, CallFits(r), FetchFits(r), StoreFits(r), AnswerFits(r),
           ListFilesEnd(r), InUse(r)'
    PROVE  CallFits(r)' /\ FetchFits(r)' /\ StoreFits(r)' /\ AnswerFits(r)'
  <1> DEFINE m == call[r]
             named == { f \in File : name[f] # Absent }
  <1>1. /\ InUse(r) /\ m.rpc = "ListFiles" /\ m.at = "scan"
        /\ Return(r, "OK") /\ UNCHANGED local
        /\ \A f \in m.listing.names : name[f] = Absent
    BY DEF ListFilesEnd, At
  <1>2. ~m.disturbed => m.listing.listed = named /\ m.listing.gone = {}
    BY <1>1 DEF AnswerFits
  <1> QED BY <1>1, <1>2, ReturnFits

\* A handler that could do nothing.
LEMMA FailureFits ==
    ASSUME TypeOK, NEW r \in Rpc, InUse(r), CallFits(r), FetchFits(r), StoreFits(r),
           NEW status \in {"NOT_FOUND", "CANCELLED"}, Return(r, status), UNCHANGED local,
           call[r].at = "sent", call[r].rpc # "GetFileStatus", InUse(r)'
    PROVE  CallFits(r)' /\ FetchFits(r)' /\ StoreFits(r)' /\ AnswerFits(r)'
  BY ReturnFits

-----------------------------------------------------------------------------
(* The other operations *)

LEMMA GetFileStatusFits ==
    ASSUME TypeOK, NEW r \in Rpc, CallFits(r), GetFileStatus(r)
    PROVE  CallFits(r)' /\ FetchFits(r)' /\ StoreFits(r)' /\ AnswerFits(r)'
  <1> DEFINE m == call[r]
             n == call'[r]
  <1>1. /\ m \in CallState /\ m.rpc = "GetFileStatus" /\ m.at = "sent" /\ m.file \in File
        /\ m.live /\ n \in CallState /\ n.at = "done" /\ n.status # "none"
        /\ n.rpc = m.rpc /\ n.client = m.client /\ n.file = m.file /\ n.live
        /\ n.stream = m.stream /\ n.opened = m.opened
        /\ n.status = "OK" => name[m.file] # Absent /\ n.size = Len(inode[name[m.file]])
        /\ UNCHANGED <<name, inode, local, broken, gone>>
    BY GetFileStatusIs
  <1> QED BY <1>1 DEF CallFits, FetchFits, StoreFits, AnswerFits

LEMMA ListFilesOpenFits ==
    ASSUME TypeOK, NEW r \in Rpc, CallFits(r), ListFilesOpen(r), ~Return(r, "CANCELLED")
    PROVE  CallFits(r)' /\ FetchFits(r)' /\ StoreFits(r)' /\ AnswerFits(r)'
  <1> DEFINE m == call[r]
             n == call'[r]
  <1>1. /\ m \in CallState /\ m.rpc = "ListFiles" /\ m.at = "sent"
        /\ n \in CallState /\ n.at = "scan"
        /\ n.rpc = m.rpc /\ n.client = m.client /\ n.file = m.file /\ n.live = m.live
        /\ n.stream = m.stream /\ n.opened = m.opened /\ n.status = m.status
        /\ n.listing.names = { f \in File : name[f] # Absent }
        /\ n.listing.listed = m.listing.listed /\ n.listing.gone = m.listing.gone
        /\ UNCHANGED <<name, inode, local, broken, gone>>
    BY ListFilesOpenIs
  <1>2. n.listing.listed = {} /\ n.listing.gone = {}
    BY <1>1 DEF CallFits, NoListing
  <1> QED BY <1>1, <1>2 DEF CallFits, FetchFits, StoreFits, AnswerFits

LEMMA ListFilesReadFits ==
    ASSUME TypeOK, NEW r \in Rpc, CallFits(r), AnswerFits(r), ListFilesRead(r)
    PROVE  CallFits(r)' /\ FetchFits(r)' /\ StoreFits(r)' /\ AnswerFits(r)'
  <1> DEFINE m == call[r]
             n == call'[r]
  <1>1. /\ m \in CallState /\ m.rpc = "ListFiles" /\ m.at = "scan"
        /\ n \in CallState /\ n.at = "scan"
        /\ n.rpc = m.rpc /\ n.client = m.client /\ n.file = m.file /\ n.live = m.live
        /\ n.stream = m.stream /\ n.opened = m.opened /\ n.status = m.status
        /\ n.disturbed = m.disturbed
        /\ \E f \in File :
              /\ f \in m.listing.names \/ name[f] # Absent
              /\ n.listing.names = m.listing.names \ {f}
              /\ n.listing.listed = m.listing.listed \cup {f}
              /\ n.listing.gone = IF name[f] = Absent THEN m.listing.gone \cup {f}
                                  ELSE m.listing.gone
        /\ UNCHANGED <<name, inode, local, broken, gone>>
    BY ListFilesReadIs
  <1>2. CallFits(r)'
    BY <1>1 DEF CallFits
  <1>3. ~m.disturbed => /\ n.listing.names \cup n.listing.listed = { f \in File : name[f] # Absent }
                        /\ n.listing.gone = {}
    BY <1>1 DEF AnswerFits
  <1> QED BY <1>1, <1>2, <1>3 DEF FetchFits, StoreFits, AnswerFits

LEMMA DeleteFileFits ==
    ASSUME TypeOK, NEW r \in Rpc, CallFits(r), DeleteFile(r),
           ~Return(r, "NOT_FOUND"), ~Return(r, "CANCELLED"), InUse(r)'
    PROVE  CallFits(r)' /\ FetchFits(r)' /\ StoreFits(r)' /\ AnswerFits(r)'
  <1> DEFINE m == call[r]
             n == call'[r]
  <1>1. /\ m \in CallState /\ m.rpc = "DeleteFile" /\ m.at = "sent" /\ m.file \in File
        /\ n = Answered(m, "OK")
    BY DeleteFileIs
  <1>2. m.live
    BY <1>1, AnsweredIs DEF InUse, Unused
  <1>3. /\ n \in CallState /\ n.at = "done" /\ n.status = "OK"
        /\ n.rpc = m.rpc /\ n.file = m.file /\ n.stream = m.stream /\ n.live = m.live
        /\ n.opened = m.opened
    <2>1. PICK w \in CallState : w = m
      BY <1>1
    <2>2. LET a == Answered(w, "OK")
          IN  /\ a \in CallState /\ a.at = "done" /\ a.status = "OK"
              /\ a.rpc = w.rpc /\ a.file = w.file /\ a.stream = w.stream /\ a.live = w.live
              /\ a.opened = w.opened
      BY <1>2, <2>1, AnsweredIs
    <2> QED BY <1>1, <2>1, <2>2
  <1> HIDE DEF n
  <1> QED BY <1>1, <1>2, <1>3 DEF CallFits, FetchFits, StoreFits, AnswerFits, n

\* A call that is new promises nothing yet.
LEMMA RequestFits ==
    ASSUME TypeOK, NEW r \in Rpc, NEW c \in Client, NEW f \in File \cup {Directory}, NEW data \in Blocks,
           NEW rpc \in {"StoreFile", "FetchFile", "DeleteFile", "GetFileStatus", "ListFiles"},
           rpc = "ListFiles" <=> f = Directory, rpc = "StoreFile" => InPlace(data),
           call'[r] = Request(rpc, c, f, data)
    PROVE  CallFits(r)' /\ FetchFits(r)' /\ StoreFits(r)' /\ AnswerFits(r)'
  <1> DEFINE n == call'[r]
  <1>1. /\ n.rpc = rpc /\ n.client = c /\ n.file = f /\ n.data = data /\ n.at = "sent"
        /\ n.pos = 0 /\ n.stream = << >> /\ n.live /\ n.status = "none" /\ ~n.opened
        /\ n.listing = NoListing
    BY DEF Request
  <1> HIDE DEF n
  <1>2. CallFits(r)'
    BY <1>1 DEF CallFits, n
  <1>3. FetchFits(r)'
    <2>1. Written(r)' = << >>
      BY <1>1 DEF Written, n
    <2>2. Sent(r)' = 0 /\ FullChunks(r)' /\ \A p, b : ~Arrives(r, p, b)'
      BY <1>1, <2>1 DEF Sent, FullChunks, Arrives, n
    <2> QED BY <1>1, <2>1, <2>2, BlocksType DEF FetchFits, n
  <1>4. StoreFits(r)'
    BY <1>1 DEF StoreFits, InPlace, n
  <1>5. AnswerFits(r)'
    BY <1>1 DEF AnswerFits, n
  <1> QED BY <1>2, <1>3, <1>4, <1>5

LEMMA LeaveFits ==
    ASSUME TypeOK, NEW r \in Rpc, InUse(r), CallFits(r), StoreFits(r), Leave(r),
           gone' \in 0..MaxGone, InUse(r)'
    PROVE  CallFits(r)' /\ FetchFits(r)' /\ StoreFits(r)' /\ AnswerFits(r)'
  <1> DEFINE m == call[r]
             n == call'[r]
  <1>1. /\ m \in CallState
        /\ m.rpc \in {"StoreFile", "DeleteFile"} /\ m.at # "done"
        /\ n = [m EXCEPT !.live = FALSE, !.disturbed = FALSE]
        /\ broken \subseteq broken'
        /\ m.rpc = "StoreFile" /\ ~Finished(r) => m.file \in broken'
    <2>1. n # Unused
      BY DEF InUse, Unused
    <2> HIDE DEF n
    <2> QED BY <2>1, LeaveIs DEF n
  <1>2. /\ n.rpc = m.rpc /\ n.client = m.client /\ n.file = m.file /\ n.data = m.data
        /\ n.at = m.at /\ n.pos = m.pos /\ n.stream = m.stream /\ ~n.live /\ n.status = m.status
        /\ n.opened = m.opened /\ n.listing = m.listing
    BY <1>1 DEF CallState
  <1>3. ~Finished(r)
    BY <1>1 DEF Finished
  <1> HIDE DEF n
  <1>4. CallFits(r)'
    BY <1>1, <1>2, <1>3 DEF CallFits, Reads, n
  <1>5. n.status = "none"
    BY <1>1, <1>2 DEF CallFits
  <1>6. InPlace(m.data) \/ m.rpc = "DeleteFile"
    BY <1>1 DEF StoreFits
  <1> QED BY <1>1, <1>2, <1>4, <1>5, <1>6 DEF FetchFits, StoreFits, AnswerFits, InPlace, n

-----------------------------------------------------------------------------
(* A step keeps the invariant *)

\* What a step of a call never changes of it.
SameCall(r) ==
    InUse(r)' =>
        LET m == call[r]
            n == call'[r]
        IN  /\ n.rpc = m.rpc /\ n.client = m.client /\ n.file = m.file /\ n.data = m.data
            /\ n.live => m.live
            /\ m.opened => n.opened

\* What can be stored is in place and, if nothing was broken off, whole.
LocalFits ==
    \A c \in Client, f \in File :
        /\ local[c][f] # Absent => InPlace(local[c][f])
        /\ f \notin broken /\ ~Fetching(c, f) => local[c][f] \in {Absent, << >>} \/ Whole(local[c][f])

\* Fetching is for calls in use.
LEMMA FetchingKept ==
    ASSUME TypeOK, NEW r \in Rpc, Others(r), InUse(r), SameCall(r), NEW c, NEW f, Fetching(c, f)
    PROVE  \/ Fetching(c, f)'
           \/ /\ ~InUse(r)' /\ call[r].rpc = "FetchFile" /\ call[r].opened
              /\ call[r].client = c /\ call[r].file = f
  <1>1. PICK q \in Rpc : /\ InUse(q) /\ call[q].rpc = "FetchFile" /\ call[q].opened
                         /\ call[q].client = c /\ call[q].file = f
    BY DEF Fetching
  <1>2. CASE q # r
    <2>1. /\ InUse(q)' /\ call'[q].rpc = "FetchFile" /\ call'[q].opened
          /\ call'[q].client = c /\ call'[q].file = f
      BY <1>1, <1>2, OtherCall
    <2> QED BY <2>1 DEF Fetching
  <1>3. CASE q = r
    BY <1>1, <1>3 DEF SameCall, Fetching
  <1> QED BY <1>2, <1>3

\* A step that does not write to a mount keeps what is there.
LEMMA LocalKept ==
    ASSUME TypeOK, ChunksInPlace, CopiesFit, NEW r \in Rpc, Others(r), InUse(r), SameCall(r),
           broken \subseteq broken', UNCHANGED local,
           ~InUse(r)' /\ call[r].rpc = "FetchFile" /\ call[r].opened /\ call[r].file \notin broken' =>
              LET s == local[call[r].client][call[r].file]
              IN  s \in {Absent, << >>} \/ Whole(s)
    PROVE  LocalFits'
  <1> SUFFICES ASSUME NEW c \in Client, NEW f \in File
               PROVE  /\ local[c][f] # Absent => InPlace(local[c][f])
                      /\ f \notin broken' /\ ~Fetching(c, f)' =>
                            local[c][f] \in {Absent, << >>} \/ Whole(local[c][f])
    BY DEF LocalFits, InPlace, Whole, Filled
  <1>1. local[c][f] # Absent => InPlace(local[c][f])
    BY DEF ChunksInPlace
  <1>2. ASSUME f \notin broken', ~Fetching(c, f)'
        PROVE  local[c][f] \in {Absent, << >>} \/ Whole(local[c][f])
    <2>1. CASE Fetching(c, f)
      BY <1>2, <2>1, FetchingKept
    <2>2. CASE ~Fetching(c, f)
      BY <1>2, <2>2 DEF CopiesFit
    <2> QED BY <2>1, <2>2
  <1> QED BY <1>1, <1>2

\* The parts of the invariant that every step keeps alike.
LEMMA StepInv ==
    ASSUME Inv, TypeOK', NEW r \in Rpc, InUse(r), Others(r), SameCall(r), broken \subseteq broken',
           \A q \in Rpc \ {r} : InUse(q) => Spares(r, q),
           InUse(r)' => CallFits(r)' /\ FetchFits(r)' /\ StoreFits(r)' /\ AnswerFits(r)',
           \A i \in Inode : InPlace(inode'[i]),
           Names', MixFits', LocalFits'
    PROVE  Inv'
  <1>1. OneLive'
    BY OneLiveKept DEF Inv, SameCall
  <1>2. Calls'
    BY CallsKept DEF Inv
  <1>3. ChunksInPlace'
    BY DEF ChunksInPlace, LocalFits, InPlace
  <1>4. CopiesFit'
    <2>1. ASSUME NEW q \in Rpc, InUse(q)', call'[q].rpc = "StoreFile", call'[q].file \notin broken'
          PROVE  call'[q].data = << >> \/ Whole(call'[q].data)
      <3>1. /\ InUse(q) /\ call[q].rpc = "StoreFile" /\ call[q].file \notin broken
            /\ call'[q].data = call[q].data
        <4>1. CASE q = r
          BY <2>1, <4>1 DEF SameCall
        <4>2. CASE q # r
          BY <2>1, <4>2, OtherCall DEF Inv
        <4> QED BY <4>1, <4>2
      <3> QED BY <3>1 DEF Inv, CopiesFit
    <2>2. \A c \in Client, f \in File : f \notin broken' /\ ~Fetching(c, f)' =>
              local'[c][f] \in {Absent, << >>} \/ Whole(local'[c][f])
      BY DEF LocalFits, Whole, Filled
    <2> QED BY <2>1, <2>2 DEF CopiesFit, Whole, Filled
  <1> QED BY <1>1, <1>2, <1>3, <1>4 DEF Inv

\* A step that renames no file, and opens none but the one of its name.
LEMMA NamesKept ==
    ASSUME TypeOK, Names, NEW r \in Rpc, Others(r), UNCHANGED name, InUse(r), SameCall(r),
           InUse(r)' => \/ call'[r].fd \in {call[r].fd, Absent}
                        \/ call[r].file \in File /\ call'[r].fd = name[call[r].file]
    PROVE  Names'
  <1>1. ASSUME NEW q \in Rpc, NEW f \in File, InUse(q)', call'[q].fd # Absent, name[f] = call'[q].fd
        PROVE  f = call'[q].file
    <2>1. CASE q # r
      <3>1. InUse(q) /\ call'[q].fd = call[q].fd /\ call'[q].file = call[q].file
        BY <1>1, <2>1, OtherCall
      <3> QED BY <1>1, <3>1 DEF Names
    <2>2. CASE q = r
      BY <1>1, <2>2 DEF Names, SameCall
    <2> QED BY <2>1, <2>2
  <1>2. \A f, g \in File : name[f] = name[g] /\ name[f] # Absent => f = g
    BY DEF Names
  <1> QED BY <1>1, <1>2 DEF Names

\* The calm steps.
LEMMA CalmInv ==
    ASSUME Inv, TypeOK', NEW r \in Rpc, InUse(r), Calm(r), SameCall(r), broken \subseteq broken',
           \A i \in Inode : inode'[i] = inode[i] \/ inode'[i] = << >>,
           InUse(r)' => CallFits(r)' /\ FetchFits(r)' /\ StoreFits(r)' /\ AnswerFits(r)',
           InUse(r)' => \/ call'[r].fd \in {call[r].fd, Absent}
                        \/ call[r].file \in File /\ call'[r].fd = name[call[r].file],
           \A q \in Rpc \ {r} : InUse(q) /\ call[q].rpc = "FetchFile" =>
              local'[call[q].client][call[q].file] = local[call[q].client][call[q].file],
           MixFits', LocalFits'
    PROVE  Inv'
  <1>1. Others(r) /\ \A f : SameFile(r, f)
    BY CalmSpares DEF Inv
  <1>2. \A q \in Rpc \ {r} : InUse(q) => Spares(r, q)
    BY <1>1 DEF Spares
  <1>3. \A i \in Inode : InPlace(inode'[i])
    <2> TAKE i \in Inode
    <2>1. InPlace(inode[i]) /\ InPlace(<< >>)
      BY DEF Inv, ChunksInPlace, InPlace
    <2> QED BY <2>1
  <1>4. Names'
    BY <1>1, NamesKept DEF Inv, Calm
  <1> QED BY <1>1, <1>2, <1>3, <1>4, StepInv

\* A call that stores nothing leaves no store.
LEMMA CalmMixKept ==
    ASSUME TypeOK, MixFits, NEW r \in Rpc, Calm(r), broken \subseteq broken',
           \A i \in Inode : ~Stores(r, i)
    PROVE  MixFits'
  <1>1. \A f \in File : name[f] # Absent => ~Stores(r, name[f])
    BY DEF TypeOK
  <1> QED BY <1>1, CalmMix

\* What holds of a call in use.
LEMMA CallFacts ==
    ASSUME Inv, NEW r \in Rpc, InUse(r)
    PROVE  /\ TypeOK /\ call[r] \in CallState
           /\ CallFits(r) /\ FetchFits(r) /\ StoreFits(r) /\ AnswerFits(r)
           /\ call[r].rpc \in {"StoreFile", "DeleteFile"} \/ call[r].live
           /\ call[r].rpc # "ListFiles" => call[r].file \in File
  <1>1. /\ TypeOK /\ CallFits(r) /\ FetchFits(r) /\ StoreFits(r) /\ AnswerFits(r)
    BY DEF Inv, Calls
  <1>2. call[r] \in CallState
    BY <1>1, CallType
  <1> QED BY <1>1, <1>2, FieldTypes DEF CallFits, Reads

\* Steps of one handler or client that write to no file.
LEMMA QuietInv ==
    ASSUME Inv, TypeOK', NEW r \in Rpc, InUse(r), InUse(r)', Own(r), SameCall(r),
           UNCHANGED <<name, inode, local, broken>>,
           CallFits(r)' /\ FetchFits(r)' /\ StoreFits(r)' /\ AnswerFits(r)',
           \/ call'[r].fd \in {call[r].fd, Absent}
           \/ call[r].file \in File /\ call'[r].fd = name[call[r].file],
           call[r].rpc # "StoreFile"
    PROVE  Inv'
  <1>1. TypeOK
    BY DEF Inv
  <1>2. \A i : ~Stores(r, i) /\ ~Stores(r, i)'
    BY DEF Stores, At, SameCall
  <1>3. Calm(r) /\ Others(r)
    BY <1>2 DEF Calm, Own, Others
  <1>4. MixFits'
    BY <1>1, <1>2, <1>3, CalmMixKept DEF Inv
  <1>5. LocalFits'
    BY <1>1, <1>3, LocalKept DEF Inv
  <1> QED BY <1>3, <1>4, <1>5, CalmInv

LEMMA ReturnInv ==
    ASSUME Inv, NEW r \in Rpc, InUse(r), NEW status \in {"OK", "NOT_FOUND", "CANCELLED"},
           Return(r, status), UNCHANGED <<local, broken, gone>>,
           InUse(r)' => CallFits(r)' /\ FetchFits(r)' /\ StoreFits(r)' /\ AnswerFits(r)',
           (\A i \in Inode : ~Stores(r, i)) \/ MixFits'
    PROVE  Inv'
  <1> DEFINE m == call[r]
             n == call'[r]
  <1>1. /\ TypeOK /\ m \in CallState
        /\ m.rpc \in {"StoreFile", "DeleteFile"} \/ m.live
    BY CallFacts
  <1>2. /\ Calm(r) /\ Others(r) /\ n = Answered(m, status)
        /\ \A i \in Inode : inode'[i] = inode[i] \/ inode'[i] = << >>
    BY <1>1, ReturnIs, ReturnCalm
  <1>3. PICK w \in CallState : w = m
    BY <1>1
  <1>4. /\ ~w.live => Answered(w, status) = Unused
        /\ w.live => LET a == Answered(w, status)
                     IN  /\ a.at = "done" /\ a.fd = Absent /\ a.rpc = w.rpc /\ a.client = w.client
                         /\ a.file = w.file /\ a.data = w.data /\ a.live = w.live /\ a.opened = w.opened
    BY AnsweredIs
  <1>5. m.live => InUse(r)'
    BY <1>2, <1>3, <1>4 DEF InUse
  <1>6. SameCall(r) /\ (InUse(r)' => n.fd = Absent)
    BY <1>2, <1>3, <1>4 DEF InUse, SameCall, Unused
  <1>7. TypeOK'
    BY <1>1, ReturnTypeOK
  <1>8. MixFits'
    BY <1>1, <1>2, CalmMixKept DEF Inv
  <1>9. LocalFits'
    BY <1>1, <1>2, <1>5, <1>6, LocalKept DEF Inv
  <1> HIDE DEF n
  <1> QED BY <1>2, <1>6, <1>7, <1>8, <1>9, CalmInv DEF n

LEMMA FetchFileOpenInv ==
    ASSUME Inv, NEW r \in Rpc, FetchFileOpen(r)
    PROVE  Inv'
  <1>1. /\ InUse(r) /\ call[r].rpc = "FetchFile" /\ call[r].at = "sent"
        /\ UNCHANGED <<local, broken, gone>>
    BY DEF FetchFileOpen, At
  <1>2. /\ TypeOK /\ CallFits(r) /\ FetchFits(r) /\ StoreFits(r)
    BY <1>1, CallFacts
  <1>3. CASE Return(r, "NOT_FOUND")
    <2>1. \A i \in Inode : ~Stores(r, i)
      BY <1>1 DEF Stores, At
    <2> QED BY <1>1, <1>2, <1>3, <2>1, FailureFits, ReturnInv
  <1>4. CASE ~Return(r, "NOT_FOUND")
    <2> DEFINE m == call[r]
               n == call'[r]
    <2>1. /\ m \in CallState /\ m.file \in File /\ n \in CallState
          /\ n = [m EXCEPT !.at = "open", !.fd = name[m.file], !.disturbed = BeingStored(name[m.file])]
          /\ Own(r) /\ TypeOK' /\ UNCHANGED <<name, inode, local, broken, gone>>
      BY <1>2, <1>4, FetchFileOpenIs
    <2>2. /\ n.at = "open" /\ n.rpc = m.rpc /\ n.client = m.client /\ n.file = m.file
          /\ n.data = m.data /\ n.live = m.live /\ n.opened = m.opened /\ n.fd = name[m.file]
      BY <2>1 DEF CallState
    <2> HIDE DEF n
    <2>3. SameCall(r) /\ InUse(r)'
      BY <2>2 DEF SameCall, InUse, n
    <2>4. CallFits(r)' /\ FetchFits(r)' /\ StoreFits(r)' /\ AnswerFits(r)'
      BY <1>2, <1>4, FetchFileOpenFits
    <2> QED BY <1>1, <2>1, <2>2, <2>3, <2>4, QuietInv DEF n
  <1> QED BY <1>3, <1>4

LEMMA FetchFileReadInv ==
    ASSUME Inv, NEW r \in Rpc, FetchFileRead(r)
    PROVE  Inv'
  <1> DEFINE m == call[r]
             n == call'[r]
  <1>1. InUse(r) /\ m.rpc = "FetchFile"
    BY DEF FetchFileRead, At
  <1>2. TypeOK /\ CallFits(r) /\ FetchFits(r)
    BY <1>1, CallFacts
  <1>3. PICK chunk : chunk = ChunkAt(inode[m.fd], m.pos)
    OBVIOUS
  <1>4. /\ m \in CallState /\ n \in CallState
        /\ n = [m EXCEPT !.at = IF Len(chunk) < Buffer THEN "eof" ELSE "open",
                         !.pos = m.pos + Len(chunk),
                         !.stream = Append(m.stream, chunk)]
        /\ Own(r) /\ TypeOK' /\ UNCHANGED <<name, inode, local, broken, gone>>
    BY <1>2, <1>3, FetchFileReadIs
  <1>5. /\ n.at # "unused" /\ n.rpc = m.rpc /\ n.client = m.client /\ n.file = m.file
        /\ n.data = m.data /\ n.live = m.live /\ n.opened = m.opened /\ n.fd = m.fd
    BY <1>4 DEF CallState
  <1> HIDE DEF n
  <1>6. SameCall(r) /\ InUse(r)'
    BY <1>5 DEF SameCall, InUse, n
  <1>7. CallFits(r)' /\ FetchFits(r)' /\ StoreFits(r)' /\ AnswerFits(r)'
    BY <1>2, FetchFileReadFits DEF Inv
  <1> QED BY <1>1, <1>4, <1>5, <1>6, <1>7, QuietInv DEF n

LEMMA FetchFileEndInv ==
    ASSUME Inv, NEW r \in Rpc, FetchFileEnd(r)
    PROVE  Inv'
  <1>1. /\ InUse(r) /\ call[r].rpc = "FetchFile" /\ Return(r, "OK")
        /\ UNCHANGED <<local, broken, gone>>
    BY DEF FetchFileEnd, At
  <1>2. TypeOK /\ CallFits(r) /\ FetchFits(r) /\ StoreFits(r)
    BY <1>1, CallFacts
  <1>3. \A i \in Inode : ~Stores(r, i)
    BY <1>1 DEF Stores, At
  <1> QED BY <1>1, <1>2, <1>3, FetchFileEndFits, ReturnInv

LEMMA GetFileStatusInv ==
    ASSUME Inv, NEW r \in Rpc, GetFileStatus(r)
    PROVE  Inv'
  <1> DEFINE m == call[r]
             n == call'[r]
  <1>1. InUse(r) /\ m.rpc = "GetFileStatus"
    BY DEF GetFileStatus, At
  <1>2. TypeOK /\ CallFits(r)
    BY <1>1, CallFacts
  <1>3. /\ n \in CallState /\ n.at = "done" /\ m.live
        /\ n.rpc = m.rpc /\ n.client = m.client /\ n.file = m.file
        /\ n.opened = m.opened /\ n.data = m.data
        /\ Own(r) /\ TypeOK' /\ UNCHANGED <<name, inode, local, broken, gone>>
    BY <1>2, GetFileStatusIs
  <1>4. InUse(r)' /\ SameCall(r) /\ n.fd = Absent
    <2>1. InUse(r)'
      BY <1>3 DEF InUse
    <2>2. SameCall(r)
      BY <1>3 DEF SameCall
    <2>3. n.fd = Absent
      BY <1>3, <2>1, CallType DEF TypeOK
    <2> QED BY <2>1, <2>2, <2>3
  <1>5. CallFits(r)' /\ FetchFits(r)' /\ StoreFits(r)' /\ AnswerFits(r)'
    BY <1>2, GetFileStatusFits
  <1> QED BY <1>1, <1>3, <1>4, <1>5, QuietInv

LEMMA ListFilesOpenInv ==
    ASSUME Inv, NEW r \in Rpc, ListFilesOpen(r)
    PROVE  Inv'
  <1>1. /\ InUse(r) /\ call[r].rpc = "ListFiles" /\ call[r].at = "sent"
        /\ UNCHANGED <<local, broken, gone>>
    BY DEF ListFilesOpen, At
  <1>2. /\ TypeOK /\ CallFits(r) /\ FetchFits(r) /\ StoreFits(r)
    BY <1>1, CallFacts
  <1>3. CASE Return(r, "CANCELLED")
    <2>1. \A i \in Inode : ~Stores(r, i)
      BY <1>1 DEF Stores, At
    <2> QED BY <1>1, <1>2, <1>3, <2>1, FailureFits, ReturnInv
  <1>4. CASE ~Return(r, "CANCELLED")
    <2> DEFINE m == call[r]
               n == call'[r]
    <2>1. /\ n \in CallState /\ n.at = "scan"
          /\ n.rpc = m.rpc /\ n.client = m.client /\ n.file = m.file /\ n.live = m.live
          /\ n.opened = m.opened /\ n.data = m.data
          /\ Own(r) /\ TypeOK' /\ UNCHANGED <<name, inode, local, broken, gone>>
      BY <1>2, <1>4, ListFilesOpenIs
    <2>2. InUse(r)' /\ SameCall(r) /\ n.fd = Absent
      <3>1. InUse(r)'
        BY <2>1 DEF InUse
      <3>2. SameCall(r)
        BY <2>1 DEF SameCall
      <3>3. n.fd = Absent
        BY <2>1, <3>1 DEF TypeOK
      <3> QED BY <3>1, <3>2, <3>3
    <2>3. CallFits(r)' /\ FetchFits(r)' /\ StoreFits(r)' /\ AnswerFits(r)'
      BY <1>2, <1>4, ListFilesOpenFits
    <2> QED BY <1>1, <2>1, <2>2, <2>3, QuietInv
  <1> QED BY <1>3, <1>4

LEMMA ListFilesReadInv ==
    ASSUME Inv, NEW r \in Rpc, ListFilesRead(r)
    PROVE  Inv'
  <1> DEFINE m == call[r]
             n == call'[r]
  <1>1. InUse(r) /\ m.rpc = "ListFiles"
    BY DEF ListFilesRead, At
  <1>2. TypeOK /\ CallFits(r) /\ AnswerFits(r)
    BY <1>1, CallFacts
  <1>3. /\ n \in CallState /\ n.at = "scan"
        /\ n.rpc = m.rpc /\ n.client = m.client /\ n.file = m.file /\ n.live = m.live
        /\ n.opened = m.opened /\ n.data = m.data
        /\ Own(r) /\ TypeOK' /\ UNCHANGED <<name, inode, local, broken, gone>>
    BY <1>2, ListFilesReadIs
  <1>4. InUse(r)' /\ SameCall(r) /\ n.fd = Absent
    <2>1. InUse(r)'
      BY <1>3 DEF InUse
    <2>2. SameCall(r)
      BY <1>3 DEF SameCall
    <2>3. n.fd = Absent
      BY <1>3, <2>1 DEF TypeOK
    <2> QED BY <2>1, <2>2, <2>3
  <1>5. CallFits(r)' /\ FetchFits(r)' /\ StoreFits(r)' /\ AnswerFits(r)'
    BY <1>2, ListFilesReadFits
  <1> QED BY <1>1, <1>3, <1>4, <1>5, QuietInv

LEMMA ListFilesEndInv ==
    ASSUME Inv, NEW r \in Rpc, ListFilesEnd(r)
    PROVE  Inv'
  <1>1. /\ InUse(r) /\ call[r].rpc = "ListFiles" /\ Return(r, "OK")
        /\ UNCHANGED <<local, broken, gone>>
    BY DEF ListFilesEnd, At
  <1>2. TypeOK /\ CallFits(r) /\ FetchFits(r) /\ StoreFits(r) /\ AnswerFits(r)
    BY <1>1, CallFacts
  <1>3. \A i \in Inode : ~Stores(r, i)
    BY <1>1 DEF Stores, At
  <1> QED BY <1>1, <1>2, <1>3, ListFilesEndFits, ReturnInv

LEMMA DropCallInv ==
    ASSUME Inv, NEW r \in Rpc, DropCall(r)
    PROVE  Inv'
  <1>1. /\ InUse(r) /\ ~call[r].live /\ call[r].at = "sent" /\ call'[r] = Unused
        /\ Own(r) /\ TypeOK' /\ UNCHANGED <<name, inode, local, broken, gone>>
    BY DropCallIs DEF Inv, DropCall
  <1>2. TypeOK /\ call[r].rpc # "FetchFile"
    BY <1>1, CallFacts
  <1>3. \A i : ~Stores(r, i) /\ ~Stores(r, i)'
    BY <1>1 DEF Stores, At, InUse, Unused
  <1>4. ~InUse(r)' /\ SameCall(r)
    BY <1>1 DEF InUse, Unused, SameCall
  <1>5. Calm(r) /\ Others(r)
    BY <1>1, <1>3 DEF Calm, Own, Others
  <1>6. MixFits' /\ LocalFits'
    BY <1>1, <1>2, <1>3, <1>4, <1>5, CalmMixKept, LocalKept DEF Inv
  <1> QED BY <1>1, <1>4, <1>5, <1>6, CalmInv

\* A store that is through has put its whole version there, if no other is on.
LEMMA StoreFileEndMix ==
    ASSUME Inv, NEW r \in Rpc, StoreFileEnd(r)
    PROVE  MixFits'
  <1> DEFINE m == call[r]
  <1>1. PICK status \in {"OK", "CANCELLED"} :
            /\ InUse(r) /\ m.rpc = "StoreFile" /\ UNCHANGED broken
            /\ Return(r, status)
            /\ m.at = "open" => m.pos = Len(m.data) \/ ~m.live
    BY DEF StoreFileEnd, At
  <1>2. TypeOK /\ CallFits(r) /\ m \in CallState /\ m.data \in Blocks
    BY <1>1, CallFacts, FieldTypes
  <1>3. Calm(r)
    BY <1>1, <1>2, ReturnCalm
  <1>4. ASSUME NEW f \in File, name[f] # Absent, f \notin broken, Stores(r, name[f])
        PROVE  LET s == inode[name[f]]
               IN  /\ m.pos = Len(s) => \E v \in Version : Len(s) = Size[v]
                   /\ (\A p \in 1..Least : p <= m.pos => p <= Len(s) /\ s[p] # Hole) => Filled(s)
    <2>1. m.at = "open" /\ m.fd = name[f]
      BY <1>4 DEF Stores, At
    <2>2. f = m.file
      BY <1>1, <1>4, <2>1 DEF Inv, Names
    <2>3. m.pos = Len(m.data) /\ m.data # << >>
      BY <1>1, <1>2, <1>4, <2>1, <2>2 DEF CallFits
    <2>4. Whole(m.data)
      BY <1>1, <1>4, <2>2, <2>3 DEF Inv, CopiesFit
    <2>5. \A p \in 1..Least : p <= m.pos
      BY <2>3, <2>4 DEF Whole, Filled
    <2> QED BY <2>3, <2>4, <2>5 DEF Whole, Filled
  <1> QED BY <1>1, <1>2, <1>3, <1>4, CalmMix DEF Inv

LEMMA StoreFileEndInv ==
    ASSUME Inv, NEW r \in Rpc, StoreFileEnd(r)
    PROVE  Inv'
  <1>1. PICK status \in {"OK", "CANCELLED"} :
            InUse(r) /\ Return(r, status) /\ UNCHANGED <<local, broken, gone>>
    BY DEF StoreFileEnd, At
  <1>2. TypeOK /\ CallFits(r) /\ FetchFits(r) /\ StoreFits(r)
    BY <1>1, CallFacts
  <1> QED BY <1>1, <1>2, StoreFileEndFits, StoreFileEndMix, ReturnInv

\* A fetch that has returned leaves a whole file or a broken one.
LEMMA FetchedIsWhole ==
    ASSUME Inv, NEW r \in Rpc, Finished(r), call[r].rpc = "FetchFile", ~call[r].disturbed,
           call[r].file \notin broken
    PROVE  LET s == local[call[r].client][call[r].file]
           IN  s = << >> \/ Whole(s)
  <1> DEFINE m == call[r]
  <1>1. /\ InUse(r) /\ m.at = "done" /\ m.opened /\ m.stream = << >>
    BY DEF Finished
  <1>2. /\ TypeOK /\ m \in CallState /\ CallFits(r) /\ FetchFits(r) /\ m.file \in File
    BY <1>1, CallFacts
  <1>3. PICK s : s = local[m.client][m.file]
    OBVIOUS
  <1>4. Written(r) = s /\ s \in Blocks /\ Sent(r) = Len(s)
    BY <1>1, <1>2, <1>3 DEF FetchFits, Written, Sent
  <1>5. CASE m.status = "OK"
    <2>1. Copied(r)
      BY <1>2, <1>5 DEF FetchFits
    <2>2. PICK i, w : i = name[m.file] /\ w = inode[i]
      OBVIOUS
    <2>3. /\ i # Absent /\ ~BeingStored(i) /\ Len(s) = Len(w)
          /\ \A p, b : Arrives(r, p, b) => p \in 1..Len(w) /\ b = w[p]
      BY <1>1, <1>4, <2>1, <2>2 DEF Copied
    <2>4. \A p \in 1..Len(s) : s[p] = w[p]
      <3> TAKE p \in 1..Len(s)
      <3>1. Arrives(r, p, s[p])
        BY <1>4 DEF Arrives
      <3> QED BY <2>3, <3>1
    <2>5. \A q \in Rpc : ~Stores(q, i)
      BY <2>3 DEF BeingStored, Stores
    <2>6. (\E v \in Version : Len(w) = Size[v]) /\ Filled(w)
      BY <1>2, <2>2, <2>3, <2>5 DEF Inv, MixFits, Mix
    <2>7. Len(s) \in Nat
      BY <1>4, BlocksType
    <2>8. Filled(s)
      <3> SUFFICES ASSUME NEW p \in 1..Least PROVE p <= Len(s) /\ s[p] # Hole
        BY DEF Filled
      <3>1. p <= Len(s) /\ w[p] # Hole
        BY <2>3, <2>6 DEF Filled
      <3>2. PICK v \in Version : Len(w) = Size[v]
        BY <2>6
      <3>3. p \in 1..Len(s)
        BY <2>7, <3>1, <3>2, LeastIs
      <3> QED BY <2>4, <3>1, <3>3
    <2> QED BY <1>3, <2>3, <2>6, <2>8 DEF Whole
  <1>6. CASE m.status # "OK"
    <2>1. m.status \in {"NOT_FOUND", "CANCELLED"}
      BY <1>1, <1>2, <1>6, FieldTypes DEF CallFits
    <2>2. Sent(r) = 0
      BY <1>2, <2>1 DEF FetchFits
    <2> QED BY <1>3, <1>4, <2>2, BlocksType
  <1> QED BY <1>5, <1>6

LEMMA LeaveInv ==
    ASSUME Inv, NEW r \in Rpc, InUse(r), Leave(r), gone' \in 0..MaxGone
    PROVE  Inv'
  <1> DEFINE m == call[r]
             n == call'[r]
  <1>1. /\ TypeOK /\ CallFits(r) /\ StoreFits(r)
        /\ m.rpc # "ListFiles" => m.file \in File
    BY CallFacts
  <1>2. /\ m \in CallState
        /\ \/ n = Unused
           \/ n = [m EXCEPT !.live = FALSE, !.disturbed = FALSE]
        /\ broken \subseteq broken'
        /\ m.rpc = "StoreFile" /\ ~Finished(r) => m.file \in broken'
        /\ m.rpc = "FetchFile" /\ (m.disturbed \/ ~Finished(r)) => m.file \in broken'
        /\ Own(r) /\ Reclaim /\ TypeOK' /\ UNCHANGED <<name, local>>
    BY <1>1, LeaveIs
  <1>3. \/ n = Unused
        \/ /\ n.rpc = m.rpc /\ n.client = m.client /\ n.file = m.file /\ n.data = m.data
           /\ n.at = m.at /\ n.fd = m.fd /\ ~n.live /\ n.opened = m.opened
    BY <1>2, ZenonT(60) DEF CallState
  <1> HIDE DEF n
  <1>4. SameCall(r) /\ (InUse(r)' => n.fd = m.fd)
    BY <1>3 DEF SameCall, InUse, Unused, n
  <1>5. \A i \in Inode : Stores(r, i)' => Stores(r, i)
    BY <1>3 DEF Stores, At, InUse, Unused, n
  <1>6. Calm(r) /\ Others(r) /\ \A i \in Inode : inode'[i] = inode[i] \/ inode'[i] = << >>
    BY <1>1, <1>2, <1>5, ReclaimCalm, CalmSpares
  <1>7. InUse(r)' => CallFits(r)' /\ FetchFits(r)' /\ StoreFits(r)' /\ AnswerFits(r)'
    BY <1>1, LeaveFits
  <1>8. MixFits'
    <2>1. ASSUME NEW f \in File, name[f] # Absent, f \notin broken', Stores(r, name[f])
          PROVE  FALSE
      <3>1. m.rpc = "StoreFile" /\ m.at = "open" /\ m.fd = name[f]
        BY <2>1 DEF Stores, At
      <3>2. f = m.file
        BY <2>1, <3>1 DEF Inv, Names
      <3>3. ~Finished(r)
        BY <3>1 DEF Finished
      <3> QED BY <1>2, <2>1, <3>1, <3>2, <3>3
    <2> QED BY <1>1, <1>2, <1>6, <2>1, CalmMix DEF Inv
  <1>9. LocalFits'
    <2>1. m.rpc = "FetchFile" /\ m.file \notin broken' =>
              LET s == local[m.client][m.file]
              IN  s \in {Absent, << >>} \/ Whole(s)
      BY <1>2, FetchedIsWhole
    <2> QED BY <1>1, <1>2, <1>4, <1>6, <2>1, LocalKept DEF Inv
  <1> QED BY <1>2, <1>4, <1>6, <1>7, <1>8, <1>9, CalmInv DEF n

\* Steps of a fetch that write to its own copy.
LEMMA FetchingInv ==
    ASSUME Inv, TypeOK', NEW r \in Rpc, InUse(r), InUse(r)', Own(r), SameCall(r),
           UNCHANGED <<name, inode, broken>>,
           call[r].rpc = "FetchFile", call[r].live, call'[r].opened, call'[r].fd = call[r].fd,
           CallFits(r)' /\ FetchFits(r)' /\ StoreFits(r)' /\ AnswerFits(r)',
           \A c \in Client, f \in File :
              (c = call[r].client /\ f = call[r].file) \/ local'[c][f] = local[c][f]
    PROVE  Inv'
  <1> DEFINE m == call[r]
             n == call'[r]
  <1>1. TypeOK
    BY DEF Inv
  <1>2. \A i : ~Stores(r, i) /\ ~Stores(r, i)'
    BY DEF Stores, At, SameCall
  <1>3. Calm(r) /\ Others(r)
    BY <1>2 DEF Calm, Own, Others
  <1>4. MixFits'
    BY <1>1, <1>2, <1>3, CalmMixKept DEF Inv
  <1>5. /\ n.rpc = "FetchFile" /\ n.client = m.client /\ n.file = m.file /\ n.data = m.data
    BY DEF SameCall
  <1>6. \A q \in Rpc \ {r} : InUse(q) /\ call[q].rpc = "FetchFile" =>
            local'[call[q].client][call[q].file] = local[call[q].client][call[q].file]
    <2> TAKE q \in Rpc \ {r}
    <2> SUFFICES ASSUME InUse(q), call[q].rpc = "FetchFile"
                 PROVE  local'[call[q].client][call[q].file] = local[call[q].client][call[q].file]
      OBVIOUS
    <2>1. call[q].live /\ call[q].client \in Client /\ call[q].file \in File
      BY CallFacts, FieldTypes
    <2>2. call[q].client # m.client
      BY <2>1 DEF Inv, OneLive
    <2> QED BY <2>1, <2>2
  <1>7. LocalFits'
    <2> SUFFICES ASSUME NEW c \in Client, NEW f \in File
                 PROVE  /\ local'[c][f] # Absent => InPlace(local'[c][f])
                        /\ f \notin broken' /\ ~Fetching(c, f)' =>
                              local'[c][f] \in {Absent, << >>} \/ Whole(local'[c][f])
      BY DEF LocalFits, InPlace, Whole, Filled
    <2>1. CASE c = m.client /\ f = m.file
      <3>1. Fetching(c, f)'
        BY <1>5, <2>1 DEF Fetching
      <3>2. PICK s : s = local'[c][f]
        OBVIOUS
      <3>3. Written(r)' = s
        BY <1>5, <2>1, <3>2 DEF Written
      <3>4. \A p \in 1..Len(s) : Arrives(r, p, s[p])'
        BY <3>3 DEF Arrives
      <3>5. \A p, b : Arrives(r, p, b)' => AtPlace(b, p)
        BY <1>5 DEF FetchFits
      <3>6. InPlace(s)
        BY <3>4, <3>5 DEF InPlace, AtPlace
      <3> QED BY <3>1, <3>2, <3>6
    <2>2. CASE ~(c = m.client /\ f = m.file)
      <3>1. local'[c][f] = local[c][f]
        BY <2>2
      <3>2. Fetching(c, f) => Fetching(c, f)'
        BY <1>1, <1>3, FetchingKept
      <3> QED BY <3>1, <3>2 DEF Inv, ChunksInPlace, CopiesFit
    <2> QED BY <2>1, <2>2
  <1> QED BY <1>3, <1>4, <1>6, <1>7, CalmInv

LEMMA FetchOpenInv ==
    ASSUME Inv, NEW r \in Rpc, FetchOpen(r)
    PROVE  Inv'
  <1> DEFINE m == call[r]
             n == call'[r]
  <1>1. InUse(r)
    BY DEF FetchOpen
  <1>2. TypeOK /\ CallFits(r) /\ FetchFits(r)
    BY <1>1, CallFacts
  <1>3. /\ m \in CallState /\ m.rpc = "FetchFile" /\ m.live
        /\ \A c \in Client, f \in File :
              (c = m.client /\ f = m.file) \/ local'[c][f] = local[c][f]
        /\ n \in CallState /\ n = [m EXCEPT !.opened = TRUE]
        /\ Own(r) /\ TypeOK' /\ UNCHANGED <<name, inode, broken, gone>>
    BY <1>2, FetchOpenIs
  <1>4. /\ n.at = m.at /\ n.rpc = m.rpc /\ n.client = m.client /\ n.file = m.file /\ n.data = m.data
        /\ n.live = m.live /\ n.opened /\ n.fd = m.fd
    BY <1>3 DEF CallState
  <1> HIDE DEF n
  <1>5. InUse(r)' /\ SameCall(r)
    BY <1>1, <1>4 DEF InUse, SameCall, n
  <1>6. CallFits(r)' /\ FetchFits(r)' /\ StoreFits(r)' /\ AnswerFits(r)'
    BY <1>2, FetchOpenFits
  <1> QED BY <1>1, <1>3, <1>4, <1>5, <1>6, FetchingInv DEF n

LEMMA FetchReadInv ==
    ASSUME Inv, NEW r \in Rpc, FetchRead(r)
    PROVE  Inv'
  <1> DEFINE m == call[r]
             n == call'[r]
  <1>1. InUse(r)
    BY DEF FetchRead
  <1>2. TypeOK /\ CallFits(r) /\ FetchFits(r)
    BY <1>1, CallFacts
  <1>3. Written(r) \in Blocks
    BY <1>2 DEF FetchFits, FetchRead, CallFits
  <1>4. /\ m \in CallState /\ m.rpc = "FetchFile" /\ m.live /\ m.opened
        /\ \A c \in Client, f \in File :
              (c = m.client /\ f = m.file) \/ local'[c][f] = local[c][f]
        /\ n \in CallState /\ n = [m EXCEPT !.stream = Tail(m.stream)]
        /\ Own(r) /\ TypeOK' /\ UNCHANGED <<name, inode, broken, gone>>
    BY <1>2, <1>3, FetchReadIs
  <1>5. /\ n.at = m.at /\ n.rpc = m.rpc /\ n.client = m.client /\ n.file = m.file /\ n.data = m.data
        /\ n.live = m.live /\ n.opened = m.opened /\ n.fd = m.fd
    BY <1>4 DEF CallState
  <1> HIDE DEF n
  <1>6. InUse(r)' /\ SameCall(r)
    BY <1>1, <1>5 DEF InUse, SameCall, n
  <1>7. CallFits(r)' /\ FetchFits(r)' /\ StoreFits(r)' /\ AnswerFits(r)'
    BY <1>2, FetchReadFits
  <1> QED BY <1>1, <1>4, <1>5, <1>6, <1>7, FetchingInv DEF n

-----------------------------------------------------------------------------
(* The handlers that change files *)

\* StoreFile writes the next blocks of its version to their places.
LEMMA NextChunk ==
    ASSUME NEW s \in Blocks, NEW d \in Blocks, NEW pos \in Nat, ChunkAt(d, pos) # << >>
    PROVE  LET w == WriteAt(s, pos, ChunkAt(d, pos))
               end == pos + Len(ChunkAt(d, pos))
           IN  /\ end \in Nat /\ pos < end /\ end <= Len(d)
               /\ w \in Blocks /\ Len(w) = IF Len(s) > end THEN Len(s) ELSE end
               /\ \A i \in 1..Len(w) :
                     w[i] = IF i \in (pos + 1)..end THEN d[i] ELSE IF i <= Len(s) THEN s[i] ELSE Hole
  <1>1. PICK c \in Blocks : c = ChunkAt(d, pos)
    BY ChunkAtIs
  <1>2. PICK end : end = pos + Len(c)
    OBVIOUS
  <1>3. /\ Len(c) \in Nat /\ Len(c) > 0 /\ pos + Len(c) <= Len(d)
        /\ \A i \in 1..Len(c) : c[i] = d[pos + i]
    BY <1>1, ChunkAtIs
  <1>4. end \in Nat /\ pos < end /\ end <= Len(d)
    BY <1>2, <1>3
  <1>5. PICK w : w = WriteAt(s, pos, c)
    OBVIOUS
  <1>6. /\ w \in Blocks /\ Len(w) = (IF Len(s) > end THEN Len(s) ELSE end)
        /\ \A i \in 1..Len(w) :
              w[i] = IF i \in (pos + 1)..end THEN c[i - pos] ELSE IF i <= Len(s) THEN s[i] ELSE Hole
    BY <1>2, <1>5, WriteAtIs
  <1>7. \A i \in (pos + 1)..end : c[i - pos] = d[i]
    <2> TAKE i \in (pos + 1)..end
    <2>1. PICK j \in 1..Len(c) : j = i - pos /\ pos + j = i
      BY <1>2, <1>3
    <2> QED BY <1>3, <2>1
  <1> QED BY <1>1, <1>2, <1>4, <1>5, <1>6, <1>7

\* The blocks stay in place, and what was filled stays filled, up to the end of the
\* chunk.
LEMMA NextChunkFills ==
    ASSUME NEW s \in Blocks, NEW d \in Blocks, NEW pos \in Nat, ChunkAt(d, pos) # << >>
    PROVE  LET w == WriteAt(s, pos, ChunkAt(d, pos))
               end == pos + Len(ChunkAt(d, pos))
           IN  /\ InPlace(s) /\ InPlace(d) => InPlace(w)
               /\ Whole(d) => \A p \in 1..Least :
                     (p <= Len(s) /\ s[p] # Hole) \/ p \in (pos + 1)..end => p <= Len(w) /\ w[p] # Hole
  <1>1. PICK w, end : w = WriteAt(s, pos, ChunkAt(d, pos)) /\ end = pos + Len(ChunkAt(d, pos))
    OBVIOUS
  <1>2. /\ end \in Nat /\ pos < end /\ end <= Len(d)
        /\ w \in Blocks /\ Len(w) = IF Len(s) > end THEN Len(s) ELSE end
        /\ \A i \in 1..Len(w) :
              w[i] = IF i \in (pos + 1)..end THEN d[i] ELSE IF i <= Len(s) THEN s[i] ELSE Hole
    BY <1>1, NextChunk
  <1>3. Len(s) \in Nat /\ Len(d) \in Nat
    BY BlocksType
  <1>4. ASSUME InPlace(s), InPlace(d)
        PROVE  InPlace(w)
    <2> SUFFICES ASSUME NEW i \in 1..Len(w) PROVE w[i] = Hole \/ \E v \in Version : w[i] = Block(v, i)
      BY DEF InPlace
    <2>1. CASE i \in (pos + 1)..end
      <3>1. w[i] = d[i] /\ i \in 1..Len(d)
        BY <1>2, <1>3, <2>1
      <3> QED BY <1>4, <3>1 DEF InPlace
    <2>2. CASE i \notin (pos + 1)..end /\ i <= Len(s)
      <3>1. w[i] = s[i] /\ i \in 1..Len(s)
        BY <1>2, <1>3, <2>2
      <3> QED BY <1>4, <3>1 DEF InPlace
    <2>3. CASE i \notin (pos + 1)..end /\ ~(i <= Len(s))
      BY <1>2, <2>3
    <2> QED BY <2>1, <2>2, <2>3
  <1>5. ASSUME Whole(d), NEW p \in 1..Least,
               (p <= Len(s) /\ s[p] # Hole) \/ p \in (pos + 1)..end
        PROVE  p <= Len(w) /\ w[p] # Hole
    <2>1. p \in Nat \ {0} /\ d[p] # Hole
      <3>1. PICK v \in Version : Len(d) = Size[v]
        BY <1>5 DEF Whole
      <3> QED BY <1>5, LeastIs DEF Whole, Filled
    <2>2. p <= Len(w) /\ p \in 1..Len(w)
      BY <1>2, <1>3, <1>5, <2>1
    <2> QED BY <1>2, <1>5, <2>1, <2>2
  <1> QED BY <1>1, <1>4, <1>5

LEMMA StoreFileWriteFits ==
    ASSUME Inv, NEW r \in Rpc, StoreFileWrite(r)
    PROVE  CallFits(r)' /\ FetchFits(r)' /\ StoreFits(r)' /\ AnswerFits(r)'
  <1> DEFINE m == call[r]
             n == call'[r]
  <1>1. InUse(r)
    BY DEF StoreFileWrite, At
  <1>2. /\ TypeOK /\ CallFits(r) /\ StoreFits(r) /\ m.pos \in Nat /\ m.data \in Blocks
    BY <1>1, CallFacts, FieldTypes
  <1>3. PICK d \in Blocks, pos \in Nat : d = m.data /\ pos = m.pos
    BY <1>2
  <1>4. PICK end : end = pos + Len(ChunkAt(d, pos))
    OBVIOUS
  <1>5. /\ m \in CallState /\ m.rpc = "StoreFile" /\ m.at = "open" /\ m.file \in File
        /\ m.fd \in Inode /\ ChunkAt(d, pos) # << >>
        /\ inode'[m.fd] = WriteAt(inode[m.fd], pos, ChunkAt(d, pos))
        /\ n \in CallState /\ n = [m EXCEPT !.pos = end]
        /\ UNCHANGED <<name, local, broken, gone>>
    BY <1>2, <1>3, <1>4, StoreFileWriteIs
  <1>6. /\ n.at = m.at /\ n.rpc = m.rpc /\ n.client = m.client /\ n.file = m.file /\ n.data = d
        /\ n.live = m.live /\ n.opened = m.opened /\ n.fd = m.fd /\ n.pos = end
        /\ n.stream = m.stream /\ n.status = m.status /\ n.disturbed = m.disturbed
    BY <1>3, <1>5 DEF CallState
  <1> HIDE DEF n
  <1>7. PICK s \in Blocks : s = inode[m.fd]
    BY <1>2, <1>5 DEF TypeOK
  <1>7a. PICK w : w = WriteAt(s, pos, ChunkAt(d, pos))
    OBVIOUS
  <1>8. /\ end \in Nat /\ pos < end /\ end <= Len(d)
        /\ w \in Blocks /\ Len(w) = IF Len(s) > end THEN Len(s) ELSE end
        /\ \A i \in 1..Len(w) :
              w[i] = IF i \in (pos + 1)..end THEN d[i] ELSE IF i <= Len(s) THEN s[i] ELSE Hole
    <2>1. ChunkAt(d, pos) # << >>
      BY <1>5
    <2>2. w = WriteAt(s, pos, ChunkAt(d, pos))
      BY <1>7, <1>7a
    <2> QED BY <1>4, <2>1, <2>2, NextChunk
  <1>9. CallFits(r)'
    BY <1>2, <1>3, <1>5, <1>6, <1>8 DEF CallFits, n
  <1>10. m.live /\ ~m.disturbed =>
            /\ m.fd = name[m.file] /\ Len(w) = end /\ \A p \in 1..end : w[p] = d[p]
    <2> SUFFICES ASSUME m.live, ~m.disturbed
                 PROVE  m.fd = name[m.file] /\ Len(w) = end /\ \A p \in 1..end : w[p] = d[p]
      OBVIOUS
    <2>1. m.fd = name[m.file] /\ Len(s) = pos /\ \A p \in 1..pos : s[p] = d[p]
      BY <1>2, <1>3, <1>5, <1>7, <1>7a DEF StoreFits
    <2>2. Len(w) = end
      BY <1>8, <2>1
    <2> QED BY <1>8, <2>1, <2>2
  <1>11. InPlace(d) /\ m.status = "none"
    BY <1>2, <1>3, <1>5, FieldTypes DEF StoreFits, CallFits
  <1>12. StoreFits(r)'
    BY <1>5, <1>6, <1>7, <1>7a, <1>10, <1>11 DEF StoreFits, InPlace, n
  <1> QED BY <1>5, <1>6, <1>9, <1>12 DEF FetchFits, AnswerFits, n

\* A file that a handler leaves alone stays mixed as it is.
LEMMA MixOthers ==
    ASSUME TypeOK, MixFits, NEW r \in Rpc, Others(r), NEW f \in File, SameFile(r, f),
           name[f] # Absent, f \notin broken, ~Stores(r, name[f])
    PROVE  Mix(f)'
  <1>1. PICK i, s : i = name[f] /\ s = inode[i]
    OBVIOUS
  <1>2. name'[f] = i /\ inode'[i] = s
    BY <1>1 DEF SameFile
  <1>3. \A q \in Rpc : Stores(q, i) => Stores(q, i)' /\ call'[q].pos = call[q].pos
    <2> TAKE q \in Rpc
    <2>1. Stores(q, i) => q # r /\ InUse(q)
      BY <1>1 DEF Stores, At
    <2> QED BY <2>1, OtherCall DEF Stores, At
  <1>4. \A q \in Rpc : Stores(q, i)' <=> Stores(q, name[f])'
    BY <1>2 DEF Stores
  <1>5. /\ \/ \E v \in Version : Len(s) = Size[v]
           \/ \E q \in Rpc : Stores(q, i) /\ call[q].pos = Len(s)
        /\ \/ Filled(s)
           \/ \E q \in Rpc :
                 /\ Stores(q, i)
                 /\ \A p \in 1..Least : p <= call[q].pos => p <= Len(s) /\ s[p] # Hole
    BY <1>1 DEF MixFits, Mix
  <1>6. \/ \E v \in Version : Len(s) = Size[v]
        \/ \E q \in Rpc : Stores(q, i)' /\ call'[q].pos = Len(s)
    BY <1>3, <1>5
  <1>7. \/ Filled(s)
        \/ \E q \in Rpc : /\ Stores(q, i)'
                          /\ \A p \in 1..Least : p <= call'[q].pos => p <= Len(s) /\ s[p] # Hole
    BY <1>3, <1>5
  <1> QED BY <1>2, <1>4, <1>6, <1>7 DEF Mix, Filled

LEMMA DeleteFileInv ==
    ASSUME Inv, NEW r \in Rpc, DeleteFile(r)
    PROVE  Inv'
  <1> DEFINE m == call[r]
             n == call'[r]
  <1>1. InUse(r) /\ m.rpc = "DeleteFile" /\ m.at = "sent" /\ UNCHANGED <<local, broken, gone>>
    BY DEF DeleteFile, At
  <1>2. /\ TypeOK /\ CallFits(r) /\ FetchFits(r) /\ StoreFits(r)
        /\ m \in CallState /\ m.file \in File
    BY <1>1, CallFacts
  <1>3. \A i : ~Stores(r, i)
    BY <1>1 DEF Stores, At
  <1>4. CASE \E status \in {"NOT_FOUND", "CANCELLED"} : Return(r, status)
    BY <1>1, <1>2, <1>3, <1>4, FailureFits, ReturnInv
  <1>5. CASE ~Return(r, "NOT_FOUND") /\ ~Return(r, "CANCELLED")
    <2>1. /\ \A f \in File : name'[f] = IF f = m.file THEN Absent ELSE name[f]
          /\ Disturbing(r, {m.file, Directory}, n) /\ Reclaim
          /\ n = Answered(m, "OK")
          /\ TypeOK'
      BY <1>2, <1>5, DeleteFileIs
    <2>2. PICK w \in CallState : w = m
      BY <1>2
    <2>3. /\ ~w.live => Answered(w, "OK") = Unused
          /\ w.live => LET a == Answered(w, "OK")
                       IN  /\ a.at = "done" /\ a.fd = Absent /\ a.rpc = w.rpc /\ a.client = w.client
                           /\ a.file = w.file /\ a.data = w.data /\ a.live = w.live
                           /\ a.opened = w.opened
      BY AnsweredIs
    <2>4. SameCall(r) /\ (InUse(r)' => n.fd = Absent) /\ (\A i : ~Stores(r, i)')
      BY <1>1, <2>1, <2>2, <2>3 DEF InUse, SameCall, Unused, Stores, At
    <2>5. /\ Others(r)
          /\ \A q \in Rpc \ {r} :
                InUse(q) /\ call[q].live /\ call[q].file \in {m.file, Directory} /\ call[q].at # "sent"
                   => call'[q].disturbed
      BY <1>2, <2>1, DisturbingIs
    <2>6. ASSUME NEW f \in File, f # m.file PROVE SameFile(r, f)
      <3>1. name'[f] = name[f] /\ f # Directory
        BY <2>1, <2>6, TransferConstants DEF Directory
      <3>2. name[f] # Absent => inode'[name[f]] = inode[name[f]]
        BY <1>2, <2>1, <3>1, ReclaimType DEF TypeOK
      <3>3. ~Stores(r, name[f])'
        BY <1>1, <2>1, <2>2, <2>3 DEF Stores, At, InUse, Unused
      <3> QED BY <3>1, <3>2, <3>3 DEF SameFile
    <2>7. \A q \in Rpc \ {r} : InUse(q) => Spares(r, q)
      <3> TAKE q \in Rpc \ {r}
      <3> SUFFICES ASSUME InUse(q) PROVE Spares(r, q)
        OBVIOUS
      <3>1. call[q].file \in File \cup {Directory}
        BY <1>2, CallType, FieldTypes
      <3> QED BY <1>1, <2>5, <2>6, <3>1 DEF Spares
    <2>8. Names'
      <3>1. ASSUME NEW f \in File, NEW g \in File, name'[f] = name'[g], name'[f] # Absent
            PROVE  f = g
        BY <2>1, <3>1 DEF Inv, Names
      <3>2. ASSUME NEW q \in Rpc, NEW f \in File, InUse(q)', call'[q].fd # Absent, name'[f] = call'[q].fd
            PROVE  f = call'[q].file
        <4>1. q # r
          BY <2>4, <3>2
        <4>2. InUse(q) /\ call'[q].fd = call[q].fd /\ call'[q].file = call[q].file
          BY <1>2, <2>5, <3>2, <4>1, OtherCall
        <4> QED BY <2>1, <3>2, <4>2 DEF Inv, Names
      <3> QED BY <3>1, <3>2 DEF Names
    <2>9. MixFits'
      <3> SUFFICES ASSUME NEW f \in File, name'[f] # Absent, f \notin broken' PROVE Mix(f)'
        BY DEF MixFits
      <3>1. f # m.file /\ name[f] # Absent /\ f \notin broken
        BY <1>1, <2>1
      <3> QED BY <1>2, <1>3, <2>5, <2>6, <3>1, MixOthers DEF Inv
    <2>10. LocalFits'
      BY <1>1, <1>2, <2>4, <2>5, LocalKept DEF Inv
    <2>11. InUse(r)' => CallFits(r)' /\ FetchFits(r)' /\ StoreFits(r)' /\ AnswerFits(r)'
      BY <1>2, <1>5, DeleteFileFits
    <2>12. \A i \in Inode : InPlace(inode'[i])
      <3> TAKE i \in Inode
      <3>1. inode'[i] = inode[i] \/ inode'[i] = << >>
        BY <1>2, <2>1, ReclaimType
      <3>2. InPlace(inode[i]) /\ InPlace(<< >>)
        BY DEF Inv, ChunksInPlace, InPlace
      <3> QED BY <3>1, <3>2
    <2> QED BY <1>1, <2>1, <2>4, <2>5, <2>7, <2>8, <2>9, <2>10, <2>11, <2>12, StepInv
  <1> QED BY <1>4, <1>5

\* The file is empty, and the store that has just opened it is at its beginning.
LEMMA StoreFileOpenInv ==
    ASSUME Inv, NEW r \in Rpc, StoreFileOpen(r)
    PROVE  Inv'
  <1> DEFINE m == call[r]
             n == call'[r]
  <1>1. /\ InUse(r) /\ m.rpc = "StoreFile" /\ m.at = "sent" /\ m.data # << >>
        /\ UNCHANGED <<local, broken, gone>>
    BY DEF StoreFileOpen, At
  <1>2. /\ TypeOK /\ CallFits(r) /\ FetchFits(r) /\ StoreFits(r)
        /\ m \in CallState /\ m.file \in File
    BY <1>1, CallFacts
  <1>3. \A i : ~Stores(r, i)
    BY <1>1 DEF Stores, At
  <1>4. CASE Return(r, "CANCELLED")
    BY <1>1, <1>2, <1>3, <1>4, FailureFits, ReturnInv
  <1>5. CASE ~Return(r, "CANCELLED")
    <2>1. PICK i \in Inode :
              /\ IF name[m.file] = Absent THEN ~Kept(i, name, call) ELSE i = name[m.file]
              /\ \A f \in File : name'[f] = IF f = m.file THEN i ELSE name[f]
              /\ \A j \in Inode : inode'[j] = IF j = i THEN << >> ELSE inode[j]
              /\ Disturbing(r, {m.file, Directory}, [m EXCEPT !.at = "open", !.fd = i])
              /\ TypeOK'
      BY <1>2, <1>5, StoreFileOpenIs
    <2>2. /\ n = [m EXCEPT !.at = "open", !.fd = i] /\ Others(r)
          /\ \A q \in Rpc \ {r} :
                InUse(q) /\ call[q].live /\ call[q].file \in {m.file, Directory} /\ call[q].at # "sent"
                   => call'[q].disturbed
      <3> DEFINE w == [m EXCEPT !.at = "open", !.fd = i]
      <3>1. Disturbing(r, {m.file, Directory}, w)
        BY <2>1
      <3> HIDE DEF w
      <3>2. /\ n = w /\ Others(r)
            /\ \A q \in Rpc \ {r} :
                  InUse(q) /\ call[q].live /\ call[q].file \in {m.file, Directory} /\ call[q].at # "sent"
                     => call'[q].disturbed
        BY <1>2, <3>1, DisturbingIs
      <3> QED BY <3>2 DEF w
    <2>3. /\ n.at = "open" /\ n.fd = i /\ n.rpc = m.rpc /\ n.client = m.client /\ n.file = m.file
          /\ n.data = m.data /\ n.live = m.live /\ n.opened = m.opened /\ n.pos = m.pos
          /\ n.stream = m.stream /\ n.status = m.status
      BY <1>2, <2>2 DEF CallState
    <2> HIDE DEF n
    <2>4. SameCall(r) /\ InUse(r)'
      BY <2>3 DEF SameCall, InUse, n
    <2>5. ASSUME NEW f \in File, f # m.file PROVE name'[f] = name[f] /\ name[f] # i
      BY <1>2, <2>1, <2>5 DEF Kept, Inv, Names
    <2>6. ASSUME NEW f \in File, f # m.file PROVE SameFile(r, f)
      <3>1. name'[f] = name[f] /\ f # Directory /\ name[f] # i
        BY <2>5, <2>6, TransferConstants DEF Directory
      <3>2. name[f] # Absent => inode'[name[f]] = inode[name[f]]
        BY <1>2, <2>1, <3>1 DEF TypeOK
      <3>3. ~Stores(r, name[f])'
        BY <2>3, <3>1 DEF Stores, n
      <3> QED BY <3>1, <3>2, <3>3 DEF SameFile
    <2>7. \A q \in Rpc \ {r} : InUse(q) => Spares(r, q)
      <3> TAKE q \in Rpc \ {r}
      <3> SUFFICES ASSUME InUse(q) PROVE Spares(r, q)
        OBVIOUS
      <3>1. call[q].file \in File \cup {Directory}
        BY <1>2, CallType, FieldTypes
      <3> QED BY <1>1, <2>2, <2>6, <3>1 DEF Spares
    <2>8. Names'
      <3>1. ASSUME NEW f \in File, NEW g \in File, name'[f] = name'[g], name'[f] # Absent
            PROVE  f = g
        BY <2>1, <2>5, <3>1 DEF Inv, Names
      <3>2. ASSUME NEW q \in Rpc, NEW f \in File, InUse(q)', call'[q].fd # Absent, name'[f] = call'[q].fd
            PROVE  f = call'[q].file
        <4>1. CASE q = r
          BY <2>3, <2>5, <3>2, <4>1 DEF n
        <4>2. CASE q # r
          <5>1. /\ InUse(q) /\ call'[q].fd = call[q].fd /\ call'[q].file = call[q].file
                /\ call[q].at \in {"open", "eof"}
            BY <1>2, <2>2, <3>2, <4>2, OtherCall, CallType
          <5>2. CASE f = m.file
            <6>1. i = name[m.file]
              BY <2>1, <3>2, <5>1, <5>2 DEF Kept
            <6> QED BY <2>1, <3>2, <5>1, <5>2, <6>1 DEF Inv, Names
          <5>3. CASE f # m.file
            BY <2>5, <3>2, <5>1, <5>3 DEF Inv, Names
          <5> QED BY <5>2, <5>3
        <4> QED BY <4>1, <4>2
      <3> QED BY <3>1, <3>2 DEF Names
    <2>9. MixFits'
      <3> SUFFICES ASSUME NEW f \in File, name'[f] # Absent, f \notin broken' PROVE Mix(f)'
        BY DEF MixFits
      <3>1. f \notin broken
        BY <1>1
      <3>2. CASE f # m.file
        <4>1. name[f] # Absent
          BY <2>5, <3>2
        <4> QED BY <1>2, <1>3, <2>2, <2>6, <3>1, <3>2, <4>1, MixOthers DEF Inv
      <3>3. CASE f = m.file
        <4>1. PICK v \in Version : TRUE
          BY <1>1, <3>1, <3>3 DEF Inv, CopiesFit, Whole
        <4>2. name'[f] = i /\ inode'[i] = << >> /\ Len(<< >>) = 0
          BY <2>1, <3>3
        <4>3. Stores(r, name[f])' /\ call'[r].pos = 0
          BY <1>1, <1>2, <2>3, <2>4, <4>2 DEF Stores, At, CallFits, n
        <4>4. \A p \in 1..Least : ~(p <= 0)
          BY <4>1, LeastIs
        <4> QED BY <4>2, <4>3, <4>4 DEF Mix
      <3> QED BY <3>2, <3>3
    <2>10. LocalFits'
      BY <1>1, <1>2, <2>2, <2>4, LocalKept DEF Inv
    <2>11. CallFits(r)' /\ FetchFits(r)' /\ StoreFits(r)' /\ AnswerFits(r)'
      <3>1. CallFits(r)' /\ m.pos = 0 /\ m.status = "none"
        <4>1. m.pos = 0 /\ m.status = "none" /\ Len(m.data) \in Nat
          BY <1>1, <1>2, FieldTypes, BlocksType DEF CallFits
        <4> QED BY <1>1, <1>2, <2>3, <4>1 DEF CallFits, n
      <3>2. name'[n.file] = i /\ inode'[i] = << >> /\ Len(<< >>) = 0
        BY <1>2, <2>1, <2>3
      <3>3. InPlace(m.data)
        BY <1>1, <1>2 DEF StoreFits
      <3>4. StoreFits(r)'
        BY <2>3, <3>1, <3>2, <3>3 DEF StoreFits, InPlace, n
      <3> QED BY <1>1, <2>3, <3>1, <3>4 DEF FetchFits, AnswerFits, n
    <2>12. \A j \in Inode : InPlace(inode'[j])
      <3> TAKE j \in Inode
      <3>1. InPlace(inode[j]) /\ InPlace(<< >>)
        BY DEF Inv, ChunksInPlace, InPlace
      <3> QED BY <2>1, <3>1
    <2> QED BY <1>1, <2>1, <2>2, <2>4, <2>7, <2>8, <2>9, <2>10, <2>11, <2>12, StepInv
  <1> QED BY <1>4, <1>5

\* A chunk fills the file as far as its store is.
LEMMA StoreFileWriteMix ==
    ASSUME Inv, NEW r \in Rpc, StoreFileWrite(r), Others(r),
           \A q \in Rpc : \A i : Stores(q, i) => Stores(q, i)',
           name[call[r].file] = call[r].fd, call[r].file \notin broken
    PROVE  Mix(call[r].file)'
  <1> DEFINE m == call[r]
             n == call'[r]
  <1>1. InUse(r)
    BY DEF StoreFileWrite, At
  <1>2. /\ TypeOK /\ CallFits(r) /\ m.pos \in Nat /\ m.data \in Blocks
    BY <1>1, CallFacts, FieldTypes
  <1>3. PICK d \in Blocks, pos \in Nat : d = m.data /\ pos = m.pos
    BY <1>2
  <1>3a. PICK i, f : i = m.fd /\ f = m.file
    OBVIOUS
  <1>4. PICK end : end = pos + Len(ChunkAt(d, pos))
    OBVIOUS
  <1>5. /\ m \in CallState /\ m.rpc = "StoreFile" /\ m.at = "open" /\ f \in File
        /\ i \in Inode /\ ChunkAt(d, pos) # << >>
        /\ inode'[i] = WriteAt(inode[i], pos, ChunkAt(d, pos))
        /\ n = [m EXCEPT !.pos = end]
        /\ UNCHANGED <<name, local, broken, gone>>
    BY <1>2, <1>3, <1>3a, <1>4, StoreFileWriteIs
  <1>6. n.pos = end /\ n.file = f
    BY <1>3, <1>3a, <1>5 DEF CallState
  <1> HIDE DEF n
  <1>7. PICK s \in Blocks : s = inode[i]
    BY <1>2, <1>5 DEF TypeOK
  <1>7a. PICK w : w = WriteAt(s, pos, ChunkAt(d, pos))
    OBVIOUS
  <1>8. ChunkAt(d, pos) # << >>
    BY <1>5
  <1>9. end \in Nat /\ pos < end /\ Len(w) = IF Len(s) > end THEN Len(s) ELSE end
    BY <1>4, <1>7, <1>7a, <1>8, NextChunk
  <1>10. Whole(d)
    BY <1>1, <1>2, <1>3, <1>3a, <1>5 DEF CallFits, Inv, CopiesFit
  <1>11. \A p \in 1..Least :
            (p <= Len(s) /\ s[p] # Hole) \/ p \in (pos + 1)..end => p <= Len(w) /\ w[p] # Hole
    BY <1>4, <1>7, <1>7a, <1>8, <1>10, NextChunkFills
  <1>12. /\ \/ \E v \in Version : Len(s) = Size[v]
            \/ \E q \in Rpc : Stores(q, i) /\ call[q].pos = Len(s)
         /\ \/ Filled(s)
            \/ \E q \in Rpc :
                  /\ Stores(q, i)
                  /\ \A p \in 1..Least : p <= call[q].pos => p <= Len(s) /\ s[p] # Hole
    <2>1. name[f] = i /\ f \in File /\ f \notin broken /\ i # Absent
      BY <1>3, <1>3a, <1>5, TransferConstants
    <2> QED BY <1>7, <1>7a, <2>1 DEF Inv, MixFits, Mix
  <1>13. \A q \in Rpc : Stores(q, i) => Stores(q, i)' /\ (q = r \/ call'[q].pos = call[q].pos)
    BY <1>2, OtherCall DEF Stores, At
  <1>14. Stores(r, i)' /\ call'[r].pos = end
    BY <1>1, <1>3, <1>3a, <1>5, <1>6 DEF Stores, At, n
  <1>15. \/ \E v \in Version : Len(w) = Size[v]
         \/ \E q \in Rpc : Stores(q, i)' /\ call'[q].pos = Len(w)
    <2>1. CASE Len(s) > end
      <3>1. Len(w) = Len(s) /\ pos # Len(s)
        BY <1>9, <2>1, BlocksType
      <3> QED BY <1>3, <1>3a, <1>12, <1>13, <3>1
    <2>2. CASE ~(Len(s) > end)
      BY <1>9, <1>14, <2>2
    <2> QED BY <2>1, <2>2
  <1>16. \/ Filled(w)
         \/ \E q \in Rpc :
               /\ Stores(q, i)'
               /\ \A p \in 1..Least : p <= call'[q].pos => p <= Len(w) /\ w[p] # Hole
    <2>1. CASE Filled(s)
      BY <1>11, <2>1 DEF Filled
    <2>2. CASE \E q \in Rpc :
                  /\ Stores(q, i)
                  /\ \A p \in 1..Least : p <= call[q].pos => p <= Len(s) /\ s[p] # Hole
      <3>1. PICK q \in Rpc :
                  /\ Stores(q, i)
                  /\ \A p \in 1..Least : p <= call[q].pos => p <= Len(s) /\ s[p] # Hole
        BY <2>2
      <3>2. CASE q # r
        BY <1>11, <1>13, <3>1, <3>2
      <3>3. CASE q = r
        <4>1. ASSUME NEW p \in 1..Least, p <= end PROVE p <= Len(w) /\ w[p] # Hole
          <5>1. PICK v \in Version : Len(d) = Size[v]
            BY <1>10 DEF Whole
          <5>2. p \in Nat
            BY LeastIs
          <5>3. p <= pos \/ p \in (pos + 1)..end
            BY <1>9, <4>1, <5>2
          <5> QED BY <1>3, <1>3a, <1>11, <3>1, <3>3, <5>3
        <4> QED BY <1>14, <4>1
      <3> QED BY <3>2, <3>3
    <2> QED BY <1>12, <2>1, <2>2
  <1>17. name'[call'[r].file] = i /\ inode'[i] = w /\ name'[f] = i /\ f = call'[r].file
    BY <1>3, <1>3a, <1>5, <1>6, <1>7, <1>7a DEF n
  <1>18. Mix(f)'
    <2>1. \A q \in Rpc : Stores(q, i)' <=> Stores(q, name[f])'
      BY <1>17 DEF Stores
    <2> QED BY <1>15, <1>16, <1>17, <2>1 DEF Mix, Filled
  <1> QED BY <1>17, <1>18 DEF Mix

LEMMA StoreFileWriteInv ==
    ASSUME Inv, NEW r \in Rpc, StoreFileWrite(r)
    PROVE  Inv'
  <1> DEFINE m == call[r]
             n == call'[r]
  <1>1. InUse(r)
    BY DEF StoreFileWrite, At
  <1>2. /\ TypeOK /\ CallFits(r) /\ StoreFits(r) /\ m.pos \in Nat /\ m.data \in Blocks
    BY <1>1, CallFacts, FieldTypes
  <1>3. PICK d \in Blocks, pos \in Nat : d = m.data /\ pos = m.pos
    BY <1>2
  <1>4. PICK end : end = pos + Len(ChunkAt(d, pos))
    OBVIOUS
  <1>5. /\ m \in CallState /\ m.rpc = "StoreFile" /\ m.at = "open" /\ m.file \in File
        /\ m.fd \in Inode /\ ChunkAt(d, pos) # << >>
        /\ \A j \in Inode : inode'[j] = IF j = m.fd THEN WriteAt(inode[j], pos, ChunkAt(d, pos))
                                       ELSE inode[j]
        /\ Disturbing(r, {m.file}, n)
        /\ n \in CallState /\ n = [m EXCEPT !.pos = end]
        /\ TypeOK' /\ UNCHANGED <<name, local, broken, gone>>
    BY <1>2, <1>3, <1>4, StoreFileWriteIs
  <1>6. /\ n.at = m.at /\ n.rpc = m.rpc /\ n.client = m.client /\ n.file = m.file /\ n.data = m.data
        /\ n.live = m.live /\ n.opened = m.opened /\ n.fd = m.fd
    BY <1>5 DEF CallState
  <1>7. /\ Others(r)
        /\ \A q \in Rpc \ {r} :
              InUse(q) /\ call[q].live /\ call[q].file \in {m.file} /\ call[q].at # "sent"
                 => call'[q].disturbed
    BY <1>2, <1>5, DisturbingIs
  <1> HIDE DEF n
  <1>8. SameCall(r) /\ InUse(r)'
    BY <1>1, <1>6 DEF SameCall, InUse, n
  <1>9. \A i : Stores(r, i)' <=> Stores(r, i)
    BY <1>6 DEF Stores, At, InUse, n
  <1>10. \A f \in File : f # m.file => name[f] # m.fd
    BY <1>1, <1>5, TransferConstants DEF Inv, Names
  <1>11. ASSUME NEW f \in File \cup {Directory}, f # m.file PROVE SameFile(r, f)
    <2>1. \A g \in File : name'[g] = name[g]
      BY <1>5
    <2>2. f \in File /\ name[f] # Absent => inode'[name[f]] = inode[name[f]]
      BY <1>2, <1>5, <1>10, <1>11 DEF TypeOK
    <2>3. f \in File => (Stores(r, name[f])' => Stores(r, name[f]))
      BY <1>9, <2>1 DEF Stores
    <2> QED BY <2>1, <2>2, <2>3 DEF SameFile
  <1>12. \A q \in Rpc \ {r} : InUse(q) => Spares(r, q)
    <2> TAKE q \in Rpc \ {r}
    <2> SUFFICES ASSUME InUse(q) PROVE Spares(r, q)
      OBVIOUS
    <2>1. call[q].file \in File \cup {Directory}
      BY <1>2, CallType, FieldTypes
    <2> QED BY <1>5, <1>7, <1>11, <2>1 DEF Spares
  <1>13. Names'
    BY <1>1, <1>2, <1>5, <1>6, <1>7, <1>8, NamesKept DEF Inv, n
  <1>14. MixFits'
    <2> SUFFICES ASSUME NEW f \in File, name'[f] # Absent, f \notin broken' PROVE Mix(f)'
      BY DEF MixFits
    <2>1. f \notin broken /\ name[f] # Absent
      BY <1>5
    <2>2. CASE name[f] # m.fd
      <3>1. ~Stores(r, name[f])
        BY <2>2 DEF Stores
      <3>2. SameFile(r, f)
        <4>1. name'[f] = name[f] /\ inode'[name[f]] = inode[name[f]] /\ f # Directory
          BY <1>2, <1>5, <2>1, <2>2, TransferConstants DEF TypeOK, Directory
        <4>2. ~Stores(r, name[f])'
          BY <1>6, <2>2, <4>1 DEF Stores, n
        <4> QED BY <4>1, <4>2 DEF SameFile
      <3> QED BY <1>2, <1>7, <2>1, <3>1, <3>2, MixOthers DEF Inv
    <2>3. CASE name[f] = m.fd
      <3>1. f = m.file
        BY <1>10, <2>3
      <3>2. \A q \in Rpc : \A i : Stores(q, i) => Stores(q, i)'
        <4> TAKE q \in Rpc
        <4>1. CASE q = r
          BY <1>9, <4>1
        <4>2. CASE q # r
          BY <1>2, <1>7, <4>2, OtherCall DEF Stores, At
        <4> QED BY <4>1, <4>2
      <3>3. Mix(call[r].file)'
        BY <1>7, <2>1, <2>3, <3>1, <3>2, StoreFileWriteMix
      <3>4. call'[r].file = f
        BY <1>6, <3>1 DEF n
      <3> QED BY <3>3, <3>4 DEF Mix
    <2> QED BY <2>2, <2>3
  <1>15. LocalFits'
    BY <1>1, <1>2, <1>5, <1>7, <1>8, LocalKept DEF Inv
  <1>16. CallFits(r)' /\ FetchFits(r)' /\ StoreFits(r)' /\ AnswerFits(r)'
    BY StoreFileWriteFits
  <1>17. \A j \in Inode : InPlace(inode'[j])
    <2> TAKE j \in Inode
    <2>1. InPlace(inode[j]) /\ InPlace(d) /\ inode[j] \in Blocks
      BY <1>2, <1>3, <1>5 DEF Inv, ChunksInPlace, StoreFits, TypeOK
    <2>2. CASE j = m.fd
      <3>1. inode'[j] = WriteAt(inode[j], pos, ChunkAt(d, pos)) /\ ChunkAt(d, pos) # << >>
        BY <1>5, <2>2
      <3> QED BY <2>1, <3>1, NextChunkFills
    <2>3. CASE j # m.fd
      BY <1>5, <2>1, <2>3
    <2> QED BY <2>2, <2>3
  <1> QED BY <1>1, <1>5, <1>7, <1>8, <1>12, <1>13, <1>14, <1>15, <1>16, <1>17, StepInv

\* A part of a chunk leaves the blocks of a file in place.
LEMMA PartOfChunk ==
    ASSUME NEW s \in Blocks, NEW d \in Blocks, NEW pos \in Nat, ChunkAt(d, pos) # << >>,
           NEW n \in 1..(Len(ChunkAt(d, pos)) - 1)
    PROVE  LET w == WriteAt(s, pos, SubSeq(ChunkAt(d, pos), 1, n))
           IN  w \in Blocks /\ (InPlace(s) /\ InPlace(d) => InPlace(w))
  <1>1. PICK c \in Blocks : c = ChunkAt(d, pos)
    BY ChunkAtIs
  <1>2. /\ Len(c) \in Nat /\ n \in 1..Len(c) /\ pos + Len(c) <= Len(d)
        /\ \A i \in 1..Len(c) : c[i] = d[pos + i] /\ pos + i \in 1..Len(d)
    BY <1>1, ChunkAtIs
  <1>3. \A i \in 1..n : c[i] \in AnyBlock /\ c[i] = d[pos + i] /\ pos + i \in 1..Len(d)
    BY <1>2, BlocksType
  <1>4. PICK p : p = SubSeq(c, 1, n)
    OBVIOUS
  <1>5. p \in Seq(AnyBlock) /\ Len(p) = n /\ \A i \in 1..n : p[i] = c[i]
    BY <1>2, <1>3, <1>4, SubSeqProperties
  <1>6. PICK w : w = WriteAt(s, pos, p)
    OBVIOUS
  <1>7. /\ w \in Blocks /\ Len(w) = (IF Len(s) > pos + n THEN Len(s) ELSE pos + n)
        /\ \A i \in 1..Len(w) :
              w[i] = IF i \in (pos + 1)..(pos + n) THEN p[i - pos]
                     ELSE IF i <= Len(s) THEN s[i] ELSE Hole
    BY <1>5, <1>6, WriteAtIs DEF Blocks
  <1>8. ASSUME InPlace(s), InPlace(d), NEW i \in 1..Len(w)
        PROVE  w[i] = Hole \/ \E v \in Version : w[i] = Block(v, i)
    <2>1. CASE i \in (pos + 1)..(pos + n)
      <3>1. PICK j \in 1..n : j = i - pos /\ pos + j = i
        BY <1>2, <2>1
      <3>2. w[i] = d[i] /\ i \in 1..Len(d)
        BY <1>3, <1>5, <1>7, <2>1, <3>1
      <3> QED BY <1>8, <3>2 DEF InPlace
    <2>2. CASE i \notin (pos + 1)..(pos + n) /\ i <= Len(s)
      <3>1. w[i] = s[i] /\ i \in 1..Len(s)
        BY <1>7, <2>2, BlocksType
      <3> QED BY <1>8, <3>1 DEF InPlace
    <2>3. CASE i \notin (pos + 1)..(pos + n) /\ ~(i <= Len(s))
      BY <1>7, <2>3
    <2> QED BY <2>1, <2>2, <2>3
  <1> QED BY <1>1, <1>4, <1>6, <1>7, <1>8 DEF InPlace

\* A write that fails breaks the file and disturbs its own call: nothing is said of
\* either any more but that the blocks are in place.
LEMMA StoreFileWriteFailsInv ==
    ASSUME Inv, NEW r \in Rpc, StoreFileWriteFails(r)
    PROVE  Inv'
  <1> DEFINE m == call[r]
             n == call'[r]
  <1>1. InUse(r) /\ m.rpc = "StoreFile" /\ m.at = "open" /\ ChunkAt(m.data, m.pos) # << >>
    BY DEF StoreFileWriteFails, At
  <1>2. /\ TypeOK /\ CallFits(r) /\ StoreFits(r) /\ m \in CallState /\ m.file \in File
        /\ m.pos \in Nat /\ m.data \in Blocks /\ Len(m.data) \in Nat /\ m.live \in BOOLEAN
    BY <1>1, CallFacts, FieldTypes, BlocksType
  <1>3. m.fd \in Inode
    BY <1>1, <1>2, CallType, FieldTypes
  <1>4. /\ n = [m EXCEPT !.pos = Len(m.data), !.disturbed = TRUE] /\ Others(r)
        /\ call' = [q \in Rpc |-> call'[q]]
        /\ \A q \in Rpc \ {r} :
              InUse(q) /\ call[q].live /\ call[q].file \in {m.file} /\ call[q].at # "sent"
                 => call'[q].disturbed
    <2>1. Disturbing(r, {m.file}, [m EXCEPT !.pos = Len(m.data), !.disturbed = TRUE])
      BY DEF StoreFileWriteFails
    <2> QED BY <1>2, <2>1, DisturbingIs
  <1>5. broken' = broken \cup {m.file} /\ UNCHANGED <<name, local>>
    BY DEF StoreFileWriteFails
  <1>6. /\ n \in CallState /\ n.at = m.at /\ n.rpc = m.rpc /\ n.client = m.client /\ n.file = m.file
        /\ n.data = m.data /\ n.live = m.live /\ n.opened = m.opened /\ n.fd = m.fd
        /\ n.pos = Len(m.data) /\ n.stream = m.stream /\ n.status = m.status /\ n.disturbed
    <2>1. PICK u \in CallState, k \in Nat : u = m /\ k = Len(m.data)
      BY <1>2
    <2>2. PICK e : e = [u EXCEPT !.pos = k, !.disturbed = TRUE]
      OBVIOUS
    <2>3. e \in CallState /\ e.pos = k /\ e.disturbed
      BY <2>2 DEF CallState
    <2>4. /\ e.at = u.at /\ e.rpc = u.rpc /\ e.client = u.client /\ e.file = u.file
          /\ e.data = u.data /\ e.live = u.live /\ e.opened = u.opened /\ e.fd = u.fd
          /\ e.stream = u.stream /\ e.status = u.status
      BY <2>2 DEF CallState
    <2>5. n = e
      BY <1>4, <2>1, <2>2
    <2> HIDE DEF n
    <2> QED BY <2>1, <2>3, <2>4, <2>5
  <1> HIDE DEF n
  <1>7. /\ inode' \in [Inode -> Blocks]
        /\ \A j \in Inode : j # m.fd => inode'[j] = inode[j]
        /\ \A j \in Inode : InPlace(inode'[j])
    <2>1. inode \in [Inode -> Blocks] /\ InPlace(m.data) /\ \A j \in Inode : InPlace(inode[j])
      BY <1>1, <1>2 DEF TypeOK, Inv, ChunksInPlace, StoreFits
    <2>2. CASE UNCHANGED inode
      BY <2>1, <2>2
    <2>3. CASE \E k \in 1..(Len(ChunkAt(m.data, m.pos)) - 1) :
                  inode' = [inode EXCEPT ![m.fd] =
                               WriteAt(@, m.pos, SubSeq(ChunkAt(m.data, m.pos), 1, k))]
      <3>1. PICK w : /\ w \in Blocks /\ InPlace(w)
                     /\ inode' = [inode EXCEPT ![m.fd] = w]
        BY <1>1, <1>2, <1>3, <2>1, <2>3, PartOfChunk
      <3> QED BY <1>3, <2>1, <3>1
    <2> QED BY <2>2, <2>3 DEF StoreFileWriteFails
  <1>8. TypeOK'
    <2>1. gone' \in 0..MaxGone
      BY <1>2, TransferConstants DEF StoreFileWriteFails, TypeOK
    <2>2. /\ local' \in [Client -> [File -> Blocks \cup {Absent}]]
          /\ broken' \subseteq File /\ name' \in [File -> Inode \cup {Absent}]
      BY <1>2, <1>5 DEF TypeOK
    <2>3. n.at \in {"open", "eof"} /\ n.fd # Absent
      BY <1>1, <1>3, <1>6, TransferConstants
    <2> QED BY <1>2, <1>4, <1>6, <1>7, <2>1, <2>2, <2>3, TypeKept DEF n
  <1>9. SameCall(r) /\ InUse(r)'
    BY <1>1, <1>6 DEF SameCall, InUse, n
  <1>10. \A i : Stores(r, i)' <=> Stores(r, i)
    BY <1>6 DEF Stores, At, InUse, n
  <1>11. \A f \in File : name[f] = m.fd => f = m.file
    BY <1>1, <1>3, TransferConstants DEF Inv, Names
  <1>12. ASSUME NEW f \in File \cup {Directory}, f # m.file PROVE SameFile(r, f)
    <2>1. \A g \in File : name'[g] = name[g]
      BY <1>5
    <2>2. f \in File /\ name[f] # Absent => inode'[name[f]] = inode[name[f]]
      BY <1>2, <1>7, <1>11, <1>12 DEF TypeOK
    <2>3. f \in File => (Stores(r, name[f])' => Stores(r, name[f]))
      BY <1>10, <2>1 DEF Stores
    <2> QED BY <2>1, <2>2, <2>3 DEF SameFile
  <1>13. \A q \in Rpc \ {r} : InUse(q) => Spares(r, q)
    <2> TAKE q \in Rpc \ {r}
    <2> SUFFICES ASSUME InUse(q) PROVE Spares(r, q)
      OBVIOUS
    <2>1. call[q].file \in File \cup {Directory}
      BY <1>2, CallType, FieldTypes
    <2> QED BY <1>4, <1>5, <1>12, <2>1 DEF Spares
  <1>14. Names'
    BY <1>1, <1>2, <1>4, <1>5, <1>6, <1>9, NamesKept DEF Inv, n
  <1>15. MixFits'
    <2> SUFFICES ASSUME NEW f \in File, name'[f] # Absent, f \notin broken' PROVE Mix(f)'
      BY DEF MixFits
    <2>1. f \notin broken /\ f # m.file /\ name[f] # Absent /\ name[f] # m.fd
      BY <1>5, <1>11
    <2>2. ~Stores(r, name[f]) /\ SameFile(r, f)
      BY <1>12, <2>1 DEF Stores
    <2> QED BY <1>2, <1>4, <2>1, <2>2, MixOthers DEF Inv
  <1>16. LocalFits'
    BY <1>1, <1>2, <1>4, <1>5, <1>9, LocalKept DEF Inv
  <1>17. CallFits(r)'
    BY <1>1, <1>2, <1>5, <1>6 DEF CallFits, n
  <1>18. StoreFits(r)'
    <2>1. InPlace(m.data) /\ n.status = "none"
      BY <1>1, <1>2, <1>6, FieldTypes DEF StoreFits, CallFits
    <2> QED BY <1>6, <2>1 DEF StoreFits, InPlace, n
  <1>19. FetchFits(r)' /\ AnswerFits(r)'
    BY <1>1, <1>6 DEF FetchFits, AnswerFits, n
  <1> QED BY <1>1, <1>4, <1>5, <1>7, <1>8, <1>9, <1>13, <1>14, <1>15, <1>16, <1>17, <1>18, <1>19,
             StepInv

-----------------------------------------------------------------------------
(* The invariant holds *)

\* A client makes a call only when it waits for none.
LEMMA CallInv ==
    ASSUME Inv, NEW c \in Client, NEW f \in File \cup {Directory}, NEW data \in Blocks,
           NEW rpc \in {"StoreFile", "FetchFile", "DeleteFile", "GetFileStatus", "ListFiles"},
           rpc = "ListFiles" <=> f = Directory,
           rpc = "StoreFile" => f \in File /\ local[c][f] # Absent /\ data = local[c][f],
           Call(c, rpc, f, data)
    PROVE  Inv'
  <1>1. TypeOK
    BY DEF Inv
  <1>2. PICK r \in Rpc : Own(r) /\ ~InUse(r) /\ call'[r] = Request(rpc, c, f, data)
    BY <1>1, CallIs
  <1>3. Idle(c) /\ TypeOK' /\ UNCHANGED <<name, inode, local, broken, gone>>
    BY <1>1, CallIs
  <1> DEFINE n == call'[r]
  <1>4. /\ n.rpc = rpc /\ n.client = c /\ n.file = f /\ n.data = data /\ n.at = "sent"
        /\ n.fd = Absent /\ n.live /\ ~n.opened
    BY <1>2 DEF Request
  <1> HIDE DEF n
  <1>5. /\ Others(r)
        /\ \A q \in Rpc \ {r} : call'[q] = call[q]
        /\ \A q \in Rpc \ {r} : InUse(q)' <=> InUse(q)
        /\ \A i : ~Stores(r, i) /\ ~Stores(r, i)'
    BY <1>2, <1>4 DEF Own, Others, Stores, At, InUse, n
  <1>6. \A g : SameFile(r, g)
    BY <1>3, <1>5 DEF SameFile, Stores
  <1>7. OneLive'
    <2> SUFFICES ASSUME NEW p \in Rpc, NEW q \in Rpc,
                        InUse(p)' /\ call'[p].live, InUse(q)' /\ call'[q].live,
                        call'[p].client = call'[q].client
                 PROVE  p = q
      BY DEF OneLive
    <2>1. \A o \in Rpc \ {r} : InUse(o)' /\ call'[o].live => call'[o].client # c
      BY <1>3, <1>5 DEF Idle
    <2>2. call'[r].client = c
      BY <1>4 DEF n
    <2>3. CASE p = r \/ q = r
      BY <2>1, <2>2, <2>3
    <2>4. CASE p # r /\ q # r
      BY <1>5, <2>4 DEF Inv, OneLive
    <2> QED BY <2>3, <2>4
  <1>8. Names'
    <2>1. ASSUME NEW q \in Rpc, NEW g \in File, InUse(q)', call'[q].fd # Absent, name[g] = call'[q].fd
          PROVE  g = call'[q].file
      <3>1. q # r
        BY <1>4, <2>1 DEF n
      <3> QED BY <1>5, <2>1, <3>1 DEF Inv, Names
    <2>2. \A g, h \in File : name[g] = name[h] /\ name[g] # Absent => g = h
      BY DEF Inv, Names
    <2> QED BY <1>3, <2>1, <2>2 DEF Names
  <1>9. ChunksInPlace'
    BY <1>3 DEF Inv, ChunksInPlace, InPlace
  <1>10. Calls'
    <2>1. rpc = "StoreFile" => InPlace(data)
      BY DEF Inv, ChunksInPlace
    <2>2. CallFits(r)' /\ FetchFits(r)' /\ StoreFits(r)' /\ AnswerFits(r)'
      BY <1>1, <1>2, <2>1, RequestFits
    <2>3. \A q \in Rpc \ {r} : InUse(q) => Spares(r, q)
      BY <1>3, <1>6 DEF Spares
    <2> QED BY <1>1, <1>3, <1>5, <2>2, <2>3, CallsKept DEF Inv
  <1>11. MixFits'
    <2> SUFFICES ASSUME NEW g \in File, name'[g] # Absent, g \notin broken' PROVE Mix(g)'
      BY DEF MixFits
    <2>1. name[g] # Absent /\ g \notin broken
      BY <1>3
    <2> QED BY <1>1, <1>5, <1>6, <2>1, MixOthers DEF Inv
  <1>12. CopiesFit'
    <2>1. ASSUME NEW d \in Client, NEW g \in File, g \notin broken, ~Fetching(d, g)'
          PROVE  local[d][g] \in {Absent, << >>} \/ Whole(local[d][g])
      <3>1. ~Fetching(d, g)
        <4> SUFFICES ASSUME NEW q \in Rpc, InUse(q), call[q].rpc = "FetchFile", call[q].opened,
                            call[q].client = d, call[q].file = g
                     PROVE  FALSE
          BY DEF Fetching
        <4>1. q # r
          BY <1>2
        <4> QED BY <1>5, <2>1, <4>1 DEF Fetching
      <3> QED BY <2>1, <3>1 DEF Inv, CopiesFit
    <2>2. ASSUME NEW q \in Rpc, InUse(q)', call'[q].rpc = "StoreFile", call'[q].file \notin broken
          PROVE  call'[q].data = << >> \/ Whole(call'[q].data)
      <3>1. CASE q = r
        <4>1. rpc = "StoreFile" /\ f \notin broken /\ call'[q].data = local[c][f]
          BY <1>4, <2>2, <3>1 DEF n
        <4>2. ~Fetching(c, f)
          BY <1>3, CallFacts DEF Fetching, Idle
        <4> QED BY <4>1, <4>2 DEF Inv, CopiesFit
      <3>2. CASE q # r
        BY <1>5, <2>2, <3>2 DEF Inv, CopiesFit
      <3> QED BY <3>1, <3>2
    <2> QED BY <1>3, <2>1, <2>2 DEF CopiesFit, Whole, Filled
  <1> QED BY <1>3, <1>7, <1>8, <1>9, <1>10, <1>11, <1>12 DEF Inv

\* Versions are whole, and in place.
LEMMA ContentIs ==
    ASSUME NEW s \in Contents
    PROVE  s \in Blocks /\ InPlace(s) /\ Whole(s)
  <1>1. PICK v \in Version : s = Content(v)
    BY DEF Contents
  <1>2. Size[v] \in Nat \ {0}
    BY TransferConstants
  <1>3. s = [i \in 1..Size[v] |-> Block(v, i)]
    BY <1>1 DEF Content
  <1>4. \A i \in 1..Size[v] : s[i] = Block(v, i) /\ Block(v, i) \in AnyBlock /\ Block(v, i) # Hole
    <2> TAKE i \in 1..Size[v]
    <2>1. s[i] = Block(v, i)
      BY <1>3
    <2>2. Block(v, i) \in AnyBlock
      BY DEF AnyBlock
    <2>3. Block(v, i) # Hole
      BY TransferConstants DEF Block
    <2> QED BY <2>1, <2>2, <2>3
  <1>5. Len(s) = Size[v] /\ s \in Blocks
    <2>1. s \in [1..Size[v] -> AnyBlock]
      BY <1>3, <1>4
    <2> QED BY <1>2, <1>3, <2>1, LenProperties DEF Blocks
  <1>6. InPlace(s)
    BY <1>4, <1>5 DEF InPlace
  <1>7. Filled(s)
    <2> SUFFICES ASSUME NEW p \in 1..Least PROVE p <= Len(s) /\ s[p] # Hole
      BY DEF Filled
    <2>1. p \in 1..Size[v]
      BY <1>2, LeastIs
    <2> QED BY <1>2, <1>4, <1>5, <2>1
  <1> QED BY <1>5, <1>6, <1>7 DEF Whole

LEMMA InitInv == Init => Inv
  <1> SUFFICES ASSUME Init PROVE Inv
    OBVIOUS
  <1>1. \A r \in Rpc : ~InUse(r) /\ call[r] = Unused
    BY DEF Init, InUse, Unused
  <1>2. /\ name \in [File -> Inode \cup {Absent}]
        /\ \A f, g \in File : name[f] = name[g] /\ name[f] # Absent => f = g
        /\ inode \in [Inode -> Contents \cup {<< >>}]
        /\ \A i \in Inode : (\E f \in File : name[f] = i) <=> inode[i] # << >>
        /\ local \in [Client -> [File -> Contents \cup {<< >>, Absent}]]
        /\ call = [r \in Rpc |-> Unused] /\ broken = {} /\ gone = 0
    BY DEF Init
  <1>3. TypeOK
    <2>1. inode \in [Inode -> Blocks]
      BY <1>2, ContentIs, BlocksType
    <2>2. local \in [Client -> [File -> Blocks \cup {Absent}]]
      <3>1. \A c \in Client : local[c] \in [File -> Blocks \cup {Absent}]
        BY <1>2, ContentIs, BlocksType
      <3> QED BY <1>2, <3>1
    <2>3. 0 \in 0..MaxGone
      BY TransferConstants
    <2> QED BY <1>1, <1>2, <2>1, <2>2, <2>3 DEF TypeOK
  <1>4. ChunksInPlace
    <2>1. InPlace(<< >>)
      BY DEF InPlace
    <2>2. \A i \in Inode : InPlace(inode[i])
      BY <1>2, <2>1, ContentIs
    <2>3. \A c \in Client, f \in File : local[c][f] # Absent => InPlace(local[c][f])
      BY <1>2, <2>1, ContentIs
    <2> QED BY <2>2, <2>3 DEF ChunksInPlace
  <1>5. MixFits
    <2> SUFFICES ASSUME NEW f \in File, name[f] # Absent PROVE Mix(f)
      BY DEF MixFits
    <2>1. Whole(inode[name[f]])
      BY <1>2, ContentIs
    <2> QED BY <2>1 DEF Mix, Whole
  <1>6. CopiesFit
    <2>1. \A c \in Client, f \in File : local[c][f] \in {Absent, << >>} \/ Whole(local[c][f])
      BY <1>2, ContentIs
    <2> QED BY <1>1, <2>1 DEF CopiesFit
  <1>7. Names
    BY <1>1, <1>2 DEF Names
  <1>8. OneLive /\ Calls
    BY <1>1 DEF OneLive, Calls
  <1> QED BY <1>3, <1>4, <1>5, <1>6, <1>7, <1>8 DEF Inv

LEMMA NextInv == Inv /\ [Next]_vars => Inv'
  <1> SUFFICES ASSUME Inv, [Next]_vars PROVE Inv'
    OBVIOUS
  <1>1. ASSUME NEW c \in Client, List(c) PROVE Inv'
    <2>1. Call(c, "ListFiles", Directory, << >>)
      BY <1>1 DEF List
    <2> QED BY <2>1, CallInv, BlocksType
  <1>2. ASSUME NEW c \in Client, NEW f \in File, Store(c, f) \/ Fetch(c, f) \/ Delete(c, f) \/ Stat(c, f)
        PROVE  Inv'
    <2>1. f # Directory
      BY TransferConstants DEF Directory
    <2>2. CASE Store(c, f)
      <3>1. Call(c, "StoreFile", f, local[c][f]) /\ local[c][f] # Absent
        BY <2>2 DEF Store
      <3>2. local[c][f] \in Blocks
        BY <3>1 DEF Inv, TypeOK
      <3> QED BY <2>1, <3>1, <3>2, CallInv
    <2>3. CASE Fetch(c, f)
      BY <2>1, <2>3, CallInv, BlocksType DEF Fetch
    <2>4. CASE Delete(c, f)
      BY <2>1, <2>4, CallInv, BlocksType DEF Delete
    <2>5. CASE Stat(c, f)
      BY <2>1, <2>5, CallInv, BlocksType DEF Stat
    <2> QED BY <1>2, <2>2, <2>3, <2>4, <2>5
  <1>3. ASSUME NEW r \in Rpc, ServerStep(r) PROVE Inv'
    BY <1>3, StoreFileOpenInv, StoreFileWriteInv, StoreFileWriteFailsInv, StoreFileEndInv,
       FetchFileOpenInv, FetchFileReadInv, FetchFileEndInv, DeleteFileInv, GetFileStatusInv, ListFilesOpenInv, ListFilesReadInv,
       ListFilesEndInv DEF ServerStep
  <1>4. ASSUME NEW r \in Rpc, Finish(r) PROVE Inv'
    <2>1. InUse(r) /\ Leave(r) /\ gone' \in 0..MaxGone
      BY <1>4 DEF Finish, Finished, Inv, TypeOK
    <2> QED BY <2>1, LeaveInv
  <1>5. ASSUME NEW r \in Rpc, GiveUp(r) PROVE Inv'
    <2>1. gone \in 0..MaxGone /\ MaxGone \in Nat
      BY TransferConstants DEF Inv, TypeOK
    <2>2. InUse(r) /\ Leave(r) /\ gone' \in 0..MaxGone
      BY <1>5, <2>1 DEF GiveUp
    <2> QED BY <2>2, LeaveInv
  <1>6. CASE UNCHANGED vars
    <2>1. UNCHANGED <<name, inode, local, call, broken, gone>>
      BY <1>6 DEF vars
    <2>2. TypeOK' /\ OneLive' /\ Names' /\ ChunksInPlace' /\ CopiesFit'
      BY <2>1 DEF Inv, TypeOK, OneLive, Names, ChunksInPlace, InPlace, CopiesFit, InUse, Fetching,
         Whole, Filled
    <2>3. MixFits'
      BY <2>1 DEF Inv, MixFits, Mix, Stores, At, InUse, Filled
    <2>4. Calls'
      <3> SUFFICES ASSUME NEW r \in Rpc, InUse(r)'
                   PROVE  CallFits(r)' /\ FetchFits(r)' /\ StoreFits(r)' /\ AnswerFits(r)'
        BY DEF Calls
      <3>1. InUse(r)
        BY <2>1 DEF InUse
      <3>2. CallFits(r)' /\ StoreFits(r)' /\ AnswerFits(r)'
        BY <2>1, <3>1 DEF Inv, Calls, CallFits, StoreFits, InPlace, AnswerFits
      <3>3. FetchFits(r)'
        <4>1. Written(r)' = Written(r) /\ Sent(r)' = Sent(r) /\ (FullChunks(r)' <=> FullChunks(r))
          BY <2>1 DEF Written, Sent, OnTheWay, FullChunks
        <4>2. \A p, b : Arrives(r, p, b)' <=> Arrives(r, p, b)
          BY <2>1, <4>1 DEF Arrives, Written, OnTheWay
        <4>3. Copied(r)' <=> Copied(r)
          BY <2>1, <4>1, <4>2 DEF Copied, BeingStored, At, InUse
        <4> QED BY <2>1, <3>1, <4>1, <4>2, <4>3 DEF Inv, Calls, FetchFits
      <3> QED BY <3>2, <3>3
    <2> QED BY <2>2, <2>3, <2>4 DEF Inv
  <1> QED BY <1>1, <1>2, <1>3, <1>4, <1>5, <1>6, FetchOpenInv, FetchReadInv, DropCallInv DEF Next

\* The inductive invariant holds in every state.
THEOREM InvHolds == Spec => []Inv
  BY InitInv, NextInv, PTL DEF Spec

\* The types, and that StoreFile and FetchFile have a file open exactly while they are
\* between their open and their close.
THEOREM TypeCorrect == Spec => []TypeOK
  <1>1. Inv => TypeOK
    BY DEF Inv
  <1> QED BY <1>1, InvHolds, PTL

\* Whatever runs concurrently or breaks off, each block of each file is at its own
\* place: the read and write loops of Store, StoreFile, Fetch and FetchFile lose,
\* double and swap no chunk in the middle of a file.
THEOREM BlocksAreInPlace == Spec => []ChunksInPlace
  <1>1. Inv => ChunksInPlace
    BY DEF Inv
  <1> QED BY <1>1, InvHolds, PTL

\* Fetch returns OK with all of the file, if nobody changed it meanwhile.
THEOREM FetchBringsAll == Spec => []FetchedIsSame
  <1>1. Inv => FetchedIsSame
    <2> SUFFICES ASSUME Inv, NEW r \in Rpc,
                        At(r, "FetchFile", "done"), call[r].status = "OK", Finished(r), ~call[r].disturbed
                 PROVE  local[call[r].client][call[r].file] = inode[name[call[r].file]]
      BY DEF FetchedIsSame
    <2> DEFINE m == call[r]
    <2>1. InUse(r) /\ m.rpc = "FetchFile" /\ m.at = "done" /\ m.opened /\ m.stream = << >>
      BY DEF At, Finished
    <2>2. TypeOK /\ FetchFits(r) /\ m.file \in File
      BY <2>1, CallFacts
    <2>3. Copied(r)
      BY <2>1, <2>2 DEF FetchFits
    <2>4. PICK s, w : s = local[m.client][m.file] /\ w = inode[name[m.file]]
      OBVIOUS
    <2>5. Written(r) = s /\ s \in Blocks /\ Sent(r) = Len(s)
      BY <2>1, <2>2, <2>4 DEF FetchFits, Written, Sent
    <2>6. /\ name[m.file] # Absent /\ Len(s) = Len(w)
          /\ \A p, b : Arrives(r, p, b) => b = w[p]
      BY <2>1, <2>3, <2>4, <2>5 DEF Copied
    <2>7. \A p \in 1..Len(s) : s[p] = w[p]
      <3> TAKE p \in 1..Len(s)
      <3>1. Arrives(r, p, s[p])
        BY <2>5 DEF Arrives
      <3> QED BY <2>6, <3>1
    <2>8. w \in Blocks
      BY <2>2, <2>4, <2>6 DEF TypeOK
    <2> QED BY <2>4, <2>5, <2>6, <2>7, <2>8, SeqEqual DEF Blocks
  <1> QED BY <1>1, InvHolds, PTL

\* A store that StoreFile answers with OK is on the server as it was sent, if nobody
\* else changed the file meanwhile.
THEOREM StoreBringsAll == Spec => []StoredIsSame
  <1>1. Inv => StoredIsSame
    BY DEF Inv, Calls, StoreFits, StoredIsSame, At
  <1> QED BY <1>1, InvHolds, PTL

\* ListFiles and GetFileStatus answer what there is, if nothing changed meanwhile.
THEOREM AnswersAreCurrent == Spec => []AnsweredIsCurrent
  <1>1. Inv => AnsweredIsCurrent
    <2> SUFFICES ASSUME Inv, NEW r \in Rpc, InUse(r)
                 PROVE  LET m == call[r]
                        IN  /\ At(r, "ListFiles", "done") /\ m.status = "OK" /\ ~m.disturbed
                                => /\ m.listing.listed = { f \in File : name[f] # Absent }
                                   /\ m.listing.gone = {}
                            /\ At(r, "GetFileStatus", "done") /\ m.status = "OK" /\ ~m.disturbed
                                => /\ name[m.file] # Absent
                                   /\ m.size = Len(inode[name[m.file]])
      BY DEF AnsweredIsCurrent, At
    <2>1. AnswerFits(r)
      BY CallFacts
    <2> QED BY <2>1 DEF AnswerFits, At
  <1> QED BY <1>1, InvHolds, PTL

\* Stores that overlap leave a file of the length of some version, without holes as
\* far as some version goes, when the last of the handlers is through.
THEOREM MixIsFilled == Spec => []MixedIsFilled
  <1>1. Inv => MixedIsFilled
    <2> SUFFICES ASSUME Inv, NEW f \in File, name[f] # Absent, f \notin broken, ~BeingStored(name[f])
                 PROVE  LET s == inode[name[f]]
                        IN  /\ \E v \in Version : Len(s) = Size[v]
                            /\ \E v \in Version : \A i \in 1..Size[v] : i <= Len(s) /\ s[i] # Hole
      BY DEF MixedIsFilled
    <2>1. Mix(f)
      BY DEF Inv, MixFits
    <2>2. \A r \in Rpc : ~Stores(r, name[f])
      BY DEF BeingStored, Stores
    <2>3. PICK s : s = inode[name[f]]
      OBVIOUS
    <2>4. PICK w \in Version : Len(s) = Size[w] /\ Filled(s)
      BY <2>1, <2>2, <2>3 DEF Mix
    <2>5. Least \in { Size[v] : v \in Version }
      BY LeastIs
    <2>6. PICK v \in Version : Least = Size[v]
      BY <2>5
    <2> QED BY <2>3, <2>4, <2>6 DEF Filled
  <1> QED BY <1>1, InvHolds, PTL
=============================================================================
