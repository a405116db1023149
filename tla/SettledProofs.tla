---------------------------- MODULE SettledProofs ----------------------------
(***************************************************************************)
(* A client alone on the server brings every change to it: the theorem     *)
(* that SettledIsInSync holds of ClientSync when there is one client and   *)
(* its user writes no empty files.                                         *)
(*                                                                         *)
(* The proof follows one file at a time.  What matters of a state are the  *)
(* two copies l and s of the file, the operation o, and the events q that  *)
(* the watcher has read or will read.  Follows says that a difference has  *)
(* a cause that is still to be handled, and that of a removal and a change *)
(* the later one is also handled later.  It is kept by each change of      *)
(* these four (the lemmas below), and each step of the model is one or two *)
(* of those changes.                                                       *)
(***************************************************************************)
EXTENDS ClientSyncProofs, SequenceTheorems

ChangeOf(e, f) == e.name = f /\ e.mask # "IN_DELETE"
RemovalOf(e, f) == e.name = f /\ e.mask = "IN_DELETE"

\* The operation o is one of those named, of file f.
Does(o, names, f) == o.name \in names /\ o.file = f

Storing == {"Store", "Put"}
Deleting == {"Delete", "Unlink"}

Follows(l, s, o, q, f) ==
    /\ l # Absent => l.data # Empty
    /\ s # Absent => s.data # Empty
    \* A file that differs will be stored, or deleted if it is gone.
    /\ l # Absent /\ ~SameData(l, s) =>
          Does(o, Storing, f) \/ \E i \in 1..Len(q) : ChangeOf(q[i], f)
    /\ l = Absent /\ ~SameData(l, s) =>
          Does(o, Deleting, f) \/ \E i \in 1..Len(q) : RemovalOf(q[i], f)
    \* If an old removal is still to be handled, a change comes after it.
    /\ l # Absent /\ Does(o, Deleting, f) => \E i \in 1..Len(q) : ChangeOf(q[i], f)
    /\ l # Absent =>
          \A i \in 1..Len(q) : RemovalOf(q[i], f) =>
              \E j \in 1..Len(q) : j > i /\ ChangeOf(q[j], f)
    \* Nobody deletes a file on the server while it is fetched.
    /\ Does(o, {"Transfer"}, f) => s # Absent

\* Read by the watcher or still in the kernel's queue.
Events(c) == watcher[c].batch \o inotify[c]

Followed ==
    interruptions = 0 => \A c \in Client :
        /\ Mounted(c) /\ strays = {} /\ abandoned = {}
        /\ \A f \in File : locks[f] \in {Absent, c}
        /\ \A f \in File \ Ignored :
              Follows(local[c][f], server[f], op[c], Events(c), f)

-----------------------------------------------------------------------------
(* Queues of events *)

\* r is q with more events, if any.
Continues(r, q) ==
    /\ Len(q) <= Len(r)
    /\ \A i \in 1..Len(q) : r[i] = q[i]

\* ... the last of which is a change of f, and none of another kind.
Changed(r, q, f) ==
    /\ Continues(r, q)
    /\ Len(r) > 0 /\ ChangeOf(r[Len(r)], f)
    /\ \A i \in 1..Len(r) : i > Len(q) => ChangeOf(r[i], f)

\* ... or a removal of f.
Removed(r, q, f) ==
    /\ Continues(r, q)
    /\ Len(r) > 0 /\ RemovalOf(r[Len(r)], f)
    /\ \A i \in 1..Len(r) : i > Len(q) => RemovalOf(r[i], f)

\* ... or an event e, and no other.
QueueOf(r, q, e) ==
    /\ r \in Seq(Event)
    /\ Continues(r, q)
    /\ Len(r) > 0 /\ r[Len(r)] = e
    /\ \A i \in 1..Len(r) : i > Len(q) => r[i] = e

\* An event is the last one of the queue then, and was put there if it was not.
LEMMA QueuedIs ==
    ASSUME NEW b \in Seq(Event), NEW k \in Seq(Event),
           NEW mask \in {"IN_CREATE", "IN_MODIFY", "IN_DELETE"}, NEW f \in File
    PROVE  /\ b \o k \in Seq(Event)
           /\ QueueOf(b \o Queued(k, mask, f), b \o k, [mask |-> mask, name |-> f])
<1> SUFFICES ASSUME NEW q, q = b \o k, NEW r, r = b \o Queued(k, mask, f),
                    NEW e, e = [mask |-> mask, name |-> f]
             PROVE  q \in Seq(Event) /\ QueueOf(r, q, e)
  OBVIOUS
<1>1. e \in Event
  BY DEF Event
<1>2. PICK x \in Event : x = e
  BY <1>1
<1>3. /\ q \in Seq(Event) /\ Len(q) = Len(b) + Len(k)
      /\ \A i \in 1..(Len(b) + Len(k)) : q[i] = IF i <= Len(b) THEN b[i] ELSE k[i - Len(b)]
  BY ConcatProperties
<1>4. Len(b) \in Nat /\ Len(k) \in Nat
  OBVIOUS
<1>5. CASE k # << >> /\ k[Len(k)] = x
  <2>1. Len(k) > 0
    BY <1>5
  <2>2. q[Len(q)] = x
    BY <1>3, <1>4, <1>5, <2>1
  <2>3. r = q
    BY <1>2, <1>5 DEF Queued
  <2>4. Len(q) > 0
    BY <1>3, <1>4, <2>1
  <2> QED
    BY <1>2, <1>3, <2>2, <2>3, <2>4 DEF Continues, QueueOf
<1>6. CASE ~(k # << >> /\ k[Len(k)] = x)
  <2>1. Queued(k, mask, f) = Append(k, x)
    BY <1>2, <1>6 DEF Queued
  <2>2. PICK a \in Seq(Event) :
           /\ a = Append(k, x) /\ Len(a) = Len(k) + 1
           /\ \A i \in 1..Len(k) : a[i] = k[i]
           /\ a[Len(k) + 1] = x
    BY AppendProperties
  <2>3. r = b \o a
    BY <2>1, <2>2
  <2>4. r \in Seq(Event)
    BY <2>3, ConcatProperties
  <2>5. /\ Len(r) = Len(b) + Len(a)
        /\ \A i \in 1..(Len(b) + Len(a)) : r[i] = IF i <= Len(b) THEN b[i] ELSE a[i - Len(b)]
    BY <2>3, ConcatProperties
  <2>6. ASSUME NEW i \in 1..Len(q) PROVE r[i] = q[i]
    <3>1. i <= Len(b) \/ i - Len(b) \in 1..Len(k)
      BY <1>3, <1>4
    <3>2. i \in 1..(Len(b) + Len(a)) /\ i \in 1..(Len(b) + Len(k))
      BY <1>3, <1>4, <2>2
    <3> QED
      BY <1>3, <2>2, <2>5, <3>1, <3>2
  <2>7. ASSUME NEW i \in 1..Len(r), i > Len(q) PROVE r[i] = x
    <3>1. Len(r) = Len(b) + Len(k) + 1 /\ Len(q) = Len(b) + Len(k)
      BY <1>3, <1>4, <2>2, <2>5
    <3>2. i = Len(b) + Len(k) + 1
      BY <1>4, <2>7, <3>1
    <3>3. i - Len(b) = Len(k) + 1 /\ ~(i <= Len(b))
      BY <1>4, <3>2
    <3> QED
      BY <2>2, <2>5, <3>3
  <2>8. Len(r) = Len(q) + 1 /\ Len(q) \in Nat
    BY <1>3, <1>4, <2>2, <2>5
  <2>9. r[Len(r)] = x /\ Len(r) > 0 /\ Len(q) <= Len(r)
    BY <2>7, <2>8
  <2> QED
    BY <1>2, <1>3, <2>4, <2>6, <2>7, <2>9 DEF Continues, QueueOf
<1> QED
  BY <1>5, <1>6

\* The events of a file that is written.
LEMMA TouchedIs ==
    ASSUME NEW b \in Seq(Event), NEW k \in Seq(Event), NEW existed \in BOOLEAN,
           NEW f \in File, NEW copy
    PROVE  LET r == b \o Touched(k, existed, f, copy)
           IN  r \in Seq(Event) /\ Changed(r, b \o k, f)
<1>1. \A m \in Seq(Event), mask \in {"IN_CREATE", "IN_MODIFY"} :
         /\ b \o Queued(m, mask, f) \in Seq(Event)
         /\ Changed(b \o Queued(m, mask, f), b \o m, f)
  <2> SUFFICES ASSUME NEW m \in Seq(Event), NEW mask \in {"IN_CREATE", "IN_MODIFY"}
               PROVE  /\ b \o Queued(m, mask, f) \in Seq(Event)
                      /\ Changed(b \o Queued(m, mask, f), b \o m, f)
    OBVIOUS
  <2>1. mask \in {"IN_CREATE", "IN_MODIFY", "IN_DELETE"}
    OBVIOUS
  <2>2. QueueOf(b \o Queued(m, mask, f), b \o m, [mask |-> mask, name |-> f])
    BY <2>1, QueuedIs
  <2>3. ChangeOf([mask |-> mask, name |-> f], f)
    BY DEF ChangeOf
  <2> QED
    BY <2>2, <2>3 DEF Changed, QueueOf
<1>2. ASSUME NEW q \in Seq(Event), NEW p \in Seq(Event), NEW r \in Seq(Event),
             Changed(p, q, f), Changed(r, p, f)
      PROVE  Changed(r, q, f)
  <2>1. Len(q) \in Nat /\ Len(p) \in Nat /\ Len(r) \in Nat
    OBVIOUS
  <2>2. Continues(r, q)
    BY <1>2, <2>1 DEF Changed, Continues
  <2>3. \A i \in 1..Len(r) : i > Len(q) => ChangeOf(r[i], f)
    BY <1>2, <2>1, SMTT(30) DEF Changed, Continues
  <2> QED
    BY <1>2, <2>2, <2>3 DEF Changed
<1>3. CASE existed
  BY <1>1, <1>3 DEF Touched
<1>4. CASE ~existed
  <2>1. PICK m \in Seq(Event) : m = Queued(k, "IN_CREATE", f)
    BY QueuedType
  <2>2. b \o m \in Seq(Event) /\ Changed(b \o m, b \o k, f)
    BY <1>1, <2>1
  <2>3. /\ b \o Queued(m, "IN_MODIFY", f) \in Seq(Event)
        /\ Changed(b \o Queued(m, "IN_MODIFY", f), b \o m, f)
    BY <1>1
  <2>4. b \o k \in Seq(Event)
    BY ConcatProperties
  <2>5. Changed(b \o Queued(m, "IN_MODIFY", f), b \o k, f)
    BY <1>2, <2>2, <2>3, <2>4
  <2>6. Touched(k, existed, f, copy) = IF copy.data # Empty THEN Queued(m, "IN_MODIFY", f) ELSE m
    BY <1>4, <2>1 DEF Touched
  <2> QED
    BY <2>2, <2>3, <2>5, <2>6
<1> QED
  BY <1>3, <1>4

\* The event of a file that is removed.
LEMMA RemovalIs ==
    ASSUME NEW b \in Seq(Event), NEW k \in Seq(Event), NEW f \in File
    PROVE  LET r == b \o Queued(k, "IN_DELETE", f)
           IN  r \in Seq(Event) /\ Removed(r, b \o k, f)
<1>1. QueueOf(b \o Queued(k, "IN_DELETE", f), b \o k, [mask |-> "IN_DELETE", name |-> f])
  BY QueuedIs
<1>2. RemovalOf([mask |-> "IN_DELETE", name |-> f], f)
  BY DEF RemovalOf
<1> QED
  BY <1>1, <1>2 DEF Removed, QueueOf
-----------------------------------------------------------------------------
(* What may happen to a file *)

\* The user or a fetch writes it.
LEMMA FollowsChange ==
    ASSUME NEW l, NEW s, NEW o, NEW f, NEW q \in Seq(Event), NEW r \in Seq(Event),
           Follows(l, s, o, q, f), Changed(r, q, f),
           NEW copy, copy # Absent, copy.data # Empty
    PROVE  Follows(copy, s, o, r, f)
<1>1. Len(r) \in 1..Len(r) /\ ChangeOf(r[Len(r)], f)
  BY DEF Changed
<1>2. ASSUME NEW i \in 1..Len(r), RemovalOf(r[i], f)
      PROVE  \E j \in 1..Len(r) : j > i /\ ChangeOf(r[j], f)
  <2>1. i # Len(r)
    BY <1>1, <1>2 DEF RemovalOf, ChangeOf
  <2>2. Len(r) > i
    BY <2>1
  <2> QED
    BY <1>1, <2>2
<1> QED
  BY <1>1, <1>2 DEF Follows

\* The user or the async thread removes it.
LEMMA FollowsRemoval ==
    ASSUME NEW l, NEW s, NEW o, NEW f, NEW q \in Seq(Event), NEW r \in Seq(Event),
           Follows(l, s, o, q, f), Removed(r, q, f)
    PROVE  Follows(Absent, s, o, r, f)
<1>1. Len(r) \in 1..Len(r) /\ RemovalOf(r[Len(r)], f)
  BY DEF Removed
<1> QED
  BY <1>1 DEF Follows

\* Events of other files come.
LEMMA FollowsOthers ==
    ASSUME NEW l, NEW s, NEW o, NEW f, NEW q \in Seq(Event), NEW r \in Seq(Event),
           Follows(l, s, o, q, f), Continues(r, q),
           \A i \in 1..Len(r) : i > Len(q) => r[i].name # f
    PROVE  Follows(l, s, o, r, f)
<1>1. Len(q) \in Nat /\ Len(r) \in Nat /\ Len(q) <= Len(r) /\ \A i \in 1..Len(q) : r[i] = q[i]
  BY DEF Continues
<1>2. \A i \in 1..Len(q) : i \in 1..Len(r)
  BY <1>1
<1>3. (\E i \in 1..Len(q) : ChangeOf(q[i], f)) => \E i \in 1..Len(r) : ChangeOf(r[i], f)
  BY <1>1, <1>2
<1>4. (\E i \in 1..Len(q) : RemovalOf(q[i], f)) => \E i \in 1..Len(r) : RemovalOf(r[i], f)
  BY <1>1, <1>2
<1>5. ASSUME l # Absent, NEW i \in 1..Len(r), RemovalOf(r[i], f)
      PROVE  \E j \in 1..Len(r) : j > i /\ ChangeOf(r[j], f)
  <2>1. i \in 1..Len(q)
    BY <1>1, <1>5 DEF RemovalOf
  <2>2. RemovalOf(q[i], f)
    BY <1>1, <1>5, <2>1
  <2>3. PICK j \in 1..Len(q) : j > i /\ ChangeOf(q[j], f)
    BY <1>5, <2>1, <2>2 DEF Follows
  <2> QED
    BY <1>1, <1>2, <2>3
<1> QED
  BY <1>3, <1>4, <1>5 DEF Follows

\* The watcher takes the first event and begins what it asks for.
LEMMA FollowsHandled ==
    ASSUME NEW l, NEW s, NEW o, NEW f, NEW q \in Seq(Event), NEW p, q # << >>,
           Follows(l, s, o, q, f), o = NoOp,
           ChangeOf(Head(q), f) => Does(p, Storing, f),
           RemovalOf(Head(q), f) <=> Does(p, Deleting, f),
           ~Does(p, {"Transfer"}, f)
    PROVE  Follows(l, s, p, Tail(q), f)
<1>1. PICK r \in Seq(Event) : r = Tail(q)
  BY HeadTailProperties
<1>2. Len(q) \in Nat \ {0} /\ Len(r) = Len(q) - 1 /\ Head(q) = q[1]
  BY <1>1, HeadTailProperties
<1>3. \A i \in 1..Len(r) : r[i] = q[i + 1] /\ i + 1 \in 1..Len(q)
  BY <1>1, <1>2, HeadTailProperties
<1>4. \A i \in 1..Len(q) : i = 1 \/ (i - 1 \in 1..Len(r) /\ r[i - 1] = q[i])
  <2> TAKE i \in 1..Len(q)
  <2>1. CASE i # 1
    <3>1. i - 1 \in 1..Len(r)
      BY <1>2, <2>1
    <3>2. r[i - 1] = q[i - 1 + 1] /\ i - 1 + 1 = i
      BY <1>3, <3>1
    <3> QED
      BY <3>1, <3>2
  <2> QED
    BY <2>1
<1>5. ~Does(o, Storing, f) /\ ~Does(o, Deleting, f)
  BY DEF NoOp, Does, Storing, Deleting
<1>6. (\E i \in 1..Len(q) : ChangeOf(q[i], f)) =>
         Does(p, Storing, f) \/ \E i \in 1..Len(r) : ChangeOf(r[i], f)
  <2>1. ASSUME NEW i \in 1..Len(q), ChangeOf(q[i], f)
        PROVE  Does(p, Storing, f) \/ \E k \in 1..Len(r) : ChangeOf(r[k], f)
    <3>1. CASE i = 1
      BY <1>2, <2>1, <3>1
    <3>2. CASE i # 1
      BY <1>4, <2>1, <3>2
    <3> QED
      BY <3>1, <3>2
  <2> QED
    BY <2>1
<1>7. (\E i \in 1..Len(q) : RemovalOf(q[i], f)) =>
         Does(p, Deleting, f) \/ \E i \in 1..Len(r) : RemovalOf(r[i], f)
  <2>1. ASSUME NEW i \in 1..Len(q), RemovalOf(q[i], f)
        PROVE  Does(p, Deleting, f) \/ \E k \in 1..Len(r) : RemovalOf(r[k], f)
    <3>1. CASE i = 1
      BY <1>2, <2>1, <3>1
    <3>2. CASE i # 1
      BY <1>4, <2>1, <3>2
    <3> QED
      BY <3>1, <3>2
  <2> QED
    BY <2>1
<1>8. ASSUME l # Absent, NEW i \in 1..Len(q), RemovalOf(q[i], f)
      PROVE  \E j \in 1..Len(r) : j > i - 1 /\ ChangeOf(r[j], f)
  <2>1. PICK j \in 1..Len(q) : j > i /\ ChangeOf(q[j], f)
    BY <1>8 DEF Follows
  <2>2. j # 1 /\ j - 1 > i - 1
    BY <2>1
  <2> QED
    BY <1>4, <2>1, <2>2
<1>9. l # Absent /\ Does(p, Deleting, f) => \E i \in 1..Len(r) : ChangeOf(r[i], f)
  <2>1. 1 \in 1..Len(q)
    BY <1>2
  <2> QED
    BY <1>2, <1>8, <2>1
<1>10. ASSUME l # Absent, NEW i \in 1..Len(r), RemovalOf(r[i], f)
       PROVE  \E j \in 1..Len(r) : j > i /\ ChangeOf(r[j], f)
  <2>1. i + 1 \in 1..Len(q) /\ RemovalOf(q[i + 1], f) /\ i + 1 - 1 = i
    BY <1>3, <1>10
  <2> QED
    BY <1>8, <1>10, <2>1
<1>11. /\ l # Absent => l.data # Empty
       /\ s # Absent => s.data # Empty
       /\ l # Absent /\ ~SameData(l, s) => \E i \in 1..Len(q) : ChangeOf(q[i], f)
       /\ l = Absent /\ ~SameData(l, s) => \E i \in 1..Len(q) : RemovalOf(q[i], f)
  BY <1>5 DEF Follows
<1>12. Follows(l, s, p, r, f)
  BY <1>6, <1>7, <1>9, <1>10, <1>11 DEF Follows
<1> QED
  BY <1>1, <1>12

\* A thread begins an operation, or goes on to its second half.
LEMMA FollowsBegin ==
    ASSUME NEW l, NEW s, NEW o, NEW f, NEW q, NEW p,
           Follows(l, s, o, q, f),
           Does(o, Storing, f) => Does(p, Storing, f),
           Does(o, Deleting, f) <=> Does(p, Deleting, f),
           Does(p, {"Transfer"}, f) => s # Absent
    PROVE  Follows(l, s, p, q, f)
BY DEF Follows

\* Store ends.
LEMMA FollowsStored ==
    ASSUME NEW l, NEW s, NEW o, NEW f, NEW q, NEW mtime,
           Follows(l, s, o, q, f), Does(o, {"Put"}, f)
    PROVE  /\ (l = Absent \/ SameData(l, s) \/ l.data = Empty) => Follows(l, s, NoOp, q, f)
           /\ (l # Absent /\ [data |-> l.data, mtime |-> mtime] # Absent) =>
                 Follows(l, [data |-> l.data, mtime |-> mtime], NoOp, q, f)
<1>1. /\ ~Does(o, Deleting, f) /\ ~Does(o, {"Transfer"}, f)
      /\ ~Does(NoOp, Deleting, f) /\ ~Does(NoOp, {"Transfer"}, f)
  BY DEF Does, Deleting, NoOp
<1>2. (l = Absent \/ SameData(l, s) \/ l.data = Empty) => Follows(l, s, NoOp, q, f)
  BY <1>1 DEF Follows
<1>3. ASSUME l # Absent, NEW t, t = [data |-> l.data, mtime |-> mtime], t # Absent
      PROVE  Follows(l, t, NoOp, q, f)
  <2>1. t.data = l.data
    BY <1>3
  <2>2. SameData(l, t)
    BY <1>3, <2>1 DEF SameData
  <2> QED
    BY <1>1, <1>3, <2>1, <2>2 DEF Follows
<1> QED
  BY <1>2, <1>3

\* Delete ends: the server does not have the file.
LEMMA FollowsDeleted ==
    ASSUME NEW l, NEW s, NEW o, NEW f, NEW q,
           Follows(l, s, o, q, f), Does(o, {"Unlink"}, f)
    PROVE  Follows(l, Absent, NoOp, q, f)
<1>1. /\ Does(o, Deleting, f)
      /\ ~Does(NoOp, Deleting, f) /\ ~Does(NoOp, {"Transfer"}, f)
  BY DEF Does, Deleting, NoOp
<1>2. l = Absent => SameData(l, Absent)
  BY DEF SameData
<1> QED
  BY <1>1, <1>2 DEF Follows

\* Fetch ends: the local file is the server's.
LEMMA FollowsFetched ==
    ASSUME NEW l, NEW s, NEW o, NEW f, NEW q,
           Follows(l, s, o, q, f), SameData(l, s),
           ~Does(o, Deleting, f)
    PROVE  Follows(l, s, NoOp, q, f)
<1>1. ~Does(NoOp, Deleting, f) /\ ~Does(NoOp, {"Transfer"}, f)
  BY DEF Does, Deleting, NoOp
<1> QED
  BY <1>1 DEF Follows

\* An operation of another file, or one that has no more to do, ends.
LEMMA FollowsEnd ==
    ASSUME NEW l, NEW s, NEW o, NEW f, NEW q,
           Follows(l, s, o, q, f), ~Does(o, Storing, f), ~Does(o, Deleting, f)
    PROVE  Follows(l, s, NoOp, q, f)
BY DEF Follows, Does, NoOp, Deleting, Storing

-----------------------------------------------------------------------------
(* The steps of the model *)

\* All files that the watcher knows.
FilesFollow(c) ==
    \A f \in File \ Ignored : Follows(local[c][f], server[f], op[c], Events(c), f)

\* A client writes a file of its mount: the events follow in the kernel's queue.
LEMMA WriteIs ==
    ASSUME TypeOK, NEW c \in Client, Mounted(c), watcher' = watcher,
           NEW g \in File, NEW copy, WriteLocal(c, g, copy)
    PROVE  /\ Events(c) \in Seq(Event) /\ Events(c)' \in Seq(Event)
           /\ Changed(Events(c)', Events(c), g)
           /\ local'[c][g] = copy
           /\ \A f \in File : f # g => local'[c][f] = local[c][f]
<1>1. watcher[c].batch \in Seq(Event) /\ inotify[c] \in Seq(Event)
  BY DEF TypeOK, WatcherThread
<1>2. PICK existed \in BOOLEAN : existed = Exists(local[c], g)
  BY DEF Exists
<1>3. inotify'[c] = Touched(inotify[c], existed, g, copy)
  BY <1>2 DEF WriteLocal, TypeOK
<1>4. Events(c)' = watcher[c].batch \o Touched(inotify[c], existed, g, copy)
  BY <1>3 DEF Events
<1>5. PICK r : r = Events(c)'
  OBVIOUS
<1>6. r \in Seq(Event) /\ Changed(r, Events(c), g)
  BY <1>1, <1>4, <1>5, TouchedIs DEF Events
<1>7. Events(c) \in Seq(Event)
  BY <1>1, ConcatProperties DEF Events
<1>8. local'[c][g] = copy /\ \A f \in File : f # g => local'[c][f] = local[c][f]
  BY DEF WriteLocal, TypeOK, Files
<1>9. Events(c)' \in Seq(Event) /\ Changed(r, Events(c), g)
  BY <1>5, <1>6
<1> QED
  BY <1>5, <1>6, <1>7, <1>8, <1>9

\* ... for that file
LEMMA WriteFollows ==
    ASSUME TypeOK, NEW c \in Client, Mounted(c), watcher' = watcher,
           NEW f \in File, NEW copy \in Copy, copy.data # Empty, WriteLocal(c, f, copy),
           Follows(local[c][f], server[f], op[c], Events(c), f)
    PROVE  Follows(local'[c][f], server[f], op[c], Events(c)', f)
<1>1. PICK r : r = Events(c)'
  OBVIOUS
<1>2. /\ Events(c) \in Seq(Event) /\ r \in Seq(Event)
      /\ Changed(r, Events(c), f) /\ local'[c][f] = copy
  BY <1>1, WriteIs
<1>3. copy # Absent
  BY AbsentIsNoCopy
<1>4. Follows(local'[c][f], server[f], op[c], r, f)
  BY <1>2, <1>3, FollowsChange
<1> QED
  BY <1>1, <1>4

\* ... and for another one.
LEMMA WriteOfOther ==
    ASSUME TypeOK, NEW c \in Client, Mounted(c), watcher' = watcher,
           NEW g \in File, NEW copy, WriteLocal(c, g, copy),
           NEW f \in File, f # g, Follows(local[c][f], server[f], op[c], Events(c), f)
    PROVE  Follows(local'[c][f], server[f], op[c], Events(c)', f)
<1>1. PICK r : r = Events(c)'
  OBVIOUS
<1>2. /\ Events(c) \in Seq(Event) /\ r \in Seq(Event)
      /\ Changed(r, Events(c), g) /\ local'[c][f] = local[c][f]
  BY <1>1, WriteIs
<1>3. Continues(r, Events(c)) /\ \A i \in 1..Len(r) : i > Len(Events(c)) => r[i].name # f
  BY <1>2 DEF Changed, ChangeOf
<1>4. Follows(local'[c][f], server[f], op[c], r, f)
  BY <1>2, <1>3, FollowsOthers
<1> QED
  BY <1>1, <1>4

\* A client removes a file of its mount.
LEMMA RemoveFollows ==
    ASSUME TypeOK, NEW c \in Client, Mounted(c), watcher' = watcher,
           NEW g \in File, RemoveLocal(c, g),
           NEW f \in File, Follows(local[c][f], server[f], op[c], Events(c), f)
    PROVE  Follows(local'[c][f], server[f], op[c], Events(c)', f)
<1>1. watcher[c].batch \in Seq(Event) /\ inotify[c] \in Seq(Event)
  BY DEF TypeOK, WatcherThread
<1>2. PICK q \in Seq(Event) : q = Events(c)
  BY <1>1, ConcatProperties DEF Events
<1>3. inotify'[c] = Queued(inotify[c], "IN_DELETE", g)
  BY DEF RemoveLocal, TypeOK
<1>4. PICK r : r = Events(c)'
  OBVIOUS
<1>5. r = watcher[c].batch \o Queued(inotify[c], "IN_DELETE", g)
  BY <1>3, <1>4 DEF Events
<1>6. r \in Seq(Event) /\ Removed(r, q, g)
  BY <1>1, <1>2, <1>5, RemovalIs DEF Events
<1>7. Follows(local'[c][f], server[f], op[c], r, f)
  <2>1. CASE f = g
    <3>1. local'[c][f] = Absent
      BY <2>1 DEF RemoveLocal, TypeOK, Files
    <3> QED
      BY <1>2, <1>6, <2>1, <3>1, FollowsRemoval
  <2>2. CASE f # g
    <3>1. local'[c][f] = local[c][f]
      BY <2>2 DEF RemoveLocal, TypeOK, Files
    <3>2. Continues(r, q) /\ \A i \in 1..Len(r) : i > Len(q) => r[i].name # f
      BY <1>6, <2>2 DEF Removed, RemovalOf
    <3> QED
      BY <1>2, <1>6, <3>1, <3>2, FollowsOthers
  <2> QED
    BY <2>1, <2>2
<1> QED
  BY <1>4, <1>7

\* The first of two parts loses its head.
LEMMA TailOfParts ==
    ASSUME NEW b \in Seq(Event), NEW k \in Seq(Event), b # << >>
    PROVE  /\ b \o k \in Seq(Event) /\ b \o k # << >>
           /\ Head(b \o k) = Head(b)
           /\ Tail(b) \o k = Tail(b \o k)
<1>1. /\ b \o k \in Seq(Event) /\ Len(b \o k) = Len(b) + Len(k)
      /\ \A i \in 1..(Len(b) + Len(k)) : (b \o k)[i] = IF i <= Len(b) THEN b[i] ELSE k[i - Len(b)]
  BY ConcatProperties
<1>2. PICK q \in Seq(Event) : q = b \o k
  BY <1>1
<1>3. Len(b) \in Nat \ {0} /\ Len(k) \in Nat
  OBVIOUS
<1>4. q # << >> /\ q[1] = b[1]
  BY <1>1, <1>2, <1>3
<1>5. PICK t \in Seq(Event) :
         t = Tail(b) /\ Len(t) = Len(b) - 1 /\ \A i \in 1..Len(t) : t[i] = b[i + 1]
  BY HeadTailProperties
<1>6. PICK u \in Seq(Event) :
         u = Tail(q) /\ Len(u) = Len(q) - 1 /\ \A i \in 1..Len(u) : u[i] = q[i + 1]
  <2>1. /\ Tail(q) \in Seq(Event) /\ Len(Tail(q)) = Len(q) - 1
        /\ \A i \in 1..Len(Tail(q)) : Tail(q)[i] = q[i + 1]
    BY <1>4, HeadTailProperties
  <2> QED
    BY <2>1
<1>7. PICK v \in Seq(Event) :
         /\ v = t \o k /\ Len(v) = Len(t) + Len(k)
         /\ \A i \in 1..(Len(t) + Len(k)) : v[i] = IF i <= Len(t) THEN t[i] ELSE k[i - Len(t)]
  <2>1. /\ t \o k \in Seq(Event) /\ Len(t \o k) = Len(t) + Len(k)
        /\ \A i \in 1..(Len(t) + Len(k)) :
              (t \o k)[i] = IF i <= Len(t) THEN t[i] ELSE k[i - Len(t)]
    BY ConcatProperties
  <2> QED
    BY <2>1
<1>8. Len(u) = Len(v)
  BY <1>1, <1>2, <1>3, <1>5, <1>6, <1>7
<1>9. ASSUME NEW i \in 1..Len(u) PROVE u[i] = v[i]
  <2>1. i + 1 \in 1..(Len(b) + Len(k)) /\ i \in 1..(Len(t) + Len(k))
    BY <1>1, <1>2, <1>3, <1>5, <1>6
  <2>2. u[i] = IF i + 1 <= Len(b) THEN b[i + 1] ELSE k[i + 1 - Len(b)]
    BY <1>1, <1>2, <1>6, <2>1
  <2>3. CASE i <= Len(t)
    <3>1. i + 1 <= Len(b) /\ i \in 1..Len(t)
      BY <1>3, <1>5, <2>3
    <3> QED
      BY <1>5, <1>7, <2>1, <2>2, <2>3, <3>1
  <2>4. CASE ~(i <= Len(t))
    <3>1. ~(i + 1 <= Len(b)) /\ i + 1 - Len(b) = i - Len(t)
      BY <1>3, <1>5, <2>4
    <3> QED
      BY <1>7, <2>1, <2>2, <2>4, <3>1
  <2> QED
    BY <2>3, <2>4
<1>10. u = v
  BY <1>8, <1>9, SeqEqual
<1> QED
  BY <1>2, <1>4, <1>5, <1>6, <1>7, <1>10, SMTT(60)

\* The watcher: reading the queue loses no event, and each is handled in its turn.
LEMMA WatcherFollows ==
    ASSUME TypeOK, NEW c \in Client, FilesFollow(c), WatcherStep(c) \/ WatcherLock(c)
    PROVE  FilesFollow(c)'
<1>1. watcher[c].batch \in Seq(Event) /\ inotify[c] \in Seq(Event) /\ watcher[c] \in WatcherThread
  BY DEF TypeOK, WatcherThread
<1>2. local' = local /\ server' = server
  BY DEF WatcherStep, WatcherRead, WatcherEvent, WatcherUnlock, WatcherLock
<1>3. CASE WatcherRead(c)
  <2>1. watcher'[c].batch = inotify[c] /\ inotify'[c] = << >> /\ watcher[c].batch = << >>
    BY <1>1, <1>3 DEF WatcherRead, TypeOK, WatcherThread
  <2>2. Events(c)' = Events(c)
    BY <1>1, <2>1, ConcatEmptySeq DEF Events
  <2>3. op' = op
    BY <1>3 DEF WatcherRead
  <2> QED
    BY <1>2, <2>2, <2>3 DEF FilesFollow
<1>4. CASE WatcherLock(c) \/ WatcherUnlock(c)
  <2>1. watcher'[c].batch = watcher[c].batch /\ inotify' = inotify /\ op' = op
    BY <1>1, <1>4 DEF WatcherLock, WatcherUnlock, TypeOK, WatcherThread
  <2>2. Events(c)' = Events(c)
    BY <2>1 DEF Events
  <2> QED
    BY <1>2, <2>1, <2>2 DEF FilesFollow
<1>5. CASE WatcherEvent(c)
  <2>1. /\ watcher[c].batch # << >> /\ op[c] = NoOp
        /\ watcher'[c].batch = Tail(watcher[c].batch) /\ inotify' = inotify
    BY <1>1, <1>5 DEF WatcherEvent, TypeOK, WatcherThread
  <2>2. PICK q \in Seq(Event) : q = Events(c) /\ q # << >> /\ Head(q) = Head(watcher[c].batch)
    BY <1>1, <2>1, TailOfParts DEF Events
  <2>3. Events(c)' = Tail(q)
    <3>1. Events(c)' = Tail(watcher[c].batch) \o inotify[c]
      BY <2>1 DEF Events
    <3>2. Tail(watcher[c].batch) \o inotify[c] = Tail(watcher[c].batch \o inotify[c])
      BY <1>1, <2>1, TailOfParts
    <3>3. q = watcher[c].batch \o inotify[c]
      BY <2>2 DEF Events
    <3> QED
      BY <3>1, <3>2, <3>3
  <2>4. PICK e \in Event : e = Head(q)
    BY <2>2, HeadTailProperties
  <2>5. \/ e.name \in Ignored /\ op' = op
        \/ /\ e.mask # "IN_DELETE"
           /\ op'[c] = [name |-> "Store", file |-> e.name]
        \/ /\ e.mask = "IN_DELETE"
           /\ op'[c] = [name |-> "Delete", file |-> e.name]
    BY <1>5, <2>2, <2>4 DEF WatcherEvent, Begin, TypeOK
  <2>6. ASSUME NEW f \in File \ Ignored
        PROVE  Follows(local[c][f], server[f], op'[c], Tail(q), f)
    <3>1. Follows(local[c][f], server[f], op[c], q, f)
      BY <2>2 DEF FilesFollow
    <3>2. CASE e.name \in Ignored /\ op' = op
      BY <2>1, <2>2, <2>4, <3>1, <3>2, FollowsHandled
         DEF ChangeOf, RemovalOf, NoOp, Does, Deleting
    <3>3. CASE e.mask # "IN_DELETE" /\ op'[c] = [name |-> "Store", file |-> e.name]
      BY <2>1, <2>2, <2>4, <3>1, <3>3, FollowsHandled
         DEF ChangeOf, RemovalOf, Does, Deleting, Storing
    <3>4. CASE e.mask = "IN_DELETE" /\ op'[c] = [name |-> "Delete", file |-> e.name]
      BY <2>1, <2>2, <2>4, <3>1, <3>4, FollowsHandled
         DEF ChangeOf, RemovalOf, Does, Deleting, Storing
    <3> QED
      BY <2>5, <3>2, <3>3, <3>4
  <2> QED
    BY <1>2, <2>3, <2>6 DEF FilesFollow
<1> QED
  BY <1>3, <1>4, <1>5 DEF WatcherStep

\* The async thread: a file the listing lacks is removed, for others an operation
\* begins.
LEMMA AsyncFollows ==
    ASSUME TypeOK, NEW c \in Client, Exclusive(c), Mounted(c), FilesFollow(c), AsyncStep(c)
    PROVE  FilesFollow(c)' /\ Mounted(c)'
<1>1. server' = server /\ watcher' = watcher
  BY DEF AsyncStep, LocalDone, InitCallbackList, VisitLocal, VisitRemote
<1>2. Mounted(c)'
  BY DEF AsyncStep, LocalDone, InitCallbackList, VisitLocal, VisitRemote, Mounted, Asking,
         TypeOK, AsyncThread
<1>3. CASE LocalDone(c) \/ InitCallbackList(c)
  <2>1. UNCHANGED <<local, inotify, op>>
    BY <1>3 DEF LocalDone, InitCallbackList
  <2> QED
    BY <1>1, <1>2, <2>1 DEF FilesFollow, Events
<1>4. ASSUME NEW g \in File, NEW name \in {"Fetch", "Store"}, op[c] = NoOp,
             Begin(c, name, g), UNCHANGED <<local, inotify>>
      PROVE  FilesFollow(c)'
  <2>1. op'[c] = [name |-> name, file |-> g]
    BY <1>4 DEF Begin, TypeOK
  <2>2. Events(c)' = Events(c)
    BY <1>1, <1>4 DEF Events
  <2>3. ASSUME NEW f \in File \ Ignored
        PROVE  Follows(local[c][f], server[f], op'[c], Events(c), f)
    <3>1. Follows(local[c][f], server[f], op[c], Events(c), f)
      BY DEF FilesFollow
    <3>2. /\ ~Does(op[c], Storing, f) /\ ~Does(op[c], Deleting, f)
          /\ ~Does(op'[c], Deleting, f) /\ ~Does(op'[c], {"Transfer"}, f)
      BY <1>4, <2>1 DEF Does, Storing, Deleting, NoOp
    <3> QED
      BY <3>1, <3>2, FollowsBegin
  <2> QED
    BY <1>1, <1>4, <2>2, <2>3 DEF FilesFollow
<1>5. ASSUME NEW g \in File, VisitLocal(c, g) PROVE FilesFollow(c)'
  <2>1. CASE RemoveLocal(c, g) /\ UNCHANGED op
    BY <1>1, <2>1, RemoveFollows DEF FilesFollow
  <2>2. CASE UNCHANGED <<local, inotify, op>>
    BY <1>1, <2>2 DEF FilesFollow, Events
  <2> QED
    BY <1>4, <1>5, <2>1, <2>2 DEF VisitLocal
<1>6. ASSUME NEW g \in File, VisitRemote(c, g) PROVE FilesFollow(c)'
  BY <1>4, <1>6 DEF VisitRemote
<1> QED
  BY <1>2, <1>3, <1>5, <1>6 DEF AsyncStep

\* The operations: Store and Delete do on the server what the events ask for, if
\* the mount still has or lacks the file, and Fetch undoes a change of the mount.
LEMMA OperationFollows ==
    ASSUME TypeOK, NEW c \in Client, Mounted(c), FilesFollow(c), OperationStep(c),
           \A f \in File : locks[f] \in {Absent, c},
           op[c].name \in {"Put", "Unlink"} => locks[op[c].file] = c
    PROVE  /\ FilesFollow(c)' /\ Mounted(c)'
           /\ \A f \in File : locks'[f] \in {Absent, c}
<1> DEFINE g == op[c].file
<1>1. op[c] \in Operation /\ g \in File
  BY OperationFile
     DEF OperationStep, RequestWriteAccess, StoreFile, DeleteFile, FetchStat, FetchFile
<1>2. watcher' = watcher /\ sync' = sync
  BY DEF OperationStep, RequestWriteAccess, StoreFile, DeleteFile, FetchStat, FetchFile
<1>3. Mounted(c)'
  BY <1>2 DEF Mounted
<1>4. \A f \in File : locks'[f] \in {Absent, c}
  <2>1. op[c].name \in {"Put", "Unlink"} => locks[g] = c
    OBVIOUS
  <2> QED
    BY <1>1, <2>1 DEF OperationStep, RequestWriteAccess, StoreFile, WholeStore, DeleteFile,
                      FetchStat, FetchFile, TypeOK
<1>5. ASSUME NEW f \in File \ Ignored
      PROVE  Follows(local[c][f], server[f], op[c], Events(c), f)
  BY DEF FilesFollow
<1>6. CASE RequestWriteAccess(c)
  <2>1. op'[c] = [name |-> IF op[c].name = "Store" THEN "Put" ELSE "Unlink", file |-> g]
        /\ op[c].name \in {"Store", "Delete"}
    BY <1>1, <1>6 DEF RequestWriteAccess, Begin, TypeOK
  <2>2. UNCHANGED <<server, local, inotify>>
    BY <1>6 DEF RequestWriteAccess
  <2>3. Events(c)' = Events(c)
    BY <1>2, <2>2 DEF Events
  <2>4. ASSUME NEW f \in File \ Ignored
        PROVE  Follows(local[c][f], server[f], op'[c], Events(c), f)
    <3>1. /\ Does(op[c], Storing, f) => Does(op'[c], Storing, f)
          /\ Does(op[c], Deleting, f) <=> Does(op'[c], Deleting, f)
          /\ ~Does(op'[c], {"Transfer"}, f)
      BY <2>1 DEF Does, Storing, Deleting
    <3> QED
      BY <1>5, <3>1, FollowsBegin
  <2> QED
    BY <1>3, <1>4, <2>2, <2>3, <2>4 DEF FilesFollow
<1>7. CASE FetchStat(c)
  <2>1. op[c].name = "Fetch" /\ UNCHANGED <<server, local, inotify>>
    BY <1>7 DEF FetchStat
  <2>2. \/ op'[c] = [name |-> "Transfer", file |-> g] /\ server[g] # Absent
        \/ op'[c] = NoOp
    BY <1>7 DEF FetchStat, Begin, End, Exists, TypeOK
  <2>3. Events(c)' = Events(c)
    BY <1>2, <2>1 DEF Events
  <2>4. ASSUME NEW f \in File \ Ignored
        PROVE  Follows(local[c][f], server[f], op'[c], Events(c), f)
    <3>1. /\ ~Does(op[c], Storing, f) /\ ~Does(op[c], Deleting, f)
          /\ ~Does(op'[c], Deleting, f)
          /\ Does(op'[c], {"Transfer"}, f) => server[f] # Absent
      BY <2>1, <2>2 DEF Does, Storing, Deleting, NoOp
    <3> QED
      BY <1>5, <3>1, FollowsBegin
  <2> QED
    BY <1>3, <1>4, <2>1, <2>3, <2>4 DEF FilesFollow
<1>8. CASE StoreFile(c) \/ DeleteFile(c)
  <2>1. UNCHANGED <<local, inotify>> /\ op'[c] = NoOp
    BY <1>8 DEF StoreFile, DeleteFile, End, TypeOK
  <2>2. Events(c)' = Events(c)
    BY <1>2, <2>1 DEF Events
  <2>3. \A f \in File : f # g => server'[f] = server[f]
    BY <1>1, <1>8 DEF StoreFile, WholeStore, DeleteFile, TypeOK, Files
  <2>4. ASSUME NEW f \in File \ Ignored, f # g
        PROVE  Follows(local[c][f], server'[f], op'[c], Events(c), f)
    <3>1. ~Does(op[c], Storing, f) /\ ~Does(op[c], Deleting, f)
      BY <2>4 DEF Does
    <3> QED
      BY <1>5, <2>1, <2>3, <2>4, <3>1, FollowsEnd
  <2>5. ASSUME g \notin Ignored, StoreFile(c)
        PROVE  Follows(local[c][g], server'[g], NoOp, Events(c), g)
    <3>1. Does(op[c], {"Put"}, g) /\ Follows(local[c][g], server[g], op[c], Events(c), g)
      BY <1>1, <1>5, <2>5 DEF StoreFile, Does
    <3>2. CASE ToStore(c, g) /\ WholeStore(c, g)
      <4>1. local[c][g] # Absent /\ server'[g] = [data |-> local[c][g].data, mtime |-> clock]
        BY <1>1, <3>2 DEF ToStore, WholeStore, TypeOK, Files
      <4>2. [data |-> local[c][g].data, mtime |-> clock] \in Copy
        BY <1>1, <4>1 DEF TypeOK, Files, Copy
      <4>3. [data |-> local[c][g].data, mtime |-> clock] # Absent
        BY <4>2, AbsentIsNoCopy
      <4>4. Follows(local[c][g], [data |-> local[c][g].data, mtime |-> clock], NoOp, Events(c), g)
        BY <3>1, <4>1, <4>3, FollowsStored
      <4> QED
        BY <4>1, <4>4
    <3>3. CASE ~ToStore(c, g) /\ server' = server
      BY <3>1, <3>3, FollowsStored DEF ToStore
    <3>4. locks[g] = c
      BY <2>5 DEF StoreFile
    <3> QED
      BY <2>5, <3>2, <3>3, <3>4 DEF StoreFile
  <2>6. ASSUME g \notin Ignored, DeleteFile(c)
        PROVE  Follows(local[c][g], server'[g], NoOp, Events(c), g)
    <3>1. Does(op[c], {"Unlink"}, g) /\ Follows(local[c][g], server[g], op[c], Events(c), g)
      BY <1>1, <1>5, <2>6 DEF DeleteFile, Does
    <3>2. locks[g] = c
      BY <2>6 DEF DeleteFile
    <3>3. server'[g] = Absent
      BY <1>1, <2>6, <3>2 DEF DeleteFile, Exists, TypeOK, Files
    <3> QED
      BY <3>1, <3>3, FollowsDeleted
  <2>7. ASSUME NEW f \in File \ Ignored
        PROVE  Follows(local[c][f], server'[f], op'[c], Events(c), f)
    BY <1>8, <2>1, <2>4, <2>5, <2>6, <2>7
  <2> QED
    BY <1>3, <1>4, <2>1, <2>2, <2>7 DEF FilesFollow
<1>9. CASE FetchFile(c)
  <2>1. op[c].name = "Transfer" /\ server' = server /\ op'[c] = NoOp
    BY <1>9 DEF FetchFile, End, TypeOK
  <2>2. \A f \in File : ~Does(op[c], Storing, f) /\ ~Does(op[c], Deleting, f)
    BY <2>1 DEF Does, Storing, Deleting
  <2>3. PICK copy \in Copy :
           /\ WriteLocal(c, g, copy)
           /\ server[g] # Absent => copy.data = server[g].data
    <3>1. CASE server[g] # Absent
      <4>1. PICK t \in {server[g].mtime, clock} :
               WriteLocal(c, g, [data |-> server[g].data, mtime |-> t])
        BY <1>9, <3>1 DEF FetchFile, Exists
      <4>2. [data |-> server[g].data, mtime |-> t] \in Copy
        BY <1>1, <3>1 DEF TypeOK, Files, Copy
      <4> QED
        BY <4>1, <4>2
    <3>2. CASE server[g] = Absent
      <4>1. [data |-> Empty, mtime |-> clock] \in Copy
        BY DEF TypeOK, Copy, Content
      <4> QED
        BY <1>9, <3>2, <4>1 DEF FetchFile, Exists
    <3> QED
      BY <3>1, <3>2
  <2>4. ASSUME NEW f \in File \ Ignored, f = g
        PROVE  Follows(local'[c][f], server[f], NoOp, Events(c)', f)
    <3>1. Follows(local[c][g], server[g], op[c], Events(c), g) /\ Does(op[c], {"Transfer"}, g)
      BY <1>5, <2>1, <2>4 DEF Does
    <3>2. server[g] # Absent /\ server[g].data # Empty
      BY <3>1 DEF Follows
    <3>3. copy.data # Empty /\ copy.data = server[g].data
      BY <2>3, <3>2
    <3>4. Follows(local'[c][g], server[g], op[c], Events(c)', g)
      BY <1>1, <1>2, <2>3, <3>1, <3>3, WriteFollows
    <3>5. local'[c][g] = copy
      BY <1>1, <2>3 DEF WriteLocal, TypeOK, Files
    <3>6. SameData(local'[c][g], server[g])
      BY <3>2, <3>3, <3>5, AbsentIsNoCopy DEF SameData
    <3> QED
      BY <2>2, <2>4, <3>4, <3>6, FollowsFetched
  <2>5. ASSUME NEW f \in File \ Ignored, f # g
        PROVE  Follows(local'[c][f], server[f], NoOp, Events(c)', f)
    <3>1. Follows(local[c][f], server[f], op[c], Events(c), f)
      BY <1>5
    <3>2. Follows(local'[c][f], server[f], op[c], Events(c)', f)
      BY <1>1, <1>2, <2>3, <2>5, <3>1, WriteOfOther
    <3> QED
      BY <2>2, <3>2, FollowsEnd
  <2> QED
    BY <1>3, <1>4, <2>1, <2>4, <2>5 DEF FilesFollow
<1> QED
  BY <1>6, <1>7, <1>8, <1>9 DEF OperationStep

\* Users: every change leaves an event.
LEMMA UserFollows ==
    ASSUME TypeOK, Empty \notin Written, NEW c \in Client, Mounted(c), FilesFollow(c),
           NEW g \in File, UserDelete(c, g) \/ \E d \in Written : UserWrite(c, g, d)
    PROVE  FilesFollow(c)'
<1>1. UNCHANGED <<server, watcher, op>>
  BY DEF UserDelete, UserWrite
<1>2. CASE UserDelete(c, g)
  BY <1>1, <1>2, RemoveFollows DEF UserDelete, FilesFollow
<1>3. ASSUME NEW d \in Written, UserWrite(c, g, d) PROVE FilesFollow(c)'
  <2>1. PICK copy \in Copy : copy.data # Empty /\ WriteLocal(c, g, copy)
    <3>1. [data |-> d, mtime |-> clock] \in Copy
      BY SyncConstants DEF TypeOK, Copy, Content
    <3> QED
      BY <1>3, <3>1 DEF UserWrite
  <2>2. ASSUME NEW f \in File \ Ignored
        PROVE  Follows(local'[c][f], server[f], op[c], Events(c)', f)
    <3>1. Follows(local[c][f], server[f], op[c], Events(c), f)
      BY DEF FilesFollow
    <3> QED
      BY <1>1, <2>1, <3>1, WriteFollows, WriteOfOther
  <2> QED
    BY <1>1, <2>2 DEF FilesFollow
<1> QED
  BY <1>2, <1>3

\* A listing that comes or fails changes no file.
LEMMA ListingFollows ==
    ASSUME TypeOK, NEW c \in Client, Mounted(c), FilesFollow(c),
           \/ ServerStep(c) \/ ProcessCallbackFails(c) \/ ListingFails(c)
           \/ HandleFailure(c) \/ HandleCallbackList(c) \/ HandleCallbackListFails(c)
    PROVE  FilesFollow(c)' /\ Mounted(c)' /\ locks' = locks
<1>1. UNCHANGED <<server, locks, local, inotify, watcher, op>>
  BY DEF ServerStep, ProcessCallback, ListFile, ListDone, ProcessCallbackFails,
         ListingFails, HandleFailure, HandleCallbackList, HandleCallbackListFails
<1>2. FilesFollow(c)'
  BY <1>1 DEF FilesFollow, Events
<1>3. Mounted(c)'
  <2>1. ASSUME NEW f \in File, ListFile(c, f) PROVE Mounted(c)'
    BY <2>1 DEF ListFile, Mounted, TypeOK, AsyncThread
  <2>2. CASE ListingFails(c)
    BY <2>2 DEF ListingFails, Asking, Mounted, TypeOK, AsyncThread
  <2>3. CASE \/ ProcessCallback(c) \/ ListDone(c) \/ ProcessCallbackFails(c)
             \/ HandleFailure(c) \/ HandleCallbackList(c) \/ HandleCallbackListFails(c)
    BY <2>3 DEF ProcessCallback, ListDone, ProcessCallbackFails, HandleFailure,
                HandleCallbackList, HandleCallbackListFails, Mounted, TypeOK, AsyncThread
  <2> QED
    BY <2>1, <2>2, <2>3 DEF ServerStep
<1> QED
  BY <1>1, <1>2, <1>3

-----------------------------------------------------------------------------
(* The theorem *)

\* Nothing has happened yet.
LEMMA InitFollows == Init => Followed
<1> SUFFICES ASSUME Init, NEW c \in Client
             PROVE  /\ Mounted(c) /\ strays = {} /\ abandoned = {}
                    /\ \A f \in File : locks[f] \in {Absent, c}
                    /\ FilesFollow(c)
  BY DEF Followed, FilesFollow
<1>1. /\ Mounted(c) /\ strays = {} /\ abandoned = {}
      /\ \A f \in File : locks[f] \in {Absent, c}
  BY DEF Init, Mounted, Asking
<1>2. Events(c) = << >>
  BY ConcatEmptySeq DEF Init, Events, NoEvents
<1>3. ASSUME NEW f \in File PROVE Follows(local[c][f], server[f], op[c], << >>, f)
  <2>1. local[c][f] = server[f] /\ op[c] = NoOp
    BY DEF Init
  <2>2. server[f] # Absent => server[f].data # Empty
    BY SyncConstants DEF Init
  <2>3. SameData(server[f], server[f])
    BY DEF SameData
  <2> QED
    BY <2>1, <2>2, <2>3 DEF Follows, Does, Deleting, NoOp
<1> QED
  BY <1>1, <1>2, <1>3 DEF FilesFollow

\* Every step of the only client keeps its files in step with the server's.
LEMMA NextFollows ==
    ASSUME NEW c, Client = {c}, Empty \notin Written
    PROVE  TypeOK /\ Mutex /\ Holding /\ Followed /\ [Next]_vars => Followed'
<1> SUFFICES ASSUME TypeOK, Mutex, Holding, Followed, [Next]_vars, interruptions' = 0
             PROVE  /\ Mounted(c)' /\ strays' = {} /\ abandoned' = {}
                    /\ \A f \in File : locks'[f] \in {Absent, c}
                    /\ FilesFollow(c)'
  BY DEF Followed, FilesFollow
<1>0. UNCHANGED <<interruptions, calls>> \/ Interruption \/ StrayStep
  <2>1. ASSUME NEW d \in Client, OperationStep(d) \/ WatcherStep(d) \/ WatcherLock(d) \/ AsyncStep(d)
        PROVE  UNCHANGED <<interruptions, calls>>
    BY <2>1 DEF OperationStep, RequestWriteAccess, StoreFile, DeleteFile, FetchStat, FetchFile,
                WatcherStep, WatcherRead, WatcherEvent, WatcherUnlock, WatcherLock,
                AsyncStep, LocalDone, InitCallbackList, VisitLocal, VisitRemote, world
  <2>2. ASSUME NEW d \in Client,
               \/ ServerStep(d) \/ ProcessCallbackFails(d) \/ ListingFails(d)
               \/ HandleFailure(d) \/ HandleCallbackList(d) \/ HandleCallbackListFails(d)
               \/ Mount(d)
        PROVE  UNCHANGED <<interruptions, calls>>
    BY <2>2 DEF ServerStep, ProcessCallback, ListFile, ListDone, ProcessCallbackFails,
                ListingFails, HandleFailure, HandleCallbackList, HandleCallbackListFails,
                Mount, world
  <2>3. ASSUME NEW d \in Client, GiveUp(d) \/ Overflow(d) \/ Unmount(d) PROVE Interruption
    BY <2>3 DEF GiveUp, Overflow, Unmount
  <2>4. CASE UserStep \/ Tick
    BY <2>4 DEF UserStep, UserWrite, UserDelete, Tick
  <2>5. CASE UNCHANGED vars
    BY <2>5 DEF vars, world
  <2> QED
    BY <2>1, <2>2, <2>3, <2>4, <2>5 DEF Next
<1>1. interruptions = 0 /\ ~Interruption
  <2>1. ~Interruption
    BY DEF Interruption, TypeOK
  <2>2. StrayStep => interruptions' = interruptions
    BY DEF StrayStep
  <2> QED
    BY <1>0, <2>1, <2>2
<1>2. /\ Mounted(c) /\ FilesFollow(c) /\ Exclusive(c) /\ strays = {} /\ abandoned = {}
      /\ \A f \in File : locks[f] \in {Absent, c}
      /\ op[c].name \in {"Put", "Unlink"} => locks[op[c].file] = c
  BY <1>1 DEF Followed, FilesFollow, Mutex, Holding, Held
<1>3. ~StrayStep
  BY <1>2 DEF StrayStep
<1>4. strays' = {} /\ abandoned' = {}
  BY <1>0, <1>1, <1>2, <1>3 DEF calls
<1> SUFFICES /\ Mounted(c)' /\ \A f \in File : locks'[f] \in {Absent, c}
             /\ FilesFollow(c)'
  BY <1>4
<1>5. CASE UserStep
  <2>1. sync' = sync /\ locks' = locks
    BY <1>5 DEF UserStep, UserWrite, UserDelete
  <2>2. FilesFollow(c)'
    BY <1>2, <1>5, UserFollows DEF UserStep
  <2> QED
    BY <1>2, <2>1, <2>2 DEF Mounted
<1>6. CASE Tick \/ UNCHANGED vars
  <2>1. UNCHANGED <<server, locks, local, inotify, watcher, sync, op>>
    BY <1>6 DEF Tick, vars
  <2> QED
    BY <1>2, <2>1 DEF Mounted, FilesFollow, Events
<1>7. CASE OperationStep(c)
  BY <1>2, <1>7, OperationFollows
<1>8. CASE WatcherStep(c) \/ WatcherLock(c)
  <2>1. sync' = sync /\ locks' = locks
    BY <1>8 DEF WatcherStep, WatcherRead, WatcherEvent, WatcherUnlock, WatcherLock
  <2> QED
    BY <1>2, <1>8, <2>1, WatcherFollows DEF Mounted
<1>9. CASE AsyncStep(c)
  <2>1. locks' = locks
    BY <1>9 DEF AsyncStep, LocalDone, InitCallbackList, VisitLocal, VisitRemote
  <2> QED
    BY <1>2, <1>9, <2>1, AsyncFollows
<1>10. CASE \/ ServerStep(c) \/ ProcessCallbackFails(c) \/ ListingFails(c)
           \/ HandleFailure(c) \/ HandleCallbackList(c) \/ HandleCallbackListFails(c)
  BY <1>2, <1>10, ListingFollows
<1>11. ~(GiveUp(c) \/ Overflow(c) \/ Unmount(c))
  BY <1>1 DEF GiveUp, Overflow, Unmount
<1>12. ~Mount(c)
  BY <1>2 DEF Mount
<1> QED
  BY <1>3, <1>5, <1>6, <1>7, <1>8, <1>9, <1>10, <1>11, <1>12 DEF Next

\* A client that is alone on the server, is not interrupted and writes no empty
\* file: once the events of a file have been handled, mount and server have the
\* same content for it.  This holds for any number of files, changes, failed
\* listings and empty listings, and for every interleaving of the user, the two
\* threads and the kernel's queue.
THEOREM AloneStaysInSync ==
    ASSUME NEW c, Client = {c}, Empty \notin Written
    PROVE  Spec => []SettledIsInSync
<1>1. TypeOK /\ Followed => SettledIsInSync
  <2> SUFFICES ASSUME TypeOK, Followed, interruptions = 0, NEW d \in Client,
                      NEW f \in File \ Ignored, Settled(d, f)
               PROVE  InSync(d, f)
    BY DEF SettledIsInSync
  <2>1. PICK q \in Seq(Event) : q = Events(d)
    BY ConcatProperties DEF TypeOK, WatcherThread, Events
  <2>2. Follows(local[d][f], server[f], op[d], q, f)
    BY <2>1 DEF Followed
  <2>3. \A i \in 1..Len(q) : q[i].name # f
    <3>1. PICK b \in Seq(Event) : b = watcher[d].batch
      BY DEF TypeOK, WatcherThread
    <3>2. PICK k \in Seq(Event) : k = inotify[d]
      BY DEF TypeOK
    <3>3. /\ Len(q) = Len(b) + Len(k)
          /\ \A i \in 1..(Len(b) + Len(k)) : q[i] = IF i <= Len(b) THEN b[i] ELSE k[i - Len(b)]
      <4>1. q = b \o k
        BY <2>1, <3>1, <3>2 DEF Events
      <4>2. /\ Len(b \o k) = Len(b) + Len(k)
            /\ \A i \in 1..(Len(b) + Len(k)) :
                  (b \o k)[i] = IF i <= Len(b) THEN b[i] ELSE k[i - Len(b)]
        BY ConcatProperties
      <4> QED
        BY <4>1, <4>2
    <3>4. /\ \A i \in 1..Len(b) : b[i].name # f
          /\ \A i \in 1..Len(k) : k[i].name # f
      BY <3>1, <3>2 DEF Settled
    <3>5. ASSUME NEW i \in 1..Len(q) PROVE q[i].name # f
      <4>1. CASE i <= Len(b)
        BY <3>3, <3>4, <4>1
      <4>2. CASE ~(i <= Len(b))
        <5>1. i - Len(b) \in 1..Len(k) /\ i \in 1..(Len(b) + Len(k))
          BY <3>3, <4>2
        <5> QED
          BY <3>3, <3>4, <4>2, <5>1
      <4> QED
        BY <4>1, <4>2
    <3> QED
      BY <3>5
  <2>4. ~Does(op[d], Storing, f) /\ ~Does(op[d], Deleting, f)
    BY DEF Settled, Does, Storing, Deleting, NoOp
  <2> QED
    BY <2>2, <2>3, <2>4 DEF Follows, ChangeOf, RemovalOf, InSync
<1>2. Init => Followed
  BY InitFollows
<1>3. TypeOK /\ Mutex /\ Holding /\ Followed /\ [Next]_vars => Followed'
  BY NextFollows
<1> QED
  BY <1>1, <1>2, <1>3, TypeCorrect, MutexInvariant, HoldingInvariant, PTL DEF Spec
=============================================================================
