------------------------------- MODULE LockSpec -------------------------------
(***************************************************************************)
(* What the server's write locks promise, without calls and handlers: a    *)
(* client gets a lock that is free and goes in and out under it, alone;    *)
(* only the client inside changes the file, and it gives the lock back     *)
(* when the file is whole, or fails and keeps it.  A change may fail       *)
(* unnoticed.  A restart frees every lock and throws every client out.     *)
(*                                                                         *)
(* The promise for a file ends when a call on it is abandoned.  A restart  *)
(* in the middle of an operation can leave a lock with no owner who could  *)
(* release it.                                                             *)
(***************************************************************************)
CONSTANTS
    Client, File,
    Free,       \* nobody owns the lock
    Nobody,     \* the owner that no client is
    Intact      \* contents that a user wrote, and the absence of a file

VARIABLES
    owner,      \* of each file's lock
    inside,     \* clients that are changing each file
    content,    \* of each file
    trouble     \* what has happened to operations on each file

vars == <<owner, inside, content, trouble>>

\* A step concerns one file, and leaves the others alone.
Others(f) ==
    \A g \in File \ {f} :
        /\ owner'[g] = owner[g] /\ inside'[g] = inside[g]
        /\ content'[g] = content[g] /\ trouble'[g] = trouble[g]

Init ==
    /\ owner = [f \in File |-> Free]
    /\ inside = [f \in File |-> {}]
    /\ content \in [File -> Intact]
    /\ trouble = [f \in File |-> {}]

Acquire(c, f) ==
    /\ owner[f] = Free
    /\ owner'[f] = c
    /\ inside'[f] = inside[f] /\ content'[f] = content[f] /\ trouble'[f] = trouble[f]

Enter(c, f) ==
    /\ owner[f] = c /\ owner'[f] = c
    /\ inside[f] = {} /\ inside'[f] = {c}
    /\ content'[f] = content[f] /\ trouble'[f] = trouble[f]

Change(c, f) ==
    /\ owner[f] = c /\ owner'[f] = c
    /\ inside[f] = {c} /\ inside'[f] = {c}
    /\ trouble'[f] = trouble[f]

\* A change that does not reach the file, which the client does not notice.
Miss(c, f) ==
    /\ owner[f] = c /\ owner'[f] = c
    /\ inside[f] = {c} /\ inside'[f] = {c}
    /\ content'[f] = content[f]
    /\ trouble'[f] = trouble[f] \cup {"write"}

Leave(c, f) ==
    /\ owner[f] = c
    /\ \/ owner'[f] = Free /\ (content[f] \in Intact \/ "write" \in trouble[f])
       \/ owner'[f] = c
    /\ inside[f] = {c} /\ inside'[f] = {}
    /\ content'[f] = content[f] /\ trouble'[f] = trouble[f]

\* After a restart an operation goes on that has lost its lock, and is refused;
\* the lock goes to nobody.
Orphan(f) ==
    /\ owner[f] = Free /\ owner'[f] = Nobody
    /\ "restart" \in trouble[f]
    /\ inside'[f] = inside[f] /\ content'[f] = content[f] /\ trouble'[f] = trouble[f]

\* A call is given up that the server has not answered.
Abandon(f) ==
    /\ trouble'[f] = trouble[f] \cup {"abandon"}
    /\ owner'[f] = owner[f] /\ inside'[f] = inside[f] /\ content'[f] = content[f]

\* Then little is promised: a held lock becomes free before another has it.
Unpromised(f) ==
    /\ "abandon" \in trouble[f]
    /\ owner[f] \in Client => owner'[f] \in {owner[f], Free}
    /\ trouble'[f] \in {trouble[f], trouble[f] \cup {"write"}}

Restart ==
    /\ owner' = [f \in File |-> Free]
    /\ inside' = [f \in File |-> {}]
    /\ content' = content
    /\ \A f \in File :
          \/ trouble'[f] = trouble[f] \cup {"restart"}
          \/ inside[f] = {} /\ trouble'[f] = trouble[f]

Next ==
    \/ \E f \in File :
          /\ Others(f)
          /\ \/ \E c \in Client : \/ Acquire(c, f) \/ Enter(c, f) \/ Change(c, f)
                               \/ Miss(c, f) \/ Leave(c, f)
             \/ Orphan(f) \/ Abandon(f) \/ Unpromised(f)
    \/ Restart

Spec == Init /\ [][Next]_vars
=============================================================================
