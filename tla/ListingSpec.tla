------------------------------ MODULE ListingSpec ------------------------------
(***************************************************************************)
(* What a CallbackList call is to a mounted client and to the server, who  *)
(* are modelled apart (ClientSync, CallbackService): a listing is taken    *)
(* for each call, after the client has asked and before it asks again,     *)
(* and the client gets it once.  A call ends without a listing when it     *)
(* fails or the client goes.                                               *)
(***************************************************************************)
CONSTANT Client

VARIABLE exchange       \* how far each client's call is

TypeOK == exchange \in [Client -> {"none", "asked", "listed", "answered"}]

Moves(c, from, to) ==
    /\ exchange[c] \in from
    /\ exchange' = [exchange EXCEPT ![c] = to]

Ask(c) == Moves(c, {"none", "answered"}, "asked")
Take(c) == Moves(c, {"asked"}, "listed")
Answer(c) == Moves(c, {"listed"}, "answered")
Leave(c) == Moves(c, {"asked", "listed", "answered"}, "none")

Init == exchange \in [Client -> {"none", "asked"}]

Next == \E c \in Client : Ask(c) \/ Take(c) \/ Answer(c) \/ Leave(c)

Spec == Init /\ [][Next]_exchange

\* A call that does not fail is answered.
FairSpec == Spec /\ \A c \in Client : WF_exchange(Take(c) \/ Answer(c))
=============================================================================
