--------------------------- MODULE MCWriteLocks ---------------------------
(* Instances of WriteLocks for TLC. *)
EXTENDS WriteLocks, TLC

\* Every client may have a copy of every version, or each a version of its own.
AnyVersion == [c \in Client |-> Version]
OwnVersion ==
    CHOOSE own \in [Client -> {{v} : v \in Version}] :
        \A c, d \in Client : own[c] = own[d] => c = d

\* Clients, versions, files and call identities are interchangeable.
Symmetry == Permutations(Client) \cup Permutations(Version) \cup Permutations(Rpc)
            \cup Permutations(File)
=============================================================================
