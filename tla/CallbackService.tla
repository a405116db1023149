-------------------------- MODULE CallbackService --------------------------
(***************************************************************************)
(* How the part 2 server answers CallbackList, the call with which every   *)
(* mounted client waits for a file listing.  The call is asynchronous on   *)
(* the server: a CallData object is put into queued_tags, the queue thread *)
(* registers it with gRPC, gRPC hands it a client's call, and a pool of    *)
(* threads drives it through its states from the events of one completion  *)
(* queue, until it deletes itself.                                         *)
(*                                                                         *)
(* The listing itself is taken in module ClientSync.  Sections on          *)
(* queue_mutex are single actions.                                         *)
(***************************************************************************)
EXTENDS Naturals, Sequences, FiniteSets

CONSTANTS
    Client,     \* clients, each with one CallbackList call at a time
    Thread,     \* the num_async_threads threads of HandleAsyncRPC
    CallData,   \* identities of CallData objects, enough for every allocation
    None,       \* no client, no CallData
    MaxGone     \* bound: calls that end because their client has gone

ASSUME CallbackConstants ==
    /\ IsFiniteSet(Client) /\ IsFiniteSet(Thread)
    /\ None \notin Client /\ None \notin CallData
    /\ MaxGone \in Nat

VARIABLES
    status,         \* status of each CallData object, "free" if it does not exist
    client,         \* whose call it serves or has answered, None if nobody's or if that
                    \* client went before the answer
    queued_tags,    \* objects to be registered, in order
    registered,     \* objects registered with gRPC, waiting for a call
    cq,             \* completion queue: objects with something to do, and ok
    thread,         \* where each thread is in HandleAsyncRPC, and with what object
    call,           \* each client's call
    gone            \* calls that have ended because their client has gone

vars == <<status, client, queued_tags, registered, cq, thread, call, gone>>

-----------------------------------------------------------------------------
Goto(t, at, d) == thread' = [thread EXCEPT ![t] = [at |-> at, tag |-> d]]

\* The call data is queued until the queue thread asks gRPC for a call for it.
RequestCallback(d) == queued_tags' = Append(queued_tags, d)

\* Mutant: the constructor leaves the status at CREATE.
NewCallData_create ==
    LET d == CHOOSE e \in CallData : status[e] = "free"
    IN  /\ \E e \in CallData : status[e] = "free"
        /\ status' = [status EXCEPT ![d] = "CREATE"]
        /\ RequestCallback(d)

\* new CallData: the object goes from CREATE to PROCESS at once and is queued.
\* It may get the address of one that has been deleted; which one is no matter.
NewCallData ==
    LET d == CHOOSE e \in CallData : status[e] = "free"
    IN  /\ \E e \in CallData : status[e] = "free"
        /\ status' = [status EXCEPT ![d] = "PROCESS"]
        /\ RequestCallback(d)

\* Objects with a call they have yet to answer.
Unanswered ==
    { cq[i].tag : i \in { j \in 1..Len(cq) : status[cq[j].tag] = "PROCESS" } }
    \cup { thread[t].tag : t \in { u \in Thread :
              \/ thread[u].at \in {"list", "finish"}
              \/ thread[u].at = "proceed" /\ status[thread[u].tag] = "PROCESS" } }

-----------------------------------------------------------------------------
(* The clients and gRPC *)

\* InitCallbackList, at mount and after each listing.
CallbackList(c) ==
    /\ call[c] \in {"none", "answered"}
    /\ call' = [call EXCEPT ![c] = "sent"]
    /\ UNCHANGED <<status, client, queued_tags, registered, cq, thread, gone>>

\* gRPC gives a call to a registered object and reports that to the queue.
Accept(c) ==
    /\ call[c] = "sent"
    /\ \E d \in registered :
          /\ registered' = registered \ {d}
          /\ client' = [client EXCEPT ![d] = c]
          /\ cq' = Append(cq, [tag |-> d, ok |-> TRUE])
    /\ call' = [call EXCEPT ![c] = "accepted"]
    /\ UNCHANGED <<status, queued_tags, thread, gone>>

\* A client process ends while it waits, and may be started again.
ClientGone(c) ==
    /\ gone < MaxGone
    /\ gone' = gone + 1
    /\ call[c] \in {"sent", "accepted"}
    /\ call' = [call EXCEPT ![c] = "none"]
    /\ client' = [d \in CallData |->
          IF d \in Unanswered /\ client[d] = c THEN None ELSE client[d]]
    /\ UNCHANGED <<status, queued_tags, registered, cq, thread>>

-----------------------------------------------------------------------------
(* The queue thread *)

\* Mutant: all queued objects are erased, the first one alone is registered.
ProcessQueuedRequests_first ==
    /\ queued_tags # << >>
    /\ registered' = registered \cup {Head(queued_tags)}
    /\ queued_tags' = << >>
    /\ UNCHANGED <<status, client, cq, thread, call, gone>>

\* Register every queued object and erase them all, under queue_mutex.
ProcessQueuedRequests ==
    /\ queued_tags # << >>
    /\ registered' = registered \cup { queued_tags[i] : i \in 1..Len(queued_tags) }
    /\ queued_tags' = << >>
    /\ UNCHANGED <<status, client, cq, thread, call, gone>>

-----------------------------------------------------------------------------
(* HandleAsyncRPC *)

\* The object with which a thread starts.
FirstCallData(t) ==
    /\ thread[t].at = "start"
    /\ NewCallData
    /\ Goto(t, "next", None)
    /\ UNCHANGED <<client, registered, cq, call, gone>>

\* cq->Next.  An event that is not ok is dropped, and its object with it.
NextEvent(t) ==
    /\ thread[t].at = "next"
    /\ cq # << >>
    /\ cq' = Tail(cq)
    /\ IF Head(cq).ok THEN Goto(t, "proceed", Head(cq).tag) ELSE UNCHANGED thread
    /\ UNCHANGED <<status, client, queued_tags, registered, call, gone>>

\* Mutant: nothing is spawned for the next client.
Spawn_not(t) ==
    /\ thread[t].at = "proceed"
    /\ status[thread[t].tag] = "PROCESS"
    /\ Goto(t, "list", thread[t].tag)
    /\ UNCHANGED <<status, client, queued_tags, registered, cq, call, gone>>

\* Proceed in state PROCESS begins with an object for the next client ...
Spawn(t) ==
    /\ thread[t].at = "proceed"
    /\ status[thread[t].tag] = "PROCESS"
    /\ NewCallData
    /\ Goto(t, "list", thread[t].tag)
    /\ UNCHANGED <<client, registered, cq, call, gone>>

\* Mutant: the status stays PROCESS.
ProcessCallback_unset(t) ==
    /\ thread[t].at = "list"
    /\ Goto(t, "finish", thread[t].tag)
    /\ UNCHANGED <<status, client, queued_tags, registered, cq, call, gone>>

\* ... then takes the listing and changes its status ...
ProcessCallback(t) ==
    /\ thread[t].at = "list"
    /\ status' = [status EXCEPT ![thread[t].tag] = "FINISH"]
    /\ Goto(t, "finish", thread[t].tag)
    /\ UNCHANGED <<client, queued_tags, registered, cq, call, gone>>

\* The answer of object d: it is ok unless the client has gone.
Answer(d) ==
    /\ cq' = Append(cq, [tag |-> d, ok |-> client[d] # None])
    /\ call' = [c \in Client |-> IF client[d] = c THEN "answered" ELSE call[c]]

\* Mutant: the object is deleted as soon as it has answered.
Finish_delete(t) ==
    /\ thread[t].at = "finish"
    /\ Answer(thread[t].tag)
    /\ status' = [status EXCEPT ![thread[t].tag] = "free"]
    /\ Goto(t, "next", None)
    /\ UNCHANGED <<client, queued_tags, registered, gone>>

\* ... and answers, after which its event may be taken by any thread.
Finish(t) ==
    /\ thread[t].at = "finish"
    /\ Answer(thread[t].tag)
    /\ Goto(t, "next", None)
    /\ UNCHANGED <<status, client, queued_tags, registered, gone>>

\* Mutant: the object is not deleted.
Delete_not(t) ==
    /\ thread[t].at = "proceed"
    /\ status[thread[t].tag] = "FINISH"
    /\ Goto(t, "next", None)
    /\ UNCHANGED <<status, client, queued_tags, registered, cq, call, gone>>

\* Proceed in state FINISH: delete this.
Delete(t) ==
    /\ thread[t].at = "proceed"
    /\ status[thread[t].tag] = "FINISH"
    /\ status' = [status EXCEPT ![thread[t].tag] = "free"]
    /\ client' = [client EXCEPT ![thread[t].tag] = None]
    /\ Goto(t, "next", None)
    /\ UNCHANGED <<queued_tags, registered, cq, call, gone>>

-----------------------------------------------------------------------------
Init ==
    /\ status = [d \in CallData |-> "free"]
    /\ client = [d \in CallData |-> None]
    /\ queued_tags = << >>
    /\ registered = {}
    /\ cq = << >>
    /\ thread = [t \in Thread |-> [at |-> "start", tag |-> None]]
    /\ call = [c \in Client |-> "none"]
    /\ gone = 0

ThreadStep(t) ==
    \/ FirstCallData(t) \/ NextEvent(t) \/ Spawn(t)
    \/ ProcessCallback(t) \/ Finish(t) \/ Delete(t)

Next ==
    \/ ProcessQueuedRequests
    \/ \E t \in Thread : ThreadStep(t)
    \/ \E c \in Client : CallbackList(c) \/ Accept(c) \/ ClientGone(c)

Spec == Init /\ [][Next]_vars

\* The server's threads run, and gRPC serves waiting calls in turn.
Fairness ==
    /\ WF_vars(ProcessQueuedRequests)
    /\ \A t \in Thread : WF_vars(ThreadStep(t))
    /\ \A c \in Client : SF_vars(Accept(c))

FairSpec == Spec /\ Fairness

-----------------------------------------------------------------------------
(* Properties *)

\* The types of the variables.
TypeOK ==
    /\ status \in [CallData -> {"free", "PROCESS", "FINISH"}]
    /\ client \in [CallData -> Client \cup {None}]
    /\ queued_tags \in Seq(CallData)
    /\ registered \subseteq CallData
    /\ cq \in Seq([tag : CallData, ok : BOOLEAN])
    /\ thread \in [Thread -> [at : {"start", "next", "proceed", "list", "finish"},
                              tag : CallData \cup {None}]]
    /\ call \in [Client -> {"none", "sent", "accepted", "answered"}]
    /\ gone \in 0..MaxGone

Places(d) ==
    { <<"queued", i>> : i \in { j \in 1..Len(queued_tags) : queued_tags[j] = d } }
    \cup { <<"registered", 0>> : e \in registered \cap {d} }
    \cup { <<"event", i>> : i \in { j \in 1..Len(cq) : cq[j].tag = d } }
    \cup { <<"thread", t>> : t \in { u \in Thread : thread[u].tag = d } }

\* A pointer to a CallData object is in one place only, queue, gRPC, completion
\* queue or thread, and never outlives the object: no two threads work on one
\* object and none is used after delete.
OnePlace ==
    \A d \in CallData :
        /\ Cardinality(Places(d)) <= 1
        /\ Places(d) # {} => status[d] # "free"

\* The server is ready for as many calls as it has async threads: whenever an
\* object takes a call another one is made, whoever comes and goes.
ReadyForClients ==
      Len(queued_tags) + Cardinality(registered)
    + Cardinality({ i \in 1..Len(cq) : status[cq[i].tag] = "PROCESS" })
    + Cardinality({ t \in Thread : \/ thread[t].at = "start"
                                   \/ /\ thread[t].at = "proceed"
                                      /\ status[thread[t].tag] = "PROCESS" })
    = Cardinality(Thread)

\* A call that gRPC has accepted has exactly one object that is going to answer
\* it, and a call that was answered has none: every call gets one answer.
OneAnswer ==
    \A c \in Client :
        Cardinality({ d \in Unanswered : client[d] = c })
            = (IF call[c] = "accepted" THEN 1 ELSE 0)

\* The server keeps a bounded number of objects: one per thread ready for a call,
\* and those of calls being answered or cleaned up, and one for every call whose
\* client went away before the answer, which nothing deletes.
ObjectsAreBounded ==
    Cardinality({ d \in CallData : status[d] # "free" })
        <= 2 * Cardinality(Thread) + Cardinality(Client) + gone

\* Every call is answered, unless its client goes first.
CallsAreAnswered ==
    \A c \in Client : call[c] = "sent" ~> call[c] \in {"answered", "none"}

\* A thread has taken a listing for client c and is about to answer.
Listed(c) == \E t \in Thread : thread[t].at = "finish" /\ client[thread[t].tag] = c

Exchange(c) ==
    IF call[c] \notin {"sent", "accepted"} THEN call[c]
    ELSE IF Listed(c) THEN "listed" ELSE "asked"

Exchanges == INSTANCE ListingSpec WITH exchange <- [c \in Client |-> Exchange(c)]

\* Objects, tags and threads implement the exchange that the clients rely on: every
\* call gets one answer, with a listing that was taken after the call was made,
\* however objects are handed from thread to thread and are deleted and made again.
ImplementsListings == Exchanges!FairSpec
=============================================================================
