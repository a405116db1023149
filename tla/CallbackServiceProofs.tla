----------------------- MODULE CallbackServiceProofs -----------------------
(***************************************************************************)
(* What CallbackService promises, for any number of clients, threads and   *)
(* CallData objects.                                                       *)
(***************************************************************************)
EXTENDS CallbackService, FiniteSetTheorems, SequenceTheorems, TLAPS

-----------------------------------------------------------------------------
(* The inductive invariant *)

\* Where a pointer to the object is.
Queued(d) == \E i \in 1..Len(queued_tags) : queued_tags[i] = d
Event(d) == \E i \in 1..Len(cq) : cq[i].tag = d
Held(d) == \E t \in Thread : thread[t].tag = d

\* It is nowhere twice.
NoAliases ==
    /\ \A i, j \in 1..Len(queued_tags) : queued_tags[i] = queued_tags[j] => i = j
    /\ \A i, j \in 1..Len(cq) : cq[i].tag = cq[j].tag => i = j
    /\ \A t, u \in Thread : thread[t].tag = thread[u].tag /\ thread[t].tag # None => t = u
    /\ \A d \in CallData :
          /\ Queued(d) => d \notin registered /\ ~Event(d) /\ ~Held(d)
          /\ d \in registered => ~Event(d) /\ ~Held(d)
          /\ Event(d) => ~Held(d)

\* The status of an object tells what can be done with it where it is, and an event
\* is dropped only when its client has gone before the answer.
ObjectFits(d) ==
    /\ status[d] = "free" => client[d] = None /\ ~Event(d)
    /\ Queued(d) \/ d \in registered => status[d] = "PROCESS" /\ client[d] = None

EventFits(e) ==
    IF status[e.tag] = "PROCESS" THEN e.ok ELSE e.ok <=> client[e.tag] # None

ThreadFits(m) ==
    /\ m.tag = None <=> m.at \in {"start", "next"}
    /\ m.at = "proceed" => \/ status[m.tag] = "PROCESS"
                           \/ status[m.tag] = "FINISH" /\ client[m.tag] # None
    /\ m.at = "list" => status[m.tag] = "PROCESS"
    /\ m.at = "finish" => status[m.tag] = "FINISH"

StatusFits ==
    /\ \A d \in CallData : ObjectFits(d)
    /\ \A i \in 1..Len(cq) : EventFits(cq[i])
    /\ \A t \in Thread : ThreadFits(thread[t])

\* Accepted calls and objects that have yet to answer belong to each other.
OneObjectPerCall ==
    /\ \A d, e \in Unanswered : client[d] = client[e] /\ client[d] # None => d = e
    /\ \A d \in Unanswered : client[d] # None => call[client[d]] = "accepted"
    /\ \A c \in Client : call[c] = "accepted" => \E d \in Unanswered : client[d] = c

Safe == TypeOK /\ NoAliases /\ StatusFits /\ OneObjectPerCall

\* Events of calls that were answered while their clients waited.
AnsweredEvents == { i \in 1..Len(cq) : status[cq[i].tag] = "FINISH" /\ cq[i].ok }

\* The queue keeps order: the event of a client's answered call is taken before its
\* next call is.
AnswersInOrder ==
    \A i \in AnsweredEvents :
        /\ \A j \in AnsweredEvents : client[cq[i].tag] = client[cq[j].tag] => i = j
        /\ \A d \in Unanswered : client[d] = client[cq[i].tag]
              => \E j \in 1..Len(cq) : i < j /\ cq[j].tag = d

\* Objects whose clients went before the answer.
Orphans ==
    { d \in CallData : /\ status[d] # "free" /\ client[d] = None
                       /\ d \notin registered /\ ~Queued(d) }

\* An object is lost only when its client has gone.
NoneLost ==
    \A d \in CallData : client[d] # None => Event(d) \/ Held(d)

FewOrphans == IsFiniteSet(Orphans) /\ Cardinality(Orphans) <= gone

RegisteredFinite == IsFiniteSet(registered)

\* Events and threads with a call for which the next object has yet to be made.
ReadyEvents == { i \in 1..Len(cq) : status[cq[i].tag] = "PROCESS" }
ReadyThreads == { t \in Thread : \/ thread[t].at = "start"
                                 \/ /\ thread[t].at = "proceed"
                                    /\ status[thread[t].tag] = "PROCESS" }

\* Only finitely many objects are registered, and the server is ready for calls.
Ready == RegisteredFinite /\ ReadyForClients

Inv == /\ Safe
       /\ Ready
       /\ AnswersInOrder
       /\ NoneLost
       /\ FewOrphans

-----------------------------------------------------------------------------
(* Types *)

\* A thread that goes somewhere with an object, or with none, stays a thread.
LEMMA GotoType ==
    ASSUME TypeOK, NEW t \in Thread, NEW d \in CallData \cup {None},
           NEW at \in {"start", "next", "proceed", "list", "finish"}, Goto(t, at, d)
    PROVE  thread' \in [Thread -> [at : {"start", "next", "proceed", "list", "finish"},
                                   tag : CallData \cup {None}]]
  BY DEF TypeOK, Goto

\* A new object was free, and is queued last.
LEMMA NewObject ==
    ASSUME TypeOK, NewCallData
    PROVE  \E new \in CallData :
              /\ status[new] = "free"
              /\ status' = [status EXCEPT ![new] = "PROCESS"]
              /\ queued_tags' = Append(queued_tags, new)
              /\ status' \in [CallData -> {"free", "PROCESS", "FINISH"}]
              /\ queued_tags' \in Seq(CallData)
              /\ Len(queued_tags) \in Nat /\ Len(queued_tags') = Len(queued_tags) + 1
              /\ \A i \in 1..Len(queued_tags) : queued_tags'[i] = queued_tags[i]
              /\ \A d : Queued(d)' <=> Queued(d) \/ d = new
  <1> DEFINE new == CHOOSE e \in CallData : status[e] = "free"
  <1>1. new \in CallData /\ status[new] = "free"
    BY DEF NewCallData
  <1>2. status' = [status EXCEPT ![new] = "PROCESS"] /\ queued_tags' = Append(queued_tags, new)
    BY DEF NewCallData, RequestCallback
  <1> HIDE DEF new
  <1>3. /\ status' \in [CallData -> {"free", "PROCESS", "FINISH"}]
        /\ queued_tags' \in Seq(CallData) /\ Len(queued_tags) \in Nat
        /\ Len(queued_tags') = Len(queued_tags) + 1
        /\ queued_tags'[Len(queued_tags) + 1] = new
        /\ \A i \in 1..Len(queued_tags) : queued_tags'[i] = queued_tags[i]
    BY <1>1, <1>2 DEF TypeOK
  <1>4. ASSUME NEW d PROVE Queued(d)' <=> Queued(d) \/ d = new
    <2>1. ASSUME Queued(d)' PROVE Queued(d) \/ d = new
      <3>1. PICK i \in 1..(Len(queued_tags) + 1) : queued_tags'[i] = d
        BY <1>3, <2>1 DEF Queued
      <3>2. CASE i \in 1..Len(queued_tags)
        BY <1>3, <3>1, <3>2 DEF Queued
      <3>3. CASE i = Len(queued_tags) + 1
        BY <1>3, <3>1, <3>3
      <3> QED BY <1>3, <3>2, <3>3
    <2>2. ASSUME Queued(d) PROVE Queued(d)'
      <3>1. PICK i \in 1..Len(queued_tags) : queued_tags[i] = d
        BY <2>2 DEF Queued
      <3> QED BY <1>3, <3>1 DEF Queued
    <2>3. ASSUME d = new PROVE Queued(d)'
      BY <1>3, <2>3 DEF Queued
    <2> QED BY <2>1, <2>2, <2>3
  <1> QED BY <1>1, <1>2, <1>3, <1>4

\* The object a thread works on exists as an identity.
LEMMA TagType ==
    ASSUME Safe, NEW t \in Thread, thread[t].at \notin {"start", "next"}
    PROVE  thread[t].tag \in CallData
  BY DEF Safe, StatusFits, ThreadFits, TypeOK

\* The server starts with variables of their types.
LEMMA InitType == Init => TypeOK
  BY CallbackConstants DEF Init, TypeOK

\* The steps of a thread keep the types.
LEMMA ThreadType ==
    ASSUME Safe, NEW t \in Thread, ThreadStep(t)
    PROVE  TypeOK'
  <1> USE DEF Safe
  <1>1. CASE FirstCallData(t)
    BY <1>1, NewObject, GotoType DEF FirstCallData, TypeOK
  <1>2. CASE NextEvent(t)
    <2>1. Head(cq) \in [tag : CallData, ok : BOOLEAN] /\ cq' \in Seq([tag : CallData, ok : BOOLEAN])
      BY <1>2, HeadTailProperties DEF NextEvent, TypeOK
    <2>2. thread' \in [Thread -> [at : {"start", "next", "proceed", "list", "finish"},
                                  tag : CallData \cup {None}]]
      <3>1. CASE Head(cq).ok
        BY <1>2, <2>1, <3>1, GotoType DEF NextEvent
      <3>2. CASE ~Head(cq).ok
        BY <1>2, <3>2 DEF NextEvent, TypeOK
      <3> QED BY <3>1, <3>2
    <2> QED BY <1>2, <2>1, <2>2 DEF NextEvent, TypeOK
  <1>3. CASE Spawn(t)
    BY <1>3, NewObject, GotoType, TagType DEF Spawn, TypeOK
  <1>4. CASE ProcessCallback(t)
    BY <1>4, GotoType, TagType DEF ProcessCallback, TypeOK
  <1>5. CASE Finish(t)
    <2>1. cq' \in Seq([tag : CallData, ok : BOOLEAN])
      BY <1>5, TagType DEF Finish, Answer, TypeOK
    <2> QED BY <1>5, <2>1, GotoType DEF Finish, Answer, TypeOK
  <1>6. CASE Delete(t)
    BY <1>6, GotoType, TagType DEF Delete, TypeOK
  <1> QED BY <1>1, <1>2, <1>3, <1>4, <1>5, <1>6 DEF ThreadStep

\* So do the queue thread, the clients and gRPC.
LEMMA OtherType ==
    ASSUME TypeOK,
           \/ ProcessQueuedRequests
           \/ \E c \in Client : CallbackList(c) \/ Accept(c) \/ ClientGone(c)
    PROVE  TypeOK'
  <1>1. CASE ProcessQueuedRequests
    BY <1>1 DEF ProcessQueuedRequests, TypeOK
  <1>2. ASSUME NEW c \in Client, CallbackList(c) PROVE TypeOK'
    BY <1>2 DEF CallbackList, TypeOK
  <1>3. ASSUME NEW c \in Client, Accept(c) PROVE TypeOK'
    BY <1>3 DEF Accept, TypeOK
  <1>4. ASSUME NEW c \in Client, ClientGone(c) PROVE TypeOK'
    BY <1>4, CallbackConstants DEF ClientGone, TypeOK
  <1> QED BY <1>1, <1>2, <1>3, <1>4

-----------------------------------------------------------------------------
(* Objects that have yet to answer *)

\* A thread has the object's call and has not answered it.
Working(t) == \/ thread[t].at \in {"list", "finish"}
              \/ thread[t].at = "proceed" /\ status[thread[t].tag] = "PROCESS"

\* What the set stands for, object by object, before a step and after it.
LEMMA UnansweredIs ==
    /\ \A d : d \in Unanswered <=>
          \/ Event(d) /\ status[d] = "PROCESS"
          \/ \E t \in Thread : thread[t].tag = d /\ Working(t)
    /\ \A d : d \in Unanswered' <=>
          \/ Event(d)' /\ status'[d] = "PROCESS"
          \/ \E t \in Thread : thread'[t].tag = d /\ Working(t)'
  BY DEF Unanswered, Event, Working

\* The completion queue is a sequence of events.
LEMMA EventType ==
    ASSUME TypeOK
    PROVE  /\ cq \in Seq([tag : CallData, ok : BOOLEAN]) /\ Len(cq) \in Nat
           /\ \A i \in 1..Len(cq) : /\ cq[i] \in [tag : CallData, ok : BOOLEAN]
                                    /\ cq[i].tag \in CallData /\ cq[i].ok \in BOOLEAN
  <1>1. cq \in Seq([tag : CallData, ok : BOOLEAN]) /\ Len(cq) \in Nat
    BY DEF TypeOK
  <1>2. \A i \in 1..Len(cq) : cq[i] \in [tag : CallData, ok : BOOLEAN]
    BY <1>1, ElementOfSeq
  <1> QED BY <1>1, <1>2

\* Appending an event adds its object.
LEMMA AppendEvent ==
    ASSUME TypeOK, NEW e \in [tag : CallData, ok : BOOLEAN], cq' = Append(cq, e)
    PROVE  /\ Len(cq') = Len(cq) + 1
           /\ cq'[Len(cq')] = e
           /\ \A i \in 1..Len(cq) : cq'[i] = cq[i]
           /\ \A d : Event(d)' <=> Event(d) \/ d = e.tag
  <1>1. /\ Len(cq') = Len(cq) + 1 /\ Len(cq) \in Nat
        /\ cq'[Len(cq) + 1] = e
        /\ \A i \in 1..Len(cq) : cq'[i] = cq[i]
    BY DEF TypeOK
  <1>2. ASSUME NEW d PROVE Event(d)' <=> Event(d) \/ d = e.tag
    <2>1. ASSUME Event(d)' PROVE Event(d) \/ d = e.tag
      <3>1. PICK i \in 1..(Len(cq) + 1) : cq'[i].tag = d
        BY <1>1, <2>1 DEF Event
      <3>2. CASE i \in 1..Len(cq)
        BY <1>1, <3>1, <3>2 DEF Event
      <3>3. CASE i = Len(cq) + 1
        BY <1>1, <3>1, <3>3
      <3> QED BY <1>1, <3>2, <3>3
    <2>2. ASSUME Event(d) PROVE Event(d)'
      <3>1. PICK i \in 1..Len(cq) : cq[i].tag = d
        BY <2>2 DEF Event
      <3> QED BY <1>1, <3>1 DEF Event
    <2>3. ASSUME d = e.tag PROVE Event(d)'
      BY <1>1, <2>3 DEF Event
    <2> QED BY <2>1, <2>2, <2>3
  <1> QED BY <1>1, <1>2

\* Taking the first event removes its object.
LEMMA TakeEvent ==
    ASSUME TypeOK, NoAliases, cq # << >>, cq' = Tail(cq)
    PROVE  /\ Len(cq') = Len(cq) - 1 /\ Len(cq) \in Nat \ {0}
           /\ \A i \in 1..Len(cq') : cq'[i] = cq[i + 1] /\ i + 1 \in 2..Len(cq)
           /\ Head(cq) = cq[1] /\ Head(cq) \in [tag : CallData, ok : BOOLEAN]
           /\ \A d : Event(d)' <=> Event(d) /\ d # Head(cq).tag
  <1>1. /\ Len(cq') = Len(cq) - 1 /\ Len(cq) \in Nat \ {0}
        /\ \A i \in 1..Len(cq') : cq'[i] = cq[i + 1]
        /\ Head(cq) = cq[1] /\ Head(cq) \in [tag : CallData, ok : BOOLEAN]
    <2>1. cq \in Seq([tag : CallData, ok : BOOLEAN]) /\ Len(cq) \in Nat \ {0}
      BY EventType, EmptySeq
    <2>2. Head(cq) = cq[1]
      BY <2>1
    <2>3. /\ Len(Tail(cq)) = Len(cq) - 1 /\ Head(cq) \in [tag : CallData, ok : BOOLEAN]
          /\ \A i \in 1..Len(Tail(cq)) : Tail(cq)[i] = cq[i + 1]
      BY <2>1, HeadTailProperties
    <2> QED BY <2>1, <2>2, <2>3
  <1>2. ASSUME NEW d PROVE Event(d)' <=> Event(d) /\ d # Head(cq).tag
    <2>1. ASSUME Event(d)' PROVE Event(d) /\ d # Head(cq).tag
      <3>1. PICK i \in 1..(Len(cq) - 1) : cq'[i].tag = d
        BY <1>1, <2>1 DEF Event
      <3>2. i + 1 \in 1..Len(cq) /\ cq[i + 1].tag = d
        BY <1>1, <3>1
      <3> QED BY <1>1, <3>2 DEF Event, NoAliases
    <2>2. ASSUME Event(d), d # Head(cq).tag PROVE Event(d)'
      <3>1. PICK i \in 1..Len(cq) : cq[i].tag = d
        BY <2>2 DEF Event
      <3>2. i - 1 \in 1..Len(cq') /\ cq'[i - 1] = cq[i]
        BY <1>1, <2>2, <3>1
      <3> QED BY <3>1, <3>2 DEF Event
    <2> QED BY <2>1, <2>2
  <1> QED BY <1>1, <1>2

\* Objects that have yet to answer exist, and are not waiting for a call.
LEMMA UnansweredType ==
    ASSUME Safe
    PROVE  /\ Unanswered \subseteq CallData
           /\ \A d \in Unanswered : status[d] # "free" /\ d \notin registered /\ ~Queued(d)
  <1>1. \A d : Event(d) => d \in CallData
    BY EventType DEF Safe, Event
  <1>2. \A t \in Thread : Working(t) => thread[t].tag \in CallData
    BY TagType DEF Working
  <1>3. SUFFICES ASSUME NEW d \in Unanswered
                 PROVE  /\ d \in CallData /\ status[d] # "free" /\ d \notin registered
                        /\ ~Queued(d)
    OBVIOUS
  <1>4. CASE Event(d) /\ status[d] = "PROCESS"
    BY <1>1, <1>4 DEF Safe, NoAliases
  <1>5. ASSUME NEW t \in Thread, thread[t].tag = d, Working(t)
        PROVE  d \in CallData /\ status[d] # "free" /\ d \notin registered /\ ~Queued(d)
    BY <1>2, <1>5 DEF Working, Safe, NoAliases, StatusFits, ThreadFits, Held
  <1> QED BY <1>4, <1>5, UnansweredIs

\* An object that takes a call has yet to answer.
LEMMA AcceptUnanswered ==
    ASSUME Safe, NEW d \in registered, UNCHANGED <<status, thread>>,
           cq' = Append(cq, [tag |-> d, ok |-> TRUE])
    PROVE  Unanswered' = Unanswered \cup {d}
  <1>1. [tag |-> d, ok |-> TRUE] \in [tag : CallData, ok : BOOLEAN] /\ status[d] = "PROCESS"
    BY DEF Safe, StatusFits, ObjectFits, TypeOK
  <1>2. \A e : Event(e)' <=> Event(e) \/ e = d
    BY <1>1, AppendEvent DEF Safe
  <1> QED BY <1>1, <1>2, UnansweredIs DEF Working

\* One that answers has answered.
LEMMA FinishUnanswered ==
    ASSUME Safe, NEW t \in Thread, Finish(t)
    PROVE  Unanswered' = Unanswered \ {thread[t].tag}
  <1> DEFINE d == thread[t].tag
             e == [tag |-> d, ok |-> client[d] # None]
  <1>1. d \in CallData /\ status[d] = "FINISH" /\ UNCHANGED status
    BY TagType DEF Finish, Safe, StatusFits, ThreadFits
  <1>2. e \in [tag : CallData, ok : BOOLEAN] /\ cq' = Append(cq, e)
    BY <1>1 DEF Finish, Answer
  <1>3. \A f : Event(f)' <=> Event(f) \/ f = d
    BY <1>2, AppendEvent DEF Safe
  <1>4. \A u \in Thread : thread'[u] = IF u = t THEN [at |-> "next", tag |-> None] ELSE thread[u]
    BY DEF Finish, Goto, Safe, TypeOK
  <1>5. \A u \in Thread : u # t => thread[u].tag # d
    BY <1>1, CallbackConstants DEF Safe, NoAliases
  <1>6. ASSUME NEW f, f # d PROVE f \in Unanswered' <=> f \in Unanswered
    BY <1>1, <1>3, <1>4, <1>6, UnansweredIs DEF Working
  <1>7. d \notin Unanswered'
    BY <1>1, <1>4, <1>5, UnansweredIs DEF Working
  <1> QED BY <1>6, <1>7

\* Where the threads are after a step of one of them.
LEMMA GotoIs ==
    ASSUME TypeOK, NEW t \in Thread, NEW at, NEW d, Goto(t, at, d)
    PROVE  \A u \in Thread : thread'[u] = IF u = t THEN [at |-> at, tag |-> d] ELSE thread[u]
  BY DEF Goto, TypeOK

\* The other steps of a thread neither take a call nor answer one.
LEMMA ThreadUnanswered ==
    ASSUME Safe, NEW t \in Thread, ThreadStep(t), ~Finish(t)
    PROVE  Unanswered' = Unanswered
  <1> USE DEF Safe
  <1>1. CASE FirstCallData(t)
    <2>1. PICK new \in CallData : status[new] = "free" /\ status' = [status EXCEPT ![new] = "PROCESS"]
      BY <1>1, NewObject DEF FirstCallData
    <2>2. \A d : Event(d)' <=> Event(d)
      BY <1>1 DEF FirstCallData, Event
    <2>3. \A u \in Thread : u # t => thread'[u] = thread[u]
      BY <1>1 DEF FirstCallData, Goto, TypeOK
    <2>4. thread'[t] = [at |-> "next", tag |-> None] /\ thread[t].at = "start"
      BY <1>1, GotoIs DEF FirstCallData
    <2>5. \A d : Event(d) => d \in CallData /\ status'[d] = status[d]
      BY <2>1, EventType DEF Event, StatusFits, ObjectFits, TypeOK
    <2>6. \A u \in Thread : Working(u)' <=> Working(u)
      BY <2>1, <2>3, <2>4, TagType DEF Working, StatusFits, ThreadFits, TypeOK
    <2>7. \A u \in Thread : Working(u) => thread'[u].tag = thread[u].tag
      BY <2>3, <2>4 DEF Working
    <2> QED BY <2>2, <2>5, <2>6, <2>7, UnansweredIs
  <1>2. CASE NextEvent(t)
    <2>1. \A d : Event(d)' <=> Event(d) /\ d # Head(cq).tag
      BY <1>2, TakeEvent DEF NextEvent
    <2>2. Head(cq) = cq[1] /\ 1 \in 1..Len(cq) /\ UNCHANGED status
      BY <1>2, TakeEvent DEF NextEvent
    <2>3. \A u \in Thread : u # t => thread'[u] = thread[u]
      BY <1>2 DEF NextEvent, Goto, TypeOK
    <2>4. ~Working(t)
      BY <1>2 DEF NextEvent, Working
    <2>5. \A u \in Thread : u # t => (Working(u)' <=> Working(u))
      BY <2>2, <2>3 DEF Working
    <2>6. CASE status[cq[1].tag] = "PROCESS"
      <3>1. thread'[t] = [at |-> "proceed", tag |-> Head(cq).tag]
        BY <1>2, <2>2, <2>6, GotoIs DEF NextEvent, StatusFits, EventFits
      <3>2. Working(t)'
        BY <2>2, <2>6, <3>1 DEF Working
      <3>3. Event(cq[1].tag)
        BY <2>2 DEF Event
      <3>4. ASSUME NEW f, f # cq[1].tag PROVE f \in Unanswered' <=> f \in Unanswered
        BY <2>1, <2>2, <2>3, <2>4, <2>5, <3>1, <3>4, UnansweredIs
      <3>5. cq[1].tag \in Unanswered' /\ cq[1].tag \in Unanswered
        BY <2>2, <2>6, <3>1, <3>2, <3>3, UnansweredIs
      <3> QED BY <3>4, <3>5
    <2>7. CASE status[cq[1].tag] # "PROCESS"
      <3>1. \/ thread'[t] = [at |-> "proceed", tag |-> Head(cq).tag]
            \/ thread'[t] = thread[t]
        BY <1>2, GotoIs DEF NextEvent
      <3>2. ~Working(t)'
        BY <2>2, <2>4, <2>7, <3>1 DEF Working
      <3> QED BY <2>1, <2>2, <2>3, <2>4, <2>5, <2>7, <3>2, UnansweredIs
    <2> QED BY <2>6, <2>7
  <1>3. CASE Spawn(t)
    <2>1. PICK new \in CallData : status[new] = "free" /\ status' = [status EXCEPT ![new] = "PROCESS"]
      BY <1>3, NewObject DEF Spawn
    <2>2. \A d : Event(d)' <=> Event(d)
      BY <1>3 DEF Spawn, Event
    <2>3. \A u \in Thread : u # t => thread'[u] = thread[u]
      BY <1>3 DEF Spawn, Goto, TypeOK
    <2>4. thread'[t] = [at |-> "list", tag |-> thread[t].tag]
      BY <1>3, GotoIs DEF Spawn
    <2>5. \A d : Event(d) => d \in CallData /\ status'[d] = status[d]
      BY <2>1, EventType DEF Event, StatusFits, ObjectFits, TypeOK
    <2>6. \A u \in Thread : Working(u)' <=> Working(u)
      <3>1. Working(t) /\ Working(t)'
        BY <1>3, <2>4 DEF Spawn, Working
      <3>2. ASSUME NEW u \in Thread, u # t PROVE Working(u)' <=> Working(u)
        <4>1. CASE thread[u].at = "proceed"
          <5>1. thread[u].tag \in CallData /\ status[thread[u].tag] # "free"
            BY <4>1, TagType DEF StatusFits, ThreadFits
          <5> QED BY <2>1, <2>3, <3>2, <5>1 DEF Working, TypeOK
        <4>2. CASE thread[u].at # "proceed"
          BY <2>3, <3>2, <4>2 DEF Working
        <4> QED BY <4>1, <4>2
      <3> QED BY <3>1, <3>2
    <2> QED BY <2>2, <2>3, <2>4, <2>5, <2>6, UnansweredIs
  <1>4. CASE ProcessCallback(t)
    <2>1. \A u \in Thread : u # t => thread'[u] = thread[u]
      BY <1>4 DEF ProcessCallback, Goto, TypeOK
    <2>2. thread'[t] = [at |-> "finish", tag |-> thread[t].tag] /\ thread[t].tag \in CallData
      BY <1>4, GotoIs, TagType DEF ProcessCallback
    <2>3. \A d \in CallData : d # thread[t].tag => status'[d] = status[d]
      BY <1>4 DEF ProcessCallback, TypeOK
    <2>4. \A d : Event(d)' <=> Event(d)
      BY <1>4 DEF ProcessCallback, Event
    <2>5. ~Event(thread[t].tag)
      BY <2>2 DEF NoAliases, Held
    <2>6. \A u \in Thread : u # t => thread[u].tag # thread[t].tag
      BY <2>2, CallbackConstants DEF NoAliases
    <2>7. \A u \in Thread : Working(u)' <=> Working(u)
      BY <1>4, <2>1, <2>2, <2>3, <2>6 DEF ProcessCallback, Working
    <2>8. \A u \in Thread : thread'[u].tag = thread[u].tag
      BY <2>1, <2>2
    <2>9. \A d : Event(d) => d \in CallData
      BY EventType DEF Event
    <2> QED BY <2>3, <2>4, <2>5, <2>7, <2>8, <2>9, UnansweredIs
  <1>5. CASE Delete(t)
    <2>1. \A u \in Thread : u # t => thread'[u] = thread[u]
      BY <1>5 DEF Delete, Goto, TypeOK
    <2>2. thread'[t] = [at |-> "next", tag |-> None] /\ thread[t].tag \in CallData
      BY <1>5, GotoIs, TagType DEF Delete
    <2>3. \A d \in CallData : d # thread[t].tag => status'[d] = status[d]
      BY <1>5 DEF Delete, TypeOK
    <2>4. \A d : Event(d)' <=> Event(d)
      BY <1>5 DEF Delete, Event
    <2>5. ~Event(thread[t].tag)
      BY <2>2 DEF NoAliases, Held
    <2>6. \A u \in Thread : u # t => thread[u].tag # thread[t].tag
      BY <2>2, CallbackConstants DEF NoAliases
    <2>7. ~Working(t) /\ ~Working(t)'
      BY <1>5, <2>2 DEF Delete, Working
    <2>8. \A u \in Thread : u # t => (Working(u)' <=> Working(u))
      BY <2>1, <2>3, <2>6, TagType DEF Working
    <2>9. \A d : Event(d) => d \in CallData
      BY EventType DEF Event
    <2> QED BY <2>1, <2>3, <2>4, <2>5, <2>7, <2>8, <2>9, UnansweredIs
  <1> QED BY <1>1, <1>2, <1>3, <1>4, <1>5 DEF ThreadStep

-----------------------------------------------------------------------------
(* One place at a time *)

\* A new object is in the queue only.
LEMMA NewObjectAliases ==
    ASSUME Safe, NewCallData, UNCHANGED <<registered, cq>>,
           \A u \in Thread : thread'[u].tag = thread[u].tag
    PROVE  NoAliases'
  <1> USE DEF Safe
  <1>1. PICK new \in CallData :
            /\ status[new] = "free"
            /\ queued_tags' = Append(queued_tags, new)
            /\ Len(queued_tags) \in Nat /\ Len(queued_tags') = Len(queued_tags) + 1
            /\ \A i \in 1..Len(queued_tags) : queued_tags'[i] = queued_tags[i]
            /\ \A d : Queued(d)' <=> Queued(d) \/ d = new
    BY NewObject
  <1>2. ~Queued(new) /\ new \notin registered /\ ~Event(new) /\ ~Held(new)
    <2>1. ASSUME NEW u \in Thread, thread[u].tag = new PROVE FALSE
      BY <1>1, <2>1, CallbackConstants DEF StatusFits, ThreadFits, TypeOK
    <2> QED BY <1>1, <2>1 DEF StatusFits, ObjectFits, Held
  <1>3. \A i, j \in 1..Len(queued_tags') : queued_tags'[i] = queued_tags'[j] => i = j
    <2>1. \A i \in 1..Len(queued_tags) : queued_tags[i] # new
      BY <1>2 DEF Queued
    <2>2. queued_tags'[Len(queued_tags) + 1] = new
      BY <1>1 DEF TypeOK
    <2>3. \A i \in 1..Len(queued_tags') : i \in 1..Len(queued_tags) \/ i = Len(queued_tags) + 1
      BY <1>1
    <2> QED BY <1>1, <2>1, <2>2, <2>3 DEF NoAliases
  <1>4. \A d : (Event(d)' <=> Event(d)) /\ (Held(d)' <=> Held(d))
    BY DEF Event, Held
  <1>5. \A d \in CallData :
            /\ Queued(d)' => d \notin registered' /\ ~Event(d)' /\ ~Held(d)'
            /\ d \in registered' => ~Event(d)' /\ ~Held(d)'
            /\ Event(d)' => ~Held(d)'
    BY <1>1, <1>2, <1>4 DEF NoAliases
  <1> QED BY <1>3, <1>5 DEF NoAliases

\* Steps that only move threads that go on with their objects, or let them go.
LEMMA GotoAliases ==
    ASSUME Safe, UNCHANGED <<queued_tags, registered, cq>>,
           NEW t \in Thread, NEW at,
           Goto(t, at, thread[t].tag) \/ Goto(t, at, None)
    PROVE  NoAliases'
  <1> USE DEF Safe
  <1>1. \A u \in Thread : thread'[u].tag = thread[u].tag \/ thread'[u].tag = None
    BY DEF Goto, TypeOK
  <1>2. \A d \in CallData : (Event(d)' <=> Event(d)) /\ (Queued(d)' <=> Queued(d))
    BY DEF Event, Queued
  <1>3. \A d \in CallData : Held(d)' => Held(d)
    BY <1>1, CallbackConstants DEF Held
  <1>4. \A u, v \in Thread : thread'[u].tag = thread'[v].tag /\ thread'[u].tag # None => u = v
    BY <1>1 DEF NoAliases
  <1> QED BY <1>2, <1>3, <1>4 DEF NoAliases

\* An event goes from the queue to one thread, or to nobody.
LEMMA NextEventAliases ==
    ASSUME Safe, NEW t \in Thread, NextEvent(t)
    PROVE  NoAliases'
  <1> USE DEF Safe
  <1>1. /\ Len(cq') = Len(cq) - 1 /\ Len(cq) \in Nat \ {0}
        /\ \A i \in 1..Len(cq') : cq'[i] = cq[i + 1] /\ i + 1 \in 2..Len(cq)
        /\ Head(cq) = cq[1] /\ Head(cq) \in [tag : CallData, ok : BOOLEAN]
        /\ \A d : Event(d)' <=> Event(d) /\ d # Head(cq).tag
    BY TakeEvent DEF NextEvent
  <1>2. Event(Head(cq).tag) /\ Head(cq).tag \in CallData
    BY <1>1 DEF Event
  <1>3. \A i, j \in 1..Len(cq') : cq'[i].tag = cq'[j].tag => i = j
    <2>1. ASSUME NEW i \in 1..Len(cq'), NEW j \in 1..Len(cq'), cq'[i].tag = cq'[j].tag
          PROVE  i = j
      <3>1. i + 1 \in 1..Len(cq) /\ j + 1 \in 1..Len(cq) /\ cq[i + 1].tag = cq[j + 1].tag
        <4>1. i + 1 \in 1..Len(cq) /\ cq'[i] = cq[i + 1]
          BY <1>1
        <4>2. j + 1 \in 1..Len(cq) /\ cq'[j] = cq[j + 1]
          BY <1>1
        <4> QED BY <2>1, <4>1, <4>2
      <3>2. i + 1 = j + 1
        BY <3>1 DEF NoAliases
      <3> QED BY <1>1, <3>2
    <2> QED BY <2>1
  <1>4. /\ thread'[t].tag \in {Head(cq).tag, None}
        /\ \A u \in Thread : u # t => thread'[u] = thread[u]
    <2>1. thread[t].tag = None
      BY DEF NextEvent, StatusFits, ThreadFits
    <2> QED BY <2>1 DEF NextEvent, Goto, TypeOK
  <1>5. \A u \in Thread : thread[u].tag # Head(cq).tag
    BY <1>2 DEF NoAliases, Held
  <1>6. \A u, v \in Thread : thread'[u].tag = thread'[v].tag /\ thread'[u].tag # None => u = v
    BY <1>4, <1>5 DEF NoAliases
  <1>7. \A d \in CallData : Held(d)' => Held(d) \/ d = Head(cq).tag
    BY <1>4, CallbackConstants DEF Held
  <1>8. \A d \in CallData : Queued(d)' <=> Queued(d)
    BY DEF NextEvent, Queued
  <1>9. registered' = registered
    BY DEF NextEvent
  <1>10. \A d \in CallData :
            /\ Queued(d)' => d \notin registered' /\ ~Event(d)' /\ ~Held(d)'
            /\ d \in registered' => ~Event(d)' /\ ~Held(d)'
            /\ Event(d)' => ~Held(d)'
    BY <1>1, <1>2, <1>7, <1>8, <1>9 DEF NoAliases
  <1>11. UNCHANGED queued_tags
    BY DEF NextEvent
  <1> QED BY <1>3, <1>6, <1>10, <1>11 DEF NoAliases

\* An object that is in no other place gets an event.
LEMMA AppendAliases ==
    ASSUME Safe, NEW e \in [tag : CallData, ok : BOOLEAN], cq' = Append(cq, e), ~Event(e.tag),
           UNCHANGED queued_tags, ~Queued(e.tag), registered' \subseteq registered \ {e.tag},
           \A u \in Thread : \/ thread'[u].tag = thread[u].tag /\ thread[u].tag # e.tag
                             \/ thread'[u].tag = None
    PROVE  NoAliases'
  <1> USE DEF Safe
  <1>1. /\ Len(cq') = Len(cq) + 1 /\ cq'[Len(cq')] = e
        /\ \A i \in 1..Len(cq) : cq'[i] = cq[i]
        /\ \A d : Event(d)' <=> Event(d) \/ d = e.tag
    BY AppendEvent
  <1>2. \A i, j \in 1..Len(cq') : cq'[i].tag = cq'[j].tag => i = j
    <2>1. \A i \in 1..Len(cq) : cq[i].tag # e.tag
      BY DEF Event
    <2>2. \A i \in 1..Len(cq') : i \in 1..Len(cq) \/ i = Len(cq')
      BY <1>1, EventType
    <2> QED BY <1>1, <2>1, <2>2 DEF NoAliases
  <1>3. \A u, v \in Thread : thread'[u].tag = thread'[v].tag /\ thread'[u].tag # None => u = v
    BY DEF NoAliases
  <1>4. \A d \in CallData : Held(d)' => Held(d) /\ d # e.tag
    BY CallbackConstants DEF Held
  <1>5. \A d \in CallData : Queued(d)' <=> Queued(d)
    BY DEF Queued
  <1>6. \A d \in CallData :
            /\ Queued(d)' => d \notin registered' /\ ~Event(d)' /\ ~Held(d)'
            /\ d \in registered' => ~Event(d)' /\ ~Held(d)'
            /\ Event(d)' => ~Held(d)'
    BY <1>1, <1>4, <1>5 DEF NoAliases
  <1> QED BY <1>2, <1>3, <1>6 DEF NoAliases

\* The queue thread moves all queued objects.
LEMMA RegisterAliases ==
    ASSUME Safe, ProcessQueuedRequests
    PROVE  /\ NoAliases'
           /\ \A d : ~Queued(d)'
           /\ \A d : d \in registered' <=> d \in registered \/ Queued(d)
  <1> USE DEF Safe
  <1>1. \A d : ~Queued(d)'
    BY DEF ProcessQueuedRequests, Queued
  <1>2. \A d : d \in registered' <=> d \in registered \/ Queued(d)
    BY DEF ProcessQueuedRequests, Queued
  <1>3. \A d \in CallData : (Event(d)' <=> Event(d)) /\ (Held(d)' <=> Held(d))
    BY DEF ProcessQueuedRequests, Event, Held
  <1>4. \A i, j \in 1..Len(queued_tags') : queued_tags'[i] = queued_tags'[j] => i = j
    BY DEF ProcessQueuedRequests
  <1>5. UNCHANGED <<cq, thread>>
    BY DEF ProcessQueuedRequests
  <1>6. \A d \in CallData :
            /\ Queued(d)' => d \notin registered' /\ ~Event(d)' /\ ~Held(d)'
            /\ d \in registered' => ~Event(d)' /\ ~Held(d)'
            /\ Event(d)' => ~Held(d)'
    BY <1>1, <1>2, <1>3 DEF NoAliases
  <1>7. NoAliases'
    BY <1>4, <1>5, <1>6 DEF NoAliases
  <1> QED BY <1>1, <1>2, <1>7

-----------------------------------------------------------------------------
(* What the status tells *)

\* A new object changes the status of nothing that is in use.
LEMMA NewObjectStatus ==
    ASSUME Safe, NewCallData, UNCHANGED <<client, registered, cq>>, NEW t \in Thread,
           \/ thread[t].at = "start" /\ Goto(t, "next", None)
           \/ /\ thread[t].at = "proceed" /\ status[thread[t].tag] = "PROCESS"
              /\ Goto(t, "list", thread[t].tag)
    PROVE  StatusFits'
  <1> USE DEF Safe
  <1>1. PICK new \in CallData :
            /\ status[new] = "free"
            /\ status' = [status EXCEPT ![new] = "PROCESS"]
            /\ \A d : Queued(d)' <=> Queued(d) \/ d = new
    BY NewObject
  <1>2. client[new] = None /\ ~Event(new)
    BY <1>1 DEF StatusFits, ObjectFits
  <1>3. \A d : Event(d)' <=> Event(d)
    BY DEF Event
  <1>4. \A d \in CallData : d # new => status'[d] = status[d]
    BY <1>1 DEF TypeOK
  <1>5. status'[new] = "PROCESS"
    BY <1>1 DEF TypeOK
  <1>6. \A d \in CallData : ObjectFits(d)'
    BY <1>1, <1>2, <1>3, <1>4, <1>5 DEF StatusFits, ObjectFits
  <1>7. \A i \in 1..Len(cq') : EventFits(cq[i])'
    <2>1. \A i \in 1..Len(cq) : cq[i].tag \in CallData /\ cq[i].tag # new
      BY <1>2, EventType DEF Event
    <2> QED BY <1>4, <2>1 DEF StatusFits, EventFits
  <1>8. \A u \in Thread : u # t => thread'[u] = thread[u]
    BY DEF Goto, TypeOK
  <1>9. \A u \in Thread : thread[u].at \notin {"start", "next"}
            => thread[u].tag \in CallData /\ status'[thread[u].tag] = status[thread[u].tag]
    <2>1. \A u \in Thread : thread[u].at \notin {"start", "next"}
              => thread[u].at \in {"proceed", "list", "finish"} /\ thread[u].tag \in CallData
      BY TagType DEF TypeOK
    <2> QED BY <1>1, <1>4, <2>1 DEF StatusFits, ThreadFits
  <1>10. \/ thread'[t] = [at |-> "next", tag |-> None]
         \/ /\ thread'[t] = [at |-> "list", tag |-> thread[t].tag]
            /\ thread[t].tag # None /\ status'[thread[t].tag] = "PROCESS"
    BY <1>9 DEF Goto, StatusFits, ThreadFits, TypeOK
  <1>11. ASSUME NEW u \in Thread PROVE ThreadFits(thread[u])'
    BY <1>8, <1>9, <1>10 DEF StatusFits, ThreadFits
  <1> QED BY <1>6, <1>7, <1>11 DEF StatusFits

\* What is taken from the queue fits, or is dropped.
LEMMA NextEventStatus ==
    ASSUME Safe, NEW t \in Thread, NextEvent(t)
    PROVE  StatusFits'
  <1> USE DEF Safe
  <1>1. /\ Len(cq') = Len(cq) - 1 /\ Len(cq) \in Nat \ {0}
        /\ \A i \in 1..Len(cq') : cq'[i] = cq[i + 1] /\ i + 1 \in 2..Len(cq)
        /\ Head(cq) = cq[1]
        /\ \A d : Event(d)' <=> Event(d) /\ d # Head(cq).tag
    BY TakeEvent DEF NextEvent
  <1>2. UNCHANGED <<status, client, queued_tags, registered>>
    BY DEF NextEvent
  <1>3. \A d \in CallData : ObjectFits(d)'
    BY <1>1, <1>2 DEF StatusFits, ObjectFits, Queued
  <1>4. ASSUME NEW i \in 1..Len(cq') PROVE EventFits(cq[i])'
    <2>1. cq'[i] = cq[i + 1] /\ i + 1 \in 1..Len(cq)
      BY <1>1
    <2> QED BY <1>2, <2>1 DEF StatusFits, EventFits
  <1>5. \A u \in Thread : u # t => thread'[u] = thread[u]
    BY DEF NextEvent, Goto, TypeOK
  <1>6. \/ thread'[t] = thread[t]
        \/ Head(cq).ok /\ thread'[t] = [at |-> "proceed", tag |-> Head(cq).tag]
    BY DEF NextEvent, Goto, TypeOK
  <1>7. /\ Head(cq).tag \in CallData /\ EventFits(Head(cq))
        /\ status[Head(cq).tag] \in {"PROCESS", "FINISH"}
    <2>1. 1 \in 1..Len(cq) /\ Head(cq) = cq[1]
      BY <1>1
    <2>2. cq[1].tag \in CallData
      BY <2>1, EventType DEF Safe
    <2>3. EventFits(cq[1])
      BY <2>1 DEF Safe, StatusFits
    <2>4. status[cq[1].tag] # "free"
      BY <2>1, <2>2 DEF Safe, StatusFits, ObjectFits, Event
    <2>5. status[cq[1].tag] \in {"free", "PROCESS", "FINISH"}
      BY <2>2 DEF Safe, TypeOK
    <2> QED BY <2>1, <2>2, <2>3, <2>4, <2>5
  <1>8. ASSUME NEW u \in Thread PROVE ThreadFits(thread[u])'
    <2>1. CASE thread'[u] = thread[u]
      BY <1>2, <2>1 DEF StatusFits, ThreadFits
    <2>2. CASE thread'[u] # thread[u]
      BY <1>2, <1>5, <1>6, <1>7, <2>2, CallbackConstants DEF ThreadFits, EventFits
    <2> QED BY <2>1, <2>2
  <1> QED BY <1>3, <1>4, <1>8 DEF StatusFits

\* A thread that sets the status of its object, or deletes it, touches no other one.
LEMMA OwnStatus ==
    ASSUME Safe, NEW t \in Thread, thread[t].at \notin {"start", "next"},
           UNCHANGED <<queued_tags, registered, cq>>,
           NEW value \in {"free", "FINISH"}, NEW c,
           status' = [status EXCEPT ![thread[t].tag] = value],
           client' = [client EXCEPT ![thread[t].tag] = c], value = "free" => c = None,
           NEW at, NEW tag, Goto(t, at, tag), ThreadFits([at |-> at, tag |-> tag])'
    PROVE  StatusFits'
  <1> USE DEF Safe
  <1> DEFINE d == thread[t].tag
  <1>1. d \in CallData /\ Held(d)
    BY TagType DEF Held
  <1>2. ~Queued(d) /\ d \notin registered /\ ~Event(d)
    BY <1>1 DEF NoAliases
  <1>3. \A e \in CallData : e # d => status'[e] = status[e] /\ client'[e] = client[e]
    BY DEF TypeOK
  <1>4. status'[d] = value /\ client'[d] = c
    BY <1>1 DEF TypeOK
  <1>5. \A e \in CallData : (Event(e)' <=> Event(e)) /\ (Queued(e)' <=> Queued(e))
    BY DEF Event, Queued
  <1>6. \A e \in CallData : ObjectFits(e)'
    BY <1>2, <1>3, <1>4, <1>5 DEF StatusFits, ObjectFits
  <1>7. ASSUME NEW i \in 1..Len(cq') PROVE EventFits(cq[i])'
    BY <1>2, <1>3, EventType DEF StatusFits, EventFits, Event
  <1>8. ASSUME NEW u \in Thread PROVE ThreadFits(thread[u])'
    <2>1. CASE u = t
      BY <2>1 DEF Goto, TypeOK
    <2>2. CASE u # t
      <3>1. thread'[u] = thread[u] /\ thread[u].tag # d
        BY <1>1, <2>2, CallbackConstants DEF NoAliases, Goto, TypeOK
      <3>2. thread[u].tag # None => thread[u].tag \in CallData
        BY DEF TypeOK
      <3>3. thread[u].at \in {"start", "next"} \/ thread[u].tag # None
        BY DEF StatusFits, ThreadFits
      <3> QED BY <1>3, <3>1, <3>2, <3>3 DEF StatusFits, ThreadFits
    <2> QED BY <2>1, <2>2
  <1> QED BY <1>6, <1>7, <1>8 DEF StatusFits

\* The event of an answer says whether the client was there.
LEMMA FinishStatus ==
    ASSUME Safe, NEW t \in Thread, Finish(t)
    PROVE  StatusFits'
  <1> USE DEF Safe
  <1> DEFINE d == thread[t].tag
             e == [tag |-> d, ok |-> client[d] # None]
  <1>1. d \in CallData /\ status[d] = "FINISH"
    BY TagType DEF Finish, StatusFits, ThreadFits
  <1>2. e \in [tag : CallData, ok : BOOLEAN] /\ cq' = Append(cq, e)
    BY <1>1 DEF Finish, Answer
  <1>3. /\ Len(cq') = Len(cq) + 1 /\ cq'[Len(cq')] = e
        /\ \A i \in 1..Len(cq) : cq'[i] = cq[i]
        /\ \A f : Event(f)' <=> Event(f) \/ f = e.tag
    BY <1>2, AppendEvent
  <1>4. UNCHANGED <<status, client, queued_tags, registered>>
    BY DEF Finish
  <1>5. \A f \in CallData : ObjectFits(f)'
    BY <1>1, <1>3, <1>4 DEF StatusFits, ObjectFits, Queued
  <1>6. ASSUME NEW i \in 1..Len(cq') PROVE EventFits(cq[i])'
    <2>1. CASE i \in 1..Len(cq)
      BY <1>3, <1>4, <2>1 DEF StatusFits, EventFits
    <2>2. CASE i = Len(cq')
      <3>1. e.tag = d /\ (e.ok <=> client[d] # None)
        OBVIOUS
      <3>2. cq'[i] = e
        BY <1>3, <2>2
      <3> HIDE DEF e
      <3> QED BY <1>1, <1>4, <3>1, <3>2 DEF EventFits
    <2> QED BY <1>3, <2>1, <2>2, EventType
  <1>7. \A u \in Thread : thread'[u] = IF u = t THEN [at |-> "next", tag |-> None] ELSE thread[u]
    BY DEF Finish, Goto, TypeOK
  <1>8. \A u \in Thread : ThreadFits(thread[u])'
    BY <1>4, <1>7 DEF StatusFits, ThreadFits
  <1> QED BY <1>5, <1>6, <1>8 DEF StatusFits

\* Registering is a move of objects that wait for a call.
LEMMA RegisterStatus ==
    ASSUME Safe, ProcessQueuedRequests
    PROVE  StatusFits'
  <1> USE DEF Safe
  <1>1. UNCHANGED <<status, client, cq, thread>>
    BY DEF ProcessQueuedRequests
  <1>2. \A d \in CallData : ObjectFits(d)'
    BY <1>1, RegisterAliases DEF StatusFits, ObjectFits, Event
  <1>3. \A i \in 1..Len(cq') : EventFits(cq[i])'
    BY <1>1 DEF StatusFits, EventFits
  <1>4. \A u \in Thread : ThreadFits(thread[u])'
    BY <1>1 DEF StatusFits, ThreadFits
  <1> QED BY <1>2, <1>3, <1>4 DEF StatusFits

\* The object of an accepted call has a client and an event that is ok.
LEMMA AcceptStatus ==
    ASSUME Safe, NEW c \in Client, NEW d \in registered,
           registered' = registered \ {d}, client' = [client EXCEPT ![d] = c],
           cq' = Append(cq, [tag |-> d, ok |-> TRUE]),
           UNCHANGED <<status, queued_tags, thread>>
    PROVE  StatusFits'
  <1> USE DEF Safe
  <1> DEFINE e == [tag |-> d, ok |-> TRUE]
  <1>1. /\ d \in CallData /\ status[d] = "PROCESS" /\ client'[d] = c
        /\ \A f \in CallData : f # d => client'[f] = client[f]
    BY DEF StatusFits, ObjectFits, TypeOK
  <1>2. ~Queued(d) /\ ~Event(d) /\ ~Held(d)
    BY <1>1 DEF NoAliases
  <1>3. /\ Len(cq') = Len(cq) + 1 /\ cq'[Len(cq')] = e
        /\ \A i \in 1..Len(cq) : cq'[i] = cq[i]
        /\ \A f : Event(f)' <=> Event(f) \/ f = e.tag
    BY <1>1, AppendEvent
  <1>4. \A f \in CallData : ObjectFits(f)'
    BY <1>1, <1>2, <1>3 DEF StatusFits, ObjectFits, Queued
  <1>5. ASSUME NEW i \in 1..Len(cq') PROVE EventFits(cq[i])'
    <2>1. CASE i \in 1..Len(cq)
      BY <1>1, <1>2, <1>3, <2>1, EventType DEF StatusFits, EventFits, Event
    <2>2. CASE i = Len(cq')
      BY <1>1, <1>3, <2>2 DEF EventFits
    <2> QED BY <1>3, <2>1, <2>2, EventType
  <1>6. ASSUME NEW u \in Thread PROVE ThreadFits(thread[u])'
    <2>1. thread[u].tag # d
      BY <1>2 DEF Held
    <2>2. thread[u].tag # None => client'[thread[u].tag] = client[thread[u].tag]
      BY <1>1, <2>1 DEF TypeOK
    <2>3. ThreadFits(thread[u]) /\ thread'[u] = thread[u]
      BY DEF StatusFits
    <2> QED BY <2>2, <2>3 DEF ThreadFits
  <1> QED BY <1>4, <1>5, <1>6 DEF StatusFits

\* A client that goes is forgotten by the object that has yet to answer it.
LEMMA ClientGoneStatus ==
    ASSUME Safe, NEW c \in Client, ClientGone(c)
    PROVE  StatusFits'
  <1> USE DEF Safe
  <1>1. UNCHANGED <<status, queued_tags, registered, cq, thread>>
    BY DEF ClientGone
  <1>2. \A d \in CallData : client'[d] = IF d \in Unanswered /\ client[d] = c THEN None ELSE client[d]
    BY DEF ClientGone
  <1>3. \A d \in CallData : ObjectFits(d)'
    BY <1>1, <1>2 DEF StatusFits, ObjectFits, Event, Queued
  <1>4. ASSUME NEW i \in 1..Len(cq') PROVE EventFits(cq[i])'
    <2>1. CASE status[cq[i].tag] = "PROCESS"
      BY <1>1, <2>1 DEF StatusFits, EventFits
    <2>2. CASE status[cq[i].tag] # "PROCESS"
      <3>1. Event(cq[i].tag) /\ cq[i].tag \in CallData
        BY <1>1, EventType DEF Event
      <3>2. ~Held(cq[i].tag)
        BY <3>1 DEF NoAliases
      <3>3. cq[i].tag \notin Unanswered
        BY <2>2, <3>2, UnansweredIs DEF Held
      <3> QED BY <1>1, <1>2, <3>1, <3>3 DEF StatusFits, EventFits
    <2> QED BY <2>1, <2>2
  <1>5. ASSUME NEW u \in Thread PROVE ThreadFits(thread[u])'
    <2>1. CASE thread[u].at = "proceed" /\ status[thread[u].tag] = "FINISH"
      <3>1. thread[u].tag \in CallData
        BY <2>1, TagType
      <3>2. Held(thread[u].tag) /\ ~Event(thread[u].tag)
        BY <3>1 DEF Held, NoAliases
      <3>3. \A v \in Thread : thread[v].tag = thread[u].tag => v = u
        BY <3>1, CallbackConstants DEF NoAliases
      <3>4. thread[u].tag \notin Unanswered
        BY <2>1, <3>2, <3>3, UnansweredIs DEF Working
      <3> QED BY <1>1, <1>2, <3>1, <3>4 DEF StatusFits, ThreadFits
    <2>2. CASE ~(thread[u].at = "proceed" /\ status[thread[u].tag] = "FINISH")
      BY <1>1, <2>2 DEF StatusFits, ThreadFits
    <2> QED BY <2>1, <2>2
  <1> QED BY <1>3, <1>4, <1>5 DEF StatusFits

-----------------------------------------------------------------------------
(* One object for each call *)

\* While objects keep their clients and nothing is accepted or answered, nothing changes.
LEMMA SameCalls ==
    ASSUME Safe, Unanswered' = Unanswered, UNCHANGED call,
           \A d \in Unanswered : client'[d] = client[d]
    PROVE  OneObjectPerCall'
  BY DEF Safe, OneObjectPerCall

\* The object that answers is the only one with its client.
LEMMA FinishCalls ==
    ASSUME Safe, NEW t \in Thread, Finish(t)
    PROVE  OneObjectPerCall'
  <1> USE DEF Safe
  <1> DEFINE d == thread[t].tag
  <1>1. d \in CallData /\ d \in Unanswered /\ Unanswered' = Unanswered \ {d}
    BY TagType, FinishUnanswered, UnansweredIs DEF Finish, Working
  <1>2. \A c \in Client : call'[c] = IF client[d] = c THEN "answered" ELSE call[c]
    BY DEF Finish, Answer
  <1>3. UNCHANGED client
    BY DEF Finish
  <1>4. ASSUME NEW e \in Unanswered', client[e] # None
        PROVE call'[client[e]] = "accepted"
    <2>1. client[e] \in Client /\ client[e] # client[d]
      BY <1>1, <1>4, UnansweredType DEF OneObjectPerCall, TypeOK
    <2> QED BY <1>1, <1>2, <1>4, <2>1 DEF OneObjectPerCall
  <1>5. ASSUME NEW c \in Client, call'[c] = "accepted"
        PROVE \E e \in Unanswered' : client[e] = c
    BY <1>1, <1>2, <1>5 DEF OneObjectPerCall
  <1> QED BY <1>1, <1>3, <1>4, <1>5 DEF OneObjectPerCall

\* A call that is accepted had no object.
LEMMA AcceptCalls ==
    ASSUME Safe, NEW c \in Client, call[c] = "sent", NEW d \in registered,
           client' = [client EXCEPT ![d] = c], Unanswered' = Unanswered \cup {d},
           call' = [call EXCEPT ![c] = "accepted"]
    PROVE  OneObjectPerCall'
  <1> USE DEF Safe
  <1>1. d \in CallData /\ d \notin Unanswered
    BY UnansweredType DEF TypeOK
  <1>2. /\ client'[d] = c
        /\ \A e \in Unanswered : client'[e] = client[e] /\ client[e] # c
    BY <1>1, UnansweredType, CallbackConstants DEF OneObjectPerCall, TypeOK
  <1>3. \A b \in Client : call'[b] = IF b = c THEN "accepted" ELSE call[b]
    BY DEF TypeOK
  <1>4. ASSUME NEW e \in Unanswered, client[e] # None PROVE call'[client[e]] = "accepted"
    <2>1. client[e] \in Client
      BY <1>4, UnansweredType DEF TypeOK
    <2> QED BY <1>3, <1>4, <2>1 DEF OneObjectPerCall
  <1>5. ASSUME NEW b \in Client, call'[b] = "accepted"
        PROVE \E e \in Unanswered' : client'[e] = b
    <2>1. CASE b = c
      BY <1>2, <2>1
    <2>2. CASE b # c
      BY <1>2, <1>3, <1>5, <2>2 DEF OneObjectPerCall
    <2> QED BY <2>1, <2>2
  <1> QED BY <1>2, <1>3, <1>4, <1>5 DEF OneObjectPerCall

\* A call whose client goes has no object any more.
LEMMA ClientGoneCalls ==
    ASSUME Safe, NEW c \in Client, ClientGone(c)
    PROVE  OneObjectPerCall'
  <1> USE DEF Safe
  <1>1. Unanswered' = Unanswered
    BY DEF ClientGone, Unanswered
  <1>2. \A d \in Unanswered : client'[d] = IF client[d] = c THEN None ELSE client[d]
    BY UnansweredType DEF ClientGone
  <1>3. \A b \in Client : call'[b] = IF b = c THEN "none" ELSE call[b]
    BY DEF ClientGone, TypeOK
  <1>4. \A d \in Unanswered : client[d] # None => client[d] \in Client
    BY UnansweredType DEF TypeOK
  <1> QED BY <1>1, <1>2, <1>3, <1>4 DEF OneObjectPerCall

-----------------------------------------------------------------------------
(* All of it together *)

\* Every step of a thread is safe.
LEMMA ThreadSafe ==
    ASSUME Safe, NEW t \in Thread, ThreadStep(t)
    PROVE  Safe'
  <1>1. TypeOK'
    BY ThreadType
  <1>2. NoAliases' /\ StatusFits'
    <2>1. CASE FirstCallData(t)
      <3>1. \A u \in Thread : thread'[u].tag = thread[u].tag
        BY <2>1 DEF FirstCallData, Goto, Safe, StatusFits, ThreadFits, TypeOK
      <3> QED BY <2>1, <3>1, NewObjectAliases, NewObjectStatus DEF FirstCallData
    <2>2. CASE NextEvent(t)
      BY <2>2, NextEventAliases, NextEventStatus
    <2>3. CASE Spawn(t)
      <3>1. \A u \in Thread : thread'[u].tag = thread[u].tag
        BY <2>3 DEF Spawn, Goto, Safe, TypeOK
      <3> QED BY <2>3, <3>1, NewObjectAliases, NewObjectStatus DEF Spawn
    <2>4. CASE ProcessCallback(t)
      <3>1. PICK d \in CallData : d = thread[t].tag
        BY <2>4, TagType DEF ProcessCallback
      <3>2. /\ status' = [status EXCEPT ![d] = "FINISH"]
            /\ Goto(t, "finish", d)
            /\ thread[t].at \notin {"start", "next"}
            /\ UNCHANGED <<client, queued_tags, registered, cq>>
        BY <2>4, <3>1 DEF ProcessCallback
      <3>3. ThreadFits([at |-> "finish", tag |-> d])'
        BY <3>2, CallbackConstants DEF ThreadFits, Safe, TypeOK
      <3>4. client' = [client EXCEPT ![d] = client[d]]
        BY <3>2 DEF Safe, TypeOK
      <3>5. StatusFits'
        BY <3>1, <3>2, <3>3, <3>4, OwnStatus
      <3> QED BY <3>1, <3>2, <3>5, GotoAliases
    <2>5. CASE Finish(t)
      <3>1. thread[t].tag \in CallData
        BY <2>5, TagType DEF Finish
      <3>2. ~Queued(thread[t].tag) /\ thread[t].tag \notin registered /\ ~Event(thread[t].tag)
        BY <3>1 DEF Safe, NoAliases, Held
      <3>3. \A u \in Thread : \/ thread'[u].tag = thread[u].tag /\ thread[u].tag # thread[t].tag
                              \/ thread'[u].tag = None
        BY <2>5, <3>1, CallbackConstants DEF Finish, Goto, Safe, NoAliases, TypeOK
      <3>4. /\ [tag |-> thread[t].tag, ok |-> client[thread[t].tag] # None]
                  \in [tag : CallData, ok : BOOLEAN]
            /\ cq' = Append(cq, [tag |-> thread[t].tag, ok |-> client[thread[t].tag] # None])
            /\ UNCHANGED <<queued_tags, registered>>
        BY <2>5, <3>1 DEF Finish, Answer
      <3>5. NoAliases'
        BY <3>2, <3>3, <3>4, AppendAliases
      <3> QED BY <2>5, <3>5, FinishStatus
    <2>6. CASE Delete(t)
      <3>1. ThreadFits([at |-> "next", tag |-> None])'
        BY DEF ThreadFits
      <3> QED BY <2>6, <3>1, GotoAliases, OwnStatus DEF Delete
    <2> QED BY <2>1, <2>2, <2>3, <2>4, <2>5, <2>6 DEF ThreadStep
  <1>3. OneObjectPerCall'
    <2>1. CASE Finish(t)
      BY <2>1, FinishCalls
    <2>2. CASE ~Finish(t)
      <3>1. Unanswered' = Unanswered
        BY <2>2, ThreadUnanswered
      <3>2. UNCHANGED call
        BY <2>2 DEF ThreadStep, FirstCallData, NextEvent, Spawn, ProcessCallback, Delete
      <3>3. UNCHANGED client \/ (Delete(t) /\ client' = [client EXCEPT ![thread[t].tag] = None])
        BY <2>2 DEF ThreadStep, FirstCallData, NextEvent, Spawn, ProcessCallback, Delete
      <3>4. Delete(t) => thread[t].tag \notin Unanswered
        <4>1. SUFFICES ASSUME Delete(t) PROVE thread[t].tag \notin Unanswered
          OBVIOUS
        <4>2. thread[t].tag \in CallData
          BY <4>1, TagType DEF Delete
        <4>3. ~Event(thread[t].tag) /\ \A u \in Thread : thread[u].tag = thread[t].tag => u = t
          BY <4>2, CallbackConstants DEF Safe, NoAliases, Held
        <4> QED BY <4>1, <4>3, UnansweredIs DEF Delete, Working
      <3>5. \A d \in Unanswered : client'[d] = client[d]
        BY <3>3, <3>4, UnansweredType DEF Safe, TypeOK
      <3> QED BY <3>1, <3>2, <3>5, SameCalls
    <2> QED BY <2>1, <2>2
  <1> QED BY <1>1, <1>2, <1>3 DEF Safe

\* So is every step of the queue thread, a client or gRPC.
LEMMA OtherSafe ==
    ASSUME Safe,
           \/ ProcessQueuedRequests
           \/ \E c \in Client : CallbackList(c) \/ Accept(c) \/ ClientGone(c)
    PROVE  Safe'
  <1>1. TypeOK'
    BY OtherType DEF Safe
  <1>2. CASE ProcessQueuedRequests
    <2>1. Unanswered' = Unanswered /\ UNCHANGED <<client, call>>
      BY <1>2 DEF ProcessQueuedRequests, Unanswered
    <2>2. OneObjectPerCall'
      BY <2>1, SameCalls
    <2> QED BY <1>1, <1>2, <2>2, RegisterAliases, RegisterStatus DEF Safe
  <1>3. ASSUME NEW c \in Client, CallbackList(c) PROVE Safe'
    <2>1. NoAliases' /\ StatusFits'
      BY <1>3 DEF CallbackList, Safe, NoAliases, StatusFits, ObjectFits, EventFits, ThreadFits,
                  Queued, Event, Held
    <2>2. Unanswered' = Unanswered /\ UNCHANGED client
      BY <1>3 DEF CallbackList, Unanswered
    <2>3. \A b \in Client : call'[b] = "accepted" <=> call[b] = "accepted"
      BY <1>3 DEF CallbackList, Safe, TypeOK
    <2>4. \A d \in Unanswered : client[d] # None => client[d] \in Client
      BY UnansweredType DEF Safe, TypeOK
    <2>5. OneObjectPerCall'
      BY <2>2, <2>3, <2>4 DEF Safe, OneObjectPerCall
    <2> QED BY <1>1, <2>1, <2>5 DEF Safe
  <1>4. ASSUME NEW c \in Client, Accept(c) PROVE Safe'
    <2>1. PICK d \in registered :
              /\ registered' = registered \ {d}
              /\ client' = [client EXCEPT ![d] = c]
              /\ cq' = Append(cq, [tag |-> d, ok |-> TRUE])
      BY <1>4 DEF Accept
    <2>2. UNCHANGED <<status, queued_tags, thread>> /\ call[c] = "sent"
          /\ call' = [call EXCEPT ![c] = "accepted"]
      BY <1>4 DEF Accept
    <2>3. d \in CallData /\ ~Queued(d) /\ ~Event(d) /\ ~Held(d)
      BY DEF Safe, NoAliases, TypeOK
    <2>4. [tag |-> d, ok |-> TRUE] \in [tag : CallData, ok : BOOLEAN]
      BY <2>3
    <2>5. NoAliases'
      BY <2>1, <2>2, <2>3, <2>4, AppendAliases DEF Held
    <2>6. StatusFits' /\ OneObjectPerCall'
      BY <2>1, <2>2, AcceptStatus, AcceptUnanswered, AcceptCalls
    <2> QED BY <1>1, <2>5, <2>6 DEF Safe
  <1>5. ASSUME NEW c \in Client, ClientGone(c) PROVE Safe'
    <2>1. UNCHANGED <<queued_tags, registered, cq, thread>>
      BY <1>5 DEF ClientGone
    <2>2. NoAliases'
      BY <2>1 DEF Safe, NoAliases, Queued, Event, Held
    <2> QED BY <1>1, <1>5, <2>2, ClientGoneStatus, ClientGoneCalls DEF Safe
  <1> QED BY <1>2, <1>3, <1>4, <1>5

\* Nothing is queued, and no object exists, when the server starts.
LEMMA InitSafe == Init => Safe
  <1> SUFFICES ASSUME Init PROVE Safe
    OBVIOUS
  <1>1. \A d : ~Queued(d) /\ ~Event(d)
    BY DEF Init, Queued, Event
  <1>2. \A d \in CallData : ~Held(d)
    BY CallbackConstants DEF Init, Held
  <1>3. NoAliases
    BY <1>1, <1>2 DEF Init, NoAliases
  <1>4. StatusFits
    BY <1>1 DEF Init, StatusFits, ObjectFits, ThreadFits
  <1>5. Unanswered = {}
    BY <1>1, UnansweredIs DEF Init, Working
  <1>6. OneObjectPerCall
    BY <1>5 DEF Init, OneObjectPerCall
  <1> QED BY <1>3, <1>4, <1>6, InitType DEF Safe

LEMMA StepSafe == Safe /\ [Next]_vars => Safe'
  <1> SUFFICES ASSUME Safe, [Next]_vars PROVE Safe'
    OBVIOUS
  <1>1. CASE UNCHANGED vars
    <2>1. TypeOK'
      BY <1>1 DEF vars, Safe, TypeOK
    <2>2. NoAliases'
      BY <1>1 DEF vars, Safe, NoAliases, Queued, Event, Held
    <2>3. StatusFits'
      BY <1>1 DEF vars, Safe, StatusFits, ObjectFits, EventFits, ThreadFits, Queued, Event
    <2>4. OneObjectPerCall'
      BY <1>1 DEF vars, Safe, OneObjectPerCall, Unanswered
    <2> QED BY <2>1, <2>2, <2>3, <2>4 DEF Safe
  <1>2. CASE Next
    BY <1>2, ThreadSafe, OtherSafe DEF Next
  <1> QED BY <1>1, <1>2

-----------------------------------------------------------------------------
(* One place and one answer *)

\* A set without two different elements has at most one.
LEMMA AtMostOne ==
    ASSUME NEW S, \A x, y \in S : x = y
    PROVE  IsFiniteSet(S) /\ Cardinality(S) \in {0, 1} /\ (Cardinality(S) = 1 <=> S # {})
  <1>1. CASE S = {}
    BY <1>1, FS_EmptySet
  <1>2. CASE S # {}
    <2>1. PICK x : S = {x}
      BY <1>2
    <2> QED BY <1>2, <2>1, FS_Singleton
  <1> QED BY <1>1, <1>2

LEMMA SafeOnePlace == Safe => OnePlace
  <1> SUFFICES ASSUME Safe, NEW d \in CallData
               PROVE  Cardinality(Places(d)) <= 1 /\ (Places(d) # {} => status[d] # "free")
    BY DEF OnePlace
  <1> USE DEF Safe
  <1> DEFINE Q == { <<"queued", i>> : i \in { j \in 1..Len(queued_tags) : queued_tags[j] = d } }
             R == { <<"registered", 0>> : e \in registered \cap {d} }
             E == { <<"event", i>> : i \in { j \in 1..Len(cq) : cq[j].tag = d } }
             T == { <<"thread", t>> : t \in { u \in Thread : thread[u].tag = d } }
  <1>1. Places(d) = Q \cup R \cup E \cup T
    BY DEF Places
  <1>2. /\ \A x, y \in Q : x = y
        /\ \A x, y \in R : x = y
        /\ \A x, y \in E : x = y
        /\ \A x, y \in T : x = y
    BY CallbackConstants DEF NoAliases
  <1>3. /\ Q # {} <=> Queued(d)
        /\ R # {} <=> d \in registered
        /\ E # {} <=> Event(d)
        /\ T # {} <=> Held(d)
    BY DEF Queued, Event, Held
  <1> HIDE DEF Q, R, E, T
  <1>4. \A x, y \in Places(d) : x = y
    BY <1>1, <1>2, <1>3 DEF NoAliases
  <1>5. Cardinality(Places(d)) <= 1
    BY <1>4, AtMostOne
  <1>6. ASSUME Held(d) PROVE status[d] # "free"
    <2>1. PICK t \in Thread : thread[t].tag = d
      BY <1>6 DEF Held
    <2>2. thread[t].at \in {"proceed", "list", "finish"}
      BY <2>1, CallbackConstants DEF StatusFits, ThreadFits, TypeOK
    <2> QED BY <2>1, <2>2 DEF StatusFits, ThreadFits
  <1>7. Places(d) # {} => status[d] # "free"
    BY <1>1, <1>3, <1>6 DEF StatusFits, ObjectFits
  <1> QED BY <1>5, <1>7

LEMMA SafeOneAnswer == Safe => OneAnswer
  <1> SUFFICES ASSUME Safe, NEW c \in Client
               PROVE  Cardinality({ d \in Unanswered : client[d] = c })
                          = (IF call[c] = "accepted" THEN 1 ELSE 0)
    BY DEF OneAnswer
  <1> DEFINE S == { d \in Unanswered : client[d] = c }
  <1>1. \A x, y \in S : x = y
    BY CallbackConstants DEF Safe, OneObjectPerCall
  <1>2. S # {} <=> call[c] = "accepted"
    BY CallbackConstants DEF Safe, OneObjectPerCall
  <1> HIDE DEF S
  <1>3. Cardinality(S) \in {0, 1} /\ (Cardinality(S) = 1 <=> S # {})
    BY <1>1, AtMostOne
  <1>4. Cardinality(S) = (IF call[c] = "accepted" THEN 1 ELSE 0)
    BY <1>2, <1>3
  <1> QED BY <1>4 DEF S

-----------------------------------------------------------------------------
(* Counting *)

\* A union has at most as many elements as its parts together.
LEMMA UnionBound ==
    ASSUME NEW S, IsFiniteSet(S), NEW T, IsFiniteSet(T)
    PROVE  IsFiniteSet(S \cup T) /\ Cardinality(S \cup T) <= Cardinality(S) + Cardinality(T)
  <1>1. IsFiniteSet(S \cap T)
    BY FS_Intersection
  <1>2. Cardinality(S) \in Nat /\ Cardinality(T) \in Nat /\ Cardinality(S \cap T) \in Nat
    BY <1>1, FS_CardinalityType
  <1>3. /\ IsFiniteSet(S \cup T)
        /\ Cardinality(S \cup T) = Cardinality(S) + Cardinality(T) - Cardinality(S \cap T)
    BY FS_Union
  <1> QED BY <1>2, <1>3

\* The image of a set has at most as many elements as the set.
LEMMA ImageBound ==
    ASSUME NEW S, IsFiniteSet(S), NEW f
    PROVE  /\ IsFiniteSet({ f[x] : x \in S })
           /\ Cardinality({ f[x] : x \in S }) <= Cardinality(S)
  <1> DEFINE T == { f[x] : x \in S }
             g == [x \in S |-> f[x]]
  <1>1. g \in Surjection(S, T)
    BY DEF Surjection
  <1> HIDE DEF g, T
  <1>2. IsFiniteSet(T) /\ Cardinality(T) <= Cardinality(S)
    BY <1>1, FS_Surjection
  <1> QED BY <1>2 DEF T

\* Positions that all move by one are as many as before.
LEMMA ShiftedCardinality ==
    ASSUME NEW S, IsFiniteSet(S), S \subseteq Nat \ {0}, NEW T, T \subseteq Nat,
           \A i \in Nat : i \in T <=> i + 1 \in S
    PROVE  IsFiniteSet(T) /\ Cardinality(T) = Cardinality(S)
  <1> DEFINE g == [i \in S |-> i - 1]
  <1>1. g \in Bijection(S, T)
    <2>1. g \in [S -> T]
      <3>1. ASSUME NEW i \in S PROVE i - 1 \in T
        <4>1. i - 1 \in Nat /\ (i - 1) + 1 = i
          OBVIOUS
        <4> QED BY <4>1
      <3> QED BY <3>1
    <2>2. \A i, j \in S : g[i] = g[j] => i = j
      OBVIOUS
    <2>3. \A i \in T : i + 1 \in S /\ g[i + 1] = i
      OBVIOUS
    <2> HIDE DEF g
    <2>4. g \in Injection(S, T)
      BY <2>1, <2>2 DEF Injection, IsInjective
    <2>5. g \in Surjection(S, T)
      BY <2>1, <2>3 DEF Surjection
    <2> QED BY <2>4, <2>5 DEF Bijection
  <1>2. ExistsBijection(S, T)
    BY <1>1 DEF ExistsBijection
  <1> QED BY <1>2, FS_Bijection

\* ReadyForClients, with its parts named.
LEMMA ReadyIs ==
    /\ ReadyForClients <=> Len(queued_tags) + Cardinality(registered)
          + Cardinality(ReadyEvents) + Cardinality(ReadyThreads) = Cardinality(Thread)
    /\ ReadyForClients' <=> Len(queued_tags') + Cardinality(registered')
          + Cardinality(ReadyEvents') + Cardinality(ReadyThreads') = Cardinality(Thread)
  BY DEF ReadyForClients, ReadyEvents, ReadyThreads

\* All that is counted is finite.
LEMMA CountsAreNumbers ==
    ASSUME TypeOK, RegisteredFinite
    PROVE  /\ Len(queued_tags) \in Nat /\ Len(cq) \in Nat
           /\ Cardinality(registered) \in Nat /\ Cardinality(Thread) \in Nat
           /\ IsFiniteSet(ReadyEvents) /\ Cardinality(ReadyEvents) \in Nat
           /\ IsFiniteSet(ReadyThreads) /\ Cardinality(ReadyThreads) \in Nat
  <1>1. Len(queued_tags) \in Nat /\ Len(cq) \in Nat
    BY DEF TypeOK
  <1>2. IsFiniteSet(1..Len(cq))
    BY <1>1, FS_Interval
  <1>3. IsFiniteSet(ReadyEvents) /\ IsFiniteSet(ReadyThreads)
    BY <1>2, CallbackConstants, FS_Subset DEF ReadyEvents, ReadyThreads
  <1> QED BY <1>1, <1>3, CallbackConstants, FS_CardinalityType DEF RegisteredFinite

\* A thread makes an object when it is no longer to make one.
LEMMA NewObjectReady ==
    ASSUME Safe, Ready, NewCallData, UNCHANGED <<registered, cq>>, NEW t \in Thread,
           \/ thread[t].at = "start" /\ Goto(t, "next", None)
           \/ /\ thread[t].at = "proceed" /\ status[thread[t].tag] = "PROCESS"
              /\ Goto(t, "list", thread[t].tag)
    PROVE  Ready'
  <1> USE DEF Safe, Ready
  <1>1. PICK new \in CallData :
            /\ status[new] = "free" /\ status' = [status EXCEPT ![new] = "PROCESS"]
            /\ Len(queued_tags) \in Nat /\ Len(queued_tags') = Len(queued_tags) + 1
    BY NewObject
  <1>2. ReadyEvents' = ReadyEvents
    <2>1. \A i \in 1..Len(cq) : cq[i].tag \in CallData /\ status'[cq[i].tag] = status[cq[i].tag]
      BY <1>1, EventType DEF Event, StatusFits, ObjectFits, TypeOK
    <2> QED BY <2>1 DEF ReadyEvents
  <1>3. t \in ReadyThreads
    BY DEF ReadyThreads
  <1>4. ReadyThreads' = ReadyThreads \ {t}
    <2>1. \A u \in Thread : u # t => thread'[u] = thread[u]
      BY DEF Goto, TypeOK
    <2>2. thread'[t].at \notin {"start", "proceed"}
      BY DEF Goto, TypeOK
    <2>3. \A u \in Thread : thread[u].at = "proceed" => status'[thread[u].tag] = status[thread[u].tag]
      <3>1. \A u \in Thread : thread[u].at = "proceed"
                => thread[u].tag \in CallData /\ status[thread[u].tag] # "free"
        BY TagType DEF StatusFits, ThreadFits
      <3> QED BY <1>1, <3>1 DEF TypeOK
    <2> QED BY <2>1, <2>2, <2>3 DEF ReadyThreads
  <1>5. Cardinality(ReadyThreads') = Cardinality(ReadyThreads) - 1
    BY <1>3, <1>4, CountsAreNumbers, FS_RemoveElement
  <1>6. ReadyForClients'
    BY <1>1, <1>2, <1>5, CountsAreNumbers, ReadyIs
  <1> QED BY <1>6 DEF RegisteredFinite

\* Readiness goes from an event to the thread that takes it.
LEMMA NextEventReady ==
    ASSUME Safe, Ready, NEW t \in Thread, NextEvent(t)
    PROVE  Ready'
  <1> USE DEF Safe, Ready
  <1>1. /\ Len(cq') = Len(cq) - 1 /\ Len(cq) \in Nat \ {0}
        /\ \A i \in 1..Len(cq') : cq'[i] = cq[i + 1] /\ i + 1 \in 2..Len(cq)
        /\ Head(cq) = cq[1]
    BY TakeEvent DEF NextEvent
  <1>2. UNCHANGED <<status, queued_tags, registered>> /\ thread[t].at = "next"
    BY DEF NextEvent
  <1>3. IsFiniteSet(ReadyEvents') /\ Cardinality(ReadyEvents') = Cardinality(ReadyEvents \ {1})
    <2>1. ReadyEvents' \subseteq Nat /\ ReadyEvents \ {1} \subseteq Nat \ {0}
      BY <1>1 DEF ReadyEvents
    <2>2. ASSUME NEW i \in Nat PROVE i \in ReadyEvents' <=> i + 1 \in ReadyEvents \ {1}
      <3>1. i \in 1..Len(cq') <=> i + 1 \in 1..Len(cq) /\ i + 1 # 1
        BY <1>1
      <3> QED BY <1>1, <1>2, <3>1 DEF ReadyEvents
    <2>3. IsFiniteSet(ReadyEvents \ {1})
      BY CountsAreNumbers, FS_RemoveElement
    <2> QED BY <2>1, <2>2, <2>3, ShiftedCardinality
  <1>4. \A u \in Thread : u # t => thread'[u] = thread[u]
    BY DEF NextEvent, Goto, TypeOK
  <1>5. t \notin ReadyThreads
    BY <1>2 DEF ReadyThreads
  <1>6. 1 \in 1..Len(cq)
    BY <1>1
  <1>7. CASE status[cq[1].tag] = "PROCESS"
    <2>1. thread'[t] = [at |-> "proceed", tag |-> cq[1].tag]
      BY <1>1, <1>6, <1>7 DEF NextEvent, Goto, StatusFits, EventFits, TypeOK
    <2>2. ReadyThreads' = ReadyThreads \cup {t}
      BY <1>2, <1>4, <1>7, <2>1 DEF ReadyThreads
    <2>3. Cardinality(ReadyThreads') = Cardinality(ReadyThreads) + 1
      BY <1>5, <2>2, CountsAreNumbers, FS_AddElement
    <2>4. Cardinality(ReadyEvents') = Cardinality(ReadyEvents) - 1
      <3>1. 1 \in ReadyEvents
        BY <1>6, <1>7 DEF ReadyEvents
      <3> QED BY <1>3, <3>1, CountsAreNumbers, FS_RemoveElement
    <2>5. ReadyForClients'
      BY <1>2, <2>3, <2>4, CountsAreNumbers, ReadyIs
    <2> QED BY <1>2, <2>5 DEF RegisteredFinite
  <1>8. CASE status[cq[1].tag] # "PROCESS"
    <2>1. \/ thread'[t] = [at |-> "proceed", tag |-> cq[1].tag]
          \/ thread'[t] = thread[t]
      BY <1>1 DEF NextEvent, Goto, TypeOK
    <2>2. ReadyThreads' = ReadyThreads
      BY <1>2, <1>4, <1>8, <2>1 DEF ReadyThreads
    <2>3. ReadyEvents \ {1} = ReadyEvents
      BY <1>8 DEF ReadyEvents
    <2>4. ReadyForClients'
      BY <1>2, <1>3, <2>2, <2>3, CountsAreNumbers, ReadyIs
    <2> QED BY <1>2, <2>4 DEF RegisteredFinite
  <1> QED BY <1>7, <1>8

\* An object that a thread works on is nowhere else.
LEMMA HeldAlone ==
    ASSUME Safe, NEW t \in Thread, thread[t].at \notin {"start", "next"}
    PROVE  LET d == thread[t].tag
           IN  /\ d \in CallData /\ d # None /\ Held(d)
               /\ ~Event(d) /\ ~Queued(d) /\ d \notin registered
               /\ \A u \in Thread : u # t => thread[u].tag # d
  <1>1. thread[t].tag \in CallData /\ thread[t].tag # None
    BY TagType, CallbackConstants
  <1>2. Held(thread[t].tag)
    BY DEF Held
  <1> QED BY <1>1, <1>2 DEF Safe, NoAliases

\* A thread whose object is done, or is to be, was not ready and is not now.
LEMMA OwnReady ==
    ASSUME Safe, Ready, NEW t \in Thread, thread[t].at \notin {"start", "next"},
           UNCHANGED <<queued_tags, registered, cq>>,
           \A d \in CallData : d # thread[t].tag => status'[d] = status[d],
           ~(thread[t].at = "proceed" /\ status[thread[t].tag] = "PROCESS"),
           \A u \in Thread : u # t => thread'[u] = thread[u],
           thread'[t].at \notin {"start", "proceed"}
    PROVE  Ready'
  <1> USE DEF Safe, Ready
  <1>1. ReadyEvents' = ReadyEvents
    BY HeldAlone, EventType DEF ReadyEvents, Event
  <1>2. ReadyThreads' = ReadyThreads
    <2>1. t \notin ReadyThreads /\ t \notin ReadyThreads'
      BY DEF ReadyThreads
    <2>2. \A u \in Thread : u # t /\ thread[u].at = "proceed"
              => status'[thread[u].tag] = status[thread[u].tag]
      BY HeldAlone
    <2> QED BY <2>1, <2>2 DEF ReadyThreads
  <1> QED BY <1>1, <1>2, ReadyIs DEF RegisteredFinite

\* An answer makes an event that is not ready for a call.
LEMMA FinishReady ==
    ASSUME Safe, Ready, NEW t \in Thread, Finish(t)
    PROVE  Ready'
  <1> USE DEF Safe, Ready
  <1> DEFINE e == [tag |-> thread[t].tag, ok |-> client[thread[t].tag] # None]
  <1>1. UNCHANGED <<status, queued_tags, registered>> /\ thread[t].at = "finish"
    BY DEF Finish
  <1>2. e \in [tag : CallData, ok : BOOLEAN] /\ cq' = Append(cq, e) /\ status[e.tag] = "FINISH"
    BY <1>1, TagType DEF Finish, Answer, StatusFits, ThreadFits
  <1> HIDE DEF e
  <1>3. ReadyEvents' = ReadyEvents
    BY <1>1, <1>2, AppendEvent, EventType DEF ReadyEvents
  <1>4. ReadyThreads' = ReadyThreads
    <2>1. \A u \in Thread : thread'[u] = IF u = t THEN [at |-> "next", tag |-> None] ELSE thread[u]
      BY GotoIs DEF Finish
    <2> QED BY <1>1, <2>1 DEF ReadyThreads
  <1> QED BY <1>1, <1>3, <1>4, ReadyIs DEF RegisteredFinite

\* Readiness goes from a registered object to its event.
LEMMA AcceptReady ==
    ASSUME Safe, Ready, NEW c \in Client, Accept(c)
    PROVE  Ready'
  <1> USE DEF Safe, Ready
  <1>1. PICK d \in registered :
            /\ registered' = registered \ {d} /\ cq' = Append(cq, [tag |-> d, ok |-> TRUE])
    BY DEF Accept
  <1>2. UNCHANGED <<status, queued_tags, thread>>
    BY DEF Accept
  <1>3. [tag |-> d, ok |-> TRUE] \in [tag : CallData, ok : BOOLEAN] /\ status[d] = "PROCESS"
    BY DEF StatusFits, ObjectFits, TypeOK
  <1>4. ReadyEvents' = ReadyEvents \cup {Len(cq) + 1}
    BY <1>1, <1>2, <1>3, AppendEvent, EventType DEF ReadyEvents
  <1>5. Len(cq) + 1 \notin ReadyEvents
    BY EventType DEF ReadyEvents
  <1>6. Cardinality(ReadyEvents') = Cardinality(ReadyEvents) + 1
    BY <1>4, <1>5, CountsAreNumbers, FS_AddElement
  <1>7. IsFiniteSet(registered') /\ Cardinality(registered') = Cardinality(registered) - 1
    BY <1>1, FS_RemoveElement DEF RegisteredFinite
  <1>8. ReadyThreads' = ReadyThreads
    BY <1>2 DEF ReadyThreads
  <1>9. ReadyForClients'
    BY <1>2, <1>6, <1>7, <1>8, CountsAreNumbers, ReadyIs
  <1> QED BY <1>7, <1>9 DEF RegisteredFinite

\* As many objects are registered as were queued.
LEMMA RegisterReady ==
    ASSUME Safe, Ready, ProcessQueuedRequests
    PROVE  Ready'
  <1> USE DEF Safe, Ready
  <1> DEFINE n == Len(queued_tags)
             Q == { queued_tags[i] : i \in 1..n }
  <1>1. UNCHANGED <<status, cq, thread>> /\ queued_tags' = << >> /\ registered' = registered \cup Q
    BY DEF ProcessQueuedRequests
  <1>2. n \in Nat /\ IsFiniteSet(1..n) /\ Cardinality(1..n) = n
    <2>1. n \in Nat
      BY DEF TypeOK
    <2>2. IsFiniteSet(1..n) /\ Cardinality(1..n) = IF 1 > n THEN 0 ELSE n - 1 + 1
      BY <2>1, FS_Interval, SMTT(30)
    <2> QED BY <2>1, <2>2
  <1>3. IsFiniteSet(Q) /\ Cardinality(Q) = n
    <2> DEFINE g == [i \in 1..n |-> queued_tags[i]]
    <2>1. g \in Surjection(1..n, Q)
      BY DEF Surjection
    <2>2. \A i, j \in 1..n : g[i] = g[j] => i = j
      BY DEF NoAliases
    <2>3. g \in [1..n -> Q]
      OBVIOUS
    <2> HIDE DEF g, Q, n
    <2>4. g \in Injection(1..n, Q)
      BY <2>2, <2>3 DEF Injection, IsInjective
    <2>5. ExistsBijection(1..n, Q)
      BY <2>1, <2>4 DEF ExistsBijection, Bijection
    <2> QED BY <1>2, <2>5, FS_Bijection
  <1>4. registered \cap Q = {}
    BY DEF NoAliases, Queued, TypeOK
  <1> HIDE DEF Q
  <1>5. IsFiniteSet(registered') /\ Cardinality(registered') = Cardinality(registered) + n
    <2>1. /\ IsFiniteSet(registered \cup Q)
          /\ Cardinality(registered \cup Q)
                = Cardinality(registered) + Cardinality(Q) - Cardinality(registered \cap Q)
      BY <1>3, FS_Union DEF RegisteredFinite
    <2>2. Cardinality(registered \cap Q) = 0 /\ Cardinality(registered) \in Nat
      BY <1>4, FS_EmptySet, CountsAreNumbers
    <2> QED BY <1>1, <1>2, <1>3, <2>1, <2>2
  <1>6. ReadyEvents' = ReadyEvents /\ ReadyThreads' = ReadyThreads
    BY <1>1 DEF ReadyEvents, ReadyThreads
  <1>7. Len(queued_tags') = 0
    BY <1>1
  <1>8. ReadyForClients'
    BY <1>5, <1>6, <1>7, CountsAreNumbers, ReadyIs
  <1> QED BY <1>5, <1>8 DEF RegisteredFinite

\* The server is as ready for calls after a step as it was before.
LEMMA StepReady == Safe /\ Ready /\ [Next]_vars => Ready'
  <1> SUFFICES ASSUME Safe, Ready, [Next]_vars PROVE Ready'
    OBVIOUS
  <1>1. ASSUME NEW t \in Thread, ThreadStep(t) PROVE Ready'
    <2>1. CASE FirstCallData(t)
      BY <2>1, NewObjectReady DEF FirstCallData
    <2>2. CASE NextEvent(t)
      BY <2>2, NextEventReady
    <2>3. CASE Spawn(t)
      BY <2>3, NewObjectReady DEF Spawn
    <2>4. CASE ProcessCallback(t)
      <3>1. /\ thread[t].at = "list" /\ UNCHANGED <<queued_tags, registered, cq>>
            /\ \A d \in CallData : d # thread[t].tag => status'[d] = status[d]
        BY <2>4 DEF ProcessCallback, Safe, TypeOK
      <3>2. \A u \in Thread : thread'[u] = IF u = t THEN [at |-> "finish", tag |-> thread[t].tag]
                                        ELSE thread[u]
        BY <2>4, GotoIs DEF ProcessCallback, Safe
      <3> QED BY <3>1, <3>2, OwnReady
    <2>5. CASE Finish(t)
      BY <2>5, FinishReady
    <2>6. CASE Delete(t)
      <3>1. /\ thread[t].at = "proceed" /\ status[thread[t].tag] = "FINISH"
            /\ UNCHANGED <<queued_tags, registered, cq>>
            /\ \A d \in CallData : d # thread[t].tag => status'[d] = status[d]
        BY <2>6 DEF Delete, Safe, TypeOK
      <3>2. \A u \in Thread : thread'[u] = IF u = t THEN [at |-> "next", tag |-> None]
                                        ELSE thread[u]
        BY <2>6, GotoIs DEF Delete, Safe
      <3> QED BY <3>1, <3>2, OwnReady
    <2> QED BY <1>1, <2>1, <2>2, <2>3, <2>4, <2>5, <2>6 DEF ThreadStep
  <1>2. ASSUME NEW c \in Client, CallbackList(c) \/ ClientGone(c) PROVE Ready'
    BY <1>2 DEF CallbackList, ClientGone, Ready, RegisteredFinite, ReadyForClients
  <1>3. CASE UNCHANGED vars
    BY <1>3 DEF vars, Ready, RegisteredFinite, ReadyForClients
  <1> QED BY <1>1, <1>2, <1>3, AcceptReady, RegisterReady DEF Next

\* At the start every thread is about to make an object.
LEMMA InitReady == Init => Ready
  <1> SUFFICES ASSUME Init PROVE Ready
    OBVIOUS
  <1>1. ReadyEvents = {} /\ ReadyThreads = Thread
    BY DEF Init, ReadyEvents, ReadyThreads
  <1>2. registered = {} /\ Len(queued_tags) = 0
    BY DEF Init
  <1>3. IsFiniteSet({}) /\ Cardinality({}) = 0 /\ Cardinality(Thread) \in Nat
    BY FS_EmptySet, CallbackConstants, FS_CardinalityType
  <1>4. ReadyForClients
    BY <1>1, <1>2, <1>3, ReadyIs
  <1> QED BY <1>2, <1>3, <1>4 DEF Ready, RegisteredFinite

-----------------------------------------------------------------------------
(* Events of answered calls come before those of calls to be answered *)

\* The client and the status of an object do not matter where nothing refers to them.
LEMMA SameAnswers ==
    ASSUME Safe, AnswersInOrder, UNCHANGED cq, Unanswered' = Unanswered,
           \A d : Event(d) => status'[d] = status[d] /\ client'[d] = client[d],
           \A d \in Unanswered : client'[d] = client[d]
    PROVE  AnswersInOrder'
  <1>1. \A i \in 1..Len(cq) : Event(cq[i].tag)
    BY DEF Event
  <1>2. AnsweredEvents' = AnsweredEvents
    BY <1>1 DEF AnsweredEvents
  <1>3. \A i \in AnsweredEvents : client'[cq[i].tag] = client[cq[i].tag]
    BY <1>1 DEF AnsweredEvents
  <1> QED BY <1>2, <1>3 DEF AnswersInOrder

\* An answered call has a client, and its object is done.
LEMMA AnsweredIs ==
    ASSUME Safe, NEW i \in AnsweredEvents
    PROVE  /\ i \in 1..Len(cq) /\ Event(cq[i].tag) /\ cq[i].tag \in CallData
           /\ status[cq[i].tag] = "FINISH" /\ client[cq[i].tag] # None
           /\ cq[i].tag \notin Unanswered
  <1> USE DEF Safe
  <1>1. i \in 1..Len(cq) /\ status[cq[i].tag] = "FINISH" /\ cq[i].ok
    BY DEF AnsweredEvents
  <1>2. Event(cq[i].tag) /\ cq[i].tag \in CallData /\ client[cq[i].tag] # None
    BY <1>1, EventType DEF Event, StatusFits, EventFits
  <1>3. cq[i].tag \notin Unanswered
    BY <1>1, <1>2, UnansweredIs DEF NoAliases, Held
  <1> QED BY <1>1, <1>2, <1>3

\* The order is kept when the first event is taken.
LEMMA NextEventAnswers ==
    ASSUME Safe, AnswersInOrder, NEW t \in Thread, NextEvent(t)
    PROVE  AnswersInOrder'
  <1> USE DEF Safe
  <1>1. /\ Len(cq') = Len(cq) - 1 /\ Len(cq) \in Nat \ {0}
        /\ \A i \in 1..Len(cq') : cq'[i] = cq[i + 1] /\ i + 1 \in 2..Len(cq)
    BY TakeEvent DEF NextEvent
  <1>2. UNCHANGED <<status, client>>
    BY DEF NextEvent
  <1>3. Unanswered' = Unanswered
    BY ThreadUnanswered DEF NextEvent, Finish, ThreadStep
  <1>4. \A i \in AnsweredEvents' : /\ i \in 1..Len(cq') /\ cq'[i] = cq[i + 1]
                                   /\ i + 1 \in AnsweredEvents
    BY <1>1, <1>2 DEF AnsweredEvents
  <1>5. ASSUME NEW i \in AnsweredEvents', NEW j \in AnsweredEvents',
               client'[cq'[i].tag] = client'[cq'[j].tag]
        PROVE  i = j
    <2>1. client[cq[i + 1].tag] = client[cq[j + 1].tag]
      BY <1>2, <1>4, <1>5
    <2>2. i + 1 = j + 1
      BY <1>4, <2>1 DEF AnswersInOrder
    <2> QED BY <1>1, <1>4, <2>2
  <1>6. ASSUME NEW i \in AnsweredEvents', NEW d \in Unanswered',
               client'[d] = client'[cq'[i].tag]
        PROVE  \E j \in 1..Len(cq') : i < j /\ cq'[j].tag = d
    <2>1. PICK j \in 1..Len(cq) : i + 1 < j /\ cq[j].tag = d
      BY <1>2, <1>3, <1>4, <1>6 DEF AnswersInOrder
    <2>2. j - 1 \in 1..Len(cq') /\ i < j - 1 /\ (j - 1) + 1 = j
      BY <1>1, <1>4, <2>1
    <2>3. cq'[j - 1] = cq[j]
      BY <1>1, <2>2
    <2> QED BY <2>1, <2>2, <2>3
  <1> QED BY <1>5, <1>6 DEF AnswersInOrder

\* The event of an answer comes last, after which its client has nothing else.
LEMMA FinishAnswers ==
    ASSUME Safe, AnswersInOrder, NEW t \in Thread, Finish(t)
    PROVE  AnswersInOrder'
  <1> USE DEF Safe
  <1> DEFINE d == thread[t].tag
             e == [tag |-> d, ok |-> client[d] # None]
             n == Len(cq) + 1
  <1>1. d \in CallData /\ ~Event(d) /\ d \in Unanswered /\ UNCHANGED <<status, client>>
    BY HeldAlone, UnansweredIs DEF Finish, Working
  <1>2. e \in [tag : CallData, ok : BOOLEAN] /\ cq' = Append(cq, e)
    BY <1>1 DEF Finish, Answer
  <1>3. Unanswered' = Unanswered \ {d}
    BY FinishUnanswered
  <1>4. Len(cq) \in Nat /\ Len(cq') = n /\ cq'[n] = e /\ \A i \in 1..Len(cq) : cq'[i] = cq[i]
    BY <1>2, AppendEvent, EventType
  <1>5. \A i \in AnsweredEvents' : \/ i \in AnsweredEvents /\ cq'[i] = cq[i]
                                   \/ i = n /\ client[d] # None
    <2>1. ASSUME NEW i, i \in AnsweredEvents'
          PROVE  \/ i \in AnsweredEvents /\ cq'[i] = cq[i]
                 \/ i = n /\ client[d] # None
      <3>1. i \in 1..n /\ status[cq'[i].tag] = "FINISH" /\ cq'[i].ok
        BY <1>1, <1>4, <2>1 DEF AnsweredEvents
      <3>2. CASE i \in 1..Len(cq)
        BY <1>4, <3>1, <3>2 DEF AnsweredEvents
      <3>3. CASE i = n
        <4>1. cq'[i] = e
          BY <1>4, <3>3
        <4>2. e.ok
          BY <3>1, <4>1
        <4>3. e.ok = (client[d] # None)
          OBVIOUS
        <4> HIDE DEF e
        <4> QED BY <3>3, <4>2, <4>3
      <3> QED BY <1>4, <3>1, <3>2, <3>3
    <2> QED BY <2>1
  <1>6. \A i \in AnsweredEvents : client[cq[i].tag] # client[d]
    BY <1>1 DEF AnswersInOrder, Event
  <1> HIDE DEF n
  <1>7. ASSUME NEW i \in AnsweredEvents', NEW j \in AnsweredEvents',
               client'[cq'[i].tag] = client'[cq'[j].tag]
        PROVE  i = j
    BY <1>1, <1>4, <1>5, <1>6, <1>7 DEF AnswersInOrder
  <1>8. ASSUME NEW i \in AnsweredEvents', NEW f \in Unanswered',
               client'[f] = client'[cq'[i].tag]
        PROVE  \E j \in 1..Len(cq') : i < j /\ cq'[j].tag = f
    <2>1. CASE i \in AnsweredEvents /\ cq'[i] = cq[i]
      <3>1. PICK j \in 1..Len(cq) : i < j /\ cq[j].tag = f
        BY <1>1, <1>3, <1>8, <2>1 DEF AnswersInOrder
      <3> QED BY <1>4, <3>1 DEF n
    <2>2. CASE i = n /\ client[d] # None
      BY <1>1, <1>3, <1>4, <1>8, <2>2 DEF OneObjectPerCall
    <2> QED BY <1>5, <2>1, <2>2
  <1> QED BY <1>7, <1>8 DEF AnswersInOrder

\* The event of an accepted call comes last, after those of answered calls.
LEMMA AcceptAnswers ==
    ASSUME Safe, AnswersInOrder, NEW c \in Client, Accept(c)
    PROVE  AnswersInOrder'
  <1> USE DEF Safe
  <1>1. PICK d \in registered : /\ client' = [client EXCEPT ![d] = c]
                                /\ cq' = Append(cq, [tag |-> d, ok |-> TRUE])
    BY DEF Accept
  <1>2. d \in CallData /\ ~Event(d) /\ status[d] = "PROCESS" /\ UNCHANGED <<status, thread>>
    BY DEF Accept, NoAliases, StatusFits, ObjectFits, TypeOK
  <1>3. /\ Len(cq) \in Nat /\ Len(cq') = Len(cq) + 1 /\ cq'[Len(cq')].tag = d
        /\ \A i \in 1..Len(cq) : cq'[i] = cq[i]
    BY <1>1, <1>2, AppendEvent, EventType
  <1>4. Unanswered' = Unanswered \cup {d}
    BY <1>1, <1>2, AcceptUnanswered
  <1>5. \A i \in AnsweredEvents' : i \in AnsweredEvents /\ cq'[i] = cq[i] /\ i \in 1..Len(cq)
    BY <1>2, <1>3 DEF AnsweredEvents
  <1>6. \A f \in CallData : f # d => client'[f] = client[f]
    BY <1>1 DEF TypeOK
  <1>7. \A i \in AnsweredEvents : client'[cq[i].tag] = client[cq[i].tag]
    BY <1>2, <1>6, AnsweredIs
  <1>8. ASSUME NEW i \in AnsweredEvents', NEW f \in Unanswered',
               client'[f] = client'[cq'[i].tag]
        PROVE  \E j \in 1..Len(cq') : i < j /\ cq'[j].tag = f
    <2> USE UnansweredType
    <2>1. CASE f = d
      BY <1>3, <1>5, <2>1
    <2>2. CASE f # d
      <3>1. PICK j \in 1..Len(cq) : i < j /\ cq[j].tag = f
        BY <1>4, <1>5, <1>6, <1>7, <1>8, <2>2 DEF AnswersInOrder
      <3> QED BY <1>3, <3>1
    <2> QED BY <2>1, <2>2
  <1> QED BY <1>5, <1>7, <1>8 DEF AnswersInOrder

\* A client that goes is forgotten only by the object that has yet to answer it.
LEMMA ClientGoneAnswers ==
    ASSUME Safe, AnswersInOrder, NEW c \in Client, ClientGone(c)
    PROVE  AnswersInOrder'
  <1> USE DEF Safe
  <1>1. UNCHANGED <<status, cq, thread>>
    BY DEF ClientGone
  <1>2. AnsweredEvents' = AnsweredEvents /\ Unanswered' = Unanswered
    BY <1>1 DEF AnsweredEvents, Unanswered
  <1>3. \A d \in CallData : client'[d] = IF d \in Unanswered /\ client[d] = c THEN None ELSE client[d]
    BY DEF ClientGone
  <1>4. \A i \in AnsweredEvents : client'[cq[i].tag] = client[cq[i].tag] /\ client[cq[i].tag] # None
    BY <1>3, AnsweredIs
  <1>5. \A d \in Unanswered : client'[d] \in {client[d], None}
    BY <1>3, UnansweredType
  <1> QED BY <1>1, <1>2, <1>4, <1>5 DEF AnswersInOrder

LEMMA StepAnswers == Safe /\ AnswersInOrder /\ [Next]_vars => AnswersInOrder'
  <1> SUFFICES ASSUME Safe, AnswersInOrder, [Next]_vars PROVE AnswersInOrder'
    OBVIOUS
  <1> USE DEF Safe
  <1>1. ASSUME NEW t \in Thread, ThreadStep(t) PROVE AnswersInOrder'
    <2>1. CASE NextEvent(t)
      BY <2>1, NextEventAnswers
    <2>2. CASE Finish(t)
      BY <2>2, FinishAnswers
    <2>3. CASE FirstCallData(t) \/ Spawn(t)
      <3>1. PICK new \in CallData : status[new] = "free" /\ status' = [status EXCEPT ![new] = "PROCESS"]
        BY <2>3, NewObject DEF FirstCallData, Spawn
      <3>2. \A d : Event(d) => status'[d] = status[d]
        BY <3>1, EventType DEF Event, StatusFits, ObjectFits, TypeOK
      <3>3. UNCHANGED <<client, cq>> /\ ~Finish(t)
        BY <2>3 DEF FirstCallData, Spawn, Finish
      <3> QED BY <1>1, <3>2, <3>3, ThreadUnanswered, SameAnswers
    <2>4. CASE ProcessCallback(t) \/ Delete(t)
      <3>1. ~Event(thread[t].tag) /\ ~Finish(t) /\ UNCHANGED cq
        BY <2>4, HeldAlone DEF ProcessCallback, Delete, Finish
      <3>2. \A d \in CallData : d # thread[t].tag => status'[d] = status[d] /\ client'[d] = client[d]
        BY <2>4 DEF ProcessCallback, Delete, TypeOK
      <3>3. Delete(t) => thread[t].tag \notin Unanswered
        BY HeldAlone, UnansweredIs DEF Delete, Working
      <3>4. \A d \in Unanswered : client'[d] = client[d]
        BY <2>4, <3>2, <3>3, UnansweredType DEF ProcessCallback
      <3>5. Unanswered' = Unanswered
        BY <1>1, <3>1, ThreadUnanswered
      <3>6. \A d : Event(d) => d \in CallData /\ d # thread[t].tag
        BY <3>1, EventType DEF Event
      <3> QED BY <3>1, <3>2, <3>4, <3>5, <3>6, SameAnswers
    <2> QED BY <1>1, <2>1, <2>2, <2>3, <2>4 DEF ThreadStep
  <1>2. CASE UNCHANGED <<status, client, cq, thread>>
    BY <1>2 DEF AnswersInOrder, AnsweredEvents, Unanswered
  <1>3. CASE ProcessQueuedRequests \/ UNCHANGED vars \/ \E c \in Client : CallbackList(c)
    BY <1>2, <1>3 DEF ProcessQueuedRequests, CallbackList, vars
  <1> QED BY <1>1, <1>3, AcceptAnswers, ClientGoneAnswers DEF Next

-----------------------------------------------------------------------------
(* Objects that nothing deletes *)

LEMMA StepNoneLost == Safe /\ NoneLost /\ [Next]_vars => NoneLost'
  <1> SUFFICES ASSUME Safe, NoneLost, [Next]_vars PROVE NoneLost'
    OBVIOUS
  <1> USE DEF Safe
  <1>1. ASSUME NEW t \in Thread, ThreadStep(t) PROVE NoneLost'
    <2>1. CASE FirstCallData(t)
      <3>1. \A d \in CallData : (Held(d)' <=> Held(d)) /\ (Event(d)' <=> Event(d))
        <4>1. thread[t].tag = None
          BY <2>1 DEF FirstCallData, StatusFits, ThreadFits
        <4>2. \A u \in Thread : thread'[u].tag = thread[u].tag
          BY <2>1, <4>1 DEF FirstCallData, Goto, TypeOK
        <4> QED BY <2>1, <4>2 DEF FirstCallData, Held, Event
      <3> QED BY <2>1, <3>1 DEF FirstCallData, NoneLost
    <2>2. CASE NextEvent(t)
      <3>1. \A d : Event(d)' <=> Event(d) /\ d # Head(cq).tag
        BY <2>2, TakeEvent DEF NextEvent
      <3>2. \A d \in CallData : Held(d) => Held(d)'
        <4>1. thread[t].tag = None
          BY <2>2 DEF NextEvent, StatusFits, ThreadFits
        <4>2. \A u \in Thread : u # t => thread'[u] = thread[u]
          BY <2>2 DEF NextEvent, Goto, TypeOK
        <4> QED BY <4>1, <4>2, CallbackConstants DEF Held
      <3>3. ASSUME NEW d \in CallData, d = Head(cq).tag, client[d] # None PROVE Held(d)'
        <4>1. Head(cq) = cq[1] /\ 1 \in 1..Len(cq)
          BY <2>2, TakeEvent DEF NextEvent
        <4>2. EventFits(cq[1]) /\ ObjectFits(cq[1].tag)
          BY <4>1, EventType DEF StatusFits
        <4>3. client[cq[1].tag] # None => cq[1].ok
          BY <4>2 DEF EventFits
        <4>4. cq[1].ok => thread'[t].tag = cq[1].tag
          BY <2>2, <4>1 DEF NextEvent, Goto, TypeOK
        <4> QED BY <3>3, <4>1, <4>3, <4>4 DEF Held
      <3> QED BY <2>2, <3>1, <3>2, <3>3 DEF NextEvent, NoneLost
    <2>3. CASE Spawn(t) \/ ProcessCallback(t)
      <3>1. \A u \in Thread : thread'[u].tag = thread[u].tag
        BY <2>3 DEF Spawn, ProcessCallback, Goto, TypeOK
      <3> QED BY <2>3, <3>1 DEF Spawn, ProcessCallback, NoneLost, Held, Event
    <2>4. CASE Finish(t) \/ Delete(t)
      <3>1. \A u \in Thread : u # t => thread'[u] = thread[u]
        BY <2>4 DEF Finish, Delete, Goto, TypeOK
      <3>2. \A d \in CallData : Held(d) /\ d # thread[t].tag => Held(d)'
        BY <3>1 DEF Held
      <3>3. CASE Finish(t)
        <4> DEFINE e == [tag |-> thread[t].tag, ok |-> client[thread[t].tag] # None]
        <4>1. e \in [tag : CallData, ok : BOOLEAN] /\ cq' = Append(cq, e)
          BY <3>3, HeldAlone DEF Finish, Answer
        <4>2. \A d : Event(d)' <=> Event(d) \/ d = thread[t].tag
          BY <4>1, AppendEvent
        <4> QED BY <3>2, <3>3, <4>2 DEF Finish, NoneLost
      <3>4. CASE Delete(t)
        <4>1. thread[t].tag \in CallData
          BY <3>4, HeldAlone DEF Delete
        <4>2. \A d \in CallData : client'[d] # None => d # thread[t].tag /\ client'[d] = client[d]
          BY <3>4, <4>1 DEF Delete, TypeOK
        <4> QED BY <3>2, <3>4, <4>2 DEF Delete, NoneLost, Event
      <3> QED BY <2>4, <3>3, <3>4
    <2> QED BY <1>1, <2>1, <2>2, <2>3, <2>4 DEF ThreadStep
  <1>2. ASSUME NEW c \in Client, Accept(c) PROVE NoneLost'
    <2>1. PICK d \in registered : /\ client' = [client EXCEPT ![d] = c]
                                  /\ cq' = Append(cq, [tag |-> d, ok |-> TRUE])
      BY <1>2 DEF Accept
    <2>2. [tag |-> d, ok |-> TRUE] \in [tag : CallData, ok : BOOLEAN]
      BY DEF TypeOK
    <2>3. \A f : Event(f)' <=> Event(f) \/ f = d
      BY <2>1, <2>2, AppendEvent
    <2> QED BY <1>2, <2>1, <2>3 DEF Accept, NoneLost, Held, TypeOK
  <1>3. ASSUME NEW c \in Client, ClientGone(c) PROVE NoneLost'
    BY <1>3 DEF ClientGone, NoneLost, Held, Event
  <1>4. CASE UNCHANGED <<client, cq, thread>>
    BY <1>4 DEF NoneLost, Held, Event
  <1>5. CASE ProcessQueuedRequests \/ UNCHANGED vars \/ \E c \in Client : CallbackList(c)
    BY <1>4, <1>5 DEF ProcessQueuedRequests, CallbackList, vars
  <1> QED BY <1>1, <1>2, <1>3, <1>5 DEF Next

\* Only a client that goes makes an orphan, of the one object that was to answer it.
LEMMA ClientGoneOrphans ==
    ASSUME Safe, FewOrphans, NEW c \in Client, ClientGone(c)
    PROVE  FewOrphans'
  <1> USE DEF Safe
  <1> DEFINE New == { d \in Unanswered : client[d] = c }
  <1>1. IsFiniteSet(New) /\ Cardinality(New) <= 1
    <2>1. \A x, y \in New : x = y
      BY CallbackConstants DEF OneObjectPerCall
    <2> HIDE DEF New
    <2> QED BY <2>1, AtMostOne
  <1>2. \A d \in CallData : client'[d] = None => client[d] = None \/ d \in New
    BY DEF ClientGone
  <1>3. UNCHANGED <<status, registered, queued_tags>> /\ gone' = gone + 1 /\ gone \in Nat
    BY CallbackConstants DEF ClientGone, TypeOK
  <1>4. Orphans' \subseteq Orphans \cup New
    BY <1>2, <1>3 DEF Orphans, Queued
  <1> HIDE DEF New
  <1>5. /\ IsFiniteSet(Orphans \cup New)
        /\ Cardinality(Orphans \cup New) <= Cardinality(Orphans) + Cardinality(New)
    BY <1>1, UnionBound DEF FewOrphans
  <1>6. IsFiniteSet(Orphans') /\ Cardinality(Orphans') <= Cardinality(Orphans \cup New)
    BY <1>4, <1>5, FS_Subset
  <1>7. /\ Cardinality(Orphans) \in Nat /\ Cardinality(New) \in Nat
        /\ Cardinality(Orphans \cup New) \in Nat /\ Cardinality(Orphans') \in Nat
    BY <1>1, <1>5, <1>6, FS_CardinalityType DEF FewOrphans
  <1>8. Cardinality(Orphans) <= gone
    BY DEF FewOrphans
  <1> QED BY <1>1, <1>3, <1>5, <1>6, <1>7, <1>8 DEF FewOrphans

LEMMA StepFewOrphans == Safe /\ FewOrphans /\ [Next]_vars => FewOrphans'
  <1> SUFFICES ASSUME Safe, FewOrphans, [Next]_vars PROVE FewOrphans'
    OBVIOUS
  <1> USE DEF Safe
  <1>1. ASSUME Orphans' \subseteq Orphans, UNCHANGED gone PROVE FewOrphans'
    <2>1. IsFiniteSet(Orphans') /\ Cardinality(Orphans') <= Cardinality(Orphans)
      BY <1>1, FS_Subset DEF FewOrphans
    <2>2. Cardinality(Orphans) \in Nat /\ Cardinality(Orphans') \in Nat /\ gone \in Nat
      BY <2>1, FS_CardinalityType, CallbackConstants DEF FewOrphans, TypeOK
    <2> QED BY <1>1, <2>1, <2>2 DEF FewOrphans
  <1>2. ASSUME NEW t \in Thread, ThreadStep(t) PROVE Orphans' \subseteq Orphans /\ UNCHANGED gone
    <2>1. CASE FirstCallData(t) \/ Spawn(t)
      <3>1. PICK new \in CallData : /\ status' = [status EXCEPT ![new] = "PROCESS"]
                                    /\ \A d : Queued(d)' <=> Queued(d) \/ d = new
        BY <2>1, NewObject DEF FirstCallData, Spawn
      <3> QED BY <2>1, <3>1 DEF FirstCallData, Spawn, Orphans, TypeOK
    <2>2. CASE ProcessCallback(t)
      <3>1. status[thread[t].tag] = "PROCESS"
        BY <2>2 DEF ProcessCallback, StatusFits, ThreadFits
      <3> QED BY <2>2, <3>1 DEF ProcessCallback, Orphans, Queued, TypeOK
    <2>3. CASE NextEvent(t) \/ Finish(t)
      BY <2>3 DEF NextEvent, Finish, Orphans, Queued
    <2>4. CASE Delete(t)
      BY <2>4, HeldAlone DEF Delete, Orphans, Queued, TypeOK
    <2> QED BY <1>2, <2>1, <2>2, <2>3, <2>4 DEF ThreadStep
  <1>3. ASSUME NEW c \in Client, Accept(c) PROVE Orphans' \subseteq Orphans /\ UNCHANGED gone
    BY <1>3, CallbackConstants DEF Accept, Orphans, Queued, TypeOK
  <1>4. CASE ProcessQueuedRequests
    <2>1. Orphans' \subseteq Orphans /\ UNCHANGED gone
      BY <1>4, RegisterAliases DEF ProcessQueuedRequests, Orphans
    <2> QED BY <1>1, <2>1
  <1>5. CASE UNCHANGED vars \/ \E c \in Client : CallbackList(c)
    <2>1. Orphans' \subseteq Orphans /\ UNCHANGED gone
      BY <1>5 DEF CallbackList, vars, Orphans, Queued
    <2> QED BY <1>1, <2>1
  <1> QED BY <1>1, <1>2, <1>3, <1>4, <1>5, ClientGoneOrphans DEF Next

\* No object is unaccounted for: each is in one of the places that are counted.
LEMMA InvObjectsAreBounded == Inv => ObjectsAreBounded
  <1> SUFFICES ASSUME Inv PROVE ObjectsAreBounded
    OBVIOUS
  <1> USE DEF Inv, Safe, Ready
  <1> DEFINE Objects == { d \in CallData : status[d] # "free" }
             Q == { queued_tags[i] : i \in 1..Len(queued_tags) }
             tag == [i \in 1..Len(cq) |-> cq[i].tag]
             E == { tag[i] : i \in ReadyEvents }
             A == { tag[i] : i \in AnsweredEvents }
             held == [t \in Thread |-> thread[t].tag]
             H == { held[t] : t \in Thread }
  <1>1. Objects \subseteq ((((Q \cup registered) \cup E) \cup A) \cup H) \cup Orphans
    <2> SUFFICES ASSUME NEW d \in CallData, status[d] # "free", ~Queued(d),
                        d \notin registered, client[d] # None
                 PROVE  d \in E \/ d \in A \/ d \in H
      BY DEF Queued, Orphans
    <2>1. CASE Event(d)
      <3>1. PICK i \in 1..Len(cq) : cq[i].tag = d
        BY <2>1 DEF Event
      <3>2. tag[i] = d
        BY <3>1
      <3>3. i \in ReadyEvents \/ i \in AnsweredEvents
        BY <3>1 DEF ReadyEvents, AnsweredEvents, StatusFits, EventFits, TypeOK
      <3> QED BY <3>2, <3>3
    <2>2. CASE Held(d)
      BY <2>2 DEF Held
    <2> QED BY <2>1, <2>2 DEF NoneLost
  <1>2. IsFiniteSet(Q) /\ Cardinality(Q) <= Len(queued_tags)
    <2>1. Len(queued_tags) \in Nat
      BY CountsAreNumbers
    <2>2. /\ IsFiniteSet(1..Len(queued_tags))
          /\ Cardinality(1..Len(queued_tags))
                = IF 1 > Len(queued_tags) THEN 0 ELSE Len(queued_tags) - 1 + 1
      BY <2>1, FS_Interval, SMTT(30)
    <2> QED BY <2>1, <2>2, ImageBound
  <1>3. IsFiniteSet(E) /\ Cardinality(E) <= Cardinality(ReadyEvents)
    BY CountsAreNumbers, ImageBound
  <1>4. IsFiniteSet(A) /\ Cardinality(A) <= Cardinality(Client)
    <2> DEFINE f == [i \in AnsweredEvents |-> client[cq[i].tag]]
    <2>1. f \in [AnsweredEvents -> Client]
      BY AnsweredIs DEF TypeOK
    <2>2. \A i, j \in AnsweredEvents : f[i] = f[j] => i = j
      BY DEF AnswersInOrder
    <2> HIDE DEF f
    <2>3. f \in Injection(AnsweredEvents, Client)
      BY <2>1, <2>2 DEF Injection, IsInjective
    <2>4. IsFiniteSet(AnsweredEvents) /\ Cardinality(AnsweredEvents) <= Cardinality(Client)
      BY <2>3, CallbackConstants, FS_Injection
    <2>5. IsFiniteSet(A) /\ Cardinality(A) <= Cardinality(AnsweredEvents)
      BY <2>4, ImageBound
    <2> HIDE DEF A
    <2>6. /\ Cardinality(A) \in Nat /\ Cardinality(AnsweredEvents) \in Nat
          /\ Cardinality(Client) \in Nat
      BY <2>4, <2>5, CallbackConstants, FS_CardinalityType
    <2> QED BY <2>4, <2>5, <2>6
  <1>5. IsFiniteSet(H) /\ Cardinality(H) <= Cardinality(Thread)
    BY CallbackConstants, ImageBound
  <1>6. IsFiniteSet(Orphans) /\ Cardinality(Orphans) <= gone
    BY DEF FewOrphans
  <1>7. IsFiniteSet(registered)
    BY DEF RegisteredFinite
  <1> HIDE DEF Objects, Q, E, A, H
  <1> DEFINE U1 == Q \cup registered
             U2 == U1 \cup E
             U3 == U2 \cup A
             U4 == U3 \cup H
             U5 == U4 \cup Orphans
  <1>8. IsFiniteSet(U1) /\ Cardinality(U1) <= Cardinality(Q) + Cardinality(registered)
    BY <1>2, <1>7, UnionBound
  <1> HIDE DEF U1
  <1>9. IsFiniteSet(U2) /\ Cardinality(U2) <= Cardinality(U1) + Cardinality(E)
    BY <1>3, <1>8, UnionBound
  <1> HIDE DEF U2
  <1>10. IsFiniteSet(U3) /\ Cardinality(U3) <= Cardinality(U2) + Cardinality(A)
    BY <1>4, <1>9, UnionBound
  <1> HIDE DEF U3
  <1>11. IsFiniteSet(U4) /\ Cardinality(U4) <= Cardinality(U3) + Cardinality(H)
    BY <1>5, <1>10, UnionBound
  <1> HIDE DEF U4
  <1>12. IsFiniteSet(U5) /\ Cardinality(U5) <= Cardinality(U4) + Cardinality(Orphans)
    BY <1>6, <1>11, UnionBound
  <1>13. Objects \subseteq U5
    BY <1>1 DEF U1, U2, U3, U4
  <1> HIDE DEF U5
  <1>14. IsFiniteSet(Objects) /\ Cardinality(Objects) <= Cardinality(U5)
    BY <1>12, <1>13, FS_Subset
  <1>15. /\ Cardinality(Q) \in Nat /\ Cardinality(E) \in Nat /\ Cardinality(A) \in Nat
         /\ Cardinality(H) \in Nat /\ Cardinality(Orphans) \in Nat
         /\ Cardinality(U1) \in Nat /\ Cardinality(U2) \in Nat /\ Cardinality(U3) \in Nat
         /\ Cardinality(U4) \in Nat /\ Cardinality(U5) \in Nat /\ Cardinality(Objects) \in Nat
    BY <1>2, <1>3, <1>4, <1>5, <1>6, <1>8, <1>9, <1>10, <1>11, <1>12, <1>14, FS_CardinalityType
  <1>16. Cardinality(Client) \in Nat /\ gone \in Nat
    BY CallbackConstants, FS_CardinalityType DEF TypeOK
  <1>17. Len(queued_tags) + Cardinality(registered) + Cardinality(ReadyEvents) <= Cardinality(Thread)
    BY CountsAreNumbers, ReadyIs
  <1>18. Cardinality(Objects) <= 2 * Cardinality(Thread) + Cardinality(Client) + gone
    <2>1. /\ Cardinality(Thread) \in Nat /\ Cardinality(registered) \in Nat
          /\ Len(queued_tags) \in Nat /\ Cardinality(ReadyEvents) \in Nat
      BY CountsAreNumbers
    <2>2. Cardinality(U2) <= Cardinality(Thread)
      BY <1>2, <1>3, <1>8, <1>9, <1>15, <1>17, <2>1, SMTT(30)
    <2>3. Cardinality(U3) <= Cardinality(Thread) + Cardinality(Client)
      BY <1>4, <1>10, <1>15, <1>16, <2>1, <2>2, SMTT(30)
    <2>4. Cardinality(U4) <= Cardinality(Thread) + Cardinality(Client) + Cardinality(Thread)
      BY <1>5, <1>11, <1>15, <1>16, <2>1, <2>3, SMTT(30)
    <2>5. Cardinality(Objects) <= Cardinality(U4) + gone
      BY <1>6, <1>12, <1>14, <1>15, <1>16
    <2>6. \A k, n, u, b, g \in Nat : u <= k + n + k /\ b <= u + g => b <= 2 * k + n + g
      OBVIOUS
    <2> QED BY <1>15, <1>16, <2>1, <2>4, <2>5, <2>6
  <1> QED BY <1>18 DEF Objects, ObjectsAreBounded

-----------------------------------------------------------------------------
(* The theorems *)

LEMMA InitInv == Init => Inv
  <1> SUFFICES ASSUME Init PROVE Inv
    OBVIOUS
  <1>1. AnsweredEvents = {} /\ Orphans = {}
    BY DEF Init, AnsweredEvents, Orphans
  <1>2. AnswersInOrder
    BY <1>1 DEF AnswersInOrder
  <1>3. NoneLost
    BY DEF Init, NoneLost
  <1>4. FewOrphans
    BY <1>1, FS_EmptySet DEF Init, FewOrphans
  <1> QED BY <1>2, <1>3, <1>4, InitSafe, InitReady DEF Inv

LEMMA StepInv == Inv /\ [Next]_vars => Inv'
  BY StepSafe, StepReady, StepAnswers, StepNoneLost, StepFewOrphans DEF Inv

\* The inductive invariant.
THEOREM InvHolds == Spec => []Inv
  BY InitInv, StepInv, PTL DEF Spec

\* The variables keep their types, whatever threads and clients do.
THEOREM TypeCorrect == Spec => []TypeOK
  <1>1. Inv => TypeOK
    BY DEF Inv, Safe
  <1> QED BY <1>1, InvHolds, PTL

\* A CallData object is in one place at a time and is not used after it is deleted.
THEOREM ObjectsHaveOnePlace == Spec => []OnePlace
  <1>1. Inv => OnePlace
    BY SafeOnePlace DEF Inv
  <1> QED BY <1>1, InvHolds, PTL

\* Every accepted call has exactly one object that is going to answer it.
THEOREM CallsHaveOneAnswer == Spec => []OneAnswer
  <1>1. Inv => OneAnswer
    BY SafeOneAnswer DEF Inv
  <1> QED BY <1>1, InvHolds, PTL

\* Between them, the queue, gRPC, events and threads are ready for as many calls as
\* there are threads.
THEOREM StaysReadyForClients == Spec => []ReadyForClients
  <1>1. Inv => ReadyForClients
    BY DEF Inv, Ready
  <1> QED BY <1>1, InvHolds, PTL

\* Nothing but clients that go away makes the server keep more and more objects.
THEOREM ObjectsStayBounded == Spec => []ObjectsAreBounded
  BY InvObjectsAreBounded, InvHolds, PTL

-----------------------------------------------------------------------------
(* The exchange the clients rely on *)

\* One client's call moves on.
LEMMA OneMoves ==
    ASSUME NEW c \in Client, NEW from, NEW to, Exchange(c) \in from, Exchange(c)' = to,
           \A b \in Client : b # c => Exchange(b)' = Exchange(b)
    PROVE  Exchanges!Moves(c, from, to)
  BY DEF Exchanges!Moves

\* Nothing moves when calls and listings that wait to be sent are the same.
LEMMA NoneMoves ==
    ASSUME UNCHANGED call, \A b \in Client : Listed(b)' <=> Listed(b)
    PROVE  UNCHANGED [c \in Client |-> Exchange(c)]
  BY DEF Exchange

\* A listing is taken for an accepted call, and for one that is not answered yet.
LEMMA ListedIsAccepted ==
    ASSUME Safe, NEW t \in Thread, thread[t].at \in {"list", "finish"},
           client[thread[t].tag] # None
    PROVE  LET c == client[thread[t].tag]
           IN  /\ c \in Client /\ call[c] = "accepted"
               /\ \A u \in Thread :
                     thread[u].at \in {"list", "finish"} /\ client[thread[u].tag] = c => u = t
  <1> USE DEF Safe
  <1>1. \A u \in Thread : thread[u].at \in {"list", "finish"}
            => thread[u].tag \in Unanswered /\ thread[u].tag \in CallData
    BY UnansweredIs, TagType DEF Working
  <1>2. client[thread[t].tag] \in Client /\ call[client[thread[t].tag]] = "accepted"
    BY <1>1 DEF OneObjectPerCall, TypeOK
  <1>3. ASSUME NEW u \in Thread, thread[u].at \in {"list", "finish"},
               client[thread[u].tag] = client[thread[t].tag]
        PROVE  u = t
    <2>1. thread[u].tag = thread[t].tag
      BY <1>1, <1>3 DEF OneObjectPerCall
    <2> QED BY <1>1, <2>1, CallbackConstants DEF NoAliases
  <1> QED BY <1>2, <1>3

\* Steps of a thread are steps of the exchange: a listing is taken, a call answered, or
\* nothing moves.
LEMMA ThreadExchanges ==
    ASSUME Safe, NEW t \in Thread, ThreadStep(t)
    PROVE  Exchanges!Next \/ UNCHANGED [c \in Client |-> Exchange(c)]
  <1> USE DEF Safe
  <1>1. CASE FirstCallData(t) \/ NextEvent(t) \/ Spawn(t) \/ Delete(t)
    <2>1. UNCHANGED call /\ \A u \in Thread : u # t => thread'[u] = thread[u]
      BY <1>1 DEF FirstCallData, NextEvent, Spawn, Delete, Goto, TypeOK
    <2>2. thread[t].at # "finish" /\ thread'[t].at # "finish"
      BY <1>1 DEF FirstCallData, NextEvent, Spawn, Delete, Goto, TypeOK
    <2>3. \A u \in Thread : u # t /\ thread[u].at = "finish"
              => client'[thread[u].tag] = client[thread[u].tag]
      <3>1. CASE Delete(t)
        <4>1. \A d \in CallData : d # thread[t].tag => client'[d] = client[d]
          BY <3>1 DEF Delete, TypeOK
        <4>2. \A u \in Thread : u # t /\ thread[u].at = "finish"
                  => thread[u].tag \in CallData /\ thread[u].tag # thread[t].tag
          BY <3>1, TagType, HeldAlone DEF Delete
        <4> QED BY <4>1, <4>2
      <3>2. CASE ~Delete(t)
        BY <1>1, <3>2 DEF FirstCallData, NextEvent, Spawn
      <3> QED BY <3>1, <3>2
    <2> QED BY <2>1, <2>2, <2>3, NoneMoves DEF Listed
  <1>2. CASE ProcessCallback(t)
    <2> DEFINE c == client[thread[t].tag]
    <2>1. UNCHANGED <<client, call>> /\ thread[t].at = "list"
      BY <1>2 DEF ProcessCallback
    <2>2. \A u \in Thread : thread'[u] = IF u = t THEN [at |-> "finish", tag |-> thread[t].tag]
                                      ELSE thread[u]
      BY <1>2, GotoIs DEF ProcessCallback
    <2>3. \A b \in Client : Listed(b)' <=> Listed(b) \/ b = c
      BY <2>1, <2>2 DEF Listed
    <2>4. CASE c = None
      BY <2>1, <2>3, <2>4, NoneMoves, CallbackConstants
    <2>5. CASE c # None
      <3>1. c \in Client /\ call[c] = "accepted" /\ ~Listed(c)
        BY <2>1, <2>5, ListedIsAccepted DEF Listed
      <3>2. Exchange(c) = "asked"
        BY <3>1 DEF Exchange
      <3>3. PICK b \in Client : b = c
        BY <3>1
      <3>4. Exchange(b)' = "listed" /\ \A a \in Client : a # b => Exchange(a)' = Exchange(a)
        BY <2>1, <2>3, <3>1, <3>3 DEF Exchange
      <3>5. Exchanges!Moves(b, {"asked"}, "listed")
        BY <3>2, <3>3, <3>4, OneMoves
      <3> QED BY <3>5 DEF Exchanges!Take, Exchanges!Next
    <2> QED BY <2>4, <2>5
  <1>3. CASE Finish(t)
    <2> DEFINE c == client[thread[t].tag]
    <2>1. /\ UNCHANGED client /\ thread[t].at = "finish"
          /\ call' = [b \in Client |-> IF c = b THEN "answered" ELSE call[b]]
      BY <1>3 DEF Finish, Answer
    <2>2. \A u \in Thread : thread'[u] = IF u = t THEN [at |-> "next", tag |-> None] ELSE thread[u]
      BY <1>3, GotoIs DEF Finish
    <2>3. \A b \in Client : b # c => (Listed(b)' <=> Listed(b)) /\ call'[b] = call[b]
      BY <2>1, <2>2 DEF Listed
    <2>4. CASE c = None
      BY <2>3, <2>4, CallbackConstants DEF Exchange
    <2>5. CASE c # None
      <3>1. c \in Client /\ call[c] = "accepted" /\ Listed(c)
        BY <2>1, <2>5, ListedIsAccepted DEF Listed
      <3>2. Exchange(c) = "listed"
        BY <3>1 DEF Exchange
      <3>3. PICK b \in Client : b = c
        BY <3>1
      <3>4. Exchange(b)' = "answered" /\ \A a \in Client : a # b => Exchange(a)' = Exchange(a)
        BY <2>1, <2>3, <3>3 DEF Exchange
      <3>5. Exchanges!Moves(b, {"listed"}, "answered")
        BY <3>2, <3>3, <3>4, OneMoves
      <3> QED BY <3>5 DEF Exchanges!Answer, Exchanges!Next
    <2> QED BY <2>4, <2>5
  <1> QED BY <1>1, <1>2, <1>3 DEF ThreadStep

\* So are those of a client and of gRPC: a client asks or goes.
LEMMA ClientExchanges ==
    ASSUME Safe, NEW c \in Client, CallbackList(c) \/ Accept(c) \/ ClientGone(c)
    PROVE  Exchanges!Next \/ UNCHANGED [b \in Client |-> Exchange(b)]
  <1> USE DEF Safe
  <1>1. \A b \in Client : Listed(b) => call[b] = "accepted"
    BY ListedIsAccepted, CallbackConstants DEF Listed
  <1>2. CASE CallbackList(c)
    <2>1. \A b \in Client : Listed(b)' <=> Listed(b)
      BY <1>2 DEF CallbackList, Listed
    <2>2. Exchange(c) \in {"none", "answered"} /\ Exchange(c)' = "asked"
      BY <1>1, <1>2, <2>1 DEF CallbackList, Exchange, TypeOK
    <2>3. \A b \in Client : b # c => Exchange(b)' = Exchange(b)
      BY <1>2, <2>1 DEF CallbackList, Exchange, TypeOK
    <2>4. Exchanges!Moves(c, {"none", "answered"}, "asked")
      BY <2>2, <2>3, OneMoves
    <2> QED BY <2>4 DEF Exchanges!Ask, Exchanges!Next
  <1>3. CASE Accept(c)
    <2>1. PICK d \in registered : client' = [client EXCEPT ![d] = c]
      BY <1>3 DEF Accept
    <2>2. \A u \in Thread : thread[u].at = "finish"
              => thread[u].tag \in CallData /\ thread[u].tag # d
      BY TagType, HeldAlone
    <2>3. \A b \in Client : Listed(b)' <=> Listed(b)
      BY <1>3, <2>1, <2>2 DEF Accept, Listed, TypeOK
    <2> QED BY <1>1, <1>3, <2>3 DEF Accept, Exchange, TypeOK
  <1>4. CASE ClientGone(c)
    <2>1. \A b \in Client : b # c => (Listed(b)' <=> Listed(b))
      <3>1. \A u \in Thread : thread[u].at = "finish" => thread[u].tag \in CallData
        BY TagType
      <3>2. \A b \in Client, d \in CallData : b # c => (client'[d] = b <=> client[d] = b)
        BY <1>4, CallbackConstants DEF ClientGone
      <3> QED BY <1>4, <3>1, <3>2 DEF ClientGone, Listed
    <2>2. Exchange(c) \in {"asked", "listed", "answered"} /\ Exchange(c)' = "none"
      BY <1>4 DEF ClientGone, Exchange, TypeOK
    <2>3. \A b \in Client : b # c => Exchange(b)' = Exchange(b)
      BY <1>4, <2>1 DEF ClientGone, Exchange, TypeOK
    <2>4. Exchanges!Moves(c, {"asked", "listed", "answered"}, "none")
      BY <2>2, <2>3, OneMoves
    <2> QED BY <2>4 DEF Exchanges!Leave, Exchanges!Next
  <1> QED BY <1>2, <1>3, <1>4

\* Objects, tags and threads only make the steps of the exchange that the clients rely
\* on: a listing is taken for a call that was made and not answered, and answers it once.
THEOREM ListingsAreExchanges == Spec => Exchanges!Spec
  <1>1. Init => Exchanges!Init
    BY DEF Init, Exchanges!Init, Exchange
  <1>2. Inv /\ [Next]_vars => [Exchanges!Next]_[c \in Client |-> Exchange(c)]
    <2>1. ASSUME ProcessQueuedRequests \/ UNCHANGED vars
          PROVE  UNCHANGED [c \in Client |-> Exchange(c)]
      BY <2>1, NoneMoves DEF ProcessQueuedRequests, vars, Listed
    <2> QED BY <2>1, ThreadExchanges, ClientExchanges DEF Inv, Next
  <1> QED BY <1>1, <1>2, InvHolds, PTL DEF Spec, Exchanges!Spec
=============================================================================
