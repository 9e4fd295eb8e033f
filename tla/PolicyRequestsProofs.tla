------------------------ MODULE PolicyRequestsProofs ------------------------
(***************************************************************************)
(* The safety of PolicyRequests, proved for any finite set of evaluations  *)
(* and any set of host threads.  TLC checks the same properties, and the   *)
(* invariants below, for two evaluations and two threads.                  *)
(***************************************************************************)
EXTENDS PolicyRequests, FiniteSetTheorems, TLAPS

\* The provers each step is tried with in turn, and the time they have.
USE SMTT(30), ZenonT(20), Z3T(30)

\* The decisions a host can have made.
Answers == {accept, reject(OTHER_CODE)}

Ids == 0..(IdSpace - 1)

Phases == {"idle", "unasked", "numbered", "calling", "awaiting", "leaving", "done"}

\* The evaluations that hold an id.
Numbered == {e \in Evaluations : pc[e] \notin {"idle", "unasked"}}

Typed ==
    /\ nextId \in Ids
    /\ \A i \in DOMAIN requests : requests[i] \in Evaluations
    /\ pc \in [Evaluations -> Phases]
    /\ id \in [Evaluations -> Ids]
    /\ channel \in [Evaluations -> Answers \cup {NoDecision}]
    /\ outcome \in [Evaluations -> Answers \cup {NoDecision, Cancelled, reject(UNSUPPORTED)}]
    /\ DOMAIN thread = Threads
    /\ \A t \in Threads : thread[t] # Idle =>
           thread[t].to \in Evaluations /\ thread[t].decision \in Answers
    /\ asked \in [Evaluations -> SUBSET Answers]
    /\ honoured \in [Evaluations -> SUBSET Answers]

\* A thread holds the sender of e.
Held(t, e) == thread[t] # Idle /\ thread[t].to = e

\* One sender per evaluation: registered, held by one thread, or used.
OneSender ==
    /\ \A i \in DOMAIN requests :
           /\ channel[requests[i]] = NoDecision
           /\ \A t \in Threads : ~Held(t, requests[i])
    /\ \A e \in Evaluations, t \in Threads : Held(t, e) =>
           /\ channel[e] = NoDecision
           /\ \A u \in Threads : Held(u, e) => u = t
    /\ \A e \in Evaluations : pc[e] \in {"idle", "unasked", "numbered"} =>
           channel[e] = NoDecision /\ \A t \in Threads : ~Held(t, e)

\* What an evaluation heard is what was answered with Ok, and what it returns.
HeardIsHonoured ==
    \A e \in Evaluations :
        /\ honoured[e] = IF channel[e] = NoDecision THEN {} ELSE {channel[e]}
        /\ outcome[e] \in Answers => outcome[e] = channel[e]

SenderInv == Typed /\ NothingLeft /\ OneSender /\ HeardIsHonoured

\* The id at a distance below IdSpace after another.
Wrap(x) == IF x < IdSpace THEN x ELSE x - IdSpace

\* Whether 0 is among the k ids from s on.
PastZero(s, k) == (s = 0 /\ k > 0) \/ s + k > IdSpace

\* Counted from where the counter started, every id taken so far has an owner,
\* but for 0: the counter cannot have come round.
Counted(s, k) ==
    /\ nextId = Wrap(s + k)
    /\ k <= Cardinality(Numbered) + (IF PastZero(s, k) THEN 1 ELSE 0)
    /\ \A e \in Numbered : \E o \in 0..(k - 1) : id[e] = Wrap(s + o)

IdsAreDistinct == \A e, f \in Numbered : id[e] = id[f] => e = f

\* What a thread is about to send, and what was sent, the host asked for.
SentWasAsked ==
    /\ \A t \in Threads : thread[t] # Idle => thread[t].decision \in asked[thread[t].to]
    /\ \A e \in Evaluations : channel[e] # NoDecision => channel[e] \in asked[e]

ConsentInv ==
    /\ SenderInv /\ IdsAreDistinct /\ SentWasAsked
    /\ \E s \in Ids, k \in Nat : Counted(s, k)

-----------------------------------------------------------------------------
LEMMA DecisionFacts ==
    /\ NoDecision \notin Answers /\ Cancelled \notin Answers /\ reject(UNSUPPORTED) \notin Answers
    /\ accept \in Answers /\ reject(OTHER_CODE) \in Answers
    /\ accept.accepted /\ ~reject(OTHER_CODE).accepted /\ ~reject(UNSUPPORTED).accepted
    /\ accept.code = NONE /\ reject(OTHER_CODE).code # NONE /\ reject(UNSUPPORTED).code # NONE
    /\ ~NoDecision.accepted /\ ~Cancelled.accepted
  BY DEF Answers, accept, reject, NoDecision, Cancelled, NONE, OTHER_CODE, UNSUPPORTED

LEMMA SizeFacts ==
    /\ Cardinality(Evaluations) \in Nat /\ IdSpace \in Nat
    /\ IdSpace > Cardinality(Evaluations) + 1
  BY PolicyAssumption, FS_CardinalityType

LEMMA NextIdFacts ==
    ASSUME NEW x \in Ids
    PROVE  (x + 1) % IdSpace = IF x + 1 = IdSpace THEN 0 ELSE x + 1
  <1>1. IdSpace \in Nat /\ IdSpace > 0 /\ x \in Nat /\ x < IdSpace
    BY SizeFacts DEF Ids
  <1> QED
    BY <1>1

LEMMA MeantFacts ==
    ASSUME NEW i, NEW d \in HostDecisions, Valid(i, d)
    PROVE  Meant(d) \in Answers
  <1>1. d.code \in {NONE, OTHER_CODE}
    BY DEF HostDecisions
  <1> QED
    BY <1>1 DEF Valid, Meant, Answers

\* What is left when an entry of the map goes.
LEMMA RemoveFacts ==
    ASSUME NEW i, requests' = Restrict(requests, DOMAIN requests \ {i})
    PROVE  /\ DOMAIN requests' = DOMAIN requests \ {i}
           /\ \A j \in DOMAIN requests' : j \in DOMAIN requests /\ j # i /\ requests'[j] = requests[j]
  BY DEF Restrict

-----------------------------------------------------------------------------
LEMMA InitSender == Init => SenderInv
  <1> SUFFICES ASSUME Init PROVE SenderInv
    OBVIOUS
  <1>1. DOMAIN requests = {}
    BY DEF Init
  <1>2. Typed
    <2>1. 0 \in Ids
      BY SizeFacts DEF Ids
    <2>2. "idle" \in Phases
      BY DEF Phases
    <2> QED
      BY <1>1, <2>1, <2>2 DEF Init, Typed, Ids
  <1>3. NothingLeft
    BY <1>1 DEF NothingLeft
  <1>4. OneSender
    BY <1>1 DEF OneSender, Init, Held
  <1>5. HeardIsHonoured
    BY DecisionFacts DEF HeardIsHonoured, Init
  <1> QED
    BY <1>2, <1>3, <1>4, <1>5 DEF SenderInv

LEMMA TypedStep ==
    ASSUME Typed, Next
    PROVE  Typed'
  <1> USE DEF Typed
  <1>0. {"idle", "unasked", "numbered", "calling", "awaiting", "leaving", "done"} = Phases
    BY DEF Phases
  <1>1. ASSUME NEW e \in Evaluations, Unencodable(e) PROVE Typed'
    BY <1>0, <1>1 DEF Unencodable
  <1>2. ASSUME NEW e \in Evaluations, TakeId(e) PROVE Typed'
    <2>1. nextId' \in Ids
      BY <1>2, SizeFacts, NextIdFacts DEF TakeId, Ids
    <2>2. pc' \in [Evaluations -> Phases] /\ id' \in [Evaluations -> Ids]
      BY <1>0, <1>2 DEF TakeId
    <2> QED
      BY <1>2, <2>1, <2>2 DEF TakeId
  <1>3. ASSUME NEW e \in Evaluations, register_server_policy_request(e) PROVE Typed'
    <2>1. pc' \in [Evaluations -> Phases]
      BY <1>0, <1>3 DEF register_server_policy_request
    <2>2. \A i \in DOMAIN requests' : requests'[i] \in Evaluations
      BY <1>3 DEF register_server_policy_request
    <2> QED
      BY <1>3, <2>1, <2>2 DEF register_server_policy_request
  <1>4. ASSUME NEW e \in Evaluations, NEW ok \in BOOLEAN, BeginReturns(e, ok) PROVE Typed'
    BY <1>0, <1>4 DEF BeginReturns
  <1>5. ASSUME NEW e \in Evaluations, Decided(e) PROVE Typed'
    BY <1>0, <1>5 DEF Decided
  <1>6. ASSUME NEW e \in Evaluations, DropFuture(e) PROVE Typed'
    BY <1>0, <1>6 DEF DropFuture
  <1>7. ASSUME NEW e \in Evaluations, DropGuard(e) PROVE Typed'
    <2>1. \A i \in DOMAIN requests' : requests'[i] \in Evaluations
      BY <1>7, RemoveFacts, ZenonT(30) DEF DropGuard
    <2> QED
      BY <1>0, <1>7, <2>1, ZenonT(30) DEF DropGuard
  <1>8. ASSUME NEW t \in Threads, NEW e \in Evaluations, NEW d \in HostDecisions, Complete(t, e, d)
        PROVE  Typed'
    <2>1. \A i \in DOMAIN requests' : requests'[i] \in Evaluations
      BY <1>8, RemoveFacts, ZenonT(30) DEF Complete
    <2>2. asked' \in [Evaluations -> SUBSET Answers]
      BY <1>8, MeantFacts DEF Complete
    <2>3. DOMAIN thread' = Threads
      BY <1>8 DEF Complete
    <2>4. \A u \in Threads : thread'[u] # Idle =>
            thread'[u].to \in Evaluations /\ thread'[u].decision \in Answers
      BY <1>8, MeantFacts DEF Complete
    <2> QED
      BY <1>8, <2>1, <2>2, <2>3, <2>4 DEF Complete
  <1>9. ASSUME NEW t \in Threads, Send(t) PROVE Typed'
    <2>1. thread[t].to \in Evaluations /\ thread[t].decision \in Answers
      BY <1>9 DEF Send
    <2>2. /\ channel' \in [Evaluations -> Answers \cup {NoDecision}]
          /\ honoured' \in [Evaluations -> SUBSET Answers]
      BY <1>9, <2>1 DEF Send
    <2>3. /\ DOMAIN thread' = Threads
          /\ \A u \in Threads : thread'[u] # Idle => thread'[u] = thread[u]
      BY <1>9 DEF Send
    <2> QED
      BY <1>9, <2>2, <2>3 DEF Send
  <1> QED
    BY <1>1, <1>2, <1>3, <1>4, <1>5, <1>6, <1>7, <1>8, <1>9 DEF Next, Evaluates

\* The steps of an evaluation that leave the map, the ids and the senders alone.
Advances(e, from, to) ==
    /\ pc[e] \in from
    /\ \E p \in to : pc' = [pc EXCEPT ![e] = p]
    /\ UNCHANGED <<requests, id, channel, thread, asked, honoured>>

LEMMA AdvanceFacts ==
    ASSUME Typed, NEW e \in Evaluations
    PROVE  /\ Unencodable(e) => Advances(e, {"idle"}, {"unasked"})
           /\ \A ok \in BOOLEAN : BeginReturns(e, ok) =>
                  Advances(e, {"calling"}, {"awaiting", "leaving"})
           /\ Decided(e) \/ DropFuture(e) => Advances(e, {"awaiting"}, {"leaving"})
  BY DEF Unencodable, BeginReturns, Decided, DropFuture, Advances

LEMMA NothingLeftStep ==
    ASSUME Typed, NothingLeft, Next
    PROVE  NothingLeft'
  <1> USE DEF Typed, NothingLeft
  <1>1. ASSUME NEW e \in Evaluations,
               \/ Advances(e, {"idle"}, {"unasked"})
               \/ Advances(e, {"calling"}, {"awaiting", "leaving"})
               \/ Advances(e, {"awaiting"}, {"leaving"})
        PROVE  NothingLeft'
    BY <1>1 DEF Advances
  <1>2. ASSUME NEW e \in Evaluations, TakeId(e) PROVE NothingLeft'
    BY <1>2 DEF TakeId
  <1>3. ASSUME NEW e \in Evaluations, register_server_policy_request(e) PROVE NothingLeft'
    BY <1>3 DEF register_server_policy_request
  <1>4. ASSUME NEW e \in Evaluations, DropGuard(e) PROVE NothingLeft'
    <2>1. \A j \in DOMAIN requests' :
            j \in DOMAIN requests /\ j # id[e] /\ requests'[j] = requests[j]
      BY <1>4, RemoveFacts, ZenonT(30) DEF DropGuard
    <2>2. \A f \in Evaluations : id'[f] = id[f] /\ (f # e => pc'[f] = pc[f])
      BY <1>4 DEF DropGuard
    <2>3. \A j \in DOMAIN requests' : requests[j] \in Evaluations /\ requests[j] # e
      BY <2>1
    <2> QED
      BY <2>1, <2>2, <2>3
  <1>5. ASSUME NEW t \in Threads, NEW e \in Evaluations, NEW d \in HostDecisions, Complete(t, e, d)
        PROVE  NothingLeft'
    <2>1. \A j \in DOMAIN requests' : j \in DOMAIN requests /\ requests'[j] = requests[j]
      BY <1>5, RemoveFacts, ZenonT(30) DEF Complete
    <2> QED
      BY <1>5, <2>1 DEF Complete
  <1>6. ASSUME NEW t \in Threads, Send(t) PROVE NothingLeft'
    BY <1>6 DEF Send
  <1> QED
    BY <1>1, <1>2, <1>3, <1>4, <1>5, <1>6, AdvanceFacts DEF Next, Evaluates

\* A thread takes the sender of f out of the map.
TakesSender(t, e, d, f) ==
    /\ Valid(id[e], d) /\ id[f] = id[e]
    /\ pc[f] \in {"calling", "awaiting", "leaving"}
    /\ channel[f] = NoDecision
    /\ \A u \in Threads : ~Held(u, f)
    /\ thread' = [thread EXCEPT ![t] = [to |-> f, decision |-> Meant(d)]]
    /\ DOMAIN requests' = DOMAIN requests \ {id[e]}
    /\ \A j \in DOMAIN requests' : requests'[j] = requests[j] /\ requests[j] # f

LEMMA CompleteFacts ==
    ASSUME SenderInv, NEW t \in Threads, NEW e \in Evaluations, NEW d \in HostDecisions,
           Complete(t, e, d)
    PROVE  /\ UNCHANGED <<nextId, pc, id, channel, outcome, honoured>>
           /\ UNCHANGED <<thread, requests>> \/ \E f \in Evaluations : TakesSender(t, e, d, f)
  <1>1. UNCHANGED <<nextId, pc, id, channel, outcome, honoured>>
    BY DEF Complete
  <1>2. CASE ~(Valid(id[e], d) /\ id[e] \in DOMAIN requests)
    BY <1>1, <1>2 DEF Complete
  <1>3. CASE Valid(id[e], d) /\ id[e] \in DOMAIN requests
    <2> DEFINE f == requests[id[e]]
    <2>1. f \in Evaluations /\ id[f] = id[e] /\ pc[f] \in {"calling", "awaiting", "leaving"}
      BY <1>3 DEF SenderInv, Typed, NothingLeft
    <2>2. channel[f] = NoDecision /\ \A u \in Threads : ~Held(u, f)
      BY <1>3 DEF SenderInv, OneSender
    <2>3. /\ thread' = [thread EXCEPT ![t] = [to |-> f, decision |-> Meant(d)]]
          /\ requests' = Restrict(requests, DOMAIN requests \ {id[e]})
      BY <1>3 DEF Complete
    <2>4. /\ DOMAIN requests' = DOMAIN requests \ {id[e]}
          /\ \A j \in DOMAIN requests' : j \in DOMAIN requests /\ j # id[e] /\ requests'[j] = requests[j]
      BY <2>3, RemoveFacts, ZenonT(30)
    <2>5. \A j \in DOMAIN requests' : requests'[j] = requests[j] /\ requests[j] # f
      BY <2>1, <2>4 DEF SenderInv, NothingLeft
    <2> HIDE DEF f
    <2>6. TakesSender(t, e, d, f)
      BY <1>3, <2>1, <2>2, <2>3, <2>4, <2>5, ZenonT(30) DEF TakesSender
    <2> QED
      BY <1>1, <2>1, <2>6
  <1> QED
    BY <1>2, <1>3

LEMMA OneSenderStep ==
    ASSUME SenderInv, Typed', NothingLeft', Next
    PROVE  OneSender'
  <1> USE DEF Held
  <1>0. Typed /\ NothingLeft /\ OneSender
    BY DEF SenderInv
  <1>1. ASSUME NEW e \in Evaluations,
               \/ Advances(e, {"idle"}, {"unasked"})
               \/ Advances(e, {"calling"}, {"awaiting", "leaving"})
               \/ Advances(e, {"awaiting"}, {"leaving"})
        PROVE  OneSender'
    BY <1>0, <1>1 DEF Advances, OneSender, Typed
  <1>2. ASSUME NEW e \in Evaluations, TakeId(e) PROVE OneSender'
    BY <1>0, <1>2 DEF TakeId, OneSender, Typed
  <1>3. ASSUME NEW e \in Evaluations, register_server_policy_request(e) PROVE OneSender'
    <2>1. UNCHANGED <<channel, thread>>
      BY <1>3 DEF register_server_policy_request
    <2>2. \A f \in Evaluations : pc'[f] = pc[f] \/ (f = e /\ pc[f] = "numbered")
      BY <1>0, <1>3 DEF register_server_policy_request, Typed
    <2>3. channel[e] = NoDecision /\ \A t \in Threads : ~Held(t, e)
      BY <1>0, <1>3 DEF register_server_policy_request, OneSender
    <2>4. \A i \in DOMAIN requests' : requests'[i] = e \/ (i \in DOMAIN requests /\ requests'[i] = requests[i])
      BY <1>3 DEF register_server_policy_request
    <2> QED
      BY <1>0, <2>1, <2>2, <2>3, <2>4 DEF OneSender
  <1>4. ASSUME NEW e \in Evaluations, DropGuard(e) PROVE OneSender'
    <2>1. \A j \in DOMAIN requests' : j \in DOMAIN requests /\ requests'[j] = requests[j]
      BY <1>4, RemoveFacts, ZenonT(30) DEF DropGuard
    <2>2. \A f \in Evaluations : pc'[f] = pc[f] \/ pc'[f] = "done"
      BY <1>0, <1>4 DEF DropGuard, Typed
    <2>3. UNCHANGED <<channel, thread>>
      BY <1>4 DEF DropGuard
    <2>4. \A t, f : Held(t, f)' = Held(t, f)
      BY <2>3
    <2> HIDE DEF Held
    <2>5. \A i \in DOMAIN requests' :
            channel'[requests'[i]] = NoDecision /\ \A t \in Threads : ~Held(t, requests[i])'
      BY <1>0, <2>1, <2>3, <2>4 DEF OneSender
    <2>6. \A f \in Evaluations, t \in Threads : Held(t, f)' =>
            channel'[f] = NoDecision /\ \A u \in Threads : Held(u, f)' => u = t
      BY <1>0, <2>3, <2>4 DEF OneSender
    <2>7. \A f \in Evaluations : pc'[f] \in {"idle", "unasked", "numbered"} =>
            channel'[f] = NoDecision /\ \A t \in Threads : ~Held(t, f)'
      BY <1>0, <2>2, <2>3, <2>4 DEF OneSender
    <2> QED
      BY <2>5, <2>6, <2>7 DEF OneSender
  <1>5. ASSUME NEW t \in Threads, NEW e \in Evaluations, NEW d \in HostDecisions, Complete(t, e, d)
        PROVE  OneSender'
    <2>1. CASE UNCHANGED <<thread, requests>>
      BY <1>0, <1>5, <2>1 DEF Complete, OneSender
    <2>2. CASE ~UNCHANGED <<thread, requests>>
      <3>0. PICK f \in Evaluations : TakesSender(t, e, d, f)
        BY <1>5, <2>2, CompleteFacts
      <3>1. /\ pc[f] \in {"calling", "awaiting", "leaving"}
            /\ channel[f] = NoDecision
            /\ \A u \in Threads : ~Held(u, f)
            /\ thread' = [thread EXCEPT ![t] = [to |-> f, decision |-> Meant(d)]]
            /\ DOMAIN requests' = DOMAIN requests \ {id[e]}
            /\ \A j \in DOMAIN requests' : requests'[j] = requests[j] /\ requests[j] # f
        BY <3>0 DEF TakesSender
      <3>2. \A u \in Threads, g \in Evaluations : Held(u, g)' => (Held(u, g) /\ g # f) \/ (u = t /\ g = f)
        BY <1>0, <3>1 DEF Typed
      <3>3. UNCHANGED <<pc, channel>>
        BY <1>5 DEF Complete
      <3> HIDE DEF Held
      <3>4. \A i \in DOMAIN requests' :
              channel'[requests'[i]] = NoDecision /\ \A u \in Threads : ~Held(u, requests[i])'
        BY <1>0, <3>1, <3>2, <3>3 DEF OneSender, Typed
      <3>5. \A g \in Evaluations, u \in Threads : Held(u, g)' =>
              channel'[g] = NoDecision /\ \A v \in Threads : Held(v, g)' => v = u
        BY <1>0, <3>1, <3>2, <3>3 DEF OneSender
      <3>6. \A g \in Evaluations : pc'[g] \in {"idle", "unasked", "numbered"} =>
              channel'[g] = NoDecision /\ \A u \in Threads : ~Held(u, g)'
        BY <1>0, <3>1, <3>2, <3>3 DEF OneSender
      <3> QED
        BY <3>1, <3>4, <3>5, <3>6 DEF OneSender
    <2> QED
      BY <2>1, <2>2
  <1>6. ASSUME NEW t \in Threads, Send(t) PROVE OneSender'
    <2>1. PICK f \in Evaluations : f = thread[t].to /\ Held(t, f)
      BY <1>0, <1>6 DEF Send, Typed
    <2>2. /\ UNCHANGED <<pc, requests>>
          /\ \A u \in Threads : thread'[u] = IF u = t THEN Idle ELSE thread[u]
          /\ \A g \in Evaluations : g # f => channel'[g] = channel[g]
          /\ pc[f] \in {"calling", "awaiting"} \/ channel' = channel
      BY <1>0, <1>6, <2>1 DEF Send, Typed
    <2>3. \A u \in Threads, g \in Evaluations : Held(u, g)' => Held(u, g) /\ u # t
      BY <2>2
    <2> HIDE DEF Held
    <2>4. \A u \in Threads, g \in Evaluations : Held(u, g)' => g # f
      BY <1>0, <2>1, <2>3 DEF OneSender
    <2>5. \A i \in DOMAIN requests : requests[i] \in Evaluations /\ requests[i] # f
      BY <1>0, <2>1 DEF OneSender, Typed
    <2>6. \A i \in DOMAIN requests' :
            channel'[requests'[i]] = NoDecision /\ \A u \in Threads : ~Held(u, requests[i])'
      BY <1>0, <2>2, <2>3, <2>5 DEF OneSender
    <2>7. \A g \in Evaluations, u \in Threads : Held(u, g)' =>
            channel'[g] = NoDecision /\ \A v \in Threads : Held(v, g)' => v = u
      BY <1>0, <2>2, <2>3, <2>4 DEF OneSender
    <2>8. \A g \in Evaluations : pc'[g] \in {"idle", "unasked", "numbered"} =>
            channel'[g] = NoDecision /\ \A u \in Threads : ~Held(u, g)'
      BY <1>0, <2>1, <2>2, <2>3 DEF OneSender
    <2> QED
      BY <2>2, <2>6, <2>7, <2>8 DEF OneSender
  <1> QED
    BY <1>0, <1>1, <1>2, <1>3, <1>4, <1>5, <1>6, AdvanceFacts DEF Next, Evaluates

LEMMA HeardStep ==
    ASSUME SenderInv, Typed', Next
    PROVE  HeardIsHonoured'
  <1>0. Typed /\ OneSender /\ HeardIsHonoured
    BY DEF SenderInv
  <1>1. ASSUME UNCHANGED <<channel, honoured>>,
               \A e \in Evaluations : outcome'[e] = outcome[e] \/ outcome'[e] \notin Answers
                                      \/ outcome'[e] = channel[e]
        PROVE  HeardIsHonoured'
    BY <1>0, <1>1 DEF HeardIsHonoured
  <1>2. ASSUME NEW e \in Evaluations,
               \/ Unencodable(e) \/ TakeId(e) \/ register_server_policy_request(e)
               \/ DropGuard(e) \/ DropFuture(e) \/ \E ok \in BOOLEAN : BeginReturns(e, ok)
        PROVE  HeardIsHonoured'
    <2>1. UNCHANGED <<channel, honoured>>
      BY <1>2 DEF Unencodable, TakeId, register_server_policy_request, DropGuard, DropFuture, BeginReturns
    <2>2. \/ UNCHANGED outcome
          \/ \E o \in {reject(UNSUPPORTED), Cancelled} : outcome' = [outcome EXCEPT ![e] = o]
      BY <1>2 DEF Unencodable, TakeId, register_server_policy_request, DropGuard, DropFuture, BeginReturns
    <2>3. \A f \in Evaluations : outcome'[f] = outcome[f] \/ outcome'[f] \notin Answers
      BY <1>0, <2>2, DecisionFacts DEF Typed
    <2> QED
      BY <1>1, <2>1, <2>3
  <1>3. ASSUME NEW e \in Evaluations, Decided(e) PROVE HeardIsHonoured'
    <2>1. \A f \in Evaluations : outcome'[f] = outcome[f] \/ outcome'[f] \notin Answers
                                 \/ outcome'[f] = channel[f]
      BY <1>0, <1>3, DecisionFacts DEF Decided, Typed
    <2>2. UNCHANGED <<channel, honoured>>
      BY <1>3 DEF Decided
    <2> QED
      BY <1>1, <2>1, <2>2
  <1>4. ASSUME NEW t \in Threads, NEW e \in Evaluations, NEW d \in HostDecisions, Complete(t, e, d)
        PROVE  HeardIsHonoured'
    BY <1>1, <1>4 DEF Complete
  <1>5. ASSUME NEW t \in Threads, Send(t) PROVE HeardIsHonoured'
    <2>1. PICK f \in Evaluations : f = thread[t].to /\ Held(t, f) /\ thread[t].decision \in Answers
      BY <1>0, <1>5 DEF Send, Typed, Held
    <2>2. channel[f] = NoDecision /\ honoured[f] = {} /\ outcome[f] \notin Answers
      <3>1. channel[f] = NoDecision
        BY <1>0, <2>1 DEF OneSender
      <3>2. honoured[f] = {}
        BY <1>0, <3>1, ZenonT(30) DEF HeardIsHonoured
      <3>3. outcome[f] \notin Answers
        BY <1>0, <3>1, DecisionFacts, ZenonT(30) DEF HeardIsHonoured
      <3> QED
        BY <3>1, <3>2, <3>3
    <2>3. UNCHANGED outcome
      BY <1>5 DEF Send
    <2>4. CASE pc[f] \in {"calling", "awaiting"}
      <3>1. /\ channel' = [channel EXCEPT ![f] = thread[t].decision]
            /\ honoured' = [honoured EXCEPT ![f] = @ \cup {thread[t].decision}]
        BY <1>5, <2>1, <2>4 DEF Send
      <3>2. \A g \in Evaluations : g # f => channel'[g] = channel[g] /\ honoured'[g] = honoured[g]
        BY <1>0, <3>1 DEF Typed
      <3>3. channel'[f] = thread[t].decision /\ honoured'[f] = {thread[t].decision}
        BY <1>0, <2>2, <3>1 DEF Typed
      <3>4. channel'[f] # NoDecision
        BY <2>1, <3>3, DecisionFacts
      <3>5. \A g \in Evaluations :
              honoured'[g] = IF channel'[g] = NoDecision THEN {} ELSE {channel'[g]}
        BY <1>0, <3>2, <3>3, <3>4 DEF HeardIsHonoured
      <3>6. \A g \in Evaluations : outcome'[g] \in Answers => outcome'[g] = channel'[g]
        BY <1>0, <2>2, <2>3, <3>2, ZenonT(30) DEF HeardIsHonoured
      <3> QED
        BY <3>5, <3>6 DEF HeardIsHonoured
    <2>5. CASE pc[f] \notin {"calling", "awaiting"}
      BY <1>1, <1>5, <2>1, <2>3, <2>5 DEF Send
    <2> QED
      BY <2>4, <2>5
  <1> QED
    BY <1>2, <1>3, <1>4, <1>5 DEF Next, Evaluates

LEMMA SenderStep == SenderInv /\ [Next]_vars => SenderInv'
  <1> SUFFICES ASSUME SenderInv, [Next]_vars PROVE SenderInv'
    OBVIOUS
  <1>1. CASE Next
    <2>1. Typed' /\ NothingLeft'
      BY <1>1, TypedStep, NothingLeftStep DEF SenderInv
    <2>2. OneSender' /\ HeardIsHonoured'
      BY <1>1, <2>1, OneSenderStep, HeardStep
    <2> QED
      BY <2>1, <2>2 DEF SenderInv
  <1>2. CASE UNCHANGED vars
    BY <1>2 DEF SenderInv, Typed, NothingLeft, OneSender, HeardIsHonoured, Held, vars
  <1> QED
    BY <1>1, <1>2

LEMMA SendersHold == Spec => []SenderInv
  BY InitSender, SenderStep, PTL DEF Spec

\* An entry of SERVER_POLICY_REQUESTS belongs to an evaluation whose guard is
\* still to be dropped, for any number of evaluations and threads.
THEOREM RequestsAreRemoved == Spec => []NothingLeft
  <1>1. SenderInv => NothingLeft
    BY DEF SenderInv
  <1> QED
    BY <1>1, SendersHold, PTL

\* An evaluation never returns a rejection without a code, or an admission with
\* one, whatever the host passes to nnrp_server_policy_complete.
THEOREM RejectionsAreExplained == Spec => []RejectionsHaveACode
  <1>1. SenderInv => RejectionsHaveACode
    <2> SUFFICES ASSUME SenderInv, NEW e \in Evaluations, outcome[e] \notin {NoDecision, Cancelled}
                 PROVE  outcome[e].accepted <=> outcome[e].code = NONE
      BY DEF RejectionsHaveACode
    <2>1. outcome[e] \in {accept, reject(OTHER_CODE), reject(UNSUPPORTED)}
      BY DEF SenderInv, Typed, Answers
    <2> QED
      BY <2>1, DecisionFacts
  <1> QED
    BY <1>1, SendersHold, PTL

\* nnrp_server_policy_complete returns Ok for one decision of a request at most, and
\* the evaluation returns that one, however many threads answer.
THEOREM OkIsDecisive == Spec => []OkDecides
  <1>1. SenderInv => OkDecides
    <2> SUFFICES ASSUME SenderInv, NEW e \in Evaluations
                 PROVE  /\ Cardinality(honoured[e]) <= 1
                        /\ outcome[e] \in Answers => outcome[e] \in honoured[e]
      BY DEF OkDecides, Answers
    <2>1. honoured[e] = IF channel[e] = NoDecision THEN {} ELSE {channel[e]}
      BY DEF SenderInv, HeardIsHonoured
    <2>2. Cardinality(honoured[e]) \in {0, 1}
      BY <2>1, FS_EmptySet, FS_Singleton, ZenonT(30)
    <2>3. outcome[e] \in Answers => outcome[e] = channel[e] /\ channel[e] # NoDecision
      BY DecisionFacts, ZenonT(30) DEF SenderInv, HeardIsHonoured
    <2> QED
      BY <2>1, <2>2, <2>3
  <1> QED
    BY <1>1, SendersHold, PTL

-----------------------------------------------------------------------------
(* No two evaluations have the same id, so an answer reaches the one that the *)
(* host named.                                                                *)

LEMMA NumberedFacts ==
    /\ IsFiniteSet(Numbered) /\ Cardinality(Numbered) \in Nat
    /\ \A e \in Evaluations \ Numbered : Cardinality(Numbered) < Cardinality(Evaluations)
  <1>1. IsFiniteSet(Evaluations) /\ Numbered \subseteq Evaluations
    BY PolicyAssumption DEF Numbered
  <1>2. IsFiniteSet(Numbered) /\ Cardinality(Numbered) \in Nat
    BY <1>1, FS_Subset, FS_CardinalityType
  <1>3. ASSUME NEW e \in Evaluations \ Numbered PROVE Cardinality(Numbered) < Cardinality(Evaluations)
    <2>1. /\ IsFiniteSet(Evaluations \ {e})
          /\ Cardinality(Evaluations \ {e}) = Cardinality(Evaluations) - 1
      BY <1>1, <1>3, FS_RemoveElement
    <2>2. Cardinality(Numbered) <= Cardinality(Evaluations \ {e})
      BY <1>1, <1>3, <2>1, FS_Subset
    <2> QED
      BY <1>2, <2>1, <2>2, SizeFacts
  <1> QED
    BY <1>2, <1>3

LEMMA InitConsent == Init => ConsentInv
  <1> SUFFICES ASSUME Init PROVE ConsentInv
    OBVIOUS
  <1>1. Numbered = {}
    BY DEF Init, Numbered
  <1>2. nextId \in Ids /\ 0 \in Nat /\ Counted(nextId, 0)
    <2>1. nextId \in Ids /\ nextId \in Nat /\ nextId < IdSpace
      BY SizeFacts DEF Init, Ids
    <2>2. nextId = Wrap(nextId + 0)
      BY <2>1 DEF Wrap
    <2>3. 0 <= Cardinality(Numbered) + (IF PastZero(nextId, 0) THEN 1 ELSE 0)
      BY NumberedFacts
    <2> QED
      BY <1>1, <2>1, <2>2, <2>3 DEF Counted
  <1>3. IdsAreDistinct
    BY <1>1 DEF IdsAreDistinct
  <1>4. SentWasAsked
    BY DEF Init, SentWasAsked
  <1> QED
    BY <1>2, <1>3, <1>4, InitSender DEF ConsentInv

\* An id is taken that no evaluation has.
LEMMA TakeIdCounts ==
    ASSUME ConsentInv, NEW e \in Evaluations, TakeId(e)
    PROVE  /\ IdsAreDistinct'
           /\ \E s \in Ids, k \in Nat : Counted(s, k)'
  <1>0. Typed /\ IdsAreDistinct /\ pc[e] = "idle" /\ e \notin Numbered
    BY DEF ConsentInv, SenderInv, TakeId, Numbered
  <1>1. PICK s \in Ids, k \in Nat : Counted(s, k)
    BY DEF ConsentInv
  <1>2. /\ s \in Nat /\ s < IdSpace /\ IdSpace \in Nat
        /\ k < IdSpace
        /\ nextId \in Ids /\ nextId = Wrap(s + k)
    <2>1. Cardinality(Numbered) < Cardinality(Evaluations) /\ Cardinality(Numbered) \in Nat
      BY <1>0, NumberedFacts
    <2>2. k <= Cardinality(Numbered) + 1
      BY <1>1, <2>1 DEF Counted
    <2> QED
      BY <1>0, <1>1, <2>1, <2>2, SizeFacts DEF Ids, Typed, Counted
  <1>3. \A o \in 0..(k - 1) : Wrap(s + o) # nextId
    BY <1>2 DEF Wrap
  <1>4. nextId' = Wrap(s + (k + 1))
    <2>1. nextId' = IF nextId + 1 = IdSpace THEN 0 ELSE nextId + 1
      BY <1>2, NextIdFacts DEF TakeId
    <2> QED
      BY <1>2, <2>1 DEF Wrap
  <1>5. id'[e] = nextId /\ \A f \in Evaluations : f # e => id'[f] = id[f] /\ pc'[f] = pc[f]
    BY <1>0 DEF TakeId, Typed
  <1>6. \A f \in Numbered : \E o \in 0..((k + 1) - 1) : id'[f] = Wrap(s + o)
    <2> SUFFICES ASSUME NEW f \in Numbered PROVE \E o \in 0..((k + 1) - 1) : id'[f] = Wrap(s + o)
      OBVIOUS
    <2>1. PICK o \in 0..(k - 1) : id[f] = Wrap(s + o)
      BY <1>1 DEF Counted
    <2>2. id'[f] = id[f]
      BY <1>0, <1>5 DEF Numbered
    <2> QED
      BY <2>1, <2>2
  <1>7. PastZero(s, k) => PastZero(s, k + 1)
    BY <1>2 DEF PastZero
  <1>8. CASE nextId = 0
    <2>1. Numbered' = Numbered
      BY <1>0, <1>8 DEF TakeId, Numbered, Typed
    <2>2. ~PastZero(s, k) /\ PastZero(s, k + 1)
      BY <1>2, <1>8 DEF PastZero, Wrap
    <2>3. k <= Cardinality(Numbered)
      BY <1>1, <2>2, NumberedFacts DEF Counted
    <2>4. Counted(s, k + 1)'
      BY <1>4, <1>6, <2>1, <2>2, <2>3, NumberedFacts DEF Counted
    <2>5. IdsAreDistinct'
      BY <1>0, <1>5, <2>1 DEF IdsAreDistinct, Numbered
    <2> QED
      BY <2>4, <2>5
  <1>9. CASE nextId # 0
    <2>1. Numbered' = Numbered \cup {e}
      BY <1>0, <1>9 DEF TakeId, Numbered, Typed
    <2>2. Cardinality(Numbered') = Cardinality(Numbered) + 1
      BY <1>0, <2>1, NumberedFacts, FS_AddElement
    <2>3. k + 1 <= Cardinality(Numbered') + (IF PastZero(s, k + 1) THEN 1 ELSE 0)
      BY <1>1, <1>7, <2>2, NumberedFacts DEF Counted
    <2>4. \A f \in Numbered' : \E o \in 0..((k + 1) - 1) : id'[f] = Wrap(s + o)
      <3>1. k \in 0..((k + 1) - 1) /\ id'[e] = Wrap(s + k)
        BY <1>2, <1>5
      <3> QED
        BY <1>6, <2>1, <3>1
    <2>5. Counted(s, k + 1)'
      BY <1>4, <2>3, <2>4 DEF Counted
    <2>6. \A f \in Numbered : f \in Evaluations /\ id'[f] = id[f] /\ id[f] # nextId
      BY <1>0, <1>1, <1>3, <1>5 DEF Counted, Numbered
    <2>7. IdsAreDistinct'
      BY <1>0, <1>5, <2>1, <2>6 DEF IdsAreDistinct
    <2> QED
      BY <2>5, <2>7
  <1> QED
    BY <1>8, <1>9

\* Every other step leaves the ids and their owners as they are.
LEMMA NumberedStays ==
    ASSUME ConsentInv, Next, \A e \in Evaluations : ~TakeId(e)
    PROVE  Numbered' = Numbered /\ UNCHANGED <<nextId, id>>
  <1>0. Typed /\ NothingLeft /\ IdsAreDistinct
    BY DEF ConsentInv, SenderInv
  <1>1. ASSUME NEW e \in Evaluations, register_server_policy_request(e)
        PROVE  Numbered' = Numbered /\ UNCHANGED <<nextId, id>>
    <2>1. id[e] \notin DOMAIN requests
      <3> SUFFICES ASSUME id[e] \in DOMAIN requests PROVE FALSE
        OBVIOUS
      <3>1. PICK f \in Evaluations : f = requests[id[e]]
        BY <1>0 DEF Typed
      <3>2. id[f] = id[e] /\ pc[f] \in {"calling", "awaiting", "leaving"} /\ pc[e] = "numbered"
        BY <1>0, <1>1, <3>1 DEF NothingLeft, register_server_policy_request
      <3>3. e \in Numbered /\ f \in Numbered /\ e # f
        BY <3>2 DEF Numbered
      <3> QED
        BY <1>0, <3>2, <3>3 DEF IdsAreDistinct
    <2> QED
      BY <1>0, <1>1, <2>1 DEF register_server_policy_request, Numbered, Typed
  <1>2. ASSUME NEW e \in Evaluations,
               \/ Unencodable(e) \/ Decided(e) \/ DropGuard(e) \/ DropFuture(e)
               \/ \E ok \in BOOLEAN : BeginReturns(e, ok)
        PROVE  Numbered' = Numbered /\ UNCHANGED <<nextId, id>>
    BY <1>0, <1>2 DEF Unencodable, Decided, DropGuard, DropFuture, BeginReturns, Numbered, Typed
  <1>3. ASSUME NEW t \in Threads,
               Send(t) \/ \E e \in Evaluations, d \in HostDecisions : Complete(t, e, d)
        PROVE  Numbered' = Numbered /\ UNCHANGED <<nextId, id>>
    <2>1. UNCHANGED <<nextId, id, pc>>
      BY <1>3, ZenonT(30) DEF Send, Complete
    <2> QED
      BY <2>1 DEF Numbered
  <1> QED
    BY <1>1, <1>2, <1>3 DEF Next, Evaluates

LEMMA AskedStep ==
    ASSUME ConsentInv, Next
    PROVE  SentWasAsked'
  <1>0. Typed /\ IdsAreDistinct /\ SentWasAsked /\ SenderInv
    BY DEF ConsentInv, SenderInv
  <1>1. ASSUME UNCHANGED <<thread, channel, asked>> PROVE SentWasAsked'
    BY <1>0, <1>1 DEF SentWasAsked
  <1>2. ASSUME NEW e \in Evaluations,
               \/ Evaluates(e) \/ DropFuture(e) \/ \E ok \in BOOLEAN : BeginReturns(e, ok)
        PROVE  SentWasAsked'
    <2>1. UNCHANGED <<thread, channel, asked>>
      BY <1>2 DEF Evaluates, Unencodable, TakeId, register_server_policy_request, Decided, DropGuard,
                  DropFuture, BeginReturns
    <2> QED
      BY <1>1, <2>1
  <1>3. ASSUME NEW t \in Threads, NEW e \in Evaluations, NEW d \in HostDecisions, Complete(t, e, d)
        PROVE  SentWasAsked'
    <2>1. UNCHANGED channel /\ \A f \in Evaluations : asked[f] \subseteq asked'[f]
      BY <1>0, <1>3, ZenonT(30) DEF Complete, Typed
    <2>2. CASE UNCHANGED thread
      <3>1. \A u \in Threads : thread[u] # Idle => thread[u].decision \in asked'[thread[u].to]
        BY <1>0, <2>1 DEF SentWasAsked, Typed
      <3>2. \A g \in Evaluations : channel[g] # NoDecision => channel[g] \in asked'[g]
        BY <1>0, <2>1 DEF SentWasAsked
      <3> QED
        BY <2>1, <2>2, <3>1, <3>2 DEF SentWasAsked
    <2>3. CASE ~UNCHANGED thread
      <3>0. PICK f \in Evaluations : TakesSender(t, e, d, f)
        BY <1>0, <1>3, <2>3, CompleteFacts
      <3>1. /\ Valid(id[e], d) /\ id[f] = id[e]
            /\ pc[f] \in {"calling", "awaiting", "leaving"}
            /\ thread' = [thread EXCEPT ![t] = [to |-> f, decision |-> Meant(d)]]
        BY <3>0 DEF TakesSender
      <3>2. e \in Numbered /\ f \in Numbered
        BY <1>3, <3>1 DEF Complete, Told, Numbered
      <3>3. f = e
        BY <1>0, <3>1, <3>2 DEF IdsAreDistinct
      <3>4. Meant(d) \in asked'[e]
        BY <1>0, <1>3, <3>1 DEF Complete, Typed
      <3>5. \A u \in Threads : thread'[u] = IF u = t THEN [to |-> f, decision |-> Meant(d)] ELSE thread[u]
        BY <1>0, <3>1 DEF Typed
      <3>6. thread'[t].to = e /\ thread'[t].decision = Meant(d)
        BY <3>3, <3>5
      <3>7. \A u \in Threads : u # t /\ thread'[u] # Idle => thread'[u].decision \in asked'[thread'[u].to]
        <4> SUFFICES ASSUME NEW u \in Threads, u # t, thread'[u] # Idle
                     PROVE  thread'[u].decision \in asked'[thread'[u].to]
          OBVIOUS
        <4>1. thread'[u] = thread[u] /\ thread[u] # Idle
          BY <3>5
        <4>2. thread[u].to \in Evaluations /\ thread[u].decision \in asked[thread[u].to]
          BY <1>0, <4>1 DEF Typed, SentWasAsked
        <4> QED
          BY <2>1, <4>1, <4>2
      <3>8. \A g \in Evaluations : channel'[g] # NoDecision => channel'[g] \in asked'[g]
        BY <1>0, <2>1 DEF SentWasAsked
      <3> QED
        BY <3>4, <3>6, <3>7, <3>8 DEF SentWasAsked
    <2> QED
      BY <2>2, <2>3
  <1>4. ASSUME NEW t \in Threads, Send(t) PROVE SentWasAsked'
    <2>1. PICK f \in Evaluations : f = thread[t].to /\ thread[t].decision \in asked[f]
      BY <1>0, <1>4 DEF Send, Typed, SentWasAsked
    <2>2. /\ UNCHANGED asked
          /\ \A u \in Threads : thread'[u] = IF u = t THEN Idle ELSE thread[u]
          /\ \A g \in Evaluations : channel'[g] = channel[g] \/ (g = f /\ channel'[g] = thread[t].decision)
      BY <1>0, <1>4, <2>1 DEF Send, Typed
    <2> QED
      BY <1>0, <2>1, <2>2 DEF SentWasAsked
  <1> QED
    BY <1>2, <1>3, <1>4 DEF Next

LEMMA ConsentStep == ConsentInv /\ [Next]_vars => ConsentInv'
  <1> SUFFICES ASSUME ConsentInv, [Next]_vars PROVE ConsentInv'
    OBVIOUS
  <1>1. SenderInv'
    BY SenderStep DEF ConsentInv
  <1>2. ASSUME Numbered' = Numbered, UNCHANGED <<nextId, id>>
        PROVE  IdsAreDistinct' /\ \E s \in Ids, k \in Nat : Counted(s, k)'
    <2>1. PICK s \in Ids, k \in Nat : Counted(s, k)
      BY DEF ConsentInv
    <2>2. Counted(s, k)'
      BY <1>2, <2>1 DEF Counted
    <2>3. IdsAreDistinct'
      BY <1>2 DEF ConsentInv, IdsAreDistinct
    <2> QED
      BY <2>2, <2>3
  <1>3. CASE Next
    <2>1. IdsAreDistinct' /\ \E s \in Ids, k \in Nat : Counted(s, k)'
      BY <1>2, <1>3, TakeIdCounts, NumberedStays
    <2> QED
      BY <1>1, <1>3, <2>1, AskedStep DEF ConsentInv, Ids
  <1>4. CASE UNCHANGED vars
    <2>1. Numbered' = Numbered /\ UNCHANGED <<nextId, id>> /\ SentWasAsked'
      BY <1>4 DEF vars, Numbered, ConsentInv, SentWasAsked
    <2> QED
      BY <1>1, <1>2, <2>1 DEF ConsentInv, Ids
  <1> QED
    BY <1>3, <1>4

\* A session is let in only with the consent of the host: an accept that it passed,
\* for this very request, to a nnrp_server_policy_complete whose checks it met.
THEOREM AdmissionsAreConsented == Spec => []AdmissionNeedsConsent
  <1>1. ConsentInv => AdmissionNeedsConsent
    <2> SUFFICES ASSUME ConsentInv, NEW e \in Evaluations, outcome[e].accepted PROVE accept \in asked[e]
      BY DEF AdmissionNeedsConsent
    <2>1. outcome[e] = accept
      BY DecisionFacts DEF ConsentInv, SenderInv, Typed, Answers
    <2>2. channel[e] = accept /\ accept # NoDecision
      BY <2>1, DecisionFacts, ZenonT(30) DEF ConsentInv, SenderInv, HeardIsHonoured
    <2> QED
      BY <2>2 DEF ConsentInv, SentWasAsked
  <1> QED
    BY <1>1, InitConsent, ConsentStep, PTL DEF Spec

-----------------------------------------------------------------------------

\* Both together: what the host is answered and what the session gets agree.
THEOREM TheHostDecides == Spec => []HostDecides
  <1>1. AdmissionNeedsConsent /\ OkDecides => HostDecides
    BY DEF HostDecides
  <1> QED BY <1>1, OkIsDecisive, AdmissionsAreConsented, PTL
=============================================================================
