----------------------- MODULE SessionRegistryProofs -----------------------
(***************************************************************************)
(* Proofs about SessionRegistry, for any number of connections, session    *)
(* ids, operations and tokens, and any resume window.                      *)
(***************************************************************************)
EXTENDS SessionRegistry, TLAPS

\* The provers each step is tried with in turn, and the time they have.
USE SMTT(30), ZenonT(20), Z3T(30)

Opening == {"decided", "registered", "acked"}

\* A task that is opening a session has an id for it, and only a task that is
\* opening one remembers a token.
OpeningHasId ==
    \A c \in Connections :
        /\ serve[c].at \in Opening => serve[c].id \in RegistryIds
        /\ serve[c].at \notin Opening => serve[c].presented = 0
        /\ serve[c].token # 0 => serve[c].resumeEnabled

\* An active record is owned: the connection that inserted it has the id among
\* connection_session_ids and its task still runs, so its end will find the id.
ActiveIsOwned ==
    \A i \in RegistryIds :
        registry[i].active => /\ registry[i].nonce \in Connections
                              /\ i \in owned[registry[i].nonce]
                              /\ serve[registry[i].nonce].at # "ended"

\* A record's token went out in an ack for the record's id; the token is written
\* to the client before it is stored.
StoredTokensIssued ==
    /\ \A i \in RegistryIds : registry[i].token # 0 => <<i, registry[i].token>> \in tickets
    /\ \A c \in Connections :
         serve[c].at = "acked" /\ serve[c].token # 0 => <<serve[c].id, serve[c].token>> \in tickets

IInv ==
    /\ TypeOK
    /\ OpeningHasId
    /\ ActiveIsOwned
    /\ StoredTokensIssued
    /\ TokensAreSessionBound

USE ConnectionsAssumption, BoundsAssumption

\* The records that operators of the module return are records.
LEMMA NoRecordType == NoRecord \in Records
  BY DEF NoRecord, Records

LEMMA IdleType == \A place \in Places : Idle(place) \in Tasks
  BY DEF Idle, Tasks

LEMMA RetainedFacts ==
    ASSUME IInv, NEW clock
    PROVE  /\ Retained(clock) \in [RegistryIds -> Records]
           /\ \A i \in RegistryIds : Retained(clock)[i] = registry[i] \/ Retained(clock)[i] = NoRecord
  BY NoRecordType DEF Retained, IInv, TypeOK

\* What marking a connection's sessions inactive does to one record.
LEMMA InactiveFacts ==
    ASSUME NEW records \in [RegistryIds -> Records], NEW c \in Connections, NEW ids,
           \A i \in RegistryIds : records[i].nonce = 0 => records[i] = NoRecord
    PROVE  /\ InactiveSessions(records, c, ids) \in [RegistryIds -> Records]
           /\ \A i \in RegistryIds :
                /\ InactiveSessions(records, c, ids)[i].nonce = 0
                     => InactiveSessions(records, c, ids)[i] = NoRecord
                /\ ~(i \in ids /\ records[i].nonce = c)
                     => InactiveSessions(records, c, ids)[i] = records[i]
                /\ i \in ids /\ records[i].nonce = c
                     => ~InactiveSessions(records, c, ids)[i].active
                /\ InactiveSessions(records, c, ids)[i].token \in {0, records[i].token}
  <1>1. \A r \in Records : Deactivated(r) \in Records
    BY NoRecordType, ZenonT(30) DEF Deactivated, Records
  <1>2. \A r \in Records : /\ ~Deactivated(r).active
                           /\ Deactivated(r).token \in {0, r.token}
                           /\ Deactivated(r) = NoRecord \/ Deactivated(r).nonce = r.nonce
    BY DEF Deactivated, Records, NoRecord
  <1>3. \A i \in RegistryIds : InactiveSessions(records, c, ids)[i] =
            IF i \in ids /\ records[i].nonce = c THEN Deactivated(records[i]) ELSE records[i]
    BY DEF InactiveSessions
  <1>4. InactiveSessions(records, c, ids) \in [RegistryIds -> Records]
    BY <1>1 DEF InactiveSessions
  <1>5. c # 0
    OBVIOUS
  <1> QED BY <1>2, <1>3, <1>4, <1>5

LEMMA InitIInv == Init => IInv
  BY NoRecordType, IdleType
  DEF Init, IInv, TypeOK, OpeningHasId, ActiveIsOwned, StoredTokensIssued,
      TokensAreSessionBound, Idle, NoRecord, Places, Opening

-----------------------------------------------------------------------------

\* The first locked section: the id it settles on can be used, and a session is
\* resumed only by the token its record holds.
LEMMA AcceptKeepsIInv ==
    ASSUME IInv, NEW c \in Connections, NEW requested \in 0..MaxSessionId,
           NEW id \in RegistryIds, NEW token \in 0..MaxToken,
           NEW allowResume \in BOOLEAN, NEW clock \in now..MaxTime,
           AcceptOpen(c, requested, token, allowResume, id, clock)
    PROVE  IInv'
  <1> DEFINE task == [at |-> "decided", id |-> id, resumeEnabled |-> allowResume,
                      token |-> IF allowResume THEN nextToken ELSE 0,
                      decidedAt |-> clock,
                      prior |-> IF token # 0 THEN Retained(clock)[id].lastOperation ELSE 0,
                      presented |-> token]
  <1>1. /\ serve[c].at = "serving"
        /\ token # 0 => allowResume /\ requested # 0
        /\ Decides(Retained(clock), requested, token, id, clock)
        /\ registry' = Retained(clock)
        /\ serve' = [serve EXCEPT ![c] = task]
        /\ nextToken' \in {nextToken, nextToken + 1}
        /\ now' = clock
        /\ UNCHANGED <<owned, transports, handles, closing, listening, tickets>>
    BY DEF AcceptOpen
  <1>0. clock \in Nat
    BY BoundsAssumption DEF IInv, TypeOK
  <1>2. /\ Retained(clock) \in [RegistryIds -> Records]
        /\ \A i \in RegistryIds : Retained(clock)[i] = registry[i] \/ Retained(clock)[i] = NoRecord
    BY RetainedFacts
  <1>3. id # 0
    BY DEF RegistryIds
  <1>4. task \in Tasks
    <2>1. Retained(clock)[id].lastOperation \in Nat
      BY <1>2 DEF Records
    <2> QED BY <1>0, <2>1 DEF Tasks, Places, IInv, TypeOK, RegistryIds
  <1>5. token # 0 => <<id, token>> \in tickets
    <2>1. token # 0 => Retained(clock)[id].token = token
      BY <1>1, <1>3 DEF Decides, MayResume
    <2> QED BY <2>1, <1>2, <1>3 DEF IInv, StoredTokensIssued, NoRecord
  <1>6. /\ task.at = "decided" /\ task.id = id /\ task.presented = token
        /\ task.resumeEnabled = allowResume
        /\ task.token # 0 => allowResume
    OBVIOUS
  <1> HIDE DEF task
  <1>7. TypeOK'
    BY <1>0, <1>1, <1>2, <1>4 DEF IInv, TypeOK, NoRecord
  <1>8. OpeningHasId'
    BY <1>1, <1>3, <1>6 DEF IInv, TypeOK, OpeningHasId, Opening
  <1>9. ActiveIsOwned'
    BY <1>1, <1>2, <1>6 DEF IInv, TypeOK, ActiveIsOwned, NoRecord
  <1>10. StoredTokensIssued'
    BY <1>1, <1>2, <1>6 DEF IInv, TypeOK, StoredTokensIssued, NoRecord
  <1>11. TokensAreSessionBound'
    BY <1>1, <1>5, <1>6 DEF IInv, TypeOK, TokensAreSessionBound
  <1> QED BY <1>7, <1>8, <1>9, <1>10, <1>11 DEF IInv

\* A refused open only purges the registry.
LEMMA RefuseKeepsIInv ==
    ASSUME IInv, NEW c \in Connections, NEW clock \in now..MaxTime, RefuseOpen(c, clock)
    PROVE  IInv'
  <1>1. /\ registry' = Retained(clock) /\ now' = clock /\ clock \in Nat
        /\ UNCHANGED <<serve, owned, transports, handles, closing, listening, tickets, nextToken>>
    BY BoundsAssumption DEF RefuseOpen, IInv, TypeOK
  <1>2. /\ Retained(clock) \in [RegistryIds -> Records]
        /\ \A i \in RegistryIds : Retained(clock)[i] = registry[i] \/ Retained(clock)[i] = NoRecord
    BY <1>1, RetainedFacts
  <1>3. TypeOK'
    BY <1>1, <1>2 DEF IInv, TypeOK, NoRecord
  <1>4. OpeningHasId' /\ TokensAreSessionBound'
    BY <1>1 DEF IInv, OpeningHasId, TokensAreSessionBound
  <1>5. ActiveIsOwned' /\ StoredTokensIssued'
    BY <1>1, <1>2 DEF IInv, ActiveIsOwned, StoredTokensIssued, NoRecord
  <1> QED BY <1>3, <1>4, <1>5 DEF IInv

\* hello, register_session and the ack only move the task on.
LEMMA AwaitsKeepIInv ==
    ASSUME IInv, NEW c \in Connections, Hello(c) \/ RegisterTransport(c) \/ WriteAck(c)
    PROVE  IInv'
  <1> USE DEF IInv, TypeOK, OpeningHasId, ActiveIsOwned, StoredTokensIssued,
              TokensAreSessionBound, Opening
  <1>1. CASE Hello(c)
    BY <1>1, IdleType DEF Hello, Idle, Places
  <1>2. CASE RegisterTransport(c)
    BY <1>2 DEF RegisterTransport, Tasks, Places
  <1>3. CASE WriteAck(c)
    BY <1>3 DEF WriteAck, Tasks, Places
  <1> QED BY <1>1, <1>2, <1>3

\* The second locked section overwrites whatever the id held.
LEMMA InsertKeepsIInv ==
    ASSUME IInv, NEW c \in Connections, InsertRecord(c)
    PROVE  IInv'
  <1> DEFINE i0 == serve[c].id
  <1>1. serve[c] \in Tasks /\ serve[c].at = "acked" /\ i0 \in RegistryIds
    BY DEF IInv, TypeOK, OpeningHasId, Opening, InsertRecord
  <1>2. NewRecord(c) \in Records /\ NewRecord(c).nonce = c /\ NewRecord(c).token = serve[c].token
    BY <1>1 DEF NewRecord, Records, Tasks
  <1>3. /\ registry' = [registry EXCEPT ![i0] = NewRecord(c)]
        /\ handles' = handles \cup {<<c, i0>>}
        /\ owned' = [owned EXCEPT ![c] = @ \cup {i0}]
        /\ serve' = [serve EXCEPT ![c] = Idle("serving")]
        /\ UNCHANGED <<transports, closing, listening, tickets, nextToken, now>>
    BY DEF InsertRecord, OwnedAfterInsert
  <1>4. Idle("serving") \in Tasks /\ Idle("serving").at = "serving"
        /\ Idle("serving").presented = 0 /\ Idle("serving").token = 0
    BY IdleType DEF Idle, Places
  <1> HIDE DEF i0
  <1>5. TypeOK'
    BY <1>1, <1>2, <1>3, <1>4 DEF IInv, TypeOK
  <1>6. OpeningHasId' /\ TokensAreSessionBound'
    BY <1>3, <1>4 DEF IInv, TypeOK, OpeningHasId, TokensAreSessionBound, Opening
  <1>7. ActiveIsOwned'
    BY <1>1, <1>2, <1>3, <1>4 DEF IInv, TypeOK, ActiveIsOwned
  <1>8. StoredTokensIssued'
    BY <1>1, <1>2, <1>3, <1>4 DEF IInv, TypeOK, StoredTokensIssued, i0
  <1> QED BY <1>5, <1>6, <1>7, <1>8 DEF IInv

\* A task ends: the registry it leaves has no active record of its own.
LEMMA TaskEndKeepsIInv ==
    ASSUME IInv, NEW c \in Connections, TaskEnds(c), registry' \in [RegistryIds -> Records],
           UNCHANGED <<handles, closing, listening, tickets, nextToken, now>>,
           \A i \in RegistryIds :
              /\ registry'[i].nonce = 0 => registry'[i] = NoRecord
              /\ registry'[i].active => registry'[i] = registry[i] /\ registry[i].nonce # c
              /\ registry'[i].token # 0 => <<i, registry'[i].token>> \in tickets
    PROVE  IInv'
  <1>1. Idle("ended") \in Tasks /\ Idle("ended").at = "ended"
        /\ Idle("ended").presented = 0 /\ Idle("ended").token = 0
    BY IdleType DEF Idle, Places
  <1> USE DEF TaskEnds
  <1>2. TypeOK'
    BY <1>1, ZenonT(30) DEF IInv, TypeOK
  <1>3. OpeningHasId' /\ TokensAreSessionBound'
    BY <1>1 DEF IInv, TypeOK, OpeningHasId, TokensAreSessionBound, Opening
  <1>4. ActiveIsOwned'
    BY <1>1, ZenonT(30) DEF IInv, TypeOK, ActiveIsOwned
  <1>5. StoredTokensIssued'
    BY <1>1 DEF IInv, TypeOK, StoredTokensIssued
  <1> QED BY <1>2, <1>3, <1>4, <1>5 DEF IInv

LEMMA ServeFailsKeepsIInv ==
    ASSUME IInv, NEW c \in Connections, ServeFails(c)
    PROVE  IInv'
  <1>1. /\ registry' = InactiveSessions(registry, c, owned[c])
        /\ TaskEnds(c)
        /\ UNCHANGED <<handles, closing, listening, tickets, nextToken, now>>
    BY DEF ServeFails
  <1>2. /\ registry \in [RegistryIds -> Records]
        /\ \A i \in RegistryIds : registry[i].nonce = 0 => registry[i] = NoRecord
    BY DEF IInv, TypeOK
  <1>3. /\ registry' \in [RegistryIds -> Records]
        /\ \A i \in RegistryIds :
             /\ registry'[i].nonce = 0 => registry'[i] = NoRecord
             /\ ~(i \in owned[c] /\ registry[i].nonce = c) => registry'[i] = registry[i]
             /\ i \in owned[c] /\ registry[i].nonce = c => ~registry'[i].active
             /\ registry'[i].token \in {0, registry[i].token}
    BY <1>1, <1>2, InactiveFacts
  <1>4. \A i \in RegistryIds :
          registry'[i].active => registry'[i] = registry[i] /\ registry[i].nonce # c
    BY <1>3 DEF IInv, ActiveIsOwned
  <1>5. \A i \in RegistryIds : registry'[i].token # 0 => <<i, registry'[i].token>> \in tickets
    BY <1>3 DEF IInv, StoredTokensIssued
  <1> QED BY <1>1, <1>3, <1>4, <1>5, TaskEndKeepsIInv

LEMMA InsertRefusedKeepsIInv ==
    ASSUME IInv, NEW c \in Connections, InsertRefused(c)
    PROVE  IInv'
  <1> DEFINE i0 == serve[c].id
             inserted == [registry EXCEPT ![i0] = NewRecord(c)]
             marked == InactiveSessions(inserted, c, {i0})
  <1>1. serve[c] \in Tasks /\ serve[c].at = "acked" /\ i0 \in RegistryIds
    BY DEF IInv, TypeOK, OpeningHasId, Opening, InsertRefused
  <1>2. NewRecord(c) \in Records /\ NewRecord(c).nonce = c /\ NewRecord(c).token = serve[c].token
    BY <1>1 DEF NewRecord, Records, Tasks
  <1>3. /\ registry' = InactiveSessions(marked, c, owned[c])
        /\ TaskEnds(c)
        /\ UNCHANGED <<handles, closing, listening, tickets, nextToken, now>>
    BY DEF InsertRefused
  <1>4. serve[c].token # 0 => <<i0, serve[c].token>> \in tickets
    BY <1>1 DEF IInv, StoredTokensIssued
  <1> HIDE DEF i0
  <1>5. /\ inserted \in [RegistryIds -> Records]
        /\ inserted[i0] = NewRecord(c)
        /\ \A i \in RegistryIds : i # i0 => inserted[i] = registry[i]
        /\ \A i \in RegistryIds : inserted[i].nonce = 0 => inserted[i] = NoRecord
    BY <1>1, <1>2 DEF IInv, TypeOK
  <1> HIDE DEF inserted
  <1>6. /\ marked \in [RegistryIds -> Records]
        /\ \A i \in RegistryIds :
             /\ marked[i].nonce = 0 => marked[i] = NoRecord
             /\ i # i0 => marked[i] = inserted[i]
             /\ i = i0 => ~marked[i].active
             /\ marked[i].token \in {0, inserted[i].token}
    BY <1>2, <1>5, InactiveFacts
  <1> HIDE DEF marked
  <1>7. /\ registry' \in [RegistryIds -> Records]
        /\ \A i \in RegistryIds :
             /\ registry'[i].nonce = 0 => registry'[i] = NoRecord
             /\ ~(i \in owned[c] /\ marked[i].nonce = c) => registry'[i] = marked[i]
             /\ i \in owned[c] /\ marked[i].nonce = c => ~registry'[i].active
             /\ registry'[i].token \in {0, marked[i].token}
    <2>1. registry' = InactiveSessions(marked, c, owned[c])
      BY <1>3
    <2>2. /\ marked \in [RegistryIds -> Records]
          /\ \A i \in RegistryIds : marked[i].nonce = 0 => marked[i] = NoRecord
      BY <1>6
    <2> DEFINE left == InactiveSessions(marked, c, owned[c])
    <2>3. /\ left \in [RegistryIds -> Records]
          /\ \A i \in RegistryIds :
               /\ left[i].nonce = 0 => left[i] = NoRecord
               /\ ~(i \in owned[c] /\ marked[i].nonce = c) => left[i] = marked[i]
               /\ i \in owned[c] /\ marked[i].nonce = c => ~left[i].active
               /\ left[i].token \in {0, marked[i].token}
      BY <2>2, InactiveFacts
    <2> HIDE DEF left
    <2> QED BY <2>1, <2>3 DEF left
  <1>8. \A i \in RegistryIds :
          registry'[i].active => registry'[i] = registry[i] /\ registry[i].nonce # c
    BY <1>5, <1>6, <1>7 DEF IInv, ActiveIsOwned
  <1>9. \A i \in RegistryIds : registry'[i].token # 0 => <<i, registry'[i].token>> \in tickets
    BY <1>2, <1>4, <1>5, <1>6, <1>7 DEF IInv, StoredTokensIssued
  <1> QED BY <1>3, <1>7, <1>8, <1>9, TaskEndKeepsIInv

\* What the application does with a handle.
LEMMA HandleKeepsIInv ==
    ASSUME IInv, NEW c \in Connections, NEW i \in RegistryIds, HandleNext(c, i)
    PROVE  IInv'
  <1>1. ASSUME NEW operation \in Operations, Submit(c, i, operation)
        PROVE  IInv'
    <2> DEFINE r == [registry[i] EXCEPT !.lastOperation = operation]
    <2>1. /\ registry' = [registry EXCEPT ![i] = r]
          /\ registry[i].nonce # 0
          /\ UNCHANGED <<serve, owned, transports, handles, closing, listening, tickets, nextToken, now>>
      BY <1>1 DEF Submit, IInv, TypeOK
    <2>2. /\ r \in Records
          /\ r.nonce = registry[i].nonce /\ r.active = registry[i].active
          /\ r.token = registry[i].token
      BY DEF Records, IInv, TypeOK
    <2> HIDE DEF r
    <2> QED BY <2>1, <2>2 DEF IInv, TypeOK, OpeningHasId, ActiveIsOwned, StoredTokensIssued,
                              TokensAreSessionBound
  <1>2. CASE CloseHandle(c, i)
    <2>1. /\ registry' = registry \/ registry' = [registry EXCEPT ![i] = NoRecord]
          /\ handles' \subseteq handles
          /\ closing' = closing \cup {<<c, i>>}
          /\ UNCHANGED <<serve, owned, transports, listening, tickets, nextToken, now>>
      BY <1>2 DEF CloseHandle, RemovedFromRegistry
    <2>2. NoRecord.nonce = 0 /\ NoRecord.token = 0 /\ ~NoRecord.active
      BY DEF NoRecord
    <2>3. /\ registry' \in [RegistryIds -> Records]
          /\ \A j \in RegistryIds : registry'[j] = registry[j] \/ registry'[j] = NoRecord
      BY <2>1, NoRecordType DEF IInv, TypeOK
    <2>4. TypeOK'
      BY <2>1, <2>3 DEF IInv, TypeOK
    <2>5. OpeningHasId' /\ TokensAreSessionBound'
      BY <2>1 DEF IInv, OpeningHasId, TokensAreSessionBound
    <2>6. ActiveIsOwned' /\ StoredTokensIssued'
      BY <2>1, <2>2, <2>3 DEF IInv, ActiveIsOwned, StoredTokensIssued
    <2> QED BY <2>4, <2>5, <2>6 DEF IInv
  <1>3. CASE DropHandle(c, i)
    BY <1>3 DEF DropHandle, IInv, TypeOK, OpeningHasId, ActiveIsOwned, StoredTokensIssued,
                TokensAreSessionBound
  <1>4. CASE UnregisterClosed(c, i)
    BY <1>4 DEF UnregisterClosed, IInv, TypeOK, OpeningHasId, ActiveIsOwned, StoredTokensIssued,
                TokensAreSessionBound
  <1> QED BY <1>1, <1>2, <1>3, <1>4 DEF HandleNext

LEMMA StepIInv == IInv /\ [Next]_vars => IInv'
  <1> SUFFICES ASSUME IInv, [Next]_vars PROVE IInv'
    OBVIOUS
  <1> USE DEF OpeningHasId, ActiveIsOwned, StoredTokensIssued, TokensAreSessionBound
  <1>1. ASSUME NEW c \in Connections, ServeNext(c) PROVE IInv'
    BY <1>1, AcceptKeepsIInv, RefuseKeepsIInv, AwaitsKeepIInv, InsertKeepsIInv, InsertRefusedKeepsIInv,
       ServeFailsKeepsIInv DEF ServeNext
  <1>2. ASSUME NEW c \in Connections, NEW i \in RegistryIds, HandleNext(c, i) PROVE IInv'
    BY <1>2, HandleKeepsIInv
  <1>3. CASE StopListening
    BY <1>3, ZenonT(30) DEF StopListening, IInv, TypeOK
  <1>4. CASE UNCHANGED vars
    BY <1>4 DEF vars, IInv, TypeOK
  <1> QED BY <1>1, <1>2, <1>3, <1>4 DEF Next

LEMMA InductiveInvariant == Spec => []IInv
  BY InitIInv, StepIInv, PTL DEF Spec

\* Every record and every task is well formed.
THEOREM TypeCorrect == Spec => []TypeOK
  <1>1. IInv => TypeOK
    BY DEF IInv
  <1> QED BY <1>1, InductiveInvariant, PTL

\* No session stays active after the task of its connection ended.
THEOREM ActiveSessionsHaveConnections == Spec => []ActiveOnLiveConnection
  <1>1. IInv => ActiveOnLiveConnection
    BY DEF IInv, ActiveIsOwned, ActiveOnLiveConnection
  <1> QED BY <1>1, InductiveInvariant, PTL

\* A session is resumed only by a token issued for it.
THEOREM ResumeTokensAreSessionBound == Spec => []TokensAreSessionBound
  <1>1. IInv => TokensAreSessionBound
    BY DEF IInv
  <1> QED BY <1>1, InductiveInvariant, PTL

\* A teardown ends only its own sessions, apart from the insert that takes an id
\* over: the nonce decides in remove_from_registry and in
\* mark_connection_sessions_inactive.
THEOREM TeardownsAreOwn == Spec => TeardownIsOwn
  <1> DEFINE Own(i) ==
               (/\ registry[i].active
                /\ ~registry'[i].active)
               => \/ /\ serve[registry[i].nonce].at # "ended"
                     /\ serve'[registry[i].nonce].at = "ended"
                  \/ /\ <<registry[i].nonce, i>> \in handles
                     /\ <<registry[i].nonce, i>> \notin handles'
                  \/ InsertedNow(i)
  <1>1. ASSUME IInv, [Next]_vars PROVE [\A i \in RegistryIds : Own(i)]_vars
    <2> SUFFICES ASSUME Next, NEW i \in RegistryIds, registry[i].active, ~registry'[i].active
                 PROVE  Own(i)
      BY <1>1
    <2>0. /\ registry \in [RegistryIds -> Records]
          /\ \A j \in RegistryIds : registry[j].nonce = 0 => registry[j] = NoRecord
          /\ serve \in [Connections -> Tasks]
          /\ registry[i].nonce \in Connections
          /\ i \in owned[registry[i].nonce]
          /\ serve[registry[i].nonce].at # "ended"
      BY <1>1 DEF IInv, TypeOK, ActiveIsOwned
    <2>1. ASSUME NEW c \in Connections, ServeNext(c) PROVE Own(i)
      <3>1. CASE \/ \E requested \in 0..MaxSessionId, id \in RegistryIds, token \in 0..MaxToken,
                       allowResume \in BOOLEAN, clock \in now..MaxTime :
                       AcceptOpen(c, requested, token, allowResume, id, clock)
                 \/ \E clock \in now..MaxTime : RefuseOpen(c, clock)
        BY <3>1 DEF AcceptOpen, RefuseOpen, Retained
      <3>2. CASE Hello(c) \/ RegisterTransport(c) \/ WriteAck(c)
        BY <3>2 DEF Hello, RegisterTransport, WriteAck
      <3>3. CASE InsertRecord(c)
        <4>1. registry' = [registry EXCEPT ![serve[c].id] = NewRecord(c)]
          BY <3>3 DEF InsertRecord
        <4>2. serve[c].id = i
          BY <2>0, <4>1
        <4>3. serve'[c].at # "acked"
          BY <2>0, <3>3 DEF InsertRecord, Idle
        <4> QED BY <4>2, <4>3, <3>3, ZenonT(30) DEF InsertRecord, InsertedNow
      <3>4. CASE InsertRefused(c)
        <4>1. serve'[c].at = "ended"
          BY <2>0, <3>4 DEF InsertRefused, TaskEnds, Idle
        <4>2. CASE serve[c].id = i
          BY <4>1, <4>2, <3>4, ZenonT(30) DEF InsertRefused, InsertedNow
        <4>3. CASE serve[c].id # i /\ registry[i].nonce = c
          BY <2>0, <4>1, <4>3
        <4>4. CASE serve[c].id # i /\ registry[i].nonce # c
          <5> DEFINE inserted == [registry EXCEPT ![serve[c].id] = NewRecord(c)]
                     marked == InactiveSessions(inserted, c, {serve[c].id})
          <5>1. inserted[i] = registry[i]
            BY <2>0, <4>4
          <5>2. marked[i] = inserted[i]
            BY <4>4 DEF InactiveSessions
          <5>3. registry'[i] = marked[i]
            BY <3>4, <4>4, <5>1, <5>2 DEF InsertRefused, InactiveSessions
          <5> QED BY <5>1, <5>2, <5>3
        <4> QED BY <4>2, <4>3, <4>4
      <3>5. CASE ServeFails(c)
        <4>1. serve'[c].at = "ended"
          BY <2>0, <3>5 DEF ServeFails, TaskEnds, Idle
        <4>2. registry[i].nonce = c
          BY <3>5 DEF ServeFails, InactiveSessions
        <4> QED BY <2>0, <4>1, <4>2
      <3> QED BY <2>1, <3>1, <3>2, <3>3, <3>4, <3>5 DEF ServeNext
    <2>2. ASSUME NEW c \in Connections, NEW j \in RegistryIds, HandleNext(c, j) PROVE Own(i)
      <3>1. ASSUME NEW operation \in Operations, Submit(c, j, operation) PROVE Own(i)
        <4>1. registry' = [registry EXCEPT ![j] = [registry[j] EXCEPT !.lastOperation = operation]]
          BY <2>0, <3>1 DEF Submit
        <4>2. [registry[j] EXCEPT !.lastOperation = operation].active = registry[j].active
          BY <2>0 DEF Records
        <4> QED BY <2>0, <4>1, <4>2
      <3>2. CASE CloseHandle(c, j)
        <4>1. registry[i].nonce = c /\ i = j
          BY <2>0, <3>2 DEF CloseHandle, RemovedFromRegistry
        <4> QED BY <4>1, <3>2 DEF CloseHandle
      <3>3. CASE DropHandle(c, j)
        BY <3>3 DEF DropHandle
      <3>4. CASE UnregisterClosed(c, j)
        BY <3>4 DEF UnregisterClosed
      <3> QED BY <2>2, <3>1, <3>2, <3>3, <3>4 DEF HandleNext
    <2>3. CASE StopListening
      BY <2>3 DEF StopListening
    <2> QED BY <2>1, <2>2, <2>3, ZenonT(30) DEF Next
  <1> QED BY <1>1, InductiveInvariant, PTL DEF Spec, TeardownIsOwn
=============================================================================
