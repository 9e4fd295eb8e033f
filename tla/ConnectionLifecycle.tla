------------------------ MODULE ConnectionLifecycle ------------------------
(***************************************************************************)
(* The connection and session states of nnrp-core                          *)
(* (crates/nnrp-core/src/lifecycle.rs): the BTreeMap `sessions` is the     *)
(* function session, whose value is "Absent" for an id that is not a key,  *)
(* and established_session_states is the function established.             *)
(*                                                                         *)
(* Only the states are modelled.  The profile, the schema and the limits   *)
(* copied from the ack, last_operation_id and the error code take part in  *)
(* no decision.  ConnectionLifecycleState::Closing is never assigned by    *)
(* the code.  A call that returns an error changes nothing and is a        *)
(* stuttering step.                                                        *)
(***************************************************************************)

LOCAL INSTANCE TLAPS

CONSTANT SessionIds    \* the non-zero session ids

VARIABLES
    connection,    \* ConnectionLifecycle.state
    session,       \* SessionLifecycle.state of each id
    established    \* the state the open ack gave the session

vars == <<connection, session, established>>

ActiveStates == {"Open", "Resumed"}

\* The states that accepts_session_scoped_messages admits.
OpenStates == ActiveStates \cup {"Closing", "Draining"}

Init ==
    /\ connection = "Open"
    /\ session = [s \in SessionIds |-> "Absent"]
    /\ established = [s \in SessionIds |-> "Absent"]

-----------------------------------------------------------------------------

CloseConnection ==
    /\ connection # "Closed"
    /\ connection' = "Closed"
    /\ session' = [s \in SessionIds |-> IF session[s] = "Absent" THEN "Absent" ELSE "Closed"]
    /\ UNCHANGED established

\* An ack with status Opened or Resumed; an ack that rejects carries no session
\* id and installs nothing.
ApplySessionOpenAck(s, status) ==
    /\ connection = "Open"
    /\ session[s] = "Absent"
    /\ session' = [session EXCEPT ![s] = status]
    /\ established' = [established EXCEPT ![s] = status]
    /\ UNCHANGED connection

\* SessionLifecycleState::accepts_new_operations is the condition.
BeginSessionClose(s) ==
    /\ connection = "Open"
    /\ session[s] \in ActiveStates
    /\ session' = [session EXCEPT ![s] = "Closing"]
    /\ UNCHANGED <<connection, established>>

CloseStatuses == {"Acknowledged", "Draining", "Closed", "Rejected"}

\* The state a SESSION_CLOSE_ACK leads to: a rejected close puts the session
\* back to the state it was established in.
CloseAckState(s, status) ==
    CASE status = "Acknowledged" -> "Closing"
      [] status = "Draining"     -> "Draining"
      [] status = "Closed"       -> "Closed"
      [] status = "Rejected"     -> established[s]

\* Mutant of ApplySessionCloseAck: a late ack is applied to a closed session.
ApplySessionCloseAck_AlsoClosed(s, status) ==
    /\ connection = "Open"
    /\ session[s] # "Absent"
    /\ session' = [session EXCEPT ![s] = CloseAckState(s, status)]
    /\ UNCHANGED <<connection, established>>

ApplySessionCloseAck(s, status) ==
    /\ connection = "Open"
    /\ session[s] \in OpenStates
    /\ session' = [session EXCEPT ![s] = CloseAckState(s, status)]
    /\ UNCHANGED <<connection, established>>

Next ==
    \/ CloseConnection
    \/ \E s \in SessionIds, status \in ActiveStates : ApplySessionOpenAck(s, status)
    \/ \E s \in SessionIds : BeginSessionClose(s)
    \/ \E s \in SessionIds, status \in CloseStatuses : ApplySessionCloseAck(s, status)

Spec == Init /\ [][Next]_vars

-----------------------------------------------------------------------------

\* Every state is one of the enum's, and an id is established exactly when the
\* map holds a session for it.
TypeOK ==
    /\ connection \in {"Open", "Closed"}
    /\ session \in [SessionIds -> OpenStates \cup {"Absent", "Closed"}]
    /\ established \in [SessionIds -> ActiveStates \cup {"Absent"}]
    /\ \A s \in SessionIds : established[s] = "Absent" <=> session[s] = "Absent"

\* A session that accepts operations is in the state its open ack gave it: a
\* resumed session whose close was acknowledged, drained and then rejected comes
\* back as Resumed, never as Open.
ActiveAsEstablished ==
    \A s \in SessionIds : session[s] \in ActiveStates => session[s] = established[s]

\* No session outlives its connection.
ClosedTogether ==
    connection = "Closed" => \A s \in SessionIds : session[s] \in {"Absent", "Closed"}

-----------------------------------------------------------------------------

\* The part of a session's state that the promise is about.
Life(state) == IF state = "Absent" THEN "absent" ELSE IF state = "Closed" THEN "ended" ELSE "live"

Promise == INSTANCE SessionPromise WITH
    carrier <- IF connection = "Closed" THEN "down" ELSE "up",
    life <- [s \in SessionIds |-> Life(session[s])]

\* The connection keeps the promise to its sessions: an id begins once and ends
\* once, and closing one session does not close its siblings.
KeepsPromise == Promise!Spec
-----------------------------------------------------------------------------
(* Proofs, for every set of session ids.                                   *)


\* The inductive invariant.  That a rejected close puts a session back into an
\* active state depends on the session having been established (TypeOK).
IInv == TypeOK /\ ActiveAsEstablished /\ ClosedTogether

LEMMA InitIInv == Init => IInv
  BY DEF Init, IInv, TypeOK, ActiveAsEstablished, ClosedTogether, OpenStates, ActiveStates

\* The state a close ack leads to, for a session that is established.
LEMMA CloseAckStateFacts ==
    ASSUME TypeOK, NEW s \in SessionIds, session[s] \in OpenStates, NEW status \in CloseStatuses
    PROVE  /\ CloseAckState(s, status) \in OpenStates \cup {"Closed"}
           /\ CloseAckState(s, status) \in ActiveStates => CloseAckState(s, status) = established[s]
  <1>1. established[s] \in ActiveStates
    BY DEF TypeOK, OpenStates, ActiveStates
  <1> QED BY <1>1 DEF CloseAckState, CloseStatuses, OpenStates, ActiveStates

LEMMA StepIInv == IInv /\ [Next]_vars => IInv'
  <1> SUFFICES ASSUME IInv, [Next]_vars PROVE IInv'
    OBVIOUS
  <1> USE DEF IInv, TypeOK, ActiveAsEstablished, ClosedTogether, OpenStates, ActiveStates
  <1>1. CASE CloseConnection
    BY <1>1 DEF CloseConnection
  <1>2. ASSUME NEW s \in SessionIds, NEW status \in ActiveStates, ApplySessionOpenAck(s, status)
        PROVE  IInv'
    BY <1>2 DEF ApplySessionOpenAck
  <1>3. ASSUME NEW s \in SessionIds, BeginSessionClose(s)
        PROVE  IInv'
    BY <1>3 DEF BeginSessionClose
  <1>4. ASSUME NEW s \in SessionIds, NEW status \in CloseStatuses, ApplySessionCloseAck(s, status)
        PROVE  IInv'
    <2> DEFINE next == CloseAckState(s, status)
    <2>1. next \in OpenStates \cup {"Closed"} /\ (next \in ActiveStates => next = established[s])
      BY <1>4, CloseAckStateFacts DEF ApplySessionCloseAck
    <2>2. /\ connection = "Open"
          /\ session[s] \in OpenStates
          /\ session' = [session EXCEPT ![s] = next]
          /\ UNCHANGED <<connection, established>>
      BY <1>4 DEF ApplySessionCloseAck
    <2> HIDE DEF next
    <2> QED BY <2>1, <2>2
  <1>5. CASE UNCHANGED vars
    BY <1>5 DEF vars
  <1> QED BY <1>1, <1>2, <1>3, <1>4, <1>5 DEF Next

LEMMA InductiveInvariant == Spec => []IInv
  BY InitIInv, StepIInv, PTL DEF Spec

\* Every session state is one of the enum's, and the two maps have the same keys.
THEOREM TypeCorrect == Spec => []TypeOK
  <1>1. IInv => TypeOK
    BY DEF IInv
  <1> QED BY <1>1, InductiveInvariant, PTL

\* However often a close is acknowledged, drained and rejected, an active session
\* is in the state in which its open ack established it.
THEOREM ActiveSessionsAsEstablished == Spec => []ActiveAsEstablished
  <1>1. IInv => ActiveAsEstablished
    BY DEF IInv
  <1> QED BY <1>1, InductiveInvariant, PTL

\* After close_connection no session is left open, and none can be opened.
THEOREM SessionsCloseWithConnection == Spec => []ClosedTogether
  <1>1. IInv => ClosedTogether
    BY DEF IInv
  <1> QED BY <1>1, InductiveInvariant, PTL

-----------------------------------------------------------------------------

LEMMA InitPromise == Init => Promise!Init
  BY DEF Init, Promise!Init, Life

\* Every call is a step of the promise or leaves what it speaks of unchanged.
LEMMA StepPromise ==
    ASSUME IInv, [Next]_vars
    PROVE  [Promise!Next]_(Promise!vars)
  <1> DEFINE life == [s \in SessionIds |-> Life(session[s])]
  <1> USE DEF IInv, TypeOK, OpenStates, ActiveStates, Life
  <1>1. CASE CloseConnection
    <2>1. Promise!EndAll
      BY <1>1 DEF CloseConnection, Promise!EndAll
    <2> QED BY <2>1 DEF Promise!Next
  <1>2. ASSUME NEW s \in SessionIds, NEW status \in ActiveStates, ApplySessionOpenAck(s, status)
        PROVE  Promise!Next
    <2>1. life' = [life EXCEPT ![s] = "live"]
      BY <1>2, Zenon DEF ApplySessionOpenAck
    <2>2. Promise!Begin(s)
      BY <1>2, <2>1 DEF ApplySessionOpenAck, Promise!Begin
    <2> QED BY <2>2 DEF Promise!Next
  <1>3. ASSUME NEW s \in SessionIds, BeginSessionClose(s)
        PROVE  UNCHANGED Promise!vars
    BY <1>3 DEF BeginSessionClose, Promise!vars
  <1>4. ASSUME NEW s \in SessionIds, NEW status \in CloseStatuses, ApplySessionCloseAck(s, status)
        PROVE  [Promise!Next]_(Promise!vars)
    <2> DEFINE next == CloseAckState(s, status)
    <2>1. next \in OpenStates \cup {"Closed"}
      BY <1>4, CloseAckStateFacts DEF ApplySessionCloseAck
    <2>2. /\ connection = "Open"
          /\ session[s] \in OpenStates
          /\ session' = [session EXCEPT ![s] = next]
          /\ UNCHANGED <<connection, established>>
      BY <1>4 DEF ApplySessionCloseAck
    <2> HIDE DEF next
    <2>3. CASE next = "Closed"
      <3>1. life' = [life EXCEPT ![s] = "ended"]
        BY <2>2, <2>3, Zenon
      <3>2. Promise!End(s)
        BY <2>2, <3>1 DEF Promise!End
      <3> QED BY <3>2 DEF Promise!Next
    <2>4. CASE next # "Closed"
      <3>1. life' = life
        BY <2>1, <2>2, <2>4
      <3> QED BY <2>2, <3>1 DEF Promise!vars
    <2> QED BY <2>3, <2>4
  <1>5. CASE UNCHANGED vars
    BY <1>5 DEF vars, Promise!vars
  <1> QED BY <1>1, <1>2, <1>3, <1>4, <1>5 DEF Next

\* ConnectionLifecycle implements SessionPromise: an id begins and ends once, and
\* no call other than close_connection ends more than one session.
THEOREM ImplementsPromise == Spec => KeepsPromise
  <1>1. IInv /\ [Next]_vars => [Promise!Next]_(Promise!vars)
    BY StepPromise
  <1> QED BY <1>1, InitPromise, InductiveInvariant, PTL DEF Spec, KeepsPromise, Promise!Spec
=============================================================================
