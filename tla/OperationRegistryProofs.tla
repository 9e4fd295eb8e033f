---------------------- MODULE OperationRegistryProofs ----------------------
(***************************************************************************)
(* Proofs about OperationRegistry, for every set of sessions, operations,  *)
(* groups, priorities, instants and control sequences.                     *)
(***************************************************************************)
EXTENDS OperationRegistry, TLAPS

\* The provers each step is tried with in turn, and the time they have.
USE SMTT(30), ZenonT(20), Z3T(30)

\* The inductive invariant: the links of the forest are only well founded
\* because every parent is registered, and registered before its children.
IInv == TypeOK /\ ParentsInSession /\ ParentForest

\* What a step may do to the keys and the descriptors.  Every method but
\* register leaves both alone.
KeepsLinks == Registered' = Registered /\ descriptor' = descriptor

\* Setting the state of a registered operation keeps the keys.
LEMMA SetStateKeepsLinks ==
    ASSUME TypeOK, NEW o \in Registered, NEW next \in OperationStates, SetState(o, next)
    PROVE  TypeOK' /\ KeepsLinks
  BY DEF TypeOK, SetState, Registered, KeepsLinks, OperationStates, ActiveStates,
         TerminalStates, NoDescriptor, DefaultSchedule, Descriptors, OperationSchedules

\* Every call but register keeps the type and the links.
LEMMA OtherCallsKeepLinks ==
    ASSUME TypeOK,
           TransitionAny \/ CompleteAny \/ AbortAny \/ ExpireAny \/ SchedulingAny \/ CancelAny
    PROVE  TypeOK' /\ KeepsLinks
  <1>1. CASE TransitionAny
    BY <1>1, SetStateKeepsLinks DEF TransitionAny, Transition
  <1>2. CASE CompleteAny
    BY <1>2, SetStateKeepsLinks DEF CompleteAny, Complete, OperationStates, TerminalStates
  <1>3. CASE AbortAny
    BY <1>3, SetStateKeepsLinks DEF AbortAny, Abort, OperationStates, TerminalStates
  <1>4. CASE ExpireAny
    BY <1>4, SetStateKeepsLinks DEF ExpireAny, ExpireIfStale, OperationStates, TerminalStates
  <1>5. CASE SchedulingAny
    <2>1. PICK s \in SessionIds, o \in OperationIds, type \in UpdateTypes,
               sequence \in ControlSequences, priority \in Priorities,
               instant \in Instants, discardStale \in BOOLEAN :
            ApplySchedulingUpdate(s, o, type, sequence, priority, instant, discardStale)
      BY <1>5 DEF SchedulingAny
    <2>2. schedule[o] \in OperationSchedules
      BY DEF TypeOK
    <2>3. UpdatedSchedule(schedule[o], type, sequence, priority, instant, discardStale)
            \in OperationSchedules
      BY <2>2, ZenonT(30) DEF UpdatedSchedule, OperationSchedules, UpdateTypes
    <2>4. /\ schedule' = [schedule EXCEPT ![o] =
                UpdatedSchedule(schedule[o], type, sequence, priority, instant, discardStale)]
          /\ o \in Registered
          /\ UNCHANGED <<state, descriptor>>
      BY <2>1 DEF ApplySchedulingUpdate
    <2> QED BY <2>3, <2>4 DEF TypeOK, Registered, KeepsLinks
  <1>6. CASE CancelAny
    <2>1. PICK s \in SessionIds, o \in OperationIds, scope \in CancelScopes : Cancel(s, o, scope)
      BY <1>6 DEF CancelAny
    <2> DEFINE targets == CancelledSet(s, o, scope)
    <2>2. /\ state' = [p \in OperationIds |->
                         IF p \in targets /\ state[p] \notin TerminalStates
                         THEN "Cancelled" ELSE state[p]]
          /\ UNCHANGED <<descriptor, schedule>>
      BY <2>1 DEF Cancel
    <2>3. targets \subseteq Registered
      BY <2>1 DEF Cancel, CancelledSet, SubtreeOperationIds, GroupOperationIds,
                  SessionOperationIds, CancelScopes
    <2> HIDE DEF targets
    <2> QED BY <2>2, <2>3 DEF TypeOK, Registered, KeepsLinks, OperationStates, ActiveStates,
                              TerminalStates
  <1> QED BY <1>1, <1>2, <1>3, <1>4, <1>5, <1>6

-----------------------------------------------------------------------------

\* What register leaves behind.
LEMMA RegisterEffect ==
    ASSUME TypeOK, NEW o \in OperationIds, NEW s \in SessionIds,
           NEW p \in OperationIds \cup {None}, NEW g \in GroupIds \cup {None},
           Register(o, s, p, g)
    PROVE  /\ TypeOK'
           /\ o \notin Registered
           /\ Registered' = Registered \cup {o}
           /\ descriptor'[o] = [session |-> s, parent |-> p, group |-> g]
           /\ \A q \in OperationIds : q # o => descriptor'[q] = descriptor[q]
           /\ p # o
           /\ p # None => p \in Registered /\ descriptor[p].session = s
  <1>1. [session |-> s, parent |-> p, group |-> g] \in Descriptors
    BY DEF Descriptors
  <1>2. DefaultSchedule \in OperationSchedules
    BY DEF DefaultSchedule, OperationSchedules
  <1> QED BY <1>1, <1>2 DEF Register, DescriptorShapeOK, ParentOK, TypeOK, Registered,
                            OperationStates, ActiveStates, TerminalStates

LEMMA InitIInv == Init => IInv
  <1> SUFFICES ASSUME Init PROVE IInv
    OBVIOUS
  <1>1. TypeOK
    BY DEF Init, TypeOK, Registered, Descriptors, NoDescriptor, OperationSchedules, DefaultSchedule
  <1>2. Registered = {}
    BY DEF Init, Registered
  <1> QED BY <1>1, <1>2 DEF IInv, ParentsInSession, ParentForest

\* A step that keeps the keys and the descriptors keeps the forest.
LEMMA KeptLinksKeepForest ==
    ASSUME IInv, TypeOK', KeepsLinks
    PROVE  IInv'
  <1>1. ParentsInSession'
    BY DEF IInv, KeepsLinks, ParentsInSession
  <1>2. ParentForest'
    BY DEF IInv, KeepsLinks, ParentForest
  <1> QED BY <1>1, <1>2 DEF IInv

\* register keeps the forest: the new operation is nobody's parent yet.
LEMMA RegisterKeepsForest ==
    ASSUME IInv, NEW o \in OperationIds, NEW s \in SessionIds,
           NEW p \in OperationIds \cup {None}, NEW g \in GroupIds \cup {None},
           Register(o, s, p, g)
    PROVE  IInv'
  <1> USE NoneAssumption
  <1>1. /\ TypeOK'
        /\ o \notin Registered
        /\ Registered' = Registered \cup {o}
        /\ descriptor'[o] = [session |-> s, parent |-> p, group |-> g]
        /\ \A q \in OperationIds : q # o => descriptor'[q] = descriptor[q]
        /\ p # o
        /\ p # None => p \in Registered /\ descriptor[p].session = s
    BY RegisterEffect DEF IInv
  <1>2. Registered \subseteq OperationIds
    BY DEF Registered
  <1>3. \A q \in Registered : descriptor'[q] = descriptor[q]
    BY <1>1, <1>2
  <1>4. \A q \in Registered : descriptor[q].parent # o
    BY <1>1 DEF IInv, ParentsInSession
  <1>5. ParentsInSession'
    <2> SUFFICES ASSUME NEW q \in Registered'
                 PROVE  /\ descriptor'[q].session \in SessionIds
                        /\ descriptor'[q].parent # None =>
                             /\ descriptor'[q].parent \in Registered'
                             /\ descriptor'[descriptor'[q].parent].session
                                  = descriptor'[q].session
      BY DEF ParentsInSession
    <2>1. CASE q = o
      BY <2>1, <1>1, <1>3
    <2>2. CASE q # o
      <3>1. q \in Registered /\ descriptor'[q] = descriptor[q]
        BY <2>2, <1>1, <1>3
      <3> QED BY <3>1, <1>1, <1>3 DEF IInv, ParentsInSession
    <2> QED BY <2>1, <2>2
  <1>6. ParentForest'
    <2> SUFFICES ASSUME NEW S \in SUBSET Registered', S # {}
                 PROVE  \E q \in S : descriptor'[q].parent \notin S
      BY DEF ParentForest
    <2>1. CASE S = {o}
      BY <2>1, <1>1
    <2>2. CASE S # {o}
      <3>1. S \ {o} \in SUBSET Registered /\ S \ {o} # {}
        BY <2>2, <1>1
      <3>2. PICK q \in S \ {o} : descriptor[q].parent \notin S \ {o}
        BY <3>1, ZenonT(30) DEF IInv, ParentForest
      <3>3. q \in Registered
        BY <3>1
      <3>4. descriptor'[q].parent \notin S
        BY <3>2, <3>3, <1>3, <1>4
      <3> QED BY <3>4
    <2> QED BY <2>1, <2>2
  <1> QED BY <1>1, <1>5, <1>6 DEF IInv

LEMMA StepIInv == IInv /\ [Next]_vars => IInv'
  <1> SUFFICES ASSUME IInv, [Next]_vars PROVE IInv'
    OBVIOUS
  <1>1. CASE RegisterAny
    BY <1>1, RegisterKeepsForest DEF RegisterAny
  <1>2. CASE TransitionAny \/ CompleteAny \/ AbortAny \/ ExpireAny \/ SchedulingAny \/ CancelAny
    <2>1. TypeOK' /\ KeepsLinks
      BY <1>2, OtherCallsKeepLinks DEF IInv
    <2> QED BY <2>1, KeptLinksKeepForest
  <1>3. CASE UNCHANGED vars
    <2>1. TypeOK' /\ KeepsLinks
      BY <1>3 DEF IInv, TypeOK, KeepsLinks, Registered, vars
    <2> QED BY <2>1, KeptLinksKeepForest
  <1> QED BY <1>1, <1>2, <1>3 DEF Next

LEMMA InductiveInvariant == Spec => []IInv
  BY InitIInv, StepIInv, PTL DEF Spec

\* Every record stays well formed, and a refused registration leaves nothing
\* behind (OperationRegistry::register and every other method).
THEOREM TypeCorrect == Spec => []TypeOK
  <1>1. IInv => TypeOK
    BY DEF IInv
  <1> QED BY <1>1, InductiveInvariant, PTL

\* The parent of an operation stays registered, in the operation's own session.
THEOREM ParentsStayInSession == Spec => []ParentsInSession
  <1>1. IInv => ParentsInSession
    BY DEF IInv
  <1> QED BY <1>1, InductiveInvariant, PTL

\* No sequence of calls makes an operation its own ancestor.
THEOREM ParentLinksFormForest == Spec => []ParentForest
  <1>1. IInv => ParentForest
    BY DEF IInv
  <1> QED BY <1>1, InductiveInvariant, PTL

-----------------------------------------------------------------------------

\* A terminal operation is out of reach of every call.
THEOREM TerminalStatesAreFinal == Spec => TerminalIsFinal
  <1>1. ASSUME IInv, [Next]_vars PROVE [EndedStays]_vars
    <2> USE DEF EndedStays, Registered, SetState, CanTransitionTo, ActiveStates, TerminalStates
    <2>0. TypeOK
      BY <1>1 DEF IInv
    <2>1. CASE RegisterAny
      BY <2>0, <2>1 DEF RegisterAny, Register, TypeOK
    <2>2. CASE TransitionAny
      BY <2>0, <2>2 DEF TransitionAny, Transition, TypeOK
    <2>3. CASE CompleteAny
      BY <2>0, <2>3 DEF CompleteAny, Complete, TypeOK
    <2>4. CASE AbortAny
      BY <2>0, <2>4 DEF AbortAny, Abort, TypeOK
    <2>5. CASE ExpireAny
      BY <2>0, <2>5 DEF ExpireAny, ExpireIfStale, TypeOK
    <2>6. CASE SchedulingAny
      BY <2>0, <2>6 DEF SchedulingAny, ApplySchedulingUpdate, TypeOK
    <2>7. CASE CancelAny
      BY <2>0, <2>7 DEF CancelAny, Cancel, TypeOK
    <2> QED BY <1>1, <2>1, <2>2, <2>3, <2>4, <2>5, <2>6, <2>7 DEF Next
  <1> QED BY <1>1, InductiveInvariant, PTL DEF Spec, TerminalIsFinal

\* The subtree of an operation holds it, holds the children of its members, and
\* lies in its session.
LEMMA SubtreeFacts ==
    ASSUME IInv, NEW o \in Registered
    PROVE  /\ SubtreeOperationIds(o) \in SUBSET Registered
           /\ o \in SubtreeOperationIds(o)
           /\ ClosedUnderChildren(SubtreeOperationIds(o))
           /\ \A p \in SubtreeOperationIds(o) : descriptor[p].session = descriptor[o].session
  <1>1. SubtreeOperationIds(o) \in SUBSET Registered /\ o \in SubtreeOperationIds(o)
    BY DEF SubtreeOperationIds
  <1>2. ClosedUnderChildren(SubtreeOperationIds(o))
    BY DEF SubtreeOperationIds, ClosedUnderChildren
  <1>3. \A p \in SubtreeOperationIds(o) : descriptor[p].session = descriptor[o].session
    <2> DEFINE same == {q \in Registered : descriptor[q].session = descriptor[o].session}
    <2>1. same \in SUBSET Registered /\ o \in same
      OBVIOUS
    <2>2. ClosedUnderChildren(same)
      <3> SUFFICES ASSUME NEW c \in Registered, descriptor[c].parent \in same
                   PROVE  c \in same
        BY DEF ClosedUnderChildren
      <3>1. descriptor[c].parent # None
        BY NoneAssumption DEF Registered
      <3> QED BY <3>1 DEF IInv, ParentsInSession
    <2>3. SubtreeOperationIds(o) \subseteq same
      BY <2>1, <2>2 DEF SubtreeOperationIds
    <2> QED BY <2>3
  <1> QED BY <1>1, <1>2, <1>3

\* Operations cancelled by one call share a session or a group: the subtree walk
\* stays in the session because register ties a child to its parent's session.
LEMMA CancelsStayTogether ==
    ASSUME IInv, [Next]_vars PROVE [CancelledTogether]_vars
  <1> SUFFICES ASSUME Next,
                      NEW a \in OperationIds, NEW b \in OperationIds,
                      Live(a), state'[a] = "Cancelled", Live(b), state'[b] = "Cancelled"
               PROVE  \/ descriptor[a].session = descriptor[b].session
                      \/ /\ descriptor[a].group = descriptor[b].group
                         /\ descriptor[a].group # None
    BY DEF CancelledTogether
  <1>0. TypeOK
    BY DEF IInv
  <1>1. CASE RegisterAny
    BY <1>0, <1>1 DEF RegisterAny, Register, TypeOK, Live, ActiveStates
  <1>2. CASE TransitionAny
    BY <1>0, <1>2 DEF TransitionAny, Transition, SetState, TypeOK, Live, ActiveStates
  <1>3. CASE CompleteAny
    BY <1>0, <1>3 DEF CompleteAny, Complete, SetState, TypeOK, Live, ActiveStates
  <1>4. CASE AbortAny
    BY <1>0, <1>4 DEF AbortAny, Abort, SetState, TypeOK, Live, ActiveStates
  <1>5. CASE ExpireAny
    BY <1>0, <1>5 DEF ExpireAny, ExpireIfStale, SetState, TypeOK, Live, ActiveStates
  <1>6. CASE SchedulingAny
    BY <1>0, <1>6 DEF SchedulingAny, ApplySchedulingUpdate, TypeOK, Live, ActiveStates
  <1>7. CASE CancelAny
    <2>1. PICK s \in SessionIds, o \in OperationIds, scope \in CancelScopes : Cancel(s, o, scope)
      BY <1>7 DEF CancelAny
    <2> DEFINE targets == CancelledSet(s, o, scope)
    <2>2. a \in targets /\ b \in targets
      BY <2>1 DEF Cancel, Live, ActiveStates
    <2>3. /\ o \in Registered
          /\ descriptor[o].session = s
          /\ scope = "Group" => descriptor[o].group # None
      BY <2>1 DEF Cancel
    <2>4. CASE scope = "Operation"
      BY <2>2, <2>4 DEF CancelledSet
    <2>5. CASE scope = "Subtree"
      BY <2>2, <2>3, <2>5, SubtreeFacts DEF CancelledSet
    <2>6. CASE scope = "Group"
      BY <2>2, <2>3, <2>6 DEF CancelledSet, GroupOperationIds
    <2>7. CASE scope = "Session"
      BY <2>2, <2>3, <2>7 DEF CancelledSet, SessionOperationIds
    <2> QED BY <2>4, <2>5, <2>6, <2>7 DEF CancelScopes
  <1> QED BY <1>1, <1>2, <1>3, <1>4, <1>5, <1>6, <1>7 DEF Next

\* A cancel of scope subtree ends everything below its target.
LEMMA SubtreeCancelSweeps ==
    ASSUME IInv, [Next]_vars PROVE [SubtreeEnded]_vars
  <1> SUFFICES ASSUME NEW s \in SessionIds, NEW o \in OperationIds, Cancel(s, o, "Subtree")
               PROVE  \E S \in SUBSET Registered :
                        /\ o \in S
                        /\ ClosedUnderChildren(S)
                        /\ \A p \in S : state'[p] \in TerminalStates
    BY DEF SubtreeEnded
  <1> DEFINE T == SubtreeOperationIds(o)
  <1>1. o \in Registered
    BY DEF Cancel
  <1>2. T \in SUBSET Registered /\ o \in T /\ ClosedUnderChildren(T)
    BY <1>1, SubtreeFacts
  <1>3. CancelledSet(s, o, "Subtree") = T
    BY DEF CancelledSet
  <1>4. state' = [p \in OperationIds |->
                    IF p \in T /\ state[p] \notin TerminalStates
                    THEN "Cancelled" ELSE state[p]]
    BY <1>3 DEF Cancel
  <1>5. \A p \in T : state'[p] \in TerminalStates
    <2> HIDE DEF T
    <2> QED BY <1>2, <1>4 DEF Registered, TerminalStates
  <1> HIDE DEF T
  <1> QED BY <1>2, <1>5

\* Every cancel reaches its scope and nothing else.
THEOREM CancelsStayInScope == Spec => CancelsReachTheirScope
  <1>1. ASSUME IInv, [Next]_vars PROVE [CancelledTogether /\ SubtreeEnded]_vars
    BY <1>1, CancelsStayTogether, SubtreeCancelSweeps
  <1> QED BY <1>1, InductiveInvariant, PTL DEF Spec, CancelsReachTheirScope
=============================================================================
