------------------------- MODULE OperationRegistry -------------------------
(***************************************************************************)
(* The operation registry of nnrp-core (crates/nnrp-core/src/operation.rs) *)
(* and the transition table of OperationState (enums.rs).                  *)
(*                                                                         *)
(* The BTreeMap from operation id to OperationRecord is three functions on *)
(* OperationIds; an id that is not a key of the map has the state          *)
(* "Unregistered".  One action per public method.  A call that returns an  *)
(* error and changes nothing is a stuttering step, so an action's guard is *)
(* the conjunction of the conditions under which the method writes.        *)
(*                                                                         *)
(* SessionIds, OperationIds and GroupIds hold the non-zero ids: an id of   *)
(* zero is refused by validate_descriptor_shape before anything is read.   *)
(* None is the Option's None.  The pair (priority_class, priority_delta)   *)
(* is one value of Priorities, and of the flags only                       *)
(* SCHEDULING_FLAG_DISCARD_STALE is kept.                                  *)
(***************************************************************************)
EXTENDS Naturals

CONSTANTS
    SessionIds,         \* session ids that operations are registered under
    OperationIds,       \* operation ids
    GroupIds,           \* operation group ids
    Priorities,         \* values of a PRIORITY_UPDATE
    Instants,           \* unix times carried by updates and read from the clock
    ControlSequences,   \* control_sequence values of scheduling updates
    None                \* an absent parent or group

ASSUME NoneAssumption ==
    /\ None \notin OperationIds
    /\ None \notin GroupIds
    /\ None \notin SessionIds

ASSUME SchedulingAssumption ==
    /\ Instants \subseteq Nat
    /\ ControlSequences \subseteq Nat

VARIABLES
    state,        \* OperationRecord.state
    descriptor,   \* OperationRecord.descriptor
    schedule      \* OperationRecord.schedule

vars == <<state, descriptor, schedule>>

-----------------------------------------------------------------------------

ActiveStates == {"Accepted", "Running", "Partial", "WaitingTool"}

\* OperationState::is_terminal.
TerminalStates == {"Superseded", "Cancelled", "Failed", "Completed"}

OperationStates == ActiveStates \cup TerminalStates

\* OperationState::can_transition_to: every active state may end in
\* Cancelled, Failed or Superseded; the other arcs are listed.
CanTransitionTo(from, to) ==
    \/ from \in ActiveStates /\ to \in {"Cancelled", "Failed", "Superseded"}
    \/ from = "Accepted" /\ to = "Running"
    \/ from \in {"Running", "Partial"} /\ to \in {"Partial", "WaitingTool", "Completed"}
    \/ from = "WaitingTool" /\ to = "Running"

Descriptors ==
    [session : SessionIds \cup {None},
     parent  : OperationIds \cup {None},
     group   : GroupIds \cup {None}]

NoDescriptor == [session |-> None, parent |-> None, group |-> None]

OperationSchedules ==
    [priority       : Priorities \cup {None},
     deadline       : Instants \cup {0},
     expireAt       : Instants \cup {0},
     updateSequence : ControlSequences \cup {0},
     discardStale   : BOOLEAN]

\* OperationSchedule::default.
DefaultSchedule ==
    [priority |-> None, deadline |-> 0, expireAt |-> 0,
     updateSequence |-> 0, discardStale |-> FALSE]

\* The keys of the map.
Registered == {o \in OperationIds : state[o] # "Unregistered"}

Live(o) == state[o] \in ActiveStates

Init ==
    /\ state = [o \in OperationIds |-> "Unregistered"]
    /\ descriptor = [o \in OperationIds |-> NoDescriptor]
    /\ schedule = [o \in OperationIds |-> DefaultSchedule]

-----------------------------------------------------------------------------

SetState(o, next) ==
    /\ state' = [state EXCEPT ![o] = next]
    /\ UNCHANGED <<descriptor, schedule>>

\* validate_descriptor_shape, for ids that are not zero.
DescriptorShapeOK(o, parent) == parent # o

ParentOK(session, parent) ==
    parent # None => /\ parent \in Registered
                     /\ descriptor[parent].session = session

\* Mutant of Register: a live operation is registered again.
Register_Overwrite(o, session, parent, group) ==
    /\ DescriptorShapeOK(o, parent)
    /\ o \in Registered => state[o] \in ActiveStates
    /\ ParentOK(session, parent)
    /\ state' = [state EXCEPT ![o] = "Accepted"]
    /\ descriptor' = [descriptor EXCEPT ![o] =
                        [session |-> session, parent |-> parent, group |-> group]]
    /\ UNCHANGED schedule

Register(o, session, parent, group) ==
    /\ DescriptorShapeOK(o, parent)
    /\ o \notin Registered
    /\ ParentOK(session, parent)
    /\ state' = [state EXCEPT ![o] = "Accepted"]
    /\ descriptor' = [descriptor EXCEPT ![o] =
                        [session |-> session, parent |-> parent, group |-> group]]
    /\ schedule' = [schedule EXCEPT ![o] = DefaultSchedule]

Transition(o, next) ==
    /\ o \in Registered
    /\ CanTransitionTo(state[o], next)
    /\ SetState(o, next)

\* An accepted operation is moved to Running and on to Completed in one call;
\* one that waits for a tool is refused.
Complete(o) ==
    /\ o \in Registered
    /\ state[o] \notin TerminalStates
    /\ LET started == IF state[o] = "Accepted" THEN "Running" ELSE state[o]
       IN  CanTransitionTo(started, "Completed")
    /\ SetState(o, "Completed")

Abort(o) ==
    /\ o \in Registered
    /\ CanTransitionTo(state[o], "Failed")
    /\ SetState(o, "Failed")

ExpireIfStale(o, now) ==
    /\ o \in Registered
    /\ state[o] \notin TerminalStates
    /\ schedule[o].discardStale
    /\ schedule[o].expireAt # 0
    /\ schedule[o].expireAt <= now
    /\ CanTransitionTo(state[o], "Superseded")
    /\ SetState(o, "Superseded")

-----------------------------------------------------------------------------

UpdateTypes == {"PriorityUpdate", "Deadline", "ExpireAt", "Other"}

\* The record a scheduling message leaves behind.  The sequence number is
\* stored before the message type is looked at, so a message of another type
\* is refused with the sequence number already written.
UpdatedSchedule(old, type, sequence, priority, instant, discardStale) ==
    LET stamped == [old EXCEPT !.updateSequence = sequence]
    IN  CASE type = "PriorityUpdate" -> [stamped EXCEPT !.priority = priority]
          [] type = "Deadline"       -> [stamped EXCEPT !.deadline = instant]
          [] type = "ExpireAt"       -> [stamped EXCEPT !.expireAt = instant,
                                                        !.discardStale = discardStale]
          [] OTHER                   -> stamped

\* Mutant of ApplySchedulingUpdate: an operation that has ended is updated too.
ApplySchedulingUpdate_Ended(session, o, type, sequence, priority, instant, discardStale) ==
    /\ o \in Registered
    /\ descriptor[o].session = session
    /\ schedule' = [schedule EXCEPT ![o] =
                      UpdatedSchedule(@, type, sequence, priority, instant, discardStale)]
    /\ UNCHANGED <<state, descriptor>>

ApplySchedulingUpdate(session, o, type, sequence, priority, instant, discardStale) ==
    /\ o \in Registered
    /\ descriptor[o].session = session
    /\ state[o] \notin TerminalStates
    /\ schedule' = [schedule EXCEPT ![o] =
                      UpdatedSchedule(@, type, sequence, priority, instant, discardStale)]
    /\ UNCHANGED <<state, descriptor>>

-----------------------------------------------------------------------------

CancelScopes == {"Operation", "Subtree", "Group", "Session"}

ClosedUnderChildren(S) ==
    \A o \in Registered : descriptor[o].parent \in S => o \in S

\* subtree_operation_ids: the least set that holds the root and the children
\* of its members.
SubtreeOperationIds(root) ==
    {o \in Registered :
        \A S \in SUBSET Registered : root \in S /\ ClosedUnderChildren(S) => o \in S}

GroupOperationIds(group) == {o \in Registered : descriptor[o].group = group}

SessionOperationIds(session) == {o \in Registered : descriptor[o].session = session}

\* Mutant of CancelledSet: below an operation that has ended nothing is cancelled.
CancelledSet_StopsAtEnded(session, o, scope) ==
    CASE scope = "Operation" -> {o}
      [] scope = "Subtree"   -> {p \in SubtreeOperationIds(o) : p = o \/ Live(descriptor[p].parent)}
      [] scope = "Group"     -> GroupOperationIds(descriptor[o].group)
      [] scope = "Session"   -> SessionOperationIds(session)

CancelledSet(session, o, scope) ==
    CASE scope = "Operation" -> {o}
      [] scope = "Subtree"   -> SubtreeOperationIds(o)
      [] scope = "Group"     -> GroupOperationIds(descriptor[o].group)
      [] scope = "Session"   -> SessionOperationIds(session)

Cancel(session, o, scope) ==
    /\ o \in Registered
    /\ descriptor[o].session = session
    /\ scope = "Group" => descriptor[o].group # None
    /\ LET targets == CancelledSet(session, o, scope)
       IN  state' = [p \in OperationIds |->
                       IF p \in targets /\ state[p] \notin TerminalStates
                       THEN "Cancelled" ELSE state[p]]
    /\ UNCHANGED <<descriptor, schedule>>

-----------------------------------------------------------------------------

RegisterAny ==
    \E o \in OperationIds, s \in SessionIds,
       p \in OperationIds \cup {None}, g \in GroupIds \cup {None} : Register(o, s, p, g)

TransitionAny == \E o \in OperationIds, next \in OperationStates : Transition(o, next)

CompleteAny == \E o \in OperationIds : Complete(o)

AbortAny == \E o \in OperationIds : Abort(o)

ExpireAny == \E o \in OperationIds, now \in Instants \cup {0} : ExpireIfStale(o, now)

SchedulingAny ==
    \E s \in SessionIds, o \in OperationIds, type \in UpdateTypes,
       sequence \in ControlSequences, priority \in Priorities,
       instant \in Instants, discardStale \in BOOLEAN :
        ApplySchedulingUpdate(s, o, type, sequence, priority, instant, discardStale)

CancelAny ==
    \E s \in SessionIds, o \in OperationIds, scope \in CancelScopes : Cancel(s, o, scope)

Next ==
    \/ RegisterAny
    \/ TransitionAny
    \/ CompleteAny
    \/ AbortAny
    \/ ExpireAny
    \/ SchedulingAny
    \/ CancelAny

Spec == Init /\ [][Next]_vars

-----------------------------------------------------------------------------

\* Every record is well formed, and a registration that was refused leaves no
\* descriptor and no schedule behind.
TypeOK ==
    /\ state \in [OperationIds -> OperationStates \cup {"Unregistered"}]
    /\ descriptor \in [OperationIds -> Descriptors]
    /\ schedule \in [OperationIds -> OperationSchedules]
    /\ \A o \in OperationIds \ Registered :
         descriptor[o] = NoDescriptor /\ schedule[o] = DefaultSchedule

\* A registered operation belongs to a session, and its parent is a registered
\* operation of the same session (the check in register, which must survive
\* every later call because nothing re-checks it).
ParentsInSession ==
    \A o \in Registered :
        /\ descriptor[o].session \in SessionIds
        /\ descriptor[o].parent # None =>
             /\ descriptor[o].parent \in Registered
             /\ descriptor[descriptor[o].parent].session = descriptor[o].session

\* The parent links form a forest: every non-empty set of registered operations
\* has a member whose parent lies outside the set, so no chain of parents comes
\* back to where it started.  register only refuses an operation that is its own
\* parent; that longer cycles cannot arise rests on parents being registered
\* first and ids never being registered twice.
ParentForest ==
    \A S \in SUBSET Registered :
        S # {} => \E o \in S : descriptor[o].parent \notin S

EndedStays ==
    \A o \in OperationIds :
        state[o] \in TerminalStates => state'[o] = state[o] /\ schedule'[o] = schedule[o]

\* A terminal operation keeps its state and its schedule for ever: a result, an
\* abort, an expiry, a scheduling update or a cancel of any scope that arrives
\* late changes nothing about it.
TerminalIsFinal == [][EndedStays]_vars

CancelledTogether ==
    \A a, b \in OperationIds :
        (/\ Live(a) /\ state'[a] = "Cancelled"
         /\ Live(b) /\ state'[b] = "Cancelled")
        => \/ descriptor[a].session = descriptor[b].session
           \/ /\ descriptor[a].group = descriptor[b].group
              /\ descriptor[a].group # None

SubtreeEnded ==
    \A s \in SessionIds, o \in OperationIds :
        Cancel(s, o, "Subtree") =>
           \E S \in SUBSET Registered :
              /\ o \in S
              /\ ClosedUnderChildren(S)
              /\ \A p \in S : state'[p] \in TerminalStates

\* A cancel reaches its scope and nothing else.  The operations one call cancels
\* share a session, or are members of one operation group: a cancel of scope
\* operation, subtree or session never leaves the session that asked for it.
\* And after a cancel of scope subtree nothing below the target runs on: some
\* set that holds the target and every child of its members is terminal
\* throughout, also where the walk passes an operation that had already ended.
CancelsReachTheirScope == [][CancelledTogether /\ SubtreeEnded]_vars
=============================================================================
