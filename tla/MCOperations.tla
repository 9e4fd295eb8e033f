---------------------------- MODULE MCOperations ----------------------------
(***************************************************************************)
(* Instances of OperationRegistry: every forest of three operations of two *)
(* sessions and a group ("tree"), and two operations with their schedules  *)
(* ("schedule"); and the worklist that the code walks to collect a subtree, *)
(* compared with the least fixed point that the specification and the      *)
(* proofs use.  The part is chosen in the initial state; the other rests.  *)
(***************************************************************************)
EXTENDS OperationRegistry, FiniteSets, TLC

VARIABLES part, sState, sDescriptor, sSchedule

scheduleVars == <<sState, sDescriptor, sSchedule>>
mcVars == <<part, vars, scheduleVars>>

Scheduling == INSTANCE OperationRegistry
                WITH SessionIds <- {"s"}, OperationIds <- {"o1", "o2"}, GroupIds <- {},
                     Priorities <- {"p"}, Instants <- {1}, ControlSequences <- {1},
                     None <- "none",
                     state <- sState, descriptor <- sDescriptor, schedule <- sSchedule

MCInit == part \in {"tree", "schedule"} /\ Init /\ Scheduling!Init

MCNext ==
    /\ part' = part
    /\ \/ part = "tree" /\ Next /\ UNCHANGED scheduleVars
       \/ part = "schedule" /\ Scheduling!Next /\ UNCHANGED vars

MCSpec == MCInit /\ [][MCNext]_mcVars

\* Operation ids are interchangeable, and so are session ids: no definition orders
\* them or chooses between them.
Symmetry == Permutations(OperationIds) \cup Permutations(SessionIds)
-----------------------------------------------------------------------------
\* Mutant of CollectSubtree: the children of a child are not pushed.
CollectSubtree_OneLevel(stack, collected) ==
    collected \cup stack \cup {c \in Registered : descriptor[c].parent \in stack}

\* The loop of subtree_operation_ids: pop an id, skip it if it was collected,
\* otherwise collect it and push its children.  The stack is a set here, and
\* any order of popping is one CHOOSE may take: the result is a set as well.
RECURSIVE CollectSubtree(_, _)
CollectSubtree(stack, collected) ==
    IF stack = {} THEN collected
    ELSE LET o == CHOOSE x \in stack : TRUE
             children == {c \in Registered : descriptor[c].parent = o}
         IN  IF o \in collected
             THEN CollectSubtree(stack \ {o}, collected)
             ELSE CollectSubtree((stack \ {o}) \cup children, collected \cup {o})

\* The worklist of subtree_operation_ids collects exactly the root and its
\* descendants, on every forest of operations that can be registered.
WorklistCollectsSubtree ==
    \A o \in Registered : CollectSubtree({o}, {}) = SubtreeOperationIds(o)

\* Nothing that arrives after the end of an operation changes its state or its
\* schedule, in a tree of operations or with updates that are reordered.
LateCallsChangeNothing == [][EndedStays /\ Scheduling!EndedStays]_mcVars
=============================================================================
