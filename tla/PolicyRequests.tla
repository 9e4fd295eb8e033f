--------------------------- MODULE PolicyRequests ---------------------------
(***************************************************************************)
(* The admission decisions that a native host makes for a server           *)
(* (crates/nnrp-ffi/src/lib.rs, NnrpFfiServerPolicy).  The evaluation of a *)
(* session open registers a request, calls the host's begin callback with  *)
(* its id and awaits a one-shot channel; the host answers from any thread, *)
(* inside the callback or later, once or often or for a request that is    *)
(* over, through nnrp_server_policy_complete.  The future of an evaluation *)
(* may be dropped: first its receiver goes, then the guard that removes    *)
(* the request.  The id counter starts anywhere and does not come round to *)
(* an id in use: a process would have to open 2^64 sessions for that.      *)
(***************************************************************************)
EXTENDS Integers, FiniteSets, Functions

CONSTANTS
    Evaluations,   \* the evaluations of one run
    Threads,       \* the host's threads
    IdSpace        \* ids are 0..IdSpace-1 (2^64 in the code)

ASSUME PolicyAssumption ==
    /\ IsFiniteSet(Evaluations)
    /\ IdSpace \in Nat /\ IdSpace > Cardinality(Evaluations) + 1

VARIABLES
    nextId,     \* NEXT_SERVER_POLICY_REQUEST_ID
    requests,   \* SERVER_POLICY_REQUESTS: the evaluation behind each id's sender
    pc,         \* where each evaluation is
    id,         \* its request id
    channel,    \* what was sent to it, or NoDecision
    outcome,    \* what it returned, or NoDecision
    thread,     \* the sender and the decision a thread is about to send, or Idle
    asked,      \* the valid decisions the host asked for, per evaluation
    honoured    \* the decisions for which nnrp_server_policy_complete returned Ok
vars == <<nextId, requests, pc, id, channel, outcome, thread, asked, honoured>>

\* A decision as the host states it; clean: the reserved bytes are zero and the
\* diagnostic can be read.  NONE is SESSION_ERROR_NONE.
NONE == 0
UNSUPPORTED == 1       \* SESSION_ERROR_PROFILE_UNSUPPORTED
OTHER_CODE == 2        \* any code of the host's own
HostDecisions == [accepted : 0..2, code : {NONE, OTHER_CODE}, clean : BOOLEAN]

accept == [accepted |-> TRUE, code |-> NONE]
reject(code) == [accepted |-> FALSE, code |-> code]
NoDecision == [accepted |-> FALSE, code |-> -1]
Cancelled == [accepted |-> FALSE, code |-> -2]     \* the future was dropped
Idle == [to |-> "nobody", decision |-> NoDecision]

Init ==
    /\ nextId \in 0..(IdSpace - 1)
    /\ requests = <<>>
    /\ pc = [e \in Evaluations |-> "idle"]
    /\ id = [e \in Evaluations |-> 0]
    /\ channel = [e \in Evaluations |-> NoDecision]
    /\ outcome = [e \in Evaluations |-> NoDecision]
    /\ thread = [t \in Threads |-> Idle]
    /\ asked = [e \in Evaluations |-> {}]
    /\ honoured = [e \in Evaluations |-> {}]

-----------------------------------------------------------------------------
(* NnrpFfiServerPolicy::evaluate.                                          *)

\* The metadata of the open does not encode.
Unencodable(e) ==
    /\ pc[e] = "idle"
    /\ pc' = [pc EXCEPT ![e] = "unasked"]
    /\ outcome' = [outcome EXCEPT ![e] = reject(UNSUPPORTED)]
    /\ UNCHANGED <<nextId, requests, id, channel, thread, asked, honoured>>

\* register_server_policy_request takes an id without the lock, and another one
\* after 0.
TakeId(e) ==
    /\ pc[e] = "idle"
    /\ nextId' = (nextId + 1) % IdSpace
    /\ id' = [id EXCEPT ![e] = nextId]
    /\ pc' = [pc EXCEPT ![e] = IF nextId = 0 THEN "idle" ELSE "numbered"]
    /\ UNCHANGED <<requests, channel, outcome, thread, asked, honoured>>

\* Under the lock it fills a vacant entry.  The callback is called next.
register_server_policy_request(e) ==
    /\ pc[e] = "numbered"
    /\ IF id[e] \in DOMAIN requests
       THEN pc' = [pc EXCEPT ![e] = "idle"] /\ UNCHANGED requests
       ELSE pc' = [pc EXCEPT ![e] = "calling"] /\ requests' = [i \in DOMAIN requests \cup {id[e]} |->
                                                                  IF i = id[e] THEN e ELSE requests[i]]
    /\ UNCHANGED <<nextId, id, channel, outcome, thread, asked, honoured>>

\* The callback returns; with any other status than Ok the evaluation rejects
\* and its receiver is dropped.
BeginReturns(e, ok) ==
    /\ pc[e] = "calling"
    /\ pc' = [pc EXCEPT ![e] = IF ok THEN "awaiting" ELSE "leaving"]
    /\ outcome' = IF ok THEN outcome ELSE [outcome EXCEPT ![e] = reject(UNSUPPORTED)]
    /\ UNCHANGED <<nextId, requests, id, channel, thread, asked, honoured>>

\* The sender is still registered, or held by a thread that will use it.
SenderAlive(e) == e \in {requests[i] : i \in DOMAIN requests} \cup {thread[t].to : t \in Threads}

\* decision.await.
Decided(e) ==
    /\ pc[e] = "awaiting"
    /\ channel[e] # NoDecision \/ ~ SenderAlive(e)
    /\ outcome' = [outcome EXCEPT ![e] = IF channel[e] # NoDecision THEN channel[e]
                                         ELSE reject(UNSUPPORTED)]
    /\ pc' = [pc EXCEPT ![e] = "leaving"]
    /\ UNCHANGED <<nextId, requests, id, channel, thread, asked, honoured>>

\* Whoever polls the evaluation drops it: the receiver goes first.
DropFuture(e) ==
    /\ pc[e] = "awaiting"
    /\ pc' = [pc EXCEPT ![e] = "leaving"]
    /\ outcome' = [outcome EXCEPT ![e] = Cancelled]
    /\ UNCHANGED <<nextId, requests, id, channel, thread, asked, honoured>>

\* NnrpFfiServerPolicyRequestGuard::drop.
DropGuard(e) ==
    /\ pc[e] = "leaving"
    /\ pc' = [pc EXCEPT ![e] = "done"]
    /\ requests' = Restrict(requests, DOMAIN requests \ {id[e]})
    /\ UNCHANGED <<nextId, id, channel, outcome, thread, asked, honoured>>

-----------------------------------------------------------------------------
(* nnrp_server_policy_complete.                                            *)

\* The checks behind status 175.
Valid(i, d) ==
    /\ i # 0 /\ d.clean /\ d.accepted <= 1
    /\ (d.accepted = 1) = (d.code = NONE)

Meant(d) == IF d.accepted = 1 THEN accept ELSE reject(d.code)

\* The host was told the id: the callback has begun.
Told(e) == pc[e] \notin {"idle", "numbered", "unasked"}

\* Mutant of Complete: the sender stays registered and is used again.
Complete_KeepsSender(t, e, d) ==
    /\ Told(e) /\ thread[t] = Idle
    /\ asked' = IF Valid(id[e], d) THEN [asked EXCEPT ![e] = @ \cup {Meant(d)}] ELSE asked
    /\ thread' = IF Valid(id[e], d) /\ id[e] \in DOMAIN requests
                 THEN [thread EXCEPT ![t] = [to |-> requests[id[e]], decision |-> Meant(d)]]
                 ELSE thread
    /\ UNCHANGED <<nextId, requests, pc, id, channel, outcome, honoured>>

\* A call about a request the host was told of: the sender is taken out under
\* the lock (status 176 if there is none) and used after it.
Complete(t, e, d) ==
    /\ Told(e) /\ thread[t] = Idle
    /\ asked' = IF Valid(id[e], d) THEN [asked EXCEPT ![e] = @ \cup {Meant(d)}] ELSE asked
    /\ IF Valid(id[e], d) /\ id[e] \in DOMAIN requests
       THEN /\ thread' = [thread EXCEPT ![t] = [to |-> requests[id[e]], decision |-> Meant(d)]]
            /\ requests' = Restrict(requests, DOMAIN requests \ {id[e]})
       ELSE UNCHANGED <<thread, requests>>
    /\ UNCHANGED <<nextId, pc, id, channel, outcome, honoured>>

\* sender.send: status 177 once the receiver is gone.
Send(t) ==
    LET e == thread[t].to
        heard == pc[e] \in {"calling", "awaiting"}
    IN  /\ thread[t] # Idle
        /\ thread' = [thread EXCEPT ![t] = Idle]
        /\ channel' = IF heard THEN [channel EXCEPT ![e] = thread[t].decision] ELSE channel
        /\ honoured' = IF heard THEN [honoured EXCEPT ![e] = @ \cup {thread[t].decision}] ELSE honoured
        /\ UNCHANGED <<nextId, requests, pc, id, outcome, asked>>

Evaluates(e) ==
    \/ Unencodable(e) \/ TakeId(e) \/ register_server_policy_request(e)
    \/ Decided(e) \/ DropGuard(e)

Next ==
    \/ \E e \in Evaluations : \/ Evaluates(e) \/ DropFuture(e)
                              \/ \E ok \in BOOLEAN : BeginReturns(e, ok)
    \/ \E t \in Threads : \/ Send(t)
                          \/ \E e \in Evaluations, d \in HostDecisions : Complete(t, e, d)

\* The executor polls what is ready; the host returns from its callback, and
\* answers every request it was told of, sooner or later, with a valid decision.
HostAnswers(e) == \E t \in Threads, d \in HostDecisions : Valid(id[e], d) /\ Complete(t, e, d)
Spec ==
    /\ Init /\ [][Next]_vars
    /\ \A e \in Evaluations :
           /\ WF_vars(Evaluates(e))
           /\ WF_vars(\E ok \in BOOLEAN : BeginReturns(e, ok))
           /\ SF_vars(pc[e] \in {"calling", "awaiting"} /\ HostAnswers(e))
    /\ \A t \in Threads : WF_vars(Send(t))

-----------------------------------------------------------------------------
\* A session is let in only when the host asked for exactly that, for this
\* request, in a call that passed the checks: not by a failed callback, a
\* dropped future or an answer to another request.
AdmissionNeedsConsent == \A e \in Evaluations : outcome[e].accepted => accept \in asked[e]

\* Ok is returned for one decision of a request at most, and what was answered
\* with Ok is what the evaluation returns, unless its callback fails afterwards or its
\* future is dropped; whichever threads answer at the same time.
OkDecides ==
    \A e \in Evaluations :
        /\ Cardinality(honoured[e]) <= 1
        /\ outcome[e] \in {accept, reject(OTHER_CODE)} => outcome[e] \in honoured[e]

\* The host decides, once: nothing lets a session in that it did not ask for, and
\* the one answer that got Ok is the one that counts.
HostDecides == AdmissionNeedsConsent /\ OkDecides

\* Requests do not pile up: an entry belongs to an evaluation whose guard is still
\* to be dropped.
NothingLeft ==
    \A i \in DOMAIN requests :
        /\ id[requests[i]] = i
        /\ pc[requests[i]] \in {"calling", "awaiting", "leaving"}

\* A rejection has an error code and an admission has none, so SESSION_OPEN_ACK
\* is never a refusal without a reason.
RejectionsHaveACode ==
    \A e \in Evaluations : outcome[e] \notin {NoDecision, Cancelled} =>
                               (outcome[e].accepted <=> outcome[e].code = NONE)
=============================================================================
