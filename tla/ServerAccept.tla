---------------------------- MODULE ServerAccept ----------------------------
(***************************************************************************)
(* NnrpServer::accept over a set of listeners (nnrp-runtime/src/server.rs):  *)
(* the queue of sessions that the connection tasks opened, the rotation over *)
(* the listeners, the listeners' own accept (TCP, TLS, QUIC, IPC and         *)
(* WebSocket), timeouts of the callers and the end of the listener set.      *)
(* A "plain" listener yields a connection as it arrives, an "upgrade" one    *)
(* after a handshake with the peer.                                          *)
(***************************************************************************)
EXTENDS Integers, Sequences, FiniteSets, FiniteSetsExt

CONSTANTS Kinds,         \* sequence of the listeners' kinds, in bind order
          Callers,       \* tasks that call accept
          MaxWaiting,    \* connections waiting at one listener
          MaxSessions,   \* sessions the connection tasks open
          MaxTimeouts

None == "none"
Listeners == 1..Len(Kinds)

VARIABLES waiting,      \* connections in each listener's backlog
          stage,        \* handshake of each accept future: "none", "upgrading", "ready"
          broken,       \* listeners whose accept fails
          closed,       \* the listener set was dropped
          nextIndex,    \* next_accept_index + 1
          recvLock, listenLock,
          sessions,     \* accepted_sessions
          opened, serving, timeouts,
          pc, result,
          last          \* listener whose carrier the last step served

vars == <<waiting, stage, broken, closed, nextIndex, recvLock, listenLock, sessions, opened,
          serving, timeouts, pc, result, last>>

Init ==
  /\ waiting = [l \in Listeners |-> 0]
  /\ stage = [l \in Listeners |-> "none"]
  /\ broken = {} /\ closed = FALSE /\ nextIndex = 1
  /\ recvLock = None /\ listenLock = None
  /\ sessions = 0 /\ opened = 0 /\ serving = FALSE /\ timeouts = 0
  /\ pc = [c \in Callers |-> "out"]
  /\ result = [c \in Callers |-> None]
  /\ last = 0

-----------------------------------------------------------------------------
(* Peers.                                                                    *)
Arrive(l) ==
  /\ ~closed /\ waiting[l] < MaxWaiting
  /\ waiting' = [waiting EXCEPT ![l] = @ + 1]
  /\ last' = 0
  /\ UNCHANGED <<stage, broken, closed, nextIndex, recvLock, listenLock, sessions, opened,
                 serving, timeouts, pc, result>>

(* The handshake ends; the accept loop of the listener goes on after one     *)
(* that failed.                                                              *)
Handshake(l) ==
  /\ stage[l] = "upgrading"
  /\ \E s \in {"ready", "none"} : stage' = [stage EXCEPT ![l] = s]
  /\ last' = 0
  /\ UNCHANGED <<waiting, broken, closed, nextIndex, recvLock, listenLock, sessions, opened,
                 serving, timeouts, pc, result>>

Break(l) ==
  /\ ~closed /\ l \notin broken
  /\ broken' = broken \cup {l}
  /\ last' = 0
  /\ UNCHANGED <<waiting, stage, closed, nextIndex, recvLock, listenLock, sessions, opened,
                 serving, timeouts, pc, result>>

(* A connection task accepts a SESSION_OPEN.                                 *)
OpenSession ==
  /\ serving /\ opened < MaxSessions
  /\ sessions' = sessions + 1
  /\ opened' = opened + 1
  /\ last' = 0
  /\ UNCHANGED <<waiting, stage, broken, closed, nextIndex, recvLock, listenLock, serving,
                 timeouts, pc, result>>

-----------------------------------------------------------------------------
(* The futures of accept_inner.  Dropping them releases their locks and      *)
(* whatever the listeners' accept futures hold.                              *)
HasRecv(c) == recvLock \in {None, c}
HasListen(c) == listenLock \in {None, c}

DropFutures(c) ==
  /\ recvLock' = IF recvLock = c THEN None ELSE recvLock
  /\ listenLock' = IF listenLock = c THEN None ELSE listenLock

DropUpgrades(c) ==
  stage' = IF listenLock = c THEN [l \in Listeners |-> "none"] ELSE stage

Call(c) ==
  /\ pc[c] = "out"
  /\ pc' = [pc EXCEPT ![c] = "top"]
  /\ result' = [result EXCEPT ![c] = None]
  /\ last' = 0
  /\ UNCHANGED <<waiting, stage, broken, closed, nextIndex, recvLock, listenLock, sessions,
                 opened, serving, timeouts>>

Return(c, r) ==
  /\ pc' = [pc EXCEPT ![c] = "out"]
  /\ result' = [result EXCEPT ![c] = r]

(* The top of the loop: a session already queued, or the select.             *)
TryRecv(c) ==
  /\ pc[c] = "top" /\ recvLock = None
  /\ IF sessions > 0
     THEN Return(c, "session") /\ sessions' = sessions - 1
     ELSE pc' = [pc EXCEPT ![c] = "select"] /\ UNCHANGED <<result, sessions>>
  /\ last' = 0
  /\ UNCHANGED <<waiting, stage, broken, closed, nextIndex, recvLock, listenLock, opened,
                 serving, timeouts>>

(* select polls the queued session first.                                    *)
SessionReady(c) == HasRecv(c) /\ sessions > 0

PollSession(c) ==
  /\ pc[c] = "select" /\ SessionReady(c)
  /\ sessions' = sessions - 1
  /\ Return(c, "session")
  /\ DropFutures(c) /\ DropUpgrades(c)
  /\ last' = 0
  /\ UNCHANGED <<waiting, broken, closed, nextIndex, opened, serving, timeouts>>

PollClosed_First(c) ==
  /\ pc[c] = "select" /\ HasListen(c) /\ closed
  /\ Return(c, "closed")
  /\ DropFutures(c)
  /\ last' = 0
  /\ UNCHANGED <<waiting, stage, broken, closed, nextIndex, sessions, opened, serving, timeouts>>

PollClosed(c) ==
  /\ pc[c] = "select" /\ ~SessionReady(c) /\ HasListen(c) /\ closed
  /\ Return(c, "closed")
  /\ DropFutures(c)
  /\ last' = 0
  /\ UNCHANGED <<waiting, stage, broken, closed, nextIndex, sessions, opened, serving, timeouts>>

(* accept_stable polls the listeners from start until one is ready.          *)
Rotated(k) == ((nextIndex + k - 2) % Len(Kinds)) + 1

ListenerReady(l) ==
  \/ l \in broken
  \/ Kinds[l] = "plain" /\ waiting[l] > 0
  \/ stage[l] = "ready"

FirstReady ==
  LET turns == {k \in Listeners : ListenerReady(Rotated(k))}
  IN IF turns = {} THEN 0 ELSE Min(turns)

(* The listeners polled start a handshake with the next connection.          *)
Polled(l) == FirstReady = 0 \/ \E k \in 1..(FirstReady - 1) : Rotated(k) = l
StartsUpgrade(l) == Kinds[l] = "upgrade" /\ stage[l] = "none" /\ waiting[l] > 0 /\ Polled(l)
Started(l) == IF StartsUpgrade(l) THEN waiting[l] - 1 ELSE waiting[l]

AdvanceIndex(index) == nextIndex' = (index % Len(Kinds)) + 1

TakenFrom(l, index) ==
  IF l = index /\ Kinds[l] = "plain" THEN waiting[l] - 1 ELSE Started(l)

PollCarrier(c) ==
  LET index == Rotated(FirstReady) IN
  /\ pc[c] = "select" /\ ~SessionReady(c) /\ HasListen(c) /\ ~closed
  /\ FirstReady # 0 /\ index \notin broken
  /\ waiting' = [l \in Listeners |-> TakenFrom(l, index)]
  /\ stage' = [l \in Listeners |-> "none"]
  /\ AdvanceIndex(index)
  /\ serving' = TRUE
  /\ last' = index
  /\ pc' = [pc EXCEPT ![c] = "top"]
  /\ DropFutures(c)
  /\ UNCHANGED <<broken, closed, sessions, opened, timeouts, result>>

(* A listener's error ends the whole set.                                    *)
PollFailure(c) ==
  /\ pc[c] = "select" /\ ~SessionReady(c) /\ HasListen(c) /\ ~closed
  /\ FirstReady # 0 /\ Rotated(FirstReady) \in broken
  /\ closed' = TRUE
  /\ waiting' = [l \in Listeners |-> 0]
  /\ stage' = [l \in Listeners |-> "none"]
  /\ Return(c, "failed")
  /\ DropFutures(c)
  /\ last' = 0
  /\ UNCHANGED <<broken, nextIndex, sessions, opened, serving, timeouts>>

(* Nothing is ready: the futures keep the locks they got.                    *)
PollPending(c) ==
  /\ pc[c] = "select" /\ ~SessionReady(c)
  /\ HasListen(c) => ~closed /\ FirstReady = 0
  /\ recvLock' = IF recvLock = None THEN c ELSE recvLock
  /\ listenLock' = IF listenLock = None THEN c ELSE listenLock
  /\ IF HasListen(c)
     THEN /\ waiting' = [l \in Listeners |-> Started(l)]
          /\ stage' = [l \in Listeners |-> IF StartsUpgrade(l) THEN "upgrading" ELSE stage[l]]
     ELSE UNCHANGED <<waiting, stage>>
  /\ <<recvLock', listenLock', waiting'>> # <<recvLock, listenLock, waiting>>
  /\ last' = 0
  /\ UNCHANGED <<broken, closed, nextIndex, sessions, opened, serving, timeouts, pc, result>>

(* accept_with_options: the timer fires while the accept is pending.         *)
Timeout(c) ==
  /\ pc[c] # "out" /\ timeouts < MaxTimeouts
  /\ timeouts' = timeouts + 1
  /\ Return(c, "timeout")
  /\ DropFutures(c) /\ DropUpgrades(c)
  /\ last' = 0
  /\ UNCHANGED <<waiting, broken, closed, nextIndex, sessions, opened, serving>>

Poll(c) == PollSession(c) \/ PollClosed(c) \/ PollCarrier(c) \/ PollFailure(c) \/ PollPending(c)

Next ==
  \/ \E l \in Listeners : Arrive(l) \/ Handshake(l) \/ Break(l)
  \/ OpenSession
  \/ \E c \in Callers : Call(c) \/ TryRecv(c) \/ Poll(c) \/ Timeout(c)

Spec == Init /\ [][Next]_vars

(* The host calls accept again and again, the executor polls its tasks, and  *)
(* a handshake that is left alone ends.                                      *)
FairSpec == /\ Spec
            /\ \A c \in Callers : WF_vars(Call(c)) /\ SF_vars(TryRecv(c)) /\ WF_vars(Poll(c))
            /\ \A l \in Listeners : SF_vars(Handshake(l) /\ stage'[l] = "ready")

-----------------------------------------------------------------------------

EndsDrained ==
  \A c \in Callers : result'[c] = "closed" /\ result[c] # "closed" =>
    sessions = 0 \/ recvLock \notin {None, c}

TakesToServe ==
  \A l \in Listeners :
    Kinds[l] = "plain" /\ waiting'[l] < waiting[l] => last' = l \/ closed'

=============================================================================
