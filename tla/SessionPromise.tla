--------------------------- MODULE SessionPromise ---------------------------
(***************************************************************************)
(* What a connection promises about the sessions it hosts: each session    *)
(* begins once and ends once, one session at a time, and only the end of   *)
(* the connection itself ends several of them.  ConnectionLifecycle        *)
(* implements this specification.                                          *)
(***************************************************************************)

CONSTANT SessionIds

VARIABLES
    carrier,   \* "up" until the connection is closed
    life       \* "absent", "live" or "ended", for each session id

vars == <<carrier, life>>

Init ==
    /\ carrier = "up"
    /\ life = [s \in SessionIds |-> "absent"]

Begin(s) ==
    /\ carrier = "up"
    /\ life[s] = "absent"
    /\ life' = [life EXCEPT ![s] = "live"]
    /\ UNCHANGED carrier

\* A session ends; its siblings do not notice.
End(s) ==
    /\ carrier = "up"
    /\ life[s] = "live"
    /\ life' = [life EXCEPT ![s] = "ended"]
    /\ UNCHANGED carrier

EndAll ==
    /\ carrier = "up"
    /\ carrier' = "down"
    /\ life' = [s \in SessionIds |-> IF life[s] = "live" THEN "ended" ELSE life[s]]

Next ==
    \/ EndAll
    \/ \E s \in SessionIds : Begin(s) \/ End(s)

Spec == Init /\ [][Next]_vars
=============================================================================
