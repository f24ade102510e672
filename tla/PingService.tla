---------------------------- MODULE PingService ----------------------------
(***************************************************************************)
(* What the ping facility promises whoever calls GUChord::SendPing: every  *)
(* ping gets at most one verdict; a failure comes at once when the address *)
(* is unknown, and otherwise not before Timeout and before twice Timeout   *)
(* has passed.  Ids, datagrams, trackers and timers are not visible here.  *)
(***************************************************************************)
EXTENDS Integers

CONSTANTS Ping, Timeout

VARIABLES
    status,   \* what the caller knows of each ping
    waited    \* for how long a pending ping has been waited for

Status == {"unsent", "pending", "succeeded", "failed", "forgotten"}

Init ==
    /\ status = [k \in Ping |-> "unsent"]
    /\ waited = [k \in Ping |-> 0]

Pending == {k \in Ping : status[k] = "pending"}

\* The caller's command, for one node or for all of them.
Send(S) ==
    /\ \A k \in S : status[k] = "unsent"
    /\ status' = [k \in Ping |-> IF k \in S THEN "pending" ELSE status[k]]
    /\ UNCHANGED waited

Refuse(k) ==
    /\ status[k] = "unsent"
    /\ status' = [status EXCEPT ![k] = "failed"]
    /\ UNCHANGED waited

Succeed(k) ==
    /\ status[k] = "pending"
    /\ status' = [status EXCEPT ![k] = "succeeded"]
    /\ waited' = [waited EXCEPT ![k] = 0]

\* All pings that have waited long enough fail together.
Fail(S) ==
    /\ \A k \in S : status[k] = "pending" /\ waited[k] >= Timeout
    /\ status' = [k \in Ping |-> IF k \in S THEN "failed" ELSE status[k]]
    /\ waited' = [k \in Ping |-> IF k \in S THEN 0 ELSE waited[k]]

\* Time cannot pass a deadline.
Wait ==
    /\ \A k \in Pending : waited[k] < 2 * Timeout - 1
    /\ waited' = [k \in Ping |-> IF k \in Pending THEN waited[k] + 1 ELSE waited[k]]
    /\ UNCHANGED status

\* The application stops and takes no further interest.
Forget ==
    /\ status' = [k \in Ping |-> IF k \in Pending THEN "forgotten" ELSE status[k]]
    /\ waited' = [k \in Ping |-> 0]

Next ==
    \/ \E S \in SUBSET Ping : Send(S) \/ Fail(S)
    \/ \E k \in Ping : Refuse(k) \/ Succeed(k)
    \/ Wait
    \/ Forget

Spec == Init /\ [][Next]_<<status, waited>>

=============================================================================
