------------------------------ MODULE RunLife ------------------------------
(* What a workflow run promises about its steps, without tasks, proposals   *)
(* and operators: a step begins when everything it needs is approved, comes *)
(* to rest, is repeated or approved, and stays approved; approving a step   *)
(* begins every step that was only waiting for it; a closed run stands.     *)
CONSTANTS Steps, Needs

VARIABLES phase,   \* Steps -> "waiting", "running", "settled" or "approved"
          open     \* has the run not been cancelled

Approved(p) == {s \in Steps : p[s] = "approved"}
\* every waiting step whose needed steps are approved begins
Begun(p) ==
    [s \in Steps |-> IF p[s] = "waiting" /\ Needs[s] \subseteq Approved(p) THEN "running" ELSE p[s]]

Init == phase = [s \in Steps |-> "waiting"] /\ open = TRUE

Begin == open = TRUE /\ Approved(phase) = {} /\ phase' = Begun(phase) /\ UNCHANGED open
Settle(s) ==
    open = TRUE /\ phase[s] = "running" /\ phase' = [phase EXCEPT ![s] = "settled"] /\ UNCHANGED open
Approve(s) ==
    /\ open = TRUE /\ phase[s] \in {"running", "settled"}
    /\ phase' = Begun([phase EXCEPT ![s] = "approved"]) /\ UNCHANGED open
Repeat(s) ==
    open = TRUE /\ phase[s] = "settled" /\ phase' = [phase EXCEPT ![s] = "running"] /\ UNCHANGED open
Close == open = TRUE /\ open' = FALSE /\ UNCHANGED phase

Next == Begin \/ Close \/ \E s \in Steps : Settle(s) \/ Approve(s) \/ Repeat(s)

Spec == Init /\ [][Next]_<<phase, open>>
=============================================================================
