--------------------------- MODULE OrderSubmission ---------------------------
(***************************************************************************)
(* What an order write promises its caller, without the network: the       *)
(* broker applies each call at most once, "confirmed" is only reported for *)
(* an applied order, and "failed" only for one that is not applied and     *)
(* never will be.  Everything in between is "unknown": the caller has to   *)
(* reconcile with the broker's own records.                                *)
(***************************************************************************)
EXTENDS Naturals

CONSTANT Calls

VARIABLES outcome, executed

vars == <<outcome, executed>>

Outcomes == {"pending", "confirmed", "unknown", "failed"}

TypeOK == /\ outcome \in [Calls -> Outcomes]
          /\ executed \in [Calls -> Nat]

Init == /\ outcome = [c \in Calls |-> "pending"]
        /\ executed = [c \in Calls |-> 0]

\* The broker applies the order: once, and possibly after the caller was told
\* that the result is unknown.
Execute(c) == /\ executed[c] = 0
              /\ outcome[c] \in {"pending", "unknown"}
              /\ executed' = [executed EXCEPT ![c] = 1]
              /\ UNCHANGED outcome

Resolve(c, result) == /\ outcome[c] = "pending"
                      /\ outcome' = [outcome EXCEPT ![c] = result]
                      /\ UNCHANGED executed

Confirm(c) == executed[c] = 1 /\ Resolve(c, "confirmed")
Doubt(c) == Resolve(c, "unknown")
Fail(c) == executed[c] = 0 /\ Resolve(c, "failed")

Next == \E c \in Calls : Execute(c) \/ Confirm(c) \/ Doubt(c) \/ Fail(c)

Spec == Init /\ [][Next]_vars
=============================================================================
