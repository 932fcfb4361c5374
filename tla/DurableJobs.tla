----------------------------- MODULE DurableJobs -----------------------------
(***************************************************************************)
(* What a job queue with a dead letter queue promises of each payload,      *)
(* without tables, scans, locks or runners: once accepted it is being       *)
(* attempted, or kept for inspection, or settled for good; it never goes    *)
(* missing, and it is not attempted forever.                                *)
(***************************************************************************)
CONSTANT Items

VARIABLE place   \* where each payload is

Places == {"new", "active", "dead", "settled"}

Init == place = [i \in Items |-> "new"]

In(S) == {i \in Items : place[i] \in S}
Relocate(S, where, T) ==
    place' = [i \in Items |-> IF i \in S THEN where
                              ELSE IF i \in T THEN "settled" ELSE place[i]]

\* A payload is accepted; those it replaces are settled.
Accept == \E i \in In({"new"}), T \in SUBSET In({"active", "dead"}) :
              Relocate({i}, "active", T)

\* Attempts on some payloads are given up: they are kept, and visible.
Bury == \E S \in SUBSET In({"active"}) : Relocate(S, "dead", {})

\* A kept payload is attempted again; those it replaces are settled.
Revive == \E i \in In({"dead"}), T \in SUBSET In({"active"}) :
              Relocate({i}, "active", T)

\* Payloads succeed or are dismissed.
Settle == \E T \in SUBSET In({"active", "dead"}) : Relocate({}, "settled", T)

Next == Accept \/ Bury \/ Revive \/ Settle

Safety == Init /\ [][Next]_place
Progress == \A i \in Items : place[i] = "active" ~> place[i] # "active"

Spec == Safety /\ Progress
=============================================================================
