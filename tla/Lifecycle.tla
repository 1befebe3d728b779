------------------------------ MODULE Lifecycle ------------------------------
(***************************************************************************)
(* The position state machine of core/lifecycle.py: a partial function     *)
(* from (status, event) to status.  An event the table does not list is an *)
(* IllegalTransition in the code and an application outside the domain     *)
(* here.  Pure: no constants, no variables.                                *)
(***************************************************************************)

\* OPEN_STATUSES: the rows every "currently exposed" query returns.
Exposed == {"open", "naked_spot", "naked_perp"}
Naked == Exposed \ {"open"}
Statuses == Exposed \cup {"closed"}

Events == {"open_both_legs_filled", "open_only_spot_filled", "open_only_perp_filled",
           "discover_orphan_spot", "discover_orphan_perp", "hedge_recovered",
           "flat_closed", "stale_reconciled", "dust_converted"}

\* Whether transition() has a rule; CLOSED has none.
HasRule(status, event) ==
    \/ /\ status = "open"
       /\ event \in {"flat_closed", "open_only_spot_filled", "open_only_perp_filled",
                     "discover_orphan_spot", "discover_orphan_perp"}
    \/ /\ status \in Naked
       /\ event \in {"hedge_recovered", "flat_closed", "stale_reconciled"}
    \/ status = "naked_spot" /\ event = "dust_converted"

\* The status an event that names a surviving leg leads to.
Orphaned(event) ==
    IF event \in {"open_only_spot_filled", "discover_orphan_spot"} THEN "naked_spot" ELSE "naked_perp"

\* transition(): total over the pairs that have a rule.
Transition == [p \in {q \in Statuses \X Events : HasRule(q[1], q[2])} |->
                 CASE p[2] \in {"flat_closed", "stale_reconciled", "dust_converted"} -> "closed"
                   [] p[2] = "hedge_recovered" -> "open"
                   [] OTHER -> Orphaned(p[2])]

\* Wrong variant of InitialStatus: the event itself is stored.
InitialStatusRaw(event) ==
    IF event = "open_both_legs_filled" THEN "open" ELSE event

\* initial_status(): the status of a row that is inserted.
InitialStatus(event) ==
    IF event = "open_both_legs_filled" THEN "open" ELSE Orphaned(event)

=============================================================================
