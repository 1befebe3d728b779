----------------------------- MODULE EntryReport -----------------------------
(***************************************************************************)
(* What loop/executor.py:parallel_market_fok_entry answers to the cycle,   *)
(* and which legs may then really be held at the venue.  Shared by the     *)
(* executor, by its contract and by the trading cycle that calls it.       *)
(***************************************************************************)

\* venue_leg of a FillResult.
Legs == {"spot", "futures"}
Other(l) == IF l = "spot" THEN "futures" ELSE "spot"

\* An EntryResult: its outcome and the legs it says stay held.
Report(outcome, kept) == [outcome |-> outcome, kept |-> kept]

Success   == Report("success", Legs)
Rejected  == Report("rejected", {})
Recovered == Report("orphan_recovered", {})
NakedOn(l) == Report("orphan_naked", {l})

Reports == {Success, Rejected, Recovered} \cup {NakedOn(l) : l \in Legs}

NoReport == Report("none", {})

\* The legs whose fill the caller may not have heard of.  Every accepted fill is
\* a fill, so a success leaves nothing unheard.
Unheards(rep, lossy) == IF lossy /\ rep # Success THEN SUBSET Legs ELSE {{}}

\* The legs the venue may hold when the call has returned rep: the reported
\* ones, except that anything may be true of an unheard leg.
Leftovers(rep, unheard) == {left \in SUBSET Legs : left \ unheard = rep.kept \ unheard}

=============================================================================
