---------------------------- MODULE EntryExecutor ----------------------------
(***************************************************************************)
(* One call of loop/executor.py:parallel_market_fok_entry: the caller      *)
(* submits a spot buy and a perp sell to a two-worker pool, waits for both *)
(* answers up to leg_timeout_s, leaves the `with` block (which joins the   *)
(* pool), classifies the two fills and, when exactly one was accepted,     *)
(* sends the reverse order for it.                                         *)
(*                                                                         *)
(* The venue decides an order (FOK: whole or nothing) at a moment of its   *)
(* own; the answer reaches the leg thread later, or never: every gateway   *)
(* turns an exception of the call (a time-out of the connection, say) into *)
(* accepted=False, whatever the venue has done with the order or will do.  *)
(***************************************************************************)
EXTENDS EntryReport

CONSTANTS CanTimeout,  \* the venue may be slower than leg_timeout_s
          CanLose      \* a call may raise, whatever becomes of its order

ASSUME ExecutorAssumption == CanTimeout \in BOOLEAN /\ CanLose \in BOOLEAN

VARIABLES pc,       \* where the calling thread is
          future,   \* per leg: the pool's future, and its result when done
          order,    \* per leg: what the venue made of the order
          fills,    \* the local dict `fills`
          raised,   \* ghost: legs about which a call raised, first order or rollback
          reverse,  \* what the venue made of the rollback order; "open": nothing yet
          report    \* the returned EntryResult

vars == <<pc, future, order, fills, raised, reverse, report>>

Finished == {"accepted", "refused", "cancelled"}

TypeOK ==
    /\ pc \in {"waiting", "joining", "unwinding", "returned"}
    /\ future \in [Legs -> {"pending", "running"} \cup Finished]
    /\ order \in [Legs -> {"none", "filled", "killed"}]
    /\ fills \in [Legs -> {"none", "accepted", "refused", "timeout"}]
    /\ raised \subseteq Legs
    /\ reverse \in {"none", "open", "filled", "killed"}
    /\ report \in Reports \cup {NoReport}

Init ==
    /\ pc = "waiting"
    /\ future = [l \in Legs |-> "pending"]
    /\ order = [l \in Legs |-> "none"]
    /\ fills = [l \in Legs |-> "none"]
    /\ raised = {}
    /\ reverse = "none"
    /\ report = NoReport

-----------------------------------------------------------------------------
(* The leg threads and the venue. *)

\* A pool thread takes the work item and calls the gateway.
Start(l) ==
    /\ future[l] = "pending"
    /\ future' = [future EXCEPT ![l] = "running"]
    /\ UNCHANGED <<pc, order, fills, raised, reverse, report>>

\* The venue fills the order whole or kills it, be it when the call has raised
\* or when the caller has returned.
Decide(l) ==
    /\ future[l] \in {"running", "refused"} /\ order[l] = "none"
    /\ \E d \in {"filled", "killed"} : order' = [order EXCEPT ![l] = d]
    /\ UNCHANGED <<pc, future, fills, raised, reverse, report>>

\* The call returns what the venue did.
Answer(l) ==
    /\ future[l] = "running" /\ order[l] # "none"
    /\ future' = [future EXCEPT ![l] = IF order[l] = "filled" THEN "accepted" ELSE "refused"]
    /\ UNCHANGED <<pc, order, fills, raised, reverse, report>>

\* The call raises; _place or the gateway makes it a FillResult with accepted=False.
Raise(l) ==
    /\ CanLose
    /\ future[l] = "running"
    /\ future' = [future EXCEPT ![l] = "refused"]
    /\ raised' = raised \cup {l}
    /\ UNCHANGED <<pc, order, fills, reverse, report>>

-----------------------------------------------------------------------------
(* The calling thread. *)

\* as_completed yields a finished leg; the loop ends with the second one.
Collect(l) ==
    /\ pc = "waiting"
    /\ fills[l] = "none" /\ future[l] \in {"accepted", "refused"}
    /\ fills' = [fills EXCEPT ![l] = future[l]]
    /\ pc' = IF fills[Other(l)] = "none" THEN "waiting" ELSE "joining"
    /\ UNCHANGED <<future, order, raised, reverse, report>>

\* as_completed raises: each leg it has not yielded becomes a synthetic
\* "leg_timeout" fill.  cancel() only stops a leg that no thread has taken.
LegTimeout ==
    /\ CanTimeout
    /\ pc = "waiting"
    /\ fills' = [l \in Legs |-> IF fills[l] = "none" THEN "timeout" ELSE fills[l]]
    /\ future' = [l \in Legs |-> IF fills[l] = "none" /\ future[l] = "pending"
                                 THEN "cancelled" ELSE future[l]]
    /\ pc' = "joining"
    /\ UNCHANGED <<order, raised, reverse, report>>

Accepted == {l \in Legs : fills[l] = "accepted"}

\* The exit of `with ThreadPoolExecutor` waits for both threads; what they
\* return after the timeout is dropped.
\* Wrong variant: nothing is waited for.
JoinedNothing == TRUE
Joined == \A l \in Legs : future[l] \in Finished

\* What is reported when the given legs were accepted; NoReport: to be unwound.
\* Wrong variant: one accepted leg is a success.
OutcomeOfAny(accepted) == IF accepted = {} THEN Rejected ELSE Success
Outcome(accepted) ==
    IF accepted = Legs THEN Success ELSE IF accepted = {} THEN Rejected ELSE NoReport

Classify ==
    /\ pc = "joining"
    /\ Joined
    /\ report' = Outcome(Accepted)
    /\ pc' = IF report' = NoReport THEN "unwinding" ELSE "returned"
    /\ UNCHANGED <<future, order, fills, raised, reverse>>

\* What is reported of the rollback of leg l.
\* Wrong variants: a failed one is a rejection that keeps a leg; its answer is
\* not looked at.
RollbackRejecting(l, answer) ==
    IF answer = "accepted" THEN Recovered ELSE Report("rejected", {l})
RollbackAssumed(l, answer) == Recovered
RollbackReport(l, answer) == IF answer = "accepted" THEN Recovered ELSE NakedOn(l)

\* Wrong variant of Rollback: a refused one starts the classification again.
RollbackStartingOver(l) ==
    /\ pc = "unwinding"
    /\ l \in Accepted
    /\ \E filled \in BOOLEAN :
         /\ reverse' = IF filled THEN "filled" ELSE "killed"
         /\ report' = IF filled THEN Recovered ELSE report
         /\ pc' = IF filled THEN "returned" ELSE "joining"
    /\ UNCHANGED <<future, order, fills, raised>>

\* Exactly one leg was accepted: the reverse order for it is filled, or killed, or
\* its call raises while the venue has still to decide it.
Rollback(l) ==
    /\ pc = "unwinding"
    /\ l \in Accepted
    /\ \E made \in {"filled", "killed"} \cup (IF CanLose THEN {"open"} ELSE {}) :
         /\ reverse' = made
         /\ raised' = IF made = "open" THEN raised \cup {l} ELSE raised
         /\ report' = RollbackReport(l, IF made = "filled" THEN "accepted" ELSE "refused")
    /\ pc' = "returned"
    /\ UNCHANGED <<future, order, fills>>

\* The venue decides a rollback order whose call has raised.
DecideReverse ==
    /\ reverse = "open"
    /\ reverse' \in {"filled", "killed"}
    /\ UNCHANGED <<pc, future, order, fills, raised, report>>

-----------------------------------------------------------------------------
Threads == DecideReverse \/ \E l \in Legs : Start(l) \/ Decide(l) \/ Answer(l) \/ Raise(l)

Caller == Classify \/ LegTimeout \/ \E l \in Legs : Collect(l) \/ Rollback(l)

\* The call is over; the program goes on elsewhere.
Returned == pc = "returned" /\ UNCHANGED vars

Next == Threads \/ Caller \/ Returned

Spec == Init /\ [][Next]_vars

\* The caller is never stopped for good, whatever the venue does.
CallerFairness == WF_vars(Classify) /\ WF_vars(LegTimeout) /\
                  \A l \in Legs : WF_vars(Collect(l)) /\ WF_vars(Rollback(l))

\* Every venue call ends: it returns or it raises.
VenueFairness == \A l \in Legs : WF_vars(Start(l)) /\ WF_vars(Decide(l))
                                 /\ WF_vars(Answer(l) \/ Raise(l))

FairSpec == Spec /\ CallerFairness /\ VenueFairness

\* A venue call may hang for ever; only the caller's own steps are certain.
HangingSpec == Spec /\ CallerFairness

-----------------------------------------------------------------------------
(* Properties. *)

\* The legs the venue holds because of this call.
Held == {l \in Legs : order[l] = "filled"} \ (IF reverse = "filled" THEN Accepted ELSE {})

\* Joining the pool (executor.py:91) settles the call: once it has returned, no
\* order of it is sent, filled or reversed behind the cycle's back any more, on a
\* leg that timed out or on any other, except where a call raised: the order of
\* such a call may fill whenever the venue pleases.
SettledOnReturn ==
    [][pc = "returned" => \A l \in Legs \ raised' : l \in Held' <=> l \in Held]_vars

\* Of a leg whose calls returned before the timeout the report says, then and
\* for ever after, exactly
\* whether the venue holds it, whichever thread was late, whatever the other leg
\* did and whatever the rollback did (executor.py:122-165).
HonestAboutHeard ==
    pc = "returned" =>
        \A l \in Legs \ raised : fills[l] # "timeout" => (l \in Held <=> l \in report.kept)

\* executor.py:87-89: a venue that hangs delays the entry by leg_timeout_s, the
\* future is abandoned and the cycle continues.
TimeoutReturns == (\E l \in Legs : fills[l] = "timeout") ~> pc = "returned"

\* An entry whose venue calls all end is answered: nobody waits on anybody.
CallReturns == <>(pc = "returned")

\* The legs of which the caller did not get the venue's answer.
Unheard == raised \cup {l \in Legs : fills[l] = "timeout"}

Contract == INSTANCE EntryContract
              WITH Lossy   <- CanTimeout \/ CanLose,
                   unheard <- IF pc = "returned" THEN Unheard ELSE {},
                   left    <- IF pc = "returned" THEN Held ELSE {}

\* The executor implements its contract: the interleaving of the two legs, the
\* timeout and the rollback amount to one step whose report is wrong about no
\* leg it heard of.
ImplementsContract == Contract!Spec

=============================================================================
