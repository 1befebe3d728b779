----------------------------- MODULE TradingCycle -----------------------------
(***************************************************************************)
(* One live worker: the cycles of loop/cycle.py:run_cycle for a (live,     *)
(* venue) pair, each inside one database session (loop/runner.py:_run_one, *)
(* state/db.py:session_scope), against the venue that holds the legs.      *)
(*                                                                         *)
(* A step handles one position row in one pass of the cycle: the venue     *)
(* reads the code makes for it, the orders it sends, the row's new status. *)
(* Between steps the operator edits mode_state, legs disappear from the    *)
(* venue, a read raises, or the session is lost (crash, or a flush that    *)
(* fails: the session is then unusable and everything is rolled back).     *)
(*                                                                         *)
(* The market is a nondeterministic choice: which base is the best         *)
(* candidate, whether a gate passes, whether an exit triggers, whether a   *)
(* FOK order finds its depth.  Quantities are counted in units of a fixed  *)
(* position size Qty; prices, fees, funding figures and trades rows are    *)
(* abstracted away.                                                        *)
(***************************************************************************)
EXTENDS Integers, FiniteSets, Lifecycle, EntryReport

CONSTANTS
    Bases,       \* base assets the venue lists
    NoBase,      \* the base of a row id that is not in the table
    MaxRows,     \* bound: position rows ever inserted
    MaxLegs,     \* bound: positions' worth of a leg the model follows, long or short
    MaxOpen,     \* strategy_config.max_open_positions
    Qty,         \* units per leg of a position
    LossSizes,   \* units a leg can lose at a time without the bot (ADL, operator)
    ModeStates,  \* the mode_state rows the operator sets
    Faults,      \* which of the kinds below can happen
    Dedup,       \* TRUE iff the venue refuses a client order id it has seen
    HedgeCheck   \* strategy_config.hedge_integrity_check

\* lost_answer   the call of an order raises, answered accepted=False, and the
\*               order fills all the same, at once or whenever the venue pleases
\* bad_read      fetch_balance answers zeros, list_open_perp_positions answers []
\* read_error    a venue read raises; the cycle is over
\* lost_session  the process dies, or a flush fails, before the commit
FaultKinds == {"lost_answer", "bad_read", "read_error", "lost_session"}

ModeStateRows == [entry_enabled : BOOLEAN, exit_enabled : BOOLEAN, maintenance_mode : BOOLEAN]

ASSUME CycleAssumption ==
    /\ Bases # {} /\ NoBase \notin Bases
    /\ MaxRows \in Nat \ {0} /\ MaxLegs \in Nat /\ MaxOpen \in Nat
    /\ Qty \in Nat \ {0}
    /\ LossSizes \subseteq 1 .. Qty
    /\ ModeStates \subseteq ModeStateRows /\ ModeStates # {}
    /\ Faults \subseteq FaultKinds
    /\ Dedup \in BOOLEAN /\ HedgeCheck \in BOOLEAN

VARIABLES
    pc,         \* the pass of run_cycle the worker is in
    todo,       \* the rows the pass has still to visit
    modeState,  \* the committed mode_state row, edited by the operator
    mayEnter,   \* entry_enabled as this cycle read it; FALSE until it has
    rows,       \* positions, as the cycle's session sees them
    db,         \* positions, as committed
    hold,       \* units held at the venue per base and leg; a short is negative
    seen,       \* repeatable client order ids a deduplicating venue has received
    touched,    \* bases with an order filled since the last commit
    misled      \* ghost: bases about which the bot was told something false,
                \* or whose fills it forgot with a lost session

vars == <<pc, todo, modeState, mayEnter, rows, db, hold, seen, touched, misled>>
venueVars == <<hold, seen, touched, misled>>

RowIds == 1 .. MaxRows

NoRow == [status |-> "absent", base |-> NoBase]
Row == [status : Statuses, base : Bases] \cup {NoRow}

\* positions_currently_exposed: the rows with a status in S, and those of a base.
In(R, S) == {r \in RowIds : R[r].status \in S}
\* Wrong variant: naked rows do not count as exposed.
ExposedOnIfOpen(R, b) == {r \in In(R, {"open"}) : R[r].base = b}
ExposedOn(R, b) == {r \in In(R, Exposed) : R[r].base = b}

\* Repeatable client order ids.  Ids built from the cycle id are fresh in every
\* cycle and never seen twice.
Coids == ({"hedge", "close"} \X RowIds \X Legs) \cup ({"exit"} \X Bases \X Legs)

Passes == {"stale", "integrity", "recover", "maintenance", "exits", "entries", "commit"}

TypeOK ==
    /\ pc \in {"idle"} \cup Passes
    /\ todo \subseteq RowIds
    /\ modeState \in ModeStates /\ mayEnter \in BOOLEAN
    /\ rows \in [RowIds -> Row] /\ db \in [RowIds -> Row]
    /\ hold \in [Bases -> [Legs -> Int]]
    /\ seen \subseteq Coids
    /\ touched \subseteq Bases /\ misled \subseteq Bases

Init ==
    /\ pc = "idle" /\ todo = {}
    /\ modeState \in ModeStates /\ mayEnter = FALSE
    /\ rows = [r \in RowIds |-> NoRow] /\ db = rows
    /\ hold = [b \in Bases |-> [l \in Legs |-> 0]]
    /\ seen = {} /\ touched = {} /\ misled = {}

-----------------------------------------------------------------------------
(* The venue. *)

MaxUnits == MaxLegs * Qty

\* Opening a leg buys spot or sells perp; closing reverses it.  A long perp of
\* MaxUnits stands for that or more, so that no bound stops a buy.
Opened(h, l, q) == IF l = "spot" THEN h + q ELSE h - q
Closed(h, l, q) == IF l = "spot" THEN h - q ELSE IF h + q > MaxUnits THEN MaxUnits ELSE h + q

\* Whether the venue can fill an order that opens or closes q units of a leg (and
\* the model can follow it).  A spot sale needs the asset; perp orders are sent
\* without reduceOnly, so a buy goes through with no short to reduce.
CanOpen(b, l, q) == Opened(hold[b][l], l, q) \in -MaxUnits .. MaxUnits
CanClose(b, l, q) == l = "spot" => hold[b][l] >= q

\* The venue refuses a duplicate client order id, filled or not.
Duplicate(coid) == Dedup /\ coid \in seen

\* What place_market_fok answers: "accepted" (filled), "refused" (it never fills),
\* or "lost" (accepted=False because the call raised; see LateFill).
Answers(feasible) == {"refused"} \cup (IF feasible THEN {"accepted"} ELSE {})
                                 \cup (IF "lost_answer" \in Faults THEN {"lost"} ELSE {})

Abs(n) == IF n < 0 THEN -n ELSE n

\* The size of a leg as the cycle computes it: free + total for spot (both
\* count an unlocked coin), abs(contracts) for the perp; 0 when the read fails.
TrueSize(b, l) == IF l = "spot" THEN 2 * hold[b][l] ELSE Abs(hold[b][l])
Sizes(b, l) == {TrueSize(b, l)} \cup (IF "bad_read" \in Faults THEN {0} ELSE {})

\* The venue's side of a row's handler: the base's legs become legs, coids are
\* the repeatable ids sent, wrong is whether the bot was told something false.
Venue(b, legs, coids, wrong) ==
    /\ hold' = [hold EXCEPT ![b] = legs]
    /\ seen' = IF Dedup THEN seen \cup coids ELSE seen
    /\ touched' = IF legs = hold[b] THEN touched ELSE touched \cup {b}
    /\ misled' = IF wrong THEN misled \cup {b} ELSE misled

\* _mark_status and _mark_closed, through transition().
Mark(r, event) == rows' = [rows EXCEPT ![r].status = Transition[<<rows[r].status, event>>]]

-----------------------------------------------------------------------------
(* Phase A: safety. *)

Visit(pass, r) ==
    /\ pc = pass /\ r \in todo
    /\ todo' = todo \ {r}
    /\ UNCHANGED <<pc, modeState, mayEnter, db>>

\* The leg a naked row still has.
HeldLeg(status) == IF status = "naked_spot" THEN "spot" ELSE "futures"

\* Pass 1 (_is_underlying_gone): a naked row whose leg is gone is closed.
StaleReconcile(r) ==
    /\ Visit("stale", r)
    /\ LET b == rows[r].base
           l == HeldLeg(rows[r].status)
       IN \E size \in Sizes(b, l) :
             /\ IF size < Qty THEN Mark(r, "stale_reconciled") ELSE UNCHANGED rows
             /\ Venue(b, hold[b], {}, size # TrueSize(b, l))

\* What the sizes of the two legs say of an open row that misses one, or both.
\* Wrong variant: the leg that is gone is taken for the one that is left.
MissingLegEventSwapped(spot, perp) ==
    IF spot < Qty /\ perp < Qty THEN "flat_closed"
    ELSE IF spot < Qty THEN "discover_orphan_spot" ELSE "discover_orphan_perp"
MissingLegEvent(spot, perp) ==
    IF spot < Qty /\ perp < Qty THEN "flat_closed"
    ELSE IF spot < Qty THEN "discover_orphan_perp" ELSE "discover_orphan_spot"

\* Pass 2 (_check_hedge_integrity).
CheckHedgeIntegrity(r) ==
    /\ Visit("integrity", r)
    /\ LET b == rows[r].base
       IN \E spot \in Sizes(b, "spot"), perp \in Sizes(b, "futures") :
             /\ IF spot >= Qty /\ perp >= Qty THEN UNCHANGED rows
                ELSE Mark(r, MissingLegEvent(spot, perp))
             /\ Venue(b, hold[b], {}, spot # TrueSize(b, "spot") \/ perp # TrueSize(b, "futures"))

\* The quantity to recover: what is there, at most the position.
\* Wrong variant: all that is there.
RecoveryQtyUncapped(size) == size
RecoveryQty(size) == IF size < Qty THEN size ELSE Qty

\* The client order ids of a recovery depend on the row and the leg only.
HedgeId(r) == <<"hedge", r, Other(HeldLeg(rows[r].status))>>
CloseId(r) == <<"close", r, HeldLeg(rows[r].status)>>

\* Nothing is left of the leg.
RecoverNothing(r, b, l, size) ==
    /\ RecoveryQty(size) = 0
    /\ Mark(r, "flat_closed")
    /\ Venue(b, hold[b], {}, size # TrueSize(b, l))

\* The gate passes and the hedge, an order that opens leg m, is accepted.
RecoverByHedge(r, b, l, m, size) ==
    LET q == RecoveryQty(size)
    IN /\ q > 0
       /\ "accepted" \in Answers(CanOpen(b, m, q) /\ ~Duplicate(HedgeId(r)))
       /\ Mark(r, "hedge_recovered")
       /\ Venue(b, [hold[b] EXCEPT ![m] = Opened(@, m, q)], {HedgeId(r)}, size # TrueSize(b, l))

\* The gate fails, or the hedge is not accepted: close the leg that is held.
RecoverByClose(r, b, l, m, size) ==
    LET q == RecoveryQty(size)
    IN /\ q > 0
       /\ \E gate \in BOOLEAN,
             h \in Answers(CanOpen(b, m, q) /\ ~Duplicate(HedgeId(r))) \ {"accepted"},
             c \in Answers(CanClose(b, l, q) /\ ~Duplicate(CloseId(r))) :
            /\ ~gate => h = "refused"
            /\ IF c = "accepted" THEN Mark(r, "flat_closed") ELSE UNCHANGED rows
            /\ Venue(b, [hold[b] EXCEPT ![l] = IF c = "accepted" THEN Closed(@, l, q) ELSE @],
                     {CloseId(r)} \cup (IF gate THEN {HedgeId(r)} ELSE {}),
                     size # TrueSize(b, l) \/ "lost" \in {h, c})

\* Pass 3 (_recover_naked_spot, _recover_naked_perp): hedge the held leg, else
\* close it.
RecoverNaked(r) ==
    /\ Visit("recover", r)
    /\ LET b == rows[r].base
           l == HeldLeg(rows[r].status)
       IN \E size \in Sizes(b, l) :
             \/ RecoverNothing(r, b, l, size)
             \/ RecoverByHedge(r, b, l, Other(l), size)
             \/ RecoverByClose(r, b, l, Other(l), size)

-----------------------------------------------------------------------------
(* Maintenance, Phase B and Phase C. *)

\* Both orders of a close must be accepted for the row to close.
\* Wrong variant: one is enough.
ClosesOnOneLeg(spotAnswer, perpAnswer) == "accepted" \in {spotAnswer, perpAnswer}
Closes(spotAnswer, perpAnswer) == {spotAnswer, perpAnswer} = {"accepted"}

\* _close_position_market_fok: sell the spot leg, then buy the perp leg, both of
\* them for any status of the row; coids are the ids sent that repeat.
ClosePosition(r, coids) ==
    LET b == rows[r].base
        answers(l) == Answers(CanClose(b, l, Qty)
                              /\ ~\E c \in coids : c[3] = l /\ Duplicate(c))
    IN \E s \in answers("spot"), p \in answers("futures") :
         /\ IF Closes(s, p) THEN Mark(r, "flat_closed") ELSE UNCHANGED rows
         /\ Venue(b, [hold[b] EXCEPT
                         !["spot"] = IF s = "accepted" THEN Closed(@, "spot", Qty) ELSE @,
                         !["futures"] = IF p = "accepted" THEN Closed(@, "futures", Qty) ELSE @],
                  coids, "lost" \in {s, p})

\* _close_all_for_maintenance: every exposed row, with ids of this cycle.
MaintenanceClose(r) == Visit("maintenance", r) /\ ClosePosition(r, {})

\* _evaluate_position_exit: stay (no trigger, a deferral, skewed snapshots), or
\* close with ids hashed from the constant cycle id "exit".
EvaluateExit(r) ==
    /\ Visit("exits", r)
    /\ \/ UNCHANGED <<rows, hold, seen, touched, misled>>
       \/ ClosePosition(r, {"exit"} \X {rows[r].base} \X Legs)

\* The executor reported rep without the answers about the legs in unheard, and the
\* venue holds the legs in left: the row new is inserted unless nothing is kept.
EntryMade(b, rep, new, unheard, left) ==
    /\ new \in In(rows, {"absent"}) /\ \A r \in 1 .. new - 1 : rows[r] # NoRow
    /\ \A l \in left : CanOpen(b, l, Qty)
    /\ rows' = IF rep.kept = {} THEN rows
               ELSE [rows EXCEPT ![new] =
                       [base |-> b,
                        status |-> InitialStatus(
                           IF rep = Success THEN "open_both_legs_filled"
                           ELSE IF "spot" \in rep.kept THEN "open_only_spot_filled"
                           ELSE "open_only_perp_filled")]]
    /\ Venue(b, [l \in Legs |-> IF l \in left THEN Opened(hold[b][l], l, Qty) ELSE hold[b][l]],
             {}, unheard # {})

\* _phase_c_entries: one candidate that is not held.
EnterPosition(b) ==
    /\ pc = "entries"
    /\ Cardinality(In(rows, Exposed)) < MaxOpen
    /\ ExposedOn(rows, b) = {}
    /\ \E rep \in Reports, new \in RowIds :
       \E unheard \in Unheards(rep, "lost_answer" \in Faults) :
       \E left \in Leftovers(rep, unheard) : EntryMade(b, rep, new, unheard, left)
    /\ pc' = "commit"
    /\ UNCHANGED <<todo, modeState, mayEnter, db>>

\* At capacity, no candidate, the candidate is rejected before any order, or a
\* read raises.
NoEntry ==
    /\ pc = "entries"
    /\ pc' = "commit"
    /\ UNCHANGED <<todo, modeState, mayEnter, rows, db>> /\ UNCHANGED venueVars

-----------------------------------------------------------------------------
(* The cycle from pass to pass, and its session. *)

Pass(from, to, visit) ==
    /\ pc = from /\ todo = {}
    /\ pc' = to /\ todo' = visit
    /\ UNCHANGED <<modeState, rows, db>> /\ UNCHANGED venueVars

StartCycle == Pass("idle", "stale", In(rows, Naked)) /\ UNCHANGED mayEnter

BeginIntegrity ==
    /\ Pass("stale", "integrity", IF HedgeCheck THEN In(rows, {"open"}) ELSE {})
    /\ UNCHANGED mayEnter

\* Wrong variant: only one direction of naked leg is recovered.
BeginRecoveryOfSpot == Pass("integrity", "recover", In(rows, {"naked_spot"})) /\ UNCHANGED mayEnter

BeginRecovery == Pass("integrity", "recover", In(rows, Naked)) /\ UNCHANGED mayEnter

\* The rows Phase B visits.
\* Wrong variant: every exposed row.
ExitingAll(R) == In(R, Exposed)
Exiting(R) == In(R, {"open"})

\* Wrong variant: maintenance mode does not cut the cycle short.
ReadModeStateGoingOn ==
    /\ mayEnter' = modeState.entry_enabled
    /\ Pass("recover", "exits", Exiting(rows))

\* Phase A is over: mode_state is read once for the rest of the cycle.
ReadModeState ==
    /\ mayEnter' = modeState.entry_enabled
    /\ IF modeState.maintenance_mode
       THEN Pass("recover", "maintenance", In(rows, Exposed))
       ELSE Pass("recover", "exits", Exiting(rows))

EndMaintenance == Pass("maintenance", "commit", {}) /\ UNCHANGED mayEnter

EndExits ==
    /\ Pass("exits", IF mayEnter THEN "entries" ELSE "commit", {})
    /\ UNCHANGED mayEnter

\* session_scope commits when _run_one is done.
Commit ==
    /\ pc = "commit"
    /\ pc' = "idle"
    /\ db' = rows /\ touched' = {} /\ mayEnter' = FALSE
    /\ UNCHANGED <<todo, modeState, rows, hold, seen, misled>>

\* A venue read for a row raises: run_cycle logs it and returns, and the session
\* commits.  (In Phase C this is NoEntry.)
ReadError ==
    /\ "read_error" \in Faults
    /\ pc \in {"stale", "integrity", "recover", "exits"} /\ todo # {}
    /\ pc' = "commit" /\ todo' = {}
    /\ UNCHANGED <<modeState, mayEnter, rows, db>> /\ UNCHANGED venueVars

\* The session's writes are rolled back; the orders it sent are not.
LoseSession ==
    /\ "lost_session" \in Faults
    /\ pc # "idle"
    /\ pc' = "idle" /\ todo' = {}
    /\ rows' = db
    /\ touched' = {} /\ misled' = misled \cup touched
    /\ mayEnter' = FALSE
    /\ UNCHANGED <<modeState, db, hold, seen>>

-----------------------------------------------------------------------------
(* The surroundings. *)

\* The dashboard's safety form writes mode_state.
OperatorSets ==
    /\ modeState' \in ModeStates
    /\ UNCHANGED <<pc, todo, mayEnter, rows, db>> /\ UNCHANGED venueVars

\* A leg shrinks without the bot: liquidation, ADL, a withdrawal, a manual order.
LoseLeg(b, l) ==
    /\ \E n \in LossSizes :
         /\ Abs(hold[b][l]) >= n
         /\ hold' = [hold EXCEPT ![b][l] = IF @ > 0 THEN @ - n ELSE @ + n]
    /\ UNCHANGED <<pc, todo, modeState, mayEnter, rows, db, seen, touched, misled>>

\* The venue decides an order whose call has raised.  Which bases have one is not
\* kept: any base in misled may see one of its legs opened or closed.
LateFill(b, l) ==
    /\ "lost_answer" \in Faults /\ b \in misled
    /\ \E q \in 1 .. Qty :
         \/ CanOpen(b, l, q) /\ hold' = [hold EXCEPT ![b][l] = Opened(@, l, q)]
         \/ CanClose(b, l, q) /\ hold' = [hold EXCEPT ![b][l] = Closed(@, l, q)]
    /\ UNCHANGED <<pc, todo, modeState, mayEnter, rows, db, seen, touched, misled>>

Handlers(r) == \/ StaleReconcile(r) \/ CheckHedgeIntegrity(r) \/ RecoverNaked(r)
               \/ MaintenanceClose(r) \/ EvaluateExit(r)

Phases == \/ StartCycle \/ BeginIntegrity \/ BeginRecovery \/ ReadModeState
          \/ EndMaintenance \/ EndExits \/ NoEntry \/ Commit

Worker == \/ \E r \in RowIds : Handlers(r)
          \/ \E b \in Bases : EnterPosition(b)
          \/ Phases

Next == \/ Worker
        \/ ReadError \/ LoseSession
        \/ OperatorSets
        \/ \E b \in Bases, l \in Legs : LoseLeg(b, l) \/ LateFill(b, l)

Spec == Init /\ [][Next]_vars

\* The worker thread keeps cycling (loop/runner.py:_worker_loop), and an order
\* that may be accepted whenever it is sent is accepted in the end: a FOK order
\* finds its depth some day.  Nothing makes the bot enter or exit.
FairSpec ==
    /\ Spec /\ WF_vars(Worker)
    /\ \A r \in RowIds :
         /\ SF_vars(RecoverNaked(r) /\ rows'[r].status # rows[r].status)
         /\ SF_vars(MaintenanceClose(r) /\ rows'[r].status = "closed")

\* A market that calls for the exit of a position again and again.
ExitingSpec ==
    /\ FairSpec
    /\ \A r \in RowIds : SF_vars(EvaluateExit(r) /\ rows'[r].status = "closed")

-----------------------------------------------------------------------------
(* Safety. *)

Tracked(b) == ExposedOn(rows, b) # {}

\* What the venue holds for the bot, it knows of: a base with spot or a short has
\* an exposed row, through orphaned entries, half-closed pairs, recovery, losses
\* of legs and rolled-back sessions, as long as no answer about the base was
\* false.  A long perp is left out: see ClosedIsFlat.
HeldLegsTracked ==
    \A b \in Bases \ misled :
        hold[b]["spot"] > 0 \/ hold[b]["futures"] < 0 => Tracked(b)

\* However often a leg is opened, recovered and closed again, the bot never
\* holds more of it than one position (cycle.py:189 and 274 cap the recovery,
\* cycle.py:509 skips held bases).
NeverDoubled ==
    \A b \in Bases \ misled : hold[b]["spot"] <= Qty /\ hold[b]["futures"] >= -Qty

\* A naked row names the leg that is left: the other one is really gone, so that
\* hedging it again cannot double it (cycle.py:260-379).
NakedLegIsAlone ==
    \A r \in In(rows, Naked) :
        LET b == rows[r].base
        IN b \notin misled => IF rows[r].status = "naked_spot" THEN hold[b]["futures"] >= 0
                              ELSE hold[b]["spot"] = 0

\* A base is in at most one exposed position, in the session and in the database,
\* whatever was lost or misread (cycle.py:504-509).
OneRowPerBase ==
    \A R \in {rows, db}, b \in Bases : \A r, s \in ExposedOn(R, b) : r = s

\* SYSTEM.md:356-362: a position that Phase A lets through to the exits has its
\* spot leg and a short of the same size at the venue (when no leg is lost in
\* between).
PhaseAHedges ==
    pc = "exits" =>
        \A r \in todo :
            LET b == rows[r].base
            IN b \notin misled => hold[b]["spot"] = Qty /\ hold[b]["futures"] = -Qty

\* SYSTEM.md:106: a position is closed when both of its legs are flat.
ClosedIsFlat ==
    [][\A r \in RowIds :
         LET b == rows[r].base
         IN rows[r].status \in Exposed /\ rows'[r].status = "closed" /\ b \notin misled
            => \A l \in Legs : hold'[b][l] = 0]_vars

-----------------------------------------------------------------------------
(* Liveness. *)

\* SYSTEM.md:94: recovery tries a naked leg again every cycle, so that it is
\* hedged, closed or found gone in the end, whichever direction it has.
NakedResolved ==
    \A r \in RowIds : rows[r].status \in Naked ~> rows[r].status \notin Naked

\* SYSTEM.md:370-380 and 1132: an operator who leaves maintenance on gets every
\* position closed, the ones that keep losing a leg on the way included.
MaintenanceDrains ==
    <>[](modeState.maintenance_mode) => <>[](In(rows, Exposed) = {})

\* cycle.py:850, "retry next cycle": a close that failed is tried again, until a
\* position that the market wants closed is no longer open.
OpenRowsClose ==
    \A r \in RowIds : rows[r].status = "open" ~> rows[r].status # "open"

=============================================================================
