------------------------- MODULE TradingCycleProofs -------------------------
(***************************************************************************)
(* Theorems about TradingCycle, for any number of bases and rows, any      *)
(* faults and any position size.                                           *)
(***************************************************************************)
EXTENDS TradingCycle, TLAPS

\* A leg is only ever lost as a whole.  The theorems about what the venue holds
\* need it: a leg that loses a part of its size makes the bot close the row of
\* what is left.
WholeLosses == LossSizes \subseteq {Qty}

\* A number of whole legs.
Whole(n) == \E k \in Int : n = k * Qty

Sized(legs) ==
    /\ legs["spot"] \in {0, Qty}
    /\ Whole(legs["futures"]) /\ legs["futures"] >= -Qty

\* What a base's legs may be when its row has the given status.
Fits(status, legs) ==
    /\ status \notin Exposed => legs["spot"] = 0 /\ legs["futures"] >= 0
    /\ status = "naked_spot" => legs["futures"] >= 0
    /\ status = "naked_perp" => legs["spot"] = 0

\* The rows R account for the legs of base b.
Covered(R, b) ==
    /\ ExposedOn(R, b) = {} => Fits("closed", hold[b])
    /\ \A r \in ExposedOn(R, b) : Fits(R[r].status, hold[b])

\* The rows a pass has still to visit have the status it is for.
VisitOK ==
    /\ pc \in {"stale", "recover"} => todo \subseteq In(rows, Naked)
    /\ pc \in {"integrity", "exits"} => todo \subseteq In(rows, {"open"})
    /\ pc = "maintenance" => todo \subseteq In(rows, Exposed)

\* A base the bot was told the truth about is accounted for by the session and,
\* unless the cycle has traded it, by the database a lost session falls back to.
HoldOK ==
    \A b \in Bases \ misled :
        /\ Sized(hold[b])
        /\ Covered(rows, b)
        /\ b \notin touched => Covered(db, b)

IInv == TypeOK /\ VisitOK /\ OneRowPerBase /\ (WholeLosses => HoldOK)

-----------------------------------------------------------------------------
(* Whole legs. *)

\* One leg more or less is whole; a whole number of legs is none, or one at least
\* in either direction.
LEMMA WholeLegs ==
    /\ Whole(0) /\ Whole(MaxUnits)
    /\ \A n \in Int : Whole(n) => /\ Whole(n + Qty) /\ Whole(n - Qty)
                                  /\ n > -Qty /\ n < Qty => n = 0
                                  /\ n > 0 => n >= Qty
                                  /\ n < 0 => n <= -Qty
<1>1. Whole(0) /\ Whole(MaxUnits)
  BY CycleAssumption DEF Whole, MaxUnits
<1> SUFFICES ASSUME NEW n \in Int, Whole(n)
             PROVE  /\ Whole(n + Qty) /\ Whole(n - Qty)
                    /\ n > -Qty /\ n < Qty => n = 0
                    /\ n > 0 => n >= Qty
                    /\ n < 0 => n <= -Qty
  BY <1>1
<1> PICK k \in Int : n = k * Qty
  BY DEF Whole
<1>2. n + Qty = (k + 1) * Qty /\ n - Qty = (k - 1) * Qty
  BY CycleAssumption
<1>3. Whole(n + Qty) /\ Whole(n - Qty)
  BY <1>2 DEF Whole
<1>4. k > 0 => n >= Qty
  <2>1. k > 0 => (k - 1) * Qty >= 0
    BY CycleAssumption
  <2> QED BY <2>1, <1>2, CycleAssumption
<1>5. k < 0 => n <= -Qty
  <2>1. k < 0 => (k + 1) * Qty <= 0
    BY CycleAssumption
  <2> QED BY <2>1, <1>2, CycleAssumption
<1>6. k = 0 => n = 0
  BY CycleAssumption
<1> QED BY <1>3, <1>4, <1>5, <1>6, CycleAssumption

-----------------------------------------------------------------------------
(* The rows and the lifecycle. *)

\* An event a handler may send to a row of the given status has a rule, and leads
\* to a status of the table.
LEMMA TransitionRule ==
    ASSUME NEW status \in Exposed, NEW event \in Events, HasRule(status, event)
    PROVE  /\ Transition[<<status, event>>] \in Statuses
           /\ event \in {"flat_closed", "stale_reconciled"} =>
                 Transition[<<status, event>>] = "closed"
           /\ event = "hedge_recovered" => Transition[<<status, event>>] = "open"
           /\ event = "discover_orphan_spot" => Transition[<<status, event>>] = "naked_spot"
           /\ event = "discover_orphan_perp" => Transition[<<status, event>>] = "naked_perp"
<1> DEFINE D == {q \in Statuses \X Events : HasRule(q[1], q[2])}
           T(p) == CASE p[2] \in {"flat_closed", "stale_reconciled", "dust_converted"} -> "closed"
                     [] p[2] = "hedge_recovered" -> "open"
                     [] OTHER -> Orphaned(p[2])
<1>1. <<status, event>> \in D
  BY DEF Statuses
<1>2. Transition = [p \in D |-> T(p)]
  BY DEF Transition
<1> HIDE DEF D
<1>3. Transition[<<status, event>>] = T(<<status, event>>)
  BY <1>1, <1>2
<1> QED BY <1>3 DEF Statuses, Exposed, Orphaned, HasRule, Naked

\* Row r moves to a status; the others stay.
Moved(r, status) ==
    /\ rows' \in [RowIds -> Row]
    /\ rows'[r].status = status /\ rows'[r].base = rows[r].base
    /\ \A s \in RowIds \ {r} : rows'[s] = rows[s]

\* An exposed row is a row of the table.
LEMMA ExposedRow ==
    ASSUME TypeOK, NEW r \in In(rows, Exposed)
    PROVE  /\ r \in RowIds /\ rows[r].base \in Bases /\ rows[r].status \in Exposed
           /\ rows[r] \in [status : Statuses, base : Bases]
BY DEF TypeOK, In, Row, NoRow, Exposed

\* _mark_status and _mark_closed move one row, along the table.
LEMMA MarkMoves ==
    ASSUME TypeOK, NEW r \in In(rows, Exposed), NEW event \in Events,
           HasRule(rows[r].status, event), Mark(r, event)
    PROVE  Moved(r, Transition[<<rows[r].status, event>>])
<1>1. Transition[<<rows[r].status, event>>] \in Statuses
  BY TransitionRule, ExposedRow
<1> QED BY <1>1, ExposedRow DEF Mark, Moved, TypeOK, Row

\* A handler that marks nothing leaves its row as it is.
LEMMA UnmarkedMoves ==
    ASSUME TypeOK, NEW r \in In(rows, Exposed), UNCHANGED rows
    PROVE  Moved(r, rows[r].status)
BY DEF Moved, TypeOK, In

-----------------------------------------------------------------------------
(* What every handler does. *)

\* The handler of row r changes the legs of its base only, and leaves a row that
\* fits them, unless the bot was told something false.
Handled(r) ==
    LET b == rows[r].base
    IN /\ r \in todo /\ r \in RowIds /\ b \in Bases /\ rows[r].status \in Exposed
       /\ rows'[r].status \in Statuses /\ Moved(r, rows'[r].status)
       /\ hold' \in [Bases -> [Legs -> Int]]
       /\ \A c \in Bases \ {b} : hold'[c] = hold[c]
       /\ seen' \subseteq Coids
       /\ touched \subseteq touched' /\ touched' \subseteq touched \cup {b}
       /\ misled \subseteq misled' /\ misled' \subseteq misled \cup {b}
       /\ b \notin touched' => hold'[b] = hold[b]
       /\ WholeLosses /\ b \notin misled' => Sized(hold'[b]) /\ Fits(rows'[r].status, hold'[b])
       /\ pc' = pc /\ todo' = todo \ {r}
       /\ UNCHANGED <<modeState, mayEnter, db>>

\* A visited row is exposed, and when the bot knows the truth it fits its legs.
LEMMA Visited ==
    ASSUME IInv, NEW pass \in Passes, NEW r \in RowIds, Visit(pass, r),
           pass \in {"stale", "integrity", "recover", "maintenance", "exits"}
    PROVE  LET b == rows[r].base
           IN /\ r \in todo /\ r \in In(rows, Exposed) /\ b \in Bases
              /\ hold[b] \in [Legs -> Int]
              /\ pass \in {"stale", "recover"} => rows[r].status \in Naked
              /\ pass \in {"integrity", "exits"} => rows[r].status = "open"
              /\ WholeLosses /\ b \notin misled => Sized(hold[b]) /\ Fits(rows[r].status, hold[b])
<1>1. r \in todo /\ r \in In(rows, Exposed)
  BY DEF Visit, IInv, VisitOK, In, Exposed, Naked
<1>2. rows[r].base \in Bases /\ hold[rows[r].base] \in [Legs -> Int]
  BY <1>1, ExposedRow DEF IInv, TypeOK
<1>3. r \in ExposedOn(rows, rows[r].base)
  BY <1>1 DEF ExposedOn
<1> QED BY <1>1, <1>2, <1>3 DEF Visit, IInv, VisitOK, In, HoldOK, Covered

\* The part of a handler that is the same for all: its visit, the mark of its
\* row, and what the venue makes of it.
LEMMA HandlerShape ==
    ASSUME IInv, NEW pass \in Passes, NEW r \in RowIds, Visit(pass, r),
           pass \in {"stale", "integrity", "recover", "maintenance", "exits"},
           NEW status \in Statuses, Moved(r, status),
           NEW legs \in [Legs -> Int], NEW coids \in SUBSET Coids, NEW wrong \in BOOLEAN,
           Venue(rows[r].base, legs, coids, wrong),
           WholeLosses /\ rows[r].base \notin misled /\ ~wrong => Sized(legs) /\ Fits(status, legs)
    PROVE  Handled(r)
<1> DEFINE b == rows[r].base
<1>1. /\ r \in todo /\ r \in In(rows, Exposed) /\ b \in Bases
      /\ hold \in [Bases -> [Legs -> Int]] /\ seen \subseteq Coids
  BY Visited DEF IInv, TypeOK
<1>2. /\ hold'[b] = legs /\ hold' \in [Bases -> [Legs -> Int]]
      /\ \A c \in Bases \ {b} : hold'[c] = hold[c]
  BY <1>1 DEF Venue
<1>3. /\ seen' \subseteq Coids
      /\ touched \subseteq touched' /\ touched' \subseteq touched \cup {b}
      /\ b \notin touched' => hold'[b] = hold[b]
  BY <1>1, <1>2 DEF Venue
<1>4. /\ misled \subseteq misled' /\ misled' \subseteq misled \cup {b}
      /\ b \notin misled' => b \notin misled /\ ~wrong
  BY DEF Venue
<1>5. rows'[r].status = status
  BY DEF Moved
<1>6. rows[r].status \in Exposed
  BY <1>1 DEF In
<1> QED BY <1>1, <1>2, <1>3, <1>4, <1>5, <1>6 DEF Handled, Visit

-----------------------------------------------------------------------------
(* Each handler. *)

\* What the computed size of a leg says of whole legs: less than Qty is nothing.
LEMMA SizeOfWhole ==
    ASSUME NEW b \in Bases, hold[b] \in [Legs -> Int], Sized(hold[b])
    PROVE  /\ TrueSize(b, "spot") < Qty => hold[b]["spot"] = 0
           /\ TrueSize(b, "spot") >= Qty => hold[b]["spot"] = Qty
           /\ TrueSize(b, "futures") < Qty => hold[b]["futures"] = 0
           /\ TrueSize(b, "futures") = 0 => hold[b]["futures"] = 0
           /\ TrueSize(b, "futures") # 0 => TrueSize(b, "futures") >= Qty
BY WholeLegs, CycleAssumption DEF Sized, TrueSize, Abs, Legs

\* A computed leg size is a number, misread or not.
LEMMA SizesAreInts ==
    ASSUME NEW b \in Bases, hold[b] \in [Legs -> Int], NEW l \in Legs
    PROVE  Sizes(b, l) \subseteq Int
BY DEF Sizes, TrueSize, Abs, Legs

\* Pass 1 closes a naked row only when its leg is gone.
LEMMA StaleHandled == ASSUME IInv, NEW r \in RowIds, StaleReconcile(r) PROVE Handled(r)
<1> DEFINE b == rows[r].base
           l == HeldLeg(rows[r].status)
<1>1. /\ r \in In(rows, Exposed) /\ b \in Bases /\ hold[b] \in [Legs -> Int]
      /\ rows[r].status \in Naked
      /\ WholeLosses /\ b \notin misled => Sized(hold[b]) /\ Fits(rows[r].status, hold[b])
  BY Visited DEF StaleReconcile, Passes
<1>2. PICK size \in Sizes(b, l) :
        /\ IF size < Qty THEN Mark(r, "stale_reconciled") ELSE UNCHANGED rows
        /\ Venue(b, hold[b], {}, size # TrueSize(b, l))
  BY DEF StaleReconcile
<1>3. CASE size < Qty
  <2>1. Moved(r, "closed")
    <3>1. HasRule(rows[r].status, "stale_reconciled")
      BY <1>1 DEF HasRule
    <3>2. rows[r].status \in Exposed
      BY <1>1 DEF Naked
    <3> QED BY <1>1, <1>2, <1>3, <3>1, <3>2, MarkMoves, TransitionRule DEF IInv, Events
  <2>2. ASSUME WholeLosses, b \notin misled, size = TrueSize(b, l)
        PROVE  Fits("closed", hold[b])
    BY <1>1, <1>3, <2>2, SizeOfWhole DEF HeldLeg, Fits, Naked, Exposed
  <2> QED BY <1>1, <1>2, <2>1, <2>2, HandlerShape DEF StaleReconcile, Passes, Statuses
<1>4. CASE ~(size < Qty)
  <2>1. Moved(r, rows[r].status)
    BY <1>1, <1>2, <1>4, UnmarkedMoves DEF IInv
  <2> QED BY <1>1, <1>2, <2>1, HandlerShape DEF StaleReconcile, Passes, Statuses, Naked
<1> QED BY <1>3, <1>4

\* Pass 2 gives an open row the status of the legs it has.
LEMMA IntegrityHandled == ASSUME IInv, NEW r \in RowIds, CheckHedgeIntegrity(r) PROVE Handled(r)
<1> DEFINE b == rows[r].base
<1>1. /\ r \in In(rows, Exposed) /\ b \in Bases /\ hold[b] \in [Legs -> Int]
      /\ rows[r].status = "open"
      /\ WholeLosses /\ b \notin misled => Sized(hold[b]) /\ Fits(rows[r].status, hold[b])
  BY Visited DEF CheckHedgeIntegrity, Passes
<1>2. PICK spot \in Sizes(b, "spot"), perp \in Sizes(b, "futures") :
        /\ IF spot >= Qty /\ perp >= Qty THEN UNCHANGED rows
           ELSE Mark(r, MissingLegEvent(spot, perp))
        /\ Venue(b, hold[b], {}, spot # TrueSize(b, "spot") \/ perp # TrueSize(b, "futures"))
  BY DEF CheckHedgeIntegrity
<1>3. spot \in Int /\ perp \in Int
  BY <1>1, SizesAreInts DEF Legs
<1>4. CASE spot >= Qty /\ perp >= Qty
  <2>1. Moved(r, rows[r].status)
    BY <1>1, <1>2, <1>4, UnmarkedMoves DEF IInv
  <2> QED BY <1>1, <1>2, <2>1, HandlerShape DEF CheckHedgeIntegrity, Passes, Statuses, Exposed
<1>5. CASE ~(spot >= Qty /\ perp >= Qty)
  <2> DEFINE event == MissingLegEvent(spot, perp)
             status == IF event = "flat_closed" THEN "closed"
                       ELSE IF event = "discover_orphan_perp" THEN "naked_perp" ELSE "naked_spot"
  <2>1. Moved(r, status)
    <3>1. event \in {"flat_closed", "discover_orphan_perp", "discover_orphan_spot"}
      BY DEF MissingLegEvent
    <3>2. HasRule(rows[r].status, event) /\ event \in Events
      BY <1>1, <3>1 DEF HasRule, Events
    <3>3. rows[r].status \in Exposed /\ Mark(r, event)
      BY <1>1, <1>2, <1>5 DEF Exposed
    <3>4. Transition[<<rows[r].status, event>>] = status
      BY <3>1, <3>2, <3>3, TransitionRule
    <3> QED BY <1>1, <3>2, <3>3, <3>4, MarkMoves DEF IInv
  <2>2. ASSUME WholeLosses, b \notin misled,
               spot = TrueSize(b, "spot"), perp = TrueSize(b, "futures")
        PROVE  Fits(status, hold[b])
    BY <1>1, <1>3, <1>5, <2>2, SizeOfWhole, CycleAssumption DEF MissingLegEvent, Fits, Exposed
  <2>3. status \in Statuses
    BY DEF Statuses, Exposed
  <2> HIDE DEF status
  <2> QED BY <1>1, <1>2, <2>1, <2>2, <2>3, HandlerShape DEF CheckHedgeIntegrity, Passes
<1> QED BY <1>4, <1>5

\* Orders keep the legs numbers.
LEMMA LegArithmetic ==
    \A h \in Int, q \in Int, l \in Legs : Opened(h, l, q) \in Int /\ Closed(h, l, q) \in Int
BY CycleAssumption DEF Opened, Closed, MaxUnits

\* A close adds one leg to the perp, up to the bound, and takes one from the spot.
LEMMA CloseOfWhole ==
    /\ \A h \in Int : Whole(h) /\ h >= -Qty =>
          LET n == Closed(h, "futures", Qty) IN Whole(n) /\ n >= 0
    /\ Closed(Qty, "spot", Qty) = 0
BY WholeLegs, CycleAssumption DEF Closed, MaxUnits

\* What is recovered is one whole leg, or nothing; the other leg is not there.
LEMMA RecoveryOfWhole ==
    ASSUME IInv, NEW r \in RowIds, Visit("recover", r), WholeLosses,
           rows[r].base \notin misled
    PROVE  LET legs == hold[rows[r].base]
               l == HeldLeg(rows[r].status)
               q == RecoveryQty(TrueSize(rows[r].base, l))
           IN /\ q = 0 => legs[l] = 0
              /\ q > 0 => q = Qty /\ (l = "spot" => legs["spot"] = Qty)
              /\ l = "spot" => legs["futures"] >= 0
              /\ l = "futures" => legs["spot"] = 0
              /\ Sized(legs) /\ Fits(rows[r].status, legs)
<1> DEFINE b == rows[r].base
           l == HeldLeg(rows[r].status)
<1>1. /\ b \in Bases /\ hold[b] \in [Legs -> Int] /\ rows[r].status \in Naked
      /\ Sized(hold[b]) /\ Fits(rows[r].status, hold[b])
  BY Visited DEF Passes
<1>2. /\ l = "spot" => hold[b]["futures"] >= 0
      /\ l = "futures" => hold[b]["spot"] = 0
  BY <1>1 DEF HeldLeg, Fits, Naked, Exposed
<1>3. CASE l = "spot"
  BY <1>1, <1>2, <1>3, SizeOfWhole, CycleAssumption DEF RecoveryQty, TrueSize, Legs
<1>4. CASE l = "futures"
  BY <1>1, <1>2, <1>4, SizeOfWhole, CycleAssumption DEF RecoveryQty, TrueSize, Abs, Legs
<1> QED BY <1>3, <1>4 DEF HeldLeg

\* Pass 3 hedges or closes what is left, never more than that.
LEMMA RecoverHandled == ASSUME IInv, NEW r \in RowIds, RecoverNaked(r) PROVE Handled(r)
<1> DEFINE b == rows[r].base
           l == HeldLeg(rows[r].status)
           m == Other(l)
<1>1. Visit("recover", r)
  BY DEF RecoverNaked
<1>2. /\ r \in In(rows, Exposed) /\ b \in Bases /\ hold[b] \in [Legs -> Int]
      /\ rows[r].status \in Naked /\ rows[r].status \in Exposed
  BY <1>1, Visited DEF Passes, Naked
<1>3. PICK size \in Sizes(b, l) : \/ RecoverNothing(r, b, l, size)
                                  \/ RecoverByHedge(r, b, l, m, size)
                                  \/ RecoverByClose(r, b, l, m, size)
  BY DEF RecoverNaked
<1> DEFINE q == RecoveryQty(size)
           wrong == size # TrueSize(b, l)
<1>4. /\ l \in Legs /\ m \in Legs /\ HedgeId(r) \in Coids /\ CloseId(r) \in Coids
      /\ wrong \in BOOLEAN
  BY DEF HeldLeg, HedgeId, CloseId, Other, Legs, Coids
<1>5. q \in Int
  BY <1>2, <1>4, SizesAreInts, CycleAssumption DEF RecoveryQty
<1>6. ASSUME WholeLosses, b \notin misled, ~wrong
      PROVE  /\ q = 0 => hold[b][l] = 0
             /\ q > 0 => q = Qty /\ (l = "spot" => hold[b]["spot"] = Qty)
             /\ l = "spot" => hold[b]["futures"] >= 0
             /\ l = "futures" => hold[b]["spot"] = 0
             /\ Sized(hold[b]) /\ Fits(rows[r].status, hold[b])
  BY <1>1, <1>6, RecoveryOfWhole
<1>7. HasRule(rows[r].status, "flat_closed") /\ HasRule(rows[r].status, "hedge_recovered")
  BY <1>2 DEF HasRule
<1>8. Mark(r, "flat_closed") => Moved(r, "closed")
  BY <1>2, <1>7, MarkMoves, TransitionRule DEF IInv, Events
<1>9. CASE RecoverNothing(r, b, l, size)
  <2>1. q = 0 /\ Moved(r, "closed") /\ Venue(b, hold[b], {}, wrong)
    BY <1>8, <1>9 DEF RecoverNothing
  <2>2. ASSUME WholeLosses, b \notin misled, ~wrong
        PROVE  Sized(hold[b]) /\ Fits("closed", hold[b])
    <3>1. Sized(hold[b]) /\ hold[b]["spot"] = 0 /\ hold[b]["futures"] >= 0
      BY <1>4, <1>6, <2>1, <2>2, CycleAssumption DEF Legs
    <3> QED BY <3>1 DEF Fits
  <2> QED BY <1>1, <1>2, <1>4, <2>1, <2>2, HandlerShape DEF Passes, Statuses
<1>10. CASE RecoverByHedge(r, b, l, m, size)
  <2> DEFINE legs == [hold[b] EXCEPT ![m] = Opened(@, m, q)]
  <2>1. q > 0 /\ Mark(r, "hedge_recovered") /\ Venue(b, legs, {HedgeId(r)}, wrong)
    BY <1>10 DEF RecoverByHedge
  <2>2. Moved(r, "open")
    BY <1>2, <1>7, <2>1, MarkMoves, TransitionRule DEF IInv, Events
  <2>3. legs \in [Legs -> Int]
    BY <1>2, <1>4, <1>5, LegArithmetic
  <2>4. ASSUME WholeLosses, b \notin misled, ~wrong PROVE Sized(legs) /\ Fits("open", legs)
    <3>1. q = Qty /\ Sized(hold[b])
      BY <1>6, <2>1, <2>4
    <3>2. CASE l = "spot"
      BY <1>2, <1>6, <2>1, <2>4, <3>1, <3>2, WholeLegs, CycleAssumption
         DEF Sized, Fits, Exposed, Opened, Other, Legs
    <3>3. CASE l = "futures"
      BY <1>2, <1>6, <2>1, <2>4, <3>1, <3>3, WholeLegs, CycleAssumption
         DEF Sized, Fits, Exposed, Opened, Other, Legs
    <3> QED BY <1>4, <3>2, <3>3 DEF Legs
  <2> HIDE DEF legs
  <2> QED BY <1>1, <1>2, <1>4, <2>1, <2>2, <2>3, <2>4, HandlerShape DEF Passes, Statuses, Exposed
<1>11. CASE RecoverByClose(r, b, l, m, size)
  <2>1. PICK gate \in BOOLEAN,
             h \in Answers(CanOpen(b, m, q) /\ ~Duplicate(HedgeId(r))) \ {"accepted"},
             c \in Answers(CanClose(b, l, q) /\ ~Duplicate(CloseId(r))) :
          /\ ~gate => h = "refused"
          /\ IF c = "accepted" THEN Mark(r, "flat_closed") ELSE UNCHANGED rows
          /\ Venue(b, [hold[b] EXCEPT ![l] = IF c = "accepted" THEN Closed(@, l, q) ELSE @],
                   {CloseId(r)} \cup (IF gate THEN {HedgeId(r)} ELSE {}),
                   wrong \/ "lost" \in {h, c})
    BY <1>11 DEF RecoverByClose
  <2>0. h \in {"refused", "lost"} /\ c \in {"refused", "accepted", "lost"}
    BY DEF Answers
  <2> DEFINE legs == [hold[b] EXCEPT ![l] = IF c = "accepted" THEN Closed(@, l, q) ELSE @]
             status == IF c = "accepted" THEN "closed" ELSE rows[r].status
             coids == {CloseId(r)} \cup (IF gate THEN {HedgeId(r)} ELSE {})
             untold == wrong \/ "lost" \in {h, c}
  <2>2. Moved(r, status) /\ status \in Statuses
    BY <1>2, <1>8, <2>1, UnmarkedMoves DEF IInv, Statuses
  <2>3. legs \in [Legs -> Int] /\ coids \in SUBSET Coids /\ untold \in BOOLEAN
    BY <1>2, <1>4, <1>5, LegArithmetic
  <2>4. ASSUME WholeLosses, b \notin misled, ~untold PROVE Sized(legs) /\ Fits(status, legs)
    <3>1. q > 0
      BY <1>11 DEF RecoverByClose
    <3>2. /\ q = Qty /\ Sized(hold[b]) /\ Fits(rows[r].status, hold[b])
          /\ h = "refused" /\ c \in {"refused", "accepted"}
      BY <1>6, <2>0, <2>4, <3>1
    <3>3. CASE c = "refused"
      <4>1. legs = hold[b]
        BY <1>2, <1>4, <3>2, <3>3
      <4> QED BY <3>2, <3>3, <4>1
    <3>4. CASE c = "accepted" /\ l = "spot"
      <4>1. legs["spot"] = 0 /\ legs["futures"] = hold[b]["futures"] /\ legs["futures"] >= 0
        BY <1>2, <1>6, <2>4, <3>1, <3>2, <3>4, CloseOfWhole DEF Other, Legs
      <4> QED BY <3>2, <3>4, <4>1 DEF Sized, Fits
    <3>5. CASE c = "accepted" /\ l = "futures"
      <4>1. legs["spot"] = 0 /\ legs["futures"] = Closed(hold[b]["futures"], "futures", Qty)
        BY <1>2, <1>6, <2>4, <3>1, <3>2, <3>5 DEF Other, Legs
      <4>2. Whole(legs["futures"]) /\ legs["futures"] >= 0
        BY <1>2, <3>2, <4>1, CloseOfWhole DEF Sized, Legs
      <4> QED BY <2>3, <3>5, <4>1, <4>2, CycleAssumption DEF Sized, Fits, Legs
    <3> QED BY <1>4, <3>2, <3>3, <3>4, <3>5 DEF Legs
  <2>5. Venue(b, legs, coids, untold)
    BY <2>1
  <2> HIDE DEF legs, status, coids, untold
  <2> QED BY <1>1, <2>2, <2>3, <2>4, <2>5, HandlerShape DEF Passes
<1> QED BY <1>3, <1>9, <1>10, <1>11

\* A close sells the spot leg it finds, buys one perp leg, and closes the row when
\* both went through.
LEMMA CloseHandled ==
    ASSUME IInv, NEW r \in RowIds, NEW pass \in {"maintenance", "exits"}, Visit(pass, r),
           NEW coids \in SUBSET Coids, ClosePosition(r, coids)
    PROVE  Handled(r)
<1> DEFINE b == rows[r].base
           answers(l) == Answers(CanClose(b, l, Qty)
                                 /\ ~\E c \in coids : c[3] = l /\ Duplicate(c))
<1>1. /\ r \in In(rows, Exposed) /\ b \in Bases /\ hold[b] \in [Legs -> Int]
      /\ rows[r].status \in Exposed
      /\ WholeLosses /\ b \notin misled => Sized(hold[b]) /\ Fits(rows[r].status, hold[b])
  BY Visited DEF Passes, In
<1>2. PICK s \in answers("spot"), p \in answers("futures") :
        /\ IF Closes(s, p) THEN Mark(r, "flat_closed") ELSE UNCHANGED rows
        /\ Venue(b, [hold[b] EXCEPT !["spot"] = IF s = "accepted" THEN Closed(@, "spot", Qty) ELSE @,
                                    !["futures"] = IF p = "accepted" THEN Closed(@, "futures", Qty) ELSE @],
                 coids, "lost" \in {s, p})
  BY DEF ClosePosition
<1>3. /\ s \in {"refused", "accepted", "lost"} /\ p \in {"refused", "accepted", "lost"}
      /\ s = "accepted" => hold[b]["spot"] >= Qty
  BY DEF Answers, CanClose
<1> DEFINE legs == [hold[b] EXCEPT !["spot"] = IF s = "accepted" THEN Closed(@, "spot", Qty) ELSE @,
                                   !["futures"] = IF p = "accepted" THEN Closed(@, "futures", Qty) ELSE @]
           status == IF Closes(s, p) THEN "closed" ELSE rows[r].status
           untold == "lost" \in {s, p}
<1>4. Moved(r, status) /\ status \in Statuses
  <2>1. HasRule(rows[r].status, "flat_closed")
    BY <1>1 DEF HasRule, Exposed, Naked
  <2>2. Mark(r, "flat_closed") => Moved(r, "closed")
    BY <1>1, <2>1, MarkMoves, TransitionRule DEF IInv, Events
  <2> QED BY <1>1, <1>2, <2>2, UnmarkedMoves DEF IInv, Statuses
<1>5. legs \in [Legs -> Int] /\ untold \in BOOLEAN
  <2>1. /\ hold[b]["spot"] \in Int /\ Closed(hold[b]["spot"], "spot", Qty) \in Int
        /\ hold[b]["futures"] \in Int /\ Closed(hold[b]["futures"], "futures", Qty) \in Int
    BY <1>1, CycleAssumption DEF Closed, MaxUnits, Legs
  <2>2. legs \in [Legs -> Int]
    BY <1>1, <2>1
  <2> QED BY <2>2
<1>6. ASSUME WholeLosses, b \notin misled, ~untold PROVE Sized(legs) /\ Fits(status, legs)
  <2>1. Sized(hold[b]) /\ Fits(rows[r].status, hold[b]) /\ s # "lost" /\ p # "lost"
    BY <1>1, <1>6
  <2>2. /\ s = "accepted" => hold[b]["spot"] = Qty /\ legs["spot"] = 0
        /\ s = "refused" => legs["spot"] = hold[b]["spot"]
    BY <1>1, <1>3, <2>1, CloseOfWhole, CycleAssumption DEF Sized, Legs
  <2>3. /\ p = "accepted" => Whole(legs["futures"]) /\ legs["futures"] >= 0
        /\ p = "refused" => legs["futures"] = hold[b]["futures"]
    BY <1>1, <2>1, CloseOfWhole DEF Sized, Legs
  <2>4. Sized(legs)
    BY <1>3, <1>5, <2>1, <2>2, <2>3, CycleAssumption DEF Sized, Legs
  <2>5. Fits(status, legs)
    <3>1. CASE Closes(s, p)
      BY <3>1, <2>2, <2>3 DEF Fits, Closes
    <3>2. CASE ~Closes(s, p)
      BY <3>2, <1>1, <1>3, <2>1, <2>2, <2>3, CycleAssumption DEF Fits, Sized, Exposed
    <3> QED BY <3>1, <3>2
  <2> QED BY <2>4, <2>5
<1>7. Venue(b, legs, coids, untold)
  BY <1>2
<1> HIDE DEF legs, status, untold
<1> QED BY <1>4, <1>5, <1>6, <1>7, HandlerShape DEF Passes

\* A maintenance close is a close.
LEMMA MaintenanceHandled == ASSUME IInv, NEW r \in RowIds, MaintenanceClose(r) PROVE Handled(r)
BY CloseHandled DEF MaintenanceClose

\* An exit is a close, or nothing at all.
LEMMA ExitHandled == ASSUME IInv, NEW r \in RowIds, EvaluateExit(r) PROVE Handled(r)
<1> DEFINE b == rows[r].base
<1>1. Visit("exits", r)
  BY DEF EvaluateExit
<1>2. /\ r \in In(rows, Exposed) /\ b \in Bases /\ hold[b] \in [Legs -> Int]
      /\ rows[r].status = "open"
      /\ WholeLosses /\ b \notin misled => Sized(hold[b]) /\ Fits(rows[r].status, hold[b])
  BY <1>1, Visited DEF Passes
<1>3. CASE UNCHANGED <<rows, hold, seen, touched, misled>>
  <2>1. Venue(b, hold[b], {}, FALSE)
    BY <1>2, <1>3 DEF Venue, IInv, TypeOK
  <2>2. Moved(r, "open")
    BY <1>2, <1>3, UnmarkedMoves DEF IInv
  <2> QED BY <1>1, <1>2, <2>1, <2>2, HandlerShape DEF Passes, Statuses, Exposed
<1>4. CASE ClosePosition(r, {"exit"} \X {b} \X Legs)
  <2>1. {"exit"} \X {b} \X Legs \in SUBSET Coids
    BY <1>2 DEF Coids
  <2> QED BY <1>1, <1>4, <2>1, CloseHandled
<1> QED BY <1>3, <1>4 DEF EvaluateExit

-----------------------------------------------------------------------------
(* A handled row keeps the invariant. *)

\* The other rows of the base being closed, its legs are the row's.
LEMMA HandledInductive == ASSUME IInv, NEW r \in RowIds, Handled(r) PROVE IInv'
<1> DEFINE b == rows[r].base
<1>1. /\ r \in todo /\ b \in Bases /\ rows[r].status \in Exposed
      /\ \A s \in RowIds \ {r} : rows'[s] = rows[s]
      /\ rows'[r].base = b /\ db' = db
  BY DEF Handled, Moved
<1>2. TypeOK'
  BY DEF Handled, Moved, IInv, TypeOK
<1>3. VisitOK'
  BY DEF Handled, Moved, IInv, VisitOK, In
<1>4. \A c \in Bases : ExposedOn(rows', c) \subseteq ExposedOn(rows, c)
  BY <1>1 DEF ExposedOn, In
<1>5. OneRowPerBase'
  BY <1>1, <1>4 DEF IInv, OneRowPerBase, ExposedOn, In
<1>6. WholeLosses => HoldOK'
  <2> SUFFICES ASSUME WholeLosses, NEW c \in Bases \ misled'
               PROVE  /\ Sized(hold'[c])
                      /\ Covered(rows, c)'
                      /\ c \notin touched' => Covered(db, c)'
    BY DEF HoldOK
  <2>1. c \notin misled /\ Sized(hold[c]) /\ Covered(rows, c) /\ (c \notin touched => Covered(db, c))
    BY DEF IInv, HoldOK, Handled
  <2>2. CASE c = b
    <3>1. Sized(hold'[c]) /\ Fits(rows'[r].status, hold'[c])
      BY <2>2 DEF Handled
    <3>2. Covered(rows, c)'
      <4>1. \A s \in ExposedOn(rows', c) : s = r
        BY <1>1, <1>4, <2>2 DEF IInv, OneRowPerBase, ExposedOn, In
      <4>2. ExposedOn(rows', c) = {} => rows'[r].status \notin Exposed
        BY <1>1, <2>2 DEF ExposedOn, In
      <4>3. ExposedOn(rows', c) = {} => Fits("closed", hold'[c])
        BY <3>1, <4>2 DEF Fits, Exposed
      <4> QED BY <3>1, <4>1, <4>3 DEF Covered
    <3>3. c \notin touched' => Covered(db, c)'
      BY <1>1, <2>1, <2>2 DEF Handled, Covered
    <3> QED BY <3>1, <3>2, <3>3
  <2>3. CASE c # b
    <3>1. hold'[c] = hold[c] /\ (c \notin touched' => c \notin touched)
      BY <2>3 DEF Handled
    <3>2. ExposedOn(rows', c) = ExposedOn(rows, c)
      BY <1>1, <2>3 DEF ExposedOn, In
    <3>3. \A s \in ExposedOn(rows, c) : rows'[s] = rows[s]
      BY <1>1, <2>3 DEF ExposedOn, In
    <3> QED BY <1>1, <2>1, <3>1, <3>2, <3>3 DEF Covered
  <2> QED BY <2>2, <2>3
<1> QED BY <1>2, <1>3, <1>5, <1>6 DEF IInv, WholeLosses

-----------------------------------------------------------------------------
(* The steps that handle no row. *)

\* What a step that touches neither the rows nor the venue keeps.
LEMMA Untouched ==
    ASSUME IInv, UNCHANGED <<rows, db>>, UNCHANGED venueVars
    PROVE  OneRowPerBase' /\ (WholeLosses => HoldOK')
BY DEF IInv, OneRowPerBase, HoldOK, Covered, ExposedOn, In, venueVars

\* The initial state.
LEMMA InitInductive == Init => IInv
<1> SUFFICES ASSUME Init PROVE IInv
  OBVIOUS
<1>1. TypeOK
  <2>1. [l \in Legs |-> 0] \in [Legs -> Int]
    OBVIOUS
  <2>2. hold \in [Bases -> [Legs -> Int]]
    BY <2>1 DEF Init
  <2>3. rows \in [RowIds -> Row] /\ db \in [RowIds -> Row]
    BY DEF Init, Row
  <2> QED BY <2>2, <2>3 DEF Init, TypeOK
<1>2. VisitOK
  BY DEF Init, VisitOK
<1>3. \A b \in Bases : ExposedOn(rows, b) = {} /\ ExposedOn(db, b) = {}
  BY DEF Init, ExposedOn, In, NoRow, Exposed
<1>4. OneRowPerBase
  BY <1>3 DEF OneRowPerBase
<1>5. HoldOK
  <2>1. \A b \in Bases : hold[b]["spot"] = 0 /\ hold[b]["futures"] = 0
    BY DEF Init, Legs
  <2>2. \A b \in Bases : Sized(hold[b]) /\ Fits("closed", hold[b])
    BY <2>1, WholeLegs, CycleAssumption DEF Sized, Fits
  <2> QED BY <1>3, <2>2 DEF HoldOK, Covered
<1> QED BY <1>1, <1>2, <1>4, <1>5 DEF IInv

\* The worker goes from pass to pass.
LEMMA PhasesInductive == ASSUME IInv, Phases PROVE IInv'
<1> USE DEF Pass, Passes, In, Naked, Exposed
<1>1. CASE UNCHANGED <<rows, db>> /\ UNCHANGED venueVars
  <2>1. CASE StartCycle
    BY <1>1, <2>1, Untouched DEF StartCycle, IInv, TypeOK, VisitOK, venueVars
  <2>2. CASE BeginIntegrity
    BY <1>1, <2>2, Untouched DEF BeginIntegrity, IInv, TypeOK, VisitOK, venueVars
  <2>3. CASE BeginRecovery
    BY <1>1, <2>3, Untouched DEF BeginRecovery, IInv, TypeOK, VisitOK, venueVars
  <2>4. CASE ReadModeState
    BY <1>1, <2>4, Untouched, CycleAssumption
       DEF ReadModeState, Exiting, IInv, TypeOK, VisitOK, venueVars, ModeStateRows
  <2>5. CASE EndMaintenance
    BY <1>1, <2>5, Untouched DEF EndMaintenance, IInv, TypeOK, VisitOK, venueVars
  <2>6. CASE EndExits
    BY <1>1, <2>6, Untouched DEF EndExits, IInv, TypeOK, VisitOK, venueVars
  <2>7. CASE NoEntry
    BY <1>1, <2>7, Untouched DEF NoEntry, IInv, TypeOK, VisitOK, venueVars
  <2>8. CASE Commit
    <3>1. TypeOK' /\ VisitOK'
      BY <2>8 DEF Commit, IInv, TypeOK, VisitOK
    <3> QED BY <1>1, <3>1, Untouched DEF IInv, WholeLosses
  <2> QED BY <2>1, <2>2, <2>3, <2>4, <2>5, <2>6, <2>7, <2>8 DEF Phases
<1>2. CASE Commit
  <2>1. TypeOK' /\ VisitOK'
    BY <1>2 DEF Commit, IInv, TypeOK, VisitOK
  <2>2. OneRowPerBase'
    BY <1>2 DEF Commit, IInv, OneRowPerBase, ExposedOn
  <2>3. WholeLosses => HoldOK'
    BY <1>2 DEF Commit, IInv, HoldOK, Covered, ExposedOn
  <2> QED BY <2>1, <2>2, <2>3 DEF IInv, WholeLosses
<1> QED BY <1>1, <1>2 DEF Phases, StartCycle, BeginIntegrity, BeginRecovery, ReadModeState,
                          EndMaintenance, EndExits, NoEntry

\* A venue read raises.
LEMMA ReadErrorInductive == ASSUME IInv, ReadError PROVE IInv'
BY Untouched DEF ReadError, IInv, TypeOK, VisitOK, Passes, venueVars, WholeLosses

\* The operator writes mode_state.
LEMMA OperatorInductive == ASSUME IInv, OperatorSets PROVE IInv'
BY Untouched DEF OperatorSets, IInv, TypeOK, VisitOK, In, venueVars, WholeLosses

\* A lost session falls back to the database, which accounts for every base the
\* cycle has not traded; the others are misled from now on.
LEMMA LoseSessionInductive == ASSUME IInv, LoseSession PROVE IInv'
<1>1. TypeOK' /\ VisitOK'
  BY DEF LoseSession, IInv, TypeOK, VisitOK
<1>2. OneRowPerBase'
  BY DEF LoseSession, IInv, OneRowPerBase, ExposedOn
<1>3. WholeLosses => HoldOK'
  BY DEF LoseSession, IInv, HoldOK, Covered, ExposedOn
<1> QED BY <1>1, <1>2, <1>3 DEF IInv, WholeLosses

\* A leg that is lost leaves a base its row still accounts for.
LEMMA LoseLegInductive == ASSUME IInv, NEW b \in Bases, NEW l \in Legs, LoseLeg(b, l) PROVE IInv'
<1>1. PICK n \in LossSizes :
        /\ Abs(hold[b][l]) >= n
        /\ hold' = [hold EXCEPT ![b][l] = IF @ > 0 THEN @ - n ELSE @ + n]
  BY DEF LoseLeg
<1>2. n \in Int /\ n > 0 /\ hold \in [Bases -> [Legs -> Int]] /\ hold[b][l] \in Int
  BY CycleAssumption DEF IInv, TypeOK
<1>3. hold' \in [Bases -> [Legs -> Int]]
  BY <1>1, <1>2
<1>4. TypeOK' /\ VisitOK' /\ OneRowPerBase'
  BY <1>3 DEF LoseLeg, IInv, TypeOK, VisitOK, OneRowPerBase, ExposedOn, In
<1>5. ASSUME WholeLosses PROVE HoldOK'
  <2> SUFFICES ASSUME NEW c \in Bases \ misled
               PROVE  /\ Sized(hold'[c])
                      /\ Covered(rows, c)'
                      /\ c \notin touched' => Covered(db, c)'
    BY DEF HoldOK, LoseLeg
  <2>1. Sized(hold[c]) /\ Covered(rows, c) /\ (c \notin touched => Covered(db, c))
    BY <1>5 DEF IInv, HoldOK
  <2>2. CASE c # b
    <3>1. hold'[c] = hold[c]
      BY <1>1, <1>2, <2>2
    <3> QED BY <2>1, <3>1 DEF LoseLeg, Covered, ExposedOn, In
  <2>3. CASE c = b
    <3>1. n = Qty
      BY <1>5 DEF WholeLosses
    <3>2. /\ l = "spot" => hold[c]["spot"] = Qty /\ hold'[c]["spot"] = 0
                            /\ hold'[c]["futures"] = hold[c]["futures"]
          /\ l = "futures" => hold'[c]["spot"] = hold[c]["spot"]
                              /\ hold'[c]["futures"] = IF hold[c]["futures"] > 0
                                                        THEN hold[c]["futures"] - Qty ELSE 0
      BY <1>1, <1>2, <2>1, <2>3, <3>1, CycleAssumption DEF Sized, Abs, Legs
    <3>3. hold[c]["futures"] \in Int /\ Whole(hold[c]["futures"])
      BY <1>2, <2>1 DEF Sized, Legs
    <3>4. hold'[c]["spot"] \in {0, hold[c]["spot"]}
      BY <3>2 DEF Legs
    <3>5. /\ Whole(hold'[c]["futures"])
          /\ hold'[c]["futures"] >= hold[c]["futures"] \/ hold'[c]["futures"] >= 0
      BY <3>2, <3>3, WholeLegs, CycleAssumption DEF Legs
    <3>6. hold'[c]["futures"] \in Int
      BY <1>3 DEF Legs
    <3>7. Sized(hold'[c])
      BY <2>1, <3>3, <3>4, <3>5, <3>6, CycleAssumption DEF Sized
    <3>8. \A status : Fits(status, hold[c]) => Fits(status, hold'[c])
      BY <3>3, <3>4, <3>5, <3>6 DEF Fits
    <3> QED BY <2>1, <3>7, <3>8 DEF LoseLeg, Covered, ExposedOn, In
  <2> QED BY <2>2, <2>3
<1> QED BY <1>4, <1>5 DEF IInv, WholeLosses

\* A base that has an order of which nobody heard is misled.
LEMMA LateFillInductive == ASSUME IInv, NEW b \in Bases, NEW l \in Legs, LateFill(b, l) PROVE IInv'
<1>1. PICK n \in Int : hold' = [hold EXCEPT ![b][l] = n]
  <2>1. \A q \in 1 .. Qty : Opened(hold[b][l], l, q) \in Int /\ Closed(hold[b][l], l, q) \in Int
    BY LegArithmetic, CycleAssumption DEF IInv, TypeOK
  <2> QED BY <2>1 DEF LateFill
<1>2. hold' \in [Bases -> [Legs -> Int]] /\ \A c \in Bases \ misled : hold'[c] = hold[c]
  BY <1>1 DEF LateFill, IInv, TypeOK
<1>3. TypeOK' /\ VisitOK' /\ OneRowPerBase'
  BY <1>2 DEF LateFill, IInv, TypeOK, VisitOK, OneRowPerBase, ExposedOn, In
<1>4. WholeLosses => HoldOK'
  BY <1>2 DEF LateFill, IInv, HoldOK, Covered, ExposedOn, In
<1> QED BY <1>3, <1>4 DEF IInv, WholeLosses

-----------------------------------------------------------------------------
(* The entry. *)

\* What an entry into base b leaves: at most one new row, on b, that fits the legs.
Entered(b, new) ==
    /\ rows' \in [RowIds -> Row] /\ hold' \in [Bases -> [Legs -> Int]] /\ seen' \subseteq Coids
    /\ new \in In(rows, {"absent"})
    /\ \A s \in RowIds \ {new} : rows'[s] = rows[s]
    /\ rows'[new] = rows[new] \/ (rows'[new].base = b /\ rows'[new].status \in Exposed)
    /\ \A c \in Bases \ {b} : hold'[c] = hold[c]
    /\ touched \subseteq touched' /\ touched' \subseteq touched \cup {b}
    /\ misled \subseteq misled' /\ misled' \subseteq misled \cup {b}
    /\ b \notin touched' => hold'[b] = hold[b]
    /\ WholeLosses /\ b \notin misled' =>
          /\ Sized(hold'[b])
          /\ Fits(IF rows'[new] = rows[new] THEN "closed" ELSE rows'[new].status, hold'[b])

\* An entry has that shape: the new row's status names exactly the legs kept.
LEMMA EnterShape ==
    ASSUME IInv, NEW b \in Bases, EnterPosition(b)
    PROVE  \E new \in RowIds : Entered(b, new)
<1>0. PICK rep \in Reports, new \in RowIds :
        \E unheard \in Unheards(rep, "lost_answer" \in Faults) :
        \E left \in Leftovers(rep, unheard) : EntryMade(b, rep, new, unheard, left)
  BY DEF EnterPosition
<1>u. PICK unheard \in Unheards(rep, "lost_answer" \in Faults) :
        \E left \in Leftovers(rep, unheard) : EntryMade(b, rep, new, unheard, left)
  BY <1>0
<1>l. PICK left \in Leftovers(rep, unheard) : EntryMade(b, rep, new, unheard, left)
  BY <1>u
<1>1. EntryMade(b, rep, new, unheard, left)
  BY <1>l
<1>k. left \subseteq Legs /\ (unheard = {} => left = rep.kept)
  BY DEF Leftovers, Reports, Success, Rejected, Recovered, NakedOn, Report
<1> DEFINE legs == [l \in Legs |-> IF l \in left THEN Opened(hold[b][l], l, Qty) ELSE hold[b][l]]
           status == InitialStatus(IF rep = Success THEN "open_both_legs_filled"
                                   ELSE IF "spot" \in rep.kept THEN "open_only_spot_filled"
                                   ELSE "open_only_perp_filled")
<1>2. /\ rows \in [RowIds -> Row] /\ hold \in [Bases -> [Legs -> Int]] /\ seen \subseteq Coids
      /\ hold[b] \in [Legs -> Int] /\ ExposedOn(rows, b) = {}
  BY DEF IInv, TypeOK, EnterPosition
<1>3. status \in Exposed
  BY DEF InitialStatus, Orphaned, Exposed
<1>4. [base |-> b, status |-> status] \in Row
  BY <1>3 DEF Row, Statuses
<1>5. legs \in [Legs -> Int]
  <2>1. \A l \in Legs : hold[b][l] \in Int /\ Opened(hold[b][l], l, Qty) \in Int
    BY <1>2, CycleAssumption DEF Opened
  <2> QED BY <2>1
<1>6. /\ rows' \in [RowIds -> Row]
      /\ \A s \in RowIds \ {new} : rows'[s] = rows[s]
      /\ rep.kept = {} => rows'[new] = rows[new]
      /\ rep.kept # {} => rows'[new] = [base |-> b, status |-> status]
  BY <1>1, <1>2, <1>4 DEF EntryMade
<1>7. rep.kept # {} => rows'[new].base = b /\ rows'[new].status = status /\ rows'[new] # rows[new]
  BY <1>1, <1>3, <1>6 DEF In, Exposed, EntryMade
<1> HIDE DEF status
<1>8. /\ hold'[b] = legs /\ hold' \in [Bases -> [Legs -> Int]] /\ seen' \subseteq Coids
      /\ \A c \in Bases \ {b} : hold'[c] = hold[c]
      /\ touched \subseteq touched' /\ touched' \subseteq touched \cup {b}
      /\ misled \subseteq misled' /\ misled' \subseteq misled \cup {b}
      /\ b \notin touched' => hold'[b] = hold[b]
      /\ b \notin misled' => b \notin misled /\ left = rep.kept
  BY <1>1, <1>k, <1>2, <1>5 DEF Venue, EntryMade
<1>9. ASSUME WholeLosses, b \notin misled'
      PROVE  Sized(legs) /\ Fits(IF rep.kept = {} THEN "closed" ELSE status, legs)
  <2>1. /\ hold[b]["spot"] = 0 /\ hold[b]["futures"] \in Int /\ hold[b]["futures"] >= 0
        /\ Whole(hold[b]["futures"]) /\ left = rep.kept
    BY <1>2, <1>8, <1>9 DEF IInv, HoldOK, Covered, Fits, Exposed, Sized, Legs
  <2>2. /\ legs["spot"] = IF "spot" \in rep.kept THEN Qty ELSE 0
        /\ legs["futures"] = IF "futures" \in rep.kept THEN hold[b]["futures"] - Qty
                             ELSE hold[b]["futures"]
    BY <2>1, CycleAssumption DEF Opened, Legs
  <2>3. legs["futures"] \in Int /\ Whole(legs["futures"]) /\ legs["futures"] >= -Qty
    BY <2>1, <2>2, WholeLegs, CycleAssumption
  <2>4. Sized(legs)
    BY <2>2, <2>3 DEF Sized
  <2>5. /\ "futures" \notin rep.kept => legs["futures"] >= 0
        /\ "spot" \notin rep.kept => legs["spot"] = 0
    BY <2>1, <2>2
  <2>6. /\ rep.kept # {} /\ status = "naked_spot" => "futures" \notin rep.kept
        /\ rep.kept # {} /\ status = "naked_perp" => "spot" \notin rep.kept
    BY DEF status, InitialStatus, Orphaned, Reports, Success, Rejected, Recovered, NakedOn,
           Report, Legs
  <2> QED BY <1>3, <2>4, <2>5, <2>6 DEF Fits
<1>10. new \in In(rows, {"absent"})
  BY <1>1 DEF EntryMade
<1> HIDE DEF legs
<1> QED BY <1>3, <1>6, <1>7, <1>8, <1>9, <1>10 DEF Entered

\* An entry adds the only exposed row of its base.
LEMMA EnterInductive == ASSUME IInv, NEW b \in Bases, EnterPosition(b) PROVE IInv'
<1>1. PICK new \in RowIds : Entered(b, new)
  BY EnterShape
<1>2. ExposedOn(rows, b) = {} /\ db' = db /\ pc' = "commit" /\ pc = "entries"
  BY DEF EnterPosition
<1>3. TypeOK' /\ VisitOK'
  BY <1>1 DEF EnterPosition, Entered, IInv, TypeOK, VisitOK, Passes
<1>4. /\ \A c \in Bases \ {b} : ExposedOn(rows', c) = ExposedOn(rows, c)
      /\ rows'[new] = rows[new] => ExposedOn(rows', b) = {}
      /\ rows'[new] # rows[new] => ExposedOn(rows', b) = {new}
  BY <1>1, <1>2 DEF Entered, ExposedOn, In, Exposed
<1>5. OneRowPerBase'
  BY <1>2, <1>4 DEF IInv, OneRowPerBase
<1>6. ASSUME WholeLosses PROVE HoldOK'
  <2> SUFFICES ASSUME NEW c \in Bases \ misled'
               PROVE  /\ Sized(hold'[c])
                      /\ Covered(rows, c)'
                      /\ c \notin touched' => Covered(db, c)'
    BY DEF HoldOK
  <2>1. c \notin misled /\ Sized(hold[c]) /\ Covered(rows, c) /\ (c \notin touched => Covered(db, c))
    BY <1>1, <1>6 DEF IInv, HoldOK, Entered
  <2>2. CASE c = b
    <3>1. Sized(hold'[c]) /\ Covered(rows, c)'
      BY <1>1, <1>4, <1>6, <2>2 DEF Entered, Covered
    <3>2. c \notin touched' => Covered(db, c)'
      BY <1>1, <1>2, <2>1, <2>2 DEF Entered, Covered
    <3> QED BY <3>1, <3>2
  <2>3. CASE c # b
    <3>1. hold'[c] = hold[c] /\ (c \notin touched' => c \notin touched)
      BY <1>1, <2>3 DEF Entered
    <3>2. \A s \in ExposedOn(rows, c) : rows'[s] = rows[s]
      BY <1>1, <2>3 DEF Entered, ExposedOn, In, Exposed
    <3> QED BY <1>2, <1>4, <2>1, <2>3, <3>1, <3>2 DEF Covered
  <2> QED BY <2>2, <2>3
<1> QED BY <1>3, <1>5, <1>6 DEF IInv, WholeLosses

-----------------------------------------------------------------------------
(* The invariant, and what follows from it. *)

\* Every step keeps the invariant.
LEMMA NextInductive == ASSUME IInv, [Next]_vars PROVE IInv'
<1>1. ASSUME NEW r \in RowIds, Handlers(r) PROVE IInv'
  <2>1. Handled(r)
    BY <1>1, StaleHandled, IntegrityHandled, RecoverHandled, MaintenanceHandled, ExitHandled
       DEF Handlers
  <2> QED BY <2>1, HandledInductive
<1>2. CASE UNCHANGED vars
  BY <1>2, Untouched DEF vars, venueVars, IInv, TypeOK, VisitOK, In, WholeLosses
<1> QED BY <1>1, <1>2, EnterInductive, PhasesInductive, ReadErrorInductive, LoseSessionInductive,
           OperatorInductive, LoseLegInductive, LateFillInductive DEF Next, Worker

\* The invariant holds in every reachable state.
LEMMA Invariance == Spec => []IInv
BY InitInductive, NextInductive, PTL DEF Spec

\* Every variable keeps its type: in particular no handler sends an event that
\* transition() refuses, so that no cycle ends in an IllegalTransition.
THEOREM TypeCorrect == Spec => []TypeOK
BY Invariance, PTL DEF IInv

\* A base never has two exposed rows, in the session or in the database.
THEOREM OneRow == Spec => []OneRowPerBase
BY Invariance, PTL DEF IInv

\* When legs are only lost as a whole, what is held at the venue has a row.
THEOREM Tracking == ASSUME WholeLosses PROVE Spec => []HeldLegsTracked
<1>1. IInv => HeldLegsTracked
  <2> SUFFICES ASSUME IInv, NEW b \in Bases \ misled, ~Tracked(b)
               PROVE  ~(hold[b]["spot"] > 0 \/ hold[b]["futures"] < 0)
    BY DEF HeldLegsTracked
  <2>1. hold[b]["spot"] = 0 /\ hold[b]["futures"] >= 0 /\ hold[b]["futures"] \in Int
    BY DEF IInv, TypeOK, HoldOK, Covered, Fits, Exposed, Tracked, Legs
  <2> QED BY <2>1
<1> QED BY <1>1, Invariance, PTL

\* When legs are only lost as a whole, no leg is ever held twice.
THEOREM NotDoubled == ASSUME WholeLosses PROVE Spec => []NeverDoubled
<1>1. IInv => NeverDoubled
  BY CycleAssumption DEF IInv, HoldOK, Sized, NeverDoubled
<1> QED BY <1>1, Invariance, PTL

\* When legs are only lost as a whole, a naked row's other leg is gone.
THEOREM NakedAlone == ASSUME WholeLosses PROVE Spec => []NakedLegIsAlone
<1>1. IInv => NakedLegIsAlone
  <2> SUFFICES ASSUME IInv, NEW r \in In(rows, Naked), rows[r].base \notin misled
               PROVE  IF rows[r].status = "naked_spot" THEN hold[rows[r].base]["futures"] >= 0
                      ELSE hold[rows[r].base]["spot"] = 0
    BY DEF NakedLegIsAlone
  <2>1. r \in In(rows, Exposed) /\ rows[r].status \in Naked
    BY DEF In, Naked
  <2>2. r \in ExposedOn(rows, rows[r].base) /\ rows[r].base \in Bases
    BY <2>1, ExposedRow DEF ExposedOn, IInv
  <2>3. Fits(rows[r].status, hold[rows[r].base])
    BY <2>2 DEF IInv, HoldOK, Covered
  <2> QED BY <2>1, <2>3 DEF Fits, Naked, Exposed
<1> QED BY <1>1, Invariance, PTL

-----------------------------------------------------------------------------
(* Under which constants Phase A hands only hedged positions on to the exits, *)
(* and positions are closed only when they are flat.                          *)

\* No leg is lost, the integrity check is on and maintenance is never switched on:
\* each of the three can leave a long perp behind.
Steady ==
    /\ LossSizes = {} /\ HedgeCheck
    /\ \A m \in ModeStates : ~m.maintenance_mode

\* The venue's answers are true.
Truthful == Faults \cap {"lost_answer", "bad_read"} = {}

HedgedLegs(legs) == legs["spot"] = Qty /\ legs["futures"] = -Qty
Hedged == {r \in RowIds : rows[r].base \notin misled => HedgedLegs(hold[rows[r].base])}

NoLongs == \A b \in Bases \ misled : hold[b]["futures"] <= 0

\* What Phase A has established so far.
HedgedSoFar ==
    /\ pc = "integrity" => \A r \in In(rows, {"open"}) \ todo : r \in Hedged
    /\ pc = "recover" => \A r \in In(rows, {"open"}) : r \in Hedged
    /\ pc = "exits" => \A r \in todo : r \in Hedged
    /\ pc # "maintenance"

\* What is closed in the database is closed in the session.
ClosedStays == \A r \in RowIds : db[r].status = "closed" => rows[r].status = "closed"

HInv == IInv /\ NoLongs /\ HedgedSoFar /\ ClosedStays

-----------------------------------------------------------------------------
\* Legs that are not lost are only ever lost as a whole.
LEMMA SteadyIsWhole == Steady => WholeLosses
BY DEF Steady, WholeLosses

\* The legs of a base the bot knows the truth about: none or one of each, the perp
\* short.
LEMMA KnownLegs ==
    ASSUME Steady, HInv, NEW b \in Bases \ misled
    PROVE  /\ hold[b] \in [Legs -> Int] /\ Sized(hold[b]) /\ hold[b]["futures"] \in {0, -Qty}
<1>1. Sized(hold[b]) /\ hold[b] \in [Legs -> Int] /\ hold[b]["futures"] <= 0
  BY SteadyIsWhole DEF HInv, IInv, HoldOK, TypeOK, NoLongs
<1>2. hold[b]["futures"] \in Int
  BY <1>1 DEF Legs
<1>3. hold[b]["futures"] = 0 \/ hold[b]["futures"] <= -Qty
  BY <1>1, <1>2, WholeLegs, CycleAssumption DEF Sized
<1> QED BY <1>1, <1>2, <1>3, CycleAssumption DEF Sized

\* What a handler's step says about its base at the venue.
HandlesTo(r) ==
    rows[r].base \notin misled' =>
        /\ hold'[rows[r].base]["futures"] <= 0
        /\ pc # "exits" /\ rows'[r].status = "open" => HedgedLegs(hold'[rows[r].base])

\* A venue that is told nothing false has not misled the bot.
LEMMA VenueTrue ==
    ASSUME NEW b, NEW legs, NEW coids, NEW wrong, Venue(b, legs, coids, wrong), b \notin misled'
    PROVE  b \notin misled /\ ~wrong
BY DEF Venue

\* The base of a row that is being visited.
LEMMA VisitedBase ==
    ASSUME IInv, NEW r \in RowIds, NEW pass \in {"stale", "integrity", "recover", "exits"},
           Visit(pass, r)
    PROVE  /\ rows[r].base \in Bases /\ hold[rows[r].base] \in [Legs -> Int]
           /\ hold \in [Bases -> [Legs -> Int]] /\ pc = pass /\ r \in todo
           /\ pass \in {"stale", "recover"} => rows[r].status \in Naked
<1>1. pass \in Passes
  BY DEF Passes
<1> QED BY <1>1, Visited DEF IInv, TypeOK, Visit

\* Pass 1 reads only, and opens nothing.
LEMMA StaleTo ==
    ASSUME Steady, HInv, NEW r \in RowIds, StaleReconcile(r)
    PROVE  HandlesTo(r)
<1> DEFINE b == rows[r].base
<1>1. b \in Bases /\ hold \in [Bases -> [Legs -> Int]] /\ rows[r].status \in Naked /\ r \in todo
  BY VisitedBase DEF HInv, StaleReconcile
<1>2. PICK size \in Sizes(b, HeldLeg(rows[r].status)) :
        /\ IF size < Qty THEN Mark(r, "stale_reconciled") ELSE UNCHANGED rows
        /\ Venue(b, hold[b], {}, size # TrueSize(b, HeldLeg(rows[r].status)))
  BY DEF StaleReconcile
<1>3. hold' = hold
  BY <1>1, <1>2 DEF Venue
<1>4. rows'[r].status # "open"
  <2>1. r \in In(rows, Exposed) /\ HasRule(rows[r].status, "stale_reconciled")
    BY <1>1 DEF In, Naked, HasRule
  <2>2. Mark(r, "stale_reconciled") => Moved(r, "closed")
    BY <2>1, MarkMoves, TransitionRule, ExposedRow DEF HInv, IInv, Events
  <2> QED BY <1>1, <1>2, <2>2 DEF Moved, Naked
<1>5. ASSUME b \notin misled' PROVE hold[b]["futures"] <= 0
  BY <1>1, <1>2, <1>5, VenueTrue DEF HInv, NoLongs
<1> QED BY <1>3, <1>4, <1>5 DEF HandlesTo

\* Pass 2 leaves a row open when it has seen both legs.
LEMMA IntegrityTo ==
    ASSUME Steady, HInv, NEW r \in RowIds, CheckHedgeIntegrity(r)
    PROVE  HandlesTo(r)
<1> DEFINE b == rows[r].base
<1>1. b \in Bases /\ hold \in [Bases -> [Legs -> Int]] /\ r \in todo /\ pc = "integrity"
  BY VisitedBase DEF HInv, CheckHedgeIntegrity
<1>2. PICK spot \in Sizes(b, "spot"), perp \in Sizes(b, "futures") :
        /\ IF spot >= Qty /\ perp >= Qty THEN UNCHANGED rows
           ELSE Mark(r, MissingLegEvent(spot, perp))
        /\ Venue(b, hold[b], {}, spot # TrueSize(b, "spot") \/ perp # TrueSize(b, "futures"))
  BY DEF CheckHedgeIntegrity
<1>3. hold' = hold
  BY <1>1, <1>2 DEF Venue
<1> SUFFICES ASSUME b \notin misled'
             PROVE  /\ hold[b]["futures"] <= 0
                    /\ rows'[r].status = "open" => HedgedLegs(hold[b])
  BY <1>3 DEF HandlesTo
<1>4. b \notin misled /\ spot = TrueSize(b, "spot") /\ perp = TrueSize(b, "futures")
  BY <1>2, VenueTrue
<1>5. hold[b]["futures"] \in {0, -Qty} /\ Sized(hold[b]) /\ hold[b] \in [Legs -> Int]
  BY <1>1, <1>4, KnownLegs
<1>6. CASE spot >= Qty /\ perp >= Qty
  BY <1>4, <1>5, <1>6, SizeOfWhole, <1>1, CycleAssumption DEF HedgedLegs, TrueSize, Abs
<1>7. CASE ~(spot >= Qty /\ perp >= Qty)
  <2> DEFINE event == MissingLegEvent(spot, perp)
  <2>1. event \in {"flat_closed", "discover_orphan_perp", "discover_orphan_spot"}
    BY DEF MissingLegEvent
  <2>2. r \in In(rows, Exposed) /\ rows[r].status = "open"
    BY <1>1, Visited DEF HInv, CheckHedgeIntegrity, Passes
  <2>3. HasRule(rows[r].status, event) /\ event \in Events /\ rows[r].status \in Exposed
    BY <2>1, <2>2 DEF HasRule, Events, Exposed
  <2>4. Moved(r, Transition[<<rows[r].status, event>>])
    BY <1>2, <1>7, <2>2, <2>3, MarkMoves DEF HInv, IInv
  <2>5. Transition[<<rows[r].status, event>>] # "open"
    BY <2>1, <2>3, TransitionRule
  <2> QED BY <1>5, <2>4, <2>5, CycleAssumption DEF Moved
<1> QED BY <1>6, <1>7

\* Pass 3 makes a row open by hedging the leg that is left.
LEMMA RecoverTo ==
    ASSUME Steady, HInv, NEW r \in RowIds, RecoverNaked(r)
    PROVE  HandlesTo(r)
<1> DEFINE b == rows[r].base
           l == HeldLeg(rows[r].status)
           m == Other(l)
<1>1. /\ b \in Bases /\ hold \in [Bases -> [Legs -> Int]] /\ r \in todo /\ pc = "recover"
      /\ rows[r].status \in Naked /\ Visit("recover", r)
  BY VisitedBase DEF HInv, RecoverNaked
<1>2. PICK size \in Sizes(b, l) : \/ RecoverNothing(r, b, l, size)
                                  \/ RecoverByHedge(r, b, l, m, size)
                                  \/ RecoverByClose(r, b, l, m, size)
  BY DEF RecoverNaked
<1> SUFFICES ASSUME b \notin misled'
             PROVE  /\ hold'[b]["futures"] <= 0
                    /\ rows'[r].status = "open" => HedgedLegs(hold'[b])
  BY DEF HandlesTo
<1>3. b \notin misled /\ size = TrueSize(b, l)
  BY <1>2, VenueTrue DEF RecoverNothing, RecoverByHedge, RecoverByClose
<1>4. hold[b]["futures"] \in {0, -Qty} /\ Sized(hold[b]) /\ hold[b] \in [Legs -> Int]
  BY <1>1, <1>3, KnownLegs
<1>5. /\ RecoveryQty(size) = 0 => hold[b][l] = 0
      /\ RecoveryQty(size) > 0 => RecoveryQty(size) = Qty /\ (l = "spot" => hold[b]["spot"] = Qty)
      /\ l = "spot" => hold[b]["futures"] >= 0
      /\ l = "futures" => hold[b]["spot"] = 0
  BY <1>1, <1>3, RecoveryOfWhole, SteadyIsWhole DEF HInv
<1>6. /\ l \in Legs /\ (l = "spot" => m = "futures") /\ (l = "futures" => m = "spot")
      /\ r \in In(rows, Exposed) /\ rows[r].status # "open"
      /\ HasRule(rows[r].status, "flat_closed")
  BY <1>1 DEF HeldLeg, Legs, Other, Naked, In, HasRule
<1>7. Mark(r, "flat_closed") => rows'[r].status = "closed"
  BY <1>6, MarkMoves, TransitionRule, ExposedRow DEF HInv, IInv, Moved, Events
<1>8. CASE RecoverNothing(r, b, l, size)
  <2>1. hold'[b] = hold[b] /\ rows'[r].status = "closed"
    BY <1>1, <1>7, <1>8 DEF RecoverNothing, Venue
  <2> QED BY <1>4, <2>1, CycleAssumption
<1>9. CASE RecoverByHedge(r, b, l, m, size)
  <2> DEFINE q == RecoveryQty(size)
  <2>1. q > 0 /\ hold'[b] = [hold[b] EXCEPT ![m] = Opened(@, m, q)]
    BY <1>1, <1>9 DEF RecoverByHedge, Venue
  <2>2. q = Qty /\ (l = "spot" => hold[b]["spot"] = Qty)
    BY <1>5, <2>1
  <2>3. CASE l = "spot"
    <3>1. hold'[b]["spot"] = Qty /\ hold'[b]["futures"] = hold[b]["futures"] - Qty
      BY <1>4, <1>6, <2>1, <2>2, <2>3 DEF Opened, Legs
    <3>2. hold[b]["futures"] = 0
      BY <1>4, <1>5, <2>3, CycleAssumption
    <3> QED BY <3>1, <3>2, CycleAssumption DEF HedgedLegs
  <2>4. CASE l = "futures"
    <3>1. hold'[b]["futures"] = hold[b]["futures"] /\ hold'[b]["spot"] = hold[b]["spot"] + Qty
      BY <1>4, <1>6, <2>1, <2>2, <2>4 DEF Opened, Legs
    <3>2. hold[b]["spot"] = 0
      BY <1>5, <2>4
    <3>3. hold[b]["futures"] = -Qty
      BY <1>3, <1>4, <2>1, <2>4, CycleAssumption DEF RecoveryQty, TrueSize, Abs
    <3> QED BY <3>1, <3>2, <3>3, CycleAssumption DEF HedgedLegs
  <2> QED BY <1>6, <2>3, <2>4 DEF Legs
<1>10. CASE RecoverByClose(r, b, l, m, size)
  <2> DEFINE q == RecoveryQty(size)
  <2>1. PICK gate \in BOOLEAN,
             h \in Answers(CanOpen(b, m, q) /\ ~Duplicate(HedgeId(r))) \ {"accepted"},
             c \in Answers(CanClose(b, l, q) /\ ~Duplicate(CloseId(r))) :
          /\ ~gate => h = "refused"
          /\ IF c = "accepted" THEN Mark(r, "flat_closed") ELSE UNCHANGED rows
          /\ Venue(b, [hold[b] EXCEPT ![l] = IF c = "accepted" THEN Closed(@, l, q) ELSE @],
                   {CloseId(r)} \cup (IF gate THEN {HedgeId(r)} ELSE {}),
                   size # TrueSize(b, l) \/ "lost" \in {h, c})
    BY <1>10 DEF RecoverByClose
  <2>2. h = "refused" /\ c \in {"refused", "accepted"} /\ q > 0
    BY <1>10, <2>1, VenueTrue DEF Answers, RecoverByClose
  <2>3. hold'[b] = [hold[b] EXCEPT ![l] = IF c = "accepted" THEN Closed(@, l, q) ELSE @]
    BY <1>1, <1>4, <1>6, <2>1, <2>2 DEF Venue
  <2>4. rows'[r].status # "open"
    BY <1>6, <1>7, <2>1
  <2>5. hold'[b]["futures"] = hold[b]["futures"] \/ hold'[b]["futures"] = 0
    <3>1. CASE l = "spot" \/ c = "refused"
      BY <1>4, <1>6, <2>2, <2>3, <3>1 DEF Legs
    <3>2. CASE l = "futures" /\ c = "accepted"
      <4>1. hold[b]["futures"] = -Qty /\ q = Qty
        BY <1>3, <1>4, <1>5, <2>2, <3>2, CycleAssumption DEF RecoveryQty, TrueSize, Abs
      <4>2. Closed(-Qty, "futures", Qty) = 0
        BY CycleAssumption DEF Closed, MaxUnits
      <4>3. hold'[b]["futures"] = Closed(hold[b]["futures"], "futures", q)
        BY <1>4, <2>3, <3>2 DEF Legs
      <4> QED BY <4>1, <4>2, <4>3
    <3> QED BY <1>6, <2>2, <3>1, <3>2 DEF Legs
  <2> QED BY <1>4, <2>4, <2>5, CycleAssumption
<1> QED BY <1>2, <1>8, <1>9, <1>10

\* An exit buys back the short that Phase A has seen.
LEMMA ExitTo ==
    ASSUME Steady, HInv, NEW r \in RowIds, EvaluateExit(r)
    PROVE  HandlesTo(r)
<1> DEFINE b == rows[r].base
<1>1. /\ b \in Bases /\ hold \in [Bases -> [Legs -> Int]] /\ r \in todo /\ pc = "exits"
      /\ hold[b] \in [Legs -> Int]
  BY VisitedBase DEF HInv, EvaluateExit
<1>2. b \notin misled => HedgedLegs(hold[b])
  BY <1>1 DEF HInv, HedgedSoFar, Hedged
<1> SUFFICES ASSUME b \notin misled'
             PROVE  hold'[b]["futures"] <= 0
  BY <1>1 DEF HandlesTo
<1>3. CASE UNCHANGED <<rows, hold, seen, touched, misled>>
  BY <1>2, <1>3, CycleAssumption DEF HedgedLegs
<1>4. CASE ClosePosition(r, {"exit"} \X {b} \X Legs)
  <2>1. PICK s, p :
          Venue(b, [hold[b] EXCEPT !["spot"] = IF s = "accepted" THEN Closed(@, "spot", Qty) ELSE @,
                                   !["futures"] = IF p = "accepted" THEN Closed(@, "futures", Qty) ELSE @],
                {"exit"} \X {b} \X Legs, "lost" \in {s, p})
    BY <1>4 DEF ClosePosition
  <2>2. hold[b]["futures"] = -Qty
    BY <1>2, <2>1, VenueTrue DEF HedgedLegs
  <2>3. hold'[b]["futures"] = IF p = "accepted" THEN Closed(-Qty, "futures", Qty) ELSE -Qty
    BY <1>1, <2>1, <2>2 DEF Venue, Legs
  <2>4. Closed(-Qty, "futures", Qty) = 0
    BY CycleAssumption DEF Closed, MaxUnits
  <2> QED BY <2>3, <2>4, CycleAssumption
<1> QED BY <1>3, <1>4 DEF EvaluateExit

\* A handler's step, seen as a whole.
LEMMA HandlerTo ==
    ASSUME Steady, HInv, NEW r \in RowIds, Handlers(r)
    PROVE  Handled(r) /\ HandlesTo(r)
<1>1. ~MaintenanceClose(r)
  BY DEF HInv, HedgedSoFar, MaintenanceClose, Visit
<1>2. Handled(r)
  BY <1>1, StaleHandled, IntegrityHandled, RecoverHandled, ExitHandled DEF Handlers, HInv
<1>3. HandlesTo(r)
  BY <1>1, StaleTo, IntegrityTo, RecoverTo, ExitTo DEF Handlers
<1> QED BY <1>2, <1>3

-----------------------------------------------------------------------------
(* Every step. *)

\* A handler leaves the other rows and their legs as they are.
LEMMA HandlerKeeps ==
    ASSUME Steady, HInv, NEW r \in RowIds, Handlers(r)
    PROVE  NoLongs' /\ HedgedSoFar' /\ ClosedStays'
<1> DEFINE b == rows[r].base
<1>1. Handled(r) /\ HandlesTo(r)
  BY HandlerTo
<1>2. /\ r \in todo /\ b \in Bases /\ rows[r].status \in Exposed
      /\ \A s \in RowIds \ {r} : rows'[s] = rows[s]
      /\ rows'[r].base = b /\ db' = db /\ pc' = pc /\ todo' = todo \ {r}
      /\ \A c \in Bases \ {b} : hold'[c] = hold[c]
      /\ misled \subseteq misled'
  BY <1>1 DEF Handled, Moved
<1>3. NoLongs'
  BY <1>1, <1>2 DEF HInv, NoLongs, HandlesTo
<1>4. ClosedStays'
  <2>1. rows[r].status # "closed" /\ db[r].status # "closed"
    BY <1>2 DEF HInv, ClosedStays, Exposed
  <2> QED BY <1>2, <2>1 DEF HInv, ClosedStays
<1>5. \A s \in In(rows, {"open"}) \ {r} : rows[s].base \in Bases \ {b}
  <2> SUFFICES ASSUME NEW s \in In(rows, {"open"}) \ {r} PROVE rows[s].base \in Bases \ {b}
    OBVIOUS
  <2>1. s \in In(rows, Exposed)
    BY DEF In, Exposed
  <2>2. rows[s].base \in Bases
    BY <2>1, ExposedRow DEF HInv, IInv
  <2>3. r \in ExposedOn(rows, b) /\ s \in ExposedOn(rows, rows[s].base)
    BY <1>2, <2>1 DEF ExposedOn, In
  <2>4. rows[s].base # b
    BY <1>2, <2>3 DEF HInv, IInv, OneRowPerBase
  <2> QED BY <2>2, <2>4
<1>6. ASSUME NEW s \in In(rows, {"open"}) \ {r}, s \in Hedged PROVE s \in Hedged'
  BY <1>2, <1>5, <1>6 DEF Hedged, In
<1>7. ASSUME pc # "exits", rows'[r].status = "open" PROVE r \in Hedged'
  BY <1>1, <1>2, <1>7 DEF HandlesTo, Hedged
<1>8. In(rows', {"open"}) \subseteq In(rows, {"open"}) \cup {r}
  BY <1>2 DEF In
<1>9. ASSUME pc = "integrity" PROVE HedgedSoFar'
  BY <1>2, <1>6, <1>7, <1>8, <1>9 DEF HInv, HedgedSoFar, In
<1>10. ASSUME pc = "recover" PROVE HedgedSoFar'
  BY <1>2, <1>6, <1>7, <1>8, <1>10 DEF HInv, HedgedSoFar, In
<1>11. ASSUME pc = "exits" PROVE HedgedSoFar'
  <2>1. todo \subseteq In(rows, {"open"})
    BY <1>11 DEF HInv, IInv, VisitOK
  <2> QED BY <1>2, <1>6, <1>11, <2>1 DEF HInv, HedgedSoFar
<1>12. HedgedSoFar'
  BY <1>2, <1>9, <1>10, <1>11 DEF HInv, HedgedSoFar
<1> QED BY <1>3, <1>4, <1>12

\* An entry starts from no legs.
LEMMA EntryKeeps ==
    ASSUME Steady, HInv, NEW b \in Bases, EnterPosition(b)
    PROVE  NoLongs' /\ HedgedSoFar' /\ ClosedStays'
<1>1. PICK rep \in Reports, new \in RowIds, unheard, left \in SUBSET Legs :
        EntryMade(b, rep, new, unheard, left)
  BY DEF EnterPosition, Leftovers, Unheards
<1>2. pc' = "commit" /\ db' = db
  BY DEF EnterPosition
<1>3. /\ new \in In(rows, {"absent"})
      /\ \A s \in RowIds \ {new} : rows'[s] = rows[s]
  BY <1>1 DEF EntryMade, HInv, IInv, TypeOK
<1>4. ClosedStays'
  <2>1. db[new].status # "closed"
    BY <1>3 DEF In, HInv, ClosedStays
  <2> QED BY <1>2, <1>3, <2>1 DEF HInv, ClosedStays
<1>5. ASSUME NEW c \in Bases \ misled' PROVE hold'[c]["futures"] <= 0
  <2>1. c \notin misled /\ hold \in [Bases -> [Legs -> Int]]
    BY <1>1 DEF EntryMade, Venue, HInv, IInv, TypeOK
  <2>2. hold[c]["futures"] \in {0, -Qty}
    BY <2>1, KnownLegs
  <2>3. hold'[c]["futures"] \in {hold[c]["futures"], hold[c]["futures"] - Qty}
    BY <1>1, <2>1 DEF EntryMade, Venue, Opened, Legs
  <2> QED BY <2>2, <2>3, CycleAssumption
<1> QED BY <1>2, <1>4, <1>5 DEF NoLongs, HedgedSoFar

\* From pass to pass nothing changes but what is to be visited: after pass 2 every open
\* row has been, and the exits visit open rows.
LEMMA PhasesKeep ==
    ASSUME Steady, HInv, Phases
    PROVE  NoLongs' /\ HedgedSoFar' /\ ClosedStays'
<1>1. UNCHANGED <<rows, hold, misled>> /\ (db' = db \/ db' = rows)
  BY DEF Phases, StartCycle, BeginIntegrity, BeginRecovery, ReadModeState, EndMaintenance,
         EndExits, NoEntry, Commit, Pass, venueVars
<1>2. NoLongs' /\ ClosedStays'
  BY <1>1 DEF HInv, NoLongs, ClosedStays
<1>3. Hedged' = Hedged
  BY <1>1 DEF Hedged
<1>4. CASE StartCycle \/ EndMaintenance \/ EndExits \/ NoEntry \/ Commit
  BY <1>2, <1>4 DEF StartCycle, EndMaintenance, EndExits, NoEntry, Commit, Pass, HedgedSoFar
<1>5. CASE BeginIntegrity
  BY <1>1, <1>2, <1>5 DEF BeginIntegrity, Pass, HedgedSoFar, Steady
<1>6. CASE BeginRecovery
  BY <1>1, <1>2, <1>3, <1>6 DEF BeginRecovery, Pass, HedgedSoFar, HInv
<1>7. CASE ReadModeState
  <2>1. ~modeState.maintenance_mode
    BY DEF Steady, HInv, IInv, TypeOK
  <2>2. pc = "recover" /\ pc' = "exits" /\ todo' = In(rows, {"open"})
    BY <1>7, <2>1 DEF ReadModeState, Pass, Exiting
  <2> QED BY <1>2, <1>3, <2>2 DEF HedgedSoFar, HInv
<1> QED BY <1>2, <1>4, <1>5, <1>6, <1>7 DEF Phases

\* The surroundings leave the legs alone, and forget only what was not committed.
LEMMA SurroundingsKeep ==
    ASSUME Steady, HInv,
           \/ ReadError \/ LoseSession \/ OperatorSets
           \/ \E b \in Bases, l \in Legs : LoseLeg(b, l) \/ LateFill(b, l)
    PROVE  NoLongs' /\ HedgedSoFar' /\ ClosedStays'
<1>1. CASE ReadError
  BY <1>1 DEF ReadError, venueVars, HInv, NoLongs, HedgedSoFar, ClosedStays
<1>2. CASE LoseSession
  BY <1>2 DEF LoseSession, HInv, NoLongs, HedgedSoFar, ClosedStays
<1>3. CASE OperatorSets
  BY <1>3 DEF OperatorSets, venueVars, HInv, NoLongs, HedgedSoFar, ClosedStays, Hedged, In
<1>4. CASE \E b \in Bases, l \in Legs : LoseLeg(b, l)
  BY <1>4 DEF LoseLeg, Steady
<1>5. ASSUME NEW b \in Bases, NEW l \in Legs, LateFill(b, l)
      PROVE  NoLongs' /\ HedgedSoFar' /\ ClosedStays'
  <2>1. \A c \in Bases \ misled : hold'[c] = hold[c]
    BY <1>5 DEF LateFill, HInv, IInv, TypeOK
  <2>2. \A r \in In(rows, {"open"}) : rows[r].base \in Bases /\ r \in RowIds
    BY ExposedRow DEF HInv, IInv, In, Exposed
  <2>3. \A r \in In(rows, {"open"}) : r \in Hedged => r \in Hedged'
    BY <1>5, <2>1, <2>2 DEF LateFill, Hedged
  <2>4. pc = "exits" => todo \subseteq In(rows, {"open"})
    BY DEF HInv, IInv, VisitOK
  <2>5. UNCHANGED <<pc, todo, rows, db, misled>>
    BY <1>5 DEF LateFill
  <2>6. HedgedSoFar'
    BY <2>3, <2>4, <2>5 DEF HInv, HedgedSoFar, In
  <2> QED BY <2>1, <2>5, <2>6 DEF HInv, NoLongs, ClosedStays
<1> QED BY <1>1, <1>2, <1>3, <1>4, <1>5

\* Every step keeps the invariant.
LEMMA HedgeInductive == ASSUME Steady, HInv, [Next]_vars PROVE HInv'
<1>1. IInv'
  BY NextInductive DEF HInv
<1>2. CASE UNCHANGED vars
  BY <1>1, <1>2 DEF vars, HInv, NoLongs, HedgedSoFar, ClosedStays, Hedged, In
<1> QED BY <1>1, <1>2, HandlerKeeps, EntryKeeps, PhasesKeep, SurroundingsKeep
        DEF Next, Worker, HInv

\* The initial state.
LEMMA HedgeInit == Init => HInv
<1> SUFFICES ASSUME Init PROVE HInv
  OBVIOUS
<1>1. IInv
  BY InitInductive
<1>2. NoLongs
  BY DEF Init, NoLongs, Legs
<1> QED BY <1>1, <1>2 DEF Init, HInv, HedgedSoFar, ClosedStays

\* PhaseAHedges: while no leg vanishes and maintenance is off, a position that Phase A
\* hands on to the exits has both its legs at the venue, in the same size, whatever the
\* venue answered and whichever sessions were lost before.
THEOREM PhaseAHedged == ASSUME Steady PROVE Spec => []PhaseAHedges
<1>1. HInv => PhaseAHedges
  BY DEF HInv, HedgedSoFar, Hedged, HedgedLegs, PhaseAHedges
<1> QED BY <1>1, HedgeInit, HedgeInductive, PTL DEF Spec

-----------------------------------------------------------------------------
(* Closing. *)

\* When the venue's answers are true no handler misleads the bot.
LEMMA TruthfulHandler ==
    ASSUME Truthful, HInv, NEW r \in RowIds, Handlers(r), ~MaintenanceClose(r)
    PROVE  misled' = misled
<1>1. /\ \A b \in Bases, l \in Legs : Sizes(b, l) = {TrueSize(b, l)}
      /\ \A f \in BOOLEAN : "lost" \notin Answers(f)
  BY DEF Truthful, Sizes, Answers
<1>2. \A b, legs, coids, wrong : Venue(b, legs, coids, wrong) /\ ~wrong => misled' = misled
  BY DEF Venue
<1>3. HeldLeg(rows[r].status) \in Legs
  BY DEF HeldLeg, Legs
<1>4. CASE StaleReconcile(r)
  <2>1. rows[r].base \in Bases
    BY <1>4, VisitedBase DEF HInv, StaleReconcile
  <2> QED BY <1>1, <1>2, <1>3, <1>4, <2>1 DEF StaleReconcile
<1>5. CASE CheckHedgeIntegrity(r)
  <2>1. rows[r].base \in Bases
    BY <1>5, VisitedBase DEF HInv, CheckHedgeIntegrity
  <2>2. PICK spot \in Sizes(rows[r].base, "spot"), perp \in Sizes(rows[r].base, "futures") :
          Venue(rows[r].base, hold[rows[r].base], {},
                spot # TrueSize(rows[r].base, "spot") \/ perp # TrueSize(rows[r].base, "futures"))
    BY <1>5 DEF CheckHedgeIntegrity
  <2>3. spot = TrueSize(rows[r].base, "spot") /\ perp = TrueSize(rows[r].base, "futures")
    BY <1>1, <2>1, <2>2 DEF Legs
  <2> QED BY <1>2, <2>2, <2>3
<1>6. CASE RecoverNaked(r)
  <2> DEFINE b == rows[r].base
             l == HeldLeg(rows[r].status)
             m == Other(l)
  <2>1. b \in Bases
    BY <1>6, VisitedBase DEF HInv, RecoverNaked
  <2>2. PICK size \in Sizes(b, l) : \/ RecoverNothing(r, b, l, size)
                                    \/ RecoverByHedge(r, b, l, m, size)
                                    \/ RecoverByClose(r, b, l, m, size)
    BY <1>6 DEF RecoverNaked
  <2>3. size = TrueSize(b, l)
    BY <1>1, <1>3, <2>1, <2>2
  <2>4. CASE RecoverNothing(r, b, l, size) \/ RecoverByHedge(r, b, l, m, size)
    BY <1>2, <2>3, <2>4 DEF RecoverNothing, RecoverByHedge
  <2>5. CASE RecoverByClose(r, b, l, m, size)
    <3>1. PICK h \in Answers(CanOpen(b, m, RecoveryQty(size)) /\ ~Duplicate(HedgeId(r))),
               c \in Answers(CanClose(b, l, RecoveryQty(size)) /\ ~Duplicate(CloseId(r))) :
            \E legs, coids :
                Venue(b, legs, coids, size # TrueSize(b, l) \/ "lost" \in {h, c})
      BY <2>5 DEF RecoverByClose
    <3>2. h # "lost" /\ c # "lost"
      BY <1>1, <3>1 DEF Truthful, Answers
    <3> QED BY <1>2, <2>3, <3>1, <3>2
  <2> QED BY <2>2, <2>4, <2>5
<1>7. CASE EvaluateExit(r)
  <2>1. CASE UNCHANGED <<rows, hold, seen, touched, misled>>
    BY <2>1
  <2>2. CASE ClosePosition(r, {"exit"} \X {rows[r].base} \X Legs)
    <3>1. PICK s, p, legs, coids, wrong :
            /\ s \in {"refused", "accepted"} /\ p \in {"refused", "accepted"}
            /\ wrong = ("lost" \in {s, p})
            /\ Venue(rows[r].base, legs, coids, wrong)
      BY <2>2 DEF ClosePosition, Answers, Truthful
    <3>2. ~wrong
      BY <3>1
    <3> QED BY <1>2, <3>1, <3>2
  <2> QED BY <1>7, <2>1, <2>2 DEF EvaluateExit
<1> QED BY <1>4, <1>5, <1>6, <1>7 DEF Handlers

\* The row that a step closes is the one whose handler runs, and its base is flat.
LEMMA StepClosesFlat ==
    ASSUME Steady, Truthful, HInv, [Next]_vars, NEW r \in RowIds,
           rows[r].status \in Exposed, rows'[r].status = "closed", rows[r].base \notin misled,
           NEW l \in Legs
    PROVE  hold'[rows[r].base][l] = 0
<1>1. rows[r].status # "closed" /\ rows[r].status # "absent"
  BY DEF Exposed
<1>2. CASE UNCHANGED rows
  BY <1>1, <1>2
<1>3. ASSUME NEW s \in RowIds, Handlers(s) PROVE hold'[rows[r].base][l] = 0
  <2> DEFINE b == rows[r].base
  <2>1. Handled(s) /\ HandlesTo(s)
    BY <1>3, HandlerTo
  <2>2. s = r
    BY <1>1, <2>1 DEF Handled, Moved
  <2>3. misled' = misled
    <3>1. ~MaintenanceClose(s)
      BY DEF HInv, HedgedSoFar, MaintenanceClose, Visit
    <3> QED BY <1>3, <3>1, TruthfulHandler
  <2>4. Fits("closed", hold'[b]) /\ hold'[b]["futures"] <= 0 /\ hold'[b] \in [Legs -> Int]
    BY <2>1, <2>2, <2>3, SteadyIsWhole DEF Handled, HandlesTo
  <2>5. hold'[b]["futures"] \in Int
    BY <2>4 DEF Legs
  <2> QED BY <2>4, <2>5 DEF Fits, Exposed, Legs
<1>4. ASSUME NEW b \in Bases, EnterPosition(b) PROVE FALSE
  <2>1. PICK new \in RowIds : Entered(b, new)
    BY <1>4, EnterShape DEF HInv
  <2> QED BY <1>1, <2>1 DEF Entered, In, Exposed
<1>5. CASE Phases \/ ReadError \/ OperatorSets \/ \E b \in Bases, k \in Legs : LoseLeg(b, k) \/ LateFill(b, k)
  <2>1. UNCHANGED rows
    BY <1>5 DEF Phases, StartCycle, BeginIntegrity, BeginRecovery, ReadModeState, EndMaintenance,
         EndExits, NoEntry, Commit, Pass, ReadError, OperatorSets, LoseLeg, LateFill
  <2> QED BY <1>2, <2>1
<1>6. CASE LoseSession
  BY <1>1, <1>6 DEF LoseSession, HInv, ClosedStays
<1> QED BY <1>2, <1>3, <1>4, <1>5, <1>6 DEF Next, Worker, vars

\* ClosedIsFlat: while no leg vanishes, maintenance is off and the venue's answers are
\* true, a position is closed only when both its legs are flat, although sessions are
\* lost and reads raise.
THEOREM ClosedFlat == ASSUME Steady, Truthful PROVE Spec => ClosedIsFlat
<1>1. HInv /\ [Next]_vars
        => [\A r \in RowIds :
              LET b == rows[r].base
              IN rows[r].status \in Exposed /\ rows'[r].status = "closed" /\ b \notin misled
                 => \A l \in Legs : hold'[b][l] = 0]_vars
  BY StepClosesFlat
<1> QED BY <1>1, HedgeInit, HedgeInductive, PTL DEF Spec, ClosedIsFlat

=============================================================================
