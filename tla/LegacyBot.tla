------------------------------- MODULE LegacyBot -------------------------------
(***************************************************************************)
(* The live cycle of the retired version 1.3 at one venue                  *)
(* (archive/v1.3-legacy/app/bot.py), its gateway (exchange.py) and the     *)
(* operator's buttons (main.py).  The archive is the rollback target of    *)
(* its README.                                                             *)
(*                                                                         *)
(* Two copies of the world drive it.  Balances are read through a cache of *)
(* 30 seconds, which orders do not invalidate, while the perps are read    *)
(* from the venue.  And a session does not flush before it queries         *)
(* (db.py:38): a query finds the rows as last flushed, whatever has been   *)
(* assigned to them or added since.                                        *)
(*                                                                         *)
(* Amounts are lots.  Fewer than SpotMin coins cannot be sold, and 5% of   *)
(* tolerance is less than a lot.  The wallets' quote currency, prices and  *)
(* the profitability gates appear as free choices.                         *)
(***************************************************************************)
EXTENDS Integers, FiniteSets

CONSTANTS
    Bases,
    Target,        \* lots of a full entry
    SpotMin,       \* lots of the smallest spot order
    MaxCoins, MaxShort,   \* bounds of the model on what a base accumulates
    MaxOpen,       \* max_open_positions
    AutoTransfer,  \* auto_transfer_enabled
    KeepsCache,    \* a cycle may find the balances of the cycle before
    Priced,        \* the bases with a pair against USDT
    DefaultIsOwn,  \* the default trade type of a row is that of the venue
    MaxFaults      \* bound of the model: failed calls, crashes, outside trades

ASSUME LegacyAssumption ==
    /\ IsFiniteSet(Bases)
    /\ {Target, SpotMin, MaxOpen} \subseteq Nat \ {0}
    /\ MaxFaults \in Nat
    /\ MaxCoins \in Nat /\ MaxShort \in Nat /\ Target <= MaxCoins /\ Target <= MaxShort
    /\ {AutoTransfer, KeepsCache, DefaultIsOwn} \subseteq BOOLEAN
    /\ Priced \subseteq Bases

VARIABLES
    pc,          \* the pass of the cycle
    todo,        \* the rows the pass has still to visit
    left,        \* the bases the pass has still to visit
    entering,    \* the row whose spot leg is bought and whose perp leg is not sold
    row,         \* the session's objects
    table,       \* their status as last flushed: what a query finds
    db,          \* the committed rows
    spot, short, \* what the venue holds
    cache,       \* the balances last fetched
    unread,      \* none have been fetched since the process started
    entries, maintenance,      \* ModeState
    strategy, exitAll,         \* StrategyState: entry_enabled, exit_all_pending
    hedgeCheck,  \* StrategyConfig: enforce_hedge_check
    elsewhere,   \* another strategy of the venue, or the paper one, is enabled
    faults,
    misled       \* bases for which a read, an answer, a row or a check was lost

books == <<row, table, db>>
venue == <<spot, short>>
copy == <<cache, unread>>
flags == <<entries, maintenance, strategy, exitAll, hedgeCheck, elsewhere>>
vars == <<pc, todo, left, entering, books, venue, copy, flags, faults, misled>>

\* One base has at most two rows at a time.
Rows == Bases \X {1, 2}
Base(r) == r[1]
Row(status, qty, dust) == [status |-> status, qty |-> qty, dust |-> dust, own |-> TRUE]
NoRow == Row("none", 0, FALSE)
NoEntry == <<>>
Statuses == {"none", "open", "naked_spot", "closed"}
Amounts == 0 .. (MaxCoins + MaxShort)
\* own: the row carries the trade type of the venue.
Records == [status : Statuses, qty : Amounts, dust : BOOLEAN, own : BOOLEAN]
Passes == {"idle", "rehydrate", "reconcile", "branch", "maintenance", "exit_all",
           "safety", "recover", "dust", "exits", "entry", "hedge", "sweep"}

TypeOK ==
    /\ pc \in Passes
    /\ todo \subseteq Rows /\ left \subseteq Bases
    /\ entering \in Rows \cup {NoEntry}
    /\ row \in [Rows -> Records] /\ db \in [Rows -> Records]
    /\ table \in [Rows -> Statuses]
    /\ spot \in [Bases -> 0 .. MaxCoins] /\ short \in [Bases -> 0 .. MaxShort]
    /\ cache \in [Bases -> 0 .. MaxCoins]
    /\ unread \in BOOLEAN
    /\ {entries, maintenance, strategy, exitAll, hedgeCheck, elsewhere} \subseteq BOOLEAN
    /\ faults \in 0 .. MaxFaults
    /\ misled \subseteq Bases
    /\ pc = "idle" => row = db /\ entering = NoEntry

Init ==
    /\ pc = "idle" /\ todo = {} /\ left = {} /\ entering = NoEntry
    /\ row = [r \in Rows |-> NoRow] /\ db = row /\ table = [r \in Rows |-> "none"]
    /\ spot = [b \in Bases |-> 0] /\ short = spot /\ cache = spot
    /\ entries = TRUE /\ maintenance = FALSE
    /\ strategy = TRUE /\ exitAll = FALSE /\ hedgeCheck = TRUE /\ elsewhere \in BOOLEAN
    /\ unread = FALSE
    /\ faults = 0 /\ misled = {}

-----------------------------------------------------------------------------
(* Rows, queries and reads. *)

Least(m, n) == IF m <= n THEN m ELSE n
Tradable(n) == IF n < SpotMin THEN 0 ELSE n     \* _is_dust

Visible(status) == {r \in Rows : table[r] = status}
RowsOf(b) == {r \in Rows : Base(r) = b}
Held(statuses) == {Base(r) : r \in {q \in Rows : table[q] \in statuses}}

Closed(q) == [q EXCEPT !.status = "closed"]
Status(rows) == [r \in Rows |-> rows[r].status]

\* An object nothing refers to any more makes room for a new one.
Unused(r) == row[r].status \in {"none", "closed"} /\ table[r] \in {"none", "closed"}
Unflushed(rows) == row' = rows /\ UNCHANGED <<table, db>>
Flush(rows) == row' = rows /\ table' = Status(rows) /\ UNCHANGED db

\* A new session after the commit finds no closed rows to work on.
Kept(rows) == [r \in Rows |-> IF rows[r].status = "closed" THEN NoRow ELSE rows[r]]
Committed(rows) == row' = Kept(rows) /\ db' = row' /\ table' = Status(row')

\* Rows and legs agree: an open row, and only one, for a short of its size, and as
\* many coins against it.
OpenRows(rows, b) == {r \in RowsOf(b) : rows[r].status = "open"}
Agree(rows, coins, perps, b) ==
    /\ coins[b] >= perps[b]
    /\ \/ perps[b] = 0 /\ OpenRows(rows, b) = {}
       \/ \E r \in RowsOf(b) : OpenRows(rows, b) = {r} /\ rows[r].qty = perps[b]

Fault(happens) ==
    /\ happens => faults < MaxFaults
    /\ faults' = IF happens THEN faults + 1 ELSE faults

\* b is acted upon by what the cache says.
Misled(b, fault) ==
    misled' = IF fault \/ cache[b] # spot[b] THEN misled \cup {b} ELSE misled

\* safe_balances: the cache outlives a cycle when the loop is faster than its 30
\* seconds, when the venue asks for a pause, and when the call fails.  If it fails
\* before any has succeeded, there are no balances, which counts as no coins.
Fetched == cache' = spot /\ unread' = FALSE
Balances == Fetched \/ (KeepsCache /\ UNCHANGED copy)

\* venue_is_active.
Active == strategy \/ elsewhere

-----------------------------------------------------------------------------
(* From the start of the cycle to its first pass. *)

StartCycle ==
    /\ pc = "idle" /\ Active
    /\ pc' = "rehydrate"
    /\ Balances
    /\ UNCHANGED <<todo, left, entering, books, venue, flags, faults, misled>>

\* A perp no open row is known of gets a row, in the amount the venue shows and of
\* the default trade type.  A failed read shows no perps.
Orphans == {b \in Bases : short[b] > 0 /\ b \notin Held({"open"})}
FreeRow(b) == CHOOSE r \in RowsOf(b) : Unused(r)
Rehydrated(rows) ==
    [r \in Rows |->
        IF Base(r) \in Orphans /\ r = FreeRow(Base(r))
        THEN [Row("open", short[Base(r)], FALSE) EXCEPT !.own = DefaultIsOwn]
        ELSE rows[r]]

Rehydrate(blind) ==
    /\ pc = "rehydrate" /\ pc' = "reconcile"
    /\ Unflushed(IF blind THEN row ELSE Rehydrated(row))
    /\ Fault(blind)
    /\ misled' = misled \cup (IF blind THEN Orphans ELSE {})
    /\ UNCHANGED <<todo, left, entering, venue, copy, flags>>

\* _reconcile_open_position_state: neither leg of the row is alive.
Flat(r, blind) ==
    LET want == row[r].qty
    IN /\ Tradable(Least(want, cache[Base(r)])) < want
       /\ blind \/ short[Base(r)] < want

Reconcile(blind) ==
    /\ pc = "reconcile" /\ pc' = "branch"
    /\ LET flat == {r \in Visible("open") : Flat(r, blind)}
       IN /\ Unflushed([r \in Rows |-> IF r \in flat THEN Closed(row[r]) ELSE row[r]])
          /\ misled' = misled \cup {Base(r) : r \in {q \in flat : ~Flat(q, FALSE)
                                                   \/ cache[Base(q)] # spot[Base(q)]}}
    /\ Fault(blind)
    /\ UNCHANGED <<todo, left, entering, venue, copy, flags>>

\* Entries off, no open row, nothing to transfer: the session ends uncommitted.
ShortCircuit ==
    ~entries /\ ~maintenance /\ ~AutoTransfer /\ Visible("open") = {}

ReturnEarly ==
    /\ pc = "branch" /\ ShortCircuit
    /\ pc' = "idle"
    /\ row' = db /\ table' = Status(db) /\ db' = db
    /\ UNCHANGED <<todo, left, entering, venue, copy, flags, faults, misled>>

\* Wrong variant: an exit-all that finds no row is left pending.
NextPassWithRows ==
    IF maintenance THEN "maintenance"
    ELSE IF exitAll /\ Visible("open") # {} THEN "exit_all" ELSE "safety"
NextPass ==
    IF maintenance THEN "maintenance" ELSE IF exitAll THEN "exit_all" ELSE "safety"

\* Exit-all visits the rows of its own trade type, every other pass all of them.
StartPass ==
    /\ pc = "branch" /\ ~ShortCircuit
    /\ pc' = NextPass
    /\ todo' = {r \in Visible("open") : NextPass = "exit_all" => row[r].own}
    /\ UNCHANGED <<left, entering, books, venue, copy, flags, faults, misled>>

-----------------------------------------------------------------------------
(* Closing. *)

Done(r) == todo' = todo \ {r}

\* The two orders of _force_close_both, spot first, and how they can end.  An
\* order can fail, or be executed with its answer lost; the read of the perps can
\* fail, which counts as a closed leg.  More coins than the wallet has cannot be sold.
Endings == {"done", "blind", "spot fails", "spot lost", "perp fails", "perp lost"}
SpotToClose(r) == Tradable(Least(row[r].qty, cache[Base(r)]))
SpotCloses(r, how) ==
    SpotToClose(r) <= spot[Base(r)] /\ how \notin {"spot fails", "spot lost"}
AfterForceClose(r, how) ==
    IF SpotCloses(r, how) /\ how \notin {"perp fails", "perp lost"}
    THEN [row EXCEPT ![r] = Closed(@)] ELSE row
ForceClose(r, how) ==
    LET b == Base(r)
        spotQty == SpotToClose(r)
        perpQty == IF how = "blind" THEN 0 ELSE Least(row[r].qty, short[b])
        sold == SpotCloses(r, how)
    IN /\ how = "blind" => short[b] > 0
       /\ how \in {"spot fails", "spot lost"} => spotQty > 0 /\ spotQty <= spot[b]
       /\ how \in {"perp fails", "perp lost"} => perpQty > 0 /\ sold
       /\ spot' = [spot EXCEPT ![b] =
                     IF sold \/ how = "spot lost" THEN @ - spotQty ELSE @]
       /\ short' = [short EXCEPT ![b] =
                     IF sold /\ how # "perp fails" THEN @ - perpQty ELSE @]
       /\ Fault(how # "done")
       /\ Misled(b, how # "done")

\* The rows of maintenance and of exit-all, a row whose market is unhealthy in
\* Phase A, a row with a reason to exit in Phase B.
CloseBoth(r, how) ==
    /\ pc \in {"maintenance", "exit_all", "safety", "exits"} /\ r \in todo
    /\ ForceClose(r, how)
    /\ Unflushed(AfterForceClose(r, how))
    /\ Done(r)
    /\ UNCHANGED <<pc, left, entering, copy, flags>>

\* What the venue holds of the leg that is left.
\* Wrong variant: the coins, whichever leg it is.
SurvivorOfCoins(b, surviving) == cache[b]
Survivor(b, surviving) == IF surviving = "spot" THEN cache[b] ELSE short[b]

\* _close_naked_leg, for the leg that check_hedge finds to be left.
CloseNaked(r, how, surviving) ==
    LET b == Base(r)
        qty == Least(row[r].qty, Survivor(b, surviving))
        executed == how # "leg fails" /\ (surviving = "spot" => qty <= spot[b])
        seen == executed /\ how # "leg lost"
    IN /\ how \in {"leg fails", "leg lost"} => surviving # "none"
       /\ spot' = [spot EXCEPT ![b] = IF surviving = "spot" /\ executed THEN @ - qty ELSE @]
       /\ short' = [short EXCEPT ![b] = IF surviving = "perp" /\ executed THEN @ - qty ELSE @]
       /\ Unflushed(IF surviving = "none" \/ seen
                    THEN [row EXCEPT ![r] = Closed(@)] ELSE row)

\* The operator can switch the check off, and without balances it passes.
CheckHedge(r, how) ==
    LET b == Base(r)
        spotPresent == cache[b] >= row[r].qty /\ cache[b] >= SpotMin
        perpPresent == how # "blind" /\ short[b] >= row[r].qty
        passed == ~hedgeCheck \/ unread
    IN /\ pc = "safety" /\ r \in todo
       /\ IF passed \/ (spotPresent /\ perpPresent)
          THEN how = "done" /\ UNCHANGED <<books, venue>>
          ELSE CloseNaked(r, how, IF perpPresent THEN "perp"
                                  ELSE IF spotPresent THEN "spot" ELSE "none")
       /\ Fault(how # "done")
       /\ Misled(b, how # "done" \/ (passed /\ ~(spotPresent /\ perpPresent)))
       /\ Done(r)
       /\ UNCHANGED <<pc, left, entering, copy, flags>>

\* No reason to exit, or an exit that waits for a better basis.
Hold(r) ==
    /\ pc = "exits" /\ r \in todo
    /\ Done(r)
    /\ UNCHANGED <<pc, left, entering, books, venue, copy, flags, faults, misled>>

\* The cycle's commit, the positions whose books are right again being trusted.
Commit(rows) ==
    /\ Committed(rows)
    /\ misled' = {b \in misled : ~Agree(row', spot, short, b)}

EndMaintenance ==
    /\ pc = "maintenance" /\ todo = {}
    /\ pc' = "idle"
    /\ Commit(row)
    /\ entries' = FALSE
    /\ UNCHANGED <<todo, left, entering, venue, copy, maintenance, strategy, exitAll,
                   hedgeCheck, elsewhere, faults>>

\* The request counts as served, whatever became of the rows.
EndExitAll ==
    /\ pc = "exit_all" /\ todo = {}
    /\ pc' = "safety"
    /\ Commit(row)
    /\ todo' = {r \in Rows : table'[r] = "open"}
    /\ strategy' = FALSE /\ exitAll' = FALSE
    /\ UNCHANGED <<left, entering, venue, copy, entries, maintenance, hedgeCheck, elsewhere,
                   faults>>

-----------------------------------------------------------------------------
(* recover_phantom_spot: coins without an open row. *)

\* Phase B will visit the rows found open here, and the recovery passes over
\* their bases.  Rows of coins that have left the wallet are closed first.
StartRecovery ==
    /\ pc = "safety" /\ todo = {}
    /\ pc' = "recover"
    /\ todo' = Visible("open")
    /\ left' = {b \in Bases : cache[b] > 0} \ Held({"open"})
    /\ LET gone == {r \in Visible("naked_spot") : cache[Base(r)] = 0}
           rows == [r \in Rows |-> IF r \in gone THEN Closed(row[r]) ELSE row[r]]
       IN IF gone = {} THEN UNCHANGED books ELSE Flush(rows)
    /\ UNCHANGED <<entering, venue, copy, flags, faults, misled>>

\* The row a phantom is recorded in: the one it has, or a new one.
PhantomRow(b) ==
    LET naked == RowsOf(b) \cap Visible("naked_spot")
    IN IF naked # {} THEN CHOOSE r \in naked : TRUE ELSE FreeRow(b)
Naked(b, dust) ==
    LET old == row[PhantomRow(b)]
    IN Row("naked_spot", cache[b], dust \/ (old.status = "naked_spot" /\ old.dust))
Recovering(b) == pc = "recover" /\ b \in left /\ left' = left \ {b}

\* Coins without a price in USDT get no row: their base has no such pair, or the
\* read of it fails.  Neither do coins worth less than 0.10 USDT.
SkipPhantom(b, unpriced) ==
    /\ Recovering(b)
    /\ b \notin Priced \/ cache[b] < SpotMin \/ unpriced
    /\ Fault(unpriced)
    /\ UNCHANGED <<pc, todo, entering, books, venue, copy, flags, misled>>

RecordDust(b) ==
    /\ Recovering(b) /\ b \in Priced /\ cache[b] < SpotMin
    /\ Flush([row EXCEPT ![PhantomRow(b)] = Naked(b, TRUE)])
    /\ Misled(b, FALSE)
    /\ UNCHANGED <<pc, todo, entering, venue, copy, flags, faults>>

\* The perp is sold short for what was found, p of it is filled, and the rest of
\* the coins is sold as far as the book takes them.
HedgePhantom(b, p, trimmed) ==
    /\ Recovering(b) /\ b \in Priced /\ cache[b] >= SpotMin
    /\ p <= cache[b] /\ short[b] + p <= MaxShort
    /\ trimmed <= Least(cache[b] - p, spot[b])
    /\ short' = [short EXCEPT ![b] = @ + p]
    /\ spot' = [spot EXCEPT ![b] = @ - trimmed]
    /\ Flush([row EXCEPT ![PhantomRow(b)] = Row("open", p, FALSE)])
    /\ Misled(b, FALSE)
    /\ UNCHANGED <<pc, todo, entering, copy, flags, faults>>

\* No hedge is worth it, or the short raises or fills nothing: sold of the coins
\* are sold, and any sale closes the row.  A short whose answer is lost fills all
\* the same.
\* Wrong variant: the row is closed even if nothing is sold.
AfterSaleClosed(b, sold) == Closed(Naked(b, FALSE))
AfterSale(b, sold) == IF sold > 0 THEN Closed(Naked(b, FALSE)) ELSE Naked(b, FALSE)

SellPhantom(b, sold, lostShort) ==
    /\ Recovering(b) /\ b \in Priced /\ cache[b] >= SpotMin
    /\ sold > 0 => sold <= cache[b] /\ cache[b] <= spot[b]
    /\ short[b] + lostShort <= MaxShort /\ lostShort <= cache[b]
    /\ short' = [short EXCEPT ![b] = @ + lostShort]
    /\ spot' = [spot EXCEPT ![b] = @ - sold]
    /\ Flush([row EXCEPT ![PhantomRow(b)] = AfterSale(b, sold)])
    /\ Fault(lostShort > 0)
    /\ Misled(b, lostShort > 0)
    /\ UNCHANGED <<pc, todo, entering, copy, flags>>

\* The venue's dust conversion is offered every tagged row.  Unless the endpoint
\* is missing, all of them are closed, whichever coins it took.
Dust == {r \in Visible("naked_spot") : row[r].dust}
ConvertDust(taken, closes) ==
    /\ pc = "recover" /\ left = {}
    /\ pc' = "exits"
    /\ taken \subseteq {Base(r) : r \in Dust} /\ (taken # {} => closes)
    /\ closes => Dust # {}
    /\ spot' = [b \in Bases |-> IF b \in taken /\ spot[b] < SpotMin THEN 0 ELSE spot[b]]
    /\ IF closes THEN Flush([r \in Rows |-> IF r \in Dust THEN Closed(row[r]) ELSE row[r]])
       ELSE UNCHANGED books
    /\ UNCHANGED <<todo, left, entering, short, copy, flags, faults, misled>>

-----------------------------------------------------------------------------
(* Entries. *)

\* Bases with a row of OPEN_STATUSES, as the query finds them.
HeldBases == Held({"open", "naked_spot"})

MayEnter ==
    /\ entries /\ strategy
    /\ Cardinality(Visible("open")) < MaxOpen

StartEntry ==
    /\ pc = "exits" /\ todo = {}
    /\ pc' = "entry"
    /\ left' = IF MayEnter THEN Bases \ HeldBases ELSE {}
    /\ UNCHANGED <<todo, entering, books, venue, copy, flags, faults, misled>>

\* What the bot takes for bought when asked coins were ordered and n bought: the
\* answer states the amount filled, the amount ordered, both or neither, and a fill
\* of zero is passed over like one that is not stated (bot.py:2118).
Taken(n, asked, states) ==
    IF "filled" \in states /\ n > 0 THEN n
    ELSE IF "amount" \in states THEN asked ELSE 0

\* What was taken for bought gets a row, which is flushed.
Enter(b, n, taken) ==
    /\ pc = "entry" /\ b \in left
    /\ left' = left \ {b}
    /\ spot[b] + n <= MaxCoins
    /\ spot' = [spot EXCEPT ![b] = @ + n]
    /\ unread' = FALSE
    /\ misled' = IF taken # n THEN misled \cup {b} ELSE misled
    /\ IF taken = 0 THEN UNCHANGED <<pc, entering, books>>
       ELSE /\ pc' = "hedge" /\ entering' = FreeRow(b)
            /\ Flush([row EXCEPT ![entering'] = Row("open", taken, FALSE)])
    /\ UNCHANGED <<todo, short, flags>>

\* The spot order buys n of the coins asked for.  Balances are fetched before it.
BuySpot(b, n, asked, states) ==
    /\ n <= asked
    /\ Enter(b, n, Taken(n, asked, states))
    /\ cache' = spot
    /\ UNCHANGED faults

\* The order raises.  Balances are fetched once more, to see what it bought; if
\* this fails, n counts as nothing.
BuySpotRaises(b, n, unseen) ==
    /\ Enter(b, n, IF unseen THEN 0 ELSE n)
    /\ cache' = IF unseen THEN spot ELSE spot'
    /\ Fault(unseen)

\* The row takes the amount filled.
\* Wrong variant: it keeps the coins bought.
FinalQtyUntrimmed(p) == row[entering].qty
FinalQty(p) == p

\* The perp is sold short for exactly the coins of the row.  trimmed of the excess
\* are sold.
ShortPerp(p, trimmed) ==
    LET b == Base(entering)
        n == row[entering].qty
    IN /\ pc = "hedge"
       /\ p \in 1 .. n /\ short[b] + p <= MaxShort
       /\ trimmed <= Least(n - p, spot[b])
       /\ short' = [short EXCEPT ![b] = @ + p]
       /\ spot' = [spot EXCEPT ![b] = @ - trimmed]
       /\ Unflushed([row EXCEPT ![entering].qty = FinalQty(p)])
       /\ entering' = NoEntry
       /\ pc' = "entry" /\ left' = {}
       /\ UNCHANGED <<todo, copy, flags, faults, misled>>

\* _rollback_spot, when the short raises or fills nothing: the row is closed
\* whatever part of the sale was filled, and stays open when the sale raises, as it
\* does for more coins than the wallet has.
RollbackSpot(sold, raises, lostShort) ==
    LET b == Base(entering)
        n == row[entering].qty
    IN /\ pc = "hedge"
       /\ sold <= Least(n, spot[b]) /\ (spot[b] < n => raises)
       /\ lostShort <= n /\ short[b] + lostShort <= MaxShort
       /\ short' = [short EXCEPT ![b] = @ + lostShort]
       /\ spot' = [spot EXCEPT ![b] = @ - sold]
       /\ Unflushed(IF raises THEN row ELSE [row EXCEPT ![entering] = Closed(@)])
       /\ Fault((raises /\ n <= spot[b]) \/ lostShort > 0)
       /\ misled' = IF raises \/ lostShort > 0 THEN misled \cup {b} ELSE misled
       /\ entering' = NoEntry
       /\ pc' = "entry"
       /\ UNCHANGED <<todo, left, copy, flags>>

\* The candidates are through, were turned down or could not be scanned.
EndEntry ==
    /\ pc = "entry"
    /\ pc' = "sweep"
    /\ left' = {b \in Priced : cache[b] >= SpotMin} \ Held({"open"})
    /\ UNCHANGED <<todo, entering, books, venue, copy, flags, faults, misled>>

\* _sweep_non_stable_dust sells the coins of every base with a price and without an
\* open row, those of naked rows included.  A failed sale is left to the next cycle.
Sweep(b, sold) ==
    /\ pc = "sweep" /\ b \in left
    /\ left' = left \ {b}
    /\ sold \in {0, cache[b]} /\ sold <= spot[b]
    /\ spot' = [spot EXCEPT ![b] = @ - sold]
    /\ Misled(b, FALSE)
    /\ UNCHANGED <<pc, todo, entering, books, short, copy, flags, faults>>

EndCycle ==
    /\ pc = "sweep" /\ left = {}
    /\ pc' = "idle"
    /\ Commit(row)
    /\ UNCHANGED <<todo, left, entering, venue, copy, flags, faults>>

-----------------------------------------------------------------------------
(* What interrupts a cycle, and what happens between two. *)

\* The cycle raises: its session is rolled back.
Abort ==
    /\ pc # "idle"
    /\ pc' = "idle" /\ todo' = {} /\ left' = {} /\ entering' = NoEntry
    /\ row' = db /\ table' = Status(db) /\ db' = db
    /\ Fault(TRUE)
    /\ misled' = misled \cup {b \in Bases : ~Agree(db, spot, short, b)}
    /\ UNCHANGED <<venue, copy, flags>>

\* reconcile_positions gives a row to every perp without one.
\* Wrong variant: it leaves that to the first cycle.
ReconciledLater(blind) == db
Reconciled(blind) ==
    LET orphans == {b \in Bases : short[b] > 0 /\ OpenRows(db, b) = {}}
        free(b) == CHOOSE r \in RowsOf(b) : db[r].status = "none"
    IN [r \in Rows |->
           IF Base(r) \in orphans /\ r = free(Base(r)) /\ ~blind
           THEN Row("open", short[Base(r)], FALSE)
           ELSE db[r]]

\* The process dies and starts again, with the balances still to be fetched.  What
\* may be lost is the closing of a row, and with a failed read the shorts without one.
Restart(blind) ==
    /\ pc' = "idle" /\ todo' = {} /\ left' = {} /\ entering' = NoEntry
    /\ Committed(Reconciled(blind))
    /\ unread' \in {FALSE, KeepsCache}
    /\ cache' = IF unread' THEN [b \in Bases |-> 0] ELSE spot
    /\ Fault(TRUE)
    /\ misled' = misled \cup {b \in Bases : /\ blind \/ OpenRows(db, b) # {}
                                            /\ ~Agree(db, spot, short, b)}
    /\ UNCHANGED <<venue, flags>>

\* A liquidation, a trade by hand: the legs of a base change between two cycles.
OutsideTrade(b, coins, perps) ==
    /\ pc = "idle"
    /\ <<coins, perps>> # <<spot[b], short[b]>>
    /\ spot' = [spot EXCEPT ![b] = coins] /\ short' = [short EXCEPT ![b] = perps]
    /\ Fault(TRUE)
    /\ misled' = misled \cup {b}
    /\ UNCHANGED <<pc, todo, left, entering, books, copy, flags>>

\* The operator closes a position, in a session of its own.
ManualClose(r, how) ==
    /\ pc = "idle" /\ db[r].status = "open"
    /\ ForceClose(r, how)
    /\ Committed(AfterForceClose(r, how))
    /\ UNCHANGED <<pc, todo, left, entering, copy, flags>>

\* The buttons.
SetFlags(e, m, s, x) ==
    /\ pc = "idle"
    /\ entries' = e /\ maintenance' = m /\ strategy' = s /\ exitAll' = x
    /\ UNCHANGED <<pc, todo, left, entering, books, venue, copy, hedgeCheck, elsewhere,
                   faults, misled>>

ModeStop == SetFlags(FALSE, maintenance, strategy, exitAll)
ModeStart == SetFlags(TRUE, FALSE, strategy, exitAll)
ModeExitAll == SetFlags(FALSE, TRUE, strategy, exitAll)
StrategyStop == SetFlags(entries, maintenance, FALSE, exitAll)
StrategyStart == SetFlags(entries, maintenance, TRUE, FALSE)
StrategyExitAll == SetFlags(entries, maintenance, FALSE, TRUE)

\* The switch of the configuration form.
SetHedgeCheck ==
    /\ pc = "idle"
    /\ hedgeCheck' = ~hedgeCheck
    /\ UNCHANGED <<pc, todo, left, entering, books, venue, copy, entries, maintenance,
                   strategy, exitAll, elsewhere, faults, misled>>

Pass ==
    \/ StartCycle \/ ReturnEarly \/ StartPass \/ EndMaintenance \/ EndExitAll
    \/ StartRecovery \/ StartEntry \/ EndEntry \/ EndCycle
    \/ \E blind \in BOOLEAN : Rehydrate(blind) \/ Reconcile(blind)
    \/ \E r \in Rows, how \in Endings : CloseBoth(r, how)
    \/ \E r \in Rows, how \in {"done", "blind", "leg fails", "leg lost"} : CheckHedge(r, how)
    \/ \E r \in Rows : Hold(r)
    \/ \E taken \in SUBSET Bases, closes \in BOOLEAN : ConvertDust(taken, closes)
    \/ \E b \in Bases : RecordDust(b) \/ \E unpriced \in BOOLEAN : SkipPhantom(b, unpriced)
    \/ \E b \in Bases, p \in 1 .. MaxCoins, n \in 0 .. MaxCoins : HedgePhantom(b, p, n)
    \/ \E b \in Bases, n, p \in 0 .. MaxCoins : SellPhantom(b, n, p)
    \/ \E b \in Bases, n \in 0 .. Target, asked \in 1 .. Target,
          states \in SUBSET {"filled", "amount"} : BuySpot(b, n, asked, states)
    \/ \E b \in Bases, n \in 0 .. Target, unseen \in BOOLEAN : BuySpotRaises(b, n, unseen)
    \/ \E p, n \in 0 .. Target : ShortPerp(p, n)
    \/ \E n, p \in 0 .. Target, raises \in BOOLEAN : RollbackSpot(n, raises, p)
    \/ \E b \in Bases, n \in 0 .. MaxCoins : Sweep(b, n)

Operator ==
    \/ ModeStop \/ ModeStart \/ ModeExitAll
    \/ StrategyStop \/ StrategyStart \/ StrategyExitAll \/ SetHedgeCheck
    \/ \E r \in Rows, how \in Endings : ManualClose(r, how)

Next ==
    \/ Pass \/ Operator \/ Abort
    \/ \E blind \in BOOLEAN : Restart(blind)
    \/ \E b \in Bases, n \in 0 .. Target, p \in 0 .. Target : OutsideTrade(b, n, p)

Spec == Init /\ [][Next]_vars

\* The loop goes on, and its balances are fetched anew now and again.
FairSpec ==
    /\ Spec
    /\ WF_vars(Pass)
    /\ SF_vars(StartCycle /\ Fetched)

-----------------------------------------------------------------------------

\* Between cycles the open rows are the shorts, and the coins cover them, except
\* for the bases for which a read, an answer or a row was lost on the way, the answer
\* to a spot order was taken for another amount than it bought, or a position that is
\* not hedged, or is less than can be sold, was passed over unchecked
\* (bot.py:506-589, 1414-1417, 2057-2200).  (With the types.)
BooksMatchLegs ==
    /\ TypeOK
    /\ pc = "idle" => \A b \in Bases \ misled : Agree(db, spot, short, b)

\* However the process was killed, the perps it had sold are not sold again:
\* reconcile_positions (bot.py:992-1004) gives them rows before the first cycle,
\* and an entry (bot.py:1743-1762) never buys a base that holds a short.
NoSecondEntry ==
    [][\A b \in Bases :
         pc = "entry" /\ spot'[b] > spot[b] => short[b] = 0 \/ b \in misled]_vars

\* Where the operator leaves the bot to itself.
Attended == Active /\ ~maintenance /\ (entries \/ AutoTransfer)

\* While the hedge check is switched on, a short without coins does not stay: it is
\* given a row and check_hedge has it bought back (bot.py:1333-1358, 1414-1417).
NakedShortsEnd ==
    <>[](Attended /\ hedgeCheck) => \A b \in Bases : []<>(short[b] = 0 \/ spot[b] > 0)

\* Once the strategy enters no more, coins that can be sold against USDT are sold,
\* hedged or given a row the operator sees (bot.py:637-989).  While it enters, a
\* roll-back that sells nothing may put back what the recovery sold; and a base that
\* trades against USDC alone is passed over (bot.py:738-750).
PhantomsAreRecorded ==
    <>[](Attended /\ ~strategy) =>
        \A b \in Priced :
            []<>(spot[b] < SpotMin \/ \E r \in RowsOf(b) :
                                         db[r].status \in {"open", "naked_spot"})

\* main.py:559-562: exit-all is "Processed on the next bot cycle", provided the
\* venue is cycled at all, and not by maintenance.
ExitAllIsServed == <>[](Attended /\ entries) => []<>~exitAll

=============================================================================
