----------------------------- MODULE PaperTrading -----------------------------
(***************************************************************************)
(* One paper worker: the cycle of loop/cycle.py against the InMemoryGateway *)
(* (gateways/paper.py), with the arithmetic that TradingCycle abstracts:   *)
(* the books, the size of an entry (Sizing), the profitability gate, the   *)
(* exit decision, the fills with slippage and fee, the wallets.            *)
(*                                                                         *)
(* The gateway lives as long as the process; the harness quotes a market   *)
(* between the cycles.  A position is one row per base.  The two orders of *)
(* an entry run on two threads, each on the wallet of its own leg, so that *)
(* their order does not matter.                                            *)
(***************************************************************************)
EXTENDS Sizing

CONSTANTS
    Bases,
    Quotes,       \* what a base can be quoted: two books and the funding of a window
    Start,        \* the quote currency in each wallet at the start
    Slip, Fee,    \* paper_slippage_bps and paper_fee_bps, in parts of One
    MaxOpen,      \* strategy_config.max_open_positions
    EntryNet, ExitNet,  \* entry_min_net_apy, exit_min_net_apy, per funding window
    ScanFees,     \* the round-trip fees the tier-1 scan assumes
    Multiple,     \* exit_basis_buffer_multiple
    MaxExitBasis, \* max_exit_basis_bps
    Dislocation,  \* basis_dislocation_exit_bps
    Stop          \* - stop_loss_pct, in parts of One

ASSUME PaperAssumption ==
    /\ {Start, MaxOpen} \subseteq Nat
    /\ Slip \in 0 .. One /\ Fee \in 0 .. One /\ Stop \in 0 .. One
    /\ \A q \in Quotes : IsBook(q.spot) /\ IsBook(q.futures) /\ q.funding \in Int

VARIABLES
    market,   \* the quote of each base
    gateway,  \* the wallet, the client order ids it has seen, and a ghost: the
              \* ledger, which is the wallet without max(0.0, ...)
    rows,     \* the open position of each base, or none
    pc,       \* the part of the cycle
    todo      \* the bases whose position the exits have still to visit

vars == <<market, gateway, rows, pc, todo>>

NoRow == [qty |-> 0, spotCost |-> 0, perpProceeds |-> 0]

\* The rows' entry prices are kept as what the leg cost and brought, in units of
\* 1 / One: the price after slippage times the quantity.
Held == {b \in Bases : rows[b] # NoRow}

Legs == {"spot", "futures"}
Money == Start * One * One

TypeOK ==
    /\ market \in [Bases -> Quotes]
    /\ gateway \in [wallet : [spot : Nat, futures : Nat, coins : [Bases -> Nat]],
                   ledger : [spot : Int, futures : Int, coins : [Bases -> Int]],
                   seen : SUBSET (Bases \X Legs)]
    /\ rows \in [Bases -> [qty : Nat, spotCost : Nat, perpProceeds : Nat]]
    /\ pc \in {"idle", "exits", "entries"}
    /\ todo \subseteq Held

EmptyWallet == [spot |-> Money, futures |-> Money, coins |-> [b \in Bases |-> 0]]

Init ==
    /\ market \in [Bases -> Quotes]
    /\ gateway = [wallet |-> EmptyWallet, ledger |-> EmptyWallet, seen |-> {}]
    /\ rows = [b \in Bases |-> NoRow]
    /\ pc = "idle" /\ todo = {}

-----------------------------------------------------------------------------
(* The gateway. *)

Order(b, leg, side, qty, id) == [base |-> b, leg |-> leg, side |-> side, qty |-> qty, id |-> id]

\* The client order id of an entry is fresh; that of an exit depends on the base
\* and the leg only, as the cycle id is the constant "exit".
Fresh == {}
ExitId(b, leg) == {<<b, leg>>}

Side(o) == IF o.side = "buy" THEN market[o.base][o.leg].asks ELSE market[o.base][o.leg].bids

\* Wrong variant: no client order id is remembered.
Forgotten(g, o) == FALSE
Duplicate(g, o) == o.id # {} /\ o.id \subseteq g.seen

\* Fill or kill.
Accepts(g, o) == ~Duplicate(g, o) /\ o.qty > 0 /\ o.qty <= Depth(Side(o))

\* The price after slippage, times the quantity.
Filled(o) == Spent(Side(o), o.qty) * (IF o.side = "buy" THEN One + Slip ELSE One - Slip)

\* _apply_wallet_delta, without the clamp.
\* Wrong variant: the spot leg of a sale keeps its coins.
SettleKeepingCoins(w, o) ==
    LET sign == IF o.side = "buy" THEN 1 ELSE -1
    IN [w EXCEPT
          ![o.leg] = @ - sign * Filled(o) * (One + sign * Fee),
          !.coins[o.base] = IF o.leg = "spot" /\ o.side = "buy" THEN @ + o.qty ELSE @]
Settle(w, o) ==
    LET sign == IF o.side = "buy" THEN 1 ELSE -1
    IN [w EXCEPT
          ![o.leg] = @ - sign * Filled(o) * (One + sign * Fee),
          !.coins[o.base] = IF o.leg = "spot" THEN @ + sign * o.qty ELSE @]

\* _mutate_balance: no balance is below zero.
NonNegative(n) == IF n < 0 THEN 0 ELSE n
Clamped(w) ==
    [spot |-> NonNegative(w.spot), futures |-> NonNegative(w.futures),
     coins |-> [b \in Bases |-> NonNegative(w.coins[b])]]

\* place_market_fok: an id is used up by an order that is then rejected.
Place(g, o) ==
    [wallet |-> IF Accepts(g, o) THEN Clamped(Settle(g.wallet, o)) ELSE g.wallet,
     ledger |-> IF Accepts(g, o) THEN Settle(g.ledger, o) ELSE g.ledger,
     seen   |-> g.seen \cup o.id]

-----------------------------------------------------------------------------
(* The market moves between the cycles. *)

Quote(b) ==
    /\ pc = "idle"
    /\ \E q \in Quotes : market' = [market EXCEPT ![b] = q]
    /\ UNCHANGED <<gateway, rows, pc, todo>>

StartCycle ==
    /\ pc = "idle"
    /\ pc' = "exits" /\ todo' = Held
    /\ UNCHANGED <<market, gateway, rows>>

-----------------------------------------------------------------------------
(* Phase B: exits. *)

LiveBasis(b) == Basis(market[b].futures.mid, 1, market[b].spot.mid, 1)

\* unrealized_pnl_fraction <= stop_loss_pct, multiplied by what the entry cost.
StopLoss(row, b) ==
    LET spotPnl == row.qty * One * market[b].spot.mid - row.spotCost
        perpPnl == row.perpProceeds - row.qty * One * market[b].futures.mid
    IN (spotPnl + perpPnl) * One <= -Stop * row.spotCost

Dislocated(row, b) ==
    LiveBasis(b) - Basis(row.perpProceeds, 1, row.spotCost, 1) > Dislocation

\* fees_rt_bps: two spot and two perp legs, at the gateway's fee.
RoundTripFees == (4 * Fee * 10000) \div One

\* forward_net_apy_for_exit < exit_min_net_apy.
\* Wrong variant: the threshold of the entry.
UnprofitableForEntry(b) ==
    NetPerWindow(market[b].funding, LiveBasis(b), Multiple, RoundTripFees) < EntryNet
Unprofitable(b) ==
    NetPerWindow(market[b].funding, LiveBasis(b), Multiple, RoundTripFees) < ExitNet

\* _evaluate_position_exit: a voluntary exit waits for the basis.
Exits(row, b) ==
    \/ StopLoss(row, b)
    \/ Dislocated(row, b)
    \/ Unprofitable(b) /\ LiveBasis(b) <= MaxExitBasis

Visit(b) ==
    /\ pc = "exits" /\ b \in todo
    /\ todo' = todo \ {b}
    /\ UNCHANGED <<market, pc>>

\* The position stays: snapshots too far apart, nothing triggers, or a deferral.
SkipSkewedExit(b) == Visit(b) /\ UNCHANGED <<gateway, rows>>
Keep(b) == Visit(b) /\ ~Exits(rows[b], b) /\ UNCHANGED <<gateway, rows>>

\* _close_position_market_fok: the row is closed when both orders are accepted,
\* and stays open as it is when one is.
ClosePosition(b) ==
    LET sell == Order(b, "spot", "sell", rows[b].qty, ExitId(b, "spot"))
        buy == Order(b, "futures", "buy", rows[b].qty, ExitId(b, "futures"))
        sold == Place(gateway, sell)
    IN /\ Visit(b) /\ Exits(rows[b], b)
       /\ gateway' = Place(sold, buy)
       /\ rows' = IF Accepts(gateway, sell) /\ Accepts(sold, buy)
                  THEN [rows EXCEPT ![b] = NoRow] ELSE rows

EndExits ==
    /\ pc = "exits" /\ todo = {}
    /\ pc' = "entries"
    /\ UNCHANGED <<market, gateway, rows, todo>>

-----------------------------------------------------------------------------
(* Phase C: entries. *)

\* _tier1_scan, less the bases held.
Candidates == {b \in Bases \ Held : market[b].funding - ScanFees >= EntryNet}

\* The candidate with the most funding.
Best(b) == b \in Candidates /\ \A c \in Candidates : market[c].funding <= market[b].funding

Sized(b) ==
    SizeEntry(market[b].spot, market[b].futures, gateway.wallet.spot, gateway.wallet.futures)

\* basis_bps at the prices forecast at the two bindings.
ForecastBasis(b) ==
    LET z == Sized(b)
    IN Basis(Spent(market[b].futures.bids, z.perp), z.perp, Spent(market[b].spot.asks, z.spot), z.spot)

\* The floor on the notional, and the gate.
WorthIt(b) ==
    LET z == Sized(b)
        equity == gateway.wallet.spot + gateway.wallet.futures
        RoundedUp(n, d) == (n + d - 1) \div d
    IN /\ z.qty > 0
       /\ z.qty * Spent(market[b].spot.asks, z.spot) * One >= RoundedUp(MinPct * equity * z.spot, One * One)
       /\ NetPerWindow(market[b].funding, ForecastBasis(b), Multiple, RoundTripFees) >= EntryNet

EndCycle ==
    /\ pc = "entries"
    /\ pc' = "idle"
    /\ UNCHANGED <<market, todo>>

\* Entries are off, the positions are at the cap, nothing passes the scan, or the
\* snapshots are too far apart.
NoEntry == EndCycle /\ UNCHANGED <<gateway, rows>>

Reject(b) ==
    /\ EndCycle /\ Cardinality(Held) < MaxOpen
    /\ Best(b) /\ ~WorthIt(b)
    /\ UNCHANGED <<gateway, rows>>

EntryOrder(b, leg, side) == Order(b, leg, side, Sized(b).qty, Fresh)
EntryRow(b) ==
    [qty |-> Sized(b).qty,
     spotCost |-> Filled(EntryOrder(b, "spot", "buy")),
     perpProceeds |-> Filled(EntryOrder(b, "futures", "sell"))]

\* The row is inserted when both legs fill.  SizedEntriesFill says that they do,
\* so that the other outcomes of the executor are left to TradingCycle.
Enter(b) ==
    LET buy == EntryOrder(b, "spot", "buy")
        sell == EntryOrder(b, "futures", "sell")
        bought == Place(gateway, buy)
    IN /\ EndCycle /\ Cardinality(Held) < MaxOpen
       /\ Best(b) /\ WorthIt(b)
       /\ gateway' = Place(bought, sell)
       /\ rows' = IF Accepts(gateway, buy) /\ Accepts(bought, sell)
                  THEN [rows EXCEPT ![b] = EntryRow(b)] ELSE rows

Next ==
    \/ \E b \in Bases : Quote(b)
    \/ StartCycle
    \/ \E b \in Bases : SkipSkewedExit(b) \/ Keep(b) \/ ClosePosition(b)
    \/ EndExits
    \/ NoEntry
    \/ \E b \in Bases : Reject(b) \/ Enter(b)

Spec == Init /\ [][Next]_vars

-----------------------------------------------------------------------------
(* Settings that fit each other, and the quotes. *)

\* The margin of safety covers the slippage and the fee.
SafetyCovers == Safety * ((One + Slip) * (One + Fee)) <= One * One * One

\* One position at a time, and no price rises so far that what is sold at any bid
\* now and bought back at any ask later costs more than the margin of the position.
MarginCovers ==
    /\ MaxOpen = 1
    /\ \A now, later \in Quotes :
       \A i \in DOMAIN now.futures.bids, j \in DOMAIN later.futures.asks :
         LET proceeds == now.futures.bids[i].price * (One - Slip) * (One - Fee)
             cost == later.futures.asks[j].price * (One + Slip) * (One + Fee)
         IN (cost - proceeds) * (Safety * Leverage) <= now.futures.mid * (One * One * One)

\* An exit asks for less than an entry does, by what the basis changes from any ask
\* and any bid of a quote to its mid prices; and a position that is bought at any ask
\* and sold at any bid neither is at its stop nor seems dislocated.
ThresholdsApart ==
    /\ {EntryNet, ExitNet, Dislocation} \subseteq Int /\ Multiple \in Nat
    /\ \A q \in Quotes : \A i \in DOMAIN q.spot.asks, j \in DOMAIN q.futures.bids :
         LET ask == q.spot.asks[i].price
             bid == q.futures.bids[j].price
             live == Basis(q.futures.mid, 1, q.spot.mid, 1)
             cost == ask * (One + Slip)
             proceeds == bid * (One - Slip)
             loss == (cost - One * q.spot.mid) + (One * q.futures.mid - proceeds)
         IN /\ Multiple * (live - Basis(bid, 1, ask, 1)) <= EntryNet - ExitNet
            /\ loss * One < Stop * cost
            /\ live - Basis(proceeds, 1, cost, 1) <= Dislocation

-----------------------------------------------------------------------------
(* What the worker must guarantee. *)

\* A size that the sizing returns is one that the venue fills and the wallets
\* pay, slippage and fee included: both legs fill (sizing.py:126-186 against the
\* fill-or-kill check and the debit of paper.py:165-255).
SizedEntriesFill ==
    \A b \in Bases \ Held :
        LET qty == Sized(b).qty
            cost == Spent(market[b].spot.asks, qty) * (One + Slip) * (One + Fee)
        IN qty > 0 => /\ qty <= Depth(market[b].spot.asks)
                      /\ qty <= Depth(market[b].futures.bids)
                      /\ cost <= gateway.wallet.spot

\* The argmax over the levels is the closed form it is said to be: the largest
\* quantity that the book can fill and that the wallet funds at the price of the
\* last level it reaches (sizing.py:1-11, 64-82).
SpotSizeIsLargest ==
    \A b \in Bases :
        LET asks == market[b].spot.asks
            Reaches(q, i) == Cum(asks, i - 1) < q /\ q <= Cum(asks, i)
            fits == {q \in 1 .. Depth(asks) :
                       \E i \in DOMAIN asks :
                           Reaches(q, i) /\ q <= Fundable(gateway.wallet.spot, asks[i].price)}
        IN SpotBinding(asks, gateway.wallet.spot) = Max(fits \cup {0})

\* The fills of an entry are worse than the average prices that the gate forecast by
\* the slippage at most, which no forecast knows (paper.py:190-192): the forecast
\* walks each side of the books to its binding, which the order never exceeds
\* (sizing.py:81, 122, 180-186, used at cycle.py:580).
ForecastIsConservative ==
    \A b \in Bases \ Held :
        LET z == Sized(b)
            bought == Filled(EntryOrder(b, "spot", "buy"))
            sold == Filled(EntryOrder(b, "futures", "sell"))
        IN z.qty > 0 =>
             /\ bought * z.spot <= Spent(market[b].spot.asks, z.spot) * z.qty * (One + Slip)
             /\ sold * z.perp >= Spent(market[b].futures.bids, z.perp) * z.qty * (One - Slip)

\* The spot wallet is never cut off at zero, neither the quote nor the coins: money is
\* neither forgotten nor made (paper.py:252-255).  A buy is paid whole, and a row that
\* is half closed is not sold twice because its second sale is a duplicate.  (With the
\* types.)
SpotIsLedger ==
    /\ TypeOK
    /\ gateway.wallet.spot = gateway.ledger.spot
    /\ gateway.wallet.coins = gateway.ledger.coins

\* Nor is the futures wallet, as long as buying a perp back costs no more than it has
\* (paper.py:240-255), as under MarginCovers.
FuturesIsLedger == gateway.wallet.futures = gateway.ledger.futures

\* The coins in the paper wallet are those of the open rows, except those of a row
\* whose close sold the coins and did not buy back the perp (cycle.py:828-862,
\* which leaves such a row open).
CoinsMatchRows ==
    \A b \in Bases :
        \/ gateway.wallet.coins[b] = rows[b].qty
        \/ gateway.wallet.coins[b] = 0 /\ b \in Held /\ <<b, "spot">> \in gateway.seen

\* No churn: a pair that passes the gate would not be closed by the next cycle if
\* the market stood still, as under ThresholdsApart.  The gate takes the basis from
\* the walk of the books and the exit from the mid prices (cycle.py:580 and 445), which
\* in contango show more of it; the stop and the dislocation compare with fills that
\* include the slippage; and each threshold is set on its own.
NoChurn ==
    \A b \in Bases \ Held : b \in Candidates /\ WorthIt(b) => ~Exits(EntryRow(b), b)

=============================================================================
