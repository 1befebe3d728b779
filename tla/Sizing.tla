-------------------------------- MODULE Sizing --------------------------------
(***************************************************************************)
(* The closed-form size of an entry (core/sizing.py) and the profitability *)
(* gate and exit decision (core/math.py, loop/cycle.py), as pure operators *)
(* over integers.                                                          *)
(*                                                                         *)
(* A quantity counts grains of the base asset, a price is per grain, and a *)
(* lot is Lot grains.  Rates are in parts of One.  Money, as a wallet      *)
(* holds it, is in units of 1 / (One * One) of the quote, so that slippage *)
(* and fees are exact.  size_sell_spot_flat_cap is left out: nothing but   *)
(* the tests calls it.  A division rounds down to a whole grain, which is  *)
(* exact after the floor to the lot whenever Lot * SubDen is a multiple of *)
(* SubNum.  Basis and funding are in basis points.                         *)
(***************************************************************************)
EXTENDS Integers, Sequences, FiniteSetsExt

CONSTANTS
    One,               \* the denominator of the rates
    Safety,            \* 0.99 in the code: the part of a wallet an entry may use
    Lot,               \* lot_step, in grains
    SubNum, SubDen,    \* sub_target_sizing_factor
    MaxPct, MinPct,    \* max_position_pct, min_position_pct
    Leverage           \* perp_leverage

ASSUME SizingAssumption ==
    /\ {One, Lot, SubNum, SubDen, Leverage} \subseteq Nat \ {0}
    /\ Safety \in 0 .. One /\ MaxPct \in 0 .. One /\ MinPct \in 0 .. One
    /\ SubNum <= SubDen /\ (Lot * SubDen) % SubNum = 0

\* A side of a book: a sequence of levels, the best first.
Level == [price : Nat \ {0}, depth : Nat]
Rising(levels) == \A i, j \in DOMAIN levels : i <= j => levels[i].price <= levels[j].price
Falling(levels) == \A i, j \in DOMAIN levels : i <= j => levels[j].price <= levels[i].price
IsBook(book) ==
    /\ {book.asks, book.bids} \subseteq Seq(Level) /\ book.mid \in Nat \ {0}
    /\ Rising(book.asks) /\ Falling(book.bids)
    /\ \A i \in DOMAIN book.asks : book.mid <= book.asks[i].price
    /\ \A j \in DOMAIN book.bids : book.bids[j].price <= book.mid

Depths(levels) == [i \in DOMAIN levels |-> levels[i].depth]
Depth(levels) == SumFunction(Depths(levels))

\* The depth of the levels 1 to i.
Cum(levels, i) == SumFunctionOnSet(Depths(levels), 1 .. i)

Least(a, b) == IF a < b THEN a ELSE b

\* What a walk of the levels takes from level i to fill qty, and what the fill
\* costs or brings.
Taken(levels, i, qty) ==
    LET before == Cum(levels, i - 1)
    IN IF qty <= before THEN 0 ELSE Least(levels[i].depth, qty - before)
Spent(levels, qty) ==
    SumFunction([i \in DOMAIN levels |-> Taken(levels, i, qty) * levels[i].price])

\* What the wallet funds at a price, with the safety margin.
Fundable(money, price) == (money * Safety) \div (One * One * One * price)

\* size_buy_spot_price_dependent: what is feasible at level i, when all of it is
\* reserved at the price of that level.
\* Wrong variant: the depth of level i alone, not of the levels up to it.
FeasibleAtLevel(asks, money, i) == Least(asks[i].depth, Fundable(money, asks[i].price))
Feasible(asks, money, i) == Least(Cum(asks, i), Fundable(money, asks[i].price))

\* The argmax over the levels.
SpotBinding(asks, money) == Max({Feasible(asks, money, i) : i \in DOMAIN asks} \cup {0})

\* size_perp_flat_cap: depth against margin at the mark price.
\* Wrong variant: margin alone.
PerpBindingByMargin(bids, mark, money) == Fundable(money * Leverage, mark)
PerpBinding(bids, mark, money) == Least(Depth(bids), Fundable(money * Leverage, mark))

\* The operator's cap (cycle.py:536-538): a part of both wallets at the spot price.
OperatorCap(total, mark) == (total * MaxPct) \div (One * One * One * mark)

\* _floor_to_step(raw * sub_target, lot_step).
\* Wrong variant: to the nearest step.
RoundedToLot(raw) == ((raw * SubNum + (SubDen * Lot) \div 2) \div (SubDen * Lot)) * Lot
FloorToLot(raw) == ((raw * SubNum) \div (SubDen * Lot)) * Lot

\* size_entry, as the quantity and the two bindings its forecasts are made at.
SizeEntry(spot, perp, spotMoney, perpMoney) ==
    LET s == SpotBinding(spot.asks, spotMoney)
        p == PerpBinding(perp.bids, perp.mid, perpMoney)
        cap == OperatorCap(spotMoney + perpMoney, spot.mid)
    IN [qty |-> FloorToLot(Least(Least(s, p), cap)), spot |-> s, perp |-> p]

-----------------------------------------------------------------------------

\* basis_bps of two prices given as fractions a / b: signed, perp over spot.
Basis(perpNum, perpDen, spotNum, spotDen) ==
    ((perpNum * spotDen - spotNum * perpDen) * 10000) \div (spotNum * perpDen)

Magnitude(n) == IF n < 0 THEN -n ELSE n

\* evaluate_gate: the net of a funding window in basis points.  The annual yield
\* that the code compares is an increasing function of it, so that the thresholds
\* are given per window.  The basis counts as a cost whatever its sign.
NetPerWindow(funding, basis, multiple, roundTripFees) ==
    funding - multiple * Magnitude(basis) - roundTripFees

=============================================================================
