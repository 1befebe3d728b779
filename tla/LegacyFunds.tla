---------------------------- MODULE LegacyFunds ----------------------------
(***************************************************************************)
(* The money of the live cycle of version 1.3 on an account whose wallets  *)
(* are separate (archive/v1.3-legacy/app/bot.py:1603-2245): the sweep into *)
(* the trading wallet, the rebalance before a trade, sizing, the swap of   *)
(* the quote currencies, the entry's two payments and the drain at the end *)
(* of the cycle, over the transfers of the gateways (exchange.py).         *)
(*                                                                         *)
(* Per quote currency there are three wallets: main, where a KuCoin        *)
(* account receives deposits, trade, which spot orders spend, and          *)
(* contract, which margins the shorts.  Binance has no main.  The balance  *)
(* reader reports main and trade as one.  The bot sizes by a copy of what  *)
(* it read, which the rebalance updates and the cache does not follow.     *)
(*                                                                         *)
(* Amounts are in dimes.  Prices do not move, fees are left out, a margin  *)
(* is the notional (leverage 1), and a cycle finds rows and legs agreed    *)
(* and balances freshly read: LegacyBot has the rest.                      *)
(***************************************************************************)
EXTENDS LegacyCapital, FiniteSetsExt

CONSTANTS
    Quotes,        \* the two quote currencies
    Home,          \* the one movements are made in
    Pairs,         \* <<quote of the spot leg, quote of the perp leg>>
    Funds,         \* what the trading wallets hold at first
    Lot,           \* what a movement moves
    MinPct, MaxPct, BufferPct,   \* min_position_pct, max_position_pct, futures_buffer_pct
    MaxOpen,       \* max_open_positions
    AutoTransfer,  \* auto_transfer_enabled
    MaxFaults      \* bound of the model: failed transfers and lost sessions

ASSUME FundsAssumption ==
    /\ IsFiniteSet(Quotes) /\ Cardinality(Quotes) = 2 /\ Home \in Quotes /\ Pairs \subseteq Quotes \X Quotes
    /\ Funds \in [Quotes -> Nat]
    /\ {Lot, MaxOpen} \subseteq Nat \ {0} /\ MaxFaults \in Nat
    /\ {MinPct, MaxPct, BufferPct} \subseteq 0 .. 100
    /\ AutoTransfer \in BOOLEAN

VARIABLES
    pc,         \* the pass of the cycle
    todo,       \* the quotes it has still to visit
    want,       \* the candidates that passed the screen and are not yet decided
    order,      \* the entry about to be placed
    wallet,     \* what the venue holds
    position,   \* the notional of each pair's position
    listed,     \* the same by the rows a query finds
    cache,      \* the balances last read
    local,      \* what sizing believes to be free
    surprised,  \* quotes a failed transfer or a movement has touched in this cycle
    faults

cycle == <<pc, todo, want, order>>
venueState == <<wallet, position>>
beliefs == <<listed, cache, local>>
vars == <<capital, cycle, venueState, beliefs, surprised, faults>>

Passes == {"idle", "exits", "consolidate", "refresh", "read", "rebalance", "candidates",
           "swapped", "order", "reread", "drain", "commit"}
NoOrder == [pair |-> <<>>, n |-> 0]
Unread == [q \in Quotes |-> [spot |-> 0, free |-> 0, total |-> 0, coins |-> 0]]

SpotIn(q) == {p \in Pairs : p[1] = q}
PerpIn(q) == {p \in Pairs : p[2] = q}
Notional(amounts, pairs) == SumFunctionOnSet(amounts, pairs)
Held(amounts) == {p \in Pairs : amounts[p] > 0}
Other(q) == CHOOSE s \in Quotes : s # q
Least(m, n) == IF m <= n THEN m ELSE n
Most(m, n) == IF m >= n THEN m ELSE n

Init ==
    /\ CapitalInit
    /\ pc = "idle" /\ todo = {} /\ want = {} /\ order = NoOrder
    /\ wallet = [q \in Quotes |-> [main |-> 0, trade |-> Funds[q], contract |-> 0]]
    /\ position = [p \in Pairs |-> 0] /\ listed = position
    /\ cache = Unread /\ local = Unread
    /\ surprised = {} /\ faults = 0

-----------------------------------------------------------------------------
(* Reading and moving. *)

\* safe_balances: free and total of a contract wallet differ by the margins in use;
\* coins count at what they are worth in the currency that paid for them.
Reading(ws, amounts) ==
    [q \in Quotes |->
        [spot |-> ws[q].main + ws[q].trade,
         free |-> ws[q].contract,
         total |-> ws[q].contract + Notional(amounts, PerpIn(q)),
         coins |-> Notional(amounts, SpotIn(q))]]

Hop(ws, q, from, to, n) ==
    [s \in Quotes |->
        IF s = q THEN [ws[s] EXCEPT ![from] = @ - n, ![to] = @ + n] ELSE ws[s]]

\* What sizing believes after moving n from spot to the contract wallet.
Shifted(bs, q, n) ==
    [s \in Quotes |->
        IF s = q THEN [bs[s] EXCEPT !.spot = @ - n, !.free = @ + n] ELSE bs[s]]

\* An outcome: the answer, the wallets, and whether a transfer failed.
Done(ws) == [ok |-> TRUE, ws |-> ws, failed |-> FALSE]
Refused(ws) == [ok |-> FALSE, ws |-> ws, failed |-> FALSE]
Failed(ws) == [ok |-> FALSE, ws |-> ws, failed |-> TRUE]
SoftlyDone(ws) == [ok |-> TRUE, ws |-> ws, failed |-> TRUE]

\* transfer_spot_to_futures: what trade lacks comes from main first.
ToFutures(ws, q, n) ==
    LET lacking == Most(0, n - ws[q].trade)
        topped == Hop(ws, q, "main", "trade", lacking)
    IN  IF ws[q].main < lacking THEN {Refused(ws)}
        ELSE {Done(Hop(topped, q, "trade", "contract", n)), Failed(topped), Failed(ws)}

\* Binance moves them at once.
ToSpotAtOnce(ws, q, n) ==
    IF ws[q].contract < n THEN {Refused(ws)}
    ELSE {Done(Hop(ws, q, "contract", "trade", n)), Failed(ws)}

\* Wrong variant: the funds are left where the futures side puts them.
ToSpotThroughMainOnly(ws, q, n) ==
    IF ws[q].contract < n THEN {Refused(ws)}
    ELSE {Done(Hop(ws, q, "contract", "main", n)), Failed(ws)}

\* KuCoin's futures side puts them into main, which is good enough an answer.
ToSpotThroughMain(ws, q, n) ==
    IF ws[q].contract < n THEN {Refused(ws)}
    ELSE {Done(Hop(ws, q, "contract", "trade", n)),
          SoftlyDone(Hop(ws, q, "contract", "main", n)), Failed(ws)}

\* transfer_futures_to_spot.
ToSpot(ws, q, n) ==
    IF venue = "kucoin" THEN ToSpotThroughMain(ws, q, n) ELSE ToSpotAtOnce(ws, q, n)

Fault(happens) ==
    /\ happens => faults < MaxFaults
    /\ faults' = IF happens THEN faults + 1 ELSE faults

Touched(quotes) == surprised' = surprised \cup quotes

\* A transfer leaves a line in the venue's log.
Moves(q, outcome) ==
    /\ wallet' = outcome.ws
    /\ Fault(outcome.failed)
    /\ Touched(IF outcome.failed THEN {q} ELSE {})
    /\ shuttled' = (shuttled \/ wallet' # wallet)
    /\ UNCHANGED <<venue, moved, rows, pending, asked, raced>>

Still == UNCHANGED <<wallet, faults, surprised, capital>>

-----------------------------------------------------------------------------
(* The cycle. *)

StartCycle ==
    /\ pc = "idle" /\ pc' = "exits"
    /\ cache' = Reading(wallet, position) /\ listed' = position
    /\ surprised' = {}
    /\ UNCHANGED <<capital, todo, want, order, venueState, local, faults>>

\* Both legs of a pair are closed; its row is not flushed yet.
Exit(p) ==
    /\ pc = "exits" /\ position[p] > 0
    /\ wallet' = [q \in Quotes |->
         [wallet[q] EXCEPT !.trade = @ + (IF q = p[1] THEN position[p] ELSE 0),
                           !.contract = @ + (IF q = p[2] THEN position[p] ELSE 0)]]
    /\ position' = [position EXCEPT ![p] = 0]
    /\ UNCHANGED <<capital, cycle, beliefs, surprised, faults>>

\* Entries are off, or a limit is reached.
SkipEntries ==
    /\ pc = "exits" /\ pc' = "reread"
    /\ UNCHANGED <<capital, todo, want, order, venueState, beliefs, surprised, faults>>

Scan ==
    /\ pc = "exits" /\ Cardinality(Held(listed)) < MaxOpen
    /\ want' \in SUBSET Pairs
    /\ pc' = "consolidate"
    /\ UNCHANGED <<capital, todo, order, venueState, beliefs, surprised, faults>>

Swept(ws, quotes) ==
    [q \in Quotes |->
        IF q \in quotes THEN [ws[q] EXCEPT !.trade = @ + ws[q].main, !.main = 0] ELSE ws[q]]

\* consolidate_spot_wallets.
Consolidate ==
    /\ pc = "consolidate"
    /\ LET parked == {q \in Quotes : wallet[q].main > 0}
       IN  \E failing \in SUBSET parked :
             /\ Cardinality(failing) <= 1
             /\ Moves(CHOOSE q \in Quotes : failing \subseteq {q},
                      [ok |-> failing = {}, ws |-> Swept(wallet, parked \ failing),
                       failed |-> failing # {}])
             /\ pc' = IF parked \ failing = {} THEN "read" ELSE "refresh"
    /\ UNCHANGED <<todo, want, order, position, beliefs>>

\* The balances are read anew after a sweep, and otherwise when the cache has expired.
ReadWallets ==
    /\ pc \in {"refresh", "read"}
    /\ \/ cache' = Reading(wallet, position)
       \/ pc = "read" /\ UNCHANGED cache
    /\ local' = cache'
    /\ todo' = Quotes /\ pc' = "rebalance"
    /\ UNCHANGED <<want, order, position, listed>> /\ Still

\* Wrong variant: the wallets are evened out with nothing to fund.
RebalancesAlways == AutoTransfer

Rebalances == AutoTransfer /\ want # {}

\* Half of the difference goes to the wallet that has less; a gap below 20 cents stays.
Gap(q) == local[q].spot - local[q].free
SmallGap == 2

Rebalance(q) ==
    /\ pc = "rebalance" /\ q \in todo /\ Rebalances
    /\ todo' = todo \ {q}
    /\ \/ /\ Gap(q) > -SmallGap /\ Gap(q) < SmallGap
          /\ UNCHANGED local /\ Still
       \/ /\ Gap(q) >= SmallGap
          /\ LET n == Gap(q) \div 2
             IN  \E outcome \in ToFutures(wallet, q, n) :
                   /\ Moves(q, outcome)
                   /\ local' = IF outcome.ok THEN Shifted(local, q, n) ELSE local
       \/ /\ Gap(q) <= -SmallGap
          /\ LET n == (-Gap(q)) \div 2
             IN  \E outcome \in ToSpot(wallet, q, n) :
                   /\ Moves(q, outcome)
                   /\ local' = IF outcome.ok THEN Shifted(local, q, -n) ELSE local
    /\ UNCHANGED <<pc, want, order, position, listed, cache>>

EndRebalance ==
    /\ pc = "rebalance" /\ (todo = {} \/ ~Rebalances)
    /\ todo' = {} /\ pc' = "candidates"
    /\ UNCHANGED <<want, order, position, beliefs>> /\ Still

-----------------------------------------------------------------------------
(* Sizing and entering. *)

Equity == SumFunction([q \in Quotes |-> cache[q].spot + cache[q].total + cache[q].coins])
MinNotional == (MinPct * Equity) \div 100
Desired == (MaxPct * Equity) \div 100

WalletCap(p) == (97 * Least(local[p[1]].spot, local[p[2]].free)) \div 100
Sized(p) == Least(WalletCap(p), Desired)
TooSmall(p) == Sized(p) < MinNotional \/ Sized(p) = 0

Considered(p) == p \in want /\ listed[p] = 0
Dropped(p) ==
    /\ want' = want \ {p} /\ order' = NoOrder /\ pc' = "candidates"
    /\ UNCHANGED <<todo, position, listed, cache, local>>

\* The auto-swap: the other currency has enough for half as much again as the floor.
Surplus(q) == local[Other(q)].spot + local[Other(q)].free
SwapTarget(q) == Least((3 * MinNotional) \div 2, Surplus(q) \div 2)
CanSwap(p) ==
    LET q == p[1]
    IN  /\ p[1] = p[2]
        /\ 100 * Surplus(q) >= 105 * ((3 * MinNotional) \div 2) /\ Surplus(q) > 10

Exchanged(ws, q, n) ==
    [s \in Quotes |-> [ws[s] EXCEPT !.trade = IF s = q THEN @ + n ELSE @ - n]]

\* The swap spends from one trading wallet into the other; then the wallets are swept
\* and read again, and the currency is split if its contract wallet is not empty.
Swap(p) ==
    /\ pc = "candidates" /\ Considered(p) /\ TooSmall(p) /\ CanSwap(p)
    /\ LET q == p[1]
           n == SwapTarget(q)
           after == Swept(Exchanged(wallet, q, n), Quotes)
           seen == Reading(after, position)
           half == (seen[q].spot - seen[q].free) \div 2
           splits == seen[q].total > 0 /\ half > 1
       IN  /\ n > 0 /\ wallet[Other(q)].trade >= n
           /\ cache' = seen
           /\ \E outcome \in IF splits THEN ToFutures(after, q, half) ELSE {Done(after)} :
                /\ Moves(q, outcome)
                /\ local' = IF splits /\ outcome.ok THEN Shifted(seen, q, half) ELSE seen
    /\ order' = [pair |-> p, n |-> 0] /\ pc' = "swapped"
    /\ UNCHANGED <<todo, want, position, listed>>

\* Below the floor, without book depth, or not profitable at the prices of the books; a
\* swap may find no depth either, or the currencies off par.
Reject(p) ==
    /\ \/ pc = "candidates" /\ p \in want
       \/ pc = "swapped" /\ p = order.pair
    /\ Dropped(p) /\ Still

\* The walk through the books may shrink the order, down to the floor.
Approve(p) ==
    /\ \/ pc = "candidates" /\ Considered(p)
       \/ pc = "swapped" /\ p = order.pair
    /\ ~TooSmall(p)
    /\ \E n \in {Most(1, MinNotional), Sized(p)} : order' = [pair |-> p, n |-> n]
    /\ pc' = "order"
    /\ UNCHANGED <<todo, want, position, beliefs>> /\ Still

\* Spot first, then the perp.  The balances are read before the spot order; the row is
\* flushed between the two orders.
Enter(p) ==
    /\ pc = "order" /\ order.pair = p
    /\ wallet[p[1]].trade >= order.n /\ wallet[p[2]].contract >= order.n
    /\ cache' = Reading(wallet, position)
    /\ wallet' = [q \in Quotes |->
         [wallet[q] EXCEPT !.trade = @ - (IF q = p[1] THEN order.n ELSE 0),
                           !.contract = @ - (IF q = p[2] THEN order.n ELSE 0)]]
    /\ position' = [position EXCEPT ![p] = order.n] /\ listed' = position'
    /\ order' = NoOrder /\ want' = {} /\ local' = Unread /\ pc' = "reread"
    /\ UNCHANGED <<capital, todo, surprised, faults>>

\* One of the orders is refused or fills nothing: what was bought is sold back.
EnterFails(p) ==
    /\ pc = "order" /\ order.pair = p
    /\ cache' = Reading(wallet, position)
    /\ want' = want \ {p} /\ order' = NoOrder /\ pc' = "candidates"
    /\ UNCHANGED <<todo, position, listed, local>> /\ Still

EndCandidates ==
    /\ pc = "candidates" /\ \A p \in want : ~Considered(p)
    /\ want' = {} /\ local' = Unread /\ pc' = "reread"
    /\ UNCHANGED <<todo, order, position, listed, cache>> /\ Still

-----------------------------------------------------------------------------
(* The end of the cycle. *)

Reread ==
    /\ pc = "reread" /\ pc' = "drain" /\ todo' = Quotes
    /\ cache' \in {cache, Reading(wallet, position)}
    /\ UNCHANGED <<want, order, position, listed, local>> /\ Still

\* The buffer under the open shorts of a currency, or next to nothing.
Spare == 1
Keep(q) ==
    LET n == Notional(listed, PerpIn(q))
    IN  IF n > 0 THEN Most(2, (BufferPct * n) \div 100) ELSE Spare

Drains(q) == AutoTransfer /\ cache[q].total > 0 /\ cache[q].free > Keep(q) + Spare

Drain(q) ==
    /\ pc = "drain" /\ q \in todo
    /\ todo' = todo \ {q}
    /\ \/ ~Drains(q) /\ Still
       \/ /\ Drains(q)
          /\ \E outcome \in ToSpot(wallet, q, cache[q].free - Keep(q)) : Moves(q, outcome)
    /\ UNCHANGED <<pc, want, order, position, beliefs>>

Ingest ==
    /\ pc = "drain" /\ todo = {} /\ pc' = "commit"
    /\ CycleIngests
    /\ UNCHANGED <<todo, want, order, venueState, beliefs, surprised, faults>>

Forgets ==
    /\ pc' = "idle" /\ todo' = {} /\ want' = {} /\ order' = NoOrder
    /\ cache' = Unread /\ local' = Unread /\ listed' = position /\ surprised' = {}
    /\ UNCHANGED venueState

Commit == pc = "commit" /\ CycleCommits /\ Forgets /\ UNCHANGED faults

LoseSession == pc # "idle" /\ CycleRollsBack /\ Forgets /\ Fault(TRUE)

-----------------------------------------------------------------------------
(* Around the cycle. *)

\* Deposits arrive where the venue puts them; withdrawals leave the trading wallet.
Move(m) ==
    /\ m \notin moved /\ moved' = moved \cup {m}
    /\ LET to == IF venue = "kucoin" THEN "main" ELSE "trade"
       IN  IF Kind[m] = "withdrawal"
           THEN /\ wallet[Home].trade >= Lot
                /\ wallet' = [wallet EXCEPT ![Home].trade = @ - Lot]
           ELSE wallet' = [wallet EXCEPT ![Home][to] = @ + Lot]
    /\ Touched({Home})
    /\ UNCHANGED <<venue, shuttled, rows, pending, asked, raced>>
    /\ UNCHANGED <<cycle, position, beliefs, faults>>

\* Between two cycles, and while the rows of a cycle are not committed: elsewhere these
\* steps meet nothing of the cycle they could change.
Around ==
    /\ pc \in {"idle", "commit"}
    /\ ButtonReads \/ ButtonStores
    /\ UNCHANGED <<cycle, venueState, beliefs, surprised, faults>>

Step ==
    \/ StartCycle \/ (\E p \in Pairs : Exit(p)) \/ SkipEntries \/ Scan
    \/ Consolidate \/ ReadWallets \/ (\E q \in Quotes : Rebalance(q)) \/ EndRebalance
    \/ \E p \in Pairs : Swap(p) \/ Reject(p) \/ Approve(p) \/ Enter(p) \/ EnterFails(p)
    \/ EndCandidates \/ Reread \/ (\E q \in Quotes : Drain(q)) \/ Ingest \/ Commit

Next == Step \/ LoseSession \/ (\E m \in Movements : Move(m)) \/ Around

\* The loop goes on.
Spec == Init /\ [][Next]_vars /\ WF_vars(Step)

-----------------------------------------------------------------------------
(* Properties *)

TypeOK ==
    /\ CapitalTypeOK
    /\ pc \in Passes /\ todo \subseteq Quotes /\ want \subseteq Pairs
    /\ wallet \in [Quotes -> [main : Nat, trade : Nat, contract : Nat]]
    /\ {position, listed} \subseteq [Pairs -> Nat]
    /\ surprised \subseteq Quotes /\ faults \in 0 .. MaxFaults

\* An order for both legs is placed only when the wallet that pays each leg holds it
\* (bot.py:1771-1777), although spot is reported as main and trade together
\* (bot.py:1604-1614) and the rebalance moves money after the reading.  It holds in
\* every cycle in which no transfer in that currency failed and no movement came: what
\* an earlier cycle left in main is swept before it counts.  (With the types.)
SizedIsFunded ==
    TypeOK /\ (pc = "order" =>
        LET p == order.pair
        IN  /\ p[1] \notin surprised => order.n <= wallet[p[1]].trade
            /\ p[2] \notin surprised => order.n <= wallet[p[2]].contract)

\* Once no candidate passes the screen the wallets come to rest: the drain and the
\* rebalance do not pass the money to and fro (bot.py:1682-1690).
TransfersSettle == (<>[](want = {})) => <>[][FALSE]_wallet

=============================================================================
