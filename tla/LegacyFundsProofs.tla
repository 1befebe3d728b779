-------------------------- MODULE LegacyFundsProofs --------------------------
(***************************************************************************)
(* Two theorems about LegacyFunds, for any movements at either venue, any  *)
(* percentages and any course of the cycle: a movement is counted once     *)
(* (BookInv), and an order is funded by the wallets that pay it (FundsInv).*)
(***************************************************************************)
EXTENDS LegacyFunds, SumProofs

book == <<rows, pending, asked, raced>>

BookTypeOK ==
    /\ rows \in [Ids -> Nat] /\ pending \in [Ids -> Nat] /\ asked \in [Ids -> Nat]
    /\ raced \subseteq Movements

\* Each session holds an id for missing that is not in the table, unless the other
\* has committed it in between, and both hold it for missing only in a race.
SessionsAgree(i) ==
    /\ pending[i] <= 1 /\ asked[i] <= 1
    /\ rows[i] <= (IF i \in raced THEN 2 ELSE 1)
    /\ pending[i] > 0 => rows[i] = 0
    /\ asked[i] > 0 => rows[i] = 0 \/ (rows[i] = 1 /\ pending[i] = 0 /\ i \in raced)
    /\ asked[i] > 0 /\ pending[i] > 0 => i \in raced

\* The bot's own transfers are nobody's.
ShuttleIgnored == rows[Shuttle] = 0 /\ pending[Shuttle] = 0 /\ asked[Shuttle] = 0

BookInv == BookTypeOK /\ (\A i \in Ids : SessionsAgree(i)) /\ ShuttleIgnored

-----------------------------------------------------------------------------
\* The transfers of the bot have an id of their own.
LEMMA ShuttleIsNoMovement == Shuttle \in Ids /\ Shuttle \notin Movements
BY CapitalAssumption DEF Ids

\* No rows.
LEMMA NothingIsZero == Nothing \in [Ids -> Nat] /\ \A i \in Ids : Nothing[i] = 0
BY DEF Nothing

\* What an ingest stores: at most one row of an id, none of an id in the table, and
\* none of the bot's transfers.
LEMMA NewRowsAreNew ==
    ASSUME NEW answering
    PROVE  LET new == NewRows(Records(answering))
           IN  /\ new \in [Ids -> Nat]
               /\ \A i \in Ids : new[i] <= 1 /\ (new[i] > 0 => rows[i] = 0)
               /\ new[Shuttle] = 0
<1> DEFINE new == NewRows(Records(answering))
<1>1. new \in [Ids -> Nat] /\ \A i \in Ids : new[i] <= 1 /\ (new[i] > 0 => rows[i] = 0)
  BY DEF NewRows
<1>2. ~\E r \in Records(answering) : r[2] = Shuttle
  BY DEF Records, IntraAccount
<1>3. new[Shuttle] = 0
  BY <1>2, ShuttleIsNoMovement DEF NewRows
<1> QED BY <1>1, <1>3

\* The sum of two counts.
LEMMA TogetherAdds ==
    ASSUME NEW f \in [Ids -> Nat], NEW g \in [Ids -> Nat]
    PROVE  /\ Together(f, g) \in [Ids -> Nat]
           /\ \A i \in Ids : Together(f, g)[i] = f[i] + g[i]
BY DEF Together

\* What only one session holds for missing does not race.
LEMMA RacesAreMovements ==
    ASSUME NEW f, NEW g, f[Shuttle] = 0 \/ g[Shuttle] = 0
    PROVE  Both(f, g) \subseteq Movements /\ \A i \in Ids : f[i] > 0 /\ g[i] > 0 => i \in Both(f, g)
BY DEF Both, Ids

\* Every step of the account's cycle and of its surroundings changes the book in one of
\* five ways, or not at all.
LEMMA WaysToTheBook ==
    ASSUME [Next]_vars
    PROVE  \/ UNCHANGED book
           \/ CycleIngests \/ CycleCommits \/ CycleRollsBack \/ ButtonReads \/ ButtonStores
<1> USE DEF book
<1>1. CASE Step
  <2>1. ASSUME NEW p \in Pairs,
               Exit(p) \/ Reject(p) \/ Approve(p) \/ Enter(p) \/ EnterFails(p)
        PROVE  UNCHANGED book
    BY <2>1 DEF Exit, Reject, Approve, Enter, EnterFails, Still, capital
  <2>2. ASSUME NEW p \in Pairs, Swap(p) PROVE UNCHANGED book
    BY <2>2 DEF Swap, Moves
  <2>3. ASSUME NEW q \in Quotes, Rebalance(q) \/ Drain(q) PROVE UNCHANGED book
    BY <2>3 DEF Rebalance, Drain, Moves, Still, capital
  <2>4. ASSUME StartCycle \/ SkipEntries \/ Scan \/ ReadWallets \/ EndRebalance
               \/ EndCandidates \/ Reread
        PROVE  UNCHANGED book
    BY <2>4 DEF StartCycle, SkipEntries, Scan, ReadWallets, EndRebalance, EndCandidates,
                Reread, Still, capital
  <2>5. ASSUME Consolidate PROVE UNCHANGED book
    BY <2>5 DEF Consolidate, Moves
  <2>6. Ingest => CycleIngests
    BY DEF Ingest
  <2>7. Commit => CycleCommits
    BY DEF Commit
  <2> QED BY <1>1, <2>1, <2>2, <2>3, <2>4, <2>5, <2>6, <2>7 DEF Step
<1>2. CASE LoseSession
  BY <1>2 DEF LoseSession
<1>3. ASSUME NEW m \in Movements, Move(m) PROVE UNCHANGED book
  BY <1>3 DEF Move
<1>4. CASE Around
  BY <1>4 DEF Around
<1>5. CASE UNCHANGED vars
  BY <1>5 DEF vars, capital
<1> QED BY <1>1, <1>2, <1>3, <1>4, <1>5 DEF Next

\* At first nothing is stored.
LEMMA InitBook == Init => BookInv
BY NothingIsZero, ShuttleIsNoMovement
   DEF Init, CapitalInit, BookInv, BookTypeOK, SessionsAgree, ShuttleIgnored

\* A step that leaves the book alone.
LEMMA BookKept == ASSUME BookInv, UNCHANGED book PROVE BookInv'
BY DEF book, BookInv, BookTypeOK, SessionsAgree, ShuttleIgnored

\* The hourly ingest of the cycle.
LEMMA IngestKeepsBook == ASSUME BookInv, CycleIngests PROVE BookInv'
<1>1. CASE UNCHANGED capital
  BY <1>1, BookKept DEF capital, book
<1>2. CASE ~UNCHANGED capital
  <2>1. PICK answering \in SUBSET Endpoints : pending' = NewRows(Records(answering))
    BY <1>2 DEF CycleIngests
  <2>2. raced' = raced \cup Both(pending', asked) /\ UNCHANGED <<rows, asked>>
    BY <1>2 DEF CycleIngests
  <2>3. /\ pending' \in [Ids -> Nat] /\ pending'[Shuttle] = 0
        /\ \A i \in Ids : pending'[i] <= 1 /\ (pending'[i] > 0 => rows[i] = 0)
    BY <2>1, NewRowsAreNew
  <2>4. /\ Both(pending', asked) \subseteq Movements
        /\ \A i \in Ids : pending'[i] > 0 /\ asked[i] > 0 => i \in Both(pending', asked)
    BY <2>3, RacesAreMovements
  <2>5. BookTypeOK' /\ ShuttleIgnored'
    BY <2>2, <2>3, <2>4 DEF BookInv, BookTypeOK, ShuttleIgnored
  <2>6. ASSUME NEW i \in Ids PROVE SessionsAgree(i)'
    BY <2>2, <2>3, <2>4 DEF BookInv, BookTypeOK, SessionsAgree
  <2> QED BY <2>5, <2>6 DEF BookInv
<1> QED BY <1>1, <1>2

\* The commit of the cycle's session.
LEMMA CommitKeepsBook == ASSUME BookInv, CycleCommits PROVE BookInv'
<1>1. /\ rows' = Together(rows, pending) /\ pending' = Nothing
      /\ UNCHANGED <<asked, raced>>
  BY DEF CycleCommits
<1>2. rows' \in [Ids -> Nat] /\ \A i \in Ids : rows'[i] = rows[i] + pending[i]
  BY <1>1, TogetherAdds DEF BookInv, BookTypeOK
<1>3. BookTypeOK' /\ ShuttleIgnored'
  BY <1>1, <1>2, NothingIsZero, ShuttleIsNoMovement DEF BookInv, BookTypeOK, ShuttleIgnored
<1>4. ASSUME NEW i \in Ids PROVE SessionsAgree(i)'
  BY <1>1, <1>2, NothingIsZero DEF BookInv, BookTypeOK, SessionsAgree
<1> QED BY <1>3, <1>4 DEF BookInv

\* The rollback of the cycle's session.
LEMMA RollbackKeepsBook == ASSUME BookInv, CycleRollsBack PROVE BookInv'
<1>1. pending' = Nothing /\ UNCHANGED <<rows, asked, raced>>
  BY DEF CycleRollsBack
<1>2. BookTypeOK' /\ ShuttleIgnored'
  BY <1>1, NothingIsZero, ShuttleIsNoMovement DEF BookInv, BookTypeOK, ShuttleIgnored
<1>3. ASSUME NEW i \in Ids PROVE SessionsAgree(i)'
  BY <1>1, NothingIsZero DEF BookInv, BookTypeOK, SessionsAgree
<1> QED BY <1>2, <1>3 DEF BookInv

\* The request of the button reads.
LEMMA ReadingKeepsBook == ASSUME BookInv, ButtonReads PROVE BookInv'
<1>1. PICK answering \in SUBSET Endpoints : asked' = NewRows(Records(answering))
  BY DEF ButtonReads
<1>2. raced' = raced \cup Both(pending, asked') /\ UNCHANGED <<rows, pending>>
  BY DEF ButtonReads
<1>3. /\ asked' \in [Ids -> Nat] /\ asked'[Shuttle] = 0
      /\ \A i \in Ids : asked'[i] <= 1 /\ (asked'[i] > 0 => rows[i] = 0)
  BY <1>1, NewRowsAreNew
<1>4. /\ Both(pending, asked') \subseteq Movements
      /\ \A i \in Ids : pending[i] > 0 /\ asked'[i] > 0 => i \in Both(pending, asked')
  BY <1>3, RacesAreMovements
<1>5. BookTypeOK' /\ ShuttleIgnored'
  BY <1>2, <1>3, <1>4 DEF BookInv, BookTypeOK, ShuttleIgnored
<1>6. ASSUME NEW i \in Ids PROVE SessionsAgree(i)'
  BY <1>2, <1>3, <1>4 DEF BookInv, BookTypeOK, SessionsAgree
<1> QED BY <1>5, <1>6 DEF BookInv

\* The request of the button stores.
LEMMA StoringKeepsBook == ASSUME BookInv, ButtonStores PROVE BookInv'
<1>1. /\ rows' = Together(rows, asked) /\ asked' = Nothing /\ pending = Nothing
      /\ UNCHANGED <<pending, raced>>
  BY DEF ButtonStores
<1>2. rows' \in [Ids -> Nat] /\ \A i \in Ids : rows'[i] = rows[i] + asked[i]
  BY <1>1, TogetherAdds DEF BookInv, BookTypeOK
<1>3. BookTypeOK' /\ ShuttleIgnored'
  BY <1>1, <1>2, NothingIsZero, ShuttleIsNoMovement DEF BookInv, BookTypeOK, ShuttleIgnored
<1>4. ASSUME NEW i \in Ids PROVE SessionsAgree(i)'
  BY <1>1, <1>2, NothingIsZero DEF BookInv, BookTypeOK, SessionsAgree
<1> QED BY <1>3, <1>4 DEF BookInv

\* The book counts what the property counts.
LEMMA BookCounts == BookInv => InjectionsOnce
<1> SUFFICES ASSUME BookInv, NEW i \in Ids
             PROVE  rows[i] + pending[i]
                      <= (IF i = Shuttle THEN 0 ELSE IF i \in raced THEN 2 ELSE 1)
  BY DEF InjectionsOnce
<1>1. rows[i] \in Nat /\ pending[i] \in Nat
  BY DEF BookInv, BookTypeOK
<1>2. SessionsAgree(i)
  BY DEF BookInv
<1> QED BY <1>1, <1>2 DEF SessionsAgree, BookInv, ShuttleIgnored

\* InjectionsOnce: a movement counts once and the bot's own transfers never, through
\* failing endpoints, histories that repeat each other and lost sessions, and twice at
\* most when the two ingests overlap.
THEOREM Injections == Spec => []InjectionsOnce
<1>1. Init => BookInv
  BY InitBook
<1>2. BookInv /\ [Next]_vars => BookInv'
  BY WaysToTheBook, BookKept, IngestKeepsBook, CommitKeepsBook, RollbackKeepsBook,
     ReadingKeepsBook, StoringKeepsBook
<1> QED BY <1>1, <1>2, BookCounts, PTL DEF Spec

-----------------------------------------------------------------------------
(* The invariant behind the funding of an order. *)

Wallet == [main : Nat, trade : Nat, contract : Nat]
Balance(S) == [spot : S, free : S, total : Nat, coins : Nat]
Before == {"exits", "consolidate", "refresh", "read"}
Trading == {"rebalance", "candidates", "swapped", "order"}

\* What is believed to be free is there.
Covers(w, b) == b.spot <= w.main + w.trade /\ b.free <= w.contract

\* The types.
AccountTypeOK ==
    /\ venue \in Venues /\ moved \subseteq Movements /\ shuttled \in BOOLEAN
    /\ pc \in Passes /\ todo \subseteq Quotes /\ want \subseteq Pairs
    /\ wallet \in [Quotes -> Wallet]
    /\ position \in [Pairs -> Nat] /\ listed \in [Pairs -> Nat]
    /\ cache \in [Quotes -> Balance(Nat)] /\ local \in [Quotes -> Balance(Int)]
    /\ order \in [pair : Pairs \cup {<<>>}, n : Nat]
    /\ surprised \subseteq Quotes /\ faults \in 0 .. MaxFaults

\* In a currency that nothing has surprised, the reading made before the trade covers
\* what comes, main is empty once it is swept, and what sizing believes is there.
Backed(q) ==
    /\ pc \in Before => Covers(wallet[q], cache[q])
    /\ pc \in {"refresh", "read"} \cup Trading => wallet[q].main = 0
    /\ pc \in Trading => Covers(wallet[q], local[q])

\* An order is no larger than what sizing believes.
OrderSized ==
    /\ pc \in {"swapped", "order"} => order.pair \in Pairs
    /\ pc = "order" => /\ order.n <= local[order.pair[1]].spot
                       /\ order.n <= local[order.pair[2]].free

FundsInv == AccountTypeOK /\ (\A q \in Quotes \ surprised : Backed(q)) /\ OrderSized

-----------------------------------------------------------------------------
(* Currencies, sums and readings. *)

\* There are two currencies.
LEMMA TwoQuotes ==
    /\ IsFiniteSet(Quotes) /\ IsFiniteSet(Pairs)
    /\ \A q \in Quotes : Other(q) \in Quotes /\ Other(q) # q
                         /\ \A s \in Quotes : s # q => s = Other(q)
<1>1. IsFiniteSet(Quotes) /\ Cardinality(Quotes) = 2 /\ Pairs \subseteq Quotes \X Quotes
  BY FundsAssumption
<1>2. IsFiniteSet(Pairs)
  <2>1. IsFiniteSet(Quotes \X Quotes)
    BY <1>1, FS_Product
  <2> QED BY <1>1, <2>1, FS_Subset
<1>3. ASSUME NEW q \in Quotes
      PROVE  Other(q) \in Quotes /\ Other(q) # q /\ \A s \in Quotes : s # q => s = Other(q)
  <2>1. IsFiniteSet(Quotes \ {q}) /\ Cardinality(Quotes \ {q}) = Cardinality(Quotes) - 1
    BY <1>1, FS_RemoveElement
  <2>2. Cardinality(Quotes \ {q}) = 1
    BY <1>1, <2>1
  <2>3. \E x : Quotes \ {q} = {x}
    BY <2>1, <2>2, FS_Singleton
  <2>4. PICK x : Quotes \ {q} = {x}
    BY <2>3
  <2>5. x \in Quotes /\ x # q /\ \A s \in Quotes : s # q => s = x
    BY <2>4
  <2>6. Other(q) \in Quotes /\ Other(q) # q
    BY <2>5 DEF Other
  <2> QED BY <2>5, <2>6
<1> QED BY <1>1, <1>2, <1>3

\* The legs of a pair are in currencies of the account.
LEMMA PairQuotes == \A p \in Pairs : p[1] \in Quotes /\ p[2] \in Quotes
BY FundsAssumption

\* The notional of some pairs is a natural number.
LEMMA NotionalNat ==
    ASSUME NEW amounts \in [Pairs -> Nat], NEW S \in SUBSET Pairs
    PROVE  Notional(amounts, S) \in Nat
<1>1. IsFiniteSet(S)
  BY TwoQuotes, FS_Subset
<1>2. \A p \in S : amounts[p] \in Nat
  OBVIOUS
<1> QED BY <1>1, <1>2, SumNat DEF Notional

\* A reading has the types of a balance, and is covered by what it reads.
LEMMA ReadingIs ==
    ASSUME NEW ws \in [Quotes -> Wallet], NEW amounts \in [Pairs -> Nat]
    PROVE  /\ Reading(ws, amounts) \in [Quotes -> Balance(Nat)]
           /\ \A q \in Quotes : /\ Covers(ws[q], Reading(ws, amounts)[q])
                                /\ Reading(ws, amounts)[q].spot = ws[q].main + ws[q].trade
                                /\ Reading(ws, amounts)[q].free = ws[q].contract
<1>1. ASSUME NEW q \in Quotes
      PROVE  Notional(amounts, PerpIn(q)) \in Nat /\ Notional(amounts, SpotIn(q)) \in Nat
  <2>1. PerpIn(q) \in SUBSET Pairs /\ SpotIn(q) \in SUBSET Pairs
    BY DEF PerpIn, SpotIn
  <2> QED BY <2>1, NotionalNat
<1>2. ASSUME NEW q \in Quotes
      PROVE  ws[q].main \in Nat /\ ws[q].trade \in Nat /\ ws[q].contract \in Nat
  <2>1. ws[q] \in Wallet
    OBVIOUS
  <2> QED BY <2>1 DEF Wallet
<1>3. \A q \in Quotes : Reading(ws, amounts)[q] =
        [spot |-> ws[q].main + ws[q].trade, free |-> ws[q].contract,
         total |-> ws[q].contract + Notional(amounts, PerpIn(q)),
         coins |-> Notional(amounts, SpotIn(q))]
  BY DEF Reading
<1>4. ASSUME NEW q \in Quotes PROVE Reading(ws, amounts)[q] \in Balance(Nat)
  <2> DEFINE c == Notional(amounts, PerpIn(q))
             d == Notional(amounts, SpotIn(q))
             x == ws[q].main + ws[q].trade
             y == ws[q].contract
  <2>1. x \in Nat /\ y \in Nat /\ y + c \in Nat /\ d \in Nat
    BY <1>1, <1>2
  <2>2. Reading(ws, amounts)[q] = [spot |-> x, free |-> y, total |-> y + c, coins |-> d]
    BY <1>3
  <2> HIDE DEF c, d, x, y
  <2> QED BY <2>1, <2>2 DEF Balance
<1>5. Reading(ws, amounts) \in [Quotes -> Balance(Nat)]
  <2>1. Reading(ws, amounts) = [q \in Quotes |-> Reading(ws, amounts)[q]]
    BY DEF Reading
  <2> QED BY <1>4, <2>1
<1> QED BY <1>2, <1>3, <1>5 DEF Covers

\* A balance that has been read is one that sizing may believe.
LEMMA BalanceInt == \A b \in [Quotes -> Balance(Nat)] : b \in [Quotes -> Balance(Int)]
BY DEF Balance

\* Nothing is read.
LEMMA UnreadIs == Unread \in [Quotes -> Balance(Nat)] /\ Unread \in [Quotes -> Balance(Int)]
BY DEF Unread, Balance

-----------------------------------------------------------------------------
(* Transfers. *)

\* The wallets of a currency, by name and as fields.
Names == {"main", "trade", "contract"}

\* The fields of a wallet.
LEMMA WalletIs ==
    \A w \in Wallet : /\ w.main \in Nat /\ w.trade \in Nat /\ w.contract \in Nat
                      /\ w.main = w["main"] /\ w.trade = w["trade"] /\ w.contract = w["contract"]
BY DEF Wallet

\* A movement of n between two wallets of one currency.
LEMMA HopIs ==
    ASSUME NEW ws \in [Quotes -> Wallet], NEW q \in Quotes, NEW n \in Nat,
           NEW from \in Names, NEW to \in Names, from # to, n <= ws[q][from]
    PROVE  /\ Hop(ws, q, from, to, n) \in [Quotes -> Wallet]
           /\ \A s \in Quotes : s # q => Hop(ws, q, from, to, n)[s] = ws[s]
           /\ \A w \in Names : Hop(ws, q, from, to, n)[q][w] =
                                 IF w = from THEN ws[q][w] - n ELSE IF w = to THEN ws[q][w] + n ELSE ws[q][w]
<1> DEFINE v == ws[q]
           u == [v EXCEPT ![from] = @ - n, ![to] = @ + n]
<1>1. v \in Wallet
  OBVIOUS
<1>2. u \in Wallet /\ \A w \in Names : u[w] = IF w = from THEN v[w] - n ELSE IF w = to THEN v[w] + n ELSE v[w]
  BY <1>1 DEF Wallet, Names
<1>3. Hop(ws, q, from, to, n) = [s \in Quotes |-> IF s = q THEN u ELSE ws[s]]
  BY DEF Hop
<1> HIDE DEF u
<1> QED BY <1>2, <1>3

\* The ones the transfers are made of.
LEMMA HopsAre ==
    ASSUME NEW ws \in [Quotes -> Wallet], NEW q \in Quotes, NEW n \in Nat
    PROVE  /\ n <= ws[q].main =>
                LET h == Hop(ws, q, "main", "trade", n)
                IN /\ h \in [Quotes -> Wallet] /\ \A s \in Quotes : s # q => h[s] = ws[s]
                   /\ h[q].main = ws[q].main - n /\ h[q].trade = ws[q].trade + n
                   /\ h[q].contract = ws[q].contract
           /\ n <= ws[q].trade =>
                LET h == Hop(ws, q, "trade", "contract", n)
                IN /\ h \in [Quotes -> Wallet] /\ \A s \in Quotes : s # q => h[s] = ws[s]
                   /\ h[q].trade = ws[q].trade - n /\ h[q].contract = ws[q].contract + n
                   /\ h[q].main = ws[q].main
           /\ n <= ws[q].contract =>
                LET h == Hop(ws, q, "contract", "trade", n)
                IN /\ h \in [Quotes -> Wallet] /\ \A s \in Quotes : s # q => h[s] = ws[s]
                   /\ h[q].contract = ws[q].contract - n /\ h[q].trade = ws[q].trade + n
                   /\ h[q].main = ws[q].main
           /\ n <= ws[q].contract =>
                LET h == Hop(ws, q, "contract", "main", n)
                IN h \in [Quotes -> Wallet] /\ \A s \in Quotes : s # q => h[s] = ws[s]
<1>1. /\ "main" \in Names /\ "trade" \in Names /\ "contract" \in Names
      /\ "main" # "trade" /\ "trade" # "contract" /\ "contract" # "main"
  BY DEF Names
<1>2. ws[q] \in Wallet
  OBVIOUS
<1>3. ASSUME n <= ws[q].main PROVE
                LET h == Hop(ws, q, "main", "trade", n)
                IN /\ h \in [Quotes -> Wallet] /\ \A s \in Quotes : s # q => h[s] = ws[s]
                   /\ h[q].main = ws[q].main - n /\ h[q].trade = ws[q].trade + n
                   /\ h[q].contract = ws[q].contract
  <2> DEFINE h == Hop(ws, q, "main", "trade", n)
  <2>1. /\ h \in [Quotes -> Wallet] /\ \A s \in Quotes : s # q => h[s] = ws[s]
        /\ h[q]["main"] = ws[q]["main"] - n /\ h[q]["trade"] = ws[q]["trade"] + n
        /\ h[q]["contract"] = ws[q]["contract"]
    BY <1>1, <1>2, <1>3, WalletIs, HopIs
  <2> HIDE DEF h
  <2> QED BY <1>2, <2>1, WalletIs DEF h
<1>4. ASSUME n <= ws[q].trade PROVE
                LET h == Hop(ws, q, "trade", "contract", n)
                IN /\ h \in [Quotes -> Wallet] /\ \A s \in Quotes : s # q => h[s] = ws[s]
                   /\ h[q].trade = ws[q].trade - n /\ h[q].contract = ws[q].contract + n
                   /\ h[q].main = ws[q].main
  <2> DEFINE h == Hop(ws, q, "trade", "contract", n)
  <2>1. /\ h \in [Quotes -> Wallet] /\ \A s \in Quotes : s # q => h[s] = ws[s]
        /\ h[q]["trade"] = ws[q]["trade"] - n /\ h[q]["contract"] = ws[q]["contract"] + n
        /\ h[q]["main"] = ws[q]["main"]
    BY <1>1, <1>2, <1>4, WalletIs, HopIs
  <2> HIDE DEF h
  <2> QED BY <1>2, <2>1, WalletIs DEF h
<1>5. ASSUME n <= ws[q].contract PROVE
                LET h == Hop(ws, q, "contract", "trade", n)
                IN /\ h \in [Quotes -> Wallet] /\ \A s \in Quotes : s # q => h[s] = ws[s]
                   /\ h[q].contract = ws[q].contract - n /\ h[q].trade = ws[q].trade + n
                   /\ h[q].main = ws[q].main
  <2> DEFINE h == Hop(ws, q, "contract", "trade", n)
  <2>1. /\ h \in [Quotes -> Wallet] /\ \A s \in Quotes : s # q => h[s] = ws[s]
        /\ h[q]["contract"] = ws[q]["contract"] - n /\ h[q]["trade"] = ws[q]["trade"] + n
        /\ h[q]["main"] = ws[q]["main"]
    BY <1>1, <1>2, <1>5, WalletIs, HopIs
  <2> HIDE DEF h
  <2> QED BY <1>2, <2>1, WalletIs DEF h
<1>6. n <= ws[q].contract =>
                LET h == Hop(ws, q, "contract", "main", n)
                IN h \in [Quotes -> Wallet] /\ \A s \in Quotes : s # q => h[s] = ws[s]
  BY <1>1, <1>2, WalletIs, HopIs
<1> QED BY <1>3, <1>4, <1>5, <1>6

\* What a transfer of n to the contract wallet makes of a currency, and one of n from it.
MovedToFutures(v, w, n) ==
    w.main <= v.main /\ w.main + w.trade = v.main + v.trade - n /\ w.contract = v.contract + n
MovedToSpot(v, w, n) ==
    w.main = v.main /\ w.trade = v.trade + n /\ w.contract = v.contract - n

\* Transfers to the contract wallet.
LEMMA ToFuturesIs ==
    ASSUME NEW ws \in [Quotes -> Wallet], NEW q \in Quotes, NEW n \in Nat,
           NEW outcome \in ToFutures(ws, q, n)
    PROVE  /\ outcome.ws \in [Quotes -> Wallet] /\ outcome.failed \in BOOLEAN
           /\ \A s \in Quotes : s # q => outcome.ws[s] = ws[s]
           /\ ~outcome.failed =>
                IF outcome.ok THEN MovedToFutures(ws[q], outcome.ws[q], n) ELSE outcome.ws = ws
<1> DEFINE v == ws[q]
           lacking == Most(0, n - v.trade)
           topped == Hop(ws, q, "main", "trade", lacking)
           done == Hop(topped, q, "trade", "contract", n)
<1>1. v.main \in Nat /\ v.trade \in Nat /\ v.contract \in Nat
  BY WalletIs
<1>2. lacking \in Nat /\ v.trade + lacking >= n
  BY <1>1 DEF Most
<1>3. CASE v.main < lacking
  <2>1. outcome = Refused(ws)
    BY <1>3 DEF ToFutures
  <2> QED BY <2>1 DEF Refused
<1>4. CASE lacking <= v.main
  <2>1. outcome \in {Done(done), Failed(topped), Failed(ws)}
    BY <1>1, <1>2, <1>4 DEF ToFutures
  <2>2. /\ topped \in [Quotes -> Wallet] /\ \A s \in Quotes : s # q => topped[s] = ws[s]
        /\ topped[q].main = v.main - lacking /\ topped[q].trade = v.trade + lacking
        /\ topped[q].contract = v.contract
    <3> HIDE DEF lacking
    <3> QED BY <1>2, <1>4, HopsAre
  <2> HIDE DEF lacking
  <2>3. n <= topped[q].trade
    BY <1>2, <2>2
  <2> HIDE DEF topped
  <2>4. /\ done \in [Quotes -> Wallet] /\ \A s \in Quotes : s # q => done[s] = topped[s]
        /\ done[q].trade = topped[q].trade - n /\ done[q].contract = topped[q].contract + n
        /\ done[q].main = topped[q].main
    BY <2>2, <2>3, HopsAre
  <2> HIDE DEF done, v
  <2>7. MovedToFutures(v, done[q], n)
    BY <1>1, <1>2, <2>2, <2>4 DEF MovedToFutures
  <2>8. CASE outcome = Done(done)
    BY <2>2, <2>4, <2>7, <2>8 DEF Done, v
  <2>9. CASE outcome \in {Failed(topped), Failed(ws)}
    <3>1. outcome.ws \in {topped, ws} /\ outcome.failed = TRUE
      BY <2>9 DEF Failed
    <3> QED BY <2>2, <3>1
  <2> QED BY <2>1, <2>8, <2>9
<1> QED BY <1>1, <1>2, <1>3, <1>4

\* Transfers back.
LEMMA ToSpotIs ==
    ASSUME NEW ws \in [Quotes -> Wallet], NEW q \in Quotes, NEW n \in Nat,
           NEW outcome \in ToSpot(ws, q, n)
    PROVE  /\ outcome.ws \in [Quotes -> Wallet] /\ outcome.failed \in BOOLEAN
           /\ \A s \in Quotes : s # q => outcome.ws[s] = ws[s]
           /\ ~outcome.failed =>
                IF outcome.ok THEN MovedToSpot(ws[q], outcome.ws[q], n) ELSE outcome.ws = ws
<1> DEFINE v == ws[q]
           back == Hop(ws, q, "contract", "trade", n)
           half == Hop(ws, q, "contract", "main", n)
<1>1. v.main \in Nat /\ v.trade \in Nat /\ v.contract \in Nat
  BY WalletIs
<1>2. CASE v.contract < n
  <2>1. outcome = Refused(ws)
    BY <1>2 DEF ToSpot, ToSpotThroughMain, ToSpotAtOnce
  <2> QED BY <2>1 DEF Refused
<1>3. CASE n <= v.contract
  <2>1. outcome \in {Done(back), SoftlyDone(half), Failed(ws)}
    BY <1>1, <1>3 DEF ToSpot, ToSpotThroughMain, ToSpotAtOnce
  <2>4. /\ back \in [Quotes -> Wallet] /\ \A s \in Quotes : s # q => back[s] = ws[s]
        /\ back[q].contract = v.contract - n /\ back[q].trade = v.trade + n /\ back[q].main = v.main
    BY <1>3, HopsAre
  <2>7. half \in [Quotes -> Wallet] /\ \A s \in Quotes : s # q => half[s] = ws[s]
    BY <1>3, HopsAre
  <2>8. MovedToSpot(v, back[q], n)
    BY <2>4 DEF MovedToSpot
  <2> HIDE DEF v, back, half
  <2>5. CASE outcome = Done(back)
    BY <2>4, <2>5, <2>8 DEF Done, v
  <2>6. CASE outcome \in {SoftlyDone(half), Failed(ws)}
    <3>1. outcome.ws \in {half, ws} /\ outcome.failed = TRUE
      BY <2>6 DEF SoftlyDone, Failed
    <3> QED BY <2>7, <3>1
  <2> QED BY <2>1, <2>5, <2>6
<1> QED BY <1>1, <1>2, <1>3

-----------------------------------------------------------------------------
(* What the steps of the cycle share. *)

\* What sizing believes after a movement.
LEMMA ShiftedIs ==
    ASSUME NEW bs \in [Quotes -> Balance(Int)], NEW q \in Quotes, NEW n \in Int
    PROVE  /\ Shifted(bs, q, n) \in [Quotes -> Balance(Int)]
           /\ \A s \in Quotes : s # q => Shifted(bs, q, n)[s] = bs[s]
           /\ Shifted(bs, q, n)[q].spot = bs[q].spot - n
           /\ Shifted(bs, q, n)[q].free = bs[q].free + n
<1>1. ASSUME NEW b \in Balance(Int)
      PROVE  LET u == [b EXCEPT !.spot = @ - n, !.free = @ + n]
             IN  u \in Balance(Int) /\ u.spot = b.spot - n /\ u.free = b.free + n
  <2> DEFINE u == [b EXCEPT !.spot = @ - n, !.free = @ + n]
  <2>1. b.spot - n \in Int /\ b.free + n \in Int
    BY DEF Balance
  <2>2. ASSUME NEW x \in Int, NEW y \in Int PROVE [b EXCEPT !.spot = x, !.free = y] \in Balance(Int)
    BY DEF Balance
  <2>3. u \in Balance(Int)
    BY <2>1, <2>2
  <2>4. u.spot = b.spot - n /\ u.free = b.free + n
    BY DEF Balance
  <2> QED BY <2>3, <2>4
<1> DEFINE u == [bs[q] EXCEPT !.spot = @ - n, !.free = @ + n]
<1>2. u \in Balance(Int) /\ u.spot = bs[q].spot - n /\ u.free = bs[q].free + n
  <2>1. bs[q] \in Balance(Int)
    OBVIOUS
  <2> QED BY <1>1, <2>1
<1>3. Shifted(bs, q, n) = [s \in Quotes |-> IF s = q THEN u ELSE bs[s]]
  BY DEF Shifted
<1> HIDE DEF u
<1> QED BY <1>2, <1>3

\* The fields of a balance.
LEMMA BalanceIs ==
    /\ \A b \in Balance(Nat) : b.spot \in Nat /\ b.free \in Nat /\ b.total \in Nat /\ b.coins \in Nat
    /\ \A b \in Balance(Int) : b.spot \in Int /\ b.free \in Int
BY DEF Balance

\* A step that moves money in one currency.
LEMMA MovesIs ==
    ASSUME AccountTypeOK, NEW q \in Quotes, NEW outcome, outcome.failed \in BOOLEAN,
           Moves(q, outcome)
    PROVE  /\ wallet' = outcome.ws
           /\ surprised' = surprised \cup (IF outcome.failed THEN {q} ELSE {})
           /\ surprised' \subseteq Quotes /\ faults' \in 0 .. MaxFaults
           /\ venue' \in Venues /\ moved' \subseteq Movements /\ shuttled' \in BOOLEAN
<1>1. /\ wallet' = outcome.ws
      /\ surprised' = surprised \cup (IF outcome.failed THEN {q} ELSE {})
      /\ surprised' \subseteq Quotes
      /\ venue' \in Venues /\ moved' \subseteq Movements
  BY DEF Moves, Touched, AccountTypeOK
<1>2. faults' \in 0 .. MaxFaults
  BY FundsAssumption DEF Moves, Fault, AccountTypeOK
<1>3. shuttled' \in BOOLEAN
  BY DEF Moves
<1> QED BY <1>1, <1>2, <1>3

\* A step that touches nothing of the account.
LEMMA StillIs ==
    Still => UNCHANGED <<wallet, faults, surprised, venue, moved, shuttled>>
BY DEF Still, capital

\* A sweep empties main into the trading wallet.
LEMMA SweptIs ==
    ASSUME NEW ws \in [Quotes -> Wallet], NEW S \in SUBSET Quotes
    PROVE  /\ Swept(ws, S) \in [Quotes -> Wallet]
           /\ \A q \in Quotes :
                IF q \in S
                THEN /\ Swept(ws, S)[q].main = 0 /\ Swept(ws, S)[q].contract = ws[q].contract
                     /\ Swept(ws, S)[q].trade = ws[q].trade + ws[q].main
                ELSE Swept(ws, S)[q] = ws[q]
<1>1. ASSUME NEW w \in Wallet
      PROVE  LET u == [w EXCEPT !.trade = @ + w.main, !.main = 0]
             IN  /\ u \in Wallet /\ u.main = 0
                 /\ u.contract = w.contract /\ u.trade = w.trade + w.main
  <2> DEFINE u == [w EXCEPT !.trade = @ + w.main, !.main = 0]
  <2>1. w.trade + w.main \in Nat /\ 0 \in Nat
    BY DEF Wallet
  <2>2. u \in Wallet
    BY <2>1 DEF Wallet
  <2>3. u.main = 0 /\ u.contract = w.contract /\ u.trade = w.trade + w.main
    BY DEF Wallet
  <2> QED BY <2>2, <2>3
<1>2. \A q \in Quotes : Swept(ws, S)[q] =
        IF q \in S THEN [ws[q] EXCEPT !.trade = @ + ws[q].main, !.main = 0] ELSE ws[q]
  BY DEF Swept
<1>3. ASSUME NEW q \in Quotes
      PROVE  /\ Swept(ws, S)[q] \in Wallet
             /\ IF q \in S
                THEN /\ Swept(ws, S)[q].main = 0 /\ Swept(ws, S)[q].contract = ws[q].contract
                     /\ Swept(ws, S)[q].trade = ws[q].trade + ws[q].main
                ELSE Swept(ws, S)[q] = ws[q]
  <2> DEFINE w == ws[q]
             u == [w EXCEPT !.trade = @ + w.main, !.main = 0]
  <2>1. w \in Wallet
    OBVIOUS
  <2>2. u \in Wallet /\ u.main = 0 /\ u.contract = w.contract /\ u.trade = w.trade + w.main
    BY <1>1, <2>1
  <2>3. Swept(ws, S)[q] = IF q \in S THEN u ELSE w
    BY <1>2
  <2> HIDE DEF u
  <2> QED BY <2>1, <2>2, <2>3
<1>4. Swept(ws, S) = [q \in Quotes |-> Swept(ws, S)[q]]
  BY DEF Swept
<1> QED BY <1>3, <1>4

\* The swap moves n from one trading wallet to the other.
LEMMA ExchangedIs ==
    ASSUME NEW ws \in [Quotes -> Wallet], NEW q \in Quotes, NEW n \in Nat,
           ws[Other(q)].trade >= n
    PROVE  Exchanged(ws, q, n) \in [Quotes -> Wallet]
<1>1. ASSUME NEW w \in Wallet, NEW k \in Nat PROVE [w EXCEPT !.trade = k] \in Wallet
  BY <1>1 DEF Wallet
<1>2. \A s \in Quotes : Exchanged(ws, q, n)[s] =
        [ws[s] EXCEPT !.trade = IF s = q THEN ws[s].trade + n ELSE ws[s].trade - n]
  BY DEF Exchanged
<1>3. ASSUME NEW s \in Quotes PROVE Exchanged(ws, q, n)[s] \in Wallet
  <2> DEFINE k == IF s = q THEN ws[s].trade + n ELSE ws[s].trade - n
  <2>1. ws[s] \in Wallet
    OBVIOUS
  <2>2. s # q => s = Other(q)
    BY TwoQuotes
  <2>3. k \in Nat
    BY <2>1, <2>2, WalletIs
  <2>4. Exchanged(ws, q, n)[s] = [ws[s] EXCEPT !.trade = k]
    BY <1>2
  <2> HIDE DEF k
  <2> QED BY <1>1, <2>1, <2>3, <2>4
<1>4. Exchanged(ws, q, n) = [s \in Quotes |-> Exchanged(ws, q, n)[s]]
  BY DEF Exchanged
<1> QED BY <1>3, <1>4

\* A wallet with other amounts to trade and on contracts.
LEMMA WalletWith ==
    ASSUME NEW w \in Wallet, NEW a \in Nat, NEW b \in Nat
    PROVE  [w EXCEPT !.trade = a, !.contract = b] \in Wallet
BY DEF Wallet

\* What is added to the wallets.
LEMMA AddedIs ==
    ASSUME NEW w \in Wallet, NEW m \in Nat, NEW n \in Nat
    PROVE  LET u == [w EXCEPT !.trade = @ + m, !.contract = @ + n]
           IN  /\ u \in Wallet /\ u.main = w.main
               /\ u.trade = w.trade + m /\ u.contract = w.contract + n
<1> DEFINE u == [w EXCEPT !.trade = @ + m, !.contract = @ + n]
<1>1. w.trade + m \in Nat /\ w.contract + n \in Nat
  BY DEF Wallet
<1>2. u \in Wallet
  BY <1>1, WalletWith
<1>3. u.main = w.main /\ u.trade = w.trade + m /\ u.contract = w.contract + n
  BY DEF Wallet
<1> QED BY <1>2, <1>3

\* What is taken from them.
LEMMA TakenIs ==
    ASSUME NEW w \in Wallet, NEW m \in Nat, NEW n \in Nat, m <= w.trade, n <= w.contract
    PROVE  [w EXCEPT !.trade = @ - m, !.contract = @ - n] \in Wallet
<1>1. w.trade - m \in Nat /\ w.contract - n \in Nat
  BY DEF Wallet
<1> QED BY <1>1, WalletWith

-----------------------------------------------------------------------------
(* The invariant through the cycle. *)

\* At first.
LEMMA InitFunds == Init => FundsInv
<1> SUFFICES ASSUME Init PROVE FundsInv
  OBVIOUS
<1>1. wallet \in [Quotes -> Wallet]
  <2>1. ASSUME NEW n \in Nat PROVE [main |-> 0, trade |-> n, contract |-> 0] \in Wallet
    BY DEF Wallet
  <2> QED BY <2>1, FundsAssumption DEF Init
<1>2. order \in [pair : Pairs \cup {<<>>}, n : Nat]
  BY DEF Init, NoOrder
<1>3. position \in [Pairs -> Nat] /\ listed \in [Pairs -> Nat]
  BY DEF Init
<1>4. faults \in 0 .. MaxFaults /\ shuttled \in BOOLEAN /\ venue \in Venues
  <2>1. MaxFaults \in Nat
    BY FundsAssumption
  <2>2. faults = 0 /\ shuttled = FALSE /\ venue \in Venues
    BY DEF Init, CapitalInit
  <2>3. 0 \in 0 .. MaxFaults
    BY <2>1
  <2>4. FALSE \in BOOLEAN
    OBVIOUS
  <2> QED BY <2>2, <2>3, <2>4
<1>5. /\ moved = {} /\ pc = "idle" /\ todo = {} /\ want = {} /\ surprised = {}
      /\ cache = Unread /\ local = Unread
  BY DEF Init, CapitalInit
<1>6. AccountTypeOK
  BY <1>1, <1>2, <1>3, <1>4, <1>5, UnreadIs DEF AccountTypeOK, Passes
<1> QED BY <1>5, <1>6 DEF FundsInv, Backed, OrderSized, Before, Trading

\* A step that changes nothing here.
LEMMA StutterKeepsFunds == ASSUME FundsInv, UNCHANGED vars PROVE FundsInv'
BY DEF FundsInv, AccountTypeOK, Backed, OrderSized, vars, capital, cycle, venueState, beliefs

\* What has been read and what would be.
LEMMA ReadingTyped ==
    ASSUME FundsInv
    PROVE  cache \in [Quotes -> Balance(Nat)] /\ Reading(wallet, position) \in [Quotes -> Balance(Nat)]
BY ReadingIs DEF FundsInv, AccountTypeOK

\* The balances are read.
LEMMA StartKeepsFunds == ASSUME FundsInv, StartCycle PROVE FundsInv'
<1>1. AccountTypeOK'
  BY ReadingIs DEF FundsInv, AccountTypeOK, StartCycle, capital, venueState, Passes
<1>2. \A q \in Quotes : Covers(wallet[q], cache'[q])
  BY ReadingIs DEF FundsInv, AccountTypeOK, StartCycle
<1>3. \A q \in Quotes : Backed(q)'
  BY <1>2 DEF StartCycle, Backed, venueState, Trading
<1> QED BY <1>1, <1>3 DEF FundsInv, OrderSized, StartCycle

\* An exit only adds to the wallets.
LEMMA ExitKeepsFunds == ASSUME FundsInv, NEW p \in Pairs, Exit(p) PROVE FundsInv'
<1> DEFINE m(q) == IF q = p[1] THEN position[p] ELSE 0
           n(q) == IF q = p[2] THEN position[p] ELSE 0
<1>1. wallet \in [Quotes -> Wallet] /\ position[p] \in Nat /\ pc = "exits" /\ pc' = "exits"
  BY DEF FundsInv, AccountTypeOK, Exit, cycle
<1>2. \A q \in Quotes : m(q) \in Nat /\ n(q) \in Nat
  BY <1>1
<1>3. wallet' = [q \in Quotes |-> [wallet[q] EXCEPT !.trade = @ + m(q), !.contract = @ + n(q)]]
  BY DEF Exit
<1> HIDE DEF m, n
<1>4. ASSUME NEW q \in Quotes
      PROVE  /\ wallet'[q] \in Wallet /\ wallet'[q].main = wallet[q].main
             /\ wallet'[q].trade = wallet[q].trade + m(q)
             /\ wallet'[q].contract = wallet[q].contract + n(q)
  <2> DEFINE w == wallet[q]
             u == [w EXCEPT !.trade = @ + m(q), !.contract = @ + n(q)]
  <2>1. w \in Wallet
    BY <1>1
  <2>2. /\ u \in Wallet /\ u.main = w.main
        /\ u.trade = w.trade + m(q) /\ u.contract = w.contract + n(q)
    BY <1>2, <2>1, AddedIs
  <2>3. wallet'[q] = u
    BY <1>3
  <2> QED BY <2>2, <2>3
<1>5. wallet' \in [Quotes -> Wallet]
  BY <1>3, <1>4
<1>6. position' \in [Pairs -> Nat]
  BY DEF Exit, FundsInv, AccountTypeOK
<1>7. AccountTypeOK'
  BY <1>5, <1>6 DEF Exit, FundsInv, AccountTypeOK, capital, cycle, beliefs
<1>8. ASSUME NEW q \in Quotes \ surprised' PROVE Backed(q)'
  <2>1. Covers(wallet[q], cache[q])
    BY <1>1, <1>8 DEF FundsInv, Backed, Before, Exit
  <2>2. wallet[q] \in Wallet /\ cache[q] \in Balance(Nat)
    BY DEF FundsInv, AccountTypeOK
  <2>3. Covers(wallet'[q], cache[q])
    BY <1>2, <1>4, <2>1, <2>2, WalletIs, BalanceIs DEF Covers
  <2> QED BY <1>1, <2>3 DEF Backed, Trading, Exit, beliefs
<1>9. OrderSized'
  BY <1>1 DEF OrderSized
<1> QED BY <1>7, <1>8, <1>9 DEF FundsInv

\* Steps that leave the account alone and end before or after the trade.
LEMMA PassKeepsFunds ==
    ASSUME FundsInv, SkipEntries \/ Scan \/ Reread \/ Ingest
    PROVE  FundsInv'
<1>1. CASE SkipEntries
  BY <1>1 DEF FundsInv, AccountTypeOK, Backed, OrderSized, SkipEntries, Before, Trading,
              Passes, capital, venueState, beliefs
<1>2. CASE Scan
  <2>1. AccountTypeOK'
    BY <1>2 DEF FundsInv, AccountTypeOK, Scan, Passes, capital, venueState, beliefs
  <2>2. ASSUME NEW q \in Quotes \ surprised' PROVE Backed(q)'
    BY <1>2 DEF FundsInv, Backed, Scan, Before, Trading, venueState, beliefs
  <2> QED BY <1>2, <2>1, <2>2 DEF FundsInv, OrderSized, Scan
<1>3. CASE Reread
  <2>1. cache' \in [Quotes -> Balance(Nat)]
    <3>1. cache' = cache \/ cache' = Reading(wallet, position)
      BY <1>3 DEF Reread
    <3> QED BY <3>1, ReadingTyped
  <2>2. AccountTypeOK'
    BY <1>3, <2>1, StillIs DEF FundsInv, AccountTypeOK, Reread, Passes
  <2> QED BY <1>3, <2>2 DEF FundsInv, Backed, OrderSized, Reread, Before, Trading
<1>4. CASE Ingest
  <2>1. UNCHANGED <<venue, moved, shuttled>>
    BY <1>4 DEF Ingest, CycleIngests, capital
  <2>2. AccountTypeOK'
    BY <1>4, <2>1 DEF FundsInv, AccountTypeOK, Ingest, Passes, venueState, beliefs
  <2> QED BY <1>4, <2>2 DEF FundsInv, Backed, OrderSized, Ingest, Before, Trading
<1> QED BY <1>1, <1>2, <1>3, <1>4

\* A set of at most one currency.
LEMMA AtMostOne ==
    ASSUME NEW S \in SUBSET Quotes, Cardinality(S) <= 1, S # {}
    PROVE  S = {CHOOSE q \in Quotes : S \subseteq {q}} /\ (CHOOSE q \in Quotes : S \subseteq {q}) \in Quotes
<1>1. IsFiniteSet(S)
  BY TwoQuotes, FS_Subset
<1>2. Cardinality(S) \in Nat /\ Cardinality(S) # 0
  BY <1>1, FS_CardinalityType, FS_EmptySet
<1>3. Cardinality(S) = 1
  BY <1>2
<1>4. \E x : S = {x}
  BY <1>1, <1>3, FS_Singleton
<1>5. PICK x : S = {x}
  BY <1>4
<1>6. x \in Quotes /\ S \subseteq {x}
  BY <1>5
<1> QED BY <1>5, <1>6

\* The sweep empties main wherever it does not fail.
LEMMA ConsolidateKeepsFunds == ASSUME FundsInv, Consolidate PROVE FundsInv'
<1> DEFINE parked == {q \in Quotes : wallet[q].main > 0}
           one(failing) == CHOOSE q \in Quotes : failing \subseteq {q}
           outcome(failing) == [ok |-> failing = {}, ws |-> Swept(wallet, parked \ failing),
                                failed |-> failing # {}]
<1>0. parked \in SUBSET Quotes
  OBVIOUS
<1>1. PICK failing \in SUBSET parked :
        /\ Cardinality(failing) <= 1
        /\ Moves(one(failing), outcome(failing))
        /\ pc' = IF parked \ failing = {} THEN "read" ELSE "refresh"
  BY DEF Consolidate
<1> HIDE DEF parked
<1>2. failing \in SUBSET Quotes /\ parked \ failing \in SUBSET Quotes
  BY <1>0
<1>3. one(failing) \in Quotes /\ (failing # {} => failing = {one(failing)})
  <2>1. CASE failing = {}
    <3>1. \E q \in Quotes : failing \subseteq {q}
      BY <2>1, FundsAssumption
    <3> QED BY <2>1, <3>1
  <2>2. CASE failing # {}
    BY <1>1, <1>2, <2>2, AtMostOne
  <2> QED BY <2>1, <2>2
<1> DEFINE swept == Swept(wallet, parked \ failing)
<1>4. wallet \in [Quotes -> Wallet] /\ AccountTypeOK
  BY DEF FundsInv, AccountTypeOK
<1>5. /\ swept \in [Quotes -> Wallet]
      /\ \A q \in Quotes :
           IF q \in parked \ failing
           THEN /\ swept[q].main = 0 /\ swept[q].contract = wallet[q].contract
                /\ swept[q].trade = wallet[q].trade + wallet[q].main
           ELSE swept[q] = wallet[q]
  BY <1>2, <1>4, SweptIs
<1> HIDE DEF swept
<1>6. outcome(failing).ws = swept /\ outcome(failing).failed = (failing # {})
  BY DEF swept
<1> HIDE DEF outcome, one
<1>7. outcome(failing).failed \in BOOLEAN
  BY <1>6
<1>8. /\ wallet' = outcome(failing).ws
      /\ surprised' = surprised \cup (IF outcome(failing).failed THEN {one(failing)} ELSE {})
      /\ surprised' \subseteq Quotes /\ faults' \in 0 .. MaxFaults
      /\ venue' \in Venues /\ moved' \subseteq Movements /\ shuttled' \in BOOLEAN
  BY <1>1, <1>3, <1>4, <1>7, MovesIs
<1>9. wallet' = swept /\ surprised' = surprised \cup failing
  BY <1>3, <1>6, <1>8
<1>10. UNCHANGED <<todo, want, order, position, listed, cache, local>> /\ pc = "consolidate"
  BY DEF Consolidate, beliefs
<1>11. pc' \in {"read", "refresh"}
  BY <1>1
<1>12. AccountTypeOK'
  BY <1>4, <1>5, <1>8, <1>9, <1>10, <1>11 DEF AccountTypeOK, Passes
<1>13. ASSUME NEW q \in Quotes \ surprised' PROVE Backed(q)'
  <2>1. Covers(wallet[q], cache[q]) /\ wallet[q] \in Wallet /\ cache[q] \in Balance(Nat)
    BY <1>4, <1>9, <1>10, <1>13 DEF FundsInv, Backed, Before, AccountTypeOK
  <2>2. q \notin failing
    BY <1>9, <1>13
  <2>3. q \in parked \/ wallet[q].main = 0
    BY <2>1, WalletIs DEF parked
  <2>4. swept[q].main = 0 /\ Covers(swept[q], cache[q])
    BY <1>5, <2>1, <2>2, <2>3, WalletIs, BalanceIs DEF Covers
  <2> QED BY <1>9, <1>10, <1>11, <2>4 DEF Backed, Trading
<1>14. OrderSized'
  BY <1>11 DEF OrderSized
<1> QED BY <1>12, <1>13, <1>14 DEF FundsInv

\* Sizing takes over what has been read.
LEMMA ReadKeepsFunds == ASSUME FundsInv, ReadWallets PROVE FundsInv'
<1>1. AccountTypeOK /\ wallet \in [Quotes -> Wallet] /\ position \in [Pairs -> Nat]
  BY DEF FundsInv, AccountTypeOK
<1>2. /\ UNCHANGED <<wallet, faults, surprised, venue, moved, shuttled>>
      /\ UNCHANGED <<want, order, position, listed>>
      /\ todo' = Quotes /\ pc' = "rebalance" /\ local' = cache'
      /\ pc \in {"refresh", "read"}
  BY StillIs DEF ReadWallets
<1>3. cache' = Reading(wallet, position) \/ (pc = "read" /\ cache' = cache)
  BY DEF ReadWallets
<1>4. cache' \in [Quotes -> Balance(Nat)]
  BY <1>3, ReadingTyped
<1>5. AccountTypeOK'
  BY <1>1, <1>2, <1>4, BalanceInt DEF AccountTypeOK, Passes
<1>6. ASSUME NEW q \in Quotes \ surprised' PROVE Backed(q)'
  <2>1. wallet[q].main = 0
    BY <1>2, <1>6 DEF FundsInv, Backed
  <2>2. Covers(wallet[q], cache'[q])
    <3>1. CASE cache' = Reading(wallet, position)
      BY <1>1, <3>1, ReadingIs
    <3>2. CASE pc = "read" /\ cache' = cache
      BY <1>2, <1>6, <3>2 DEF FundsInv, Backed, Before
    <3> QED BY <1>3, <3>1, <3>2
  <2> QED BY <1>2, <2>1, <2>2 DEF Backed, Before
<1> QED BY <1>2, <1>5, <1>6 DEF FundsInv, OrderSized

\* The rebalance moves what sizing knows of, and sizing follows unless it failed.
LEMMA RebalanceKeepsFunds == ASSUME FundsInv, NEW q \in Quotes, Rebalance(q) PROVE FundsInv'
<1>1. /\ AccountTypeOK /\ wallet \in [Quotes -> Wallet] /\ local \in [Quotes -> Balance(Int)]
      /\ local[q].spot \in Int /\ local[q].free \in Int /\ wallet[q] \in Wallet
  BY BalanceIs DEF FundsInv, AccountTypeOK
<1>2. /\ pc = "rebalance" /\ todo' = todo \ {q}
      /\ UNCHANGED <<pc, want, order, position, listed, cache>>
  BY DEF Rebalance
\* What each of the three branches does.
<1>3. ASSUME wallet' \in [Quotes -> Wallet], local' \in [Quotes -> Balance(Int)],
             \A s \in Quotes : s # q => wallet'[s] = wallet[s] /\ local'[s] = local[s],
             surprised \subseteq surprised', surprised' \subseteq Quotes,
             faults' \in 0 .. MaxFaults,
             venue' \in Venues, moved' \subseteq Movements, shuttled' \in BOOLEAN,
             q \notin surprised' /\ wallet[q].main = 0 /\ Covers(wallet[q], local[q])
               => wallet'[q].main = 0 /\ Covers(wallet'[q], local'[q])
      PROVE  FundsInv'
  <2>1. AccountTypeOK'
    BY <1>1, <1>2, <1>3 DEF AccountTypeOK
  <2>2. ASSUME NEW s \in Quotes \ surprised' PROVE Backed(s)'
    <3>1. s \in Quotes \ surprised
      BY <1>3, <2>2
    <3>2. wallet[s].main = 0 /\ Covers(wallet[s], local[s])
      BY <1>2, <3>1 DEF FundsInv, Backed, Trading
    <3>3. wallet'[s].main = 0 /\ Covers(wallet'[s], local'[s])
      BY <1>3, <2>2, <3>2
    <3> QED BY <1>2, <3>3 DEF Backed, Before
  <2>3. OrderSized'
    BY <1>2 DEF OrderSized
  <2> QED BY <2>1, <2>2, <2>3 DEF FundsInv
<1>4. CASE UNCHANGED local /\ Still
  <2>1. UNCHANGED <<wallet, faults, surprised, venue, moved, shuttled>>
    BY <1>4, StillIs
  <2> QED BY <1>1, <1>3, <1>4, <2>1 DEF AccountTypeOK
<1>5. ASSUME NEW n \in Nat, NEW outcome \in ToFutures(wallet, q, n), Moves(q, outcome),
             local' = IF outcome.ok THEN Shifted(local, q, n) ELSE local
      PROVE  FundsInv'
  <2>1. /\ outcome.ws \in [Quotes -> Wallet] /\ outcome.failed \in BOOLEAN
        /\ \A s \in Quotes : s # q => outcome.ws[s] = wallet[s]
        /\ ~outcome.failed =>
              IF outcome.ok THEN MovedToFutures(wallet[q], outcome.ws[q], n) ELSE outcome.ws = wallet
    BY <1>1, ToFuturesIs
  <2>2. /\ wallet' = outcome.ws
        /\ surprised' = surprised \cup (IF outcome.failed THEN {q} ELSE {})
        /\ surprised' \subseteq Quotes /\ faults' \in 0 .. MaxFaults
        /\ venue' \in Venues /\ moved' \subseteq Movements /\ shuttled' \in BOOLEAN
    BY <1>1, <1>5, <2>1, MovesIs
  <2>3. /\ Shifted(local, q, n) \in [Quotes -> Balance(Int)]
        /\ \A s \in Quotes : s # q => Shifted(local, q, n)[s] = local[s]
        /\ Shifted(local, q, n)[q].spot = local[q].spot - n
        /\ Shifted(local, q, n)[q].free = local[q].free + n
    BY <1>1, ShiftedIs
  <2>4. ASSUME q \notin surprised', wallet[q].main = 0, Covers(wallet[q], local[q])
        PROVE  wallet'[q].main = 0 /\ Covers(wallet'[q], local'[q])
    <3>1. ~outcome.failed
      BY <2>2, <2>4
    <3>2. wallet'[q] \in Wallet
      BY <2>1, <2>2
    <3>3. CASE outcome.ok
      <4>1. MovedToFutures(wallet[q], wallet'[q], n) /\ local' = Shifted(local, q, n)
        BY <1>5, <2>1, <2>2, <3>1, <3>3
      <4> QED BY <1>1, <2>3, <2>4, <3>2, <4>1, WalletIs DEF MovedToFutures, Covers
    <3>4. CASE ~outcome.ok
      BY <1>5, <2>1, <2>2, <2>4, <3>1, <3>4
    <3> QED BY <3>3, <3>4
  <2>5. local' \in [Quotes -> Balance(Int)] /\ \A s \in Quotes : s # q => local'[s] = local[s]
    BY <1>1, <1>5, <2>3
  <2> QED BY <1>3, <2>1, <2>2, <2>4, <2>5
<1>6. ASSUME NEW n \in Nat, NEW outcome \in ToSpot(wallet, q, n), Moves(q, outcome),
             local' = IF outcome.ok THEN Shifted(local, q, -n) ELSE local
      PROVE  FundsInv'
  <2>1. /\ outcome.ws \in [Quotes -> Wallet] /\ outcome.failed \in BOOLEAN
        /\ \A s \in Quotes : s # q => outcome.ws[s] = wallet[s]
        /\ ~outcome.failed =>
              IF outcome.ok THEN MovedToSpot(wallet[q], outcome.ws[q], n) ELSE outcome.ws = wallet
    BY <1>1, ToSpotIs
  <2>2. /\ wallet' = outcome.ws
        /\ surprised' = surprised \cup (IF outcome.failed THEN {q} ELSE {})
        /\ surprised' \subseteq Quotes /\ faults' \in 0 .. MaxFaults
        /\ venue' \in Venues /\ moved' \subseteq Movements /\ shuttled' \in BOOLEAN
    BY <1>1, <1>6, <2>1, MovesIs
  <2>3. /\ Shifted(local, q, -n) \in [Quotes -> Balance(Int)]
        /\ \A s \in Quotes : s # q => Shifted(local, q, -n)[s] = local[s]
        /\ Shifted(local, q, -n)[q].spot = local[q].spot - (-n)
        /\ Shifted(local, q, -n)[q].free = local[q].free + (-n)
    <3>1. -n \in Int
      OBVIOUS
    <3> QED BY <1>1, <3>1, ShiftedIs
  <2>4. ASSUME q \notin surprised', wallet[q].main = 0, Covers(wallet[q], local[q])
        PROVE  wallet'[q].main = 0 /\ Covers(wallet'[q], local'[q])
    <3>1. ~outcome.failed
      BY <2>2, <2>4
    <3>2. wallet'[q] \in Wallet
      BY <2>1, <2>2
    <3>3. CASE outcome.ok
      <4>1. MovedToSpot(wallet[q], wallet'[q], n) /\ local' = Shifted(local, q, -n)
        BY <1>6, <2>1, <2>2, <3>1, <3>3
      <4> QED BY <1>1, <2>3, <2>4, <3>2, <4>1, WalletIs DEF MovedToSpot, Covers
    <3>4. CASE ~outcome.ok
      BY <1>6, <2>1, <2>2, <2>4, <3>1, <3>4
    <3> QED BY <3>3, <3>4
  <2>5. local' \in [Quotes -> Balance(Int)] /\ \A s \in Quotes : s # q => local'[s] = local[s]
    BY <1>1, <1>6, <2>3
  <2> QED BY <1>3, <2>1, <2>2, <2>4, <2>5
<1>7. Gap(q) \in Int
  BY <1>1 DEF Gap
<1>8. CASE /\ Gap(q) >= SmallGap
           /\ \E outcome \in ToFutures(wallet, q, Gap(q) \div 2) :
                /\ Moves(q, outcome)
                /\ local' = IF outcome.ok THEN Shifted(local, q, Gap(q) \div 2) ELSE local
  <2>1. Gap(q) \div 2 \in Nat
    BY <1>7, <1>8 DEF SmallGap
  <2> QED BY <1>5, <1>8, <2>1
<1>9. CASE /\ Gap(q) <= -SmallGap
           /\ \E outcome \in ToSpot(wallet, q, (-Gap(q)) \div 2) :
                /\ Moves(q, outcome)
                /\ local' = IF outcome.ok THEN Shifted(local, q, -((-Gap(q)) \div 2)) ELSE local
  <2>1. (-Gap(q)) \div 2 \in Nat
    BY <1>7, <1>9 DEF SmallGap
  <2> QED BY <1>6, <1>9, <2>1
<1> QED BY <1>4, <1>8, <1>9 DEF Rebalance

\* The rebalance ends.
LEMMA EndKeepsFunds == ASSUME FundsInv, EndRebalance PROVE FundsInv'
<1>1. UNCHANGED <<wallet, faults, surprised, venue, moved, shuttled>>
  BY StillIs DEF EndRebalance
<1>2. /\ pc = "rebalance" /\ pc' = "candidates" /\ todo' = {}
      /\ UNCHANGED <<want, order, position, listed, cache, local>>
  BY DEF EndRebalance, beliefs
<1>3. AccountTypeOK'
  BY <1>1, <1>2 DEF FundsInv, AccountTypeOK, Passes
<1>4. ASSUME NEW q \in Quotes \ surprised' PROVE Backed(q)'
  BY <1>1, <1>2, <1>4 DEF FundsInv, Backed, Before, Trading
<1> QED BY <1>2, <1>3, <1>4 DEF FundsInv, OrderSized

\* A candidate is dropped.
LEMMA RejectKeepsFunds == ASSUME FundsInv, NEW p \in Pairs, Reject(p) PROVE FundsInv'
<1>1. UNCHANGED <<wallet, faults, surprised, venue, moved, shuttled>>
  BY StillIs DEF Reject
<1>2. /\ pc \in {"candidates", "swapped"} /\ pc' = "candidates" /\ want' = want \ {p}
      /\ order' = NoOrder /\ UNCHANGED <<todo, position, listed, cache, local>>
  BY DEF Reject, Dropped
<1>3. AccountTypeOK'
  BY <1>1, <1>2 DEF FundsInv, AccountTypeOK, Passes, NoOrder
<1>4. ASSUME NEW q \in Quotes \ surprised' PROVE Backed(q)'
  BY <1>1, <1>2, <1>4 DEF FundsInv, Backed, Before, Trading
<1> QED BY <1>2, <1>3, <1>4 DEF FundsInv, OrderSized

\* The floor and what is desired are natural numbers.
LEMMA FloorNat == ASSUME FundsInv PROVE MinNotional \in Nat /\ Desired \in Nat
<1> DEFINE f == [q \in Quotes |-> cache[q].spot + cache[q].total + cache[q].coins]
<1>1. IsFiniteSet(Quotes)
  BY TwoQuotes
<1>2. \A q \in Quotes : f[q] \in Nat
  BY BalanceIs DEF FundsInv, AccountTypeOK
<1>3. DOMAIN f = Quotes
  OBVIOUS
<1>4. Equity = SumFunction(f)
  BY DEF Equity
<1> HIDE DEF f
<1>5. SumFunctionOnSet(f, Quotes) \in Nat
  BY <1>1, <1>2, SumNat
<1>6. SumFunction(f) = SumFunctionOnSet(f, Quotes)
  BY <1>3 DEF SumFunction, SumFunctionOnSet, FoldFunction
<1>7. Equity \in Nat /\ MinPct \in Nat /\ MaxPct \in Nat
  BY <1>4, <1>5, <1>6, FundsAssumption
<1>8. MinPct * Equity \in Nat /\ MaxPct * Equity \in Nat
  BY <1>7
<1> QED BY <1>8 DEF MinNotional, Desired

\* What is approved is at most what sizing believes, and more than nothing.
LEMMA SizedIs ==
    ASSUME FundsInv, NEW p \in Pairs, ~TooSmall(p), NEW n \in {Most(1, MinNotional), Sized(p)}
    PROVE  n \in Nat /\ n <= local[p[1]].spot /\ n <= local[p[2]].free
<1> DEFINE x == Least(local[p[1]].spot, local[p[2]].free)
<1>1. local[p[1]].spot \in Int /\ local[p[2]].free \in Int
  BY PairQuotes, BalanceIs DEF FundsInv, AccountTypeOK
<1>2. x \in Int /\ x <= local[p[1]].spot /\ x <= local[p[2]].free
  BY <1>1 DEF Least
<1>3. WalletCap(p) = (97 * x) \div 100
  BY DEF WalletCap
<1> HIDE DEF x
<1>4. MinNotional \in Nat
  BY FloorNat
<1>5. Sized(p) <= WalletCap(p) /\ Sized(p) \in Int
  <2>1. Desired \in Int
    BY FloorNat
  <2>2. WalletCap(p) \in Int
    BY <1>2, <1>3
  <2> QED BY <2>1, <2>2 DEF Sized, Least
<1>6. Sized(p) >= MinNotional /\ Sized(p) > 0
  BY <1>4, <1>5 DEF TooSmall
<1>7. Sized(p) <= x
  BY <1>2, <1>3, <1>5, <1>6
<1>8. n \in Nat /\ n <= Sized(p)
  BY <1>4, <1>5, <1>6 DEF Most
<1> QED BY <1>1, <1>2, <1>5, <1>7, <1>8

\* A candidate is approved.
LEMMA ApproveKeepsFunds == ASSUME FundsInv, NEW p \in Pairs, Approve(p) PROVE FundsInv'
<1>1. UNCHANGED <<wallet, faults, surprised, venue, moved, shuttled>>
  BY StillIs DEF Approve
<1>2. /\ pc \in {"candidates", "swapped"} /\ pc' = "order" /\ ~TooSmall(p)
      /\ UNCHANGED <<todo, want, position, listed, cache, local>>
  BY DEF Approve, beliefs
<1>3. PICK n \in {Most(1, MinNotional), Sized(p)} : order' = [pair |-> p, n |-> n]
  BY DEF Approve
<1>4. n \in Nat /\ n <= local[p[1]].spot /\ n <= local[p[2]].free
  BY <1>2, <1>3, SizedIs
<1>5. AccountTypeOK'
  BY <1>1, <1>2, <1>3, <1>4 DEF FundsInv, AccountTypeOK, Passes
<1>6. ASSUME NEW q \in Quotes \ surprised' PROVE Backed(q)'
  BY <1>1, <1>2, <1>6 DEF FundsInv, Backed, Before, Trading
<1>7. OrderSized'
  BY <1>2, <1>3, <1>4 DEF OrderSized
<1> QED BY <1>5, <1>6, <1>7 DEF FundsInv

\* The swap sweeps and reads again.
LEMMA SwapKeepsFunds == ASSUME FundsInv, NEW p \in Pairs, Swap(p) PROVE FundsInv'
<1> DEFINE q == p[1]
           n == SwapTarget(q)
           gone == Exchanged(wallet, q, n)
           after == Swept(gone, Quotes)
           seen == Reading(after, position)
           half == (seen[q].spot - seen[q].free) \div 2
           splits == seen[q].total > 0 /\ half > 1
<1>1. /\ q \in Quotes /\ wallet \in [Quotes -> Wallet] /\ position \in [Pairs -> Nat]
      /\ AccountTypeOK
  BY PairQuotes DEF FundsInv, AccountTypeOK
<1>2. /\ pc = "candidates" /\ pc' = "swapped" /\ order' = [pair |-> p, n |-> 0]
      /\ UNCHANGED <<todo, want, position, listed>>
      /\ n > 0 /\ wallet[Other(q)].trade >= n /\ cache' = seen
  BY DEF Swap
<1>3. PICK outcome \in IF splits THEN ToFutures(after, q, half) ELSE {Done(after)} :
        /\ Moves(q, outcome)
        /\ local' = IF splits /\ outcome.ok THEN Shifted(seen, q, half) ELSE seen
  BY DEF Swap
<1>4. n \in Nat
  <2>1. MinNotional \in Nat /\ Surplus(q) \in Int
    <3>1. local[Other(q)] \in Balance(Int)
      BY <1>1, TwoQuotes DEF AccountTypeOK
    <3> QED BY <3>1, BalanceIs, FloorNat DEF Surplus
  <2>2. n \in Int
    BY <2>1 DEF SwapTarget, Least
  <2> QED BY <1>2, <2>2
<1> HIDE DEF n
<1>5. gone \in [Quotes -> Wallet]
  BY <1>1, <1>2, <1>4, ExchangedIs
<1> HIDE DEF gone
<1>6. after \in [Quotes -> Wallet] /\ \A s \in Quotes : after[s].main = 0
  BY <1>5, SweptIs
<1> HIDE DEF after
<1>7. /\ seen \in [Quotes -> Balance(Nat)] /\ seen \in [Quotes -> Balance(Int)]
      /\ \A s \in Quotes : Covers(after[s], seen[s])
  BY <1>1, <1>6, ReadingIs, BalanceInt
<1>8. seen[q].spot \in Int /\ seen[q].free \in Int /\ half \in Int
  BY <1>1, <1>7, BalanceIs
<1> HIDE DEF seen, half, q
<1>9. /\ outcome.ws \in [Quotes -> Wallet] /\ outcome.failed \in BOOLEAN
      /\ \A s \in Quotes : s # q => outcome.ws[s] = after[s]
      /\ ~outcome.failed =>
            IF splits /\ outcome.ok THEN MovedToFutures(after[q], outcome.ws[q], half)
            ELSE outcome.ws = after
  <2>1. CASE splits
    <3>1. half \in Nat /\ outcome \in ToFutures(after, q, half)
      BY <1>3, <1>8, <2>1
    <3> QED BY <1>1, <1>6, <2>1, <3>1, ToFuturesIs
  <2>2. CASE ~splits
    <3>1. outcome = Done(after)
      BY <1>3, <2>2
    <3>2. outcome.ws = after /\ outcome.failed = FALSE
      BY <3>1 DEF Done
    <3> QED BY <1>6, <2>2, <3>2
  <2> QED BY <2>1, <2>2
<1> HIDE DEF splits
<1>10. /\ wallet' = outcome.ws
       /\ surprised' = surprised \cup (IF outcome.failed THEN {q} ELSE {})
       /\ surprised' \subseteq Quotes /\ faults' \in 0 .. MaxFaults
       /\ venue' \in Venues /\ moved' \subseteq Movements /\ shuttled' \in BOOLEAN
  BY <1>1, <1>3, <1>9, MovesIs
<1>11. /\ Shifted(seen, q, half) \in [Quotes -> Balance(Int)]
       /\ \A s \in Quotes : s # q => Shifted(seen, q, half)[s] = seen[s]
       /\ Shifted(seen, q, half)[q].spot = seen[q].spot - half
       /\ Shifted(seen, q, half)[q].free = seen[q].free + half
  BY <1>1, <1>7, <1>8, ShiftedIs
<1>12. local' \in [Quotes -> Balance(Int)] /\ \A s \in Quotes : s # q => local'[s] = seen[s]
  BY <1>3, <1>7, <1>11
<1>13. wallet' \in [Quotes -> Wallet] /\ cache' \in [Quotes -> Balance(Nat)]
  BY <1>2, <1>7, <1>9, <1>10
<1>14. AccountTypeOK'
  BY <1>1, <1>2, <1>10, <1>12, <1>13 DEF AccountTypeOK, Passes
<1>15. ASSUME NEW s \in Quotes \ surprised' PROVE Backed(s)'
  <2>1. wallet'[s].main = 0 /\ Covers(wallet'[s], local'[s])
    <3>1. CASE s # q
      BY <1>6, <1>7, <1>9, <1>10, <1>12, <3>1
    <3>2. CASE s = q
      <4>1. ~outcome.failed
        BY <1>10, <1>15, <3>2
      <4>2. CASE splits /\ outcome.ok
        <5>1. MovedToFutures(after[q], wallet'[q], half) /\ local' = Shifted(seen, q, half)
          BY <1>3, <1>9, <1>10, <4>1, <4>2
        <5>2. wallet'[q] \in Wallet /\ after[q] \in Wallet /\ after[q].main = 0
              /\ Covers(after[q], seen[q])
          BY <1>1, <1>6, <1>7, <1>13
        <5>3. wallet'[q].main = 0 /\ Covers(wallet'[q], local'[q])
          BY <1>8, <1>11, <5>1, <5>2, WalletIs DEF MovedToFutures, Covers
        <5> QED BY <3>2, <5>3
      <4>3. CASE ~(splits /\ outcome.ok)
        <5>1. wallet' = after /\ local' = seen
          BY <1>3, <1>9, <1>10, <4>1, <4>3
        <5> QED BY <1>6, <1>7, <5>1
      <4> QED BY <4>2, <4>3
    <3> QED BY <3>1, <3>2
  <2> QED BY <1>2, <2>1 DEF Backed, Before
<1>16. OrderSized'
  BY <1>2 DEF OrderSized
<1> QED BY <1>14, <1>15, <1>16 DEF FundsInv

\* The two orders.
LEMMA EnterKeepsFunds == ASSUME FundsInv, NEW p \in Pairs, Enter(p) PROVE FundsInv'
<1> DEFINE m(q) == IF q = p[1] THEN order.n ELSE 0
           n(q) == IF q = p[2] THEN order.n ELSE 0
<1>1. /\ wallet \in [Quotes -> Wallet] /\ AccountTypeOK /\ order.n \in Nat
      /\ p[1] \in Quotes /\ p[2] \in Quotes
  BY PairQuotes DEF FundsInv, AccountTypeOK
<1>2. /\ pc' = "reread" /\ order' = NoOrder /\ want' = {} /\ local' = Unread
      /\ cache' = Reading(wallet, position)
      /\ position' = [position EXCEPT ![p] = order.n] /\ listed' = position'
      /\ UNCHANGED <<venue, moved, shuttled, todo, surprised, faults>>
  BY DEF Enter, capital
<1>3. wallet' = [q \in Quotes |-> [wallet[q] EXCEPT !.trade = @ - m(q), !.contract = @ - n(q)]]
  BY DEF Enter
<1>4. ASSUME NEW q \in Quotes
      PROVE  /\ m(q) \in Nat /\ n(q) \in Nat
             /\ m(q) <= wallet[q].trade /\ n(q) <= wallet[q].contract
  <2>1. wallet[q] \in Wallet /\ wallet[p[1]].trade >= order.n /\ wallet[p[2]].contract >= order.n
    BY <1>1 DEF Enter
  <2> QED BY <1>1, <2>1, WalletIs
<1> HIDE DEF m, n
<1>5. ASSUME NEW q \in Quotes PROVE wallet'[q] \in Wallet
  <2> DEFINE w == wallet[q]
             u == [w EXCEPT !.trade = @ - m(q), !.contract = @ - n(q)]
  <2>1. w \in Wallet
    BY <1>1
  <2>2. u \in Wallet
    BY <1>4, <2>1, TakenIs
  <2>3. wallet'[q] = u
    BY <1>3
  <2> QED BY <2>2, <2>3
<1>6. wallet' \in [Quotes -> Wallet]
  BY <1>3, <1>5
<1>7. position' \in [Pairs -> Nat]
  BY <1>1, <1>2 DEF AccountTypeOK
<1>8. cache' \in [Quotes -> Balance(Nat)]
  BY <1>2, ReadingTyped
<1>9. AccountTypeOK'
  BY <1>1, <1>2, <1>6, <1>7, <1>8, UnreadIs DEF AccountTypeOK, Passes, NoOrder
<1> QED BY <1>2, <1>9 DEF FundsInv, Backed, OrderSized, Before, Trading

\* The entry fails, or the candidates are through.
LEMMA EndsKeepFunds ==
    ASSUME FundsInv, (\E p \in Pairs : EnterFails(p)) \/ EndCandidates PROVE FundsInv'
<1>1. UNCHANGED <<wallet, faults, surprised, venue, moved, shuttled>>
  BY StillIs DEF EnterFails, EndCandidates
<1>2. CASE \E p \in Pairs : EnterFails(p)
  <2>1. PICK p \in Pairs : EnterFails(p)
    BY <1>2
  <2>2. /\ pc = "order" /\ pc' = "candidates" /\ want' \subseteq want /\ order' = NoOrder
        /\ cache' = Reading(wallet, position) /\ UNCHANGED <<todo, position, listed, local>>
    BY <2>1 DEF EnterFails
  <2>3. AccountTypeOK'
    BY <1>1, <2>2, ReadingTyped DEF FundsInv, AccountTypeOK, Passes, NoOrder
  <2>4. ASSUME NEW q \in Quotes \ surprised' PROVE Backed(q)'
    BY <1>1, <2>2, <2>4 DEF FundsInv, Backed, Before, Trading
  <2> QED BY <2>2, <2>3, <2>4 DEF FundsInv, OrderSized
<1>3. CASE EndCandidates
  <2>1. /\ pc' = "reread" /\ want' = {} /\ local' = Unread
        /\ UNCHANGED <<todo, order, position, listed, cache>>
    BY <1>3 DEF EndCandidates
  <2>2. AccountTypeOK'
    BY <1>1, <2>1, UnreadIs DEF FundsInv, AccountTypeOK, Passes
  <2> QED BY <2>1, <2>2 DEF FundsInv, Backed, OrderSized, Before, Trading
<1> QED BY <1>2, <1>3

\* The drain comes after the trade.
LEMMA DrainKeepsFunds == ASSUME FundsInv, NEW q \in Quotes, Drain(q) PROVE FundsInv'
<1>1. /\ AccountTypeOK /\ wallet \in [Quotes -> Wallet] /\ cache[q].free \in Nat
      /\ \A p \in Pairs : listed[p] \in Nat
  BY BalanceIs DEF FundsInv, AccountTypeOK
<1>2. /\ pc = "drain" /\ todo' = todo \ {q}
      /\ UNCHANGED <<pc, want, order, position, listed, cache, local>>
  BY DEF Drain, beliefs
<1>3. /\ wallet' \in [Quotes -> Wallet] /\ surprised' \subseteq Quotes
      /\ faults' \in 0 .. MaxFaults
      /\ venue' \in Venues /\ moved' \subseteq Movements /\ shuttled' \in BOOLEAN
  <2>1. CASE Still
    <3>1. UNCHANGED <<wallet, faults, surprised, venue, moved, shuttled>>
      BY <2>1, StillIs
    <3> QED BY <1>1, <3>1 DEF AccountTypeOK
  <2>2. CASE ~Still
    <3>1. Drains(q) /\ \E outcome \in ToSpot(wallet, q, cache[q].free - Keep(q)) : Moves(q, outcome)
      BY <2>2 DEF Drain
    <3>2. PICK outcome \in ToSpot(wallet, q, cache[q].free - Keep(q)) : Moves(q, outcome)
      BY <3>1
    <3> DEFINE k == Notional(listed, PerpIn(q))
               n == cache[q].free - Keep(q)
    <3>3. k \in Nat
      <4>1. PerpIn(q) \in SUBSET Pairs /\ listed \in [Pairs -> Nat]
        BY <1>1 DEF PerpIn, AccountTypeOK
      <4> QED BY <4>1, NotionalNat
    <3>4. Keep(q) \in Nat
      <4>1. BufferPct \in Nat
        BY FundsAssumption
      <4> HIDE DEF k
      <4>2. BufferPct * k \in Nat
        BY <3>3, <4>1
      <4>3. Keep(q) = IF k > 0 THEN Most(2, (BufferPct * k) \div 100) ELSE Spare
        BY DEF Keep, k
      <4> QED BY <4>2, <4>3 DEF Most, Spare
    <3>5. n \in Nat
      BY <1>1, <3>1, <3>4 DEF Drains, Spare
    <3> HIDE DEF n
    <3>6. outcome.ws \in [Quotes -> Wallet] /\ outcome.failed \in BOOLEAN
      <4>1. outcome \in ToSpot(wallet, q, n)
        BY <3>2 DEF n
      <4> QED BY <1>1, <3>5, <4>1, ToSpotIs
    <3>7. /\ wallet' = outcome.ws /\ surprised' \subseteq Quotes /\ faults' \in 0 .. MaxFaults
          /\ venue' \in Venues /\ moved' \subseteq Movements /\ shuttled' \in BOOLEAN
      BY <1>1, <3>2, <3>6, MovesIs
    <3> QED BY <3>6, <3>7
  <2> QED BY <2>1, <2>2
<1>4. AccountTypeOK'
  BY <1>1, <1>2, <1>3 DEF AccountTypeOK
<1> QED BY <1>2, <1>4 DEF FundsInv, Backed, OrderSized, Before, Trading

\* The session ends.
LEMMA ForgetsKeepsFunds == ASSUME FundsInv, Commit \/ LoseSession PROVE FundsInv'
<1>1. Forgets /\ UNCHANGED <<venue, moved, shuttled>>
  BY DEF Commit, LoseSession, CycleCommits, CycleRollsBack
<1>2. /\ pc' = "idle" /\ todo' = {} /\ want' = {} /\ order' = NoOrder
      /\ cache' = Unread /\ local' = Unread /\ listed' = position /\ surprised' = {}
      /\ UNCHANGED <<wallet, position>>
  BY <1>1 DEF Forgets, venueState
<1>3. faults' \in 0 .. MaxFaults
  BY FundsAssumption DEF Commit, LoseSession, Fault, FundsInv, AccountTypeOK
<1>4. AccountTypeOK'
  BY <1>1, <1>2, <1>3, UnreadIs DEF FundsInv, AccountTypeOK, Passes, NoOrder
<1> QED BY <1>2, <1>4 DEF FundsInv, Backed, OrderSized, Before, Trading

\* A movement surprises the currency it is in.
LEMMA MoveKeepsFunds == ASSUME FundsInv, NEW m \in Movements, Move(m) PROVE FundsInv'
<1>1. /\ AccountTypeOK /\ wallet \in [Quotes -> Wallet] /\ Home \in Quotes /\ Lot \in Nat
      /\ wallet[Home] \in Wallet
  BY FundsAssumption DEF FundsInv, AccountTypeOK
<1>2. /\ moved' = moved \cup {m} /\ surprised' = surprised \cup {Home}
      /\ UNCHANGED <<venue, shuttled, pc, todo, want, order, position, listed, cache, local, faults>>
  BY DEF Move, Touched, cycle, beliefs
<1>3. \E w \in Wallet : wallet' = [wallet EXCEPT ![Home] = w]
  <2>1. ASSUME NEW w \in Wallet, NEW k \in Nat
        PROVE  [w EXCEPT !.trade = k] \in Wallet /\ [w EXCEPT !.main = k] \in Wallet
    BY DEF Wallet
  <2>2. wallet[Home].trade \in Nat /\ wallet[Home].main \in Nat
    BY <1>1, WalletIs
  <2>3. CASE Kind[m] = "withdrawal"
    <3>1. wallet[Home].trade >= Lot /\ wallet' = [wallet EXCEPT ![Home].trade = @ - Lot]
      BY <2>3 DEF Move
    <3>2. wallet[Home].trade - Lot \in Nat
      BY <1>1, <2>2, <3>1
    <3>3. wallet' = [wallet EXCEPT ![Home] = [wallet[Home] EXCEPT !.trade = @ - Lot]]
      BY <1>1, <3>1
    <3>4. [wallet[Home] EXCEPT !.trade = @ - Lot] \in Wallet
      BY <1>1, <2>1, <3>2
    <3> QED BY <3>3, <3>4
  <2>4. CASE Kind[m] # "withdrawal" /\ venue = "kucoin"
    <3>1. wallet' = [wallet EXCEPT ![Home].main = @ + Lot]
      BY <2>4 DEF Move
    <3>2. wallet[Home].main + Lot \in Nat
      BY <1>1, <2>2
    <3>3. wallet' = [wallet EXCEPT ![Home] = [wallet[Home] EXCEPT !.main = @ + Lot]]
      BY <1>1, <3>1
    <3>4. [wallet[Home] EXCEPT !.main = @ + Lot] \in Wallet
      BY <1>1, <2>1, <3>2
    <3> QED BY <3>3, <3>4
  <2>5. CASE Kind[m] # "withdrawal" /\ venue # "kucoin"
    <3>1. wallet' = [wallet EXCEPT ![Home].trade = @ + Lot]
      BY <2>5 DEF Move
    <3>2. wallet[Home].trade + Lot \in Nat
      BY <1>1, <2>2
    <3>3. wallet' = [wallet EXCEPT ![Home] = [wallet[Home] EXCEPT !.trade = @ + Lot]]
      BY <1>1, <3>1
    <3>4. [wallet[Home] EXCEPT !.trade = @ + Lot] \in Wallet
      BY <1>1, <2>1, <3>2
    <3> QED BY <3>3, <3>4
  <2> QED BY <2>3, <2>4, <2>5
<1>4. PICK w \in Wallet : wallet' = [wallet EXCEPT ![Home] = w]
  BY <1>3
<1>5. wallet' \in [Quotes -> Wallet] /\ \A q \in Quotes : q # Home => wallet'[q] = wallet[q]
  BY <1>1, <1>4
<1>6. AccountTypeOK'
  BY <1>1, <1>2, <1>5 DEF AccountTypeOK
<1>7. ASSUME NEW q \in Quotes \ surprised' PROVE Backed(q)'
  <2>1. q \in Quotes \ surprised /\ q # Home
    BY <1>2, <1>7
  <2>2. Backed(q) /\ wallet'[q] = wallet[q]
    BY <1>5, <2>1 DEF FundsInv
  <2> QED BY <1>2, <2>2 DEF Backed
<1>8. OrderSized'
  BY <1>2 DEF FundsInv, OrderSized
<1> QED BY <1>6, <1>7, <1>8 DEF FundsInv

\* The button changes rows.
LEMMA AroundKeepsFunds == ASSUME FundsInv, Around PROVE FundsInv'
<1>1. UNCHANGED <<venue, moved, shuttled, cycle, venueState, beliefs, surprised, faults>>
  BY DEF Around, ButtonReads, ButtonStores
<1> QED BY <1>1 DEF FundsInv, AccountTypeOK, Backed, OrderSized, cycle, venueState, beliefs

-----------------------------------------------------------------------------
(* The theorem. *)

\* The invariant is inductive.
LEMMA FundsInductive == ASSUME FundsInv, [Next]_vars PROVE FundsInv'
<1>1. CASE Step
  <2>1. ASSUME NEW p \in Pairs,
               Exit(p) \/ Swap(p) \/ Reject(p) \/ Approve(p) \/ Enter(p)
        PROVE  FundsInv'
    BY <2>1, ExitKeepsFunds, SwapKeepsFunds, RejectKeepsFunds, ApproveKeepsFunds, EnterKeepsFunds
  <2>2. ASSUME NEW q \in Quotes, Rebalance(q) \/ Drain(q) PROVE FundsInv'
    BY <2>2, RebalanceKeepsFunds, DrainKeepsFunds
  <2>3. ASSUME StartCycle \/ SkipEntries \/ Scan \/ Consolidate \/ ReadWallets \/ EndRebalance
               \/ (\E p \in Pairs : EnterFails(p)) \/ EndCandidates \/ Reread \/ Ingest \/ Commit
        PROVE  FundsInv'
    BY <2>3, StartKeepsFunds, PassKeepsFunds, ConsolidateKeepsFunds, ReadKeepsFunds,
       EndKeepsFunds, EndsKeepFunds, ForgetsKeepsFunds
  <2> QED BY <1>1, <2>1, <2>2, <2>3 DEF Step
<1>2. CASE LoseSession
  BY <1>2, ForgetsKeepsFunds
<1>3. ASSUME NEW m \in Movements, Move(m) PROVE FundsInv'
  BY <1>3, MoveKeepsFunds
<1>4. CASE Around
  BY <1>4, AroundKeepsFunds
<1>5. CASE UNCHANGED vars
  BY <1>5, StutterKeepsFunds
<1> QED BY <1>1, <1>2, <1>3, <1>4, <1>5 DEF Next

\* The types of the property are those of the two invariants.
LEMMA FundsTypes == ASSUME BookInv, FundsInv PROVE TypeOK
<1>1. rows \in [Ids -> 0 .. 2] /\ pending \in [Ids -> 0 .. 1] /\ asked \in [Ids -> 0 .. 1]
  <2>1. ASSUME NEW i \in Ids
        PROVE  rows[i] \in 0 .. 2 /\ pending[i] \in 0 .. 1 /\ asked[i] \in 0 .. 1
    <3>1. rows[i] \in Nat /\ pending[i] \in Nat /\ asked[i] \in Nat
      BY DEF BookInv, BookTypeOK
    <3>2. SessionsAgree(i)
      BY DEF BookInv
    <3> QED BY <3>1, <3>2 DEF SessionsAgree
  <2> QED BY <2>1 DEF BookInv, BookTypeOK
<1>2. CapitalTypeOK
  BY <1>1 DEF CapitalTypeOK, FundsInv, AccountTypeOK, BookInv, BookTypeOK
<1>3. wallet \in [Quotes -> [main : Nat, trade : Nat, contract : Nat]]
  BY DEF FundsInv, AccountTypeOK, Wallet
<1> QED BY <1>2, <1>3 DEF TypeOK, FundsInv, AccountTypeOK

\* What sizing believes of an unsurprised currency is in the wallet that pays.
LEMMA FundsFund == ASSUME BookInv, FundsInv PROVE SizedIsFunded
<1>1. TypeOK
  BY FundsTypes
<1>2. ASSUME pc = "order"
      PROVE  LET p == order.pair
             IN  /\ p[1] \notin surprised => order.n <= wallet[p[1]].trade
                 /\ p[2] \notin surprised => order.n <= wallet[p[2]].contract
  <2> DEFINE p == order.pair
  <2>1. /\ p[1] \in Quotes /\ p[2] \in Quotes /\ order.n \in Nat
        /\ order.n <= local[p[1]].spot /\ order.n <= local[p[2]].free
    BY <1>2, PairQuotes DEF FundsInv, OrderSized, AccountTypeOK
  <2>2. ASSUME NEW q \in Quotes
        PROVE  /\ wallet[q] \in Wallet /\ local[q].spot \in Int /\ local[q].free \in Int
               /\ q \notin surprised => wallet[q].main = 0 /\ Covers(wallet[q], local[q])
    BY <1>2, BalanceIs DEF FundsInv, AccountTypeOK, Backed, Trading
  <2> HIDE DEF p
  <2>3. p[1] \notin surprised => order.n <= wallet[p[1]].trade
    BY <2>1, <2>2, WalletIs DEF Covers
  <2>4. p[2] \notin surprised => order.n <= wallet[p[2]].contract
    BY <2>1, <2>2, WalletIs DEF Covers
  <2> QED BY <2>3, <2>4 DEF p
<1> QED BY <1>1, <1>2 DEF SizedIsFunded

\* SizedIsFunded: an order is placed only when both wallets that pay hold it, in every
\* currency in which no transfer of the cycle failed and no movement came, whatever the
\* percentages, the balances at first, the pairs and the venue.
THEOREM Funded == Spec => []SizedIsFunded
<1>1. Init => BookInv /\ FundsInv
  BY InitBook, InitFunds
<1>2. BookInv /\ FundsInv /\ [Next]_vars => (BookInv /\ FundsInv)'
  BY WaysToTheBook, BookKept, IngestKeepsBook, CommitKeepsBook, RollbackKeepsBook,
     ReadingKeepsBook, StoringKeepsBook, FundsInductive
<1>3. BookInv /\ FundsInv => SizedIsFunded
  BY FundsFund
<1> QED BY <1>1, <1>2, <1>3, PTL DEF Spec

=============================================================================
