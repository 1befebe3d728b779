---------------------------- MODULE LegacyBotProofs ----------------------------
(***************************************************************************)
(* Theorems about LegacyBot, for any bases, lots and limits and any number *)
(* of failed calls, lost answers, outside trades and restarts: the types,  *)
(* the agreement of books and legs between cycles, and that a short is     *)
(* never entered again.                                                    *)
(***************************************************************************)
EXTENDS LegacyBot, TLAPS

-----------------------------------------------------------------------------
(* The inductive invariant. *)

Flushed == {"idle", "rehydrate"}
Opening == {"idle", "rehydrate", "reconcile", "branch"}
Entering == {"entry", "hedge"}
NoVisits == Opening \cup Entering \cup {"sweep"}

IsNaked(r) == table[r] = "naked_spot"
IsOpen(r) == row[r].status = "open"

\* Of every row: naked rows are flushed at once, what a query finds open is open or has
\* been closed since, and a pass visits none but these.
RowOK(r) ==
    /\ row[r].status = "naked_spot" <=> IsNaked(r)
    /\ table[r] = "open" => row[r].status \in {"open", "closed"}
    /\ db[r].status # "closed"
    /\ r \in todo => row[r].status \in {"open", "closed"} /\ ~IsNaked(r)
    /\ pc \in Flushed => row[r] = db[r] /\ table[r] = row[r].status

\* Of two rows of one base, at most one is naked, and a row opened and not yet flushed
\* is the only open one.
PairOK(r, s) ==
    /\ ~(IsNaked(r) /\ IsNaked(s))
    /\ ~(db[r].status = "naked_spot" /\ db[s].status = "naked_spot")
    /\ IsOpen(r) /\ table[r] # "open" => table[s] # "open" /\ ~IsOpen(s)

\* What a base that the recovery or the entries have still to visit needs.
RoomOK(b) ==
    /\ pc = "recover" /\ b \in left =>
         /\ \A r \in todo : Base(r) # b
         /\ \E r \in RowsOf(b) : Unused(r) \/ IsNaked(r)
    /\ pc \in Entering /\ b \in left => \E r \in RowsOf(b) : Unused(r)

\* Between the two orders of an entry.
HedgeOK ==
    /\ pc # "hedge" => entering = NoEntry
    /\ pc = "hedge" =>
         /\ entering \in Rows /\ Base(entering) \notin left
         /\ IsOpen(entering) /\ table[entering] = "open"
         /\ Base(entering) \notin misled => row[entering].qty <= spot[Base(entering)]

\* Of a base that nothing has misled: outside an entry its rows and legs agree; its
\* open row has been flushed and is the only one a pass may meet; until a pass begins
\* nothing has been changed; a base still to be recovered, entered or swept has no
\* open row; and what the hedge check left alone can be sold, or is not counted as dust.
Trusted(b) ==
    /\ IF pc = "hedge" /\ Base(entering) = b
       THEN short[b] = 0 /\ OpenRows(row, b) = {entering}
       ELSE Agree(row, spot, short, b)
    /\ \A r \in RowsOf(b) :
         /\ IsOpen(r) => table[r] = "open"
         /\ table[r] = "open" \/ r \in todo => OpenRows(row, b) \subseteq {r}
         /\ pc \in Opening => row[r] = db[r]
         /\ pc = "safety" /\ IsOpen(r) => r \in todo \/ spot[b] >= SpotMin
         /\ pc = "recover" /\ IsOpen(r) =>
              spot[b] >= SpotMin \/ \A s \in RowsOf(b) : ~IsNaked(s)
    /\ pc \in {"recover", "entry", "hedge", "sweep"} /\ b \in left => OpenRows(row, b) = {}

BotInv ==
    /\ TypeOK
    /\ pc \in NoVisits => todo = {}
    /\ \A r \in Rows : RowOK(r)
    /\ \A r, s \in Rows : Base(r) = Base(s) /\ r # s => PairOK(r, s)
    /\ \A b \in Bases : RoomOK(b)
    /\ HedgeOK
    /\ \A b \in Bases \ misled : Trusted(b)

-----------------------------------------------------------------------------
(* Rows of a base. *)

\* A base has two rows, and every row is one of a base.
LEMMA RowsAre ==
    /\ \A r \in Rows : Base(r) \in Bases /\ r \in RowsOf(Base(r))
    /\ \A b \in Bases : \A r \in RowsOf(b) : r \in Rows /\ Base(r) = b
    /\ \A b \in Bases : \E r, s \in RowsOf(b) : r # s /\ RowsOf(b) = {r, s}
<1>1. \A r \in Rows : Base(r) \in Bases /\ r \in RowsOf(Base(r))
  BY DEF Rows, Base, RowsOf
<1>2. \A b \in Bases : \A r \in RowsOf(b) : r \in Rows /\ Base(r) = b
  BY DEF RowsOf
<1>3. ASSUME NEW b \in Bases PROVE \E r, s \in RowsOf(b) : r # s /\ RowsOf(b) = {r, s}
  <2>1. <<b, 1>> # <<b, 2>> /\ <<b, 1>> \in RowsOf(b) /\ <<b, 2>> \in RowsOf(b)
    BY DEF Rows, Base, RowsOf
  <2>2. RowsOf(b) \subseteq {<<b, 1>>, <<b, 2>>}
    BY DEF Rows, Base, RowsOf
  <2> QED BY <2>1, <2>2
<1> QED BY <1>1, <1>2, <1>3

\* What a query finds open is a row.
LEMMA VisibleAre == \A status : Visible(status) \subseteq Rows
BY DEF Visible

\* The fields of a record.
LEMMA RecordIs ==
    /\ \A q \in Records : q.status \in Statuses /\ q.qty \in Amounts /\ q.dust \in BOOLEAN
    /\ \A q \in Records : /\ Closed(q) \in Records /\ Closed(q).status = "closed"
                          /\ Closed(q).qty = q.qty
    /\ NoRow \in Records /\ NoRow.status = "none"
<1>1. \A q \in Records : q.status \in Statuses /\ q.qty \in Amounts /\ q.dust \in BOOLEAN
  BY DEF Records
<1>2. "closed" \in Statuses /\ "none" \in Statuses
  BY DEF Statuses
<1>3. 0 \in Amounts
  BY LegacyAssumption DEF Amounts
<1>4. \A q \in Records : Closed(q) \in Records /\ Closed(q).status = "closed" /\ Closed(q).qty = q.qty
  BY <1>2 DEF Records, Closed
<1>5. NoRow \in Records /\ NoRow.status = "none"
  BY <1>2, <1>3 DEF Records, NoRow, Row
<1> QED BY <1>1, <1>4, <1>5

\* A lot count of either leg is an amount of a row.
LEMMA AmountsAre ==
    /\ MaxCoins \in Nat /\ MaxShort \in Nat /\ Target \in Nat /\ SpotMin \in Nat
    /\ Target <= MaxCoins /\ Target <= MaxShort
    /\ \A n \in 0 .. MaxCoins : n \in Amounts
    /\ \A n \in 0 .. MaxShort : n \in Amounts
    /\ \A n \in Amounts : n \in Nat
BY LegacyAssumption DEF Amounts

\* A record of an amount.
LEMMA RecordOf ==
    \A n \in Amounts, d \in BOOLEAN, s \in Statuses : Row(s, n, d) \in Records
BY DEF Records, Row

\* Its status and its amount.
LEMMA FieldsOf ==
    \A n \in Amounts, d \in BOOLEAN, s \in Statuses : Row(s, n, d).status = s /\ Row(s, n, d).qty = n
BY DEF Row

\* A record of whichever trade type.
LEMMA OwnIs ==
    ASSUME NEW q \in Records
    PROVE  /\ [q EXCEPT !.own = DefaultIsOwn] \in Records
           /\ [q EXCEPT !.own = DefaultIsOwn].status = q.status
BY LegacyAssumption DEF Records

-----------------------------------------------------------------------------
(* What the writes have in common. *)

\* Objects of the session are closed, or keep their status, and nothing is flushed.
LEMMA UnflushedKeeps ==
    ASSUME BotInv, UNCHANGED <<table, db>>, pc' \notin Flushed,
           \A r \in Rows : \/ row'[r].status = row[r].status
                           \/ row[r].status \in {"open", "closed"} /\ row'[r].status = "closed",
           todo' \subseteq todo \cup Visible("open")
    PROVE  /\ \A r \in Rows : RowOK(r)'
           /\ \A r, s \in Rows : Base(r) = Base(s) /\ r # s => PairOK(r, s)'
<1>1. ASSUME NEW r \in Rows PROVE RowOK(r)'
  <2>1. RowOK(r)
    BY DEF BotInv
  <2>2. r \in todo' => r \in todo \/ table[r] = "open"
    BY DEF Visible
  <2> QED BY <2>1, <2>2 DEF RowOK, IsNaked
<1>2. ASSUME NEW r \in Rows, NEW s \in Rows, Base(r) = Base(s), r # s PROVE PairOK(r, s)'
  <2>1. PairOK(r, s)
    BY <1>2 DEF BotInv
  <2> QED BY <2>1 DEF PairOK, IsNaked, IsOpen
<1> QED BY <1>1, <1>2

\* The session is flushed.
LEMMA FlushKeeps ==
    ASSUME BotInv, NEW rows, Flush(rows), pc' \notin Flushed,
           \A r \in todo' : row'[r].status \in {"open", "closed"},
           \A r, s \in Rows : Base(r) = Base(s) /\ r # s =>
                ~(row'[r].status = "naked_spot" /\ row'[s].status = "naked_spot")
    PROVE  /\ \A r \in Rows : RowOK(r)'
           /\ \A r, s \in Rows : Base(r) = Base(s) /\ r # s => PairOK(r, s)'
           /\ \A r \in Rows : table'[r] = row'[r].status
<1>1. UNCHANGED db /\ \A r \in Rows : table'[r] = row'[r].status
  BY DEF Flush, Status
<1>2. ASSUME NEW r \in Rows PROVE RowOK(r)'
  <2>1. RowOK(r)
    BY DEF BotInv
  <2> QED BY <1>1, <2>1 DEF RowOK, IsNaked
<1>3. ASSUME NEW r \in Rows, NEW s \in Rows, Base(r) = Base(s), r # s PROVE PairOK(r, s)'
  <2>1. PairOK(r, s)
    BY <1>3 DEF BotInv
  <2> QED BY <1>1, <1>3, <2>1 DEF PairOK, IsNaked, IsOpen
<1> QED BY <1>1, <1>2, <1>3

\* The rows are those of the database.
LEMMA SyncKeeps ==
    ASSUME row' = db', table' = Status(row'),
           \A r \in Rows : row'[r].status # "closed",
           \A r, s \in Rows : Base(r) = Base(s) /\ r # s =>
                ~(row'[r].status = "naked_spot" /\ row'[s].status = "naked_spot"),
           \A r \in todo' : r \in Rows /\ row'[r].status = "open"
    PROVE  /\ \A r \in Rows : RowOK(r)'
           /\ \A r, s \in Rows : Base(r) = Base(s) /\ r # s => PairOK(r, s)'
           /\ \A r \in Rows : table'[r] = row'[r].status
<1>1. \A r \in Rows : table'[r] = row'[r].status
  BY DEF Status
<1>2. ASSUME NEW r \in Rows PROVE RowOK(r)'
  BY <1>1 DEF RowOK, IsNaked
<1>3. ASSUME NEW r \in Rows, NEW s \in Rows, Base(r) = Base(s), r # s PROVE PairOK(r, s)'
  BY <1>1, <1>3 DEF PairOK, IsNaked, IsOpen
<1> QED BY <1>1, <1>2, <1>3

\* A step that does not concern b, apart from a flush.
Untouched(b) ==
    /\ \A r \in RowsOf(b) : /\ row'[r] = row[r]
                            /\ table'[r] \in {table[r], row[r].status}
                            /\ r \in todo' <=> r \in todo
    /\ spot'[b] = spot[b] /\ short'[b] = short[b] /\ UNCHANGED db
    /\ b \in left' => b \in left
    /\ pc' = pc \/ {pc, pc'} \subseteq Entering
    /\ pc = "hedge" => Base(entering) # b
    /\ pc' = "hedge" => Base(entering') # b

\* It leaves what is known of b as it is.
LEMMA UntouchedTrusted ==
    ASSUME BotInv, NEW b \in Bases, Trusted(b), Untouched(b) PROVE Trusted(b)'
<1>1. OpenRows(row', b) = OpenRows(row, b)
  BY DEF OpenRows, Untouched
<1>2. Agree(row', spot', short', b)
  BY <1>1 DEF Trusted, Untouched, Agree, OpenRows
<1>3. ASSUME NEW r \in RowsOf(b)
      PROVE  /\ IsOpen(r)' => (table[r] = "open")'
             /\ (table[r] = "open" \/ r \in todo)' => OpenRows(row', b) \subseteq {r}
             /\ pc' \in Opening => row'[r] = db'[r]
             /\ pc' = "safety" /\ IsOpen(r)' => (r \in todo \/ spot[b] >= SpotMin)'
             /\ pc' = "recover" /\ IsOpen(r)' =>
                  (spot[b] >= SpotMin)' \/ \A s \in RowsOf(b) : ~IsNaked(s)'
  <2>1. \A s \in RowsOf(b) : s \in Rows /\ (IsNaked(s)' <=> IsNaked(s))
    BY RowsAre DEF BotInv, RowOK, IsNaked, Untouched
  <2>2. IsOpen(r)' <=> IsOpen(r)
    BY DEF IsOpen, Untouched
  <2>3. table'[r] = "open" => table[r] = "open"
    BY DEF Untouched, Trusted, IsOpen
  <2> QED BY <1>1, <2>1, <2>2, <2>3 DEF Trusted, Untouched, Opening, Entering, IsOpen
<1>4. pc' \in {"recover", "entry", "hedge", "sweep"} /\ b \in left' => OpenRows(row', b) = {}
  BY <1>1 DEF Trusted, Untouched, Entering
<1>5. ~(pc' = "hedge" /\ Base(entering') = b)
  BY DEF Untouched
<1> QED BY <1>2, <1>3, <1>4, <1>5 DEF Trusted

\* What is known of a base whose rows and legs agree.
LEMMA AgreeIs ==
    ASSUME NEW rows, NEW coins, NEW perps, NEW b, Agree(rows, coins, perps, b)
    PROVE  /\ coins[b] >= perps[b]
           /\ OpenRows(rows, b) = {} => perps[b] = 0
           /\ \A r \in OpenRows(rows, b) : OpenRows(rows, b) = {r} /\ rows[r].qty = perps[b]
BY DEF Agree

\* The same with the names of the state.
LEMMA TrustedIs ==
    ASSUME NEW b \in Bases, Trusted(b), ~(pc = "hedge" /\ Base(entering) = b)
    PROVE  /\ Agree(row, spot, short, b) /\ spot[b] >= short[b]
           /\ OpenRows(row, b) = {} => short[b] = 0
           /\ \A r \in RowsOf(b) : IsOpen(r) => OpenRows(row, b) = {r} /\ row[r].qty = short[b]
<1>1. Agree(row, spot, short, b)
  BY DEF Trusted
<1> QED BY <1>1, AgreeIs DEF IsOpen, OpenRows

-----------------------------------------------------------------------------
(* The cycle up to its first pass. *)

\* A bounded fault.
LEMMA FaultIs == ASSUME faults \in 0 .. MaxFaults, NEW happens, Fault(happens)
                 PROVE  faults' \in 0 .. MaxFaults
BY LegacyAssumption DEF Fault

\* What acting upon b says of it, and of the others.
LEMMA MisledIs ==
    ASSUME misled \subseteq Bases, NEW b \in Bases, NEW fault, Misled(b, fault)
    PROVE  /\ misled' \subseteq Bases
           /\ b \notin misled' => b \notin misled /\ ~fault /\ cache[b] = spot[b]
           /\ \A c \in Bases : c # b => (c \in misled' <=> c \in misled)
BY DEF Misled

\* At first.
LEMMA InitBot == Init => BotInv
<1> SUFFICES ASSUME Init PROVE BotInv
  OBVIOUS
<1>1. /\ pc = "idle" /\ todo = {} /\ left = {} /\ entering = NoEntry /\ misled = {} /\ db = row
      /\ \A r \in Rows : row[r] = NoRow /\ db[r] = NoRow /\ table[r] = "none"
  BY DEF Init
<1>2. \A r \in Rows : row[r].status = "none" /\ db[r].status = "none"
  BY <1>1, RecordIs
<1>3. /\ row \in [Rows -> Records] /\ db \in [Rows -> Records] /\ table \in [Rows -> Statuses]
  BY RecordIs DEF Init, Statuses
<1>4. /\ spot \in [Bases -> 0 .. MaxCoins] /\ short \in [Bases -> 0 .. MaxShort]
      /\ cache \in [Bases -> 0 .. MaxCoins]
  <2>1. 0 \in 0 .. MaxCoins /\ 0 \in 0 .. MaxShort
    BY AmountsAre
  <2>2. spot = [b \in Bases |-> 0] /\ short = [b \in Bases |-> 0] /\ cache = [b \in Bases |-> 0]
    BY DEF Init
  <2> QED BY <2>1, <2>2
<1>5. {unread, entries, maintenance, strategy, exitAll, hedgeCheck, elsewhere} \subseteq BOOLEAN
  BY DEF Init
<1>6. faults \in 0 .. MaxFaults
  <2>1. 0 \in 0 .. MaxFaults
    BY LegacyAssumption
  <2> QED BY <2>1 DEF Init
<1>7. TypeOK
  BY <1>1, <1>3, <1>4, <1>5, <1>6 DEF TypeOK, Passes
<1>8. ASSUME NEW b \in Bases PROVE Trusted(b)
  <2>1. OpenRows(row, b) = {} /\ spot[b] = 0 /\ short[b] = 0
    BY <1>2, RowsAre DEF OpenRows, Init
  <2> QED BY <1>1, <1>2, <2>1, RowsAre DEF Trusted, Agree, IsOpen, OpenRows
<1> QED BY <1>1, <1>2, <1>7, <1>8 DEF BotInv, RowOK, PairOK, RoomOK, HedgeOK, IsNaked, IsOpen,
           Entering

\* Steps that leave rows, legs and the place in the cycle alone.
LEMMA QuietKeeps ==
    ASSUME BotInv, TypeOK', UNCHANGED <<pc, todo, left, entering, row, table, db, spot, short, misled>>
    PROVE  BotInv'
<1>1. \A r \in Rows : RowOK(r)'
  BY DEF BotInv, RowOK, IsNaked
<1>2. \A r, s \in Rows : Base(r) = Base(s) /\ r # s => PairOK(r, s)'
  BY DEF BotInv, PairOK, IsNaked, IsOpen
<1>3. \A b \in Bases : RoomOK(b)'
  BY DEF BotInv, RoomOK, IsNaked, Unused
<1>4. HedgeOK' /\ (pc' \in NoVisits => todo' = {})
  BY DEF BotInv, HedgeOK, IsOpen
<1>5. \A b \in Bases \ misled' : Trusted(b)'
  BY DEF BotInv, Trusted, Agree, OpenRows, IsNaked, IsOpen
<1> QED BY <1>1, <1>2, <1>3, <1>4, <1>5 DEF BotInv

\* A step that changes nothing.
LEMMA StutterKeepsBot == ASSUME BotInv, UNCHANGED vars PROVE BotInv'
<1>1. TypeOK'
  BY DEF BotInv, TypeOK, vars, books, venue, copy, flags
<1> QED BY <1>1, QuietKeeps DEF vars, books, venue

\* The buttons.
LEMMA FlagsKeepBot ==
    ASSUME BotInv, NEW e \in BOOLEAN, NEW m \in BOOLEAN, NEW s \in BOOLEAN, NEW x \in BOOLEAN,
           SetFlags(e, m, s, x)
    PROVE  BotInv'
<1>1. TypeOK'
  BY DEF BotInv, TypeOK, SetFlags, books, venue, copy
<1> QED BY <1>1, QuietKeeps DEF SetFlags, books, venue

\* The switch of the hedge check.
LEMMA SwitchKeepsBot == ASSUME BotInv, SetHedgeCheck PROVE BotInv'
<1>1. TypeOK'
  BY DEF BotInv, TypeOK, SetHedgeCheck, books, venue, copy
<1> QED BY <1>1, QuietKeeps DEF SetHedgeCheck, books, venue

\* A cycle starts.
LEMMA StartCycleKeeps == ASSUME BotInv, StartCycle PROVE BotInv'
<1>1. /\ pc = "idle" /\ pc' = "rehydrate"
      /\ UNCHANGED <<todo, left, entering, row, table, db, spot, short, misled>>
  BY DEF StartCycle, books, venue
<1>2. TypeOK'
  <2>1. cache' \in [Bases -> 0 .. MaxCoins] /\ unread' \in BOOLEAN
    BY DEF StartCycle, Balances, Fetched, copy, BotInv, TypeOK
  <2> QED BY <1>1, <2>1 DEF StartCycle, flags, BotInv, TypeOK, Passes
<1>3. \A r \in Rows : RowOK(r)'
  BY <1>1 DEF BotInv, RowOK, IsNaked, Flushed
<1>4. \A r, s \in Rows : Base(r) = Base(s) /\ r # s => PairOK(r, s)'
  BY <1>1 DEF BotInv, PairOK, IsNaked, IsOpen
<1>5. HedgeOK' /\ todo' = {} /\ \A b \in Bases : RoomOK(b)'
  BY <1>1 DEF BotInv, HedgeOK, RoomOK, NoVisits, Opening, Entering
<1>6. \A b \in Bases \ misled' : Trusted(b)'
  BY <1>1 DEF BotInv, Trusted, Agree, OpenRows, IsNaked, IsOpen, Opening
<1> QED BY <1>2, <1>3, <1>4, <1>5, <1>6 DEF BotInv

\* Nothing of a trusted base is an orphan.
LEMMA NoOrphan ==
    ASSUME NEW b \in Bases, Trusted(b), pc # "hedge" PROVE b \notin Orphans
<1>1. SUFFICES ASSUME short[b] > 0, b \notin Held({"open"}) PROVE FALSE
  BY DEF Orphans
<1>2. \A r \in RowsOf(b) : table[r] # "open"
  BY <1>1, RowsAre DEF Held
<1>3. OpenRows(row, b) = {}
  BY <1>2 DEF Trusted, OpenRows, IsOpen
<1> QED BY <1>1, <1>3, TrustedIs

\* Orphans get rows, which are not flushed.
LEMMA RehydrateKeeps == ASSUME BotInv, NEW blind \in BOOLEAN, Rehydrate(blind) PROVE BotInv'
<1>1. /\ pc = "rehydrate" /\ pc' = "reconcile" /\ todo = {} /\ todo' = {} /\ entering = NoEntry
      /\ UNCHANGED <<left, entering, table, db, spot, short, cache, unread>>
      /\ misled' = misled \cup (IF blind THEN Orphans ELSE {})
      /\ row' = IF blind THEN row ELSE Rehydrated(row)
  BY DEF copy, Rehydrate, Unflushed, venue, BotInv, NoVisits, Opening, HedgeOK
<1>2. \A r \in Rows : row[r] = db[r] /\ table[r] = row[r].status /\ table[r] # "closed"
  BY <1>1 DEF BotInv, RowOK, Flushed
<1>3. ASSUME NEW r \in Rows
      PROVE  \/ row'[r] = row[r]
             \/ /\ Base(r) \in Orphans /\ r = FreeRow(Base(r))
                /\ row'[r] = [Row("open", short[Base(r)], FALSE) EXCEPT !.own = DefaultIsOwn]
  BY <1>1 DEF Rehydrated
<1>4. ASSUME NEW b \in Orphans
      PROVE  /\ b \in Bases /\ Unused(FreeRow(b)) /\ FreeRow(b) \in RowsOf(b)
             /\ \A r \in RowsOf(b) : table[r] # "open"
  <2>1. b \in Bases /\ b \notin Held({"open"})
    BY DEF Orphans
  <2>2. \A r \in RowsOf(b) : table[r] # "open"
    BY <2>1, RowsAre DEF Held
  <2>3. PICK r, s \in RowsOf(b) : r # s /\ RowsOf(b) = {r, s}
    BY <2>1, RowsAre
  <2>4. PairOK(r, s) /\ r \in Rows /\ s \in Rows
    BY <2>1, <2>3, RowsAre DEF BotInv
  <2>5. table[r] \in Statuses /\ table[s] \in Statuses
    BY <2>4 DEF BotInv, TypeOK
  <2>6. Unused(r) \/ Unused(s)
    BY <1>2, <2>2, <2>3, <2>4, <2>5 DEF PairOK, Unused, IsNaked, Statuses
  <2>7. Unused(FreeRow(b)) /\ FreeRow(b) \in RowsOf(b)
    BY <2>3, <2>6 DEF FreeRow
  <2> QED BY <2>1, <2>2, <2>7
<1>5. row' \in [Rows -> Records]
  <2>1. row \in [Rows -> Records] /\ short \in [Bases -> 0 .. MaxShort]
    BY DEF BotInv, TypeOK
  <2>2. ASSUME NEW r \in Rows
        PROVE  Row("open", short[Base(r)], FALSE) \in Records
    <3>1. short[Base(r)] \in Amounts
      BY <2>1, RowsAre, AmountsAre
    <3> QED BY <3>1, RecordOf DEF Statuses
  <2>3. \A r \in Rows : row'[r] \in Records
    BY <1>3, <2>1, <2>2, OwnIs
  <2>4. row' = row \/ row' = [r \in Rows |-> row'[r]]
    BY <1>1 DEF Rehydrated
  <2> QED BY <2>1, <2>3, <2>4
<1>6. TypeOK'
  <2>1. faults' \in 0 .. MaxFaults
    BY FaultIs DEF Rehydrate, BotInv, TypeOK
  <2>2. misled' \subseteq Bases
    BY <1>1 DEF Orphans, BotInv, TypeOK
  <2>3. UNCHANGED flags
    BY DEF Rehydrate
  <2> QED BY <1>1, <1>5, <2>1, <2>2, <2>3 DEF flags, BotInv, TypeOK, Passes
<1>7. ASSUME NEW r \in Rows
      PROVE  /\ row'[r].status = row[r].status \/ (row'[r].status = "open" /\ table[r] \in {"none", "closed"})
             /\ row'[r] # row[r] => Base(r) \in Orphans /\ r = FreeRow(Base(r))
  <2>1. CASE row'[r] = row[r]
    BY <2>1
  <2>2. CASE row'[r] # row[r]
    <3> DEFINE n == short[Base(r)]
    <3>3. /\ Base(r) \in Orphans /\ r = FreeRow(Base(r))
          /\ row'[r] = [Row("open", n, FALSE) EXCEPT !.own = DefaultIsOwn]
      BY <1>3, <2>2
    <3>5. n \in Amounts
      BY RowsAre, AmountsAre DEF BotInv, TypeOK
    <3> HIDE DEF n
    <3>4. row'[r].status = "open"
      BY <3>3 DEF Row
    <3>1. /\ Base(r) \in Orphans /\ r = FreeRow(Base(r)) /\ row'[r].status = "open"
      BY <3>3, <3>4
    <3>2. table[r] \in {"none", "closed"}
      BY <1>4, <3>1 DEF Unused
    <3> QED BY <3>1, <3>2
  <2> QED BY <2>1, <2>2
<1>8. ASSUME NEW r \in Rows PROVE RowOK(r)'
  <2>1. RowOK(r)
    BY DEF BotInv
  <2> QED BY <1>1, <1>7, <2>1 DEF RowOK, IsNaked, Flushed
<1>9. ASSUME NEW r \in Rows, NEW s \in Rows, Base(r) = Base(s), r # s PROVE PairOK(r, s)'
  <2>1. PairOK(r, s)
    BY <1>9 DEF BotInv
  <2>2. ASSUME IsOpen(r)', table[r] # "open" PROVE table[s] # "open" /\ ~IsOpen(s)'
    <3>1. row'[r] # row[r]
      BY <1>2, <2>2 DEF IsOpen
    <3>2. Base(r) \in Orphans /\ r = FreeRow(Base(r))
      BY <1>7, <3>1
    <3>3. row'[s] = row[s]
      BY <1>7, <1>9, <3>2
    <3>4. table[s] # "open"
      BY <1>4, <1>9, <3>2, RowsAre
    <3> QED BY <1>2, <3>3, <3>4 DEF IsOpen
  <2> QED BY <1>1, <2>1, <2>2 DEF PairOK, IsNaked
<1>10. HedgeOK' /\ \A b \in Bases : RoomOK(b)'
  BY <1>1 DEF HedgeOK, RoomOK, Entering
<1>11. ASSUME NEW b \in Bases \ misled' PROVE Trusted(b)'
  <2>1. Trusted(b)
    BY <1>1, <1>11 DEF BotInv
  <2>2. b \notin Orphans
    BY <1>1, <2>1, NoOrphan
  <2>3. \A r \in RowsOf(b) : row'[r] = row[r]
    BY <1>7, <2>2, RowsAre
  <2>4. OpenRows(row', b) = OpenRows(row, b)
    BY <2>3 DEF OpenRows
  <2>5. Agree(row', spot', short', b)
    BY <1>1, <2>1, <2>3, <2>4 DEF Trusted, Agree, OpenRows
  <2> QED BY <1>1, <2>1, <2>3, <2>4, <2>5 DEF Trusted, IsOpen, Opening
<1> QED BY <1>1, <1>6, <1>8, <1>9, <1>10, <1>11 DEF BotInv

\* Rows neither of whose legs is alive are closed.
LEMMA ReconcileKeeps == ASSUME BotInv, NEW blind \in BOOLEAN, Reconcile(blind) PROVE BotInv'
<1> DEFINE flat == {r \in Visible("open") : Flat(r, blind)}
<1>1. /\ pc = "reconcile" /\ pc' = "branch"
      /\ UNCHANGED <<todo, left, entering, table, db, spot, short, cache, unread, flags>>
      /\ row' = [r \in Rows |-> IF r \in flat THEN Closed(row[r]) ELSE row[r]]
      /\ misled' = misled \cup {Base(r) : r \in {q \in flat : ~Flat(q, FALSE)
                                                   \/ cache[Base(q)] # spot[Base(q)]}}
  BY DEF copy, Reconcile, Unflushed, venue
<1>2. \A r \in flat : r \in Rows /\ table[r] = "open" /\ Flat(r, blind)
  BY DEF Visible
<1> HIDE DEF flat
<1>3. ASSUME NEW r \in Rows
      PROVE  row'[r] \in Records /\ row'[r] = IF r \in flat THEN Closed(row[r]) ELSE row[r]
  BY <1>1, RecordIs DEF BotInv, TypeOK
<1>4. row' \in [Rows -> Records]
  BY <1>1, <1>3
<1>5. misled' \subseteq Bases
  <2>1. \A r \in flat : Base(r) \in Bases
    BY <1>2, RowsAre
  <2> QED BY <1>1, <2>1 DEF BotInv, TypeOK
<1>6. TypeOK'
  <2>1. faults' \in 0 .. MaxFaults
    BY FaultIs DEF Reconcile, BotInv, TypeOK
  <2> QED BY <1>1, <1>4, <1>5, <2>1 DEF flags, BotInv, TypeOK, Passes
<1>7. ASSUME NEW r \in Rows
      PROVE  \/ row'[r].status = row[r].status
             \/ row[r].status \in {"open", "closed"} /\ row'[r].status = "closed"
  <2>1. CASE r \in flat
    <3>1. row[r].status \in {"open", "closed"}
      BY <1>2, <2>1 DEF BotInv, RowOK
    <3>2. row'[r].status = "closed"
      BY <1>3, <2>1, RecordIs DEF BotInv, TypeOK
    <3> QED BY <3>1, <3>2
  <2> QED BY <1>3, <2>1
<1>8. /\ \A r \in Rows : RowOK(r)'
      /\ \A r, s \in Rows : Base(r) = Base(s) /\ r # s => PairOK(r, s)'
  BY <1>1, <1>7, UnflushedKeeps DEF Flushed
<1>9. HedgeOK' /\ todo' = {} /\ \A b \in Bases : RoomOK(b)'
  BY <1>1 DEF BotInv, HedgeOK, RoomOK, NoVisits, Opening, Entering
<1>10. ASSUME NEW b \in Bases \ misled' PROVE Trusted(b)'
  <2>1. Trusted(b)
    BY <1>1, <1>10 DEF BotInv
  <2>2. ASSUME NEW r \in RowsOf(b), r \in flat PROVE FALSE
    <3>1. r \in Rows /\ Base(r) = b
      BY RowsAre
    <3>2. Flat(r, FALSE)
      BY <1>1, <1>10, <2>2, <3>1
    <3>3. short[b] < row[r].qty
      BY <3>1, <3>2 DEF Flat
    <3>4. row[r].status \in {"open", "closed"} /\ row[r] = db[r] /\ db[r].status # "closed"
      BY <1>1, <1>2, <2>1, <2>2, <3>1 DEF BotInv, RowOK, Trusted, Opening
    <3>5. row[r].qty = short[b]
      BY <1>1, <2>1, <3>4, TrustedIs DEF IsOpen
    <3>6. short[b] \in Nat
      BY AmountsAre DEF BotInv, TypeOK
    <3> QED BY <3>3, <3>5, <3>6
  <2>3. \A r \in RowsOf(b) : row'[r] = row[r]
    BY <1>3, <2>2, RowsAre
  <2>4. OpenRows(row', b) = OpenRows(row, b)
    BY <2>3 DEF OpenRows
  <2>5. Agree(row', spot', short', b)
    BY <1>1, <2>1, <2>3, <2>4 DEF Trusted, Agree, OpenRows
  <2> QED BY <1>1, <2>1, <2>3, <2>4, <2>5 DEF Trusted, IsOpen, Opening
<1> QED BY <1>1, <1>6, <1>8, <1>9, <1>10 DEF BotInv

\* A pass starts with the rows a query finds open.
LEMMA StartPassKeeps == ASSUME BotInv, StartPass PROVE BotInv'
<1>1. /\ pc = "branch" /\ pc' \in {"maintenance", "exit_all", "safety"}
      /\ todo' \subseteq Visible("open") /\ (pc' = "safety" => todo' = Visible("open"))
      /\ UNCHANGED <<left, entering, row, table, db, spot, short, cache, unread, flags, faults, misled>>
  BY DEF copy, StartPass, NextPass, books, venue
<1>2. TypeOK'
  BY <1>1, VisibleAre DEF flags, BotInv, TypeOK, Passes
<1>3. /\ \A r \in Rows : RowOK(r)'
      /\ \A r, s \in Rows : Base(r) = Base(s) /\ r # s => PairOK(r, s)'
  BY <1>1, UnflushedKeeps DEF Flushed
<1>4. HedgeOK' /\ pc' \notin NoVisits /\ \A b \in Bases : RoomOK(b)'
  BY <1>1 DEF BotInv, HedgeOK, RoomOK, NoVisits, Opening, Entering
<1>5. ASSUME NEW b \in Bases \ misled' PROVE Trusted(b)'
  <2>1. Trusted(b)
    BY <1>1, <1>5 DEF BotInv
  <2>2. Agree(row', spot', short', b)
    BY <1>1, <2>1 DEF Trusted, Agree, OpenRows
  <2>3. \A r \in RowsOf(b) : /\ r \in todo' => table[r] = "open"
                             /\ pc' = "safety" => (r \in todo' <=> table[r] = "open")
    BY <1>1, RowsAre DEF Visible
  <2> QED BY <1>1, <2>1, <2>2, <2>3 DEF Trusted, IsOpen, Opening, OpenRows
<1> QED BY <1>2, <1>3, <1>4, <1>5 DEF BotInv

-----------------------------------------------------------------------------
(* Sessions that end. *)

\* What a commit keeps of the rows.
LEMMA KeptIs ==
    ASSUME NEW rows \in [Rows -> Records]
    PROVE  /\ Kept(rows) \in [Rows -> Records]
           /\ \A r \in Rows : /\ Kept(rows)[r].status # "closed"
                              /\ rows[r].status # "closed" => Kept(rows)[r] = rows[r]
                              /\ \A s \in {"open", "naked_spot"} :
                                   Kept(rows)[r].status = s <=> rows[r].status = s
           /\ \A b \in Bases : OpenRows(Kept(rows), b) = OpenRows(rows, b)
           /\ \A coins, perps : \A b \in Bases : Agree(Kept(rows), coins, perps, b) <=> Agree(rows, coins, perps, b)
<1>1. \A r \in Rows : Kept(rows)[r] = IF rows[r].status = "closed" THEN NoRow ELSE rows[r]
  BY DEF Kept
<1>2. Kept(rows) \in [Rows -> Records]
  BY RecordIs DEF Kept
<1>3. \A r \in Rows : /\ Kept(rows)[r].status # "closed"
                      /\ rows[r].status # "closed" => Kept(rows)[r] = rows[r]
                      /\ \A s \in {"open", "naked_spot"} :
                           Kept(rows)[r].status = s <=> rows[r].status = s
  BY <1>1, RecordIs
<1>4. ASSUME NEW b \in Bases PROVE OpenRows(Kept(rows), b) = OpenRows(rows, b)
  BY <1>3, RowsAre DEF OpenRows
<1>5. ASSUME NEW b \in Bases, NEW coins, NEW perps
      PROVE  Agree(Kept(rows), coins, perps, b) <=> Agree(rows, coins, perps, b)
  <2>1. \A r \in OpenRows(rows, b) : Kept(rows)[r] = rows[r]
    BY <1>3, RowsAre DEF OpenRows
  <2> QED BY <1>4, <2>1 DEF Agree
<1> QED BY <1>2, <1>3, <1>4, <1>5

\* At most one row of a base is naked.
LEMMA OneNaked ==
    ASSUME BotInv
    PROVE  \A r, s \in Rows : Base(r) = Base(s) /\ r # s =>
              /\ ~(row[r].status = "naked_spot" /\ row[s].status = "naked_spot")
              /\ ~(db[r].status = "naked_spot" /\ db[s].status = "naked_spot")
BY DEF BotInv, RowOK, PairOK

\* A base whose rows are those of the database, and agree with the legs.
LEMMA SettledTrusted ==
    ASSUME NEW b \in Bases, row' = db', \A r \in Rows : table'[r] = row'[r].status,
           Agree(row', spot', short', b),
           \/ pc' = "idle" /\ todo' = {}
           \/ pc' = "safety" /\ todo' = {r \in Rows : table'[r] = "open"}
    PROVE  Trusted(b)'
<1>1. \A r \in RowsOf(b) : r \in Rows /\ (row'[r].status = "open" => OpenRows(row', b) = {r})
  BY AgreeIs, RowsAre DEF OpenRows
<1> QED BY <1>1 DEF Trusted, IsOpen, Opening

\* A session that ends leaves the rows of the database.
LEMMA SettledKeeps ==
    ASSUME BotInv, TypeOK', row' = db', table' = Status(row'), entering' = NoEntry,
           \A r \in Rows : row'[r].status # "closed",
           \A r, s \in Rows : Base(r) = Base(s) /\ r # s =>
                ~(row'[r].status = "naked_spot" /\ row'[s].status = "naked_spot"),
           \/ pc' = "idle" /\ todo' = {}
           \/ pc' = "safety" /\ todo' = {r \in Rows : table'[r] = "open"},
           \A b \in Bases \ misled' : Agree(row', spot', short', b)
    PROVE  BotInv'
<1>0. \A r \in Rows : table'[r] = row'[r].status
  BY DEF Status
<1>1. /\ \A r \in Rows : RowOK(r)'
      /\ \A r, s \in Rows : Base(r) = Base(s) /\ r # s => PairOK(r, s)'
  <2>1. \A r \in todo' : r \in Rows /\ row'[r].status = "open"
    BY <1>0
  <2> QED BY <2>1, SyncKeeps
<1>2. HedgeOK' /\ (pc' \in NoVisits => todo' = {}) /\ \A b \in Bases : RoomOK(b)'
  BY DEF HedgeOK, RoomOK, NoVisits, Opening, Entering
<1>3. \A b \in Bases \ misled' : Trusted(b)'
  BY <1>0, SettledTrusted
<1> QED BY <1>1, <1>2, <1>3 DEF BotInv

\* The status of rows.
LEMMA StatusIs == \A rows \in [Rows -> Records] : Status(rows) \in [Rows -> Statuses]
BY RecordIs DEF Status

\* The commit of a cycle.
LEMMA CommitKeeps ==
    ASSUME BotInv, Commit(row), pc # "hedge", UNCHANGED <<spot, short, cache, unread, faults, hedgeCheck, elsewhere>>,
           entering' = entering, left' = left,
           {entries', maintenance', strategy', exitAll'} \subseteq BOOLEAN,
           \/ pc' = "idle" /\ todo' = {}
           \/ pc' = "safety" /\ todo' = {r \in Rows : table'[r] = "open"}
    PROVE  BotInv'
<1>1. row \in [Rows -> Records] /\ misled \subseteq Bases
  BY DEF BotInv, TypeOK
<1>2. /\ row' = Kept(row) /\ db' = row' /\ table' = Status(row')
      /\ misled' = {b \in misled : ~Agree(row', spot, short, b)}
  BY DEF Commit, Committed
<1>3. entering' = NoEntry
  BY DEF BotInv, HedgeOK
<1>4. TypeOK'
  <2>1. row' \in [Rows -> Records] /\ db' \in [Rows -> Records] /\ table' \in [Rows -> Statuses]
    BY <1>1, <1>2, KeptIs, StatusIs
  <2>2. todo' \subseteq Rows /\ pc' \in Passes /\ misled' \subseteq Bases
    BY <1>1, <1>2 DEF Passes
  <2> QED BY <1>2, <1>3, <2>1, <2>2 DEF BotInv, TypeOK
<1>5. \A r \in Rows : row'[r].status # "closed"
  BY <1>1, <1>2, KeptIs
<1>6. \A r, s \in Rows : Base(r) = Base(s) /\ r # s =>
                ~(row'[r].status = "naked_spot" /\ row'[s].status = "naked_spot")
  BY <1>1, <1>2, KeptIs, OneNaked
<1>7. ASSUME NEW b \in Bases \ misled' PROVE Agree(row', spot', short', b)
  <2>1. CASE b \in misled
    <3>1. Agree(row', spot, short, b)
      BY <1>2, <1>7, <2>1
    <3> QED BY <3>1 DEF Agree
  <2>2. CASE b \notin misled
    <3>1. Agree(row, spot, short, b)
      BY <2>2 DEF BotInv, Trusted
    <3>2. Agree(Kept(row), spot, short, b)
      BY <1>1, <3>1, KeptIs
    <3> QED BY <1>2, <3>2 DEF Agree
  <2> QED BY <2>1, <2>2
<1> QED BY <1>2, <1>3, <1>4, <1>5, <1>6, <1>7, SettledKeeps

\* The commits of a cycle, at the end of a pass.
LEMMA EndsKeepBot == ASSUME BotInv, EndMaintenance \/ EndExitAll \/ EndCycle PROVE BotInv'
<1>1. Commit(row) /\ pc # "hedge" /\ entering' = entering /\ left' = left
  BY DEF EndMaintenance, EndExitAll, EndCycle
<1>2. UNCHANGED <<spot, short, cache, unread, faults, hedgeCheck, elsewhere>>
  BY DEF copy, EndMaintenance, EndExitAll, EndCycle, venue, flags
<1>3. {entries', maintenance', strategy', exitAll'} \subseteq BOOLEAN
  BY DEF EndMaintenance, EndExitAll, EndCycle, flags, BotInv, TypeOK
<1>4. \/ pc' = "idle" /\ todo' = {}
      \/ pc' = "safety" /\ todo' = {r \in Rows : table'[r] = "open"}
  BY DEF EndMaintenance, EndExitAll, EndCycle, BotInv, NoVisits
<1> QED BY <1>1, <1>2, <1>3, <1>4, CommitKeeps

\* The session is left uncommitted, or rolled back.
LEMMA RollsBackKeep == ASSUME BotInv, ReturnEarly \/ Abort PROVE BotInv'
<1>1. row' = db /\ db' = db /\ table' = Status(db) /\ UNCHANGED <<spot, short, cache, unread, flags>>
  BY DEF copy, ReturnEarly, Abort, venue
<1>2. pc' = "idle" /\ todo' = {} /\ left' \subseteq Bases /\ entering' = NoEntry
  BY DEF ReturnEarly, Abort, BotInv, TypeOK, NoVisits, Opening, HedgeOK
<1>3. /\ misled' \subseteq Bases /\ faults' \in 0 .. MaxFaults
      /\ \A b \in Bases \ misled' : Agree(db, spot, short, b)
  <2>1. CASE ReturnEarly
    <3>1. pc = "branch" /\ UNCHANGED <<misled, faults>>
      BY <2>1 DEF ReturnEarly
    <3>2. ASSUME NEW b \in Bases \ misled PROVE Agree(db, spot, short, b)
      <4>1. Trusted(b)
        BY DEF BotInv
      <4>2. Agree(row, spot, short, b) /\ \A r \in RowsOf(b) : row[r] = db[r]
        BY <3>1, <4>1 DEF Trusted, Opening
      <4>3. OpenRows(row, b) = OpenRows(db, b)
        BY <4>2 DEF OpenRows
      <4> QED BY <4>2, <4>3 DEF Agree, OpenRows
    <3> QED BY <3>1, <3>2 DEF BotInv, TypeOK
  <2>2. CASE Abort
    <3>1. misled' = misled \cup {b \in Bases : ~Agree(db, spot, short, b)} /\ Fault(TRUE)
      BY <2>2 DEF Abort
    <3>2. faults' \in 0 .. MaxFaults
      BY <3>1, FaultIs DEF BotInv, TypeOK
    <3> QED BY <3>1, <3>2 DEF BotInv, TypeOK
  <2> QED BY <2>1, <2>2
<1>4. TypeOK'
  BY <1>1, <1>2, <1>3, StatusIs DEF flags, BotInv, TypeOK, Passes
<1>5. \A r \in Rows : row'[r].status # "closed"
  BY <1>1 DEF BotInv, RowOK
<1>6. \A r, s \in Rows : Base(r) = Base(s) /\ r # s =>
                ~(row'[r].status = "naked_spot" /\ row'[s].status = "naked_spot")
  BY <1>1, OneNaked
<1>7. \A b \in Bases \ misled' : Agree(row', spot', short', b)
  BY <1>1, <1>3 DEF Agree
<1> QED BY <1>1, <1>2, <1>4, <1>5, <1>6, <1>7, SettledKeeps

-----------------------------------------------------------------------------
(* Closing. *)

\* A base without an open row, when no pass opens.
LEMMA NoOpenTrusted ==
    ASSUME NEW b \in Bases, Agree(row', spot', short', b), OpenRows(row', b) = {},
           pc' \notin Opening, pc' = "hedge" => Base(entering') # b
    PROVE  Trusted(b)'
BY DEF Trusted, OpenRows, IsOpen

\* The steps of a pass that close a row, or let it be.
LEMMA VisitKeeps ==
    ASSUME BotInv, TypeOK', NEW r \in Rows, r \in todo, pc' = pc, Done(r), Unflushed(row'),
           pc \in {"maintenance", "exit_all", "safety", "exits"},
           \A s \in Rows : s # r => row'[s] = row[s],
           row'[r].status \in {row[r].status, "closed"},
           \A c \in Bases : c # Base(r) => /\ spot'[c] = spot[c] /\ short'[c] = short[c]
                                           /\ c \in misled' <=> c \in misled,
           UNCHANGED <<left, entering>>,
           Base(r) \notin misled' => Trusted(Base(r))'
    PROVE  BotInv'
<1>1. todo' = todo \ {r} /\ UNCHANGED <<table, db>>
  BY DEF Done, Unflushed
<1>2. row[r].status \in {"open", "closed"} /\ pc' \notin Flushed
  BY DEF BotInv, RowOK, Flushed
<1>3. /\ \A s \in Rows : RowOK(s)'
      /\ \A s, t \in Rows : Base(s) = Base(t) /\ s # t => PairOK(s, t)'
  <2>1. \A s \in Rows : \/ row'[s].status = row[s].status
                        \/ row[s].status \in {"open", "closed"} /\ row'[s].status = "closed"
    BY <1>2
  <2> QED BY <1>1, <1>2, <2>1, UnflushedKeeps
<1>4. HedgeOK' /\ pc' \notin NoVisits /\ \A b \in Bases : RoomOK(b)'
  BY DEF BotInv, HedgeOK, RoomOK, NoVisits, Opening, Entering
<1>5. ASSUME NEW b \in Bases \ misled', b # Base(r) PROVE Trusted(b)'
  <2>1. Trusted(b)
    BY <1>5 DEF BotInv
  <2>2. Untouched(b)
    BY <1>1, <1>5, RowsAre DEF Untouched
  <2> QED BY <2>1, <2>2, UntouchedTrusted
<1> QED BY <1>3, <1>4, <1>5 DEF BotInv

\* A position is held.
LEMMA HoldKeeps == ASSUME BotInv, NEW r \in Rows, Hold(r) PROVE BotInv'
<1>1. /\ pc = "exits" /\ pc' = pc /\ r \in todo /\ Done(r) /\ Unflushed(row')
      /\ UNCHANGED <<left, entering, row, table, db, spot, short, cache, unread, flags, faults, misled>>
  BY DEF copy, Hold, books, venue, Unflushed
<1>2. TypeOK'
  BY <1>1 DEF Done, flags, BotInv, TypeOK
<1>3. ASSUME Base(r) \notin misled' PROVE Trusted(Base(r))'
  <2>1. Base(r) \in Bases
    BY RowsAre
  <2>2. Trusted(Base(r))
    BY <1>1, <1>3, <2>1 DEF BotInv
  <2>3. Agree(row', spot', short', Base(r))
    BY <1>1, <2>2 DEF Trusted, Agree, OpenRows
  <2> QED BY <1>1, <2>2, <2>3 DEF Trusted, Done, IsOpen, Opening
<1> QED BY <1>1, <1>2, <1>3, VisitKeeps

\* A row and the legs of its base once it is acted upon.
LEMMA RowIs ==
    ASSUME TypeOK, NEW r \in Rows
    PROVE  /\ row[r] \in Records /\ row[r].qty \in Nat /\ Base(r) \in Bases
           /\ spot[Base(r)] \in 0 .. MaxCoins /\ cache[Base(r)] \in 0 .. MaxCoins
           /\ short[Base(r)] \in 0 .. MaxShort
           /\ spot[Base(r)] \in Nat /\ cache[Base(r)] \in Nat /\ short[Base(r)] \in Nat
<1>1. Base(r) \in Bases
  BY RowsAre
<1>2. row[r] \in Records /\ row[r].qty \in Nat
  BY RecordIs, AmountsAre DEF TypeOK
<1> QED BY <1>1, <1>2, AmountsAre DEF TypeOK

\* The legs after an amount of each is gone.
LEMMA LegsAre ==
    ASSUME TypeOK, NEW b \in Bases, NEW m \in Int, NEW n \in Int,
           0 <= spot[b] + m, spot[b] + m <= MaxCoins, 0 <= short[b] + n, short[b] + n <= MaxShort,
           spot' = [spot EXCEPT ![b] = spot[b] + m], short' = [short EXCEPT ![b] = short[b] + n]
    PROVE  /\ spot' \in [Bases -> 0 .. MaxCoins] /\ short' \in [Bases -> 0 .. MaxShort]
           /\ spot'[b] = spot[b] + m /\ short'[b] = short[b] + n
           /\ \A c \in Bases : c # b => spot'[c] = spot[c] /\ short'[c] = short[c]
<1>1. spot \in [Bases -> 0 .. MaxCoins] /\ short \in [Bases -> 0 .. MaxShort]
  BY DEF TypeOK
<1>2. spot[b] \in Int /\ short[b] \in Int
  BY <1>1
<1>3. spot[b] + m \in 0 .. MaxCoins /\ short[b] + n \in 0 .. MaxShort
  BY <1>2, AmountsAre
<1> QED BY <1>1, <1>3

\* The two orders that close a position, however they end.
LEMMA ForceCloseIs ==
    ASSUME TypeOK, NEW r \in Rows, NEW how \in Endings, ForceClose(r, how)
    PROVE  LET after == AfterForceClose(r, how)
               b == Base(r)
           IN  /\ spot' \in [Bases -> 0 .. MaxCoins] /\ short' \in [Bases -> 0 .. MaxShort]
               /\ \A c \in Bases : c # b => /\ spot'[c] = spot[c] /\ short'[c] = short[c]
                                            /\ c \in misled' <=> c \in misled
               /\ misled' \subseteq Bases /\ faults' \in 0 .. MaxFaults
               /\ after \in [Rows -> Records] /\ \A s \in Rows : s # r => after[s] = row[s]
               /\ after[r] \in {row[r], Closed(row[r])}
               /\ b \notin misled' => /\ b \notin misled /\ after[r].status = "closed"
                                      /\ short'[b] = short[b] - Least(row[r].qty, short[b])
<1> DEFINE b == Base(r)
           spotQty == SpotToClose(r)
           perpQty == IF how = "blind" THEN 0 ELSE Least(row[r].qty, short[b])
           sold == SpotCloses(r, how)
           after == AfterForceClose(r, how)
           m == IF sold \/ how = "spot lost" THEN spotQty ELSE 0
           n == IF sold /\ how # "perp fails" THEN perpQty ELSE 0
<1>1. /\ row[r] \in Records /\ row[r].qty \in Nat /\ b \in Bases
      /\ spot[b] \in 0 .. MaxCoins /\ cache[b] \in 0 .. MaxCoins /\ short[b] \in 0 .. MaxShort
      /\ spot[b] \in Nat /\ cache[b] \in Nat /\ short[b] \in Nat
      /\ row \in [Rows -> Records] /\ misled \subseteq Bases
  BY RowIs DEF TypeOK
<1>2. spotQty \in Nat /\ perpQty \in Nat /\ perpQty <= short[b]
  BY <1>1, AmountsAre DEF SpotToClose, Tradable, Least
<1>3. m \in Nat /\ m <= spot[b] /\ n \in Nat /\ n <= short[b]
  <2>1. (sold => spotQty <= spot[b]) /\ (how = "spot lost" => spotQty <= spot[b])
    BY DEF ForceClose, SpotCloses
  <2> HIDE DEF spotQty, perpQty, sold
  <2>2. m \in {0, spotQty} /\ n \in {0, perpQty} /\ (m # 0 => sold \/ how = "spot lost")
    OBVIOUS
  <2> HIDE DEF m, n
  <2>3. m = 0 \/ (m = spotQty /\ spotQty <= spot[b])
    BY <2>1, <2>2
  <2>4. spot[b] \in Nat /\ short[b] \in Nat
    BY <1>1
  <2> HIDE DEF b
  <2>5. m \in Nat /\ m <= spot[b]
    BY <1>2, <2>3, <2>4
  <2>6. n \in Nat /\ n <= short[b]
    <3>1. perpQty \in Nat /\ perpQty <= short[b]
      BY <1>2
    <3>2. n = 0 \/ n = perpQty
      BY <2>2
    <3> QED BY <2>4, <3>1, <3>2
  <2> QED BY <2>5, <2>6
<1>4. /\ spot' = [spot EXCEPT ![b] = spot[b] - m]
      /\ short' = [short EXCEPT ![b] = short[b] - n]
  <2> HIDE DEF b, spotQty, perpQty, sold
  <2>1. /\ spot' = [spot EXCEPT ![b] = IF sold \/ how = "spot lost" THEN @ - spotQty ELSE @]
        /\ short' = [short EXCEPT ![b] = IF sold /\ how # "perp fails" THEN @ - perpQty ELSE @]
    BY DEF ForceClose, b, spotQty, perpQty, sold
  <2>2. /\ (IF sold \/ how = "spot lost" THEN spot[b] - spotQty ELSE spot[b]) = spot[b] - m
        /\ (IF sold /\ how # "perp fails" THEN short[b] - perpQty ELSE short[b]) = short[b] - n
    <3>1. spot[b] - 0 = spot[b] /\ short[b] - 0 = short[b]
      BY <1>1
    <3>2. CASE sold \/ how = "spot lost"
      BY <3>1, <3>2
    <3>3. CASE ~(sold \/ how = "spot lost")
      BY <3>1, <3>3
    <3> QED BY <3>2, <3>3
  <2> QED BY <2>1, <2>2
<1>5. /\ spot' \in [Bases -> 0 .. MaxCoins] /\ short' \in [Bases -> 0 .. MaxShort]
      /\ short'[b] = short[b] - n
      /\ \A c \in Bases : c # b => spot'[c] = spot[c] /\ short'[c] = short[c]
  <2> HIDE DEF b, m, n
  <2>1. /\ spot[b] + (-m) = spot[b] - m /\ short[b] + (-n) = short[b] - n
        /\ -m \in Int /\ -n \in Int
    BY <1>1, <1>3
  <2>2. /\ 0 <= spot[b] + (-m) /\ spot[b] + (-m) <= MaxCoins
        /\ 0 <= short[b] + (-n) /\ short[b] + (-n) <= MaxShort
    BY <1>1, <1>3, AmountsAre
  <2>3. /\ spot' = [spot EXCEPT ![b] = spot[b] + (-m)]
        /\ short' = [short EXCEPT ![b] = short[b] + (-n)]
    BY <1>4, <2>1
  <2> QED BY <1>1, <2>1, <2>2, <2>3, LegsAre
<1>6. /\ after \in [Rows -> Records] /\ \A s \in Rows : s # r => after[s] = row[s]
      /\ after[r] \in {row[r], Closed(row[r])}
  BY <1>1, RecordIs DEF AfterForceClose
<1>7. Misled(b, how # "done") /\ Fault(how # "done")
  BY DEF ForceClose
<1>8. /\ misled' \subseteq Bases
      /\ b \notin misled' => b \notin misled /\ ~(how # "done") /\ cache[b] = spot[b]
      /\ \A c \in Bases : c # b => (c \in misled' <=> c \in misled)
  <2> HIDE DEF b
  <2> QED BY <1>1, <1>7, MisledIs
<1>9. faults' \in 0 .. MaxFaults
  BY <1>7, FaultIs DEF TypeOK
<1>10. ASSUME b \notin misled'
       PROVE  /\ b \notin misled /\ after[r].status = "closed"
              /\ short'[b] = short[b] - Least(row[r].qty, short[b])
  <2>1. how = "done" /\ cache[b] = spot[b] /\ b \notin misled
    BY <1>8, <1>10
  <2>2. spotQty <= spot[b]
    BY <1>1, <2>1, AmountsAre DEF SpotToClose, Tradable, Least
  <2>3. sold
    BY <2>1, <2>2 DEF SpotCloses
  <2>4. after[r] = Closed(row[r])
    BY <1>1, <2>1, <2>3 DEF AfterForceClose
  <2>5. n = Least(row[r].qty, short[b])
    BY <2>1, <2>3
  <2> QED BY <1>1, <1>5, <2>1, <2>4, <2>5, RecordIs
<1> QED BY <1>5, <1>6, <1>8, <1>9, <1>10

\* The position of a trusted base is closed as a whole.
LEMMA ForceCloseAgrees ==
    ASSUME TypeOK, NEW r \in Rows, NEW after, Trusted(Base(r)),
           ~(pc = "hedge" /\ Base(entering) = Base(r)),
           row[r].status \in {"open", "closed"}, OpenRows(row, Base(r)) \subseteq {r},
           \A s \in Rows : s # r => after[s] = row[s],
           after[r].status = "closed",
           spot'[Base(r)] \in Nat, short'[Base(r)] = short[Base(r)] - Least(row[r].qty, short[Base(r)])
    PROVE  OpenRows(after, Base(r)) = {} /\ Agree(after, spot', short', Base(r))
<1> DEFINE b == Base(r)
<1>1. b \in Bases /\ r \in RowsOf(b) /\ short[b] \in Nat /\ row[r].qty \in Nat
  BY RowIs, RowsAre
<1>2. OpenRows(after, b) = {}
  <2>1. \A s \in RowsOf(b) : s # r => after[s].status # "open"
    BY RowsAre, <1>1 DEF OpenRows
  <2> QED BY <2>1 DEF OpenRows
<1>3. short'[b] = 0
  <2>1. CASE row[r].status = "open"
    <3>1. row[r].qty = short[b]
      BY <1>1, <2>1, TrustedIs DEF IsOpen
    <3> QED BY <1>1, <3>1 DEF Least
  <2>2. CASE row[r].status = "closed"
    <3>1. OpenRows(row, b) = {}
      BY <2>2 DEF OpenRows
    <3>2. short[b] = 0
      BY <1>1, <3>1, TrustedIs
    <3> QED BY <1>1, <3>2 DEF Least
  <2> QED BY <2>1, <2>2
<1> QED BY <1>2, <1>3 DEF Agree

\* A position is closed in a pass.
LEMMA CloseBothKeeps == ASSUME BotInv, NEW r \in Rows, NEW how \in Endings, CloseBoth(r, how)
                        PROVE  BotInv'
<1> DEFINE after == AfterForceClose(r, how)
           b == Base(r)
<1>1. /\ pc \in {"maintenance", "exit_all", "safety", "exits"} /\ r \in todo
      /\ row' = after /\ Unflushed(row') /\ Done(r)
      /\ UNCHANGED <<pc, left, entering, table, db, cache, unread, flags>>
  BY DEF copy, CloseBoth, Unflushed
<1>2. /\ spot' \in [Bases -> 0 .. MaxCoins] /\ short' \in [Bases -> 0 .. MaxShort]
      /\ \A c \in Bases : c # b => /\ spot'[c] = spot[c] /\ short'[c] = short[c]
                                   /\ c \in misled' <=> c \in misled
      /\ misled' \subseteq Bases /\ faults' \in 0 .. MaxFaults
      /\ after \in [Rows -> Records] /\ \A s \in Rows : s # r => after[s] = row[s]
      /\ after[r] \in {row[r], Closed(row[r])}
      /\ b \notin misled' => /\ b \notin misled /\ after[r].status = "closed"
                             /\ short'[b] = short[b] - Least(row[r].qty, short[b])
  BY ForceCloseIs DEF CloseBoth, BotInv
<1> HIDE DEF after
<1>3. TypeOK'
  BY <1>1, <1>2 DEF Done, flags, BotInv, TypeOK
<1>4. row'[r].status \in {row[r].status, "closed"}
  BY <1>1, <1>2, RecordIs DEF BotInv, TypeOK
<1>5. ASSUME b \notin misled' PROVE Trusted(b)'
  <2>1. b \in Bases /\ Trusted(b) /\ spot'[b] \in Nat /\ r \in RowsOf(b)
    BY <1>2, <1>5, RowsAre, AmountsAre DEF BotInv
  <2>2. row[r].status \in {"open", "closed"} /\ OpenRows(row, b) \subseteq {r}
    BY <1>1, <2>1 DEF BotInv, RowOK, Trusted
  <2>3. OpenRows(after, b) = {} /\ Agree(after, spot', short', b)
    BY <1>1, <1>2, <1>5, <2>1, <2>2, ForceCloseAgrees DEF BotInv
  <2> QED BY <1>1, <2>1, <2>3, NoOpenTrusted DEF Opening
<1> QED BY <1>1, <1>2, <1>3, <1>4, <1>5, VisitKeeps

\* The operator closes a position between two cycles.
LEMMA ManualCloseKeeps ==
    ASSUME BotInv, NEW r \in Rows, NEW how \in Endings, ManualClose(r, how) PROVE BotInv'
<1> DEFINE after == AfterForceClose(r, how)
           b == Base(r)
<1>1. /\ pc = "idle" /\ pc' = "idle" /\ todo = {} /\ todo' = {} /\ entering' = NoEntry
      /\ row = db /\ row[r].status = "open"
      /\ row' = Kept(after) /\ db' = row' /\ table' = Status(row')
      /\ UNCHANGED <<left, cache, unread, flags>>
  BY DEF copy, ManualClose, Committed, BotInv, TypeOK, NoVisits, Opening
<1>2. /\ spot' \in [Bases -> 0 .. MaxCoins] /\ short' \in [Bases -> 0 .. MaxShort]
      /\ \A c \in Bases : c # b => /\ spot'[c] = spot[c] /\ short'[c] = short[c]
                                   /\ c \in misled' <=> c \in misled
      /\ misled' \subseteq Bases /\ faults' \in 0 .. MaxFaults
      /\ after \in [Rows -> Records] /\ \A s \in Rows : s # r => after[s] = row[s]
      /\ after[r] \in {row[r], Closed(row[r])}
      /\ b \notin misled' => /\ b \notin misled /\ after[r].status = "closed"
                             /\ short'[b] = short[b] - Least(row[r].qty, short[b])
  BY ForceCloseIs DEF ManualClose, BotInv
<1> HIDE DEF after
<1>3. TypeOK'
  <2>1. row' \in [Rows -> Records] /\ db' \in [Rows -> Records] /\ table' \in [Rows -> Statuses]
    BY <1>1, <1>2, KeptIs, StatusIs
  <2> QED BY <1>1, <1>2, <2>1 DEF flags, BotInv, TypeOK
<1>4. \A s \in Rows : row'[s].status # "closed"
  BY <1>1, <1>2, KeptIs
<1>5. \A s, t \in Rows : Base(s) = Base(t) /\ s # t =>
                ~(row'[s].status = "naked_spot" /\ row'[t].status = "naked_spot")
  <2>1. \A s \in Rows : row'[s].status = "naked_spot" => row[s].status = "naked_spot"
    <3>1. after[r].status \in {"open", "closed"}
      BY <1>1, <1>2, RecordIs DEF BotInv, TypeOK
    <3> QED BY <1>1, <1>2, <3>1, KeptIs
  <2> QED BY <2>1, OneNaked
<1>6. ASSUME NEW c \in Bases \ misled' PROVE Agree(row', spot', short', c)
  <2>1. CASE c = b
    <3>1. b \in Bases /\ Trusted(b) /\ spot'[b] \in Nat /\ r \in RowsOf(b)
      BY <1>2, <1>6, <2>1, RowsAre, AmountsAre DEF BotInv
    <3>2. OpenRows(row, b) \subseteq {r}
      BY <1>1, <3>1 DEF Trusted, IsOpen
    <3>3. Agree(after, spot', short', b)
      BY <1>1, <1>2, <1>6, <2>1, <3>1, <3>2, ForceCloseAgrees DEF BotInv
    <3> QED BY <1>1, <1>2, <2>1, <3>3, KeptIs
  <2>2. CASE c # b
    <3>1. Agree(row, spot, short, c)
      BY <1>1, <1>2, <1>6, <2>2 DEF BotInv, Trusted
    <3>2. \A s \in RowsOf(c) : after[s] = row[s]
      BY <1>2, <2>2, RowsAre
    <3>3. OpenRows(after, c) = OpenRows(row, c)
      BY <3>2 DEF OpenRows
    <3>4. Agree(after, spot', short', c)
      BY <1>2, <2>2, <3>1, <3>2, <3>3 DEF Agree, OpenRows
    <3> QED BY <1>1, <1>2, <3>4, KeptIs
  <2> QED BY <2>1, <2>2
<1> QED BY <1>1, <1>3, <1>4, <1>5, <1>6, SettledKeeps

\* The leg that is left is closed, however that ends.
LEMMA CloseNakedIs ==
    ASSUME TypeOK, NEW r \in Rows, NEW how, NEW surviving \in {"spot", "perp", "none"},
           CloseNaked(r, how, surviving)
    PROVE  LET b == Base(r)
           IN  /\ spot' \in [Bases -> 0 .. MaxCoins] /\ short' \in [Bases -> 0 .. MaxShort]
               /\ \A c \in Bases : c # b => spot'[c] = spot[c] /\ short'[c] = short[c]
               /\ row' \in [Rows -> Records] /\ \A s \in Rows : s # r => row'[s] = row[s]
               /\ row'[r].status \in {row[r].status, "closed"} /\ Unflushed(row')
               /\ surviving # "perp" => short'[b] = short[b]
               /\ how = "done" /\ surviving = "perp" =>
                    /\ short'[b] = short[b] - Least(row[r].qty, short[b])
                    /\ row'[r].status = "closed"
<1> DEFINE b == Base(r)
           qty == Least(row[r].qty, Survivor(b, surviving))
           executed == how # "leg fails" /\ (surviving = "spot" => qty <= spot[b])
           m == IF surviving = "spot" /\ executed THEN qty ELSE 0
           n == IF surviving = "perp" /\ executed THEN qty ELSE 0
<1>1. /\ row[r] \in Records /\ row[r].qty \in Nat /\ b \in Bases
      /\ spot[b] \in 0 .. MaxCoins /\ cache[b] \in 0 .. MaxCoins /\ short[b] \in 0 .. MaxShort
      /\ spot[b] \in Nat /\ cache[b] \in Nat /\ short[b] \in Nat
      /\ row \in [Rows -> Records] /\ misled \subseteq Bases
  BY RowIs DEF TypeOK
<1>2. qty \in Nat /\ (surviving = "perp" => qty <= short[b] /\ qty = Least(row[r].qty, short[b]))
  BY <1>1 DEF Survivor, Least
<1>3. /\ spot' = [spot EXCEPT ![b] = IF surviving = "spot" /\ executed THEN @ - qty ELSE @]
      /\ short' = [short EXCEPT ![b] = IF surviving = "perp" /\ executed THEN @ - qty ELSE @]
  BY DEF CloseNaked
<1>4. Unflushed(row') /\ row' \in {row, [row EXCEPT ![r] = Closed(@)]}
  BY DEF CloseNaked, Unflushed
<1>5. how = "done" /\ surviving = "perp" => executed /\ row' = [row EXCEPT ![r] = Closed(@)]
  BY DEF CloseNaked, Unflushed
<1>6. row' \in [Rows -> Records] /\ \A s \in Rows : s # r => row'[s] = row[s]
  BY <1>1, <1>4, RecordIs
<1>7. row'[r].status \in {row[r].status, "closed"}
  BY <1>1, <1>4, RecordIs
<1>8. executed /\ surviving = "spot" => qty <= spot[b]
  OBVIOUS
<1> HIDE DEF executed, qty
<1>9. m \in Nat /\ m <= spot[b]
  <2>1. CASE surviving = "spot" /\ executed
    BY <1>1, <1>2, <1>8, <2>1
  <2>2. CASE ~(surviving = "spot" /\ executed)
    BY <1>1, <2>2
  <2> QED BY <2>1, <2>2
<1>10. n \in Nat /\ n <= short[b]
  <2>1. CASE surviving = "perp" /\ executed
    BY <1>1, <1>2, <2>1
  <2>2. CASE ~(surviving = "perp" /\ executed)
    BY <1>1, <2>2
  <2> QED BY <2>1, <2>2
<1>11. /\ spot' = [spot EXCEPT ![b] = spot[b] + (-m)]
       /\ short' = [short EXCEPT ![b] = short[b] + (-n)]
  <2>1. spot[b] - 0 = spot[b] /\ short[b] - 0 = short[b]
    BY <1>1
  <2>2. (IF surviving = "spot" /\ executed THEN spot[b] - qty ELSE spot[b]) = spot[b] + (-m)
    <3>1. CASE surviving = "spot" /\ executed
      BY <1>1, <1>2, <3>1
    <3>2. CASE ~(surviving = "spot" /\ executed)
      BY <1>1, <3>2
    <3> QED BY <3>1, <3>2
  <2>3. (IF surviving = "perp" /\ executed THEN short[b] - qty ELSE short[b]) = short[b] + (-n)
    <3>1. CASE surviving = "perp" /\ executed
      BY <1>1, <1>2, <3>1
    <3>2. CASE ~(surviving = "perp" /\ executed)
      BY <1>1, <3>2
    <3> QED BY <3>1, <3>2
  <2> QED BY <1>3, <2>2, <2>3
<1>12. surviving # "perp" => n = 0
  OBVIOUS
<1>13. how = "done" /\ surviving = "perp" => n = Least(row[r].qty, short[b])
  BY <1>2, <1>5
<1> HIDE DEF b, m, n
<1>14. /\ spot' \in [Bases -> 0 .. MaxCoins] /\ short' \in [Bases -> 0 .. MaxShort]
       /\ short'[b] = short[b] - n
       /\ \A c \in Bases : c # b => spot'[c] = spot[c] /\ short'[c] = short[c]
  <2>1. -m \in Int /\ -n \in Int /\ short[b] + (-n) = short[b] - n
    BY <1>1, <1>9, <1>10
  <2>2. /\ 0 <= spot[b] + (-m) /\ spot[b] + (-m) <= MaxCoins
        /\ 0 <= short[b] + (-n) /\ short[b] + (-n) <= MaxShort
    BY <1>1, <1>9, <1>10, AmountsAre
  <2> QED BY <1>1, <1>11, <2>1, <2>2, LegsAre
<1>15. how = "done" /\ surviving = "perp" => row'[r].status = "closed"
  BY <1>1, <1>5, RecordIs
<1>16. surviving # "perp" => short'[b] = short[b]
  BY <1>1, <1>12, <1>14
<1> QED BY <1>4, <1>6, <1>7, <1>13, <1>14, <1>15, <1>16 DEF b

\* The hedge check of Phase A.
LEMMA CheckHedgeKeeps ==
    ASSUME BotInv, NEW r \in Rows, NEW how \in {"done", "blind", "leg fails", "leg lost"},
           CheckHedge(r, how)
    PROVE  BotInv'
<1> DEFINE b == Base(r)
           spotPresent == cache[b] >= row[r].qty /\ cache[b] >= SpotMin
           perpPresent == how # "blind" /\ short[b] >= row[r].qty
           surviving == IF perpPresent THEN "perp" ELSE IF spotPresent THEN "spot" ELSE "none"
           passed == ~hedgeCheck \/ unread
           unsure == how # "done" \/ (passed /\ ~(spotPresent /\ perpPresent))
<1>1. /\ pc = "safety" /\ pc' = pc /\ r \in todo /\ Done(r) /\ todo' = todo \ {r}
      /\ UNCHANGED <<left, entering, cache, unread, flags>>
      /\ Fault(how # "done") /\ Misled(b, unsure)
  BY DEF copy, CheckHedge, Done
<1>2. /\ row[r] \in Records /\ row[r].qty \in Nat /\ b \in Bases /\ r \in RowsOf(b)
      /\ spot[b] \in Nat /\ cache[b] \in Nat /\ short[b] \in Nat
      /\ row \in [Rows -> Records] /\ misled \subseteq Bases
  BY RowIs, RowsAre DEF BotInv, TypeOK
<1>3. /\ misled' \subseteq Bases
      /\ b \notin misled' => b \notin misled /\ ~unsure /\ cache[b] = spot[b]
      /\ \A c \in Bases : c # b => (c \in misled' <=> c \in misled)
  <2> HIDE DEF b, unsure
  <2> QED BY <1>1, <1>2, MisledIs
<1>4. faults' \in 0 .. MaxFaults
  BY <1>1, FaultIs DEF BotInv, TypeOK
<1>5. b \notin misled' => Trusted(b) /\ row[r].status \in {"open", "closed"} /\ OpenRows(row, b) \subseteq {r}
  BY <1>1, <1>2, <1>3 DEF BotInv, RowOK, Trusted
<1>6. CASE passed \/ (spotPresent /\ perpPresent)
  <2>1. UNCHANGED <<row, table, db, spot, short>> /\ Unflushed(row')
    BY <1>6 DEF CheckHedge, books, venue, Unflushed
  <2>2. TypeOK'
    BY <1>1, <1>3, <1>4, <2>1 DEF flags, BotInv, TypeOK
  <2>3. ASSUME b \notin misled' PROVE Trusted(b)'
    <3>1. Agree(row', spot', short', b)
      BY <1>1, <1>5, <2>1, <2>3 DEF Trusted, Agree, OpenRows
    <3>2. spot[b] >= SpotMin
      BY <1>3, <1>6, <2>3
    <3> QED BY <1>1, <1>5, <2>1, <2>3, <3>1, <3>2 DEF Trusted, IsOpen, Opening
  <2> QED BY <1>1, <1>3, <2>1, <2>2, <2>3, VisitKeeps
<1>7. CASE ~(passed \/ (spotPresent /\ perpPresent))
  <2>0. surviving \in {"spot", "perp", "none"}
    OBVIOUS
  <2>1. CloseNaked(r, how, surviving)
    BY <1>7 DEF CheckHedge
  <2>2. /\ spot' \in [Bases -> 0 .. MaxCoins] /\ short' \in [Bases -> 0 .. MaxShort]
        /\ \A c \in Bases : c # b => spot'[c] = spot[c] /\ short'[c] = short[c]
        /\ row' \in [Rows -> Records] /\ \A s \in Rows : s # r => row'[s] = row[s]
        /\ row'[r].status \in {row[r].status, "closed"} /\ Unflushed(row')
        /\ surviving # "perp" => short'[b] = short[b]
        /\ how = "done" /\ surviving = "perp" =>
             /\ short'[b] = short[b] - Least(row[r].qty, short[b])
             /\ row'[r].status = "closed"
    <3> HIDE DEF surviving
    <3> QED BY <2>0, <2>1, CloseNakedIs DEF BotInv
  <2>3. UNCHANGED <<table, db>>
    BY <2>2 DEF Unflushed
  <2>4. TypeOK'
    BY <1>1, <1>3, <1>4, <2>2, <2>3 DEF flags, BotInv, TypeOK
  <2>5. ASSUME b \notin misled' PROVE Trusted(b)'
    <3>1. how = "done" /\ Trusted(b) /\ pc # "hedge" /\ spot'[b] \in Nat
      BY <1>1, <1>2, <1>3, <1>5, <2>2, <2>5, AmountsAre
    <3>2. CASE perpPresent
      <4>1. OpenRows(row', b) = {} /\ Agree(row', spot', short', b)
        BY <1>5, <2>2, <2>5, <3>1, <3>2, ForceCloseAgrees DEF BotInv
      <4> QED BY <1>1, <1>2, <4>1, NoOpenTrusted DEF Opening
    <3>3. CASE ~perpPresent
      <4>1. short[b] < row[r].qty
        BY <1>2, <3>1, <3>3
      <4>2. row[r].status # "open"
        BY <1>2, <3>1, <4>1, TrustedIs DEF IsOpen
      <4>3. OpenRows(row, b) = {}
        BY <1>5, <2>5, <4>2 DEF OpenRows
      <4>4. short'[b] = 0
        BY <1>2, <2>2, <3>1, <3>3, <4>3, TrustedIs
      <4>5. OpenRows(row', b) = {}
        BY <2>2, <4>2, <4>3, RowsAre DEF OpenRows
      <4>6. Agree(row', spot', short', b)
        BY <3>1, <4>4, <4>5 DEF Agree
      <4> QED BY <1>1, <1>2, <4>5, <4>6, NoOpenTrusted DEF Opening
    <3> QED BY <3>2, <3>3
  <2> QED BY <1>1, <1>3, <2>2, <2>4, <2>5, VisitKeeps
<1> QED BY <1>6, <1>7

-----------------------------------------------------------------------------
(* Between cycles. *)

\* A trade elsewhere.
LEMMA OutsideKeeps ==
    ASSUME BotInv, NEW b \in Bases, NEW coins \in 0 .. Target, NEW perps \in 0 .. Target,
           OutsideTrade(b, coins, perps)
    PROVE  BotInv'
<1>1. /\ pc = "idle" /\ pc' = pc /\ misled' = misled \cup {b} /\ Fault(TRUE)
      /\ spot' = [spot EXCEPT ![b] = coins] /\ short' = [short EXCEPT ![b] = perps]
      /\ UNCHANGED <<todo, left, entering, row, table, db, cache, unread, flags>>
  BY DEF copy, OutsideTrade, books
<1>2. coins \in 0 .. MaxCoins /\ perps \in 0 .. MaxShort
  BY AmountsAre
<1>3. TypeOK'
  <2>1. faults' \in 0 .. MaxFaults
    BY <1>1, FaultIs DEF BotInv, TypeOK
  <2>2. spot' \in [Bases -> 0 .. MaxCoins] /\ short' \in [Bases -> 0 .. MaxShort]
    BY <1>1, <1>2 DEF BotInv, TypeOK
  <2> QED BY <1>1, <2>1, <2>2 DEF flags, BotInv, TypeOK
<1>4. \A r \in Rows : RowOK(r)'
  BY <1>1 DEF BotInv, RowOK, IsNaked
<1>5. \A r, s \in Rows : Base(r) = Base(s) /\ r # s => PairOK(r, s)'
  BY <1>1 DEF BotInv, PairOK, IsNaked, IsOpen
<1>6. HedgeOK' /\ (pc' \in NoVisits => todo' = {}) /\ \A c \in Bases : RoomOK(c)'
  BY <1>1 DEF BotInv, HedgeOK, RoomOK, Entering
<1>7. ASSUME NEW c \in Bases \ misled' PROVE Trusted(c)'
  <2>1. c \in Bases \ misled /\ c # b
    BY <1>1, <1>7
  <2>2. Untouched(c)
    BY <1>1, <2>1 DEF Untouched, BotInv, TypeOK
  <2> QED BY <2>1, <2>2, UntouchedTrusted DEF BotInv
<1> QED BY <1>3, <1>4, <1>5, <1>6, <1>7 DEF BotInv

\* Whatever a cycle is about, the coins of a trusted base cover its short.
LEMMA CoinsCover ==
    ASSUME BotInv, NEW b \in Bases \ misled PROVE spot[b] >= short[b]
<1>1. Trusted(b) /\ spot[b] \in Nat
  BY AmountsAre DEF BotInv, TypeOK
<1>2. CASE pc = "hedge" /\ Base(entering) = b
  BY <1>1, <1>2 DEF Trusted
<1>3. CASE ~(pc = "hedge" /\ Base(entering) = b)
  BY <1>1, <1>3, TrustedIs
<1> QED BY <1>2, <1>3

\* What reconcile_positions makes of the database.
LEMMA ReconciledIs ==
    ASSUME BotInv, NEW blind \in BOOLEAN
    PROVE  LET rows == Reconciled(blind)
           IN  /\ rows \in [Rows -> Records]
               /\ \A r \in Rows : rows[r].status \in {db[r].status, "open"}
               /\ \A b \in Bases :
                    \/ \A r \in RowsOf(b) : rows[r] = db[r]
                    \/ /\ ~blind /\ short[b] > 0 /\ OpenRows(db, b) = {}
                       /\ \E r \in RowsOf(b) : OpenRows(rows, b) = {r} /\ rows[r].qty = short[b]
               /\ \A b \in Bases : ~blind /\ short[b] > 0 /\ OpenRows(db, b) = {} =>
                    \E r \in RowsOf(b) : OpenRows(rows, b) = {r} /\ rows[r].qty = short[b]
<1> DEFINE orphans == {b \in Bases : short[b] > 0 /\ OpenRows(db, b) = {}}
           free(b) == CHOOSE r \in RowsOf(b) : db[r].status = "none"
           fresh(r) == Row("open", short[Base(r)], FALSE)
           rows == Reconciled(blind)
<1>1. rows = [r \in Rows |-> IF Base(r) \in orphans /\ r = free(Base(r)) /\ ~blind
                             THEN fresh(r) ELSE db[r]]
  BY DEF Reconciled
<1>2. ASSUME NEW b \in orphans PROVE free(b) \in RowsOf(b) /\ db[free(b)].status = "none"
  <2>1. b \in Bases /\ \A r \in RowsOf(b) : db[r].status # "open"
    BY DEF OpenRows
  <2>2. PICK r, s \in RowsOf(b) : r # s /\ RowsOf(b) = {r, s}
    BY <2>1, RowsAre
  <2>3. r \in Rows /\ s \in Rows /\ PairOK(r, s) /\ RowOK(r) /\ RowOK(s)
    BY <2>1, <2>2, RowsAre DEF BotInv
  <2>4. db[r].status \in Statuses /\ db[s].status \in Statuses
    BY <2>3, RecordIs DEF BotInv, TypeOK
  <2>5. db[r].status = "none" \/ db[s].status = "none"
    BY <2>1, <2>2, <2>3, <2>4 DEF PairOK, RowOK, Statuses
  <2> QED BY <2>2, <2>5
<1>3. ASSUME NEW r \in Rows
      PROVE  fresh(r) \in Records /\ fresh(r).status = "open" /\ fresh(r).qty = short[Base(r)]
  <2> DEFINE n == short[Base(r)]
  <2>1. n \in Amounts
    BY RowsAre, AmountsAre DEF BotInv, TypeOK
  <2>2. fresh(r) = Row("open", n, FALSE)
    OBVIOUS
  <2> HIDE DEF n, fresh
  <2>3. fresh(r) \in Records
    BY <2>1, <2>2, RecordOf DEF Statuses
  <2>4. fresh(r).status = "open" /\ fresh(r).qty = n
    BY <2>2 DEF Row
  <2> QED BY <2>3, <2>4 DEF n
<1>4. db \in [Rows -> Records]
  BY DEF BotInv, TypeOK
<1> HIDE DEF orphans, free, fresh, rows
<1>5. \A r \in Rows : rows[r] = IF Base(r) \in orphans /\ r = free(Base(r)) /\ ~blind
                                THEN fresh(r) ELSE db[r]
  BY <1>1
<1>6. rows \in [Rows -> Records]
  BY <1>1, <1>3, <1>4
<1>7. \A r \in Rows : rows[r].status \in {db[r].status, "open"}
  BY <1>3, <1>5
<1>8. ASSUME NEW b \in Bases, b \notin orphans \/ blind PROVE \A r \in RowsOf(b) : rows[r] = db[r]
  BY <1>5, <1>8, RowsAre
<1>9. ASSUME NEW b \in Bases, b \in orphans, ~blind
      PROVE  \E r \in RowsOf(b) : OpenRows(rows, b) = {r} /\ rows[r].qty = short[b]
  <2>1. free(b) \in RowsOf(b) /\ free(b) \in Rows /\ Base(free(b)) = b
    BY <1>2, <1>9, RowsAre
  <2>2. rows[free(b)] = fresh(free(b))
    BY <1>5, <1>9, <2>1
  <2>3. rows[free(b)].status = "open" /\ rows[free(b)].qty = short[b]
    BY <1>3, <2>1, <2>2
  <2>4. \A s \in RowsOf(b) : s # free(b) => rows[s].status # "open"
    <3>1. \A s \in RowsOf(b) : db[s].status # "open"
      BY <1>9 DEF orphans, OpenRows
    <3> QED BY <1>5, <3>1, RowsAre
  <2>5. OpenRows(rows, b) = {free(b)}
    BY <2>1, <2>3, <2>4 DEF OpenRows
  <2> QED BY <2>1, <2>3, <2>5
<1>10. \A b \in Bases : b \in orphans <=> short[b] > 0 /\ OpenRows(db, b) = {}
  BY DEF orphans
<1> QED BY <1>6, <1>7, <1>8, <1>9, <1>10 DEF rows

\* The process starts again.
LEMMA RestartKeeps == ASSUME BotInv, NEW blind \in BOOLEAN, Restart(blind) PROVE BotInv'
<1> DEFINE rows == Reconciled(blind)
<1>1. /\ pc' = "idle" /\ todo' = {} /\ left' = {} /\ entering' = NoEntry
      /\ row' = Kept(rows) /\ db' = row' /\ table' = Status(row')
      /\ unread' \in BOOLEAN /\ cache' \in {spot, [b \in Bases |-> 0]}
      /\ Fault(TRUE) /\ UNCHANGED <<spot, short, flags>>
      /\ misled' = misled \cup {b \in Bases : /\ blind \/ OpenRows(db, b) # {}
                                              /\ ~Agree(db, spot, short, b)}
  BY LegacyAssumption DEF Restart, Committed, venue
<1>2. /\ rows \in [Rows -> Records]
      /\ \A r \in Rows : rows[r].status \in {db[r].status, "open"}
      /\ \A b \in Bases :
           \/ \A r \in RowsOf(b) : rows[r] = db[r]
           \/ /\ ~blind /\ short[b] > 0 /\ OpenRows(db, b) = {}
              /\ \E r \in RowsOf(b) : OpenRows(rows, b) = {r} /\ rows[r].qty = short[b]
      /\ \A b \in Bases : ~blind /\ short[b] > 0 /\ OpenRows(db, b) = {} =>
           \E r \in RowsOf(b) : OpenRows(rows, b) = {r} /\ rows[r].qty = short[b]
  BY ReconciledIs
<1> HIDE DEF rows
<1>3. TypeOK'
  <2>1. row' \in [Rows -> Records] /\ db' \in [Rows -> Records] /\ table' \in [Rows -> Statuses]
    BY <1>1, <1>2, KeptIs, StatusIs
  <2>2. faults' \in 0 .. MaxFaults
    BY <1>1, FaultIs DEF BotInv, TypeOK
  <2>3. cache' \in [Bases -> 0 .. MaxCoins]
    <3>1. 0 \in 0 .. MaxCoins
      BY AmountsAre
    <3> QED BY <1>1, <3>1 DEF BotInv, TypeOK
  <2> QED BY <1>1, <2>1, <2>2, <2>3 DEF flags, BotInv, TypeOK, Passes
<1>4. \A r \in Rows : row'[r].status # "closed"
  BY <1>1, <1>2, KeptIs
<1>5. \A r, s \in Rows : Base(r) = Base(s) /\ r # s =>
                ~(row'[r].status = "naked_spot" /\ row'[s].status = "naked_spot")
  <2>1. \A r \in Rows : row'[r].status = "naked_spot" => db[r].status = "naked_spot"
    BY <1>1, <1>2, KeptIs
  <2> QED BY <2>1, OneNaked
<1>6. ASSUME NEW b \in Bases \ misled' PROVE Agree(row', spot', short', b)
  <2>1. b \in Bases \ misled /\ (Agree(db, spot, short, b) \/ (~blind /\ OpenRows(db, b) = {}))
    BY <1>1, <1>6
  <2>2. spot[b] >= short[b] /\ short[b] \in Nat
    BY <2>1, CoinsCover, AmountsAre DEF BotInv, TypeOK
  <2>3. Agree(rows, spot, short, b)
    <3>1. CASE \A r \in RowsOf(b) : rows[r] = db[r]
      <4>1. OpenRows(rows, b) = OpenRows(db, b)
        BY <3>1 DEF OpenRows
      <4>2. CASE Agree(db, spot, short, b)
        BY <3>1, <4>1, <4>2 DEF Agree
      <4>3. CASE ~blind /\ OpenRows(db, b) = {}
        <5>1. CASE short[b] = 0
          BY <2>2, <4>1, <4>3, <5>1 DEF Agree
        <5>2. CASE short[b] > 0
          BY <1>2, <2>2, <4>3, <5>2 DEF Agree
        <5> QED BY <2>2, <5>1, <5>2
      <4> QED BY <2>1, <4>2, <4>3
    <3>2. CASE \E r \in RowsOf(b) : OpenRows(rows, b) = {r} /\ rows[r].qty = short[b]
      BY <2>2, <3>2 DEF Agree
    <3> QED BY <1>2, <3>1, <3>2
  <2>4. Agree(Kept(rows), spot, short, b)
    BY <1>2, <2>3, KeptIs
  <2> QED BY <1>1, <2>4 DEF Agree
<1> QED BY <1>1, <1>3, <1>4, <1>5, <1>6, SettledKeeps

-----------------------------------------------------------------------------
(* The recovery of coins without an open row. *)

\* A base none of whose rows a query finds open has room for a phantom.
LEMMA HasRoom ==
    ASSUME BotInv, NEW b \in Bases, \A r \in RowsOf(b) : table[r] # "open"
    PROVE  \E r \in RowsOf(b) : Unused(r) \/ IsNaked(r)
<1>1. PICK r, s \in RowsOf(b) : r # s /\ RowsOf(b) = {r, s}
  BY RowsAre
<1>2. r \in Rows /\ s \in Rows /\ PairOK(r, s) /\ RowOK(r) /\ RowOK(s)
  BY <1>1, RowsAre DEF BotInv
<1>3. /\ row[r].status \in Statuses /\ row[s].status \in Statuses
      /\ table[r] \in Statuses /\ table[s] \in Statuses
  BY <1>2, RecordIs DEF BotInv, TypeOK
<1>4. ~IsOpen(r) \/ ~IsOpen(s)
  BY <1>1, <1>2 DEF PairOK
<1> QED BY <1>1, <1>2, <1>3, <1>4 DEF RowOK, IsNaked, IsOpen, Unused, Statuses

\* The recovery begins.
LEMMA StartRecoveryKeeps == ASSUME BotInv, StartRecovery PROVE BotInv'
<1> DEFINE gone == {r \in Visible("naked_spot") : cache[Base(r)] = 0}
           rows == [r \in Rows |-> IF r \in gone THEN Closed(row[r]) ELSE row[r]]
<1>1. /\ pc = "safety" /\ todo = {} /\ pc' = "recover" /\ todo' = Visible("open")
      /\ left' = {b \in Bases : cache[b] > 0} \ Held({"open"})
      /\ IF gone = {} THEN UNCHANGED books ELSE Flush(rows)
      /\ UNCHANGED <<entering, spot, short, cache, unread, flags, faults, misled>>
  BY DEF copy, StartRecovery, venue
<1>2. \A r \in Rows : r \in gone => row[r].status = "naked_spot" /\ table[r] = "naked_spot" /\ cache[Base(r)] = 0
  BY DEF Visible, BotInv, RowOK, IsNaked
<1>3. \A r \in Rows : row[r] \in Records /\ Closed(row[r]) \in Records /\ Closed(row[r]).status = "closed"
  BY RecordIs DEF BotInv, TypeOK
<1> HIDE DEF gone
<1>4. \A r \in Rows : /\ r \in gone => row'[r].status = "closed"
                      /\ r \notin gone => row'[r] = row[r]
                      /\ table'[r] \in {table[r], row'[r].status}
                      /\ row'[r].status = "open" /\ table[r] = "open" => table'[r] = "open"
  <2>1. CASE gone = {}
    BY <1>1, <2>1 DEF books
  <2>2. CASE gone # {}
    <3>1. row' = rows /\ table' = Status(row')
      BY <1>1, <2>2 DEF Flush
    <3> QED BY <1>3, <3>1 DEF Status
  <2> QED BY <2>1, <2>2
<1>5. TypeOK'
  <2>1. row' \in [Rows -> Records] /\ table' \in [Rows -> Statuses] /\ UNCHANGED db
    <3>1. CASE gone = {}
      BY <1>1, <3>1 DEF books, BotInv, TypeOK
    <3>2. CASE gone # {}
      <4>1. row' = rows /\ table' = Status(row') /\ UNCHANGED db
        BY <1>1, <3>2 DEF Flush
      <4>2. row' \in [Rows -> Records]
        BY <1>3, <4>1
      <4> QED BY <4>1, <4>2, StatusIs
    <3> QED BY <3>1, <3>2
  <2>2. todo' \subseteq Rows /\ left' \subseteq Bases
    BY <1>1, VisibleAre
  <2> QED BY <1>1, <2>1, <2>2 DEF flags, BotInv, TypeOK, Passes
<1>6. /\ \A r \in Rows : RowOK(r)'
      /\ \A r, s \in Rows : Base(r) = Base(s) /\ r # s => PairOK(r, s)'
  <2>1. CASE gone = {}
    BY <1>1, <2>1, UnflushedKeeps DEF books, Flushed
  <2>2. CASE gone # {}
    <3>1. Flush(rows)
      BY <1>1, <2>2
    <3>2. \A r \in todo' : row'[r].status \in {"open", "closed"}
      BY <1>1, <1>4 DEF Visible, BotInv, RowOK
    <3>3. \A r, s \in Rows : Base(r) = Base(s) /\ r # s =>
                ~(row'[r].status = "naked_spot" /\ row'[s].status = "naked_spot")
      BY <1>4, OneNaked
    <3> HIDE DEF rows
    <3> QED BY <1>1, <3>1, <3>2, <3>3, FlushKeeps DEF Flushed
  <2> QED BY <2>1, <2>2
<1>7. ASSUME NEW b \in left'
      PROVE  b \in Bases /\ \A r \in RowsOf(b) : table[r] # "open" /\ r \notin gone
  <2>1. b \in Bases /\ cache[b] > 0 /\ b \notin Held({"open"}) /\ cache[b] \in Int
    BY <1>1, AmountsAre DEF BotInv, TypeOK
  <2>2. \A r \in RowsOf(b) : table[r] # "open"
    BY <2>1, RowsAre DEF Held
  <2>3. \A r \in RowsOf(b) : r \notin gone
    BY <1>2, <2>1, RowsAre
  <2> QED BY <2>1, <2>2, <2>3
<1>8. ASSUME NEW b \in Bases PROVE RoomOK(b)'
  <2>1. SUFFICES ASSUME b \in left'
                 PROVE  /\ \A r \in todo' : Base(r) # b
                        /\ \E r \in RowsOf(b) : Unused(r)' \/ IsNaked(r)'
    BY <1>1 DEF RoomOK, Entering
  <2>2. \A r \in todo' : Base(r) # b
    BY <1>1, <1>7, <2>1, RowsAre DEF Visible
  <2>3. PICK r \in RowsOf(b) : Unused(r) \/ IsNaked(r)
    BY <1>7, <2>1, HasRoom
  <2>4. r \in Rows /\ row'[r] = row[r] /\ table'[r] \in {table[r], row[r].status}
    BY <1>4, <1>7, <2>1, RowsAre
  <2>5. Unused(r)' \/ IsNaked(r)'
    BY <2>3, <2>4 DEF Unused, IsNaked, BotInv, RowOK
  <2> QED BY <2>2, <2>5
<1>9. HedgeOK' /\ pc' \notin NoVisits
  BY <1>1 DEF BotInv, HedgeOK, NoVisits, Opening, Entering
<1>10. ASSUME NEW b \in Bases \ misled' PROVE Trusted(b)'
  <2>1. Trusted(b)
    BY <1>1, <1>10 DEF BotInv
  <2>2. \A r \in RowsOf(b) : /\ r \in Rows /\ (IsOpen(r)' <=> IsOpen(r))
                             /\ IsOpen(r) => row'[r] = row[r]
    BY <1>2, <1>4, RowsAre DEF IsOpen
  <2>3. OpenRows(row', b) = OpenRows(row, b)
    BY <2>2 DEF OpenRows, IsOpen
  <2>4. Agree(row', spot', short', b)
    BY <1>1, <2>1, <2>2, <2>3 DEF Trusted, Agree, OpenRows, IsOpen
  <2>5. ASSUME NEW r \in RowsOf(b)
        PROVE  /\ IsOpen(r)' => (table[r] = "open")' /\ spot'[b] >= SpotMin
               /\ (table[r] = "open" \/ r \in todo)' => OpenRows(row', b) \subseteq {r}
    <3>1. (table[r] = "open" \/ r \in todo)' => table[r] = "open"
      BY <1>1, <1>4, <2>1, <2>2 DEF Visible, IsOpen, Trusted
    <3>2. IsOpen(r)' => table[r] = "open" /\ spot[b] >= SpotMin
      BY <1>1, <2>1, <2>2 DEF Trusted
    <3> QED BY <1>1, <1>4, <2>1, <2>2, <2>3, <3>1, <3>2 DEF Trusted, IsOpen
  <2>6. b \in left' => OpenRows(row', b) = {}
    <3>1. b \in left' => \A r \in RowsOf(b) : ~IsOpen(r)
      BY <1>7, <2>1 DEF Trusted
    <3> QED BY <2>3, <3>1 DEF OpenRows, IsOpen
  <2> QED BY <1>1, <2>4, <2>5, <2>6 DEF Trusted, Opening
<1> QED BY <1>5, <1>6, <1>8, <1>9, <1>10 DEF BotInv

\* The row a phantom is recorded in is not open, and is the only one that may be naked.
LEMMA PhantomIs ==
    ASSUME BotInv, NEW b \in Bases, pc = "recover", b \in left
    PROVE  LET r == PhantomRow(b)
           IN  /\ r \in RowsOf(b) /\ r \in Rows /\ Base(r) = b /\ r \notin todo
               /\ row[r].status # "open"
               /\ \A s \in RowsOf(b) : s # r => row[s].status # "naked_spot"
<1> DEFINE naked == RowsOf(b) \cap Visible("naked_spot")
           r == PhantomRow(b)
<1>1. r = IF naked # {} THEN CHOOSE q \in naked : TRUE ELSE FreeRow(b)
  BY DEF PhantomRow
<1>2. \A q \in RowsOf(b) : q \in Rows /\ Base(q) = b /\ (q \in naked <=> row[q].status = "naked_spot")
  BY RowsAre DEF Visible, BotInv, RowOK, IsNaked
<1>3. RoomOK(b)
  BY DEF BotInv
<1>4. CASE naked # {}
  <2>1. r \in naked
    BY <1>1, <1>4
  <2>2. r \in RowsOf(b) /\ row[r].status = "naked_spot"
    BY <1>2, <2>1
  <2>3. \A s \in RowsOf(b) : s # r => row[s].status # "naked_spot"
    BY <1>2, <2>2, OneNaked
  <2> QED BY <1>2, <1>3, <2>2, <2>3 DEF RoomOK
<1>5. CASE naked = {}
  <2>1. \E q \in RowsOf(b) : Unused(q)
    BY <1>2, <1>3, <1>5 DEF RoomOK, IsNaked, Visible
  <2>2. r \in RowsOf(b) /\ Unused(r)
    BY <1>1, <1>5, <2>1 DEF FreeRow
  <2> QED BY <1>2, <1>3, <1>5, <2>2 DEF RoomOK, Unused
<1> QED BY <1>4, <1>5

\* A phantom is recorded, hedged or sold.
LEMMA PhantomKeeps ==
    ASSUME BotInv, NEW b \in Bases, Recovering(b), NEW q \in Records,
           Flush([row EXCEPT ![PhantomRow(b)] = q]),
           UNCHANGED <<pc, todo, entering, cache, unread, flags>>, faults' \in 0 .. MaxFaults,
           spot' \in [Bases -> 0 .. MaxCoins], short' \in [Bases -> 0 .. MaxShort],
           misled' \subseteq Bases,
           \A c \in Bases : c # b => /\ spot'[c] = spot[c] /\ short'[c] = short[c]
                                     /\ c \in misled' <=> c \in misled,
           b \notin misled' =>
              /\ b \notin misled /\ spot'[b] >= short'[b]
              /\ IF q.status = "open" THEN q.qty = short'[b] ELSE short'[b] = 0
    PROVE  BotInv'
<1> DEFINE r == PhantomRow(b)
<1>1. /\ pc = "recover" /\ b \in left /\ left' = left \ {b} /\ UNCHANGED db
      /\ row' = [row EXCEPT ![r] = q] /\ table' = Status(row')
  BY DEF copy, Recovering, Flush
<1>2. /\ r \in RowsOf(b) /\ r \in Rows /\ Base(r) = b /\ r \notin todo
      /\ row[r].status # "open"
      /\ \A s \in RowsOf(b) : s # r => row[s].status # "naked_spot"
  BY <1>1, PhantomIs
<1>3. row' \in [Rows -> Records] /\ row'[r] = q /\ \A s \in Rows : s # r => row'[s] = row[s]
  <2>1. row \in [Rows -> Records]
    BY DEF BotInv, TypeOK
  <2> HIDE DEF r
  <2> QED BY <1>1, <1>2, <2>1
<1>4. /\ \A s \in Rows : RowOK(s)'
      /\ \A s, t \in Rows : Base(s) = Base(t) /\ s # t => PairOK(s, t)'
      /\ \A s \in Rows : table'[s] = row'[s].status
  <2>1. \A s \in todo' : row'[s].status \in {"open", "closed"}
    BY <1>2, <1>3 DEF BotInv, TypeOK, RowOK
  <2>2. \A s, t \in Rows : Base(s) = Base(t) /\ s # t =>
                ~(row'[s].status = "naked_spot" /\ row'[t].status = "naked_spot")
    BY <1>2, <1>3, OneNaked, RowsAre
  <2> QED BY <1>1, <2>1, <2>2, FlushKeeps DEF Flushed
<1> HIDE DEF r
<1>5. TypeOK'
  <2>1. table' \in [Rows -> Statuses]
    BY <1>1, <1>3, StatusIs
  <2> QED BY <1>1, <1>3, <2>1 DEF flags, BotInv, TypeOK
<1>6. ASSUME NEW c \in Bases PROVE RoomOK(c)'
  <2>1. SUFFICES ASSUME c \in left, c # b
                 PROVE  /\ \A s \in todo : Base(s) # c
                        /\ \E s \in RowsOf(c) : Unused(s)' \/ IsNaked(s)'
    BY <1>1 DEF RoomOK, Entering
  <2>2. /\ \A s \in todo : Base(s) # c
        /\ \E s \in RowsOf(c) : Unused(s) \/ IsNaked(s)
    BY <1>1, <2>1 DEF BotInv, RoomOK
  <2>3. PICK s \in RowsOf(c) : Unused(s) \/ IsNaked(s)
    BY <2>2
  <2>4. s \in Rows /\ row'[s] = row[s] /\ table'[s] = row[s].status
    BY <1>2, <1>3, <1>4, <2>1, RowsAre
  <2>5. Unused(s)' \/ IsNaked(s)'
    BY <2>3, <2>4 DEF Unused, IsNaked, BotInv, RowOK
  <2> QED BY <2>2, <2>5
<1>7. HedgeOK' /\ pc' \notin NoVisits
  BY <1>1 DEF BotInv, HedgeOK, NoVisits, Opening, Entering
<1>8. ASSUME b \notin misled' PROVE Trusted(b)'
  <2>1. Trusted(b) /\ OpenRows(row, b) = {}
    BY <1>1, <1>8 DEF BotInv, Trusted
  <2>2. \A s \in RowsOf(b) : s \in Rows /\ (s # r => row'[s].status \notin {"open", "naked_spot"})
    BY <1>2, <1>3, <2>1, RowsAre DEF OpenRows
  <2>3. OpenRows(row', b) = IF q.status = "open" THEN {r} ELSE {}
    BY <1>2, <1>3, <2>2 DEF OpenRows
  <2>4. Agree(row', spot', short', b)
    BY <1>2, <1>3, <1>8, <2>3 DEF Agree
  <2>5. \A s \in RowsOf(b) : s \notin todo'
    BY <1>1, RowsAre DEF BotInv, RoomOK
  <2>6. \A s \in RowsOf(b) : IsOpen(s)' => s = r /\ q.status = "open"
    BY <1>3, <2>2 DEF IsOpen
  <2>7. q.status = "open" => \A s \in RowsOf(b) : ~IsNaked(s)'
    BY <1>3, <1>4, <2>2 DEF IsNaked
  <2>8. \A s \in RowsOf(b) : table'[s] = "open" <=> IsOpen(s)'
    BY <1>4, <2>2 DEF IsOpen
  <2> QED BY <1>1, <2>3, <2>4, <2>5, <2>6, <2>7, <2>8 DEF Trusted, Opening
<1>9. ASSUME NEW c \in Bases \ misled', c # b PROVE Trusted(c)'
  <2>1. Trusted(c)
    BY <1>9 DEF BotInv
  <2>2. \A s \in RowsOf(c) : row'[s] = row[s] /\ table'[s] = row[s].status
    <3>1. \A s \in RowsOf(c) : s \in Rows /\ s # r
      BY <1>2, <1>9, RowsAre
    <3> QED BY <1>3, <1>4, <3>1
  <2>3. spot'[c] = spot[c] /\ short'[c] = short[c]
    BY <1>9
  <2>4. Untouched(c)
    BY <1>1, <2>2, <2>3 DEF Untouched
  <2> QED BY <2>1, <2>4, UntouchedTrusted
<1> QED BY <1>4, <1>5, <1>6, <1>7, <1>8, <1>9 DEF BotInv

\* A phantom is passed over.
LEMMA SkipPhantomKeeps ==
    ASSUME BotInv, NEW b \in Bases, NEW unpriced \in BOOLEAN, SkipPhantom(b, unpriced) PROVE BotInv'
<1>1. /\ pc = "recover" /\ pc' = pc /\ b \in left /\ left' = left \ {b} /\ Fault(unpriced)
      /\ UNCHANGED <<todo, entering, row, table, db, spot, short, cache, unread, flags, misled>>
  BY DEF SkipPhantom, Recovering, books, venue, copy
<1>2. TypeOK'
  <2>1. faults' \in 0 .. MaxFaults
    BY <1>1, FaultIs DEF BotInv, TypeOK
  <2> QED BY <1>1, <2>1 DEF flags, BotInv, TypeOK
<1>3. /\ \A r \in Rows : RowOK(r)'
      /\ \A r, s \in Rows : Base(r) = Base(s) /\ r # s => PairOK(r, s)'
  BY <1>1, UnflushedKeeps DEF Flushed
<1>4. \A c \in Bases : RoomOK(c)'
  BY <1>1 DEF BotInv, RoomOK, IsNaked, Unused, Entering
<1>5. HedgeOK' /\ pc' \notin NoVisits
  BY <1>1 DEF BotInv, HedgeOK, NoVisits, Opening, Entering
<1>6. ASSUME NEW c \in Bases \ misled' PROVE Trusted(c)'
  <2>1. Trusted(c)
    BY <1>1, <1>6 DEF BotInv
  <2>2. Untouched(c)
    BY <1>1 DEF Untouched
  <2> QED BY <2>1, <2>2, UntouchedTrusted
<1> QED BY <1>2, <1>3, <1>4, <1>5, <1>6 DEF BotInv

\* Too few coins to sell are recorded.
LEMMA RecordDustKeeps == ASSUME BotInv, NEW b \in Bases, RecordDust(b) PROVE BotInv'
<1> DEFINE q == Naked(b, TRUE)
<1>1. /\ Recovering(b) /\ pc = "recover" /\ b \in left /\ Misled(b, FALSE)
      /\ Flush([row EXCEPT ![PhantomRow(b)] = q])
      /\ UNCHANGED <<pc, todo, entering, spot, short, cache, unread, flags, faults>>
  BY DEF copy, RecordDust, Recovering, venue
<1>2. q \in Records /\ q.status = "naked_spot"
  <2> DEFINE n == cache[b]
             d == TRUE \/ (row[PhantomRow(b)].status = "naked_spot" /\ row[PhantomRow(b)].dust)
  <2>1. n \in Amounts /\ d \in BOOLEAN
    BY AmountsAre DEF BotInv, TypeOK
  <2>2. q = Row("naked_spot", n, d)
    BY DEF Naked
  <2> HIDE DEF n, d, q
  <2>3. q \in Records
    BY <2>1, <2>2, RecordOf DEF Statuses
  <2> QED BY <2>2, <2>3 DEF Row
<1> HIDE DEF q
<1>3. /\ misled' \subseteq Bases
      /\ b \notin misled' => b \notin misled
      /\ \A c \in Bases : c # b => (c \in misled' <=> c \in misled)
  BY <1>1, MisledIs DEF BotInv, TypeOK
<1>4. ASSUME b \notin misled' PROVE spot'[b] >= short'[b] /\ short'[b] = 0
  <2>1. Trusted(b) /\ pc # "hedge" /\ OpenRows(row, b) = {}
    BY <1>1, <1>3, <1>4 DEF BotInv, Trusted
  <2> QED BY <1>1, <2>1, TrustedIs
<1> QED BY <1>1, <1>2, <1>3, <1>4, PhantomKeeps DEF BotInv, TypeOK

\* A phantom is hedged.
LEMMA HedgePhantomKeeps ==
    ASSUME BotInv, NEW b \in Bases, NEW p \in 1 .. MaxCoins, NEW n \in 0 .. MaxCoins,
           HedgePhantom(b, p, n)
    PROVE  BotInv'
<1> DEFINE q == Row("open", p, FALSE)
<1>1. /\ Recovering(b) /\ pc = "recover" /\ b \in left /\ Misled(b, FALSE)
      /\ Flush([row EXCEPT ![PhantomRow(b)] = q])
      /\ p <= cache[b] /\ short[b] + p <= MaxShort /\ n <= Least(cache[b] - p, spot[b])
      /\ short' = [short EXCEPT ![b] = @ + p] /\ spot' = [spot EXCEPT ![b] = @ - n]
      /\ UNCHANGED <<pc, todo, entering, cache, unread, flags, faults>>
  BY DEF copy, HedgePhantom, Recovering
<1>2. q \in Records /\ q.status = "open" /\ q.qty = p
  <2>1. p \in Amounts
    BY AmountsAre
  <2> QED BY <2>1, RecordOf, FieldsOf DEF Statuses
<1> HIDE DEF q
<1>3. /\ spot[b] \in Nat /\ cache[b] \in Nat /\ short[b] \in Nat /\ p \in Nat /\ n \in Nat
      /\ spot[b] <= MaxCoins /\ MaxCoins \in Nat /\ MaxShort \in Nat
  BY AmountsAre DEF BotInv, TypeOK
<1>4. n <= cache[b] - p /\ n <= spot[b]
  BY <1>1, <1>3 DEF Least
<1>5. /\ spot' \in [Bases -> 0 .. MaxCoins] /\ short' \in [Bases -> 0 .. MaxShort]
      /\ spot'[b] = spot[b] - n /\ short'[b] = short[b] + p
      /\ \A c \in Bases : c # b => spot'[c] = spot[c] /\ short'[c] = short[c]
  <2>1. spot[b] + (-n) = spot[b] - n /\ -n \in Int /\ p \in Int
    BY <1>3
  <2>2. /\ 0 <= spot[b] + (-n) /\ spot[b] + (-n) <= MaxCoins
        /\ 0 <= short[b] + p /\ short[b] + p <= MaxShort
    BY <1>1, <1>3, <1>4
  <2>3. spot' = [spot EXCEPT ![b] = spot[b] + (-n)] /\ short' = [short EXCEPT ![b] = short[b] + p]
    BY <1>1, <2>1
  <2> QED BY <2>1, <2>2, <2>3, LegsAre DEF BotInv
<1>6. /\ misled' \subseteq Bases
      /\ b \notin misled' => b \notin misled /\ cache[b] = spot[b]
      /\ \A c \in Bases : c # b => (c \in misled' <=> c \in misled)
  BY <1>1, MisledIs DEF BotInv, TypeOK
<1>7. ASSUME b \notin misled' PROVE spot'[b] >= short'[b] /\ q.qty = short'[b]
  <2>1. Trusted(b) /\ pc # "hedge" /\ OpenRows(row, b) = {}
    BY <1>1, <1>6, <1>7 DEF BotInv, Trusted
  <2>2. short[b] = 0
    BY <2>1, TrustedIs
  <2> QED BY <1>2, <1>3, <1>4, <1>5, <1>6, <1>7, <2>2
<1>8. faults' \in 0 .. MaxFaults
  BY <1>1 DEF BotInv, TypeOK
<1> QED BY <1>1, <1>2, <1>5, <1>6, <1>7, <1>8, PhantomKeeps

\* A phantom is sold, as far as it can be.
LEMMA SellPhantomKeeps ==
    ASSUME BotInv, NEW b \in Bases, NEW n \in 0 .. MaxCoins, NEW p \in 0 .. MaxCoins,
           SellPhantom(b, n, p)
    PROVE  BotInv'
<1> DEFINE q == AfterSale(b, n)
<1>1. /\ Recovering(b) /\ pc = "recover" /\ b \in left /\ Misled(b, p > 0) /\ Fault(p > 0)
      /\ Flush([row EXCEPT ![PhantomRow(b)] = q])
      /\ n > 0 => n <= cache[b] /\ cache[b] <= spot[b]
      /\ short[b] + p <= MaxShort
      /\ short' = [short EXCEPT ![b] = @ + p] /\ spot' = [spot EXCEPT ![b] = @ - n]
      /\ UNCHANGED <<pc, todo, entering, cache, unread, flags>>
  BY DEF copy, SellPhantom, Recovering
<1>2. q \in Records /\ q.status # "open"
  <2> DEFINE m == cache[b]
             d == FALSE \/ (row[PhantomRow(b)].status = "naked_spot" /\ row[PhantomRow(b)].dust)
             k == Naked(b, FALSE)
  <2>1. m \in Amounts
    BY AmountsAre DEF BotInv, TypeOK
  <2>2. d \in BOOLEAN
    OBVIOUS
  <2>3. k = Row("naked_spot", m, row[PhantomRow(b)].status = "naked_spot" /\ row[PhantomRow(b)].dust)
    BY DEF Naked
  <2>4. k = Row("naked_spot", m, d)
    BY <2>3
  <2>5. q \in {k, Closed(k)}
    BY DEF AfterSale
  <2> HIDE DEF m, d, q, k
  <2>6. k \in Records
    BY <2>1, <2>2, <2>4, RecordOf DEF Statuses
  <2>7. k.status = "naked_spot"
    BY <2>4 DEF Row
  <2> QED BY <2>5, <2>6, <2>7, RecordIs
<1> HIDE DEF q
<1>3. /\ spot[b] \in Nat /\ cache[b] \in Nat /\ short[b] \in Nat /\ p \in Nat /\ n \in Nat
      /\ spot[b] <= MaxCoins /\ MaxCoins \in Nat /\ MaxShort \in Nat
  BY AmountsAre DEF BotInv, TypeOK
<1>4. n <= spot[b]
  BY <1>1, <1>3
<1>5. /\ spot' \in [Bases -> 0 .. MaxCoins] /\ short' \in [Bases -> 0 .. MaxShort]
      /\ spot'[b] = spot[b] - n /\ short'[b] = short[b] + p
      /\ \A c \in Bases : c # b => spot'[c] = spot[c] /\ short'[c] = short[c]
  <2>1. spot[b] + (-n) = spot[b] - n /\ -n \in Int /\ p \in Int
    BY <1>3
  <2>2. /\ 0 <= spot[b] + (-n) /\ spot[b] + (-n) <= MaxCoins
        /\ 0 <= short[b] + p /\ short[b] + p <= MaxShort
    BY <1>1, <1>3, <1>4
  <2>3. spot' = [spot EXCEPT ![b] = spot[b] + (-n)] /\ short' = [short EXCEPT ![b] = short[b] + p]
    BY <1>1, <2>1
  <2> QED BY <2>1, <2>2, <2>3, LegsAre DEF BotInv
<1>6. /\ misled' \subseteq Bases
      /\ b \notin misled' => b \notin misled /\ ~(p > 0)
      /\ \A c \in Bases : c # b => (c \in misled' <=> c \in misled)
  <2> DEFINE lost == p > 0
  <2>1. Misled(b, lost) /\ misled \subseteq Bases
    BY <1>1 DEF BotInv, TypeOK
  <2> HIDE DEF lost
  <2>2. /\ misled' \subseteq Bases
        /\ b \notin misled' => b \notin misled /\ ~lost
        /\ \A c \in Bases : c # b => (c \in misled' <=> c \in misled)
    BY <2>1, MisledIs
  <2> QED BY <2>2 DEF lost
<1>7. ASSUME b \notin misled' PROVE spot'[b] >= short'[b] /\ short'[b] = 0
  <2>1. Trusted(b) /\ pc # "hedge" /\ OpenRows(row, b) = {}
    BY <1>1, <1>6, <1>7 DEF BotInv, Trusted
  <2>2. short[b] = 0
    BY <2>1, TrustedIs
  <2> QED BY <1>3, <1>4, <1>5, <1>6, <1>7, <2>2
<1>8. faults' \in 0 .. MaxFaults
  BY <1>1, FaultIs DEF BotInv, TypeOK
<1> QED BY <1>1, <1>2, <1>5, <1>6, <1>7, <1>8, PhantomKeeps

\* Dust is offered for conversion.
LEMMA ConvertDustKeeps ==
    ASSUME BotInv, NEW taken \in SUBSET Bases, NEW closes \in BOOLEAN, ConvertDust(taken, closes)
    PROVE  BotInv'
<1> DEFINE rows == [r \in Rows |-> IF r \in Dust THEN Closed(row[r]) ELSE row[r]]
<1>1. /\ pc = "recover" /\ pc' = "exits" /\ left = {} /\ left' = {}
      /\ taken \subseteq {Base(r) : r \in Dust}
      /\ spot' = [b \in Bases |-> IF b \in taken /\ spot[b] < SpotMin THEN 0 ELSE spot[b]]
      /\ IF closes THEN Flush(rows) ELSE UNCHANGED books
      /\ UNCHANGED <<todo, entering, short, cache, unread, flags, faults, misled>>
  BY DEF copy, ConvertDust
<1>2. \A r \in Dust : r \in Rows /\ row[r].status = "naked_spot" /\ table[r] = "naked_spot"
  BY DEF Dust, Visible, BotInv, RowOK, IsNaked
<1>3. \A r \in Rows : row[r] \in Records /\ Closed(row[r]) \in Records /\ Closed(row[r]).status = "closed"
  BY RecordIs DEF BotInv, TypeOK
<1>4. \A r \in Rows : /\ row'[r] = row[r] \/ (row[r].status = "naked_spot" /\ row'[r].status = "closed")
                      /\ table'[r] = table[r] \/ table'[r] = row'[r].status
                      /\ row'[r].status = "open" /\ table[r] = "open" => table'[r] = "open"
  <2>1. CASE ~closes
    BY <1>1, <2>1 DEF books
  <2>2. CASE closes
    <3>1. row' = rows /\ table' = Status(row')
      BY <1>1, <2>2 DEF Flush
    <3> QED BY <1>2, <1>3, <3>1 DEF Status
  <2> QED BY <2>1, <2>2
<1>5. spot' \in [Bases -> 0 .. MaxCoins]
  <2>1. 0 \in 0 .. MaxCoins /\ \A b \in Bases : spot[b] \in 0 .. MaxCoins
    BY AmountsAre DEF BotInv, TypeOK
  <2> QED BY <1>1, <2>1
<1>6. TypeOK'
  <2>1. row' \in [Rows -> Records] /\ table' \in [Rows -> Statuses] /\ UNCHANGED db
    <3>1. CASE ~closes
      BY <1>1, <3>1 DEF books, BotInv, TypeOK
    <3>2. CASE closes
      <4>1. row' = rows /\ table' = Status(row') /\ UNCHANGED db
        BY <1>1, <3>2 DEF Flush
      <4>2. row' \in [Rows -> Records]
        BY <1>3, <4>1
      <4> QED BY <4>1, <4>2, StatusIs
    <3> QED BY <3>1, <3>2
  <2> QED BY <1>1, <1>5, <2>1 DEF flags, BotInv, TypeOK, Passes
<1>7. /\ \A r \in Rows : RowOK(r)'
      /\ \A r, s \in Rows : Base(r) = Base(s) /\ r # s => PairOK(r, s)'
  <2>1. CASE ~closes
    BY <1>1, <2>1, UnflushedKeeps DEF books, Flushed
  <2>2. CASE closes
    <3>1. Flush(rows)
      BY <1>1, <2>2
    <3>2. \A r \in todo' : row'[r].status \in {"open", "closed"}
      BY <1>1, <1>4 DEF BotInv, TypeOK, RowOK
    <3>3. \A r, s \in Rows : Base(r) = Base(s) /\ r # s =>
                ~(row'[r].status = "naked_spot" /\ row'[s].status = "naked_spot")
      BY <1>4, OneNaked
    <3> HIDE DEF rows
    <3> QED BY <1>1, <3>1, <3>2, <3>3, FlushKeeps DEF Flushed
  <2> QED BY <2>1, <2>2
<1>8. HedgeOK' /\ pc' \notin NoVisits /\ \A b \in Bases : RoomOK(b)'
  BY <1>1 DEF BotInv, HedgeOK, RoomOK, NoVisits, Opening, Entering
<1>9. ASSUME NEW b \in Bases \ misled' PROVE Trusted(b)'
  <2>1. Trusted(b) /\ spot[b] \in Nat
    BY <1>1, <1>9, AmountsAre DEF BotInv, TypeOK
  <2>2. \A r \in RowsOf(b) : /\ r \in Rows /\ (IsOpen(r)' <=> IsOpen(r))
                             /\ IsOpen(r) => row'[r] = row[r]
    BY <1>4, RowsAre DEF IsOpen
  <2>3. OpenRows(row', b) = OpenRows(row, b)
    BY <2>2 DEF OpenRows, IsOpen
  <2>4. spot'[b] >= short[b]
    <3>1. CASE b \in taken /\ spot[b] < SpotMin
      <4>1. PICK r \in RowsOf(b) : IsNaked(r)
        BY <1>1, <1>2, <3>1, RowsAre DEF IsNaked
      <4>2. ~(spot[b] >= SpotMin)
        BY <2>1, <3>1, AmountsAre
      <4>3. OpenRows(row, b) = {}
        BY <1>1, <2>1, <4>1, <4>2 DEF Trusted, OpenRows, IsOpen
      <4>4. short[b] = 0 /\ spot'[b] = 0
        BY <1>1, <2>1, <3>1, <4>3, TrustedIs
      <4> QED BY <4>4
    <3>2. CASE ~(b \in taken /\ spot[b] < SpotMin)
      BY <1>1, <2>1, <3>2, TrustedIs
    <3> QED BY <3>1, <3>2
  <2>5. Agree(row', spot', short', b)
    BY <1>1, <2>1, <2>2, <2>3, <2>4 DEF Trusted, Agree, OpenRows, IsOpen
  <2>6. ASSUME NEW r \in RowsOf(b)
        PROVE  /\ IsOpen(r)' => (table[r] = "open")'
               /\ (table[r] = "open" \/ r \in todo)' => OpenRows(row', b) \subseteq {r}
    <3>1. (table[r] = "open" \/ r \in todo)' => table[r] = "open" \/ r \in todo
      BY <1>1, <1>4, <2>1, <2>2 DEF IsOpen, Trusted
    <3>2. IsOpen(r)' => table[r] = "open"
      BY <2>1, <2>2 DEF Trusted
    <3> QED BY <1>4, <2>1, <2>2, <2>3, <3>1, <3>2 DEF Trusted, IsOpen
  <2> QED BY <1>1, <2>5, <2>6 DEF Trusted, Opening
<1> QED BY <1>6, <1>7, <1>8, <1>9 DEF BotInv

-----------------------------------------------------------------------------
(* Entries. *)

\* The entries begin, with the bases of which no row is open or naked.
LEMMA StartEntryKeeps == ASSUME BotInv, StartEntry PROVE BotInv'
<1>1. /\ pc = "exits" /\ pc' = "entry" /\ todo = {} /\ todo' = {}
      /\ left' \in {Bases \ HeldBases, {}}
      /\ UNCHANGED <<entering, row, table, db, spot, short, cache, unread, flags, faults, misled>>
  BY DEF copy, StartEntry, books, venue
<1>2. TypeOK'
  BY <1>1 DEF flags, BotInv, TypeOK, Passes
<1>3. /\ \A r \in Rows : RowOK(r)'
      /\ \A r, s \in Rows : Base(r) = Base(s) /\ r # s => PairOK(r, s)'
  BY <1>1, UnflushedKeeps DEF Flushed
<1>4. ASSUME NEW b \in left'
      PROVE  b \in Bases /\ \A r \in RowsOf(b) : table[r] \notin {"open", "naked_spot"}
  BY <1>1, RowsAre DEF HeldBases, Held
<1>5. ASSUME NEW b \in Bases PROVE RoomOK(b)'
  <2>1. ASSUME b \in left' PROVE \E r \in RowsOf(b) : Unused(r)
    <3>1. \E r \in RowsOf(b) : Unused(r) \/ IsNaked(r)
      BY <1>4, <2>1, HasRoom
    <3> QED BY <1>4, <2>1, <3>1 DEF IsNaked
  <2> QED BY <1>1, <2>1 DEF RoomOK, Unused
<1>6. HedgeOK'
  BY <1>1 DEF BotInv, HedgeOK
<1>7. ASSUME NEW b \in Bases \ misled' PROVE Trusted(b)'
  <2>1. Trusted(b)
    BY <1>1, <1>7 DEF BotInv
  <2>2. Agree(row', spot', short', b) /\ OpenRows(row', b) = OpenRows(row, b)
    BY <1>1, <2>1 DEF Trusted, Agree, OpenRows
  <2>3. b \in left' => OpenRows(row, b) = {}
    BY <1>4, <2>1 DEF Trusted, OpenRows, IsOpen
  <2> QED BY <1>1, <2>1, <2>2, <2>3 DEF Trusted, IsOpen, Opening
<1> QED BY <1>1, <1>2, <1>3, <1>5, <1>6, <1>7 DEF BotInv

\* The spot leg of an entry: n coins are bought, t are taken for bought.
LEMMA EnterKeeps ==
    ASSUME BotInv, NEW b \in Bases, NEW n \in 0 .. Target, NEW t \in 0 .. Target,
           Enter(b, n, t), cache' \in {spot, spot'}, faults' \in 0 .. MaxFaults
    PROVE  BotInv'
<1> DEFINE e == FreeRow(b)
           q == Row("open", t, FALSE)
<1>1. /\ pc = "entry" /\ b \in left /\ left' = left \ {b} /\ todo = {} /\ todo' = {}
      /\ spot[b] + n <= MaxCoins /\ entering = NoEntry
      /\ spot' = [spot EXCEPT ![b] = @ + n]
      /\ unread' = FALSE
      /\ misled' = IF t # n THEN misled \cup {b} ELSE misled
      /\ IF t = 0 THEN UNCHANGED <<pc, entering, books>>
         ELSE pc' = "hedge" /\ entering' = e /\ Flush([row EXCEPT ![e] = q])
      /\ UNCHANGED <<short, flags>>
  BY DEF Enter, BotInv, HedgeOK, NoVisits, Entering
<1>2. e \in RowsOf(b) /\ Unused(e) /\ e \in Rows /\ Base(e) = b
  <2>1. \E r \in RowsOf(b) : Unused(r)
    BY <1>1 DEF BotInv, RoomOK, Entering
  <2> QED BY <2>1, RowsAre DEF FreeRow
<1>3. q \in Records /\ q.status = "open" /\ q.qty = t
  <2>1. t \in Amounts
    <3>1. t \in 0 .. MaxCoins
      BY AmountsAre
    <3> QED BY <3>1, AmountsAre
  <2> QED BY <2>1, RecordOf, FieldsOf DEF Statuses
<1> HIDE DEF e, q
<1>4. /\ spot' \in [Bases -> 0 .. MaxCoins] /\ spot'[b] = spot[b] + n /\ spot'[b] >= n
      /\ n = 0 => spot'[b] = spot[b]
      /\ \A c \in Bases : c # b => spot'[c] = spot[c]
  <2>1. spot \in [Bases -> 0 .. MaxCoins]
    BY DEF BotInv, TypeOK
  <2>2. spot[b] \in Nat /\ n \in Nat /\ MaxCoins \in Nat
    BY <2>1, AmountsAre
  <2>3. spot[b] + n \in 0 .. MaxCoins /\ spot[b] + n >= n /\ (n = 0 => spot[b] + n = spot[b])
    BY <1>1, <2>2
  <2> QED BY <1>1, <2>1, <2>3
<1>5. TypeOK'
  <2>1. cache' \in [Bases -> 0 .. MaxCoins]
    BY <1>1, <1>4 DEF BotInv, TypeOK
  <2>2. misled' \subseteq Bases
    BY <1>1 DEF BotInv, TypeOK
  <2>3. /\ row' \in [Rows -> Records] /\ table' \in [Rows -> Statuses] /\ UNCHANGED db
        /\ pc' \in Passes /\ pc' # "idle" /\ entering' \in Rows \cup {NoEntry}
    <3>1. CASE t = 0
      BY <1>1, <3>1 DEF books, BotInv, TypeOK
    <3>2. CASE t # 0
      <4>1. row' = [row EXCEPT ![e] = q] /\ table' = Status(row') /\ UNCHANGED db
        BY <1>1, <3>2 DEF Flush
      <4>2. row' \in [Rows -> Records]
        BY <1>3, <4>1 DEF BotInv, TypeOK
      <4> QED BY <1>1, <1>2, <3>2, <4>1, <4>2, StatusIs DEF Passes
    <3> QED BY <3>1, <3>2
  <2> QED BY <1>1, <1>4, <2>1, <2>2, <2>3 DEF flags, BotInv, TypeOK
<1>6. CASE t = 0
  <2>1. UNCHANGED <<pc, entering, row, table, db>>
    BY <1>1, <1>6 DEF books
  <2>2. /\ \A r \in Rows : RowOK(r)'
        /\ \A r, s \in Rows : Base(r) = Base(s) /\ r # s => PairOK(r, s)'
    BY <1>1, <2>1, UnflushedKeeps DEF Flushed
  <2>3. \A c \in Bases : RoomOK(c)'
    BY <1>1, <2>1 DEF BotInv, RoomOK, Unused, IsNaked
  <2>4. HedgeOK'
    BY <1>1, <2>1 DEF HedgeOK
  <2>5. ASSUME NEW c \in Bases \ misled' PROVE Trusted(c)'
    <3>1. Trusted(c) /\ (c = b => n = 0)
      BY <1>1, <1>6, <2>5 DEF BotInv
    <3>2. spot'[c] = spot[c]
      BY <1>4, <3>1
    <3>3. Untouched(c)
      BY <1>1, <2>1, <3>2 DEF Untouched
    <3> QED BY <3>1, <3>3, UntouchedTrusted
  <2> QED BY <1>1, <1>5, <2>2, <2>3, <2>4, <2>5 DEF BotInv
<1>7. CASE t # 0
  <2>1. /\ pc' = "hedge" /\ entering' = e /\ Flush([row EXCEPT ![e] = q])
        /\ row' = [row EXCEPT ![e] = q] /\ UNCHANGED db
    BY <1>1, <1>7 DEF Flush
  <2>2. row'[e] = q /\ \A s \in Rows : s # e => row'[s] = row[s]
    BY <1>2, <2>1 DEF BotInv, TypeOK
  <2>3. /\ \A s \in Rows : RowOK(s)'
        /\ \A s, m \in Rows : Base(s) = Base(m) /\ s # m => PairOK(s, m)'
        /\ \A s \in Rows : table'[s] = row'[s].status
    <3>1. \A s, m \in Rows : Base(s) = Base(m) /\ s # m =>
                ~(row'[s].status = "naked_spot" /\ row'[m].status = "naked_spot")
      BY <1>3, <2>2, OneNaked
    <3> QED BY <1>1, <2>1, <3>1, FlushKeeps DEF Flushed
  <2>4. ASSUME NEW c \in Bases, c # b
        PROVE  \A s \in RowsOf(c) : row'[s] = row[s] /\ table'[s] = row[s].status
    <3>1. \A s \in RowsOf(c) : s \in Rows /\ s # e
      BY <1>2, <2>4, RowsAre
    <3> QED BY <2>2, <2>3, <3>1
  <2>5. ASSUME NEW c \in Bases PROVE RoomOK(c)'
    <3>1. ASSUME c \in left' PROVE \E s \in RowsOf(c) : Unused(s)'
      <4>1. c \in left /\ c # b
        BY <1>1, <3>1
      <4>2. PICK s \in RowsOf(c) : Unused(s)
        BY <1>1, <4>1 DEF BotInv, RoomOK, Entering
      <4> QED BY <2>4, <4>1, <4>2 DEF Unused
    <3> QED BY <2>1, <3>1 DEF RoomOK
  <2>6. HedgeOK'
    <3>1. b \notin misled' => t = n
      BY <1>1
    <3> QED BY <1>1, <1>2, <1>3, <1>4, <2>1, <2>2, <2>3, <3>1 DEF HedgeOK, IsOpen
  <2>7. ASSUME b \notin misled' PROVE Trusted(b)'
    <3>1. Trusted(b) /\ pc # "hedge" /\ OpenRows(row, b) = {}
      BY <1>1, <2>7 DEF BotInv, Trusted
    <3>2. short'[b] = 0
      BY <1>1, <3>1, TrustedIs
    <3>3. \A s \in RowsOf(b) : s \in Rows /\ (IsOpen(s)' <=> s = e)
      BY <1>3, <2>2, <3>1, RowsAre DEF IsOpen, OpenRows
    <3>4. OpenRows(row', b) = {e}
      BY <1>2, <3>3 DEF OpenRows, IsOpen
    <3>5. \A s \in RowsOf(b) : table'[s] = "open" <=> IsOpen(s)'
      BY <2>3, <3>3 DEF IsOpen
    <3>6. b \notin left'
      BY <1>1
    <3> QED BY <1>1, <1>2, <2>1, <3>2, <3>3, <3>4, <3>5, <3>6 DEF Trusted, Opening
  <2>8. ASSUME NEW c \in Bases \ misled', c # b PROVE Trusted(c)'
    <3>1. Trusted(c)
      BY <1>1, <2>8 DEF BotInv
    <3>2. \A s \in RowsOf(c) : row'[s] = row[s] /\ table'[s] = row[s].status
      BY <2>4, <2>8
    <3>3. Untouched(c)
      BY <1>1, <1>2, <1>4, <2>1, <2>8, <3>2 DEF Untouched, Entering
    <3> QED BY <3>1, <3>3, UntouchedTrusted
  <2> QED BY <1>1, <1>5, <2>3, <2>5, <2>6, <2>7, <2>8 DEF BotInv
<1> QED BY <1>6, <1>7

\* The order is answered.
LEMMA BuySpotKeeps ==
    ASSUME BotInv, NEW b \in Bases, NEW n \in 0 .. Target, NEW asked \in 1 .. Target,
           NEW states \in SUBSET {"filled", "amount"}, BuySpot(b, n, asked, states)
    PROVE  BotInv'
<1> DEFINE t == Taken(n, asked, states)
<1>1. Enter(b, n, t) /\ cache' = spot /\ faults' \in 0 .. MaxFaults
  BY DEF BuySpot, BotInv, TypeOK
<1>2. t \in 0 .. Target
  BY AmountsAre DEF Taken
<1> QED BY <1>1, <1>2, EnterKeeps

\* The order raises, and the balances say what it bought.
LEMMA BuySpotRaisesKeeps ==
    ASSUME BotInv, NEW b \in Bases, NEW n \in 0 .. Target, NEW unseen \in BOOLEAN,
           BuySpotRaises(b, n, unseen)
    PROVE  BotInv'
<1> DEFINE t == IF unseen THEN 0 ELSE n
<1>1. Enter(b, n, t) /\ cache' \in {spot, spot'} /\ faults' \in 0 .. MaxFaults
  BY FaultIs DEF BuySpotRaises, BotInv, TypeOK
<1>2. t \in 0 .. Target
  BY AmountsAre
<1> QED BY <1>1, <1>2, EnterKeeps

\* What the second leg of an entry, or its roll-back, has in common.
LEMMA HedgeEnds ==
    ASSUME BotInv, TypeOK', pc = "hedge", pc' = "entry", Unflushed(row'), todo' = todo,
           entering' = NoEntry, left' \subseteq left,
           \A s \in Rows : s # entering => row'[s] = row[s],
           row'[entering].status \in {"open", "closed"},
           \A c \in Bases : c # Base(entering) =>
                /\ spot'[c] = spot[c] /\ short'[c] = short[c]
                /\ c \in misled' <=> c \in misled,
           Base(entering) \notin misled' =>
                /\ Base(entering) \notin misled
                /\ Agree(row', spot', short', Base(entering))
    PROVE  BotInv'
<1>0. PICK e \in Rows, b \in Bases : e = entering /\ b = Base(e)
  BY RowsAre DEF BotInv, HedgeOK
<1>1. /\ e = entering /\ b = Base(entering) /\ e \in RowsOf(b) /\ b \notin left /\ todo = {}
      /\ row[e].status = "open" /\ table[e] = "open" /\ UNCHANGED <<table, db>>
  BY <1>0, RowsAre DEF BotInv, HedgeOK, IsOpen, NoVisits, Entering, Unflushed
<1>2. /\ \A s \in Rows : RowOK(s)'
      /\ \A s, t \in Rows : Base(s) = Base(t) /\ s # t => PairOK(s, t)'
  <2>1. \A s \in Rows : \/ row'[s].status = row[s].status
                        \/ row[s].status \in {"open", "closed"} /\ row'[s].status = "closed"
    BY <1>1
  <2> QED BY <1>1, <2>1, UnflushedKeeps DEF Flushed
<1>3. ASSUME NEW c \in Bases PROVE RoomOK(c)'
  <2>1. ASSUME c \in left' PROVE \E s \in RowsOf(c) : Unused(s)'
    <3>1. c \in left /\ c # b
      BY <1>1, <2>1
    <3>2. PICK s \in RowsOf(c) : Unused(s)
      BY <3>1 DEF BotInv, RoomOK, Entering
    <3>3. s \in Rows /\ s # e
      BY <1>1, <3>1, RowsAre
    <3> QED BY <1>1, <3>2, <3>3 DEF Unused
  <2> QED BY <2>1 DEF RoomOK
<1>4. HedgeOK'
  BY DEF HedgeOK
<1>5. ASSUME b \notin misled' PROVE Trusted(b)'
  <2>1. Trusted(b) /\ OpenRows(row, b) = {e}
    BY <1>1, <1>5 DEF BotInv, Trusted
  <2>2. \A s \in RowsOf(b) : s \in Rows /\ (s # e => ~IsOpen(s)')
    BY <1>1, <2>1, RowsAre DEF OpenRows, IsOpen
  <2>3. OpenRows(row', b) \subseteq {e}
    BY <2>2 DEF OpenRows, IsOpen
  <2>4. \A s \in RowsOf(b) : table[s] = "open" => s = e
    <3>1. \A s \in RowsOf(b) : table[s] = "open" => OpenRows(row, b) \subseteq {s}
      BY <2>1 DEF Trusted
    <3> QED BY <2>1, <3>1
  <2>5. b \notin left'
    BY <1>1
  <2> QED BY <1>1, <1>5, <2>2, <2>3, <2>4, <2>5 DEF Trusted, Opening, IsOpen
<1>6. ASSUME NEW c \in Bases \ misled', c # b PROVE Trusted(c)'
  <2>1. Trusted(c)
    BY <1>6 DEF BotInv
  <2>2. \A s \in RowsOf(c) : row'[s] = row[s]
    BY <1>1, <1>6, RowsAre
  <2>3. Untouched(c)
    BY <1>1, <1>6, <2>2 DEF Untouched, Entering
  <2> QED BY <2>1, <2>3, UntouchedTrusted
<1> QED BY <1>1, <1>2, <1>3, <1>4, <1>5, <1>6 DEF BotInv

\* What is known of the legs and the row between the two orders.
LEMMA HedgeIs ==
    ASSUME BotInv, pc = "hedge"
    PROVE  LET b == Base(entering)
               n == row[entering].qty
           IN  /\ entering \in Rows /\ b \in Bases /\ entering \in RowsOf(b)
               /\ row[entering] \in Records /\ row[entering].status = "open"
               /\ n \in Nat /\ spot[b] \in Nat /\ short[b] \in Nat
               /\ spot[b] <= MaxCoins /\ short[b] <= MaxShort
               /\ b \notin misled =>
                    n <= spot[b] /\ short[b] = 0 /\ OpenRows(row, b) = {entering}
<1>1. /\ entering \in Rows /\ IsOpen(entering) /\ TypeOK
      /\ Base(entering) \notin misled => row[entering].qty <= spot[Base(entering)]
  BY DEF BotInv, HedgeOK
<1>2. Base(entering) \notin misled =>
         short[Base(entering)] = 0 /\ OpenRows(row, Base(entering)) = {entering}
  BY <1>1, RowsAre DEF BotInv, Trusted
<1> QED BY <1>1, <1>2, RowIs, RowsAre, AmountsAre DEF IsOpen

\* The perp leg of an entry.
LEMMA ShortPerpKeeps ==
    ASSUME BotInv, NEW p \in 0 .. Target, NEW m \in 0 .. Target, ShortPerp(p, m) PROVE BotInv'
<1> DEFINE b == Base(entering)
           n == row[entering].qty
<1>1. /\ pc = "hedge" /\ pc' = "entry" /\ left' = {} /\ entering' = NoEntry
      /\ p \in 1 .. n /\ short[b] + p <= MaxShort /\ m <= Least(n - p, spot[b])
      /\ short' = [short EXCEPT ![b] = @ + p] /\ spot' = [spot EXCEPT ![b] = @ - m]
      /\ row' = [row EXCEPT ![entering].qty = p] /\ Unflushed(row') /\ UNCHANGED <<table, db>>
      /\ UNCHANGED <<todo, cache, unread, flags, faults, misled>>
  BY DEF copy, ShortPerp, FinalQty, Unflushed
<1>2. /\ entering \in Rows /\ b \in Bases /\ entering \in RowsOf(b)
      /\ row[entering] \in Records /\ row[entering].status = "open"
      /\ n \in Nat /\ spot[b] \in Nat /\ short[b] \in Nat
      /\ spot[b] <= MaxCoins /\ short[b] <= MaxShort
      /\ b \notin misled => n <= spot[b] /\ short[b] = 0 /\ OpenRows(row, b) = {entering}
  BY <1>1, HedgeIs
<1>3. /\ p \in Nat /\ m \in Nat /\ MaxCoins \in Nat /\ MaxShort \in Nat /\ p \in Amounts
      /\ m <= n - p /\ m <= spot[b]
  <2>1. p \in 0 .. MaxCoins /\ m \in Nat
    BY AmountsAre
  <2>2. m <= n - p /\ m <= spot[b]
    BY <1>1, <1>2, <2>1 DEF Least
  <2> QED BY <2>1, <2>2, AmountsAre
<1>4. /\ row' \in [Rows -> Records] /\ row'[entering].status = "open" /\ row'[entering].qty = p
      /\ \A s \in Rows : s # entering => row'[s] = row[s]
  <2>1. row \in [Rows -> Records]
    BY DEF BotInv, TypeOK
  <2>2. /\ [row[entering] EXCEPT !.qty = p] \in Records
        /\ [row[entering] EXCEPT !.qty = p].status = "open"
        /\ [row[entering] EXCEPT !.qty = p].qty = p
    BY <1>2, <1>3 DEF Records
  <2>3. row'[entering] = [row[entering] EXCEPT !.qty = p]
    BY <1>1, <1>2, <2>1
  <2>4. row' = [row EXCEPT ![entering] = [row[entering] EXCEPT !.qty = p]]
    BY <1>1
  <2> QED BY <1>2, <2>1, <2>2, <2>3, <2>4
<1> HIDE DEF b, n
<1>5. /\ spot' \in [Bases -> 0 .. MaxCoins] /\ short' \in [Bases -> 0 .. MaxShort]
      /\ spot'[b] = spot[b] - m /\ short'[b] = short[b] + p
      /\ \A c \in Bases : c # b => spot'[c] = spot[c] /\ short'[c] = short[c]
  <2>1. spot[b] + (-m) = spot[b] - m /\ -m \in Int /\ p \in Int
    BY <1>2, <1>3
  <2>2. /\ 0 <= spot[b] + (-m) /\ spot[b] + (-m) <= MaxCoins
        /\ 0 <= short[b] + p /\ short[b] + p <= MaxShort
    BY <1>1, <1>2, <1>3
  <2>3. spot' = [spot EXCEPT ![b] = spot[b] + (-m)] /\ short' = [short EXCEPT ![b] = short[b] + p]
    BY <1>1, <2>1
  <2> QED BY <1>2, <2>1, <2>2, <2>3, LegsAre DEF BotInv
<1>6. TypeOK'
  BY <1>1, <1>4, <1>5 DEF flags, BotInv, TypeOK, Passes
<1>7. ASSUME b \notin misled PROVE Agree(row', spot', short', b)
  <2>1. OpenRows(row', b) = {entering}
    BY <1>2, <1>4, <1>7, RowsAre DEF OpenRows
  <2>2. short'[b] = p /\ spot'[b] >= p
    BY <1>1, <1>2, <1>3, <1>5, <1>7
  <2> QED BY <1>2, <1>4, <2>1, <2>2 DEF Agree
<1> QED BY <1>1, <1>4, <1>5, <1>6, <1>7, HedgeEnds DEF b

\* The spot leg is sold again.
LEMMA RollbackSpotKeeps ==
    ASSUME BotInv, NEW m \in 0 .. Target, NEW p \in 0 .. Target, NEW raises \in BOOLEAN,
           RollbackSpot(m, raises, p)
    PROVE  BotInv'
<1> DEFINE b == Base(entering)
           n == row[entering].qty
<1>1. /\ pc = "hedge" /\ pc' = "entry" /\ entering' = NoEntry
      /\ m <= Least(n, spot[b]) /\ short[b] + p <= MaxShort
      /\ short' = [short EXCEPT ![b] = @ + p] /\ spot' = [spot EXCEPT ![b] = @ - m]
      /\ row' = (IF raises THEN row ELSE [row EXCEPT ![entering] = Closed(@)])
      /\ Unflushed(row') /\ UNCHANGED <<table, db>>
      /\ Fault((raises /\ n <= spot[b]) \/ p > 0)
      /\ misled' = IF raises \/ p > 0 THEN misled \cup {b} ELSE misled
      /\ UNCHANGED <<todo, left, cache, unread, flags>>
  BY DEF copy, RollbackSpot, Unflushed
<1>2. /\ entering \in Rows /\ b \in Bases /\ entering \in RowsOf(b)
      /\ row[entering] \in Records /\ row[entering].status = "open"
      /\ n \in Nat /\ spot[b] \in Nat /\ short[b] \in Nat
      /\ spot[b] <= MaxCoins /\ short[b] <= MaxShort
      /\ b \notin misled => n <= spot[b] /\ short[b] = 0 /\ OpenRows(row, b) = {entering}
  BY <1>1, HedgeIs
<1>3. p \in Nat /\ m \in Nat /\ MaxCoins \in Nat /\ MaxShort \in Nat /\ m <= spot[b]
  <2>1. m <= spot[b]
    BY <1>1, <1>2, AmountsAre DEF Least
  <2> QED BY <2>1, AmountsAre
<1>4. /\ row' \in [Rows -> Records] /\ row'[entering].status \in {"open", "closed"}
      /\ ~raises => row'[entering].status = "closed"
      /\ \A s \in Rows : s # entering => row'[s] = row[s]
  <2>1. row \in [Rows -> Records]
    BY DEF BotInv, TypeOK
  <2>2. Closed(row[entering]) \in Records /\ Closed(row[entering]).status = "closed"
    BY <1>2, RecordIs
  <2> QED BY <1>1, <1>2, <2>1, <2>2
<1>5. misled' \subseteq Bases /\ faults' \in 0 .. MaxFaults
  BY <1>1, <1>2, FaultIs DEF BotInv, TypeOK
<1> HIDE DEF b, n
<1>6. /\ spot' \in [Bases -> 0 .. MaxCoins] /\ short' \in [Bases -> 0 .. MaxShort]
      /\ spot'[b] = spot[b] - m /\ short'[b] = short[b] + p
      /\ \A c \in Bases : c # b => spot'[c] = spot[c] /\ short'[c] = short[c]
  <2>1. spot[b] + (-m) = spot[b] - m /\ -m \in Int /\ p \in Int
    BY <1>2, <1>3
  <2>2. /\ 0 <= spot[b] + (-m) /\ spot[b] + (-m) <= MaxCoins
        /\ 0 <= short[b] + p /\ short[b] + p <= MaxShort
    BY <1>1, <1>2, <1>3
  <2>3. spot' = [spot EXCEPT ![b] = spot[b] + (-m)] /\ short' = [short EXCEPT ![b] = short[b] + p]
    BY <1>1, <2>1
  <2> QED BY <1>2, <2>1, <2>2, <2>3, LegsAre DEF BotInv
<1>7. TypeOK'
  BY <1>1, <1>4, <1>5, <1>6 DEF flags, BotInv, TypeOK, Passes
<1>8. ASSUME b \notin misled' PROVE b \notin misled /\ Agree(row', spot', short', b)
  <2>1. b \notin misled /\ ~raises /\ ~(p > 0)
    BY <1>1, <1>8
  <2>2. OpenRows(row', b) = {}
    BY <1>2, <1>4, <2>1, RowsAre DEF OpenRows
  <2>3. short'[b] = 0 /\ spot'[b] >= 0
    <3>1. p = 0 /\ short[b] = 0
      BY <1>2, <1>3, <2>1
    <3> QED BY <1>1, <1>2, <1>3, <1>6, <3>1
  <2> QED BY <2>1, <2>2, <2>3 DEF Agree
<1>9. \A c \in Bases : c # b => (c \in misled' <=> c \in misled)
  BY <1>1
<1> QED BY <1>1, <1>4, <1>6, <1>7, <1>8, <1>9, HedgeEnds DEF b

\* The entries are through.
LEMMA EndEntryKeeps == ASSUME BotInv, EndEntry PROVE BotInv'
<1>1. /\ pc = "entry" /\ pc' = "sweep" /\ todo = {} /\ todo' = {}
      /\ left' = {b \in Priced : cache[b] >= SpotMin} \ Held({"open"})
      /\ UNCHANGED <<entering, row, table, db, spot, short, cache, unread, flags, faults, misled>>
  BY DEF copy, EndEntry, books, venue, BotInv, NoVisits, Entering
<1>2. TypeOK'
  BY <1>1, LegacyAssumption DEF flags, BotInv, TypeOK, Passes
<1>3. /\ \A r \in Rows : RowOK(r)'
      /\ \A r, s \in Rows : Base(r) = Base(s) /\ r # s => PairOK(r, s)'
  BY <1>1, UnflushedKeeps DEF Flushed
<1>4. HedgeOK' /\ \A b \in Bases : RoomOK(b)'
  BY <1>1 DEF BotInv, HedgeOK, RoomOK, Entering
<1>5. ASSUME NEW b \in Bases \ misled' PROVE Trusted(b)'
  <2>1. Trusted(b)
    BY <1>1, <1>5 DEF BotInv
  <2>2. Agree(row', spot', short', b) /\ OpenRows(row', b) = OpenRows(row, b)
    BY <1>1, <2>1 DEF Trusted, Agree, OpenRows
  <2>3. b \in left' => \A r \in RowsOf(b) : table[r] # "open"
    BY <1>1, RowsAre DEF Held
  <2>4. b \in left' => OpenRows(row, b) = {}
    BY <2>1, <2>3 DEF Trusted, OpenRows, IsOpen
  <2> QED BY <1>1, <2>1, <2>2, <2>4 DEF Trusted, IsOpen, Opening
<1> QED BY <1>1, <1>2, <1>3, <1>4, <1>5 DEF BotInv

\* Coins without an open row are sold.
LEMMA SweepKeeps == ASSUME BotInv, NEW b \in Bases, NEW n \in 0 .. MaxCoins, Sweep(b, n)
                    PROVE  BotInv'
<1>1. /\ pc = "sweep" /\ pc' = pc /\ b \in left /\ left' = left \ {b} /\ n <= spot[b]
      /\ spot' = [spot EXCEPT ![b] = @ - n] /\ Misled(b, FALSE)
      /\ UNCHANGED <<todo, entering, row, table, db, short, cache, unread, flags, faults>>
  BY DEF copy, Sweep, books
<1>2. /\ misled' \subseteq Bases
      /\ b \notin misled' => b \notin misled
      /\ \A c \in Bases : c # b => (c \in misled' <=> c \in misled)
  BY <1>1, MisledIs DEF BotInv, TypeOK
<1>3. /\ spot' \in [Bases -> 0 .. MaxCoins] /\ spot'[b] \in Nat
      /\ \A c \in Bases : c # b => spot'[c] = spot[c]
  <2>1. spot \in [Bases -> 0 .. MaxCoins]
    BY DEF BotInv, TypeOK
  <2>2. spot[b] \in Nat /\ spot[b] <= MaxCoins /\ n \in Nat /\ MaxCoins \in Nat
    BY <2>1, AmountsAre
  <2>3. spot[b] - n \in 0 .. MaxCoins /\ spot[b] - n \in Nat
    BY <1>1, <2>2
  <2> QED BY <1>1, <2>1, <2>3
<1>4. TypeOK'
  BY <1>1, <1>2, <1>3 DEF flags, BotInv, TypeOK
<1>5. /\ \A r \in Rows : RowOK(r)'
      /\ \A r, s \in Rows : Base(r) = Base(s) /\ r # s => PairOK(r, s)'
  BY <1>1, UnflushedKeeps DEF Flushed
<1>6. HedgeOK' /\ todo' = {} /\ \A c \in Bases : RoomOK(c)'
  BY <1>1 DEF BotInv, HedgeOK, RoomOK, NoVisits, Entering
<1>7. ASSUME b \notin misled' PROVE Trusted(b)'
  <2>1. Trusted(b) /\ pc # "hedge" /\ OpenRows(row, b) = {}
    BY <1>1, <1>2, <1>7 DEF BotInv, Trusted
  <2>2. short'[b] = 0 /\ OpenRows(row', b) = {}
    BY <1>1, <2>1, TrustedIs DEF OpenRows
  <2>3. Agree(row', spot', short', b)
    BY <1>3, <2>2 DEF Agree
  <2> QED BY <1>1, <2>2, <2>3, NoOpenTrusted DEF Opening
<1>8. ASSUME NEW c \in Bases \ misled', c # b PROVE Trusted(c)'
  <2>1. Trusted(c)
    BY <1>2, <1>8 DEF BotInv
  <2>2. Untouched(c)
    BY <1>1, <1>3, <1>8 DEF Untouched, BotInv, TypeOK
  <2> QED BY <2>1, <2>2, UntouchedTrusted
<1> QED BY <1>1, <1>4, <1>5, <1>6, <1>7, <1>8 DEF BotInv

-----------------------------------------------------------------------------
(* The theorems. *)

\* The parts of a cycle.
LEMMA PassKeepsBot == ASSUME BotInv, Pass PROVE BotInv'
<1>1. CASE StartCycle \/ ReturnEarly \/ StartPass \/ EndMaintenance \/ EndExitAll
           \/ StartRecovery \/ StartEntry \/ EndEntry \/ EndCycle
  BY <1>1, StartCycleKeeps, RollsBackKeep, StartPassKeeps, EndsKeepBot, StartRecoveryKeeps,
     StartEntryKeeps, EndEntryKeeps
<1>2. CASE \E blind \in BOOLEAN : Rehydrate(blind) \/ Reconcile(blind)
  BY <1>2, RehydrateKeeps, ReconcileKeeps
<1>3. CASE \E r \in Rows, how \in Endings : CloseBoth(r, how)
  BY <1>3, CloseBothKeeps
<1>4. CASE \E r \in Rows, how \in {"done", "blind", "leg fails", "leg lost"} : CheckHedge(r, how)
  BY <1>4, CheckHedgeKeeps
<1>5. CASE \E r \in Rows : Hold(r)
  BY <1>5, HoldKeeps
<1>6. CASE \E taken \in SUBSET Bases, closes \in BOOLEAN : ConvertDust(taken, closes)
  BY <1>6, ConvertDustKeeps
<1>7. CASE \E b \in Bases : RecordDust(b) \/ \E unpriced \in BOOLEAN : SkipPhantom(b, unpriced)
  BY <1>7, RecordDustKeeps, SkipPhantomKeeps
<1>8. CASE \E b \in Bases, p \in 1 .. MaxCoins, n \in 0 .. MaxCoins : HedgePhantom(b, p, n)
  BY <1>8, HedgePhantomKeeps
<1>9. CASE \E b \in Bases, n, p \in 0 .. MaxCoins : SellPhantom(b, n, p)
  BY <1>9, SellPhantomKeeps
<1>10. CASE \E b \in Bases, n \in 0 .. Target, asked \in 1 .. Target,
               states \in SUBSET {"filled", "amount"} : BuySpot(b, n, asked, states)
  BY <1>10, BuySpotKeeps
<1>11. CASE \E p, n \in 0 .. Target : ShortPerp(p, n)
  BY <1>11, ShortPerpKeeps
<1>12. CASE \E n, p \in 0 .. Target, raises \in BOOLEAN : RollbackSpot(n, raises, p)
  BY <1>12, RollbackSpotKeeps
<1>13. CASE \E b \in Bases, n \in 0 .. MaxCoins : Sweep(b, n)
  BY <1>13, SweepKeeps
<1>14. CASE \E b \in Bases, n \in 0 .. Target, unseen \in BOOLEAN : BuySpotRaises(b, n, unseen)
  BY <1>14, BuySpotRaisesKeeps
<1> QED
  BY <1>1, <1>2, <1>3, <1>4, <1>5, <1>6, <1>7, <1>8, <1>9, <1>10, <1>11, <1>12, <1>13, <1>14
     DEF Pass

\* The buttons.
LEMMA OperatorKeepsBot == ASSUME BotInv, Operator PROVE BotInv'
<1>1. CASE ModeStop \/ ModeStart \/ ModeExitAll \/ StrategyStop \/ StrategyStart \/ StrategyExitAll
  <2>1. {entries, maintenance, strategy, exitAll} \subseteq BOOLEAN
    BY DEF BotInv, TypeOK
  <2>2. \E e, m, s, x \in BOOLEAN : SetFlags(e, m, s, x)
    BY <1>1, <2>1 DEF ModeStop, ModeStart, ModeExitAll, StrategyStop, StrategyStart, StrategyExitAll
  <2> QED BY <2>2, FlagsKeepBot
<1>2. CASE \E r \in Rows, how \in Endings : ManualClose(r, how)
  BY <1>2, ManualCloseKeeps
<1>3. CASE SetHedgeCheck
  BY <1>3, SwitchKeepsBot
<1> QED BY <1>1, <1>2, <1>3 DEF Operator

\* The invariant is inductive.
LEMMA BotInductive == ASSUME BotInv, [Next]_vars PROVE BotInv'
<1>1. CASE \E blind \in BOOLEAN : Restart(blind)
  BY <1>1, RestartKeeps
<1>2. CASE \E b \in Bases, n \in 0 .. Target, p \in 0 .. Target : OutsideTrade(b, n, p)
  BY <1>2, OutsideKeeps
<1>3. CASE Abort
  BY <1>3, RollsBackKeep
<1>4. CASE UNCHANGED vars
  BY <1>4, StutterKeepsBot
<1> QED BY <1>1, <1>2, <1>3, <1>4, PassKeepsBot, OperatorKeepsBot DEF Next

\* It holds of every behaviour.
LEMMA BotInvariant == Spec => []BotInv
BY InitBot, BotInductive, PTL DEF Spec

\* Between cycles the committed open rows are the shorts, in number and in size, and the
\* coins cover them, for every base of which no read, answer or row was lost, no
\* answer to a spot order was taken for another amount than it bought and no position was
\* passed over unchecked (bot.py:506-589, 2057-2200): whatever was rehydrated, reconciled,
\* closed, recovered, entered, rolled back or swept, in any order and with any failures at
\* other bases; and rows, legs and balances keep their types.
THEOREM BooksAgree == Spec => []BooksMatchLegs
<1>1. BotInv => BooksMatchLegs
  <2> SUFFICES ASSUME BotInv, pc = "idle", NEW b \in Bases \ misled PROVE Agree(db, spot, short, b)
    BY DEF BooksMatchLegs, BotInv
  <2>1. Trusted(b) /\ row = db
    BY DEF BotInv, TypeOK
  <2> QED BY <2>1 DEF Trusted
<1> QED BY <1>1, BotInvariant, PTL

\* While entries are under way coins are bought by the spot leg alone.
LEMMA EntryBuys ==
    ASSUME BotInv, [Next]_vars, pc = "entry"
    PROVE  \/ spot' = spot
           \/ \E b \in Bases, n \in 0 .. Target, taken \in 0 .. Target : Enter(b, n, taken)
<1>1. CASE Pass
  <2>1. \/ EndEntry
        \/ \E b \in Bases, n \in 0 .. Target, asked \in 1 .. Target,
              states \in SUBSET {"filled", "amount"} : BuySpot(b, n, asked, states)
        \/ \E b \in Bases, n \in 0 .. Target, unseen \in BOOLEAN : BuySpotRaises(b, n, unseen)
    BY <1>1 DEF Pass, StartCycle, ReturnEarly, StartPass, EndMaintenance, EndExitAll, StartRecovery,
                StartEntry, EndCycle, Rehydrate, Reconcile, CloseBoth, CheckHedge, Hold, ConvertDust,
                SkipPhantom, RecordDust, HedgePhantom, SellPhantom, Recovering, ShortPerp,
                RollbackSpot, Sweep
  <2>2. ASSUME NEW b \in Bases, NEW n \in 0 .. Target, NEW asked \in 1 .. Target,
               NEW states \in SUBSET {"filled", "amount"}, BuySpot(b, n, asked, states)
        PROVE  \E taken \in 0 .. Target : Enter(b, n, taken)
    <3>1. Taken(n, asked, states) \in 0 .. Target
      BY LegacyAssumption DEF Taken
    <3> QED BY <2>2, <3>1 DEF BuySpot
  <2>3. ASSUME NEW b \in Bases, NEW n \in 0 .. Target, NEW unseen \in BOOLEAN,
               BuySpotRaises(b, n, unseen)
        PROVE  \E taken \in 0 .. Target : Enter(b, n, taken)
    <3>1. (IF unseen THEN 0 ELSE n) \in 0 .. Target
      BY LegacyAssumption
    <3> QED BY <2>3, <3>1 DEF BuySpotRaises
  <2> QED BY <2>1, <2>2, <2>3 DEF EndEntry, venue
<1>2. CASE Operator
  BY <1>2 DEF Operator, ModeStop, ModeStart, ModeExitAll, StrategyStop, StrategyStart,
              StrategyExitAll, SetFlags, SetHedgeCheck, ManualClose, venue
<1>3. CASE Abort
  BY <1>3 DEF Abort, venue
<1>4. CASE \E blind \in BOOLEAN : Restart(blind)
  BY <1>4 DEF Restart, venue
<1>5. CASE \E b \in Bases, n \in 0 .. Target, p \in 0 .. Target : OutsideTrade(b, n, p)
  BY <1>5 DEF OutsideTrade
<1>6. CASE UNCHANGED vars
  BY <1>6 DEF vars, venue
<1> QED BY <1>1, <1>2, <1>3, <1>4, <1>5, <1>6 DEF Next

\* A base whose perps are sold is never bought again: reconcile_positions
\* (bot.py:992-1004) and the first pass of a cycle give every short a row, and an entry
\* (bot.py:1743-1762) passes over the bases with rows.
THEOREM NoReentry == Spec => NoSecondEntry
<1>1. BotInv /\ [Next]_vars =>
        [\A b \in Bases : pc = "entry" /\ spot'[b] > spot[b] => short[b] = 0 \/ b \in misled]_vars
  <2> SUFFICES ASSUME BotInv, [Next]_vars, NEW b \in Bases, pc = "entry", spot'[b] > spot[b], b \notin misled
               PROVE  short[b] = 0
    OBVIOUS
  <2>1. spot[b] \in Nat
    BY AmountsAre DEF BotInv, TypeOK
  <2>2. spot'[b] # spot[b]
    BY <2>1
  <2>3. PICK c \in Bases, n \in 0 .. Target, taken \in 0 .. Target : Enter(c, n, taken)
    BY <2>2, EntryBuys
  <2>4. c \in left /\ spot' = [spot EXCEPT ![c] = @ + n]
    BY <2>3 DEF Enter
  <2>5. b = c
    BY <2>2, <2>4 DEF BotInv, TypeOK
  <2>6. Trusted(b) /\ OpenRows(row, b) = {}
    BY <2>4, <2>5 DEF BotInv, Trusted
  <2> QED BY <2>6, TrustedIs
<1> QED BY <1>1, BotInvariant, PTL DEF Spec, NoSecondEntry

=============================================================================
