--------------------------- MODULE LegacyCapital ---------------------------
(***************************************************************************)
(* The capital-flow rows of version 1.3 at one venue: what its history     *)
(* endpoints list (archive/v1.3-legacy/app/exchange.py), what the hourly   *)
(* ingest of the cycle stores (bot.py) and what the operator's re-ingest   *)
(* button stores from a web thread (main.py).                              *)
(*                                                                         *)
(* Money enters and leaves an account through movements; the bot's own     *)
(* shuttle between the account's wallets is in the same histories and is   *)
(* no movement.  The two ingests have a session each, and external_id is   *)
(* an index, not a unique key.                                             *)
(***************************************************************************)
EXTENDS Integers, FiniteSets

CONSTANTS
    Venues,       \* subset of {"binance", "kucoin"}
    Movements,    \* external ids of deposits, withdrawals and master-sub transfers
    Kind,         \* their kinds
    Shuttle       \* the external id of the bot's own transfers

Kinds == {"deposit", "withdrawal", "sub"}

ASSUME CapitalAssumption ==
    /\ Venues \subseteq {"binance", "kucoin"}
    /\ IsFiniteSet(Movements) /\ Shuttle \notin Movements
    /\ Kind \in [Movements -> Kinds]

VARIABLES
    venue,
    moved,        \* the movements that have happened
    shuttled,     \* the transfer log holds transfers of the bot
    rows,         \* committed CapitalFlow rows of each id
    pending,      \* those the cycle's session has flushed
    asked,        \* the rows the button's request is about to store
    raced         \* ids stored by one session while the other held them for missing

capital == <<venue, moved, shuttled, rows, pending, asked, raced>>

Ids == Movements \cup {Shuttle}
Nothing == [i \in Ids |-> 0]

CapitalTypeOK ==
    /\ venue \in Venues
    /\ moved \subseteq Movements
    /\ shuttled \in BOOLEAN
    /\ rows \in [Ids -> 0 .. 2]
    /\ {pending, asked} \subseteq [Ids -> 0 .. 1]
    /\ raced \subseteq Movements

CapitalInit ==
    /\ venue \in Venues
    /\ moved = {} /\ shuttled = FALSE
    /\ rows = Nothing /\ pending = Nothing /\ asked = Nothing
    /\ raced = {}

-----------------------------------------------------------------------------
(* What the venue lists. *)

\* A master-sub transfer has an endpoint of its own at Binance and is in the log of
\* universal transfers as well; at KuCoin only that log answers.
EndpointsOf(i) ==
    IF i = Shuttle THEN {"transfers"}
    ELSE CASE Kind[i] = "deposit" -> {"deposits"}
           [] Kind[i] = "withdrawal" -> {"withdrawals"}
           [] Kind[i] = "sub" /\ venue = "binance" -> {"sub_transfers", "transfers"}
           [] Kind[i] = "sub" /\ venue = "kucoin" -> {"transfers"}

Endpoints == {"deposits", "withdrawals", "sub_transfers", "transfers"}

\* Both ends are wallets of the account (INTRA_ACCOUNT, INTRA_KC).
IntraAccount(i) == i = Shuttle

Listed(i) == IF i = Shuttle THEN shuttled ELSE i \in moved

\* list_capital_flow_records: an endpoint that raises is left out, and so is what is
\* older than the lookback.
Records(answering) ==
    {r \in answering \X Ids :
        r[1] \in EndpointsOf(r[2]) /\ Listed(r[2]) /\ ~IntraAccount(r[2])}

-----------------------------------------------------------------------------
(* The ingests. *)

\* Wrong variant: seen_ids is not extended while the batch is stored.
NewRowsPerRecord(records) ==
    [i \in Ids |-> IF rows[i] > 0 THEN 0 ELSE Cardinality({r \in records : r[2] = i})]

\* _ingest_api_capital_flows: a row for an id that neither the table nor the batch has.
NewRows(records) ==
    [i \in Ids |-> IF rows[i] = 0 /\ \E r \in records : r[2] = i THEN 1 ELSE 0]

Together(f, g) == [i \in Ids |-> f[i] + g[i]]
Both(f, g) == {i \in Ids : f[i] > 0 /\ g[i] > 0}

\* _maybe_ingest_capital_flows, in the session of the cycle.
CycleIngests ==
    \/ UNCHANGED capital      \* the last one is less than an hour ago
    \/ /\ \E answering \in SUBSET Endpoints : pending' = NewRows(Records(answering))
       /\ raced' = raced \cup Both(pending', asked)
       /\ UNCHANGED <<venue, moved, shuttled, rows, asked>>

CycleCommits ==
    /\ rows' = Together(rows, pending)
    /\ pending' = Nothing
    /\ UNCHANGED <<venue, moved, shuttled, asked, raced>>

\* An exception ends the session.
CycleRollsBack ==
    /\ pending' = Nothing
    /\ UNCHANGED <<venue, moved, shuttled, rows, asked, raced>>

\* The button's request reads which ids are there ...
ButtonReads ==
    /\ asked = Nothing
    /\ \E answering \in SUBSET Endpoints :
         asked' = NewRows(Records(answering))
    /\ asked' # Nothing
    /\ raced' = raced \cup Both(pending, asked')
    /\ UNCHANGED <<venue, moved, shuttled, rows, pending>>

\* ... and stores the others as soon as no other session holds the write lock.
ButtonStores ==
    /\ asked # Nothing /\ pending = Nothing
    /\ rows' = Together(rows, asked)
    /\ asked' = Nothing
    /\ UNCHANGED <<venue, moved, shuttled, pending, raced>>

-----------------------------------------------------------------------------
(* Property *)

\* The rate of return is computed from the rows (finance.py:322-355): a movement
\* counts once and a transfer between the account's own wallets never
\* (exchange.py:1535-1541, 1570-1583), through endpoints that fail, histories that
\* repeat each other, lost sessions and repeated ingests.  What two overlapping
\* ingests do is excepted: each stores what the other has not committed.
InjectionsOnce ==
    \A i \in Ids :
        rows[i] + pending[i] <= (IF i = Shuttle THEN 0 ELSE IF i \in raced THEN 2 ELSE 1)

=============================================================================
