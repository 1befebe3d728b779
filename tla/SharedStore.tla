------------------------------ MODULE SharedStore ------------------------------
(***************************************************************************)
(* The workers of one mode over one SQLite file (state/db.py,              *)
(* loop/runner.py:_run_one, loop/cycle.py).  Each worker trades one venue, *)
(* and each of its cycles runs in one session.  SQLAlchemy opens the       *)
(* transaction at the first statement that writes: until then a session    *)
(* reads what is committed, from then on it holds the one write lock of    *)
(* the file until it commits, with its venue calls in between.             *)
(*                                                                         *)
(* A position is a pair of worker and base.  What a row says of its legs   *)
(* is the subject of TradingCycle; here a position is there or not, and    *)
(* the tables without positions (events, rejections, snapshots, flows)     *)
(* matter for the lock their inserts take only.                            *)
(***************************************************************************)
EXTENDS Integers, FiniteSets

CONSTANTS
    Workers,     \* one per active venue
    Bases,
    NoWorker,
    MaxOpen,     \* max_open_positions, for all the venues of a mode
    MaxPairs     \* bound of the model: pairs of legs of one base at its venue

ASSUME StoreAssumption ==
    /\ IsFiniteSet(Workers) /\ Workers # {} /\ NoWorker \notin Workers
    /\ IsFiniteSet(Bases)
    /\ MaxOpen \in Nat \ {0} /\ MaxPairs \in Nat \ {0}

VARIABLES
    pc,          \* pc[w]: where the cycle of w is
    target,      \* target[w]: the bases whose orders are sent and not yet recorded
    db,          \* committed rows: the exposed positions
    view,        \* the same table as the session that holds the lock sees it
    lock,        \* the worker whose session holds the write lock
    legs,        \* legs[w][b]: pairs of legs the venue holds for w
    underLock,   \* underLock[w]: w held the lock when it read the number of positions
    forgotten    \* positions whose orders were sent by a session that was rolled back

vars == <<pc, target, db, view, lock, legs, underLock, forgotten>>

Positions == Workers \X Bases
Sent == {"close", "insert"}
Steps == {"idle", "exits", "capacity", "order", "snapshot", "commit"} \cup Sent

TypeOK ==
    /\ pc \in [Workers -> Steps]
    /\ target \in [Workers -> SUBSET Bases]
    /\ db \in SUBSET Positions /\ view \in SUBSET Positions
    /\ lock \in Workers \cup {NoWorker}
    /\ lock = NoWorker => view = db
    /\ legs \in [Workers -> [Bases -> 0 .. MaxPairs]]
    /\ underLock \in [Workers -> BOOLEAN]
    /\ forgotten \in SUBSET Positions

Init ==
    /\ pc = [w \in Workers |-> "idle"]
    /\ target = [w \in Workers |-> {}]
    /\ db = {} /\ view = {} /\ lock = NoWorker
    /\ legs = [w \in Workers |-> [b \in Bases |-> 0]]
    /\ underLock = [w \in Workers |-> FALSE]
    /\ forgotten = {}

-----------------------------------------------------------------------------

\* What a query of w finds: its own writes once it has the lock.
\* Wrong variant: the committed table, whatever the session has written.
SeesCommitted(w) == db
Sees(w) == IF lock = w THEN view ELSE db

\* The rows of w itself, as the queries with exchange= read them.
Own(w) == {p \in Sees(w) : p[1] = w}

\* A flush that sends a statement: it needs the lock, and gives it to w.
CanWrite(w) == lock \in {w, NoWorker}
Write(w, rows) == CanWrite(w) /\ lock' = w /\ view' = rows

\* The orders that are sent and not recorded.
\* Wrong variant: those of the same base at every venue.
UnrecordedOfBase(w) == Workers \X target[w]
Unrecorded(w) == {w} \X target[w]

To(w, step) == pc' = [pc EXCEPT ![w] = step]
At(w, from, to) == pc[w] = from /\ To(w, to)

UnderLock(w, holds) == underLock' = [underLock EXCEPT ![w] = holds]

tables == <<db, view, lock>>
ghosts == <<underLock, forgotten>>

StartCycle(w) ==
    /\ At(w, "idle", "exits")
    /\ UNCHANGED <<target, legs, ghosts, tables>>

\* Phase B, and the passes before it, flush a row before they trade on it
\* (the new funding rate, cycle.py:426-429).
RefreshRow(w) ==
    /\ pc[w] = "exits" /\ Own(w) # {}
    /\ Write(w, Sees(w))
    /\ UNCHANGED <<pc, target, db, legs, ghosts>>

\* An unchanged rate sends no statement, so that the orders of a close may go out
\* before the session has the lock.
SendClose(w, b) ==
    /\ At(w, "exits", "close")
    /\ <<w, b>> \in Sees(w) /\ legs[w][b] > 0
    /\ target' = [target EXCEPT ![w] = {b}]
    /\ legs' = [legs EXCEPT ![w][b] = @ - 1]
    /\ UNCHANGED <<ghosts, tables>>

\* _mark_closed.
RecordClose(w) ==
    /\ At(w, "close", "exits")
    /\ Write(w, Sees(w) \ Unrecorded(w))
    /\ target' = [target EXCEPT ![w] = {}]
    /\ UNCHANGED <<db, legs, ghosts>>

EndExits(w) ==
    /\ At(w, "exits", "capacity")
    /\ UNCHANGED <<target, legs, ghosts, tables>>

\* The exposed positions the cap is compared with: those of every venue.
\* Wrong variant: those of the venue at hand.
CountedOwn(w) == Own(w)
Counted(w) == Sees(w)

CheckCapacity(w) ==
    /\ pc[w] = "capacity"
    /\ To(w, IF Cardinality(Counted(w)) >= MaxOpen THEN "snapshot" ELSE "order")
    /\ UnderLock(w, lock = w /\ pc'[w] = "order")
    /\ UNCHANGED <<target, legs, forgotten, tables>>

\* No candidate, or every one is held.
NoCandidate(w) ==
    /\ At(w, "order", "snapshot")
    /\ UnderLock(w, FALSE)
    /\ UNCHANGED <<target, legs, forgotten, tables>>

\* insert_rejection.
RejectCandidate(w) ==
    /\ At(w, "order", "snapshot")
    /\ Write(w, Sees(w))
    /\ UnderLock(w, FALSE)
    /\ UNCHANGED <<target, db, legs, forgotten>>

\* parallel_market_fok_entry succeeds.  Nothing has been flushed since the cap
\* was read.
SendEntry(w, b) ==
    /\ At(w, "order", "insert")
    /\ <<w, b>> \notin Own(w) /\ legs[w][b] < MaxPairs
    /\ target' = [target EXCEPT ![w] = {b}]
    /\ legs' = [legs EXCEPT ![w][b] = @ + 1]
    /\ UNCHANGED <<ghosts, tables>>

\* insert_position.
RecordEntry(w) ==
    /\ At(w, "insert", "snapshot")
    /\ Write(w, Sees(w) \cup Unrecorded(w))
    /\ target' = [target EXCEPT ![w] = {}]
    /\ UnderLock(w, FALSE)
    /\ UNCHANGED <<db, legs, forgotten>>

\* _write_balance_snapshot, and the flows of the hour.
RecordSnapshot(w) ==
    /\ At(w, "snapshot", "commit")
    /\ Write(w, Sees(w))
    /\ UNCHANGED <<target, db, legs, ghosts>>

\* The balance could not be fetched.
SkipSnapshot(w) ==
    /\ At(w, "snapshot", "commit")
    /\ UNCHANGED <<target, legs, ghosts, tables>>

\* session_scope.
Commit(w) ==
    /\ At(w, "commit", "idle")
    /\ IF lock = w THEN db' = view /\ view' = view /\ lock' = NoWorker
       ELSE UNCHANGED tables
    /\ UNCHANGED <<target, legs, ghosts>>

-----------------------------------------------------------------------------
(* What goes wrong. *)

\* Where the next flush of w sends a statement.
Flushing(w) ==
    pc[w] \in Sent \cup {"order", "snapshot"} \cup (IF Own(w) = {} THEN {} ELSE {"exits"})

\* busy_timeout has passed: the flush raises OperationalError, the log_event of
\* run_cycle's handler raises PendingRollbackError, and session_scope rolls back.
\* The session had no writes.
\* Wrong variant: the flush waits for as long as it takes.
LockedOutNever(w) == FALSE /\ UNCHANGED vars
LockedOut(w) ==
    /\ Flushing(w) /\ ~CanWrite(w)
    /\ To(w, "idle")
    /\ forgotten' = forgotten \cup Unrecorded(w)
    /\ target' = [target EXCEPT ![w] = {}]
    /\ UnderLock(w, FALSE)
    /\ UNCHANGED <<legs, tables>>

\* The process dies and starts again: SQLite rolls the open transaction back.
Restart ==
    /\ pc' = [w \in Workers |-> "idle"]
    /\ view' = db /\ lock' = NoWorker
    /\ underLock' = [w \in Workers |-> FALSE]
    /\ forgotten' = forgotten \cup (view \ db) \cup (db \ view)
                      \cup UNION {Unrecorded(w) : w \in Workers}
    /\ target' = [w \in Workers |-> {}]
    /\ UNCHANGED <<db, legs>>

Cycle(w) ==
    \/ StartCycle(w) \/ RefreshRow(w) \/ RecordClose(w) \/ EndExits(w)
    \/ CheckCapacity(w) \/ NoCandidate(w) \/ RejectCandidate(w) \/ RecordEntry(w)
    \/ RecordSnapshot(w) \/ SkipSnapshot(w) \/ Commit(w) \/ LockedOut(w)
    \/ \E b \in Bases : SendClose(w, b) \/ SendEntry(w, b)

Next == Restart \/ \E w \in Workers : Cycle(w)

Spec == Init /\ [][Next]_vars

\* A worker's thread goes on: its flush gets the lock, or its five seconds pass.
FairSpec ==
    /\ Spec
    /\ \A w \in Workers : WF_vars(Cycle(w) /\ pc'[w] # pc[w])

-----------------------------------------------------------------------------

\* cycle.py:492-496 reads the number of positions in one session and adds to it in
\* another's time.  However the workers interleave, and whatever is rolled back,
\* the cap is exceeded by at most one position for each other worker.
CapExceededByOthersOnly == Cardinality(db) <= MaxOpen + Cardinality(Workers) - 1

\* A worker that already held the write lock when it read the number of positions
\* (it had an open position to refresh, cycle.py:426-429) keeps to the cap exactly.
LockedCheckIsExact ==
    [][\A w \in Workers :
         underLock[w] /\ lock = w /\ pc[w] = "insert" /\ pc'[w] = "snapshot"
         => Cardinality(view') <= MaxOpen]_vars

\* Rows and legs agree for every position whose orders are all recorded, whatever
\* the other workers' sessions do, except for those a rolled-back session has
\* forgotten (db.py:70-81, cycle.py:814-862).  (With the types.)
RecordsMatchLegs ==
    /\ TypeOK
    /\ \A w \in Workers, b \in Bases :
           <<w, b>> \notin forgotten \cup Unrecorded(w)
           => legs[w][b] = IF <<w, b>> \in Sees(w) THEN 1 ELSE 0

\* The rows of one worker.
Of(w, table) == {b \in Bases : <<w, b>> \in table}

Alone(w) == INSTANCE WorkerAlone WITH
                committed <- Of(w, db), session <- Of(w, Sees(w)), legs <- legs[w],
                pending <- target[w], lost <- Of(w, forgotten)

\* Each worker works as if the file were its own: no step of another one, flush,
\* commit or error, is seen in its rows, its session's writes are committed or lost
\* as a whole, and no order is sent on rows that are not its own (db.py:70-81 and
\* the queries with exchange=).  This is Alone(w)!Spec for every w.
WorkersAreIsolated ==
    /\ \A w \in Workers : Alone(w)!Init
    /\ [][\A w \in Workers : [Alone(w)!Next]_(Alone(w)!vars)]_vars

\* No cycle waits for ever: three threads that all flush (db.py:42-48) share the
\* lock without a deadlock, and each cycle ends in a commit or an error.
CyclesEnd == \A w \in Workers : pc[w] # "idle" ~> pc[w] = "idle"

=============================================================================
