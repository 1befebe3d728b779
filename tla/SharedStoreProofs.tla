--------------------------- MODULE SharedStoreProofs ---------------------------
(***************************************************************************)
(* Theorems about SharedStore, for any number of workers and bases and any *)
(* cap.                                                                    *)
(***************************************************************************)
EXTENDS SharedStore, FiniteSetTheorems, TLAPS

\* What the orders of a worker are out for.
TargetsAgree ==
    \A w \in Workers :
        /\ pc[w] \notin Sent => target[w] = {}
        /\ pc[w] \in Sent => \E b \in Bases : target[w] = {b}

\* The legs of a position whose orders are out, unless an earlier order of it was
\* forgotten.
SentAgree ==
    \A w \in Workers, b \in Bases :
        b \in target[w] /\ <<w, b>> \notin forgotten =>
            /\ pc[w] = "close" => legs[w][b] = 0
            /\ pc[w] = "insert" => legs[w][b] = 1

\* A session changes rows of its own worker only.
OthersAgree == \A p \in Positions : p[1] # lock => (p \in view <=> p \in db)

\* The rows that count agree with the legs, in the session's table for the worker
\* with the lock and in the committed one for the others.
RowsAgree ==
    \A w \in Workers, b \in Bases :
        <<w, b>> \notin forgotten /\ b \notin target[w]
        => legs[w][b] = IF <<w, b>> \in Sees(w) THEN 1 ELSE 0

IInv == TypeOK /\ TargetsAgree /\ SentAgree /\ OthersAgree /\ RowsAgree

-----------------------------------------------------------------------------
\* No worker is the absence of one.
LEMMA NoWorkerIsNone == \A w \in Workers : w # NoWorker
BY StoreAssumption

\* A row of Sees is a row of its table.
LEMMA SeesRows == TypeOK => \A w \in Workers : Sees(w) \subseteq Positions
BY DEF TypeOK, Sees

\* The system before its first step.
LEMMA InitInductive == Init => IInv
BY StoreAssumption DEF Init, IInv, TypeOK, TargetsAgree, SentAgree, OthersAgree, RowsAgree,
   Positions, Steps, Sent, Sees

\* The steps that write no position.
Passing(w) ==
    \/ StartCycle(w) \/ EndExits(w) \/ CheckCapacity(w) \/ NoCandidate(w) \/ SkipSnapshot(w)
Touching(w) == RefreshRow(w) \/ RejectCandidate(w) \/ RecordSnapshot(w)

\* They keep the invariant.
LEMMA PassingInductive == ASSUME IInv, NEW w \in Workers, Passing(w) PROVE IInv'
<1> USE DEF IInv
<1>1. TypeOK'
  BY DEF TypeOK, Passing, StartCycle, EndExits, CheckCapacity, NoCandidate, SkipSnapshot, At, To,
     UnderLock, Steps, Sent, tables, ghosts
<1>2. TargetsAgree'
  BY DEF TypeOK, TargetsAgree, Passing, StartCycle, EndExits, CheckCapacity, NoCandidate,
     SkipSnapshot, At, To, Sent, tables, ghosts
<1>3. SentAgree'
  <2>1. target' = target /\ legs' = legs /\ forgotten' = forgotten
    BY DEF Passing, StartCycle, EndExits, CheckCapacity, NoCandidate, SkipSnapshot, ghosts
  <2>2. \A v \in Workers : pc'[v] # pc[v] => pc'[v] \notin Sent
    BY DEF TypeOK, Passing, StartCycle, EndExits, CheckCapacity, NoCandidate, SkipSnapshot, At, To,
       Sent
  <2> QED BY <2>1, <2>2 DEF SentAgree, Sent
<1>4. OthersAgree' /\ RowsAgree'
  BY DEF OthersAgree, RowsAgree, Sees, Passing, StartCycle, EndExits, CheckCapacity, NoCandidate,
     SkipSnapshot, tables, ghosts
<1> QED BY <1>1, <1>2, <1>3, <1>4

\* A flush that leaves the positions alone takes the lock.
LEMMA TouchingInductive == ASSUME IInv, NEW w \in Workers, Touching(w) PROVE IInv'
<1> USE DEF IInv
<1>1. lock' = w /\ (lock = w \/ lock = NoWorker) /\ view' = view /\ db' = db
  BY NoWorkerIsNone DEF TypeOK, Touching, RefreshRow, RejectCandidate, RecordSnapshot, Write,
     CanWrite, Sees
<1>2. target' = target /\ legs' = legs /\ forgotten' = forgotten
  BY DEF Touching, RefreshRow, RejectCandidate, RecordSnapshot, ghosts
<1>3. \A v \in Workers : pc'[v] # pc[v] => {pc[v], pc'[v]} \cap Sent = {}
  BY DEF TypeOK, Touching, RefreshRow, RejectCandidate, RecordSnapshot, At, To, Sent
<1>4. TypeOK'
  BY <1>1, NoWorkerIsNone DEF TypeOK, Touching, RefreshRow, RejectCandidate, RecordSnapshot, At,
     To, UnderLock, Steps, Sent, ghosts
<1>5. TargetsAgree' /\ SentAgree'
  BY <1>2, <1>3 DEF TargetsAgree, SentAgree, Sent
<1>6. OthersAgree' /\ RowsAgree'
  BY <1>1, <1>2 DEF TypeOK, OthersAgree, RowsAgree, Sees, Positions
<1> QED BY <1>4, <1>5, <1>6

\* Orders go out: the base becomes the target.
LEMMA SendInductive ==
    ASSUME IInv, NEW w \in Workers, NEW b \in Bases, SendClose(w, b) \/ SendEntry(w, b)
    PROVE  IInv'
<1> USE DEF IInv
<1>1. target[w] = {}
  BY DEF TargetsAgree, SendClose, SendEntry, At, Sent
<1>2. legs[w][b] \in 0 .. MaxPairs
  BY DEF TypeOK
<1>3. PICK n \in 0 .. MaxPairs :
        /\ legs' = [legs EXCEPT ![w] = [legs[w] EXCEPT ![b] = n]]
        /\ SendClose(w, b) => n = legs[w][b] - 1
        /\ SendEntry(w, b) => n = legs[w][b] + 1
  <2>1. CASE SendClose(w, b)
    <3>1. legs[w][b] - 1 \in 0 .. MaxPairs /\ ~SendEntry(w, b)
      BY <1>2, <2>1, StoreAssumption DEF SendClose, SendEntry, At
    <3> QED BY <2>1, <3>1 DEF SendClose
  <2>2. CASE SendEntry(w, b)
    <3>1. legs[w][b] + 1 \in 0 .. MaxPairs /\ ~SendClose(w, b)
      BY <1>2, <2>2, StoreAssumption DEF SendClose, SendEntry, At
    <3> QED BY <2>2, <3>1 DEF SendEntry
  <2> QED BY <2>1, <2>2
<1>4. /\ target' = [target EXCEPT ![w] = {b}]
      /\ pc' = [pc EXCEPT ![w] = pc'[w]]
      /\ pc'[w] = IF SendClose(w, b) THEN "close" ELSE "insert"
      /\ forgotten' = forgotten /\ underLock' = underLock
      /\ db' = db /\ view' = view /\ lock' = lock
  BY DEF TypeOK, SendClose, SendEntry, At, To, tables, ghosts
<1>5. TypeOK'
  <2>1. legs' \in [Workers -> [Bases -> 0 .. MaxPairs]]
    BY <1>3 DEF TypeOK
  <2> QED BY <1>4, <2>1 DEF TypeOK, Steps, Sent
<1>6. TargetsAgree'
  BY <1>4 DEF TypeOK, TargetsAgree, Sent
<1>7. SentAgree'
  <2> SUFFICES ASSUME NEW v \in Workers, NEW c \in Bases, c \in target'[v],
                      <<v, c>> \notin forgotten
               PROVE  /\ pc'[v] = "close" => legs'[v][c] = 0
                      /\ pc'[v] = "insert" => legs'[v][c] = 1
    BY <1>4 DEF SentAgree
  <2>1. CASE v = w
    <3>1. c = b /\ legs'[v][c] \in {legs[w][b] - 1, legs[w][b] + 1}
      BY <2>1, <1>3, <1>4 DEF TypeOK
    <3>2. <<w, b>> \in Positions
      BY DEF Positions
    <3>3. legs[w][b] = IF SendClose(w, b) THEN 1 ELSE 0
      BY <1>1, <2>1, <3>1, <3>2 DEF RowsAgree, SendClose, SendEntry, Own
    <3> QED BY <1>3, <1>4, <2>1, <3>1, <3>3 DEF TypeOK
  <2>2. CASE v # w
    BY <2>2, <1>3, <1>4 DEF TypeOK, SentAgree
  <2> QED BY <2>1, <2>2
<1>8. OthersAgree' /\ RowsAgree'
  <2>1. OthersAgree'
    BY <1>4 DEF OthersAgree
  <2>2. ASSUME NEW v \in Workers, NEW c \in Bases, <<v, c>> \notin forgotten, c \notin target'[v]
        PROVE  legs'[v][c] = legs[v][c] /\ c \notin target[v] /\ Sees(v)' = Sees(v)
    BY <2>2, <1>1, <1>3, <1>4 DEF TypeOK, Sees
  <2> QED BY <1>4, <2>1, <2>2 DEF RowsAgree
<1> QED BY <1>5, <1>6, <1>7, <1>8

\* What was sent is recorded.
LEMMA RecordInductive ==
    ASSUME IInv, NEW w \in Workers, RecordClose(w) \/ RecordEntry(w) PROVE IInv'
<1> USE DEF IInv
<1>1. PICK b \in Bases : target[w] = {b}
  BY DEF TargetsAgree, RecordClose, RecordEntry, At, Sent
<1>2. /\ lock' = w /\ (lock = w \/ lock = NoWorker) /\ db' = db
      /\ view' = IF pc[w] = "close" THEN view \ {<<w, b>>} ELSE view \cup {<<w, b>>}
      /\ pc[w] \in Sent /\ pc' = [pc EXCEPT ![w] = pc'[w]]
      /\ pc'[w] \in {"exits", "snapshot"}
  <2>1. {w} \X {b} = {<<w, b>>}
    OBVIOUS
  <2>2. CASE RecordClose(w)
    BY <1>1, <2>1, <2>2, NoWorkerIsNone DEF TypeOK, RecordClose, Write, CanWrite, Sees, Unrecorded,
       At, To, Sent
  <2>3. CASE RecordEntry(w)
    BY <1>1, <2>1, <2>3, NoWorkerIsNone DEF TypeOK, RecordEntry, Write, CanWrite, Sees, Unrecorded,
       At, To, Sent
  <2> QED BY <2>2, <2>3
<1>3. target' = [target EXCEPT ![w] = {}] /\ legs' = legs /\ forgotten' = forgotten
  BY DEF RecordClose, RecordEntry, ghosts
<1>4. TypeOK'
  <2>1. underLock' \in [Workers -> BOOLEAN]
    BY DEF TypeOK, RecordClose, RecordEntry, UnderLock, ghosts
  <2>2. view' \subseteq Positions /\ <<w, b>> \in Positions
    BY <1>2 DEF TypeOK, Positions
  <2>3. pc' \in [Workers -> Steps]
    BY <1>2 DEF TypeOK, Steps
  <2> QED BY <1>2, <1>3, <2>1, <2>2, <2>3, NoWorkerIsNone DEF TypeOK
<1>5. TargetsAgree' /\ SentAgree'
  BY <1>2, <1>3 DEF TypeOK, TargetsAgree, SentAgree, Sent
<1>6. OthersAgree'
  BY <1>1, <1>2 DEF TypeOK, OthersAgree, Positions
<1>7. RowsAgree'
  <2> SUFFICES ASSUME NEW v \in Workers, NEW c \in Bases, <<v, c>> \notin forgotten,
                      c \notin target'[v]
               PROVE  legs[v][c] = IF <<v, c>> \in Sees(v)' THEN 1 ELSE 0
    BY <1>3 DEF RowsAgree
  <2>1. CASE v = w /\ c = b
    BY <2>1, <1>1, <1>2 DEF SentAgree, Sees, Sent
  <2>2. CASE ~(v = w /\ c = b)
    <3>1. c \notin target[v]
      BY <2>2, <1>1, <1>3 DEF TypeOK
    <3>2. <<v, c>> \in Sees(v)' <=> <<v, c>> \in Sees(v)
      BY <2>2, <1>2 DEF TypeOK, Sees
    <3> QED BY <3>1, <3>2 DEF RowsAgree
  <2> QED BY <2>1, <2>2
<1> QED BY <1>4, <1>5, <1>6, <1>7

\* The commit publishes the session's table.
LEMMA CommitInductive == ASSUME IInv, NEW w \in Workers, Commit(w) PROVE IInv'
<1> USE DEF IInv
<1>1. TypeOK' /\ TargetsAgree' /\ SentAgree'
  <2>1. /\ pc' = [pc EXCEPT ![w] = "idle"] /\ pc[w] = "commit"
        /\ target' = target /\ legs' = legs /\ underLock' = underLock /\ forgotten' = forgotten
    BY DEF Commit, At, To, ghosts
  <2>2. TypeOK'
    BY <2>1 DEF TypeOK, Commit, Steps, tables
  <2>3. TargetsAgree' /\ SentAgree'
    BY <2>1 DEF TypeOK, TargetsAgree, SentAgree, Sent
  <2> QED BY <2>2, <2>3
<1>2. CASE lock = w
  <2>1. /\ db' = view /\ view' = view /\ lock' = NoWorker
        /\ target' = target /\ legs' = legs /\ forgotten' = forgotten
    BY <1>2 DEF Commit, ghosts
  <2>2. ASSUME NEW v \in Workers, NEW b \in Bases
        PROVE  <<v, b>> \in Sees(v)' <=> <<v, b>> \in Sees(v)
    <3>1. <<v, b>> \in Positions /\ <<v, b>>[1] = v
      BY DEF Positions
    <3>2. v # w => (<<v, b>> \in view <=> <<v, b>> \in db)
      BY <3>1, <1>2 DEF OthersAgree
    <3>3. Sees(v)' = view /\ Sees(v) = IF v = w THEN view ELSE db
      BY <1>2, <2>1, NoWorkerIsNone DEF Sees
    <3> QED BY <3>2, <3>3
  <2>3. RowsAgree'
    BY <2>1, <2>2 DEF RowsAgree
  <2> QED BY <1>1, <2>1, <2>3 DEF OthersAgree
<1>3. CASE lock # w
  <2>1. /\ db' = db /\ view' = view /\ lock' = lock
        /\ target' = target /\ legs' = legs /\ forgotten' = forgotten
    BY <1>3 DEF Commit, tables, ghosts
  <2> QED BY <1>1, <2>1 DEF OthersAgree, RowsAgree, Sees
<1> QED BY <1>1, <1>2, <1>3

\* A worker locked out forgets what it has sent.
LEMMA LockedOutInductive == ASSUME IInv, NEW w \in Workers, LockedOut(w) PROVE IInv'
<1> USE DEF IInv
<1>1. forgotten' \subseteq Positions /\ forgotten \subseteq forgotten'
  BY DEF TypeOK, LockedOut, Unrecorded, Positions
<1>2. TypeOK'
  BY <1>1 DEF TypeOK, LockedOut, To, UnderLock, Steps, tables
<1>3. TargetsAgree' /\ SentAgree'
  BY <1>1 DEF TypeOK, TargetsAgree, SentAgree, LockedOut, To, Sent
<1>4. OthersAgree' /\ RowsAgree'
  BY DEF TypeOK, OthersAgree, RowsAgree, Sees, Unrecorded, LockedOut, tables
<1> QED BY <1>2, <1>3, <1>4

\* A restart forgets what was sent and what was not committed.
LEMMA RestartInductive == ASSUME IInv, Restart PROVE IInv'
<1> USE DEF IInv
<1>1. forgotten' \subseteq Positions
  BY DEF TypeOK, Restart, Unrecorded, Positions
<1>2. TypeOK' /\ TargetsAgree' /\ SentAgree' /\ OthersAgree'
  BY <1>1 DEF TypeOK, TargetsAgree, SentAgree, OthersAgree, Restart, Steps, Sent
<1>3. RowsAgree'
  <2> SUFFICES ASSUME NEW v \in Workers, NEW b \in Bases, <<v, b>> \notin forgotten'
               PROVE  legs[v][b] = IF <<v, b>> \in db THEN 1 ELSE 0
    BY NoWorkerIsNone DEF RowsAgree, Sees, Restart
  <2>1. <<v, b>> \notin Unrecorded(v)
    BY DEF Restart
  <2>2. <<v, b>> \notin forgotten /\ b \notin target[v] /\ (<<v, b>> \in view <=> <<v, b>> \in db)
    BY <2>1 DEF Restart, Unrecorded
  <2> QED BY <2>2 DEF RowsAgree, Sees
<1> QED BY <1>2, <1>3

\* Every step keeps the invariant.
LEMMA NextInductive == IInv /\ [Next]_vars => IInv'
<1> SUFFICES ASSUME IInv, [Next]_vars PROVE IInv'
  OBVIOUS
<1>1. CASE Restart
  BY <1>1, RestartInductive
<1>2. ASSUME NEW w \in Workers, Cycle(w) PROVE IInv'
  BY <1>2, PassingInductive, TouchingInductive, SendInductive, RecordInductive, CommitInductive,
     LockedOutInductive DEF Cycle, Passing, Touching
<1>3. CASE UNCHANGED vars
  BY <1>3 DEF vars, IInv, TypeOK, TargetsAgree, SentAgree, OthersAgree, RowsAgree, Sees
<1> QED BY <1>1, <1>2, <1>3 DEF Next

\* The invariant holds always.
LEMMA Inductive == Spec => []IInv
BY InitInductive, NextInductive, PTL DEF Spec

\* With the types, rows and legs agree for every position whose orders are recorded and
\* that no rolled-back session has forgotten (db.py:70-81).
THEOREM RecordsAgree == Spec => []RecordsMatchLegs
<1>1. IInv => RecordsMatchLegs
  BY DEF IInv, RowsAgree, RecordsMatchLegs, Unrecorded
<1> QED BY <1>1, Inductive, PTL

-----------------------------------------------------------------------------
(* The cap.  A worker past the check counts as the position it may still add. *)

Adding == {w \in Workers : pc[w] \in {"order", "insert"}}
Limit == MaxOpen + Cardinality(Workers) - 1

\* The session's table leaves room for what may still be added, and is larger than
\* the committed one by at most the entry the session has made.
Room ==
    /\ Cardinality(db) <= Limit
    /\ Cardinality(view) + Cardinality(Adding) <= Limit
    /\ lock \in Workers =>
          Cardinality(view) <=
              Cardinality(db) + (IF pc[lock] \in {"snapshot", "commit"} THEN 1 ELSE 0)

\* A check made under the lock stays true until the position is in.
LockedRoom ==
    \A w \in Adding : underLock[w] => lock = w /\ Cardinality(view) < MaxOpen

CapInv == IInv /\ Room /\ LockedRoom

\* The tables and the set of workers past the check are finite.
LEMMA Finite ==
    ASSUME TypeOK
    PROVE  /\ IsFiniteSet(db) /\ Cardinality(db) \in Nat
           /\ IsFiniteSet(view) /\ Cardinality(view) \in Nat
           /\ IsFiniteSet(Adding) /\ Cardinality(Adding) \in Nat
           /\ Cardinality(Workers) \in Nat \ {0} /\ MaxOpen \in Nat \ {0}
           /\ Cardinality(Adding) <= Cardinality(Workers)
<1>1. IsFiniteSet(Positions)
  BY StoreAssumption, FS_Product DEF Positions
<1>2. IsFiniteSet(db) /\ IsFiniteSet(view)
  BY <1>1, FS_Subset DEF TypeOK
<1>3. Adding \in SUBSET Workers
  BY DEF Adding
<1>4. IsFiniteSet(Adding) /\ Cardinality(Adding) <= Cardinality(Workers)
  BY <1>3, StoreAssumption, FS_Subset
<1>5. Cardinality(Workers) \in Nat /\ Cardinality(Workers) # 0
  BY StoreAssumption, FS_CardinalityType, FS_EmptySet
<1> QED BY <1>2, <1>4, <1>5, StoreAssumption, FS_CardinalityType

\* One worker that is not past the check leaves a place.
LEMMA OneNotAdding ==
    ASSUME NEW w \in Workers, NEW A \in SUBSET (Workers \ {w})
    PROVE  Cardinality(A) \in Nat /\ Cardinality(A) <= Cardinality(Workers) - 1
<1>1. IsFiniteSet(Workers \ {w}) /\ Cardinality(Workers \ {w}) = Cardinality(Workers) - 1
  BY StoreAssumption, FS_RemoveElement
<1> QED BY <1>1, FS_Subset, FS_CardinalityType

\* With fewer workers past the check, or as many, and the same rows there is as
\* much room as before.
LEMMA FewerAdding ==
    ASSUME TypeOK, Room, view' = view, Adding' \subseteq Adding
    PROVE  Cardinality(view') + Cardinality(Adding)' <= Limit
<1>1. Cardinality(Adding)' \in Nat /\ Cardinality(Adding)' <= Cardinality(Adding)
  BY Finite, FS_Subset, FS_CardinalityType
<1> QED BY <1>1, Finite DEF Room, Limit

\* The steps of w that add no position, remove none and pass no check.
Waiting(w) ==
    \/ StartCycle(w) \/ RefreshRow(w) \/ EndExits(w) \/ NoCandidate(w) \/ RejectCandidate(w)
    \/ RecordSnapshot(w) \/ SkipSnapshot(w) \/ LockedOut(w)
    \/ \E b \in Bases : SendClose(w, b) \/ SendEntry(w, b)
    \/ CheckCapacity(w) /\ pc'[w] = "snapshot"

\* They keep the room.
LEMMA WaitingKeepsRoom ==
    ASSUME CapInv, NEW w \in Workers, Waiting(w) PROVE Room' /\ LockedRoom'
<1> USE DEF CapInv, IInv
<1>1. view' = view /\ db' = db
  BY DEF TypeOK, Waiting, StartCycle, RefreshRow, EndExits, NoCandidate, RejectCandidate,
     RecordSnapshot, SkipSnapshot, LockedOut, SendClose, SendEntry, CheckCapacity, Write, CanWrite,
     Sees, tables
<1>2. lock' = lock \/ (lock = NoWorker /\ lock' = w)
  BY DEF TypeOK, Waiting, StartCycle, RefreshRow, EndExits, NoCandidate, RejectCandidate,
     RecordSnapshot, SkipSnapshot, LockedOut, SendClose, SendEntry, CheckCapacity, Write, CanWrite,
     tables
<1>3. \A v \in Workers : v # w => pc'[v] = pc[v] /\ underLock'[v] = underLock[v]
  BY DEF TypeOK, Waiting, StartCycle, RefreshRow, EndExits, NoCandidate, RejectCandidate,
     RecordSnapshot, SkipSnapshot, LockedOut, SendClose, SendEntry, CheckCapacity, At, To,
     UnderLock, ghosts
<1>4. /\ pc'[w] \in {"order", "insert"} => pc[w] \in {"order", "insert"}
      /\ pc'[w] \in {"order", "insert"} => underLock'[w] = underLock[w]
  BY DEF TypeOK, Waiting, StartCycle, RefreshRow, EndExits, NoCandidate, RejectCandidate,
     RecordSnapshot, SkipSnapshot, LockedOut, SendClose, SendEntry, CheckCapacity, At, To,
     UnderLock, ghosts
<1>5. lock = w /\ pc[w] \in {"snapshot", "commit"} => pc'[w] \in {"snapshot", "commit"}
  BY DEF TypeOK, Waiting, StartCycle, RefreshRow, EndExits, NoCandidate, RejectCandidate,
     RecordSnapshot, SkipSnapshot, LockedOut, SendClose, SendEntry, CheckCapacity, At, To, CanWrite
<1>6. Adding' \subseteq Adding
  BY <1>3, <1>4 DEF Adding
<1>7. Cardinality(view') + Cardinality(Adding)' <= Limit
  BY <1>1, <1>6, FewerAdding
<1>8. lock' \in Workers =>
        Cardinality(view') <=
            Cardinality(db') + (IF pc'[lock'] \in {"snapshot", "commit"} THEN 1 ELSE 0)
  <2>1. CASE lock' = lock
    BY <2>1, <1>1, <1>3, <1>5, Finite DEF Room
  <2>2. CASE lock = NoWorker /\ lock' = w
    BY <2>2, <1>1, Finite DEF TypeOK
  <2> QED BY <2>1, <2>2, <1>2
<1>9. Room'
  BY <1>1, <1>7, <1>8 DEF Room, Limit
<1>10. LockedRoom'
  BY <1>1, <1>2, <1>3, <1>4, <1>6, NoWorkerIsNone DEF LockedRoom, Adding
<1> QED BY <1>9, <1>10

\* The worker passes the check.
LEMMA CheckKeepsRoom ==
    ASSUME CapInv, NEW w \in Workers, CheckCapacity(w), pc'[w] # "snapshot"
    PROVE  Room' /\ LockedRoom'
<1> USE DEF CapInv, IInv
<1>1. /\ view' = view /\ db' = db /\ lock' = lock
      /\ pc[w] = "capacity" /\ pc' = [pc EXCEPT ![w] = "order"]
      /\ underLock' = [underLock EXCEPT ![w] = (lock = w)]
      /\ ~(Cardinality(Sees(w)) >= MaxOpen)
  BY DEF TypeOK, CheckCapacity, Counted, To, UnderLock, tables
<1>2. TypeOK'
  BY PassingInductive DEF Passing
<1>3. Cardinality(view) + Cardinality(Adding)' <= Limit
  <2>1. CASE lock \in Workers /\ pc[lock] \in {"snapshot", "commit"}
    <3>1. lock # w /\ Adding' \in SUBSET (Workers \ {lock})
      BY <2>1, <1>1 DEF TypeOK, Adding
    <3>2. Cardinality(view) <= Cardinality(db) + 1 /\ Cardinality(db) < MaxOpen
      BY <3>1, <2>1, <1>1, Finite DEF Room, Sees
    <3>3. Cardinality(Adding') \in Nat /\ Cardinality(Adding') <= Cardinality(Workers) - 1
      BY <3>1, <2>1, OneNotAdding
    <3> QED BY <3>2, <3>3, Finite DEF Limit
  <2>2. CASE ~(lock \in Workers /\ pc[lock] \in {"snapshot", "commit"})
    <3>1. Cardinality(view) < MaxOpen
      BY <2>2, <1>1, Finite DEF TypeOK, Room, Sees
    <3>2. Cardinality(Adding)' \in Nat /\ Cardinality(Adding)' <= Cardinality(Workers)
      <4>1. Adding' \in SUBSET Workers
        BY DEF Adding
      <4> QED BY <4>1, StoreAssumption, FS_Subset, FS_CardinalityType
    <3> QED BY <3>1, <3>2, Finite DEF Limit
  <2> QED BY <2>1, <2>2
<1>4. Room'
  BY <1>1, <1>3, Finite DEF TypeOK, Room, Limit
<1>5. LockedRoom'
  <2> SUFFICES ASSUME NEW v \in Adding', underLock'[v]
               PROVE  lock = v /\ Cardinality(view) < MaxOpen
    BY <1>1 DEF LockedRoom
  <2>1. v \in Workers
    BY DEF Adding
  <2>2. CASE v = w
    <3>1. lock = w
      BY <2>2, <1>1 DEF TypeOK
    <3>2. ~(Cardinality(view) >= MaxOpen)
      BY <3>1, <1>1 DEF Sees
    <3> QED BY <2>2, <3>1, <3>2, Finite
  <2>3. CASE v # w
    BY <2>1, <2>3, <1>1 DEF TypeOK, LockedRoom, Adding
  <2> QED BY <2>2, <2>3
<1> QED BY <1>4, <1>5

\* A position is removed or added.
LEMMA RecordKeepsRoom ==
    ASSUME CapInv, NEW w \in Workers, RecordClose(w) \/ RecordEntry(w)
    PROVE  /\ Room' /\ LockedRoom'
           /\ lock = w /\ pc[w] = "insert" /\ underLock[w] => Cardinality(view') <= MaxOpen
<1> USE DEF CapInv, IInv
<1>1. PICK b \in Bases : target[w] = {b}
  BY DEF TargetsAgree, RecordClose, RecordEntry, At, Sent
<1>2. /\ lock' = w /\ (lock = w \/ (lock = NoWorker /\ view = db)) /\ db' = db
      /\ pc' = [pc EXCEPT ![w] = IF pc[w] = "close" THEN "exits" ELSE "snapshot"]
      /\ pc[w] \in Sent
      /\ view' = IF pc[w] = "close" THEN view \ {<<w, b>>} ELSE view \cup {<<w, b>>}
      /\ \A v \in Workers : v # w => underLock'[v] = underLock[v]
  <2>1. {w} \X {b} = {<<w, b>>}
    OBVIOUS
  <2>2. CASE RecordClose(w)
    BY <1>1, <2>1, <2>2, NoWorkerIsNone DEF TypeOK, RecordClose, Write, CanWrite, Sees, Unrecorded,
       At, To, Sent, ghosts
  <2>3. CASE RecordEntry(w)
    BY <1>1, <2>1, <2>3, NoWorkerIsNone DEF TypeOK, RecordEntry, Write, CanWrite, Sees, Unrecorded,
       At, To, UnderLock, Sent
  <2> QED BY <2>2, <2>3
<1>3. \A v \in Adding : v # w => ~underLock[v]
  BY <1>2, NoWorkerIsNone DEF LockedRoom, Adding
<1>4. LockedRoom'
  BY <1>2, <1>3 DEF TypeOK, LockedRoom, Adding
<1>5. Cardinality(view) <= Cardinality(db)
  BY <1>2, Finite DEF Room, Sent
<1>6. CASE pc[w] = "close"
  <2>1. Adding' = Adding
    BY <1>2, <1>6 DEF TypeOK, Adding
  <2>2. Cardinality(view') \in Nat /\ Cardinality(view') <= Cardinality(view)
    <3>1. view' = view \ {<<w, b>>} /\ IsFiniteSet(view)
      BY <1>2, <1>6, Finite
    <3>2. /\ IsFiniteSet(view \ {<<w, b>>})
          /\ Cardinality(view \ {<<w, b>>}) \in {Cardinality(view), Cardinality(view) - 1}
      BY <3>1, FS_RemoveElement
    <3>3. Cardinality(view \ {<<w, b>>}) \in Nat
      BY <3>2, FS_CardinalityType
    <3> QED BY <3>1, <3>2, <3>3, Finite
  <2>3. Room'
    BY <1>2, <1>5, <1>6, <2>1, <2>2, Finite DEF TypeOK, Room, Limit
  <2> QED BY <1>4, <1>6, <2>3
<1>7. CASE pc[w] = "insert"
  <2>1. Adding' = Adding \ {w} /\ w \in Adding
    BY <1>2, <1>7 DEF TypeOK, Adding
  <2>2. Cardinality(Adding') = Cardinality(Adding) - 1
    BY <2>1, Finite, FS_RemoveElement
  <2>3. Cardinality(view') \in Nat /\ Cardinality(view') <= Cardinality(view) + 1
    <3>1. view' = view \cup {<<w, b>>} /\ IsFiniteSet(view)
      BY <1>2, <1>7, Finite
    <3>2. /\ IsFiniteSet(view \cup {<<w, b>>})
          /\ Cardinality(view \cup {<<w, b>>}) \in {Cardinality(view), Cardinality(view) + 1}
      BY <3>1, FS_AddElement
    <3>3. Cardinality(view \cup {<<w, b>>}) \in Nat
      BY <3>2, FS_CardinalityType
    <3> QED BY <3>1, <3>2, <3>3, Finite
  <2>4. Room'
    BY <1>2, <1>5, <1>7, <2>2, <2>3, Finite DEF TypeOK, Room, Limit
  <2>5. underLock[w] => Cardinality(view') <= MaxOpen
    BY <2>1, <2>3, Finite DEF LockedRoom
  <2> QED BY <1>4, <2>4, <2>5
<1> QED BY <1>2, <1>6, <1>7 DEF Sent

\* The session's table is committed, or there is none.
LEMMA CommitKeepsRoom ==
    ASSUME CapInv, NEW w \in Workers, Commit(w) PROVE Room' /\ LockedRoom'
<1> USE DEF CapInv, IInv
<1>1. /\ pc[w] = "commit" /\ pc' = [pc EXCEPT ![w] = "idle"] /\ view' = view
      /\ underLock' = underLock
      /\ \/ lock = w /\ db' = view /\ lock' = NoWorker
         \/ lock # w /\ db' = db /\ lock' = lock
  BY DEF Commit, At, To, tables, ghosts
<1>2. Adding' = Adding
  BY <1>1 DEF TypeOK, Adding
<1>3. LockedRoom'
  BY <1>1, <1>2, NoWorkerIsNone DEF TypeOK, LockedRoom, Adding
<1>4. Cardinality(view) <= Limit
  BY Finite DEF Room, Limit
<1>5. Room'
  BY <1>1, <1>2, <1>4, StoreAssumption, Finite DEF TypeOK, Room, Limit
<1> QED BY <1>3, <1>5

\* Nobody is past the check after a restart.
LEMMA RestartKeepsRoom == ASSUME CapInv, Restart PROVE Room' /\ LockedRoom'
<1> USE DEF CapInv, IInv
<1>1. /\ Adding' = {} /\ view' = db /\ db' = db /\ lock' = NoWorker
  BY DEF Restart, Adding
<1>2. Cardinality({}) = 0
  BY FS_EmptySet
<1> QED BY <1>1, <1>2, StoreAssumption, Finite DEF Room, LockedRoom, Limit

\* Every step keeps the room.
LEMMA CapInductive == CapInv /\ [Next]_vars => CapInv'
<1> SUFFICES ASSUME CapInv, [Next]_vars PROVE Room' /\ LockedRoom'
  BY NextInductive DEF CapInv
<1>1. CASE Restart
  BY <1>1, RestartKeepsRoom
<1>2. ASSUME NEW w \in Workers, Cycle(w) PROVE Room' /\ LockedRoom'
  <2>1. CASE CheckCapacity(w) /\ pc'[w] # "snapshot"
    BY <2>1, CheckKeepsRoom
  <2>2. CASE ~(CheckCapacity(w) /\ pc'[w] # "snapshot")
    BY <1>2, <2>2, WaitingKeepsRoom, RecordKeepsRoom, CommitKeepsRoom DEF Cycle, Waiting
  <2> QED BY <2>1, <2>2
<1>3. CASE UNCHANGED vars
  BY <1>3 DEF vars, CapInv, Room, LockedRoom, Adding, Limit
<1> QED BY <1>1, <1>2, <1>3 DEF Next

\* The room is there at the start.
LEMMA CapInit == Init => CapInv
<1> SUFFICES ASSUME Init PROVE Room /\ LockedRoom
  BY InitInductive DEF CapInv
<1>1. Adding = {} /\ Cardinality({}) = 0
  BY FS_EmptySet DEF Init, Adding
<1>2. TypeOK
  BY InitInductive DEF IInv
<1> QED BY <1>1, <1>2, StoreAssumption, Finite DEF Init, Room, LockedRoom, Limit

\* The room is there always.
LEMMA CapAlways == Spec => []CapInv
BY CapInit, CapInductive, PTL DEF Spec

\* The cap on open positions is exceeded by at most one position for each other
\* worker of the mode (cycle.py:492-496).
THEOREM CapExceeded == Spec => []CapExceededByOthersOnly
<1>1. CapInv => CapExceededByOthersOnly
  BY DEF CapInv, Room, Limit, CapExceededByOthersOnly
<1> QED BY <1>1, CapAlways, PTL

\* A cap that was read under the write lock is kept exactly.
THEOREM LockedExact == Spec => LockedCheckIsExact
<1>1. ASSUME CapInv, [Next]_vars
      PROVE  [\A w \in Workers :
                underLock[w] /\ lock = w /\ pc[w] = "insert" /\ pc'[w] = "snapshot"
                => Cardinality(view') <= MaxOpen]_vars
  <2> SUFFICES ASSUME Next, NEW w \in Workers, underLock[w], lock = w, pc[w] = "insert",
                      pc'[w] = "snapshot"
               PROVE  Cardinality(view') <= MaxOpen
    BY <1>1
  <2>1. RecordEntry(w)
    <3>1. TypeOK
      BY <1>1 DEF CapInv, IInv
    <3>2. ~Restart
      BY <3>1 DEF Restart
    <3>3. PICK v \in Workers : Cycle(v)
      BY <3>2 DEF Next
    <3>4. v = w
      BY <3>1, <3>3 DEF TypeOK, Cycle, StartCycle, RefreshRow, SendClose, RecordClose, EndExits,
         CheckCapacity, NoCandidate, RejectCandidate, SendEntry, RecordEntry, RecordSnapshot,
         SkipSnapshot, Commit, LockedOut, At, To
    <3> QED BY <3>1, <3>3, <3>4 DEF TypeOK, Cycle, StartCycle, RefreshRow, SendClose, RecordClose,
         EndExits, CheckCapacity, NoCandidate, RejectCandidate, SendEntry, RecordSnapshot,
         SkipSnapshot, Commit, LockedOut, CanWrite, At, To
  <2> QED BY <1>1, <2>1, RecordKeepsRoom
<1> QED BY <1>1, CapAlways, PTL DEF Spec, LockedCheckIsExact

-----------------------------------------------------------------------------
(* Each worker implements WorkerAlone. *)

\* A close is out for a position that the session has, an entry for one that it has not.
TargetsFit ==
    \A w \in Workers : \A b \in target[w] : <<w, b>> \in Sees(w) <=> pc[w] = "close"

AloneInv == IInv /\ TargetsFit

\* A worker in whose rows nothing changes stutters.
AsBefore(v) ==
    /\ target'[v] = target[v] /\ legs'[v] = legs[v]
    /\ Of(v, db)' = Of(v, db) /\ Of(v, Sees(v))' = Of(v, Sees(v))
    /\ Of(v, forgotten)' = Of(v, forgotten)

\* It takes a step of WorkerAlone or none.
Implements(v) == [Alone(v)!Next]_(Alone(v)!vars)

\* Rows, legs and orders of v that a step leaves alone are a stutter of WorkerAlone.
LEMMA AsBeforeStutters ==
    ASSUME NEW v \in Workers, AsBefore(v)
    PROVE  Implements(v)
BY DEF AsBefore, Implements, Alone!vars

\* The rows of another worker than the one whose session it is are as committed.
LEMMA OthersSee ==
    ASSUME IInv, NEW v \in Workers
    PROVE  /\ Of(v, Sees(v)) = Of(v, view)
           /\ v # lock => Of(v, view) = Of(v, db)
<1>1. \A b \in Bases : <<v, b>> \in Positions /\ <<v, b>>[1] = v
  BY DEF Positions
<1>2. v # lock => Of(v, view) = Of(v, db)
  BY <1>1 DEF IInv, OthersAgree, Of
<1> QED BY <1>2 DEF Sees

\* A flush that leaves the positions alone, and a step without one, are seen by nobody.
LEMMA QuietIsolated ==
    ASSUME AloneInv, NEW w \in Workers, Passing(w) \/ Touching(w)
    PROVE  TargetsFit' /\ \A v \in Workers : Implements(v)
<1>1. IInv
  BY DEF AloneInv
<1>2. /\ view' = view /\ db' = db /\ target' = target /\ legs' = legs /\ forgotten' = forgotten
      /\ lock' = lock \/ (lock = NoWorker /\ lock' = w)
      /\ \A v \in Workers : pc'[v] # pc[v] => {pc[v], pc'[v]} \cap Sent = {}
  <2>1. CASE Passing(w)
    BY <1>1, <2>1 DEF IInv, TypeOK, Passing, StartCycle, EndExits, CheckCapacity, NoCandidate,
       SkipSnapshot, At, To, Sent, tables, ghosts
  <2>2. CASE Touching(w)
    BY <1>1, <2>2, NoWorkerIsNone DEF IInv, TypeOK, Touching, RefreshRow, RejectCandidate,
       RecordSnapshot, Write, CanWrite, Sees, At, To, Sent, ghosts
  <2> QED BY <2>1, <2>2
<1>3. \A v \in Workers : Sees(v)' = Sees(v)
  BY <1>1, <1>2, NoWorkerIsNone DEF IInv, TypeOK, Sees
<1>4. TargetsFit'
  BY <1>2, <1>3 DEF AloneInv, TargetsFit, Sent
<1>5. \A v \in Workers : AsBefore(v)
  BY <1>2, <1>3 DEF AsBefore, Of
<1> QED BY <1>4, <1>5, AsBeforeStutters

\* Orders go out on the rows of the worker's own session.
LEMMA SendIsolated ==
    ASSUME AloneInv, NEW w \in Workers, NEW b \in Bases, SendClose(w, b) \/ SendEntry(w, b)
    PROVE  TargetsFit' /\ \A v \in Workers : Implements(v)
<1>1. IInv /\ TypeOK
  BY DEF AloneInv, IInv
<1>2. /\ target[w] = {} /\ target' = [target EXCEPT ![w] = {b}]
      /\ db' = db /\ view' = view /\ lock' = lock /\ forgotten' = forgotten
      /\ \A v \in Workers : v # w => pc'[v] = pc[v]
  BY <1>1 DEF IInv, TypeOK, TargetsAgree, SendClose, SendEntry, At, To, Sent, tables, ghosts
<1>3. \A v \in Workers : Sees(v)' = Sees(v)
  BY <1>2 DEF Sees
<1>4. <<w, b>> \in Sees(w) <=> pc'[w] = "close"
  BY <1>1 DEF TypeOK, SendClose, SendEntry, Own, At, To
<1>5. TargetsFit'
  BY <1>1, <1>2, <1>3, <1>4 DEF AloneInv, TypeOK, TargetsFit
<1>6. ASSUME NEW v \in Workers, v # w PROVE Implements(v)
  <2>1. legs'[v] = legs[v] /\ target'[v] = target[v]
    BY <1>1, <1>2, <1>6 DEF TypeOK, SendClose, SendEntry
  <2> QED BY <1>2, <1>3, <2>1, AsBeforeStutters DEF AsBefore, Of
<1>7. Implements(w)
  <2>1. /\ target'[w] = {b} /\ Of(w, db)' = Of(w, db) /\ Of(w, Sees(w))' = Of(w, Sees(w))
        /\ Of(w, forgotten)' = Of(w, forgotten)
    BY <1>1, <1>2, <1>3 DEF TypeOK, Of
  <2>2. \/ b \in Of(w, Sees(w)) /\ legs[w][b] > 0 /\ legs'[w] = [legs[w] EXCEPT ![b] = @ - 1]
        \/ b \notin Of(w, Sees(w)) /\ legs[w][b] < MaxPairs /\ legs'[w] = [legs[w] EXCEPT ![b] = @ + 1]
    BY <1>1 DEF TypeOK, SendClose, SendEntry, Own, Of
  <2>3. Alone(w)!Send(b)
    BY <1>2, <2>1, <2>2 DEF Alone!Send, Alone!Close, Alone!Enter
  <2> QED BY <2>3 DEF Implements, Alone!Next
<1> QED BY <1>5, <1>6, <1>7

\* What was sent is recorded in the rows of the worker, and in no other's.
LEMMA RecordIsolated ==
    ASSUME AloneInv, NEW w \in Workers, RecordClose(w) \/ RecordEntry(w)
    PROVE  TargetsFit' /\ \A v \in Workers : Implements(v)
<1>1. IInv /\ TypeOK /\ TargetsFit
  BY DEF AloneInv, IInv
<1>2. PICK b \in Bases : target[w] = {b}
  BY <1>1 DEF IInv, TargetsAgree, RecordClose, RecordEntry, At, Sent
<1>3. /\ lock' = w /\ (lock = w \/ (lock = NoWorker /\ view = db)) /\ db' = db
      /\ view' = IF pc[w] = "close" THEN view \ {<<w, b>>} ELSE view \cup {<<w, b>>}
      /\ target' = [target EXCEPT ![w] = {}] /\ legs' = legs /\ forgotten' = forgotten
      /\ \A v \in Workers : v # w => pc'[v] = pc[v]
  <2>1. {w} \X {b} = {<<w, b>>}
    OBVIOUS
  <2>2. CASE RecordClose(w)
    BY <1>1, <1>2, <2>1, <2>2, NoWorkerIsNone DEF TypeOK, RecordClose, Write, CanWrite, Sees,
       Unrecorded, At, To, Sent, ghosts
  <2>3. CASE RecordEntry(w)
    BY <1>1, <1>2, <2>1, <2>3, NoWorkerIsNone DEF TypeOK, RecordEntry, Write, CanWrite, Sees,
       Unrecorded, At, To, Sent
  <2> QED BY <2>2, <2>3
<1>4. Sees(w) = view /\ Sees(w)' = view'
  BY <1>3 DEF Sees
<1>5. \A v \in Workers : v # w => Sees(v) = db /\ Sees(v)' = db
  BY <1>3, NoWorkerIsNone DEF Sees
<1>6. TargetsFit'
  BY <1>1, <1>3, <1>5 DEF TypeOK, TargetsFit
<1>7. ASSUME NEW v \in Workers, v # w PROVE Implements(v)
  <2>1. target'[v] = target[v]
    BY <1>1, <1>3, <1>7 DEF TypeOK
  <2> QED BY <1>3, <1>5, <1>7, <2>1, AsBeforeStutters DEF AsBefore, Of
<1>8. Implements(w)
  <2>1. b \in Of(w, Sees(w)) <=> pc[w] = "close"
    BY <1>1, <1>2 DEF TargetsFit, Of
  <2>2. Of(w, Sees(w))' = (Of(w, Sees(w)) \ {b}) \cup ({b} \ Of(w, Sees(w)))
    BY <1>3, <1>4, <2>1 DEF Of
  <2>3. /\ target'[w] = {} /\ legs'[w] = legs[w] /\ Of(w, db)' = Of(w, db)
        /\ Of(w, forgotten)' = Of(w, forgotten)
    BY <1>1, <1>3 DEF TypeOK, Of
  <2>4. Alone(w)!Record
    BY <1>2, <2>2, <2>3 DEF Alone!Record, Alone!Differ
  <2> QED BY <2>4 DEF Implements, Alone!Next
<1> QED BY <1>6, <1>7, <1>8

\* A commit publishes the rows of the worker, and changes no other's.
LEMMA CommitIsolated ==
    ASSUME AloneInv, NEW w \in Workers, Commit(w)
    PROVE  TargetsFit' /\ \A v \in Workers : Implements(v)
<1>1. IInv /\ TypeOK /\ TargetsFit
  BY DEF AloneInv, IInv
<1>2. /\ target[w] = {} /\ target' = target /\ legs' = legs /\ forgotten' = forgotten
      /\ \A v \in Workers : v # w => pc'[v] = pc[v]
      /\ \/ lock = w /\ db' = view /\ view' = view /\ lock' = NoWorker
         \/ lock # w /\ db' = db /\ view' = view /\ lock' = lock
  BY <1>1 DEF IInv, TypeOK, TargetsAgree, Commit, At, To, Sent, tables, ghosts
<1>3. ASSUME NEW v \in Workers
      PROVE  /\ Of(v, Sees(v))' = Of(v, Sees(v))
             /\ v # w => Of(v, db)' = Of(v, db)
             /\ v = w => Of(v, db)' \in {Of(v, db), Of(v, Sees(v))}
  BY <1>1, <1>2, OthersSee, NoWorkerIsNone DEF Sees, Of
<1>4. TargetsFit'
  <2> SUFFICES ASSUME NEW v \in Workers, NEW b \in target[v]
               PROVE  <<v, b>> \in Sees(v)' <=> pc'[v] = "close"
    BY <1>2 DEF TargetsFit
  <2>1. v # w /\ b \in Bases
    BY <1>1, <1>2 DEF TypeOK
  <2>2. b \in Of(v, Sees(v))' <=> b \in Of(v, Sees(v))
    BY <1>3
  <2>3. <<v, b>> \in Sees(v)' <=> <<v, b>> \in Sees(v)
    BY <2>1, <2>2 DEF Of
  <2> QED BY <1>1, <1>2, <2>1, <2>3 DEF TargetsFit
<1>5. ASSUME NEW v \in Workers PROVE Implements(v)
  <2>1. target'[v] = target[v] /\ legs'[v] = legs[v] /\ Of(v, forgotten)' = Of(v, forgotten)
    BY <1>2 DEF Of
  <2>2. CASE Of(v, db)' = Of(v, db)
    BY <1>3, <2>1, <2>2, AsBeforeStutters DEF AsBefore
  <2>3. CASE v = w /\ Of(v, db)' = Of(v, Sees(v))
    <3>1. Alone(v)!Commit
      BY <1>2, <1>3, <2>1, <2>3 DEF Alone!Commit
    <3> QED BY <3>1 DEF Implements, Alone!Next
  <2> QED BY <1>3, <2>2, <2>3
<1> QED BY <1>4, <1>5

\* A worker that is locked out rolls back alone.
LEMMA LockedOutIsolated ==
    ASSUME AloneInv, NEW w \in Workers, LockedOut(w)
    PROVE  TargetsFit' /\ \A v \in Workers : Implements(v)
<1>1. IInv /\ TypeOK /\ TargetsFit
  BY DEF AloneInv, IInv
<1>2. /\ target' = [target EXCEPT ![w] = {}] /\ legs' = legs
      /\ forgotten' = forgotten \cup ({w} \X target[w])
      /\ db' = db /\ view' = view /\ lock' = lock /\ lock # w
      /\ \A v \in Workers : v # w => pc'[v] = pc[v]
  BY <1>1 DEF TypeOK, LockedOut, CanWrite, Unrecorded, To, tables
<1>3. \A v \in Workers : Sees(v)' = Sees(v)
  BY <1>2 DEF Sees
<1>4. TargetsFit'
  BY <1>1, <1>2, <1>3 DEF TypeOK, TargetsFit
<1>5. ASSUME NEW v \in Workers, v # w PROVE Implements(v)
  <2>1. target'[v] = target[v] /\ Of(v, forgotten)' = Of(v, forgotten)
    BY <1>1, <1>2, <1>5 DEF TypeOK, Of
  <2> QED BY <1>2, <1>3, <2>1, AsBeforeStutters DEF AsBefore, Of
<1>6. Implements(w)
  <2>1. /\ Of(w, Sees(w)) = Of(w, db) /\ Of(w, Sees(w))' = Of(w, db) /\ Of(w, db)' = Of(w, db)
    BY <1>2, <1>3 DEF Sees, Of
  <2>2. target[w] \subseteq Bases /\ target'[w] = {} /\ legs'[w] = legs[w]
    BY <1>1, <1>2 DEF TypeOK
  <2>3. Of(w, forgotten)' = Of(w, forgotten) \cup target[w]
    BY <1>2, <2>2 DEF Of
  <2>4. Alone(w)!RollBack
    BY <2>1, <2>2, <2>3 DEF Alone!RollBack, Alone!Differ
  <2> QED BY <2>4 DEF Implements, Alone!Next
<1> QED BY <1>4, <1>5, <1>6

\* A restart rolls every worker back.
LEMMA RestartIsolated ==
    ASSUME AloneInv, Restart
    PROVE  TargetsFit' /\ \A v \in Workers : Implements(v)
<1>1. IInv /\ TypeOK
  BY DEF AloneInv, IInv
<1>2. /\ target' = [w \in Workers |-> {}] /\ legs' = legs /\ db' = db /\ view' = db /\ lock' = NoWorker
      /\ forgotten' = forgotten \cup (view \ db) \cup (db \ view)
                        \cup UNION {{w} \X target[w] : w \in Workers}
  BY DEF Restart, Unrecorded
<1>3. TargetsFit'
  BY <1>2 DEF TargetsFit
<1>4. ASSUME NEW v \in Workers PROVE Implements(v)
  <2>1. /\ Of(v, Sees(v)) = Of(v, view) /\ Of(v, Sees(v))' = Of(v, db) /\ Of(v, db)' = Of(v, db)
        /\ target'[v] = {} /\ legs'[v] = legs[v] /\ target[v] \subseteq Bases
    BY <1>1, <1>2, <1>4, OthersSee, NoWorkerIsNone DEF Sees, Of, TypeOK
  <2>2. \A b \in Bases : b \in Of(v, forgotten)' <=>
           \/ b \in Of(v, forgotten) \/ b \in target[v]
           \/ b \in Of(v, view) \ Of(v, db) \/ b \in Of(v, db) \ Of(v, view)
    BY <1>2 DEF Of
  <2>3. Of(v, forgotten)' = Of(v, forgotten) \cup target[v]
                              \cup ((Of(v, view) \ Of(v, db)) \cup (Of(v, db) \ Of(v, view)))
    <3>1. Of(v, forgotten)' \subseteq Bases /\ Of(v, forgotten) \subseteq Bases
          /\ Of(v, view) \subseteq Bases /\ Of(v, db) \subseteq Bases
      BY DEF Of
    <3> QED BY <2>1, <2>2, <3>1
  <2>4. Alone(v)!RollBack
    BY <2>1, <2>3 DEF Alone!RollBack, Alone!Differ
  <2> QED BY <2>4 DEF Implements, Alone!Next
<1> QED BY <1>3, <1>4

\* Every step of the system is, for each worker, a step of its own or none.
LEMMA NextIsolated ==
    ASSUME AloneInv, [Next]_vars
    PROVE  AloneInv' /\ \A v \in Workers : Implements(v)
<1>1. IInv'
  BY NextInductive DEF AloneInv
<1>2. CASE Restart
  BY <1>1, <1>2, RestartIsolated DEF AloneInv
<1>3. ASSUME NEW w \in Workers, Cycle(w)
      PROVE  AloneInv' /\ \A v \in Workers : Implements(v)
  BY <1>1, <1>3, QuietIsolated, SendIsolated, RecordIsolated, CommitIsolated, LockedOutIsolated
     DEF AloneInv, Cycle, Passing, Touching
<1>4. CASE UNCHANGED vars
  <2>1. TargetsFit'
    BY <1>4 DEF vars, AloneInv, TargetsFit, Sees
  <2>2. \A v \in Workers : AsBefore(v)
    BY <1>4 DEF vars, AsBefore, Of, Sees
  <2> QED BY <1>1, <2>1, <2>2, AsBeforeStutters DEF AloneInv
<1> QED BY <1>2, <1>3, <1>4 DEF Next

\* So is the start.
LEMMA InitIsolated == Init => AloneInv /\ \A w \in Workers : Alone(w)!Init
<1> SUFFICES ASSUME Init PROVE AloneInv /\ \A w \in Workers : Alone(w)!Init
  OBVIOUS
<1>1. AloneInv
  BY InitInductive DEF Init, AloneInv, TargetsFit
<1>2. ASSUME NEW w \in Workers PROVE Alone(w)!Init
  BY NoWorkerIsNone DEF Init, Of, Sees, Alone!Init
<1> QED BY <1>1, <1>2

\* WorkersAreIsolated: each worker works as if the file were its own (db.py:70-81).
THEOREM Isolation == Spec => WorkersAreIsolated
<1>1. Init => AloneInv /\ \A w \in Workers : Alone(w)!Init
  BY InitIsolated
<1>2. AloneInv /\ [Next]_vars => AloneInv'
  BY NextIsolated
<1>3. AloneInv /\ [Next]_vars => [\A w \in Workers : [Alone(w)!Next]_(Alone(w)!vars)]_vars
  BY NextIsolated DEF Implements
<1> QED BY <1>1, <1>2, <1>3, PTL DEF Spec, WorkersAreIsolated

\* The same as an implementation: the specification of WorkerAlone holds of each worker.
THEOREM ImplementsAlone == ASSUME NEW w \in Workers PROVE Spec => Alone(w)!Spec
<1>1. Init => AloneInv /\ Alone(w)!Init
  BY InitIsolated
<1>2. AloneInv /\ [Next]_vars => AloneInv'
  BY NextIsolated
<1>3. AloneInv /\ [Next]_vars => [Alone(w)!Next]_(Alone(w)!vars)
  BY NextIsolated DEF Implements
<1> QED BY <1>1, <1>2, <1>3, PTL DEF Spec, Alone!Spec

=============================================================================
