----------------------------- MODULE RunnerProofs -----------------------------
(***************************************************************************)
(* Theorems about Runner, for any venues, deployments and flows and any    *)
(* throttle, length of a turn and lookback.                                *)
(***************************************************************************)
EXTENDS Runner, TLAPS

\* While it boots, a worker is still to be started, or runs, or its own start raised.
BootCovers ==
    boot # "down" =>
        \A v \in Venues \ excused :
            venue[v].active /\ env.keys[v] # Unset =>
                /\ <<"paper", v>> \in todo \cup workers \cup failed
                /\ Expected(v) \in {Unset, env.keys[v]} =>
                      <<"live", v>> \in todo \cup workers \cup failed

BootInv == LiveAccountsExpected /\ BootCovers

\* Nothing is known of a worker that does not run.
OffIsRough == step = "off" => smooth = 0

\* For at most n ticks flow f is missing and nothing has failed.
MissingFor(f, n) == age[f] <= n \/ smooth <= n

\* A flow is missing for no longer than the last ingest is ago, or, once the throttle
\* is over, until the worker comes to its next ingest.
IngestInTime ==
    \A f \in Visible \ table :
        /\ sinceIngest < Hour => MissingFor(f, sinceIngest)
        /\ step = "cycle" => MissingFor(f, Hour + Loop - 1 + turn)
        /\ step \in {"beat", "sleep"} => MissingFor(f, Hour - 1 + turn)

\* For at most n ticks the worker has been silent and nothing has failed.
SilentFor(n) == quiet <= n \/ smooth <= n

\* The same for the heartbeat, one step later in the turn.
BeatInTime ==
    /\ sinceBeat < Hour => SilentFor(sinceBeat)
    /\ step \in {"cycle", "beat"} => SilentFor(Hour + Loop - 1 + turn)
    /\ step = "sleep" => SilentFor(Hour - 1 + turn)

ClockInv == TypeOK /\ OffIsRough /\ IngestInTime /\ BeatInTime

-----------------------------------------------------------------------------
(* Types. *)

\* The constants that are numbers.
LEMMA Bounds ==
    /\ Hour \in Nat \ {0} /\ Loop \in Nat \ {0} /\ Lookback \in Nat
    /\ Patience \in Nat /\ Old \in Nat /\ Future \in Int
    /\ Patience = Hour + 2 * Loop - 1 /\ Old = Lookback + 1 /\ Future = -1
BY RunnerAssumption DEF Patience, Old, Future

\* The bounds of what follows are none too small.
LEMMA BoundsPositive ==
    ASSUME NEW since \in 0 .. Hour, NEW ticks \in 0 .. Loop
    PROVE  0 <= since /\ 0 <= Hour + Loop - 1 + ticks /\ 0 <= Hour - 1 + ticks
<1>1. Hour \in Nat /\ Hour >= 1 /\ Loop \in Nat
  BY Bounds
<1>2. since \in Nat /\ ticks \in Nat
  BY <1>1
<1> QED BY <1>1, <1>2

\* A clock stays within its bound.
LEMMA AgedInRange ==
    ASSUME NEW bound \in Nat, NEW n \in 0 .. bound
    PROVE  Aged(n, bound) \in 0 .. bound /\ Aged(n, bound) <= n + 1 /\ Aged(n, bound) >= n
BY DEF Aged

\* Nothing runs before the first boot.
LEMMA InitTyped == Init => TypeOK
<1> SUFFICES ASSUME Init PROVE TypeOK
  OBVIOUS
<1>1. venue \in [Venues -> Rows]
  BY DEF Init, NoRow, Rows
<1>2. /\ age \in [Flows -> Future .. Old] /\ table \subseteq {f \in Flows : age[f] # Future}
      /\ sinceIngest \in 0 .. Hour /\ sinceBeat \in 0 .. Hour /\ turn \in 0 .. Loop
      /\ quiet \in 0 .. Patience + 1 /\ smooth \in 0 .. Patience + 1
  BY Bounds DEF Init
<1> QED BY <1>1, <1>2 DEF Init, TypeOK

\* A row of venue_state with another field is one.
LEMMA RowsEdited ==
    ASSUME NEW r \in Rows, NEW x \in BOOLEAN, NEW a \in Accounts \cup {Unset}
    PROVE  [r EXCEPT !.active = x] \in Rows /\ [r EXCEPT !.expected = a] \in Rows
BY DEF Rows

\* Seeding and mirroring make rows of venue_state.
LEMMA SeededTyped == TypeOK => \A v \in Venues : Mirrored(v) \in Rows
<1> SUFFICES ASSUME TypeOK, NEW v \in Venues PROVE Mirrored(v) \in Rows
  OBVIOUS
<1>1. Seeded(v) \in Rows
  BY DEF TypeOK, Seeded, Rows
<1> DEFINE x == v \in env.override
<1>2. x \in BOOLEAN
  OBVIOUS
<1> HIDE DEF x
<1>3. [Seeded(v) EXCEPT !.active = x] \in Rows
  BY <1>1, <1>2, RowsEdited
<1> QED BY <1>1, <1>3 DEF Mirrored, x

\* The boot keeps the types.
LEMMA ProcessTyped == ASSUME TypeOK, Process PROVE TypeOK'
<1>1. CASE Deploy
  BY <1>1 DEF TypeOK, Deploy, clocks
<1>2. CASE Start
  <2>1. venue' \in [Venues -> Rows] /\ todo' \in SUBSET (Modes \X Venues)
    BY <1>2, SeededTyped DEF Start
  <2> QED BY <1>2, <2>1 DEF TypeOK, Start, clocks
<1>3. CASE EndBoot
  BY <1>3 DEF TypeOK, EndBoot, clocks
<1>4. CASE Die
  BY <1>4, Bounds DEF TypeOK, Die
<1>5. ASSUME NEW v \in Venues, NEW mode \in Modes, StartWorker(mode, v) PROVE TypeOK'
  <2>1. /\ {todo', workers', failed'} \subseteq SUBSET (Modes \X Venues)
        /\ excused' \in SUBSET Venues
    <3>1. <<mode, v>> \in Modes \X Venues
      OBVIOUS
    <3>2. /\ todo' \subseteq todo
          /\ workers' \subseteq workers \cup {<<mode, v>>}
          /\ failed' \subseteq failed \cup {<<mode, v>>}
          /\ excused' \subseteq excused \cup {v}
      BY <1>5 DEF StartWorker, Starts, Refused, StartRaises
    <3> QED BY <3>1, <3>2 DEF TypeOK
  <2>2. /\ UNCHANGED <<env, venue, boot, table>> /\ boot = "starting"
        /\ IF <<"live", Watched>> \in workers' \ workers THEN StartHousekeeping
           ELSE UNCHANGED <<step, clocks>>
        /\ workers \subseteq workers'
    BY <1>5 DEF StartWorker, Starts, Refused, StartRaises
  <2>3. CASE <<"live", Watched>> \in workers' \ workers
    BY <2>1, <2>2, <2>3, Bounds DEF TypeOK, StartHousekeeping
  <2>4. CASE <<"live", Watched>> \notin workers' \ workers
    BY <2>1, <2>2, <2>4 DEF TypeOK, clocks
  <2> QED BY <2>3, <2>4
<1>6. ASSUME NEW v \in Venues, EditVenue(v) PROVE TypeOK'
  <2>1. PICK active \in BOOLEAN, expected \in Offered \cup {Unset} :
          venue' = [venue EXCEPT ![v].active = active, ![v].expected = expected]
    BY <1>6 DEF EditVenue
  <2>2. [[venue[v] EXCEPT !.active = active] EXCEPT !.expected = expected] \in Rows
    BY RowsEdited, RunnerAssumption DEF TypeOK
  <2>3. venue' = [venue EXCEPT ![v] = [[venue[v] EXCEPT !.active = active] EXCEPT !.expected = expected]]
    BY <2>1
  <2>4. venue' \in [Venues -> Rows]
    BY <2>2, <2>3 DEF TypeOK
  <2> QED BY <1>6, <2>4 DEF TypeOK, EditVenue, clocks
<1> QED BY <1>1, <1>2, <1>3, <1>4, <1>5, <1>6 DEF Process

\* The housekeeping keeps the types.
LEMMA HousekeepingTyped == ASSUME TypeOK, Housekeeping PROVE TypeOK'
<1>1. CASE SkipIngest
  BY <1>1 DEF TypeOK, SkipIngest, AfterCycle, bootVars, clocks
<1>2. CASE IngestFails
  BY <1>2, Bounds DEF TypeOK, IngestFails, AfterCycle, SomethingFailed, bootVars
<1>3. CASE CycleLost
  BY <1>3, Bounds DEF TypeOK, CycleLost, AfterCycle, SomethingFailed, bootVars
<1>4. CASE Heartbeat
  BY <1>4, Bounds DEF TypeOK, Heartbeat, Beat, NoBeat, NothingFailed, SomethingFailed, bootVars
<1>5. CASE WakeUp
  BY <1>5, Bounds DEF TypeOK, WakeUp, bootVars
<1>6. ASSUME NEW rows \in SUBSET Visible, Ingest(rows) PROVE TypeOK'
  <2>1. table' \subseteq {f \in Flows : age[f] # Future}
    BY <1>6, Bounds DEF TypeOK, Ingest, Fresh, Visible
  <2> QED BY <1>6, <2>1, Bounds DEF TypeOK, Ingest, AfterCycle, NothingFailed, SomethingFailed, bootVars
<1>7. ASSUME NEW rows \in SUBSET Visible, IngestLost(rows) PROVE TypeOK'
  BY <1>7, Bounds DEF TypeOK, IngestLost, AfterCycle, SomethingFailed, bootVars
<1> QED BY <1>1, <1>2, <1>3, <1>4, <1>5, <1>6, <1>7 DEF Housekeeping

\* The age of a flow after a tick.
LEMMA TickAges ==
    ASSUME TypeOK, Tick, NEW f \in Flows
    PROVE  /\ age'[f] \in Future .. Old /\ age'[f] <= age[f] + 1 /\ age'[f] >= age[f]
           /\ age'[f] = Future <=> age[f] = Future
           /\ age[f] = Future => age'[f] = Future
<1>1. age[f] \in Future .. Old /\ age'[f] = IF age[f] = Future THEN Future ELSE Aged(age[f], Old)
  BY DEF TypeOK, Tick
<1>2. CASE age[f] = Future
  BY <1>1, <1>2, Bounds
<1>3. CASE age[f] # Future
  <2>1. age[f] \in 0 .. Old
    BY <1>1, <1>3, Bounds
  <2>2. Old \in Nat
    BY Bounds
  <2>3. /\ Aged(age[f], Old) \in 0 .. Old
        /\ Aged(age[f], Old) <= age[f] + 1 /\ Aged(age[f], Old) >= age[f]
    BY <2>1, <2>2, AgedInRange
  <2>4. age'[f] = Aged(age[f], Old)
    BY <1>1, <1>3
  <2> HIDE DEF Aged
  <2> QED BY <1>3, <2>1, <2>3, <2>4, Bounds
<1> QED BY <1>2, <1>3

\* Time keeps the types.
LEMMA TickTyped == ASSUME TypeOK, Tick PROVE TypeOK'
<1>1. age' \in [Flows -> Future .. Old]
  BY TickAges DEF Tick
<1>2. table' \subseteq {f \in Flows : age'[f] # Future}
  BY TickAges DEF TypeOK, Tick
<1>3. /\ sinceIngest' \in 0 .. Hour /\ sinceBeat' \in 0 .. Hour /\ turn' \in 0 .. Loop
      /\ quiet' \in 0 .. Patience + 1 /\ smooth' \in 0 .. Patience + 1
  <2>1. Hour \in Nat /\ Patience + 1 \in Nat /\ Loop \in Nat
    BY Bounds
  <2>2. /\ Aged(sinceIngest, Hour) \in 0 .. Hour /\ Aged(sinceBeat, Hour) \in 0 .. Hour
        /\ Aged(quiet, Patience + 1) \in 0 .. Patience + 1
        /\ Aged(smooth, Patience + 1) \in 0 .. Patience + 1
    BY <2>1, AgedInRange DEF TypeOK
  <2>3. turn' \in 0 .. Loop
    BY <2>1 DEF TypeOK, Tick
  <2> QED BY <2>1, <2>2, <2>3 DEF Tick
<1> QED BY <1>1, <1>2, <1>3 DEF TypeOK, Tick, bootVars

\* A flow keeps the types.
LEMMA FlowTyped == ASSUME TypeOK, NEW f \in Flows, Flow(f) PROVE TypeOK'
<1>1. age' \in [Flows -> Future .. Old] /\ table' \subseteq {g \in Flows : age'[g] # Future}
  BY Bounds DEF TypeOK, Flow
<1> QED BY <1>1 DEF TypeOK, Flow, bootVars

\* Every step keeps the types.
LEMMA NextTyped == TypeOK /\ [Next]_vars => TypeOK'
<1> SUFFICES ASSUME TypeOK, [Next]_vars PROVE TypeOK'
  OBVIOUS
<1>1. CASE UNCHANGED vars
  BY <1>1 DEF TypeOK, vars, bootVars, clocks
<1> QED BY <1>1, ProcessTyped, HousekeepingTyped, TickTyped, FlowTyped DEF Next

\* The state of the runner stays well typed.
THEOREM TypeCorrect == Spec => []TypeOK
BY InitTyped, NextTyped, PTL DEF Spec

-----------------------------------------------------------------------------
(* The boot. *)

\* The steps outside the boot leave it alone.
LEMMA RestKeepsBoot ==
    ASSUME BootInv, TypeOK', UNCHANGED bootVars
    PROVE  BootInv'
BY DEF BootInv, LiveAccountsExpected, BootCovers, Expected, bootVars

\* A turn of the boot's loop.
LEMMA StartKeepsBoot ==
    ASSUME BootInv, TypeOK', NEW v \in Venues, NEW mode \in Modes, StartWorker(mode, v)
    PROVE  BootInv'
<1> DEFINE w == <<mode, v>>
<1>1. /\ todo' = todo \ {w} /\ UNCHANGED <<env, venue, boot>>
      /\ workers' \subseteq workers \cup {w} /\ workers \subseteq workers'
      /\ failed \subseteq failed' /\ excused \subseteq excused'
  BY DEF StartWorker, Starts, Refused, StartRaises
<1>2. w \in workers' \ workers /\ mode = "live" =>
         v \in excused' \/ Expected(v) \in {Unset, env.keys[v]}
  BY DEF StartWorker, Starts, Refused, StartRaises, AccountPasses
<1>3. \/ w \in workers' \cup failed'
      \/ mode = "live" /\ Expected(v) \notin {Unset, env.keys[v]}
  BY DEF StartWorker, Starts, Refused, StartRaises, AccountPasses
<1>4. LiveAccountsExpected'
  <2> SUFFICES ASSUME NEW u \in Venues \ excused', <<"live", u>> \in workers'
               PROVE  \/ env.keys[u] = venue[u].expected
                      \/ venue[u].expected = Unset /\ env.pinned[u] \in {Unset, env.keys[u]}
    BY <1>1 DEF LiveAccountsExpected
  <2>1. CASE <<"live", u>> \in workers
    BY <1>1, <2>1 DEF BootInv, LiveAccountsExpected
  <2>2. CASE <<"live", u>> \notin workers
    <3>1. u = v /\ mode = "live"
      BY <1>1, <2>2
    <3> QED BY <1>2, <2>2, <3>1 DEF Expected
  <2> QED BY <2>1, <2>2
<1>5. BootCovers'
  <2> SUFFICES ASSUME NEW u \in Venues \ excused', venue[u].active, env.keys[u] # Unset,
                      boot # "down", NEW m \in Modes,
                      m = "live" => Expected(u) \in {Unset, env.keys[u]}
               PROVE  <<m, u>> \in todo' \cup workers' \cup failed'
    BY <1>1 DEF BootCovers, Expected, Modes
  <2>1. <<m, u>> \in todo \cup workers \cup failed
    BY <1>1 DEF BootInv, BootCovers, Modes
  <2>2. CASE <<m, u>> = w
    BY <1>3, <2>2
  <2>3. CASE <<m, u>> # w
    BY <1>1, <2>1, <2>3
  <2> QED BY <2>2, <2>3
<1> QED BY <1>4, <1>5 DEF BootInv

\* Every step keeps the workers where they belong.
LEMMA BootInductive == BootInv /\ [Next]_vars => BootInv'
<1> SUFFICES ASSUME BootInv, [Next]_vars PROVE BootInv'
  OBVIOUS
<1>1. TypeOK /\ TypeOK'
  BY NextTyped DEF BootInv, LiveAccountsExpected
<1>2. CASE Deploy
  BY <1>1, <1>2 DEF BootInv, LiveAccountsExpected, BootCovers, Deploy, TypeOK
<1>3. CASE Start
  <2>1. /\ boot = "down" /\ workers = {} /\ workers' = {} /\ env' = env
        /\ \A v \in Venues : venue'[v] = Mirrored(v)
        /\ todo' = Modes \X {v \in Venues : Mirrored(v).active /\ env.keys[v] # Unset}
    BY <1>1, <1>3 DEF Start, TypeOK
  <2>2. BootCovers'
    BY <2>1 DEF BootCovers, Modes
  <2> QED BY <1>1, <2>1, <2>2 DEF BootInv, LiveAccountsExpected
<1>4. CASE EndBoot
  BY <1>1, <1>4 DEF BootInv, LiveAccountsExpected, BootCovers, EndBoot, BootDone, Expected
<1>5. CASE Die
  BY <1>1, <1>5 DEF BootInv, LiveAccountsExpected, BootCovers, Die
<1>6. ASSUME NEW v \in Venues, EditVenue(v) PROVE BootInv'
  <2>1. /\ excused' = excused \cup {v} /\ UNCHANGED <<env, boot, todo, workers, failed>>
        /\ \A u \in Venues \ {v} : venue'[u] = venue[u]
    BY <1>1, <1>6 DEF EditVenue, TypeOK
  <2> QED BY <1>1, <2>1 DEF BootInv, LiveAccountsExpected, BootCovers, Expected
<1>7. CASE UNCHANGED bootVars
  BY <1>1, <1>7, RestKeepsBoot
<1>8. CASE Housekeeping \/ Tick \/ (\E f \in Flows : Flow(f)) \/ UNCHANGED vars
  <2>1. UNCHANGED bootVars
    BY <1>8 DEF Housekeeping, SkipIngest, IngestFails, CycleLost, Heartbeat, WakeUp, Ingest,
       IngestLost, Tick, Flow, vars
  <2> QED BY <1>7, <2>1
<1> QED BY <1>1, <1>2, <1>3, <1>4, <1>5, <1>6, <1>8, StartKeepsBoot DEF Next, Process

\* Nothing runs at first.
LEMMA BootInit == Init => BootInv
BY InitTyped DEF Init, BootInv, LiveAccountsExpected, BootCovers

\* No live worker runs on another account than the one that is expected
\* (runner.py:150-194).
THEOREM LiveAccounts == Spec => []LiveAccountsExpected
<1>1. BootInv => LiveAccountsExpected
  BY DEF BootInv
<1> QED BY <1>1, BootInit, BootInductive, PTL DEF Spec

\* Once the boot is over, every venue that should run does (runner.py:426-461).
THEOREM NoneLeftBehind == Spec => []NoVenueLeftBehind
<1>1. BootInv /\ (boot = "up" => todo = {}) => NoVenueLeftBehind
  BY DEF BootInv, BootCovers, NoVenueLeftBehind
<1>2. Init => (boot = "up" => todo = {})
  BY DEF Init
<1>3. (boot = "up" => todo = {}) /\ [Next]_vars => (boot = "up" => todo = {})'
  BY DEF Next, Process, Deploy, Start, EndBoot, Die, StartWorker, EditVenue, Housekeeping, SkipIngest,
     IngestFails, CycleLost, Heartbeat, WakeUp, Ingest, IngestLost, Tick, Flow, vars, bootVars
<1> QED BY <1>1, <1>2, <1>3, BootInit, BootInductive, PTL DEF Spec

\* A boot keeps what the operator has decided about a venue (db.py:214-218).
THEOREM VenuesKept == Spec => BootKeepsVenues
<1>1. ASSUME TypeOK, [Next]_vars
      PROVE  [\A v \in Venues :
                boot = "down" /\ venue[v].seeded =>
                   /\ venue'[v].expected = venue[v].expected
                   /\ env.override = {} => venue'[v].active = venue[v].active]_vars
  <2> SUFFICES ASSUME Next, NEW v \in Venues, boot = "down", venue[v].seeded
               PROVE  /\ venue'[v].expected = venue[v].expected
                      /\ env.override = {} => venue'[v].active = venue[v].active
    BY <1>1
  <2>1. CASE Start
    <3>1. venue'[v] = Mirrored(v) /\ Seeded(v) = venue[v] /\ venue[v] \in Rows
      BY <1>1, <2>1 DEF Start, Seeded, TypeOK
    <3> QED BY <3>1 DEF Mirrored, Rows
  <2>2. CASE UNCHANGED venue
    BY <2>2
  <2>3. Start \/ UNCHANGED venue
    BY DEF Next, Process, Deploy, EndBoot, Die, StartWorker, EditVenue, Housekeeping, SkipIngest,
       IngestFails, CycleLost, Heartbeat, WakeUp, Ingest, IngestLost, Tick, Flow, bootVars
  <2> QED BY <2>1, <2>2, <2>3
<1> QED BY <1>1, TypeCorrect, PTL DEF Spec, BootKeepsVenues

-----------------------------------------------------------------------------
(* The clocks. *)

\* What is missing for n ticks at most is missing for m ticks at most, if n <= m.
LEMMA MissingLonger ==
    ASSUME TypeOK, NEW f \in Flows, NEW n \in Int, NEW m \in Int, n <= m, MissingFor(f, n)
    PROVE  MissingFor(f, m)
BY Bounds DEF TypeOK, MissingFor

\* The steps that change neither the flows nor the clock of the ingest, and after
\* which the worker is as far from it.
LEMMA QuietKeepsIngest ==
    ASSUME ClockInv, TypeOK', UNCHANGED <<sinceIngest, turn, age, table, smooth>>,
           step' = step \/ (step = "beat" /\ step' = "sleep")
    PROVE  IngestInTime'
BY DEF ClockInv, IngestInTime, Visible, MissingFor

\* The steps after which something has failed.
LEMMA FailureKeepsIngest ==
    ASSUME TypeOK', smooth' = 0
    PROVE  IngestInTime'
<1>1. 0 <= sinceIngest' /\ 0 <= Hour + Loop - 1 + turn' /\ 0 <= Hour - 1 + turn'
  <2>1. sinceIngest' \in 0 .. Hour /\ turn' \in 0 .. Loop
    BY DEF TypeOK
  <2> QED BY <2>1, BoundsPositive
<1> QED BY <1>1 DEF IngestInTime, MissingFor

\* A tick lets the bounds grow with what they bound.
LEMMA TickKeepsIngest == ASSUME ClockInv, TypeOK', Tick PROVE IngestInTime'
<1>1. CASE step = "off"
  BY <1>1, FailureKeepsIngest DEF Tick
<1>2. CASE step # "off"
  <2> SUFFICES ASSUME NEW f \in (Visible \ table)'
               PROVE  /\ sinceIngest' < Hour => MissingFor(f, sinceIngest)'
                      /\ step' = "cycle" => MissingFor(f, Hour + Loop - 1 + turn)'
                      /\ step' \in {"beat", "sleep"} => MissingFor(f, Hour - 1 + turn)'
    BY DEF IngestInTime
  <2>1. f \in Visible \ table /\ f \in Flows
    BY TickAges, Bounds DEF ClockInv, Visible, Tick, TypeOK
  <2>2. ASSUME NEW n \in Int, MissingFor(f, n) PROVE age'[f] <= n + 1 \/ smooth' <= n + 1
    <3>1. age'[f] \in Int /\ age[f] \in Int /\ age'[f] <= age[f] + 1
      BY <2>1, TickAges, Bounds DEF ClockInv, TypeOK
    <3>2. smooth' <= smooth + 1 /\ smooth \in Int /\ smooth' \in Int
      BY <1>2, AgedInRange, Bounds DEF ClockInv, TypeOK, Tick
    <3> QED BY <2>2, <3>1, <3>2 DEF MissingFor
  <2>3. sinceIngest' < Hour => sinceIngest < Hour /\ sinceIngest' = sinceIngest + 1
    BY Bounds DEF ClockInv, TypeOK, Tick, Aged
  <2>4. turn' = turn + 1 /\ step' = step
    BY <1>2 DEF Tick
  <2>5. sinceIngest \in Int /\ Hour + Loop - 1 + turn \in Int /\ Hour - 1 + turn \in Int
        /\ Hour + Loop - 1 + (turn + 1) = (Hour + Loop - 1 + turn) + 1
        /\ Hour - 1 + (turn + 1) = (Hour - 1 + turn) + 1
    BY Bounds DEF ClockInv, TypeOK
  <2>6. sinceIngest' < Hour => MissingFor(f, sinceIngest)'
    BY <2>1, <2>2, <2>3, <2>5 DEF ClockInv, IngestInTime, MissingFor
  <2>7. step' = "cycle" => MissingFor(f, Hour + Loop - 1 + turn)'
    BY <2>1, <2>2, <2>4, <2>5 DEF ClockInv, IngestInTime, MissingFor
  <2>8. step' \in {"beat", "sleep"} => MissingFor(f, Hour - 1 + turn)'
    BY <2>1, <2>2, <2>4, <2>5 DEF ClockInv, IngestInTime, MissingFor
  <2> QED BY <2>6, <2>7, <2>8
<1> QED BY <1>1, <1>2

\* The housekeeping comes to the ingest in time.
LEMMA HousekeepingKeepsIngest == ASSUME ClockInv, TypeOK', Housekeeping PROVE IngestInTime'
<1> USE DEF ClockInv
<1>1. CASE SkipIngest
  <2>1. /\ sinceIngest < Hour /\ step' = "beat"
        /\ UNCHANGED <<sinceIngest, turn, age, table, smooth>>
    BY <1>1 DEF SkipIngest, AfterCycle, Throttled, clocks
  <2>2. ASSUME NEW f \in Visible \ table PROVE MissingFor(f, Hour - 1 + turn)
    <3>1. MissingFor(f, sinceIngest) /\ f \in Flows
      BY <2>1, <2>2 DEF IngestInTime, Visible
    <3>2. sinceIngest \in Int /\ Hour - 1 + turn \in Int /\ sinceIngest <= Hour - 1 + turn
      BY <2>1, Bounds DEF TypeOK
    <3> QED BY <3>1, <3>2, MissingLonger
  <2> QED BY <2>1, <2>2 DEF IngestInTime, Visible, MissingFor
<1>2. CASE IngestFails \/ CycleLost
  BY <1>2, FailureKeepsIngest DEF IngestFails, CycleLost, SomethingFailed
<1>3. ASSUME NEW rows \in SUBSET Visible, IngestLost(rows) PROVE IngestInTime'
  BY <1>3, FailureKeepsIngest DEF IngestLost, SomethingFailed
<1>4. ASSUME NEW rows \in SUBSET Visible, Ingest(rows) PROVE IngestInTime'
  <2>1. CASE rows = Visible
    BY <1>4, <2>1 DEF Ingest, Fresh, Visible, IngestInTime
  <2>2. CASE rows # Visible
    BY <1>4, <2>2, FailureKeepsIngest DEF Ingest, SomethingFailed
  <2> QED BY <2>1, <2>2
<1>5. CASE Heartbeat
  <2>1. UNCHANGED <<sinceIngest, turn, age, table>> /\ step = "beat" /\ step' = "sleep"
    BY <1>5 DEF Heartbeat
  <2>2. smooth' = 0 \/ UNCHANGED smooth
    BY <1>5 DEF Heartbeat, Beat, NoBeat, NothingFailed, SomethingFailed
  <2> QED BY <2>1, <2>2, FailureKeepsIngest, QuietKeepsIngest
<1>6. CASE WakeUp
  <2>1. /\ step = "sleep" /\ step' = "cycle" /\ turn' = 0
        /\ UNCHANGED <<sinceIngest, age, table, smooth>>
    BY <1>6 DEF WakeUp
  <2>2. ASSUME NEW f \in Visible \ table PROVE MissingFor(f, Hour + Loop - 1 + 0)
    <3>1. MissingFor(f, Hour - 1 + turn) /\ f \in Flows
      BY <2>1, <2>2 DEF IngestInTime, Visible
    <3>2. /\ Hour - 1 + turn \in Int /\ Hour + Loop - 1 + 0 \in Int
          /\ Hour - 1 + turn <= Hour + Loop - 1 + 0
      BY Bounds DEF TypeOK
    <3> QED BY <3>1, <3>2, MissingLonger
  <2> QED BY <2>1, <2>2 DEF IngestInTime, Visible, MissingFor
<1> QED BY <1>1, <1>2, <1>3, <1>4, <1>5, <1>6 DEF Housekeeping

\* A step of the boot keeps the worker, or starts or ends one.
LEMMA ProcessShape ==
    ASSUME ClockInv, Process
    PROVE  /\ UNCHANGED <<age, table, quiet>>
           /\ \/ UNCHANGED <<step, turn, sinceIngest, sinceBeat, smooth>>
              \/ step' = "off" /\ smooth' = 0
              \/ step = "off" /\ step' = "cycle" /\ smooth' = 0
<1>1. ASSUME NEW v \in Venues, NEW mode \in Modes, StartWorker(mode, v)
      PROVE  /\ UNCHANGED <<age, table, quiet>>
             /\ \/ UNCHANGED <<step, turn, sinceIngest, sinceBeat, smooth>>
                \/ step = "off" /\ step' = "cycle" /\ smooth' = 0
  <2>1. CASE <<"live", Watched>> \in workers' \ workers
    <3>1. step = "off" /\ smooth = 0
      BY <2>1 DEF ClockInv, TypeOK, OffIsRough
    <3> QED BY <1>1, <2>1, <3>1 DEF StartWorker, StartHousekeeping
  <2>2. CASE <<"live", Watched>> \notin workers' \ workers
    BY <1>1, <2>2 DEF StartWorker, clocks
  <2> QED BY <2>1, <2>2
<1> QED BY <1>1 DEF Process, Deploy, Start, EndBoot, Die, EditVenue, clocks

\* Silence, as for the flows.
LEMMA RoughSilent ==
    ASSUME TypeOK', smooth' = 0 \/ quiet' = 0
    PROVE  BeatInTime'
<1>1. 0 <= sinceBeat' /\ 0 <= Hour + Loop - 1 + turn' /\ 0 <= Hour - 1 + turn'
  <2>1. sinceBeat' \in 0 .. Hour /\ turn' \in 0 .. Loop
    BY DEF TypeOK
  <2> QED BY <2>1, BoundsPositive
<1> QED BY <1>1 DEF BeatInTime, SilentFor

\* A tick lets the bounds of the silence grow with it.
LEMMA TickKeepsBeat == ASSUME ClockInv, TypeOK', Tick PROVE BeatInTime'
<1>1. CASE step = "off"
  BY <1>1, RoughSilent DEF Tick
<1>2. CASE step # "off"
  <2>1. /\ smooth' <= smooth + 1 /\ smooth \in Int /\ smooth' \in Int
        /\ quiet' <= quiet + 1 /\ quiet \in Int /\ quiet' \in Int
    BY <1>2, AgedInRange, Bounds DEF ClockInv, TypeOK, Tick
  <2>2. sinceBeat' < Hour => sinceBeat < Hour /\ sinceBeat' = sinceBeat + 1
    BY Bounds DEF ClockInv, TypeOK, Tick, Aged
  <2>3. turn' = turn + 1 /\ step' = step /\ turn \in Int /\ sinceBeat \in Int
    BY <1>2, Bounds DEF ClockInv, TypeOK, Tick
  <2> QED BY <2>1, <2>2, <2>3, Bounds DEF ClockInv, BeatInTime, SilentFor
<1> QED BY <1>1, <1>2

\* The housekeeping comes to the heartbeat in time.
LEMMA HousekeepingKeepsBeat == ASSUME ClockInv, TypeOK', Housekeeping PROVE BeatInTime'
<1> USE DEF ClockInv
<1>1. CASE SkipIngest
  <2>1. step = "cycle" /\ step' = "beat" /\ UNCHANGED <<turn, sinceBeat, quiet, smooth>>
    BY <1>1 DEF SkipIngest, AfterCycle, clocks
  <2> QED BY <2>1 DEF BeatInTime, SilentFor
<1>2. CASE IngestFails \/ CycleLost
  BY <1>2, RoughSilent DEF IngestFails, CycleLost, SomethingFailed
<1>3. ASSUME NEW rows \in SUBSET Visible, Ingest(rows) \/ IngestLost(rows) PROVE BeatInTime'
  <2>1. smooth' = 0 \/ (/\ step = "cycle" /\ step' = "beat"
                        /\ UNCHANGED <<turn, sinceBeat, quiet, smooth>>)
    BY <1>3 DEF Ingest, IngestLost, AfterCycle, NothingFailed, SomethingFailed
  <2>2. CASE smooth' = 0
    BY <2>2, RoughSilent
  <2>3. CASE step = "cycle" /\ step' = "beat" /\ UNCHANGED <<turn, sinceBeat, quiet, smooth>>
    BY <2>3 DEF BeatInTime, SilentFor
  <2> QED BY <2>1, <2>2, <2>3
<1>4. CASE Heartbeat
  <2>1. CASE BeatDue
    <3>1. smooth' = 0 \/ quiet' = 0
      BY <1>4, <2>1 DEF Heartbeat, Beat, SomethingFailed
    <3> QED BY <3>1, RoughSilent
  <2>2. CASE ~BeatDue
    <3>1. /\ sinceBeat < Hour /\ step' = "sleep" /\ UNCHANGED <<turn, sinceBeat, quiet, smooth>>
      BY <1>4, <2>2, Bounds DEF Heartbeat, NoBeat, BeatDue, TypeOK
    <3> QED BY <3>1, Bounds DEF BeatInTime, SilentFor, TypeOK
  <2> QED BY <2>1, <2>2
<1>5. CASE WakeUp
  <2>1. /\ step = "sleep" /\ step' = "cycle" /\ turn' = 0 /\ UNCHANGED <<sinceBeat, quiet, smooth>>
    BY <1>5 DEF WakeUp
  <2> QED BY <2>1, Bounds DEF BeatInTime, SilentFor, TypeOK
<1> QED BY <1>1, <1>2, <1>3, <1>4, <1>5 DEF Housekeeping

\* Every step keeps the clocks in time.
LEMMA ClockInductive == ClockInv /\ [Next]_vars => ClockInv'
<1> SUFFICES ASSUME ClockInv, [Next]_vars PROVE ClockInv'
  OBVIOUS
<1>1. TypeOK'
  BY NextTyped DEF ClockInv
<1>2. CASE Process
  <2>1. CASE UNCHANGED <<step, turn, sinceIngest, sinceBeat, smooth>>
    BY <1>1, <1>2, <2>1, ProcessShape DEF ClockInv, OffIsRough, IngestInTime, BeatInTime, Visible,
       MissingFor, SilentFor
  <2>2. CASE smooth' = 0
    BY <1>1, <2>2, FailureKeepsIngest, RoughSilent DEF ClockInv, OffIsRough
  <2> QED BY <1>2, <2>1, <2>2, ProcessShape
<1>3. CASE Housekeeping
  <2>1. step' # "off"
    BY <1>3 DEF Housekeeping, SkipIngest, IngestFails, CycleLost, Heartbeat, WakeUp, Ingest,
       IngestLost, AfterCycle
  <2> QED BY <1>1, <1>3, <2>1, HousekeepingKeepsIngest, HousekeepingKeepsBeat DEF ClockInv, OffIsRough
<1>4. CASE Tick
  BY <1>1, <1>4, TickKeepsIngest, TickKeepsBeat DEF ClockInv, OffIsRough, Tick
<1>5. ASSUME NEW f \in Flows, Flow(f) PROVE ClockInv'
  <2>1. UNCHANGED <<step, turn, sinceIngest, sinceBeat, quiet, smooth, table>>
    BY <1>5 DEF Flow
  <2>2. IngestInTime'
    <3>1. sinceIngest \in Nat /\ Hour + Loop - 1 + turn \in Nat /\ Hour - 1 + turn \in Nat
      BY Bounds DEF ClockInv, TypeOK
    <3>2. \A g \in Flows : age'[g] = IF g = f THEN 0 ELSE age[g]
      BY <1>5 DEF Flow, ClockInv, TypeOK
    <3> QED BY <2>1, <3>1, <3>2 DEF ClockInv, IngestInTime, Visible, MissingFor
  <2> QED BY <1>1, <2>1, <2>2 DEF ClockInv, OffIsRough, BeatInTime, SilentFor
<1>6. CASE UNCHANGED vars
  BY <1>1, <1>6 DEF ClockInv, OffIsRough, IngestInTime, BeatInTime, Visible, MissingFor, SilentFor,
     vars, clocks
<1> QED BY <1>2, <1>3, <1>4, <1>5, <1>6 DEF Next

\* No flow has happened and nothing runs at first.
LEMMA ClockInit == Init => ClockInv
<1> SUFFICES ASSUME Init PROVE ClockInv
  OBVIOUS
<1>1. TypeOK /\ smooth = 0 /\ Visible = {}
  BY InitTyped, Bounds DEF Init, Visible
<1>2. BeatInTime
  <2>1. sinceBeat \in Nat /\ Hour + Loop - 1 + turn \in Nat /\ Hour - 1 + turn \in Nat
    BY <1>1, Bounds DEF TypeOK
  <2> QED BY <1>1, <2>1 DEF BeatInTime, SilentFor
<1> QED BY <1>1, <1>2 DEF ClockInv, OffIsRough, IngestInTime

\* The clocks are in time always.
LEMMA ClockAlways == Spec => []ClockInv
BY ClockInit, ClockInductive, PTL DEF Spec

\* A flow that the history shows for long enough, with nothing failing, is recorded
\* (runner.py:253-310).
THEOREM Ingested == Spec => []FlowsIngested
<1>1. ASSUME ClockInv, NEW f \in Visible \ table, smooth > Patience PROVE age[f] <= Patience
  <2>1. step \in {"cycle", "beat", "sleep"}
    BY <1>1, Bounds DEF ClockInv, OffIsRough, TypeOK
  <2>2. /\ Hour + Loop - 1 + turn <= Patience /\ Hour - 1 + turn <= Patience
        /\ Hour + Loop - 1 + turn \in Int /\ Hour - 1 + turn \in Int
    <3>1. turn \in Int /\ turn <= Loop
      BY <1>1, Bounds DEF ClockInv, TypeOK
    <3> QED BY <3>1, Bounds
  <2>3. f \in Flows
    BY DEF Visible
  <2>4. MissingFor(f, Patience)
    BY <1>1, <2>1, <2>2, <2>3, MissingLonger, Bounds DEF ClockInv, IngestInTime
  <2>5. smooth \in Int
    BY <1>1 DEF ClockInv, TypeOK
  <2> QED BY <1>1, <2>4, <2>5, Bounds DEF MissingFor
<1>2. ClockInv => FlowsIngested
  <2> SUFFICES ASSUME ClockInv, NEW f \in Visible, age[f] > Patience, smooth > Patience
               PROVE  f \in table
    BY DEF FlowsIngested
  <2>1. age[f] \in Int
    BY Bounds DEF ClockInv, TypeOK, Visible
  <2> QED BY <1>1, <2>1, Bounds
<1> QED BY <1>2, ClockAlways, PTL

\* A worker whose writes succeed is heard of (runner.py:44-66).
THEOREM HeardOf == Spec => []NotSilent
<1>1. ASSUME ClockInv, smooth > Patience PROVE quiet <= Patience
  <2>1. step \in {"cycle", "beat", "sleep"}
    BY <1>1, Bounds DEF ClockInv, OffIsRough, TypeOK
  <2> QED BY <1>1, <2>1, Bounds DEF ClockInv, BeatInTime, SilentFor, TypeOK
<1>2. ClockInv => NotSilent
  BY <1>1 DEF NotSilent
<1> QED BY <1>2, ClockAlways, PTL

=============================================================================
