-------------------------------- MODULE Runner --------------------------------
(***************************************************************************)
(* The process around the trading cycles (loop/runner.py): it boots from   *)
(* the environment and the venue_state table, guards the account of every  *)
(* live venue, starts one worker per mode and venue, and dies and boots    *)
(* again.  Of one live worker, Watched, the housekeeping is modelled: the  *)
(* hourly ingest of capital flows and the hourly heartbeat, whose clocks   *)
(* are in memory and whose rows are in the database.                       *)
(*                                                                         *)
(* Time is discrete.  Every clock counts the ticks since something         *)
(* happened and stops at its bound, so that the model is finite without an *)
(* end of time.                                                            *)
(***************************************************************************)
EXTENDS Integers, FiniteSets

CONSTANTS
    Venues,
    Watched,      \* the venue whose live worker's housekeeping is modelled
    Accounts,
    Offered,      \* the accounts the operator enters as expected
    Unset,        \* an empty string in the table or in the environment
    DefaultOn,    \* the venues that _seed_venue_defaults activates
    Deployments,  \* environments the process may be deployed with
    Flows,        \* deposits and withdrawals, by external_id
    Hour,         \* ticks: the throttle of the ingest, and the heartbeat's interval
    Loop,         \* ticks: the longest turn of a worker's loop
    Lookback      \* ticks: how far back the venue's history is asked for

ASSUME RunnerAssumption ==
    /\ Watched \in Venues /\ DefaultOn \subseteq Venues /\ Unset \notin Accounts /\ Offered \subseteq Accounts
    /\ Deployments \subseteq [keys : [Venues -> Accounts \cup {Unset}],
                              pinned : [Venues -> Accounts \cup {Unset}],
                              override : SUBSET Venues]
    /\ Hour \in Nat \ {0} /\ Loop \in Nat \ {0} /\ Lookback \in Nat

VARIABLES
    env,          \* credentials (as the account they open), expected ids, ACTIVE_EXCHANGES
    venue,        \* venue[v]: its row of venue_state
    boot,         \* the process is down, starting, or up
    todo,         \* the workers of activated venues start_runner has not come to
    workers,      \* the running threads
    failed,       \* ghost: workers whose start raised in this boot
    excused,      \* ghost: venues whose account was not read, or edited, since the boot
    step,         \* the watched worker: off, in its cycle, at its heartbeat, asleep
    turn,         \* ticks of its present turn
    sinceIngest, sinceBeat,   \* _last_capital_flow_ingest, _last_heartbeat
    age,          \* age[f]: ticks since flow f happened
    table,        \* the flows in capital_flows
    quiet,        \* ticks since the worker's last event
    smooth        \* ghost: ticks since something of the housekeeping failed

bootVars == <<env, venue, boot, todo, workers, failed, excused>>
clocks == <<turn, sinceIngest, sinceBeat, age, quiet, smooth>>
vars == <<bootVars, step, clocks, table>>

Modes == {"paper", "live"}
NoRow == [active |-> FALSE, expected |-> Unset, seeded |-> FALSE]
Rows == [active : BOOLEAN, expected : Accounts \cup {Unset}, seeded : BOOLEAN]

\* A flow is old once the history does not show it any more.  Patience is how
\* long a flow or an event may take when nothing fails.
Future == -1
Old == Lookback + 1
Patience == Hour + 2 * Loop - 1

TypeOK ==
    /\ env \in Deployments
    /\ venue \in [Venues -> Rows]
    /\ boot \in {"down", "starting", "up"}
    /\ {todo, workers, failed} \subseteq SUBSET (Modes \X Venues)
    /\ excused \in SUBSET Venues
    /\ boot = "down" => workers = {} /\ todo = {}
    /\ step \in {"off", "cycle", "beat", "sleep"}
    /\ step = "off" <=> <<"live", Watched>> \notin workers
    /\ turn \in 0 .. Loop
    /\ sinceIngest \in 0 .. Hour /\ sinceBeat \in 0 .. Hour
    /\ age \in [Flows -> Future .. Old]
    /\ table \subseteq {f \in Flows : age[f] # Future}
    /\ quiet \in 0 .. Patience + 1 /\ smooth \in 0 .. Patience + 1

Init ==
    /\ env \in Deployments
    /\ venue = [v \in Venues |-> NoRow]
    /\ boot = "down" /\ todo = {} /\ workers = {} /\ failed = {} /\ excused = {}
    /\ step = "off" /\ turn = 0
    /\ sinceIngest = Hour /\ sinceBeat = Hour
    /\ age = [f \in Flows |-> Future] /\ table = {}
    /\ quiet = Patience + 1 /\ smooth = 0

-----------------------------------------------------------------------------
(* Boot. *)

\* A new environment for the next boot.
Deploy ==
    /\ boot = "down"
    /\ env' \in Deployments
    /\ UNCHANGED <<venue, boot, todo, workers, failed, excused, step, clocks, table>>

\* _seed_venue_defaults leaves existing rows alone.
\* Wrong variant: it writes every row.
SeededAnew(v) == [active |-> v \in DefaultOn, expected |-> Unset, seeded |-> TRUE]
Seeded(v) ==
    IF venue[v].seeded THEN venue[v]
    ELSE [active |-> v \in DefaultOn, expected |-> Unset, seeded |-> TRUE]

\* ACTIVE_EXCHANGES, when it is set, is written through.
Mirrored(v) ==
    IF env.override = {} THEN Seeded(v)
    ELSE [Seeded(v) EXCEPT !.active = v \in env.override]

\* start_runner: init_db, then _exchanges_to_activate, which needs the row and
\* the credentials (among them the private key that runner.py:431 asks for again).
Start ==
    /\ boot = "down"
    /\ boot' = "starting"
    /\ venue' = [v \in Venues |-> Mirrored(v)]
    /\ todo' = Modes \X {v \in Venues : Mirrored(v).active /\ env.keys[v] # Unset}
    /\ failed' = {} /\ excused' = {}
    /\ UNCHANGED <<env, workers, step, clocks, table>>

\* The expected account: the row's, else the environment's.
\* Wrong variant: the environment's alone.
ExpectedOfEnv(v) == env.pinned[v]
Expected(v) == IF venue[v].expected # Unset THEN venue[v].expected ELSE env.pinned[v]

\* _assert_account_id lets the boot proceed when the probe raises or answers with
\* nothing, and when no account is expected.
AccountPasses(v, answered) ==
    answered => Expected(v) \in {Unset, env.keys[v]}

\* The first turn of the watched worker: both clocks are absent from memory.
StartHousekeeping ==
    /\ step' = "cycle" /\ turn' = 0
    /\ sinceIngest' = Hour /\ sinceBeat' = Hour
    /\ UNCHANGED <<age, quiet, smooth>>

\* The gateway is built, the account of a live one checked, the thread started.
Starts(mode, v) ==
    /\ workers' = workers \cup {<<mode, v>>}
    /\ \E answered \in BOOLEAN :
         /\ mode = "live" => AccountPasses(v, answered)
         /\ excused' = IF mode = "live" /\ ~answered THEN excused \cup {v} ELSE excused
    /\ UNCHANGED failed

\* AccountIdMismatch, caught as every exception is.
Refused(mode, v) ==
    /\ mode = "live" /\ ~AccountPasses(v, TRUE)
    /\ UNCHANGED <<workers, failed, excused>>

\* The gateway, the read of venue_state or the thread raises.
StartRaises(mode, v) ==
    /\ failed' = failed \cup {<<mode, v>>}
    /\ UNCHANGED <<workers, excused>>

\* The venues come one after another, each with its paper worker first.
InTurn(mode, v) ==
    LET halfway == {u \in Venues : <<"live", u>> \in todo /\ <<"paper", u>> \notin todo}
    IN IF mode = "live" THEN v \in halfway ELSE halfway = {}

\* One turn of the loop over venues and modes.
StartWorker(mode, v) ==
    /\ boot = "starting" /\ <<mode, v>> \in todo
    /\ InTurn(mode, v)
    /\ todo' = todo \ {<<mode, v>>}
    /\ Starts(mode, v) \/ Refused(mode, v) \/ StartRaises(mode, v)
    /\ IF <<"live", Watched>> \in workers' \ workers THEN StartHousekeeping
       ELSE UNCHANGED <<step, clocks>>
    /\ UNCHANGED <<env, venue, boot, table>>

\* What a worker that does not start does to the rest of the boot: the try is
\* inside the loop.
\* Wrong variant: it is around the loop, so that the first exception ends it.
BootDoneAtFailure == todo = {} \/ failed # {}
BootDone == todo = {}

EndBoot ==
    /\ boot = "starting" /\ BootDone
    /\ boot' = "up" /\ todo' = {}
    /\ UNCHANGED <<env, venue, workers, failed, excused, step, clocks, table>>

\* stop_runner waits ten seconds, the process ends, and with it its daemon threads and
\* its clocks; a session that is open is rolled back.
Die ==
    /\ boot # "down"
    /\ boot' = "down" /\ todo' = {} /\ workers' = {} /\ failed' = {} /\ excused' = {}
    /\ step' = "off" /\ turn' = 0 /\ smooth' = 0
    /\ sinceIngest' = Hour /\ sinceBeat' = Hour
    /\ UNCHANGED <<env, venue, age, table, quiet>>

\* POST /safety/venue: takes effect at the next boot.
EditVenue(v) ==
    /\ boot = "up"
    /\ \E active \in BOOLEAN, expected \in Offered \cup {Unset} :
         venue' = [venue EXCEPT ![v].active = active, ![v].expected = expected]
    /\ excused' = excused \cup {v}
    /\ UNCHANGED <<env, boot, todo, workers, failed, step, clocks, table>>

-----------------------------------------------------------------------------
(* The housekeeping of the watched worker. *)

Visible == {f \in Flows : age[f] \in 0 .. Lookback}

\* The pre-fetch filter: which of the fetched flows are new.
Fresh(rows) == rows \ table

AfterCycle == step = "cycle" /\ step' = "beat"
NothingFailed == UNCHANGED smooth
SomethingFailed == smooth' = 0

\* An hour has not passed since the last fetch.
Throttled == sinceIngest < Hour

\* Wrong variant: the clock is stamped before it is read.
SkipIngestStamping ==
    /\ AfterCycle /\ Throttled
    /\ sinceIngest' = 0
    /\ UNCHANGED <<bootVars, turn, sinceBeat, age, quiet, smooth, table>>
SkipIngest ==
    /\ AfterCycle /\ Throttled
    /\ UNCHANGED <<bootVars, clocks, table>>

\* The whole fetch raises: the clock is not stamped.
IngestFails ==
    /\ AfterCycle /\ ~Throttled
    /\ SomethingFailed
    /\ UNCHANGED <<bootVars, turn, sinceIngest, sinceBeat, age, table, quiet>>

\* The history arrives, or a part of it when the deposits' or the withdrawals'
\* endpoint fails; the clock is stamped; the session commits the new rows.
Ingest(rows) ==
    /\ AfterCycle /\ ~Throttled
    /\ sinceIngest' = 0
    /\ table' = table \cup Fresh(rows)
    /\ IF rows = Visible THEN NothingFailed ELSE SomethingFailed
    /\ UNCHANGED <<bootVars, turn, sinceBeat, age, quiet>>

\* The clock is stamped and the session is lost after all: the unique constraint,
\* or a commit that fails.  The crash may be logged, which is an event.
IngestLost(rows) ==
    /\ AfterCycle /\ ~Throttled
    /\ sinceIngest' = 0
    /\ quiet' \in {0, quiet} /\ SomethingFailed
    /\ UNCHANGED <<bootVars, turn, sinceBeat, age, table>>

\* The cycle or the snapshot before the ingest raises.
CycleLost ==
    /\ AfterCycle
    /\ quiet' \in {0, quiet} /\ SomethingFailed
    /\ UNCHANGED <<bootVars, turn, sinceIngest, sinceBeat, age, table>>

\* _heartbeat_if_due: the clock is stamped before the event is written, and a
\* write that fails is dropped.
BeatDue == sinceBeat >= Hour
Beat ==
    /\ sinceBeat' = 0
    /\ \/ quiet' = 0 /\ NothingFailed
       \/ quiet' = quiet /\ SomethingFailed

\* Wrong variant: the clock is stamped whether the heartbeat is due or not.
BeatStamping == sinceBeat' = 0 /\ UNCHANGED <<quiet, smooth>>
NoBeat == UNCHANGED <<sinceBeat, quiet, smooth>>

Heartbeat ==
    /\ step = "beat" /\ step' = "sleep"
    /\ IF BeatDue THEN Beat ELSE NoBeat
    /\ UNCHANGED <<bootVars, turn, sinceIngest, age, table>>

\* stop_event.wait(remaining) times out: the next turn.
WakeUp ==
    /\ step = "sleep" /\ step' = "cycle" /\ turn' = 0
    /\ UNCHANGED <<bootVars, sinceIngest, sinceBeat, age, quiet, smooth, table>>

\* A deposit or a withdrawal at the venue.
Flow(f) ==
    /\ age[f] = Future
    /\ age' = [age EXCEPT ![f] = 0]
    /\ UNCHANGED <<bootVars, step, turn, sinceIngest, sinceBeat, quiet, smooth, table>>

Aged(n, bound) == IF n < bound THEN n + 1 ELSE n

\* A turn takes at most Loop ticks.
Tick ==
    /\ step # "off" => turn < Loop
    /\ turn' = IF step = "off" THEN turn ELSE turn + 1
    /\ sinceIngest' = Aged(sinceIngest, Hour)
    /\ sinceBeat' = Aged(sinceBeat, Hour)
    /\ age' = [f \in Flows |-> IF age[f] = Future THEN Future ELSE Aged(age[f], Old)]
    /\ quiet' = Aged(quiet, Patience + 1)
    /\ smooth' = IF step = "off" THEN 0 ELSE Aged(smooth, Patience + 1)
    /\ UNCHANGED <<bootVars, step, table>>

Housekeeping ==
    \/ SkipIngest \/ IngestFails \/ CycleLost \/ Heartbeat \/ WakeUp
    \/ \E rows \in SUBSET Visible : Ingest(rows) \/ IngestLost(rows)

Process == \/ Deploy \/ Start \/ EndBoot \/ Die
           \/ \E v \in Venues : EditVenue(v) \/ \E mode \in Modes : StartWorker(mode, v)

Next == Process \/ Housekeeping \/ Tick \/ \E f \in Flows : Flow(f)

Spec == Init /\ [][Next]_vars

-----------------------------------------------------------------------------

\* runner.py:150-194: through deployments, restarts and edits, no live worker runs
\* on another account than the one that is expected, where the account could be
\* read at boot and the expectation has not been edited since.  (With the types.)
LiveAccountsExpected ==
    /\ TypeOK
    /\ \A v \in Venues \ excused :
         <<"live", v>> \in workers =>
            \/ env.keys[v] = venue[v].expected
            \/ venue[v].expected = Unset /\ env.pinned[v] \in {Unset, env.keys[v]}

\* runner.py:426-461: a worker that fails to start keeps no other from starting,
\* be it the other one of its venue: once the boot is over, every active venue with
\* credentials has its paper worker, and its live one unless the account is another
\* than expected, those excepted whose own start raised.
NoVenueLeftBehind ==
    boot = "up" =>
        \A v \in Venues \ excused :
            venue[v].active /\ env.keys[v] # Unset =>
                /\ <<"paper", v>> \in workers \cup failed
                /\ Expected(v) \in {Unset, env.keys[v]} => <<"live", v>> \in workers \cup failed

\* db.py:214-218: what the operator has decided about a venue outlives every boot,
\* unless the environment overrides it (ACTIVE_EXCHANGES does so on every boot,
\* although runner.py:74-77 says once).
BootKeepsVenues ==
    [][\A v \in Venues :
         boot = "down" /\ venue[v].seeded =>
            /\ venue'[v].expected = venue[v].expected
            /\ env.override = {} => venue'[v].active = venue[v].active]_vars

\* runner.py:253-310: a deposit or withdrawal that the history has shown for
\* Patience ticks is recorded, if nothing has failed for as long.  A lost session
\* costs an hour, since the clock is stamped before the commit, but no flow.
FlowsIngested ==
    \A f \in Visible : age[f] > Patience /\ smooth > Patience => f \in table

\* runner.py:44-66: a worker whose writes succeed is never silent for more than an
\* interval and the turns around it.  (The rule no_recent_events of
\* diagnostics/anomalies.py:20-29 fires after the interval alone.)
NotSilent == smooth > Patience => quiet <= Patience

=============================================================================
