-------------------------- MODULE MetricsHistory --------------------------
(***************************************************************************)
(* Telemetry: the collector's timer (server/services/metrics-collector.js),*)
(* the captures it and the routes of server/routes/metrics.js start        *)
(* (captureSnapshot of server/services/metrics-history.js), the two tables *)
(* and the cursor of server/models/perf-db.js they are stored in, and the  *)
(* retention sweep that deletes from both tables.                          *)
(*                                                                         *)
(* A capture awaits the inventory, the RRD updates and the metrics of the  *)
(* pool, each for at most as long as its calls may take, and stores in one *)
(* stretch.  The samples of one target key are modelled, and of those the  *)
(* one metric; target keys share the collector only.  A pool has a row of  *)
(* RRD data for every instant.                                             *)
(*                                                                         *)
(* Retention deletes from these tables and from that of RemediationTickets;*)
(* RetentionProofs extends both modules, so this one names its initial     *)
(* states, its steps and its types for itself.                             *)
(***************************************************************************)
EXTENDS Naturals, FiniteSets, FiniteSetsExt

CONSTANTS
  Request,     \* requests of the routes under way at once
  Pass,        \* callbacks of the collector's timer under way at once
  Value,       \* measurements
  Stale,       \* STALE_SAMPLE_WINDOW_MS (10 minutes)
  Hour,        \* the width of a roll-up
  Keep,        \* retention periods an administrator may set
  Patience,    \* the longest a capture takes
  LiveBound,   \* bound: live connections to the target
  SampleBound, \* bound: captures stored
  MaxTime      \* bound: the clock

ASSUME TimeAssumption ==
  /\ Stale \in Nat \ {0} /\ Hour \in Nat \ {0} /\ MaxTime \in Nat
  /\ Keep \subseteq Nat /\ Value \subseteq Nat
  /\ Patience \in Nat /\ Patience < Stale
  /\ LiveBound \in Nat /\ SampleBound \in Nat
  /\ Request \intersect Pass = {}

VARIABLES
  clock,    \* Date.now()
  raw,      \* metric_samples
  rollup,   \* metric_hourly_rollups; a count of 0 is no row
  cursor,   \* metric_collection_cursors; 0 is no row
  stored,   \* the last id given in metric_samples
  task,     \* the captures
  enabled,  \* the setting collectionEnabled, which every save copies to state
  booted,   \* bootstrapped
  armed,    \* timers that are set
  inFlight, \* state.inFlight
  swept,    \* history: the latest cutoff of a sweep of either table
  offered   \* history: RRD rows given to captures that moved the cursor

metricsVars == <<clock, raw, rollup, cursor, stored, task, enabled, booted, armed,
                 inFlight, swept, offered>>

store     == <<raw, rollup, cursor, stored, swept, offered>>
collector == <<enabled, booted, armed, inFlight>>

-----------------------------------------------------------------------------
Time   == Stale..(Stale + MaxTime)
Bucket == 0..((Stale + MaxTime) \div Hour)
Table  == {"samples", "rollups"}
Task   == Request \union Pass

Sample == [id : Nat, ts : Time, value : Value]

(* total: avg_value times sample_count.                                    *)
Rollup == [count : Nat, total : Nat, min : Nat, max : Nat, last : Nat]

NoRollup == [count |-> 0, total |-> 0, min |-> 0, max |-> 0, last |-> 0]

(* left: live targets a pass has still to capture.                         *)
TaskType == [at : {"idle", "inventory", "rrd", "metrics"}, now : Nat, from : Nat,
             latest : Nat, left : 0..LiveBound]

Idle == [at |-> "idle", now |-> 0, from |-> 0, latest |-> 0, left |-> 0]

Capturing == {t \in Task : task[t].at # "idle"}

(* The bound leaves room for n captures more.                              *)
Room(n) ==
  stored + n + Cardinality(Capturing) + MapThenSumSet(LAMBDA t : task[t].left, Task) <= SampleBound

toHourlyBucket(ts) == ts \div Hour

(* getLatestTimestamp(): 0 when the target has no sample.                  *)
Latest == IF raw = {} THEN 0 ELSE CHOOSE ts \in Time :
            /\ \E s \in raw : s.ts = ts
            /\ \A s \in raw : s.ts <= ts

Smaller(a, b) == IF a < b THEN a ELSE b
Larger(a, b)  == IF a < b THEN b ELSE a

(* Mutant: a conflict replaces the average.                                *)
UpsertPlain(r, v) ==
  IF r.count = 0
    THEN [count |-> 1, total |-> v, min |-> v, max |-> v, last |-> v]
    ELSE [count |-> r.count + 1, total |-> v * (r.count + 1),
          min |-> Smaller(r.min, v), max |-> Larger(r.max, v), last |-> v]

(* upsertRollup of a value.                                                *)
Upsert(r, v) ==
  IF r.count = 0
    THEN [count |-> 1, total |-> v, min |-> v, max |-> v, last |-> v]
    ELSE [count |-> r.count + 1, total |-> r.total + v,
          min |-> Smaller(r.min, v), max |-> Larger(r.max, v), last |-> v]

-----------------------------------------------------------------------------
(* Mutant: the timer that is set is not cleared.                           *)
ScheduledTwice(n) == IF booted /\ enabled' THEN n + 1 ELSE n

(* scheduleNextRun(), n timers being set: the one it knows is replaced.    *)
Scheduled(n) == IF booted /\ enabled' THEN 1 ELSE n

(* captureSnapshot() up to its first await, the cursor being at a row.     *)
Started(left, at) ==
  [at |-> "inventory", now |-> clock, latest |-> 0, left |-> left,
   from |-> IF at > 0 THEN at + 1 ELSE clock - Stale]

MetricsInit ==
  /\ clock = Stale
  /\ raw = {} /\ rollup = [b \in Bucket |-> NoRollup]
  /\ cursor = 0 /\ stored = 0
  /\ task = [t \in Task |-> Idle]
  /\ enabled \in BOOLEAN /\ booted = TRUE
  /\ armed = IF enabled THEN 1 ELSE 0
  /\ inFlight = FALSE
  /\ swept = 0 /\ offered = {}

(* ensureRecentSnapshot() of a GET, or of POST /collect (force): a sample  *)
(* that is recent enough is not taken again.                               *)
Ask(r, force) ==
  /\ r \in Request /\ task[r].at = "idle" /\ Room(1)
  /\ force \/ Latest = 0 \/ clock - Latest >= Stale
  /\ task' = [task EXCEPT ![r] = Started(0, cursor)]
  /\ UNCHANGED <<clock, store, collector>>

(* The timer fires while a pass is under way.                              *)
FireBusy ==
  /\ armed > 0 /\ inFlight
  /\ UNCHANGED <<clock, store, task, enabled, booted, inFlight>>
  /\ armed' = Scheduled(armed - 1)

(* The timer fires and a pass begins over the targets that are live.       *)
Fire(s, live) ==
  /\ armed > 0 /\ ~inFlight
  /\ s \in Pass /\ task[s].at = "idle" /\ Room(live)
  /\ UNCHANGED <<clock, store, enabled, booted>>
  /\ IF live = 0
       THEN /\ armed' = Scheduled(armed - 1)
            /\ UNCHANGED <<task, inFlight>>
       ELSE /\ task' = [task EXCEPT ![s] = Started(live - 1, cursor)]
            /\ inFlight' = TRUE /\ armed' = armed - 1

(* Mutant: the error of a target ends the pass, and nothing clears inFlight.*)
EndsAbruptly(t, ok) ==
  IF t \in Pass /\ ok /\ task[t].left > 0
    THEN /\ task' = [task EXCEPT ![t] = Started(task[t].left - 1, cursor')]
         /\ UNCHANGED collector
    ELSE /\ task' = [task EXCEPT ![t] = Idle]
         /\ UNCHANGED <<enabled, booted>>
         /\ inFlight' = (inFlight /\ (t \notin Pass \/ ~ok))
         /\ armed' = IF t \in Pass THEN Scheduled(armed) ELSE armed

(* The end of a capture: a request is answered; a pass goes on with the    *)
(* next target, whether it failed or not, from where the cursor now is, or *)
(* ends and sets the timer.                                                *)
Ends(t, ok) ==
  IF t \in Pass /\ task[t].left > 0
    THEN /\ task' = [task EXCEPT ![t] = Started(task[t].left - 1, cursor')]
         /\ UNCHANGED collector
    ELSE /\ task' = [task EXCEPT ![t] = Idle]
         /\ UNCHANGED <<enabled, booted>>
         /\ inFlight' = (inFlight /\ t \notin Pass)
         /\ armed' = IF t \in Pass THEN Scheduled(armed) ELSE armed

Inventory(t) ==
  /\ task[t].at = "inventory"
  /\ task' = [task EXCEPT ![t].at = "rrd"]
  /\ UNCHANGED <<clock, store, collector>>

InventoryFails(t) ==
  /\ task[t].at = "inventory"
  /\ UNCHANGED <<clock, store>>
  /\ Ends(t, FALSE)

(* loadRrdDerivedMetrics(): rows from the cursor on, or nothing.           *)
Updates(t, ok) ==
  /\ task[t].at = "rrd"
  /\ task' = [task EXCEPT ![t].at = "metrics",
                          ![t].latest = IF ok /\ task[t].from <= clock THEN clock ELSE 0]
  /\ UNCHANGED <<clock, store, collector>>

(* insertMany(), one transaction over both tables.                         *)
Insert(t, v) ==
  LET ts == task[t].now IN
  /\ stored' = stored + 1
  /\ raw' = raw \union {[id |-> stored + 1, ts |-> ts, value |-> v]}
  /\ rollup' = [rollup EXCEPT ![toHourlyBucket(ts)] = Upsert(@, v)]
  /\ UNCHANGED swept

(* Mutant: the cursor follows the clock, whether there were rows or not.   *)
AdvancesAnyway(t) ==
  /\ cursor' = task[t].now
  /\ offered' = offered \union (IF task[t].latest = 0 THEN {} ELSE task[t].from..task[t].latest)

(* setRrdCursor(), when the capture was given rows.                        *)
Advances(t) ==
  IF task[t].latest > 0
    THEN /\ cursor' = task[t].latest
         /\ offered' = offered \union task[t].from..task[t].latest
    ELSE UNCHANGED <<cursor, offered>>

(* The metrics are there, those that could not be read as 0: the samples   *)
(* are stored, and then the cursor.                                        *)
Store(t, v) ==
  /\ task[t].at = "metrics"
  /\ Insert(t, v)
  /\ Advances(t)
  /\ Ends(t, TRUE)
  /\ UNCHANGED clock

-----------------------------------------------------------------------------
(* start() of a new process.                                               *)
Boot ==
  /\ task' = [t \in Task |-> Idle]
  /\ booted' = TRUE /\ inFlight' = FALSE
  /\ armed' = IF enabled THEN 1 ELSE 0
  /\ UNCHANGED <<clock, enabled>>

Crash == Boot /\ UNCHANGED store

(* The process dies between the two writes of Store.                       *)
CrashStoring(t) ==
  /\ task[t].at = "metrics" /\ task[t].latest > 0
  /\ \E v \in Value : Insert(t, v)
  /\ UNCHANGED <<cursor, offered>>
  /\ Boot

(* stop(), by a server that shuts down; what is under way goes on.         *)
Stop ==
  /\ booted
  /\ booted' = FALSE /\ armed' = 0
  /\ UNCHANGED <<clock, store, task, enabled, inFlight>>

(* PUT /api/system-config/performance and refreshScheduler().              *)
Configure(on) ==
  /\ enabled' = on
  /\ armed' = IF ~booted THEN armed ELSE IF on THEN Scheduled(armed) ELSE 0
  /\ UNCHANGED <<clock, store, task, booted, inFlight>>

(* purgeDomain() of a telemetry table.                                     *)
Purge(table, keep) ==
  LET cutoff == clock - keep IN
  /\ clock > keep
  /\ IF table = "samples"
       THEN raw' = {s \in raw : s.ts >= cutoff} /\ rollup' = rollup
       ELSE raw' = raw /\ rollup' =
              [b \in Bucket |-> IF b * Hour < cutoff THEN NoRollup ELSE rollup[b]]
  /\ swept' = Larger(swept, cutoff)
  /\ UNCHANGED <<clock, cursor, stored, offered, task, collector>>

(* Time passes, while no capture has taken longer than its calls may take. *)
Tick ==
  /\ clock < Stale + MaxTime
  /\ \A t \in Capturing : clock < task[t].now + Patience
  /\ clock' = clock + 1
  /\ UNCHANGED <<store, task, collector>>

Proceed(t) ==
  \/ Inventory(t) \/ InventoryFails(t)
  \/ \E ok \in BOOLEAN : Updates(t, ok)
  \/ \E v \in Value : Store(t, v)

Timer == FireBusy \/ \E s \in Pass, live \in 0..LiveBound : Fire(s, live)

MetricsNext ==
  \/ \E r \in Request, force \in BOOLEAN : Ask(r, force)
  \/ \E t \in Task : Proceed(t) \/ CrashStoring(t)
  \/ Timer
  \/ Crash \/ Stop
  \/ \E on \in BOOLEAN : Configure(on)
  \/ \E table \in Table, keep \in Keep : Purge(table, keep)
  \/ Tick

MetricsSpec == MetricsInit /\ [][MetricsNext]_metricsVars

(* A timer that is set fires, and every call is answered or given up after *)
(* its 30 seconds.                                                         *)
FairSpec == MetricsSpec /\ WF_metricsVars(Timer) /\ \A t \in Task : WF_metricsVars(Proceed(t))

-----------------------------------------------------------------------------
(* Types of the variables.                                                 *)
MetricsTypeOK ==
  /\ clock \in Time
  /\ raw \subseteq Sample /\ rollup \in [Bucket -> Rollup]
  /\ cursor \in Nat /\ stored \in Nat
  /\ task \in [Task -> TaskType]
  /\ enabled \in BOOLEAN /\ booted \in BOOLEAN /\ inFlight \in BOOLEAN
  /\ armed \in Nat
  /\ swept \in Nat /\ offered \subseteq Nat

TotalOf(rows) == MapThenSumSet(LAMBDA s : s.value, rows)

RowsOf(b) == {s \in raw : toHourlyBucket(s.ts) = b}

(* The latest of some samples, as the readers of samples order them, by    *)
(* the instant their captures began.                                       *)
IsLatest(s, rows) == \A o \in rows : o.ts <= s.ts

(* A capture that began before that of s was stored after it.              *)
Overtaken(s, rows) == \E o \in rows : o.id > s.id

(* The long ranges of a chart, read from the roll-ups, tell of an hour     *)
(* what the short ones, read from the samples, tell of it, as long as no   *)
(* sweep has deleted from that hour: as many, the same total and bounds,   *)
(* whatever captures cross or are cut short; and as the last value that of *)
(* the latest sample, unless captures crossed so that another one was      *)
(* stored after it (the roll-up keeps what was stored last).               *)
ViewsAgree ==
  \A b \in Bucket : b * Hour >= swept =>
    LET rows == RowsOf(b)
        r    == rollup[b] IN
    /\ r.count = Cardinality(rows)
    /\ r.total = TotalOf(rows)
    /\ rows # {} => {r.min, r.max} \subseteq {s.value : s \in rows}
    /\ \A s \in rows :
         /\ r.min <= s.value /\ s.value <= r.max
         /\ IsLatest(s, rows) /\ ~Overtaken(s, rows) => r.last = s.value

(* Once it is set, the cursor passes over no RRD row: every row up to it   *)
(* was given to a capture that is stored, though captures cross and move   *)
(* it backwards, are given nothing, fail and are cut short.                *)
CursorBacked ==
  \A at \in offered : at <= cursor => at..cursor \subseteq offered

(* The timer of a collector that is on and idle is set once, and that of   *)
(* one that is off or stopped is not, whatever settings are saved while a  *)
(* pass is under way.                                                      *)
TimerSet ==
  /\ armed <= 1
  /\ booted /\ enabled /\ ~inFlight => armed = 1
  /\ ~(booted /\ enabled) => armed = 0

(* Every pass ends, whatever fails in it and however the settings change   *)
(* meanwhile; the timer is then set for the next one (TimerSet).           *)
PassesEnd == []<>~inFlight
=============================================================================
