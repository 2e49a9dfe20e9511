# AV Tools: TLA+ models, model checking and proofs

Paths below are relative to the repository: `core/av_tools.py` is
`src/avtools/core/av_tools.py`, and so on. Everything here is read from the
code; a module's comments name the functions it models, and `PROJECT.json` maps
every definition to its lines.

## 1. The system

AV Tools keeps an inventory of audio-visual devices in Postgres, fed from the
asset manager EAM and the network database LanDB, and collects SNMP metrics from
the devices in that inventory. It has no server: a timer (systemd or a CronJob)
or an operator starts one command, the command does one run and exits. All
coordination between runs goes through the Postgres tables.

```
 EAM --run-eam--> eam_devices, eam_positions --sync-rooms--> eam_rooms
                      |
 LanDB --run-landb----+--> landb_ipaddresses --run-snmp--> OTLP metrics, text rows
```

### Components

| component | state it keeps | operations | where |
|---|---|---|---|
| reconciliation | none | plan inserts, updates and deletes; guard the deletes; commit | `core/av_tools.py` `_sync_entities`, `_diff_models`; `postgres/inventory/client.py` `_sync_devices` |
| EAM job `run-eam` | `had_errors`, `status` | login, sync assets, sync positions, heartbeat | `core/av_tools.py` `run_eam`, `main.py` |
| LanDB job `run-landb` | EAM snapshot, four lookup maps, `_landb_fetch_degraded`, `status` | four chunked lookups, match, correlate, sync, exit code, heartbeat | `run_landb`, `_get_landb_ipaddresses`, `_landb_fetch_in_chunks` |
| rooms job `sync-rooms` | two row lists, `status` | read inputs, resolve, sync, heartbeat | `sync_rooms`, `_resolve_rooms` |
| room resolver | index, memo | climb from a position to its topmost room | `algorithms/room_resolver.py` |
| ORM rows, sanitizer | none | conversions, the list of compared columns | `postgres/inventory/orm/`, `utils/eam_sanitizer.py` |
| table bootstrap | the cache tables' schema | drop a legacy table, create the tables | `PostgresClient.__init__` |
| SNMP cycle | device list, per-phase results, `status` | load, shard, ping, probe, query, interfaces, publish | `run_snmp_timeseries`, `_get_snmp_raw` |
| ping client | two semaphores, attempt counters | ping with retries, backoff and jitter | `snmp/client.py` |
| router and OTLP publisher | exporter, confirmation | encode, publish, confirm, retry, write text rows | `pipeline/snmp_router.py`, `timeseries/` |
| factories, query registry | none | choose handler and query by class, brand and model | `snmp/factories/`, `snmp/queries/` |
| handlers, MIBs | none | SNMP get, walk, parse | `snmp/handlers/`, `snmp/mibs/` |
| monitoring tables | text rows | two upserts | `postgres/monitoring/client.py` |
| command line, logging, Sentry, scripts | none | options, exit codes | `main.py`, `logsink.py`, `observability/` |

### How they interact and what is hard

* **Shared tables, no locks.** Every inventory run fetches its upstream view,
  *then* reads the whole table, plans from the two, and commits the plan in one
  READ COMMITTED transaction, which loads each row to update without a lock and
  writes only the columns that differ from what it loaded. Nothing is held between
  the reads and the commit. Timers of one
  job do not overlap by themselves, but a run can be started by hand besides
  them (`docs/deployment/README.md`, "Forcing a run manually"), so a snapshot may
  be outdated when it is acted on.
* **Partial answers.** LanDB is asked in chunks. A failed chunk looks like "no
  such device" except for one flag that has to survive three further lookups.
  EAM may answer short without an error, or twice for one key.
* **Several transactions.** `run-eam` commits two tables independently;
  `sync-rooms` reads them in two statements; a kill may fall between.
* **Two delete guards.** A degraded fetch deletes nothing; a delete of more than
  half of the table is refused, after the inserts and updates went through. The
  first empties the plan before the second looks at it.
* **Heartbeats.** An alert trusts that a heartbeat means a successful sync.
* **SNMP.** One job per shard and priority tier, all collecting the same way and
  each publishing its part; worker chunks with barriers between the phases; and
  an exporter whose failures are ambiguous. Alerts take a series that is absent
  for one that is fine.
* **Ping and SNMP calls.** A client per worker chunk with semaphores of its own,
  retries after a backoff, a documented time budget, and blocking calls that wait
  for one pool of threads.
* **Half an answer.** A walk that fails part-way returns the rows it has; columns
  of one table end at different rows, and the unit of a value is another request.
* **Two routings.** The factory and the query registry choose by different rules,
  and handlers are kept by address, which two devices may share.
* **A schema change.** Every command drops and creates tables before its work, with
  nothing locked, while other commands use the same tables.

The full list, each hazard with its line and the properties that cover it, is
`hazards` in `PROJECT.json`.

### What would make each component correct

* Reconciliation: the committed table agrees with the view unless a guard says
  otherwise; no commit deletes more than the guard allows *of the table as it
  is*, not as it was read. A row may mix columns of two versions after an overlap,
  but every value is one upstream served for that key in that column, a run by
  itself never makes a mixture, and later runs undo those that a diff can see.
* Every inventory job: `ok` means synchronised; the heartbeat means `ok`; the
  table converges to upstream once failures stop.
* LanDB job: a complete fetch yields exactly LanDB's answer; a device is removed
  only because it is gone, never because a lookup was lost.
* Rooms: every cached device has one row, the topmost room of its position's
  chain or the right sentinel, for any index including cyclic ones.
* SNMP cycle: the shards' gauges add up to the fleet; no two jobs write one
  series; every phase sees exactly the targets the previous one chose, each
  once; `ok` tells the truth.
* Ping: at most the configured number of calls run at once, no permit lies idle
  while a coroutine waits for it, a host is given up only after its attempts.
* Reads and routing: a reading is of its own row and in its own unit, a device's
  query and its handler belong to one family, no two readings share a series.
* Bootstrap: a job that passed its checks works on current tables, a job fails
  here only when another disturbed it, and a dropped table comes back.
* Publishing: a cycle that ends `ok` has handed over a complete batch and written
  its text rows; an export is attempted a bounded number of times; the guardrails
  never vanish.

## 2. The modules

| module | models | kind |
|---|---|---|
| `Reconcile` | `_sync_entities`, `_diff_models`, `_sync_devices` | operators over tables |
| `InventoryCache` | what the readers of a cache table rely on | abstract specification |
| `InventorySync` | one table and overlapping runs of its job | state machine, implements `InventoryCache` |
| `LandbRun` | one `run-landb` in detail, run after run | state machine, `INSTANCE Reconcile` |
| `InventoryJobs` | `run-eam` and `sync-rooms` over three tables | state machine, three instances of `Reconcile` |
| `RoomResolver` | `resolve_one`, device after device | state machine |
| `SnmpCycle` | the collection jobs of one deployment, cycle after cycle, up to MONIT and the text tables | state machine |
| `SnmpClient` | one collection host by host: clients, semaphores, retries, the thread pool, time | state machine, implements the collection of `SnmpCycle` |
| `DeviceReads` | what the handlers make of an agent and the encoder of that | operators, used by `SnmpClient` |
| `HandlerFactory` | which handler and which query a target gets | operators, used by `DeviceReads` |
| `CacheBootstrap` | the client's constructor in several commands at once, before their work | state machine |
| `ReconcileProofs`, `InventorySyncProofs`, `LandbRunProofs`, `InventoryJobsProofs`, `RoomResolverProofs`, `SnmpCycleProofs`, `SnmpClientProofs`, `CacheBootstrapProofs` | | proofs |
| `MCInventorySync`, `MCLandbRun`, `MCInventoryJobs`, `MCRoomResolver`, `MCSnmpCycle`, `MCSnmpClient`, `MCCacheBootstrap` | | constants for TLC |

### Reconcile

A table, a snapshot of it and an upstream view are all functions from primary
keys to a row or `NoRow` (one row per key, as the schema has it). A row is a
function from `Columns` to values; `Unset` is the value of a column that the fresh
payload leaves out. `Differs` looks at the columns on the compare list
(`Compared`) which the payload sets, row by row, as `_diff_models` does; the row
that is then written has all columns. Which columns are on which of the five lists
is a parameter. `Deletes` and `Refused` are the two guards in the code's order, so
that a degraded run can never be refused.

`Commit` is the flush and the commit on the table `t` *as it is now*. An insert whose
key has appeared since the snapshot is a primary-key error (`KeyConflict`), an
UPDATE whose row was deleted since it was loaded matches no row (`RowGone`); both
lose the whole transaction. `UpdatedRow(row, loaded, new)` is one UPDATE: the unit of
work sends the columns in which the fresh row differs from the row that
`session.get` had loaded, and the others stay what another run may have made of
them. `CommitAlone` is what all this amounts to when nothing happens to the table
between the snapshot and the commit, which `CommitAloneIsCommit` proves; `LandbRun`
and `InventoryJobs`, where the runs of a job follow one another, use it.

### InventorySync and InventoryCache

`run[r]` holds the locals of a run: the view, the `allow_deletes` argument, the
snapshot, and in its transaction the keys its DELETE has met, those whose rows are
still to be loaded, and the rows it has loaded. Actions: `FetchComplete`,
`FetchDegraded`, `FetchTruncated` (short and unnoticed), `FetchTwice` (a repeated
key, which only the first run's raw insert stumbles over), `FetchFails`, `ReadCache`
(one SELECT), `Open` (the plan, which is made of the snapshot only, and the DELETE),
`LoadRow` (one `session.get`, in any order, as the plan is a list made from a set),
`Apply` (flush and commit), `DatabaseFails`, `Crash`, and `UpstreamChange`. Between
any two of these statements another run may commit, and each statement sees what
is committed by then, which is READ COMMITTED.

What is left out of the transaction are the row locks the DELETE and the UPDATEs
take. They make a transaction wait for another that has written one of its rows,
which decides who commits first, or end in a deadlock, which Postgres resolves by
a `DatabaseFails`. The model takes every order of commits, so it also has some that
the locks forbid (an UPDATE that commits while a DELETE of its row is under way).

`InventoryCache` knows no runs: rows are served by upstream, a commit replaces
any rows by rows whose every value was served for that key in that column, and loses
at most half of the largest inventory the table has held. It does not promise that
a row was served whole: overlapping runs break that. The histories `served` and `peak`
carry the refinement mapping,
which is the identity on the three variables.

### LandbRun

The EAM snapshot, the two device lookups and the two address lookups with their
fallback sets, the first-match-wins merges (LanDB chooses the order of its
answers, so "first" is any candidate), the matching (serial before name), the
correlation, the flag, every terminal status up to what the exit code tells apart,
and the heartbeat. A failed chunk may already have delivered any part of its
answer, since the results are merged while they are iterated. EAM and LanDB may change between
any two chunks. The LanDB service and its client are external.

### InventoryJobs

`run_eam`'s two flows with the `had_errors` flag, the department filter of each of the
two queries, which falls back to no filter by itself, the two SELECTs of `get_eam_room_inputs`, the rooms
sync, both statuses and both heartbeats. A position row names the room it
resolves to; the climb itself is `RoomResolver`.

### RoomResolver

One action per link. `MAX_CLIMB_DEPTH` is a constant. A device's position may be
unknown; the index is any function, cycles and broken links included.

### SnmpCycle

`deployment` says how many shards there are, whether there is one untiered job
per shard or one per tier, and what the fleet may hold; it never changes (the
option `--shard-total` must equal the number of pods). `cycle[j]` is the process
of job `j`: its targets, the chunks of the current phase that are still out, the
devices each phase has a result for, the batch and the flush attempts.
`Load` reads and shards the fleet; `Ping`, `Probe`, `Query` and `Walk` are one
worker coming back with any answers; `Barrier` is the `asyncio.gather` that
starts the next phase on the targets the code takes (all are probed, whatever
ping said; those that are up are queried and walked). `Publish` encodes, adds
the guardrails and filters by tier; `Flush` and `FlushUnconfirmed` are
`force_flush`, whose failure may or may not have delivered; `UpsertProjectors`
and `UpsertSysdescr` are the text sinks, in the router's order. `Skip` is the
cycle without targets, which publishes zeros. Failures: `LoadFails`,
`CollectionFails`, `PublishFails`, `SkipFails`, `UpsertFails`, `Crash`.

A series is a metric and what tells its samples apart: the device, or the
guardrails' labels. Values are left out, except for `targeted`, what MONIT has as
each job's `devices_targeted`. One metric stands for each kind of result, and the only
class with a query is the projector; other classes differ in which metrics a
result turns into. What a chunk of devices brings back is left open here and
detailed by the next three modules.

### SnmpClient, DeviceReads and HandlerFactory

`SnmpClient` opens the box that `SnmpCycle` keeps shut, `_get_snmp_raw`. `task[d]`
is the coroutine of device `d` in the current phase: waiting for its client's
semaphore, pinging, sleeping, queued for the pool, calling, or done. `chunks` are
the clients of the phase; `Chunk(d)` finds the semaphore a device shares, so that
each chunk has permits of its own, as in the code. `PingAnswered` and `PingFails`
(no answer, an error, or the deadline, at any time up to it) end an attempt;
`PingFails` chooses the jitter; `WakeUp` ends a backoff, for which the permit was
given back. `Acquire`, `Run`, `Probe`, `Describe`, `SkipQuery`, `Query`, `Walks`
are the calls; the sysDescr is read under the permit of its probe. `Raises` is an
exception out of a call: `gather` passes it on and the collection is over.
`Tick` lets one unit of time pass, only when nothing is due: no free permit has a
waiter, no timer has run out. Time is modelled for the pings, whose budget the code
documents; an SNMP call takes any time, but ends.

`first` are the devices whose handlers the clients of the phase hold.
`get_handlers` keeps the first device at an address, in the order of a SELECT
without ORDER BY; the model takes any.

`AsCycle` maps the state to one cycle of `SnmpCycle`: a chunk is out until the last of its devices is
done, and what a phase has collected is what its finished chunks returned.
`ImplementsCycle` says that with this mapping every step is a step of
`SnmpCycle` or none.

`DeviceReads` has an agent (which objects it has, its scalars, its tables by
row) and describes each reading as a function of the agent and of what was lost:
a set of requests that fail, and for a walk among them the row it got to.
`_walk_indexed` leaves such a walk's beginning; `fetch_interfaces`,
`fetch_outlets` and `fetch_environment` join columns by row; `_fahrenheit_map`
reads the unit by another request. One column or scalar stands for those read and
encoded alike. `HandlerFactory` has the factories' choice and the queries' choice
side by side; a PDU is a Server Technology one by its brand or by a word in its
model.

### CacheBootstrap

`schema[t]` is absent, legacy or current. A command checks table after table
(`Probe`), drops what it found to be legacy (`Drop`, some time after the look),
looks again and creates table after table (`Check`, `Create`), then reads its own
table and inserts what that lacks (`Read`, `Commit`). `CheckFails` is the warning
after which a check is given up; `CreateTwice` and `StatementFails` are the races
that end a command. Since upstream stands still here, reconciling is inserting;
the rest of it is `InventorySync`. `skipped` and `disturbed` are histories.

## 3. The runs

| run | question | bounds | states |
|---|---|---|---|
| `sync` | do overlapping runs keep every value genuine and mix rows only where they overlap, are they bounded in loss and honest, do they implement the cache, and converge in the end? | 3 keys, 3 versions of a row of 3 columns, 2 runs, 2 upstream changes or faults | 411k |
| `decommission` | does it converge *always*? No: finding 1 | as above, 2 keys | |
| `landb` | exact complete views, no live device deleted, honest heartbeat; do later runs repair what degraded ones left? | 2 devices, 2 serials, 2 names, one value per request, 5 EAM snapshots, 16 LanDB contents, 2 faults, 1 change | 1.0M |
| `landb_rematch` | does a lost chunk leave only rows a complete lookup would write? No: finding 2 | 25 LanDB contents, 1 fault, no change | |
| `rooms` | is every answer the topmost room of the chain? | 4 positions, 2 devices, at most 2 links | 73k |
| `jobs` | honest ok, rooms follow the cache, the pipeline converges | 3 assets (one foreign), 2 positions, one of them another department's, 1 room, 1 change, 1 fault | 219k |
| `heartbeat` | is the heartbeat published only after success? No: finding 3 | as above | |
| `cycle` | every device once per phase, one writer per series, honest ok, gauges that add up to the fleet | 2 devices in one job with 2 workers, or one per shard of 2, or one in two tiers; 2 flush attempts, 1 change, 1 fault | 714k |
| `guardrails` | does every cycle publish the guardrails? No: finding 4 | as above | |
| `client` | limits, time budget, retries, readings of their own row, routing, one sample per series; does a collection end, and is it the one `SnmpCycle` assumes? | 2 or 3 of 5 devices on 4 agents, 2 threads, 1 permit per client, 3 attempts, times of one unit, 1 lost request | 277k |
| `celsius` | are temperatures always Celsius? No: finding 5 | as above | |
| `bootstrap` | what is checked stays checked, only races fail, the tables come back | 3 tables, one of them retired, 3 jobs, two on one table, any old schemas, 1 fault | 464k |

Why the bounds are enough. With three keys a delete of one, two and three rows
falls on both sides of one half, and with two keys exactly on it; two runs give
every overlap of two snapshots (what a third could add, it adds to a table like
any other). Of the three versions of a row the second differs from the first in one
compared column, the third in the other and in one that is not compared, and it
leaves the first unset: two runs that have loaded one row and write different
columns of it mix the versions, for which the two events of a behaviour are enough:
one upstream change for the view of each. Two events are also a change and a
fault of any kind, or two faults; every action occurs in some run. In `landb`, one
value per request makes every lookup a sequence of requests of which one fails and another succeeds,
and two faults let a first run leave something behind for a second to meet. In
`rooms`, a limit of two links on four positions cuts chains, and lets cycles of
two and three end before and at the limit; the index runs over *all* functions.
In `cycle`, two workers on two devices give two chunks of one phase out at once,
and phases whose targets are fewer than the workers, down to none; a device that
leaves empties a shard, and one that comes fills it; two flush attempts give a
retry that succeeds and one that is given up. An outage of MONIT counts as one
fault however many attempts of one cycle it takes.
In `client`, one fleet is a projector and a PDU of the newer kind, a chunk each;
the other is a PDU of the older kind with a projector at its address, which wait
for one semaphore, and a device of a class that a matrix factory and a codec query
could both claim. The older PDU has no brand and is known by its model. In every
table some column lacks a row, so that a walk that ends early and one that is whole
differ, and both PDUs have a sensor in Fahrenheit. With a base and a cap of the
backoff that are equal, the second backoff shows
whether the cap is applied. In `bootstrap`, two jobs on one table race at every step
and the third has a table that both may drop; all initial schemas are tried.
`MaxChanges` and `MaxFaults` bound only the environment, never the program.
`rooms` stops when every device is resolved and `client` when the collection is
over, which is the end of the program; only these, and `celsius`, do not check
deadlock. Symmetry is used only in `rooms` (positions and devices), which has no
liveness property.

**Fairness.** `FairSpec` asks of each run (or job) that its own steps go on: a timer starts
the job again and again, and a process that is not killed proceeds. Neither
failures nor upstream changes are ever required, and as both are bounded, "once
they settle" is the end of every behaviour. Convergence under weak fairness of
runs needs no fairness between jobs beyond that. In `cycle` this means that
`GaugesSumToFleet` does not ask of MONIT that it confirm: it asks that the job
comes round again after the outage, as its timer makes it. `SnmpClient` asks only
that something goes on while anything can: the event loop runs what is ready, a
ping is killed at its deadline, an SNMP request times out. It does not ask that an
exception be raised, nor that any host answer.

Every property is also run against a mutated definition (`mutants` in
`PROJECT.json`; the mutants stand before the definition they mutate) and must
fail there: a missing guard, a breaker with a floor, a flag that is overwritten,
an update that is forgotten, a lost cycle guard.

### What the failing runs show

1. **`decommission`.** The docstring of `sync_rooms` says that devices no longer
   present are deleted, and the refusal tells the operator to re-run with
   `allow_mass_delete=True`. No caller and no command passes it. A true
   decommission of over half of a table stays refused for ever.
2. **`landb_rematch`.** A serial missing because its chunk failed is treated as
   "not in LanDB": the device is looked up by name and matched to whichever LanDB
   device has that name, and a degraded run still inserts and updates. The
   contract of `_landb_fetch_in_chunks` forbids exactly that reading. `Heals`
   shows that the wrong row lives until the next complete run.
3. **`heartbeat`.** `run_eam` and `sync_rooms` swallow their errors and return
   `None`; the commands beat "only after a successful sync" regardless.
4. **`guardrails`.** The cycle guardrails "must emit on every run"; a cycle without
   targets publishes zeros for that reason. A cycle whose load or collection
   fails returns before any publishing, so the series vanish in just the case they
   were meant to show.
5. **`celsius`.** `fetch_environment` says that temperatures are normalised to
   Celsius by the scale. The scale is a request of its own; when it fails, or its
   walk ends before the sensor's row, the value is published unconverted.
   `ReadingsAreGenuine` shows that this is the only way it can happen.

Met while modelling, and not runs of their own: the semaphores are documented as limits
of the process (`snmp/client.py`, "in this process") and are limits of a worker
chunk; with a pool of `--threads` threads for all chunks the SNMP semaphores bind
only when a client has more calls than its permits *and* the pool has threads to
spare (`LimitsHold` has both bounds). `ping_max_budget_s` calls itself a
conservative bound and leaves out the two seconds a ping process gets beyond its
timeout and the wait for the semaphore; `PingBudget` has them. `_snmp_walk`'s
docstring says "empty on error", and its rows so far are returned. A loopback
interface is published when the walk of the types fails. In the bootstrap, a
verdict on a table may be carried out after another command has recreated and
filled it; the rows come back with the next run (`CacheComesBack`). A row that overlapping
runs have mixed is made whole by the next run that finds it different (`Converges`); where
the mixture is only in columns no diff looks at, it waits for the row's next change.
A run of `run-eam` one of whose filters fails ends `ok` with the rows of other departments,
as the warning it logs is no error; `OkMeansBothSynced` leaves such runs out and
`PipelineConverges` has their rows go again.

## 4. The proofs

TLAPS checks the following for any finite set of keys, any rows, any number of
runs, and any bounds.

* `ReconcileProofs`: what a commit deletes, keeps and writes. `CommitLoses`
  (nothing disappears but the guarded deletes) and `DeletesBounded` (they are at
  most half of the snapshot) are the lemmas the rest stands on; `CommitMirrors`
  says that an undisturbed run whose deletes are neither suppressed nor refused makes
  the table agree with its view. `CommitAloneIsCommit` says that for an undisturbed run the
  statements of the transaction amount to writing each planned row whole.
* `InventorySyncProofs`:
  * `TypeCorrect`, from `WellFormed`, which adds `PlanInv`: what a run deletes, and
    what it loads, is in its plan.
  * `ValuesAreGenuine`. `MixturesAreServed` is not inductive: a commit writes values
    of the *view*. `GenuineInv` adds that every row in every run's view was served.
    What a run has *loaded* needs no invariant: where the fresh row agrees with it
    nothing is written, where it does not the fresh value is, so that each value is
    either the table's own or the view's.
  * `OverlapsMix`: a row ends up neither as it was nor as the view has it only if it
    was no longer the row the run had loaded.
  * `DegradedRunsDeleteNothing`, `ErasureIsBounded`, `OkRunsMirror`,
    `RefusalsRefresh`: action properties. `RunEnds` shows that only `Apply` takes a run from `open`
    to the end with the table changed; the rest are lemmas about `Commit`.
  * `Refinement`: `Spec => InventoryCache`. The invariant `PeakInv` says that a
    snapshot, and the table, never hold more rows than `peak`; so half of a snapshot is at
    most half of `peak`, however outdated the snapshot is. For the values it needs what
    `ValuesAreGenuine` needs.
  * `WrongKeysDieOut`, what `Converges` rests on. `OutOfDate` are the runs whose
    view upstream has outdated. While upstream stands still and no fetch is cut
    short unnoticed, none joins them, each of them can commit once, and the commit of any
    other makes no key wrong, even with a snapshot and loaded rows that others have
    outdated: a planned insert of a key that is there by then fails, a delete does what a
    run started now would do, an update writes values of now or leaves what is there
    (`CurrentViewsDoNoHarm`). TLC finds that
    without the exception for `OutOfDate` this is false.
* `RoomResolverProofs`:
  * `ResolverTypeCorrect`, `ClimbNeverRevisits` from `ClimbInv` (a climb's
    visited set is finite, contains where it is, and has one position more than links
    followed). The guard of `NextParent` is what the proof uses.
  * `AnswersAreHonest` from `AnswersInv`, which ties each *memo* entry to the
    index: unknown positions and only they get `NO_ROOM_NO_POSITION`, a device whose
    own position is a room gets a room, and any room handed out is one.
  * `RoomOfEveryDevice`: the memoised, one-directional climb agrees with the
    reference that takes a longest chain upwards without a repeat. `ChainInv` has,
    for a climb under way, the chain it has followed and that every other chain
    from there is a beginning of it or goes on from its end; `EndOfChain` then says
    that where the guard of `NextParent` stops the climb, no chain is longer. No
    induction on chains is needed, the steps of the climb are one. `RoomsInv` says
    the same of the memo, which positions on the way up share.
  * `ResolvingEnds`: `Remaining` (devices without an answer, positions a climb
    has not visited) goes down with every step, and an answer never changes.
    With it termination needs only that the steps are taken.
* `LandbRunProofs`: `LandbTypeCorrect`, `CompleteViewsAreExact`, `DeletedMeansAbsent`,
  `HeartbeatIsHonest`, all from `LandbInv`. As long as EAM and LanDB stay as they
  were when the run began, every answer the run has is LanDB's (`Genuine`), and as
  long as no chunk was lost, no answer means that there is none (`Answered`): of
  a serial or a name once it has been asked for, of an address only when the second
  lookup has asked for those the first left open. `MatchIsExact` and `ViewIsExact`
  then follow the two correlations; that a degraded run deletes nothing and an
  unhindered commit leaves the view in the table is a matter of `Reconcile`. TLC
  takes one change of EAM or LanDB per behaviour, the theorems any number.
  `ExactRowsAreKept`, what `Heals` rests on: while EAM and LanDB stand still, a run
  without a lost chunk makes no row wrong. One with a lost chunk may
  (`DegradedIsNotNotFound`), which is why the theorem excludes it.
* `InventoryJobsProofs`: `JobsTypeCorrect`; `OkIsBoth`, which needs that a
  run without an error so far, EAM unchanged and its first query filtered, has already
  mirrored the department's assets (`EamSoFar`); `RoomsAreCurrent`, which needs that
  what an undisturbed run has read
  is what the tables hold (`SyncSoFar`), so that the row it commits is resolved from
  the tables of now. `PipelineSettles`, what `PipelineConverges` rests on: while EAM
  stands still and no query goes out unfiltered, wrong rows of `eam_devices` and `eam_positions` only become
  fewer, these tables are left alone once they are right, and then wrong rooms
  only become fewer too, except by a sync-rooms that has read older tables.
* `SnmpCycleProofs`:
  * `CycleTypeCorrect`, `SeriesHaveOneWriter` from `CycleInv`: everything a cycle
    holds, its batch included, stays within what its job may write. That two jobs
    may not write the same is arithmetic: a hash has one remainder
    (`SeriesDisjoint`), a device metric one tier (`TiersAreExact`), and the
    guardrails' labels determine the job, left out or not (`LabelsAreTheJob`).
    The bound on flushes needs that a cycle in `flush` has an attempt left.
  * `OkIsHonest` from `RecordInv`: after the hand-over the batch has the
    guardrails (they pass every tier's filter), and after the first sink its rows
    are there. Only the write of the last sink ends a cycle `ok`.
  * `NobodyIsLeftOut` from `CollectedInv`: a phase not yet reached has nothing, a
    phase passed has all that were due, and in the current one those due are spread
    over the results and the chunks (`Spread`). `ListIsBijective` says that a set
    listed by successive choices has each element at one place; from it
    `SplitSpreads` derives what `split_even` promises, remainders included.
  * `FleetIsDivided` (each device in one shard of every tier) and
    `GaugesStayRight`, what `GaugesSumToFleet` rests on: while the fleet stands
    still a gauge goes wrong only by a cycle that had loaded another fleet, and
    no cycle becomes one. That disjoint shards' counts add up is the sum TLC does.
* `CacheBootstrapProofs`: `BootstrapTypeCorrect`; `ChecksHold`, for which the
  invariant needs only that nothing ever makes a schema old again; `LoneJobsSucceed`,
  whose invariant says for an undisturbed job what its checks and creations so
  far have left of each table, and that its snapshot is the table. `UpgradeEnds`, what
  `CacheComesBack` rests on: no schema becomes old again, a table loses rows only
  to a job about to carry out a verdict, which spends it, and once nothing is old
  there are no new verdicts.
* `SnmpClientProofs`:
  * `LimitsAreKept`, `DownHostsWereTried`, `NoPermitIsIdle`, `ClientTypeCorrect`
    from `Shape` (types), `Turns` (how many attempts have failed where a coroutine is) and
    `Limited` (holders of a chunk within its permits, calls within the pool). A
    step changes one device's task, and a device is in one chunk: that the chunks of a phase are
    disjoint is `ChunksAreDisjoint`, from `ListIsInjective`, which says that a
    set listed by successive choices lists no element twice.
  * `ReadingsKeepTheirRow`, `RoutesAgree`, `SeriesAreDistinct` from `Sourced`:
    every reading is one `DeviceReads` gives for the device's agent, some lost
    requests, and the handler of a device at that address. What follows about rows
    is then a matter of `DeviceReads` alone (`WalkIs`, `StatsAre`).
  * `PingsEndInTime`. `PingBudget` only says when the last ping is over; `Budget`
    says of any moment that the clock times the number of permits is at most what
    the host itself has used of its own attempts and backoffs (`Own`, times the
    permits) plus what the others of its chunk have used (`Spent`). While a host
    waits, all permits are taken (`NoPermitIsIdle`), so a unit of time costs the
    others as many units as there are permits; otherwise it costs the host one of
    its own. Units of time are elements of sets and sums their cardinalities,
    since a sum over a set is recursive.
  * `CollectionIsTheCycle`: the refinement `ImplementsCycle`, phase by phase. It
    needs `Dealt`: in a phase, the chunks together are the devices due in it, none
    is empty, and a sysDescr belongs to a device that is up. `Goes` says what a
    coroutine that goes on leaves alone; it is a stutter unless it is the last of
    its chunk to be done, and then the return of a chunk in `SnmpCycle`.
  * `PhasesAreFinite`: within a phase each step lowers the `Rank` of one host (calls
    left, then the place in the current one) and no other changes, or time passes
    below the budget. It is the part of `CollectionEnds` that needs no fairness.

Assumptions: `IdsAssumption` (finitely many keys), `NoRowAssumption`,
`BoundsAssumption`; for the LanDB job a `None` that is no serial or name and a
`NoRow` that is no answer; for the resolver finitely many positions, sentinels that
are not positions and a `None` that is neither position nor device, and for the
cycle finitely many devices with a natural number as hash, at least one flush
attempt, and deployments that are untiered or use the four tiers; for the client
finitely many devices, well-formed agents and routing, natural times and positive
limits; for the bootstrap a sequence of tables. TLC evaluates them all.

Model-checked only: liveness (`Converges`, `Heals`, `PipelineConverges`,
`GaugesSumToFleet`, `CollectionEnds`, `CacheComesBack`), which is beyond the
prover, as is anything on `ENABLED`. Every other property of a passing run is
a theorem, and of each of the six the part that needs no fairness is one too:
what is right stays right, harm can be done only by what is already out of date
and runs out, a phase cannot go on for ever (`WrongKeysDieOut`, `ExactRowsAreKept`,
`PipelineSettles`, `GaugesStayRight`, `PhasesAreFinite`, `UpgradeEnds`). What TLC
adds is that the steps that set things right are taken. These six theorems are
about steps; their formulas were checked by TLC on the runs' instances before
they were proved. No module declares a RECURSIVE operator.

## 5. What is not modelled

Left out for good: SNMP and HTTP I/O, log wording, Sentry, option parsing (no
state, or none outside the library), the Grafana and deployment files. Further:

* Texts: the sanitizer, firmware and sysDescr strings, numbers inside texts
  (`snmp/handlers/parsing.py`), the info metrics whose labels are texts.
* The MIB resolver: OIDs, scales and enums are those of the built-in fallbacks,
  which the repository keeps equal to the MIBs (`mibs/MANIFEST.md`).
* Tables with an index of several parts. `_walk_indexed` keys rows by the last part
  and is documented for single-integer indices; the model has such tables only, so
  a chain of PDUs, whose outlets would share numbers, is outside it.
* Which of two jobs of different tiers last wrote a text row: `updated_at` is
  stamped when the record is built and not compared by the upsert.
* Jobs of one deployment started with different `--shard-total`; `main.py` says it
  must equal the number of pods.
* How the output of `ping` is classified, and the fallback from `ping -4` to
  `ping`: one attempt, with one deadline.

## 6. Plan

1. Proofs: what one uninterrupted run of each job achieves from its start to its
   end, the step each liveness property waits for.
2. `SnmpCycle`: what the text rows say and who said it last.
