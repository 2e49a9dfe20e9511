----------------------------- MODULE SnmpCycle -----------------------------
(***************************************************************************)
(* The SNMP collection cycle of snmp-timeseries (AVTools.                  *)
(* run_snmp_timeseries and _get_snmp_raw, core/av_tools.py), with the      *)
(* router and the OTLP publisher that end it (pipeline/snmp_router.py,     *)
(* timeseries/otlp_publisher.py).  The collection is deployed as one job   *)
(* per shard and priority tier, each started again and again by its timer. *)
(* A cycle loads the fleet, keeps its shard, pings, probes, queries and    *)
(* walks the interfaces in worker chunks with a barrier between phases,    *)
(* publishes one batch and then writes two text tables.  What a device     *)
(* answers is chosen freely; classes without a text record are left out.   *)
(***************************************************************************)
EXTENDS Integers, FiniteSets, Sequences, SequencesExt

CONSTANTS
    Devices,
    Hash,           \* crc32 of a device's equipment number
    Projectors,     \* the devices routed to the projector query
    Deployments,    \* what may be deployed: number of shards, tiers, devices
    MaxWorkers,     \* --threads
    FlushAttempts,  \* _FLUSH_ATTEMPTS
    NoData,         \* a series that has never been delivered
    MaxChanges,     \* bound: devices that enter or leave the fleet table
    MaxFaults       \* bound: failures and kills in a behaviour

Tiers == {"critical", "high", "medium", "low"}
ALL == "all"

(* Either one untiered job per shard or one per shard and chosen tier.     *)
DeploymentRecords ==
    [total : Nat \ {0}, tiers : {{ALL}} \cup SUBSET Tiers, devices : SUBSET Devices]

ASSUME DevicesAssumption == IsFiniteSet(Devices) /\ Projectors \subseteq Devices
ASSUME HashAssumption == Hash \in [Devices -> Nat]
ASSUME DeploymentsAssumption == Deployments \subseteq DeploymentRecords
ASSUME LimitsAssumption == MaxWorkers \in Nat /\ FlushAttempts \in Nat \ {0}
ASSUME NoDataAssumption == NoData \notin Nat
ASSUME BoundsAssumption == MaxChanges \in Nat /\ MaxFaults \in Nat

VARIABLES
    deployment,                   \* fixed in a behaviour
    fleet,                        \* the devices in landb_ipaddresses
    cycle,                        \* the process of each job
    targeted,                     \* per job: its devices_targeted as MONIT has it
    projectorRows, sysdescrRows,  \* the text tables: devices with a row
    changes, faults

tables == <<targeted, projectorRows, sysdescrRows>>
vars == <<deployment, fleet, cycle, tables, changes, faults>>

-----------------------------------------------------------------------------
(* Shards and series.                                                      *)

Jobs == (0 .. deployment.total - 1) \X deployment.tiers

\* device_in_shard
InShard(d, shard, total) == total <= 1 \/ Hash[d] % total = shard

Guardrails == {"devices_targeted", "devices_polled", "coverage_ratio", "cycle_duration_seconds"}

\* METRIC_META: one metric stands for those of a kind of result and a tier.
Priority(metric) ==
    CASE metric \in Guardrails -> "always"
      [] metric \in {"ping_status", "probe_status", "if_oper_status"} -> "critical"
      [] metric = "ping_rtt" -> "high"
      [] metric = "lamp_hours" -> "medium"

\* should_publish, and the router's test for "all".
ShouldPublish(metric, tier) ==
    tier = ALL \/ Priority(metric) \in {"always", tier}

\* Mutant: guardrails carry the shard only.
LabelsWithoutTier(j) == <<IF deployment.total > 1 THEN j[1] ELSE 0, ALL>>

\* guardrail_labels: a label left out for the only shard, and for "all".
GuardrailLabels(j) == <<IF deployment.total > 1 THEN j[1] ELSE 0, j[2]>>

\* encode_all: metrics of one device, by the results that carry them.
DeviceSamples(c) ==
    ({"ping_status"} \X c.pinged) \cup ({"ping_rtt"} \X c.answered)
        \cup ({"probe_status"} \X c.probed) \cup ({"lamp_hours"} \X c.projectors)
        \cup ({"if_oper_status"} \X c.walked)

\* The series process hands to the publisher for job j.
Batch(j, c) ==
    {s \in DeviceSamples(c) \cup (Guardrails \X {GuardrailLabels(j)}) :
        ShouldPublish(s[1], j[2])}

\* cycle_guardrail_samples with zeros: no duration, no device.
ZeroBatch(j) == (Guardrails \ {"cycle_duration_seconds"}) \X {GuardrailLabels(j)}

Labels == Nat \X (Tiers \cup {ALL})
Metrics == Guardrails \cup {"ping_status", "probe_status", "if_oper_status", "ping_rtt", "lamp_hours"}
Samples == Metrics \X (Devices \cup Labels)

-----------------------------------------------------------------------------
(* One cycle.                                                              *)

Phases == {"ping", "probe", "query", "interfaces"}

(* targets: devices; todo: the chunks the phase's workers have not come    *)
(* back from; pinged, probed, queried, walked: devices each phase has a    *)
(* result for or was asked about, answered and up: those that replied;     *)
(* described, projectors: those with a text result (a row and the lamp     *)
(* hours are taken together); batch: the series handed to the publisher;   *)
(* attempts: flushes that were not confirmed; status: how the last cycle   *)
(* of the job ended.                                                       *)
CycleStates ==
    [pc : {"idle", "publish", "flush", "projectors", "sysdescr"} \cup Phases,
     targets : SUBSET Devices, todo : SUBSET SUBSET Devices,
     pinged : SUBSET Devices, answered : SUBSET Devices,
     probed : SUBSET Devices, up : SUBSET Devices, described : SUBSET Devices,
     queried : SUBSET Devices, projectors : SUBSET Devices, walked : SUBSET Devices,
     batch : SUBSET Samples, attempts : 0 .. FlushAttempts,
     status : {"none", "ok", "completed_with_errors", "failed_load_landb_ipaddresses",
               "failed_snmp_collection", "skipped_no_targets"}]

NewCycle(pc, targets) ==
    [pc |-> pc, targets |-> targets, todo |-> {}, pinged |-> {}, answered |-> {},
     probed |-> {}, up |-> {}, described |-> {}, queried |-> {}, projectors |-> {},
     walked |-> {}, batch |-> {}, attempts |-> 0, status |-> "none"]

Ended(status) == [NewCycle("idle", {}) EXCEPT !.status = status]

TypeOK ==
    /\ deployment \in Deployments
    /\ fleet \in SUBSET deployment.devices
    /\ cycle \in [Jobs -> CycleStates]
    /\ targeted \in [Jobs -> Nat \cup {NoData}]
    /\ projectorRows \in SUBSET Devices
    /\ sysdescrRows \in SUBSET Devices
    /\ changes \in 0 .. MaxChanges
    /\ faults \in 0 .. MaxFaults

Init ==
    /\ deployment \in Deployments
    /\ fleet \in SUBSET deployment.devices
    /\ cycle = [j \in Jobs |-> NewCycle("idle", {})]
    /\ targeted = [j \in Jobs |-> NoData]
    /\ projectorRows = {}
    /\ sysdescrRows = {}
    /\ changes = 0
    /\ faults = 0

Fault ==
    /\ faults < MaxFaults
    /\ faults' = faults + 1

FleetChange(d) ==
    /\ changes < MaxChanges
    /\ changes' = changes + 1
    /\ fleet' = IF d \in fleet THEN fleet \ {d} ELSE fleet \cup {d}
    /\ UNCHANGED <<deployment, cycle, tables, faults>>

-----------------------------------------------------------------------------
(* Collection.                                                             *)

AtMost(n, m) == IF n < m THEN n ELSE m
AtLeast(n, m) == IF n < m THEN m ELSE n

\* split_even: round robin over at most MaxWorkers chunks.
SplitEven(items) ==
    LET list == SetToSeq(items)
        n == AtMost(AtLeast(1, MaxWorkers), Len(list))
    IN  {{d \in items : \E i \in DOMAIN list : list[i] = d /\ i % n = k} : k \in 0 .. n - 1}

CycleStep(j, c) ==
    /\ cycle' = [cycle EXCEPT ![j] = c]
    /\ UNCHANGED <<deployment, fleet, changes>>

Load(j) ==
    LET targets == {d \in fleet : InShard(d, j[1], deployment.total)}
    IN  /\ cycle[j].pc = "idle"
        /\ targets # {}
        /\ CycleStep(j, [NewCycle("ping", targets) EXCEPT !.todo = SplitEven(targets)])
        /\ UNCHANGED <<tables, faults>>

LoadFails(j) ==
    /\ Fault
    /\ cycle[j].pc = "idle"
    /\ CycleStep(j, Ended("failed_load_landb_ipaddresses"))
    /\ UNCHANGED tables

\* One worker of the phase comes back; until all have, nothing else happens.
ChunkDone(j, phase, chunk, c) ==
    /\ cycle[j].pc = phase
    /\ chunk \in cycle[j].todo
    /\ CycleStep(j, [c EXCEPT !.todo = @ \ {chunk}])
    /\ UNCHANGED <<tables, faults>>

\* collect_ping: one result for every target, whatever happened to it.
Ping(j, chunk, answered) ==
    ChunkDone(j, "ping", chunk,
        [cycle[j] EXCEPT !.pinged = @ \cup chunk, !.answered = @ \cup answered])

\* collect_snmp_probe; sysDescr is asked of those that are up.
Probe(j, chunk, up, described) ==
    ChunkDone(j, "probe", chunk,
        [cycle[j] EXCEPT !.probed = @ \cup chunk, !.up = @ \cup up,
                         !.described = @ \cup described])

\* collect_snmp_queries: a result unless the answer is empty.
Query(j, chunk, projectors) ==
    ChunkDone(j, "query", chunk,
        [cycle[j] EXCEPT !.queried = @ \cup chunk, !.projectors = @ \cup projectors])

\* collect_snmp_interfaces; every device is taken to have a port.
Walk(j, chunk) ==
    ChunkDone(j, "interfaces", chunk, [cycle[j] EXCEPT !.walked = @ \cup chunk])

NextPhase == [ping |-> "probe", probe |-> "query", query |-> "interfaces",
              interfaces |-> "publish"]

\* Mutant: only devices that answered the ping are probed.
TargetsOfAnswered(phase, c) ==
    IF phase = "ping" THEN c.targets ELSE IF phase = "probe" THEN c.answered ELSE c.up

\* All targets are probed; those that are up go on.
TargetsOf(phase, c) == IF phase \in {"ping", "probe"} THEN c.targets ELSE c.up

\* asyncio.gather has returned for every chunk.
Barrier(j) ==
    LET c == cycle[j]
        next == NextPhase[c.pc]
    IN  /\ c.pc \in Phases
        /\ c.todo = {}
        /\ CycleStep(j, [c EXCEPT !.pc = next,
                            !.todo = IF next \in Phases THEN SplitEven(TargetsOf(next, c)) ELSE {}])
        /\ UNCHANGED <<tables, faults>>

\* An exception of any worker ends the collection.
CollectionFails(j) ==
    /\ Fault
    /\ cycle[j].pc \in Phases
    /\ CycleStep(j, Ended("failed_snmp_collection"))
    /\ UNCHANGED tables

-----------------------------------------------------------------------------
(* Publishing.                                                             *)

\* SNMPObserverRouter.process up to publish.
Publish(j) ==
    /\ cycle[j].pc = "publish"
    /\ CycleStep(j, [NewCycle("flush", cycle[j].targets) EXCEPT
                        !.batch = Batch(j, cycle[j]),
                        !.described = cycle[j].described,
                        !.projectors = cycle[j].projectors])
    /\ UNCHANGED <<tables, faults>>

\* Mutant: a cycle without targets returns at once.
SkipSilently(j) ==
    /\ cycle[j].pc = "idle"
    /\ {d \in fleet : InShard(d, j[1], deployment.total)} = {}
    /\ CycleStep(j, Ended("skipped_no_targets"))
    /\ UNCHANGED <<tables, faults>>

\* _publish_zero_cycle_guardrails
Skip(j) ==
    /\ cycle[j].pc = "idle"
    /\ {d \in fleet : InShard(d, j[1], deployment.total)} = {}
    /\ CycleStep(j, [NewCycle("flush", {}) EXCEPT !.batch = ZeroBatch(j)])
    /\ UNCHANGED <<tables, faults>>

\* What follows the flush, confirmed or not: the router ignores the answer.
AfterFlush(c) ==
    IF c.targets = {} THEN Ended("skipped_no_targets") ELSE [c EXCEPT !.pc = "projectors"]

\* force_flush is confirmed.
Flush(j) ==
    /\ cycle[j].pc = "flush"
    /\ CycleStep(j, AfterFlush(cycle[j]))
    /\ targeted' = [targeted EXCEPT ![j] = Cardinality(cycle[j].targets)]
    /\ UNCHANGED <<projectorRows, sysdescrRows, faults>>

\* Mutant: one attempt too many.
MayRetryOnceMore(attempts) == attempts <= FlushAttempts

MayRetry(attempts) == attempts < FlushAttempts

\* It is not, though it may have been delivered; it is tried again.  An
\* outage is one fault, however many attempts of the cycle it takes.
FlushUnconfirmed(j, delivered) ==
    LET c == [cycle[j] EXCEPT !.attempts = @ + 1]
    IN  /\ cycle[j].pc = "flush"
        /\ IF cycle[j].attempts = 0 THEN Fault ELSE UNCHANGED faults
        /\ CycleStep(j, IF MayRetry(c.attempts) THEN c ELSE AfterFlush(c))
        /\ targeted' = IF delivered
                       THEN [targeted EXCEPT ![j] = Cardinality(c.targets)]
                       ELSE targeted
        /\ UNCHANGED <<projectorRows, sysdescrRows>>

\* Mutant: the last handler sets the status.
StatusWithErrors == "ok"

Failed == "completed_with_errors"

\* The publisher, the router's encoder or the monitoring client raises.
PublishFails(j) ==
    /\ Fault
    /\ cycle[j].pc = "publish"
    /\ CycleStep(j, Ended(Failed))
    /\ UNCHANGED tables

\* _publish_zero_cycle_guardrails swallows what the publisher raises.
SkipFails(j) ==
    /\ Fault
    /\ cycle[j].pc = "idle"
    /\ {d \in fleet : InShard(d, j[1], deployment.total)} = {}
    /\ CycleStep(j, Ended("skipped_no_targets"))
    /\ UNCHANGED tables

UpsertProjectors(j) ==
    /\ cycle[j].pc = "projectors"
    /\ CycleStep(j, [cycle[j] EXCEPT !.pc = "sysdescr"])
    /\ projectorRows' = projectorRows \cup cycle[j].projectors
    /\ UNCHANGED <<targeted, sysdescrRows, faults>>

UpsertSysdescr(j) ==
    /\ cycle[j].pc = "sysdescr"
    /\ CycleStep(j, Ended("ok"))
    /\ sysdescrRows' = sysdescrRows \cup cycle[j].described
    /\ UNCHANGED <<targeted, projectorRows, faults>>

\* An upsert without records does not go to the database.
UpsertFails(j) ==
    /\ Fault
    /\ \/ cycle[j].pc = "projectors" /\ cycle[j].projectors # {}
       \/ cycle[j].pc = "sysdescr" /\ cycle[j].described # {}
    /\ CycleStep(j, Ended(Failed))
    /\ UNCHANGED tables

Crash(j) ==
    /\ Fault
    /\ cycle[j].pc # "idle"
    /\ CycleStep(j, NewCycle("idle", {}))
    /\ UNCHANGED tables

-----------------------------------------------------------------------------

Collect(j) ==
    \/ Load(j)
    \/ \E chunk \in cycle[j].todo :
        \/ \E answered \in SUBSET chunk : Ping(j, chunk, answered)
        \/ \E up \in SUBSET chunk : \E described \in SUBSET up : Probe(j, chunk, up, described)
        \/ \E projectors \in SUBSET (chunk \cap Projectors) : Query(j, chunk, projectors)
        \/ Walk(j, chunk)
    \/ Barrier(j)

Deliver(j) == Publish(j) \/ Skip(j) \/ Flush(j) \/ UpsertProjectors(j) \/ UpsertSysdescr(j)

Fail(j) ==
    \/ LoadFails(j)
    \/ CollectionFails(j)
    \/ PublishFails(j)
    \/ SkipFails(j)
    \/ \E delivered \in BOOLEAN : FlushUnconfirmed(j, delivered)
    \/ UpsertFails(j)
    \/ Crash(j)

Next ==
    \/ \E j \in Jobs : Collect(j) \/ Deliver(j) \/ Fail(j)
    \/ \E d \in deployment.devices : FleetChange(d)

Spec == Init /\ [][Next]_vars

(* Each job is started again by its timer, and a cycle nothing kills goes  *)
(* on.  All jobs that some deployment may have are listed, as those of the *)
(* deployment at hand are a variable.                                      *)
AllJobs == UNION {(0 .. r.total - 1) \X r.tiers : r \in Deployments}

FairSpec ==
    /\ Spec
    /\ \A j \in AllJobs : WF_vars(j \in Jobs /\ (Collect(j) \/ Deliver(j)))

-----------------------------------------------------------------------------
(* Properties.                                                             *)

Done(c) ==
    CASE c.pc = "ping" -> c.pinged
      [] c.pc = "probe" -> c.probed
      [] c.pc = "query" -> c.queried
      [] c.pc = "interfaces" -> c.walked

(* In each phase every device that is due is with exactly one worker or    *)
(* has its result, and nobody else is: all targets are pinged and probed,  *)
(* those that are up are queried and walked, whatever MaxWorkers is.       *)
EachDeviceOnce ==
    \A j \in Jobs :
        LET c == cycle[j]
            due == IF c.pc \in {"ping", "probe"} THEN c.targets ELSE c.up
        IN  /\ c.pc \in Phases =>
                /\ Done(c) \cup UNION c.todo = due
                /\ \A chunk \in c.todo : chunk # {} /\ chunk \cap Done(c) = {}
                /\ \A x, y \in c.todo : x = y \/ x \cap y = {}
                /\ Cardinality(c.todo) <= AtLeast(1, MaxWorkers)
            /\ c.pc = "publish" =>
                /\ c.pinged = c.targets /\ c.probed = c.targets
                /\ c.queried = c.up /\ c.walked = c.up

(* No two jobs of a deployment hand the same series to MONIT, though all   *)
(* tiers collect everything and every job sends the guardrails.            *)
OneWriterPerSeries ==
    \A j, k \in Jobs : j = k \/ cycle[j].batch \cap cycle[k].batch = {}

EndsWith(j, status) ==
    cycle[j].pc # "idle" /\ cycle'[j].pc = "idle" /\ cycle'[j].status = status

(* A cycle that ends ok has handed over its batch, complete guardrails     *)
(* included, and put every text it collected into the tables.              *)
OkMeansRecorded ==
    [][\A j \in Jobs : EndsWith(j, "ok") =>
        /\ Guardrails \X {GuardrailLabels(j)} \subseteq cycle[j].batch
        /\ cycle[j].projectors \subseteq projectorRows'
        /\ cycle[j].described \subseteq sysdescrRows']_vars

Sum(f, S) == FoldSet(LAMBDA j, n : f[j] + n, 0, S)

(* "targeted per shard is what the fleet-wide coverage SLO sums back up    *)
(* across shards": once fleet and faults settle, the shards' gauges of     *)
(* each tier add up to the fleet, shards that became empty included.       *)
GaugesSumToFleet ==
    <>[](\A tier \in deployment.tiers :
            LET shards == (0 .. deployment.total - 1) \X {tier}
            IN  /\ \A j \in shards : targeted[j] # NoData
                /\ Sum(targeted, shards) = Cardinality(fleet))

(* The guardrails "must emit on every run regardless of tier": a cycle     *)
(* that ends by itself has handed them to the publisher.                   *)
GuardrailsEveryRun ==
    [][\A j \in Jobs : cycle[j] # cycle'[j] /\ cycle'[j].pc = "idle" /\ cycle'[j].status # "none"
        => ZeroBatch(j) \subseteq cycle[j].batch]_vars
=============================================================================
