-------------------------- MODULE SnmpCycleProofs --------------------------
(* Proofs about SnmpCycle for any devices, hash, deployments and bounds:   *)
(* types, that no two jobs write one series, that ok means recorded, that  *)
(* no device is left out of a phase or in it twice, and that right gauges  *)
(* stay right.                                                             *)
EXTENDS SnmpCycle, FiniteSetTheorems, TLAPS

DeviceMetrics == Metrics \ Guardrails

(* What job j may write: the tier's metrics of its shard's devices, and    *)
(* the guardrails under its own labels.                                    *)
SeriesOf(j) ==
    {s \in DeviceMetrics \X Devices :
        InShard(s[2], j[1], deployment.total) /\ ShouldPublish(s[1], j[2])}
    \cup (Guardrails \X {GuardrailLabels(j)})

InShardOf(j) == {d \in Devices : InShard(d, j[1], deployment.total)}

(* Everything a cycle holds stays within the shard of its job.             *)
Confined(j, c) ==
    /\ c.targets \subseteq InShardOf(j)
    /\ \A chunk \in c.todo : chunk \subseteq InShardOf(j)
    /\ c.pinged \subseteq InShardOf(j)
    /\ c.answered \subseteq InShardOf(j)
    /\ c.probed \subseteq InShardOf(j)
    /\ c.up \subseteq InShardOf(j)
    /\ c.projectors \subseteq InShardOf(j)
    /\ c.walked \subseteq InShardOf(j)
    /\ c.batch \subseteq SeriesOf(j)

(* A cycle that is flushing has an attempt left.                           *)
Good(j, c) ==
    /\ c \in CycleStates
    /\ Confined(j, c)
    /\ c.pc = "flush" => c.attempts < FlushAttempts

CycleInv == TypeOK /\ \A j \in Jobs : Good(j, cycle[j])

-----------------------------------------------------------------------------
(* The series of two jobs.                                                 *)

\* The guardrails of a job are told apart by its shard and tier.
LEMMA LabelsAreTheJob ==
    ASSUME deployment \in Deployments, NEW j \in Jobs
    PROVE  /\ GuardrailLabels(j) = j
           /\ j \in Labels
<1>1. /\ deployment.total \in Nat \ {0}
      /\ deployment.tiers \in {{ALL}} \cup SUBSET Tiers
    BY DeploymentsAssumption DEF DeploymentRecords
<1>2. j[1] \in 0 .. deployment.total - 1 /\ j[2] \in deployment.tiers /\ j = <<j[1], j[2]>>
    BY DEF Jobs
<1>3. j[2] \in Tiers \cup {ALL}
    BY <1>1, <1>2
<1>4. deployment.total <= 1 => j[1] = 0
    BY <1>1, <1>2
<1>. QED BY <1>1, <1>2, <1>3, <1>4 DEF GuardrailLabels, Labels

\* No tier but "all" takes in another tier's device metrics.
LEMMA TiersAreExact ==
    ASSUME NEW metric \in DeviceMetrics, NEW s \in Tiers, NEW t \in Tiers,
           ShouldPublish(metric, s), ShouldPublish(metric, t)
    PROVE  s = t
<1>1. metric \in {"ping_status", "probe_status", "if_oper_status", "ping_rtt", "lamp_hours"}
    BY DEF DeviceMetrics, Metrics
<1>2. Priority(metric) # "always"
    BY <1>1 DEF Priority, Guardrails
<1>3. s # ALL /\ t # ALL
    BY DEF Tiers, ALL
<1>. QED BY <1>2, <1>3 DEF ShouldPublish

\* The shards of a deployment are disjoint, and so are the series.
LEMMA SeriesDisjoint ==
    ASSUME deployment \in Deployments, NEW j \in Jobs, NEW k \in Jobs, j # k
    PROVE  SeriesOf(j) \cap SeriesOf(k) = {}
<1>1. /\ deployment.total \in Nat \ {0}
      /\ deployment.tiers \in {{ALL}} \cup SUBSET Tiers
    BY DeploymentsAssumption DEF DeploymentRecords
<1>2. /\ j[1] \in 0 .. deployment.total - 1 /\ j[2] \in deployment.tiers /\ j = <<j[1], j[2]>>
      /\ k[1] \in 0 .. deployment.total - 1 /\ k[2] \in deployment.tiers /\ k = <<k[1], k[2]>>
    BY DEF Jobs
<1>3. SUFFICES ASSUME NEW s \in SeriesOf(j), s \in SeriesOf(k) PROVE FALSE
    OBVIOUS
<1>4. CASE s[1] \in Guardrails
  <2>1. s[2] = GuardrailLabels(j) /\ s[2] = GuardrailLabels(k)
      BY <1>3, <1>4 DEF SeriesOf, DeviceMetrics
  <2>. QED BY <2>1, LabelsAreTheJob
<1>5. CASE s[1] \notin Guardrails
  <2>1. /\ s[1] \in DeviceMetrics /\ s[2] \in Devices
        /\ InShard(s[2], j[1], deployment.total) /\ ShouldPublish(s[1], j[2])
        /\ InShard(s[2], k[1], deployment.total) /\ ShouldPublish(s[1], k[2])
      BY <1>3, <1>5 DEF SeriesOf
  <2>2. j[1] = k[1]
    <3>1. CASE deployment.total <= 1
        BY <3>1, <1>1, <1>2
    <3>2. CASE deployment.total > 1
      <4>1. deployment.total > 1 => ~ (deployment.total <= 1)
          BY <1>1
      <4>. QED BY <3>2, <4>1, <2>1 DEF InShard
    <3>. QED BY <3>1, <3>2, <1>1
  <2>3. j[2] = k[2]
    <3>1. CASE deployment.tiers = {ALL}
        BY <3>1, <1>2
    <3>2. CASE deployment.tiers \in SUBSET Tiers
        BY <3>2, <1>2, <2>1, TiersAreExact
    <3>. QED BY <3>1, <3>2, <1>1
  <2>. QED BY <2>2, <2>3, <1>2
<1>. QED BY <1>4, <1>5

-----------------------------------------------------------------------------
(* Good cycles.                                                            *)

PCs == {"idle", "publish", "flush", "projectors", "sysdescr"} \cup Phases

\* A new cycle on targets of its shard is good.
LEMMA NewIsGood ==
    ASSUME NEW j \in Jobs, NEW pc \in PCs, NEW targets \in SUBSET InShardOf(j)
    PROVE  Good(j, NewCycle(pc, targets))
<1>1. targets \in SUBSET Devices
    BY DEF InShardOf
<1>2. 0 \in 0 .. FlushAttempts /\ 0 < FlushAttempts
    BY LimitsAssumption
<1>3. NewCycle(pc, targets) \in CycleStates
    BY <1>1, <1>2 DEF NewCycle, CycleStates, PCs
<1>. QED BY <1>2, <1>3 DEF Good, Confined, NewCycle

\* So is one that has ended.
LEMMA EndedIsGood ==
    ASSUME NEW j \in Jobs,
           NEW status \in {"none", "ok", "completed_with_errors", "failed_load_landb_ipaddresses",
                           "failed_snmp_collection", "skipped_no_targets"}
    PROVE  Good(j, Ended(status))
<1>1. Good(j, NewCycle("idle", {}))
    BY NewIsGood DEF PCs
<1>2. Ended(status) \in CycleStates
    BY <1>1 DEF Good, Ended, CycleStates
<1>. QED BY <1>1, <1>2 DEF Good, Confined, Ended, NewCycle

\* split_even makes chunks of the devices it is given.
LEMMA SplitWithin ==
    ASSUME NEW items, NEW chunk \in SplitEven(items)
    PROVE  chunk \subseteq items
BY DEF SplitEven

\* The batch of a good cycle is made of the job's own series.
LEMMA BatchIsOwn ==
    ASSUME deployment \in Deployments, NEW j \in Jobs, NEW c, Good(j, c)
    PROVE  /\ Batch(j, c) \subseteq SeriesOf(j)
           /\ Batch(j, c) \subseteq Samples
           /\ ZeroBatch(j) \subseteq SeriesOf(j)
           /\ ZeroBatch(j) \subseteq Samples
<1>1. {"ping_status", "probe_status", "if_oper_status", "ping_rtt", "lamp_hours"} = DeviceMetrics
    BY DEF DeviceMetrics, Metrics, Guardrails
<1>2. DeviceSamples(c) \subseteq DeviceMetrics \X InShardOf(j)
    BY <1>1 DEF DeviceSamples, Good, Confined
<1>3. GuardrailLabels(j) \in Labels
    BY LabelsAreTheJob
<1>4. InShardOf(j) \subseteq Devices /\ DeviceMetrics \subseteq Metrics /\ Guardrails \subseteq Metrics
    BY DEF InShardOf, DeviceMetrics, Metrics
<1>5. Batch(j, c) \subseteq SeriesOf(j)
  <2>1. SUFFICES ASSUME NEW s \in Batch(j, c) PROVE s \in SeriesOf(j)
      OBVIOUS
  <2>2. CASE s \in DeviceSamples(c)
    <3>1. s \in DeviceMetrics \X InShardOf(j) /\ ShouldPublish(s[1], j[2])
        BY <2>1, <2>2, <1>2 DEF Batch
    <3>. QED BY <3>1 DEF SeriesOf, InShardOf
  <2>3. CASE s \in Guardrails \X {GuardrailLabels(j)}
      BY <2>3 DEF SeriesOf
  <2>. QED BY <2>1, <2>2, <2>3 DEF Batch
<1>6. SeriesOf(j) \subseteq Samples
    BY <1>3, <1>4 DEF SeriesOf, Samples
<1>7. ZeroBatch(j) \subseteq SeriesOf(j)
    BY DEF ZeroBatch, SeriesOf
<1>. QED BY <1>5, <1>6, <1>7

-----------------------------------------------------------------------------
(* Every step keeps CycleInv.                                              *)

\* A step of one job that leaves it with a good cycle.
LEMMA StepIsGood ==
    ASSUME CycleInv, NEW j \in Jobs, NEW c, Good(j, c), CycleStep(j, c)
    PROVE  /\ \A k \in Jobs' : Good(k, cycle[k])'
           /\ cycle' \in [Jobs -> CycleStates]'
           /\ (deployment \in Deployments)'
           /\ (fleet \in SUBSET deployment.devices)'
           /\ (changes \in 0 .. MaxChanges)'
<1>1. Jobs' = Jobs
    BY DEF CycleStep, Jobs
<1>2. cycle' = [cycle EXCEPT ![j] = c] /\ cycle \in [Jobs -> CycleStates] /\ c \in CycleStates
    BY DEF CycleStep, CycleInv, TypeOK, Good
<1>3. \A k \in Jobs : \A x : Good(k, x)' <=> Good(k, x)
    BY DEF CycleStep, Good, Confined, InShardOf, SeriesOf, GuardrailLabels
<1>4. \A k \in Jobs : Good(k, cycle'[k])
    BY <1>2 DEF CycleInv
<1>5. CycleStates' = CycleStates
    OBVIOUS
<1>. QED BY <1>1, <1>2, <1>3, <1>4 DEF CycleStep, CycleInv, TypeOK

\* Keeping everything but the process of one job.
LEMMA KeepsInv ==
    ASSUME CycleInv, NEW j \in Jobs, NEW c, Good(j, c), CycleStep(j, c),
           (targeted \in [Jobs -> Nat \cup {NoData}])',
           (projectorRows \in SUBSET Devices)',
           (sysdescrRows \in SUBSET Devices)',
           (faults \in 0 .. MaxFaults)'
    PROVE  CycleInv'
BY StepIsGood DEF CycleInv, TypeOK

\* A fault keeps its count within the bound.
LEMMA FaultIsCounted ==
    ASSUME CycleInv, Fault PROVE (faults \in 0 .. MaxFaults)'
BY BoundsAssumption DEF Fault, CycleInv, TypeOK

\* Jobs are fixed.
LEMMA SameJobs ==
    ASSUME NEW j, NEW c, CycleStep(j, c) PROVE Jobs' = Jobs
BY DEF CycleStep, Jobs

\* What the actions of a cycle leave it with.
LEMMA CollectKeepsInv ==
    ASSUME CycleInv, NEW j \in Jobs, Collect(j)
    PROVE  CycleInv'
<1>. DEFINE d == cycle[j]
            mine == {x \in fleet : InShard(x, j[1], deployment.total)}
<1>1. Good(j, d) /\ d \in CycleStates
    BY DEF CycleInv, Good
<1>2. /\ targeted \in [Jobs -> Nat \cup {NoData}]
      /\ projectorRows \in SUBSET Devices
      /\ sysdescrRows \in SUBSET Devices
      /\ faults \in 0 .. MaxFaults
    BY DEF CycleInv, TypeOK
<1>3. fleet \subseteq Devices
    BY DeploymentsAssumption DEF CycleInv, TypeOK, DeploymentRecords
<1>4. mine \in SUBSET InShardOf(j)
    BY <1>3 DEF InShardOf
<1>5. CASE Load(j)
  <2>. DEFINE c == [NewCycle("ping", mine) EXCEPT !.todo = SplitEven(mine)]
  <2>1. CycleStep(j, c) /\ UNCHANGED <<tables, faults>>
      BY <1>5 DEF Load
  <2>2. Good(j, NewCycle("ping", mine))
      BY <1>4, NewIsGood DEF PCs, Phases
  <2>3. \A chunk \in SplitEven(mine) : chunk \subseteq InShardOf(j) /\ chunk \subseteq Devices
      BY <1>4, SplitWithin DEF InShardOf
  <2>4. c \in CycleStates
      BY <2>2, <2>3 DEF Good, CycleStates
  <2>5. Good(j, c)
      BY <2>2, <2>3, <2>4 DEF Good, Confined, NewCycle
  <2>. QED BY <2>1, <2>5, <1>2, KeepsInv, SameJobs DEF tables
<1>6. CASE \E chunk \in d.todo :
              \/ \E answered \in SUBSET chunk : Ping(j, chunk, answered)
              \/ \E up \in SUBSET chunk : \E described \in SUBSET up :
                    Probe(j, chunk, up, described)
              \/ \E projectors \in SUBSET (chunk \cap Projectors) : Query(j, chunk, projectors)
              \/ Walk(j, chunk)
  <2>1. PICK chunk \in d.todo :
              \/ \E answered \in SUBSET chunk : Ping(j, chunk, answered)
              \/ \E up \in SUBSET chunk : \E described \in SUBSET up :
                    Probe(j, chunk, up, described)
              \/ \E projectors \in SUBSET (chunk \cap Projectors) : Query(j, chunk, projectors)
              \/ Walk(j, chunk)
      BY <1>6
  <2>2. chunk \subseteq InShardOf(j) /\ chunk \subseteq Devices
      BY <1>1 DEF Good, Confined, InShardOf
  <2>3. ASSUME NEW phase \in Phases, NEW c, ChunkDone(j, phase, chunk, c), Good(j, c)
        PROVE  CycleInv'
    <3>. DEFINE e == [c EXCEPT !.todo = @ \ {chunk}]
    <3>1. CycleStep(j, e) /\ UNCHANGED <<tables, faults>>
        BY <2>3 DEF ChunkDone
    <3>2. e \in CycleStates
        BY <2>3 DEF Good, CycleStates
    <3>3. c \in CycleStates
        BY <2>3 DEF Good
    <3>4. Good(j, e)
        BY <2>3, <3>2, <3>3 DEF Good, Confined, CycleStates
    <3>. QED BY <3>1, <3>4, <1>2, KeepsInv, SameJobs DEF tables
  <2>4. ASSUME NEW answered \in SUBSET chunk, Ping(j, chunk, answered)
        PROVE  CycleInv'
    <3>. DEFINE c == [d EXCEPT !.pinged = @ \cup chunk, !.answered = @ \cup answered]
    <3>1. c \in CycleStates
        BY <1>1, <2>2 DEF CycleStates
    <3>2. Good(j, c)
        BY <1>1, <2>2, <3>1 DEF Good, Confined, CycleStates
    <3>. QED BY <2>3, <2>4, <3>2 DEF Ping, Phases
  <2>5. ASSUME NEW up \in SUBSET chunk, NEW described \in SUBSET up,
               Probe(j, chunk, up, described)
        PROVE  CycleInv'
    <3>. DEFINE c == [d EXCEPT !.probed = @ \cup chunk, !.up = @ \cup up,
                               !.described = @ \cup described]
    <3>1. c \in CycleStates
        BY <1>1, <2>2 DEF CycleStates
    <3>2. Good(j, c)
        BY <1>1, <2>2, <3>1 DEF Good, Confined, CycleStates
    <3>. QED BY <2>3, <2>5, <3>2 DEF Probe, Phases
  <2>6. ASSUME NEW projectors \in SUBSET (chunk \cap Projectors), Query(j, chunk, projectors)
        PROVE  CycleInv'
    <3>. DEFINE c == [d EXCEPT !.queried = @ \cup chunk, !.projectors = @ \cup projectors]
    <3>1. c \in CycleStates
        BY <1>1, <2>2 DEF CycleStates
    <3>2. Good(j, c)
        BY <1>1, <2>2, <3>1 DEF Good, Confined, CycleStates
    <3>. QED BY <2>3, <2>6, <3>2 DEF Query, Phases
  <2>7. ASSUME Walk(j, chunk)
        PROVE  CycleInv'
    <3>. DEFINE c == [d EXCEPT !.walked = @ \cup chunk]
    <3>1. c \in CycleStates
        BY <1>1, <2>2 DEF CycleStates
    <3>2. Good(j, c)
        BY <1>1, <2>2, <3>1 DEF Good, Confined, CycleStates
    <3>. QED BY <2>3, <2>7, <3>2 DEF Walk, Phases
  <2>. QED BY <2>1, <2>4, <2>5, <2>6, <2>7
<1>7. CASE Barrier(j)
  <2>. DEFINE next == NextPhase[d.pc]
              due == TargetsOf(next, d)
              chunks == IF next \in Phases THEN SplitEven(due) ELSE {}
              c == [d EXCEPT !.pc = next, !.todo = chunks]
  <2>1. CycleStep(j, c) /\ UNCHANGED <<tables, faults>> /\ d.pc \in Phases
      BY <1>7 DEF Barrier
  <2>2. next \in {"probe", "query", "interfaces", "publish"}
      BY <2>1 DEF NextPhase, Phases
  <2>3. due \subseteq InShardOf(j)
      BY <1>1 DEF TargetsOf, Good, Confined
  <2>4. \A chunk \in chunks : chunk \subseteq InShardOf(j) /\ chunk \subseteq Devices
      BY <2>3, SplitWithin DEF InShardOf
  <2>. HIDE DEF next, due, chunks
  <2>5. c \in CycleStates
      BY <1>1, <2>2, <2>4 DEF CycleStates, Phases
  <2>6. Good(j, c)
      BY <1>1, <2>2, <2>4, <2>5 DEF Good, Confined, CycleStates
  <2>. QED BY <2>1, <2>6, <1>2, KeepsInv, SameJobs DEF tables
<1>. QED BY <1>5, <1>6, <1>7 DEF Collect

\* What a flush leads to is good, whatever became of it.
LEMMA AfterFlushIsGood ==
    ASSUME NEW j \in Jobs, NEW c, c \in CycleStates, Confined(j, c)
    PROVE  Good(j, AfterFlush(c))
<1>1. CASE c.targets = {}
    BY <1>1, EndedIsGood DEF AfterFlush
<1>2. CASE c.targets # {}
  <2>. DEFINE e == [c EXCEPT !.pc = "projectors"]
  <2>1. e \in CycleStates
      BY DEF CycleStates
  <2>2. Good(j, e)
      BY <2>1 DEF Good, Confined, CycleStates
  <2>. QED BY <1>2, <2>2 DEF AfterFlush
<1>. QED BY <1>1, <1>2

\* A gauge is updated to a number of devices.
LEMMA GaugeIsNumber ==
    ASSUME CycleInv, NEW j \in Jobs, NEW c, c \in CycleStates
    PROVE  [targeted EXCEPT ![j] = Cardinality(c.targets)] \in [Jobs -> Nat \cup {NoData}]
<1>1. c.targets \in SUBSET Devices
    BY DEF CycleStates
<1>2. Cardinality(c.targets) \in Nat
    BY <1>1, DevicesAssumption, FS_Subset, FS_CardinalityType
<1>. QED BY <1>2 DEF CycleInv, TypeOK

LEMMA DeliverKeepsInv ==
    ASSUME CycleInv, NEW j \in Jobs, Deliver(j)
    PROVE  CycleInv'
<1>. DEFINE d == cycle[j]
<1>1. Good(j, d) /\ d \in CycleStates /\ Confined(j, d)
    BY DEF CycleInv, Good
<1>2. /\ targeted \in [Jobs -> Nat \cup {NoData}]
      /\ projectorRows \in SUBSET Devices
      /\ sysdescrRows \in SUBSET Devices
      /\ faults \in 0 .. MaxFaults
      /\ deployment \in Deployments
    BY DEF CycleInv, TypeOK
<1>3. d.projectors \in SUBSET Devices /\ d.described \in SUBSET Devices
    BY <1>1 DEF CycleStates
<1>4. CASE Publish(j)
  <2>. DEFINE n == NewCycle("flush", d.targets)
              b == Batch(j, d)
              c == [n EXCEPT !.batch = b, !.described = d.described, !.projectors = d.projectors]
  <2>1. CycleStep(j, c) /\ UNCHANGED <<tables, faults>>
      BY <1>4 DEF Publish
  <2>2. Good(j, n)
      BY <1>1, NewIsGood DEF PCs, Confined
  <2>3. b \in SUBSET SeriesOf(j) /\ b \in SUBSET Samples
      BY <1>1, <1>2, BatchIsOwn
  <2>4. d.projectors \subseteq InShardOf(j)
      BY <1>1 DEF Confined
  <2>. HIDE DEF n, b
  <2>5. c \in CycleStates
      BY <1>3, <2>2, <2>3 DEF Good, CycleStates
  <2>6. n \in CycleStates
      BY <2>2 DEF Good
  <2>7. Good(j, c)
      BY <2>2, <2>3, <2>4, <2>5, <2>6 DEF Good, Confined, CycleStates
  <2>. QED BY <2>1, <2>7, <1>2, KeepsInv, SameJobs DEF tables
<1>5. CASE Skip(j)
  <2>. DEFINE n == NewCycle("flush", {})
              b == ZeroBatch(j)
              c == [n EXCEPT !.batch = b]
  <2>1. CycleStep(j, c) /\ UNCHANGED <<tables, faults>>
      BY <1>5 DEF Skip
  <2>2. Good(j, n)
      BY NewIsGood DEF PCs
  <2>3. b \in SUBSET SeriesOf(j) /\ b \in SUBSET Samples
      BY <1>1, <1>2, BatchIsOwn
  <2>. HIDE DEF n, b
  <2>4. c \in CycleStates
      BY <2>2, <2>3 DEF Good, CycleStates
  <2>5. n \in CycleStates
      BY <2>2 DEF Good
  <2>6. Good(j, c)
      BY <2>2, <2>3, <2>4, <2>5 DEF Good, Confined, CycleStates
  <2>. QED BY <2>1, <2>6, <1>2, KeepsInv, SameJobs DEF tables
<1>6. CASE Flush(j)
  <2>1. /\ CycleStep(j, AfterFlush(d))
        /\ targeted' = [targeted EXCEPT ![j] = Cardinality(d.targets)]
        /\ UNCHANGED <<projectorRows, sysdescrRows, faults>>
      BY <1>6 DEF Flush
  <2>2. targeted' \in [Jobs -> Nat \cup {NoData}]
      BY <1>1, <2>1, GaugeIsNumber
  <2>. QED BY <1>1, <1>2, <2>1, <2>2, AfterFlushIsGood, KeepsInv, SameJobs
<1>7. CASE UpsertProjectors(j)
  <2>. DEFINE c == [d EXCEPT !.pc = "sysdescr"]
  <2>1. /\ CycleStep(j, c)
        /\ projectorRows' = projectorRows \cup d.projectors
        /\ UNCHANGED <<targeted, sysdescrRows, faults>>
      BY <1>7 DEF UpsertProjectors
  <2>2. c \in CycleStates
      BY <1>1 DEF CycleStates
  <2>3. Good(j, c)
      BY <1>1, <2>2 DEF Good, Confined, CycleStates
  <2>. QED BY <1>2, <1>3, <2>1, <2>3, KeepsInv, SameJobs
<1>8. CASE UpsertSysdescr(j)
  <2>1. /\ CycleStep(j, Ended("ok"))
        /\ sysdescrRows' = sysdescrRows \cup d.described
        /\ UNCHANGED <<targeted, projectorRows, faults>>
      BY <1>8 DEF UpsertSysdescr
  <2>2. Good(j, Ended("ok"))
      BY EndedIsGood
  <2>. QED BY <1>2, <1>3, <2>1, <2>2, KeepsInv, SameJobs
<1>. QED BY <1>4, <1>5, <1>6, <1>7, <1>8 DEF Deliver

LEMMA FailKeepsInv ==
    ASSUME CycleInv, NEW j \in Jobs, Fail(j)
    PROVE  CycleInv'
<1>. DEFINE d == cycle[j]
<1>1. Good(j, d) /\ d \in CycleStates /\ Confined(j, d)
    BY DEF CycleInv, Good
<1>2. /\ targeted \in [Jobs -> Nat \cup {NoData}]
      /\ projectorRows \in SUBSET Devices
      /\ sysdescrRows \in SUBSET Devices
      /\ faults \in 0 .. MaxFaults
    BY DEF CycleInv, TypeOK
<1>3. ASSUME NEW c, Good(j, c), CycleStep(j, c), Fault, UNCHANGED tables
      PROVE  CycleInv'
    BY <1>2, <1>3, FaultIsCounted, KeepsInv, SameJobs DEF tables
<1>4. CASE LoadFails(j)
    BY <1>3, <1>4, EndedIsGood DEF LoadFails
<1>5. CASE CollectionFails(j)
    BY <1>3, <1>5, EndedIsGood DEF CollectionFails
<1>6. CASE PublishFails(j)
    BY <1>3, <1>6, EndedIsGood DEF PublishFails, Failed
<1>7. CASE UpsertFails(j)
    BY <1>3, <1>7, EndedIsGood DEF UpsertFails, Failed
<1>8. CASE Crash(j)
    BY <1>3, <1>8, NewIsGood DEF Crash, PCs
<1>9. ASSUME NEW delivered \in BOOLEAN, FlushUnconfirmed(j, delivered)
      PROVE  CycleInv'
  <2>. DEFINE c == [d EXCEPT !.attempts = @ + 1]
              e == IF MayRetry(c.attempts) THEN c ELSE AfterFlush(c)
  <2>1. /\ d.pc = "flush"
        /\ IF d.attempts = 0 THEN Fault ELSE UNCHANGED faults
        /\ CycleStep(j, e)
        /\ targeted' = IF delivered THEN [targeted EXCEPT ![j] = Cardinality(c.targets)]
                       ELSE targeted
        /\ UNCHANGED <<projectorRows, sysdescrRows>>
      BY <1>9 DEF FlushUnconfirmed
  <2>2. d.attempts \in Nat /\ d.attempts < FlushAttempts /\ FlushAttempts \in Nat
      BY <1>1, <2>1, LimitsAssumption DEF Good, CycleStates
  <2>3. d.attempts + 1 \in 0 .. FlushAttempts
      BY <2>2
  <2>4. c \in CycleStates
      BY <1>1, <2>3 DEF CycleStates
  <2>5. Confined(j, c)
      BY <1>1 DEF Confined, CycleStates
  <2>6. Good(j, e)
    <3>1. CASE MayRetry(c.attempts)
        BY <2>4, <2>5, <3>1 DEF MayRetry, Good
    <3>2. CASE ~ MayRetry(c.attempts)
        BY <2>4, <2>5, <3>2, AfterFlushIsGood
    <3>. QED BY <3>1, <3>2
  <2>. HIDE DEF c, e
  <2>7. targeted' \in [Jobs -> Nat \cup {NoData}]
      BY <1>2, <2>1, <2>4, GaugeIsNumber
  <2>8. (faults \in 0 .. MaxFaults)'
      BY <1>2, <2>1, FaultIsCounted
  <2>. QED BY <1>2, <2>1, <2>6, <2>7, <2>8, KeepsInv, SameJobs
<1>10. CASE SkipFails(j)
  <2>1. Fault /\ CycleStep(j, Ended("skipped_no_targets")) /\ UNCHANGED tables
      BY <1>10 DEF SkipFails
  <2>. QED BY <2>1, <1>3, EndedIsGood
<1>. QED BY <1>4, <1>5, <1>6, <1>7, <1>8, <1>9, <1>10 DEF Fail

LEMMA CycleInvStep == CycleInv /\ [Next]_vars => CycleInv'
<1>. SUFFICES ASSUME CycleInv, [Next]_vars PROVE CycleInv'
    OBVIOUS
<1>1. CASE \E j \in Jobs : Collect(j) \/ Deliver(j) \/ Fail(j)
    BY <1>1, CollectKeepsInv, DeliverKeepsInv, FailKeepsInv
<1>2. ASSUME NEW d \in deployment.devices, FleetChange(d)
      PROVE  CycleInv'
  <2>1. /\ changes < MaxChanges /\ changes' = changes + 1
        /\ fleet' \in SUBSET deployment.devices
        /\ UNCHANGED <<deployment, cycle, tables, faults>>
      BY <1>2 DEF FleetChange, CycleInv, TypeOK
  <2>2. (changes \in 0 .. MaxChanges)'
      BY <2>1, BoundsAssumption DEF CycleInv, TypeOK
  <2>3. Jobs' = Jobs /\ \A j \in Jobs : Good(j, cycle[j])' <=> Good(j, cycle[j])
      BY <2>1 DEF Jobs, Good, Confined, InShardOf, SeriesOf, GuardrailLabels
  <2>. QED BY <2>1, <2>2, <2>3 DEF CycleInv, TypeOK, tables
<1>3. CASE UNCHANGED vars
  <2>1. UNCHANGED <<deployment, fleet, cycle, tables, changes, faults>>
      BY <1>3 DEF vars
  <2>2. Jobs' = Jobs /\ \A j \in Jobs : Good(j, cycle[j])' <=> Good(j, cycle[j])
      BY <2>1 DEF Jobs, Good, Confined, InShardOf, SeriesOf, GuardrailLabels
  <2>. QED BY <2>1, <2>2 DEF CycleInv, TypeOK, tables
<1>. QED BY <1>1, <1>2, <1>3 DEF Next

LEMMA CycleInvInit == Init => CycleInv
<1>. SUFFICES ASSUME Init PROVE CycleInv
    OBVIOUS
<1>1. \A j \in Jobs : Good(j, NewCycle("idle", {}))
    BY NewIsGood DEF PCs
<1>2. \A j \in Jobs : Good(j, cycle[j]) /\ cycle[j] \in CycleStates
    BY <1>1 DEF Init, Good
<1>. QED BY <1>2, BoundsAssumption DEF Init, CycleInv, TypeOK

\* The state keeps its type; a cycle never flushes more often than it may.
THEOREM CycleTypeCorrect == Spec => []TypeOK
<1>1. CycleInv => TypeOK
    BY DEF CycleInv
<1>. QED BY CycleInvInit, CycleInvStep, <1>1, PTL DEF Spec

\* No two jobs of a deployment hand over the same series, for any fleet,
\* hash, number of shards and choice of tiers.
THEOREM SeriesHaveOneWriter == Spec => []OneWriterPerSeries
<1>1. CycleInv => OneWriterPerSeries
  <2>. SUFFICES ASSUME CycleInv, NEW j \in Jobs, NEW k \in Jobs, j # k
                PROVE  cycle[j].batch \cap cycle[k].batch = {}
      BY DEF OneWriterPerSeries
  <2>1. cycle[j].batch \subseteq SeriesOf(j) /\ cycle[k].batch \subseteq SeriesOf(k)
      BY DEF CycleInv, Good, Confined
  <2>2. SeriesOf(j) \cap SeriesOf(k) = {}
      BY SeriesDisjoint DEF CycleInv, TypeOK
  <2>. QED BY <2>1, <2>2
<1>. QED BY CycleInvInit, CycleInvStep, <1>1, PTL DEF Spec

-----------------------------------------------------------------------------
(* What a cycle that ends ok has done.                                     *)

(* After the router has handed the batch over, it has the guardrails; when *)
(* the projectors' turn is past, their rows are in the table.              *)
Recorded(j, c, rows) ==
    /\ (c.pc = "flush" /\ c.targets # {}) \/ c.pc \in {"projectors", "sysdescr"}
        => Guardrails \X {GuardrailLabels(j)} \subseteq c.batch
    /\ c.pc = "sysdescr" => c.projectors \subseteq rows

RecordInv == \A j \in Jobs : Recorded(j, cycle[j], projectorRows)

\* The step OkMeansRecorded speaks of.
OkIsRecorded ==
    \A j \in Jobs : EndsWith(j, "ok") =>
        /\ Guardrails \X {GuardrailLabels(j)} \subseteq cycle[j].batch
        /\ cycle[j].projectors \subseteq projectorRows'
        /\ cycle[j].described \subseteq sysdescrRows'

\* A step of one job into a recorded cycle, and one that ends ok only if
\* the job has recorded all.
LEMMA RecordKept ==
    ASSUME CycleInv, RecordInv, NEW j \in Jobs, NEW c, CycleStep(j, c),
           projectorRows \subseteq projectorRows',
           Recorded(j, c, projectorRows'),
           c.pc = "idle" /\ c.status = "ok" =>
               /\ cycle[j].pc = "sysdescr"
               /\ cycle[j].described \subseteq sysdescrRows'
    PROVE  RecordInv' /\ OkIsRecorded
<1>1. Jobs' = Jobs
    BY SameJobs
<1>2. cycle' = [cycle EXCEPT ![j] = c] /\ cycle \in [Jobs -> CycleStates]
    BY DEF CycleStep, CycleInv, TypeOK
<1>3. cycle'[j] = c /\ \A k \in Jobs : k # j => cycle'[k] = cycle[k]
    BY <1>2
<1>4. \A k \in Jobs : GuardrailLabels(k)' = GuardrailLabels(k)
    BY DEF CycleStep, GuardrailLabels
<1>5. RecordInv'
  <2>1. SUFFICES ASSUME NEW k \in Jobs PROVE Recorded(k, cycle[k], projectorRows)'
      BY <1>1 DEF RecordInv
  <2>2. CASE k = j
      BY <2>2, <1>3, <1>4 DEF Recorded
  <2>3. CASE k # j
    <3>1. Recorded(k, cycle[k], projectorRows) /\ cycle'[k] = cycle[k]
        BY <2>3, <1>3 DEF RecordInv
    <3>. QED BY <3>1, <1>4 DEF Recorded
  <2>. QED BY <2>2, <2>3
<1>6. OkIsRecorded
  <2>1. SUFFICES ASSUME NEW k \in Jobs, EndsWith(k, "ok")
                 PROVE  /\ Guardrails \X {GuardrailLabels(k)} \subseteq cycle[k].batch
                        /\ cycle[k].projectors \subseteq projectorRows'
                        /\ cycle[k].described \subseteq sysdescrRows'
      BY DEF OkIsRecorded
  <2>2. k = j
      BY <2>1, <1>3 DEF EndsWith
  <2>3. cycle[j].pc = "sysdescr" /\ cycle[j].described \subseteq sysdescrRows'
      BY <2>1, <2>2, <1>3 DEF EndsWith
  <2>4. Recorded(j, cycle[j], projectorRows)
      BY DEF RecordInv
  <2>. QED BY <2>2, <2>3, <2>4 DEF Recorded
<1>. QED BY <1>5, <1>6

\* The guardrails pass every tier's filter.
LEMMA BatchHasGuardrails ==
    ASSUME NEW j, NEW c
    PROVE  Guardrails \X {GuardrailLabels(j)} \subseteq Batch(j, c)
<1>1. \A g \in Guardrails : Priority(g) = "always"
    BY DEF Priority, Guardrails
<1>2. \A g \in Guardrails : ShouldPublish(g, j[2])
    BY <1>1 DEF ShouldPublish
<1>. QED BY <1>2 DEF Batch

\* Collection records nothing and does not end a cycle.
LEMMA CollectRecords ==
    ASSUME CycleInv, RecordInv, NEW j \in Jobs, Collect(j)
    PROVE  RecordInv' /\ OkIsRecorded
<1>1. cycle[j] \in CycleStates
    BY DEF CycleInv, Good
<1>2. ASSUME NEW c, CycleStep(j, c), UNCHANGED <<tables, faults>>, c.pc \in Phases \cup {"publish"}
      PROVE  RecordInv' /\ OkIsRecorded
  <2>1. Recorded(j, c, projectorRows') /\ c.pc # "idle"
      BY <1>2 DEF Recorded, Phases
  <2>. QED BY <1>2, <2>1, RecordKept DEF tables
<1>3. CASE Load(j)
  <2>1. PICK targets : CycleStep(j, [NewCycle("ping", targets) EXCEPT !.todo = SplitEven(targets)])
                       /\ UNCHANGED <<tables, faults>>
      BY <1>3 DEF Load
  <2>2. [NewCycle("ping", targets) EXCEPT !.todo = SplitEven(targets)].pc = "ping"
      BY DEF NewCycle
  <2>. QED BY <1>2, <2>1, <2>2 DEF Phases
<1>4. ASSUME NEW phase \in Phases, NEW chunk, NEW c \in CycleStates, c.pc = cycle[j].pc,
             ChunkDone(j, phase, chunk, c)
      PROVE  RecordInv' /\ OkIsRecorded
  <2>1. /\ CycleStep(j, [c EXCEPT !.todo = @ \ {chunk}]) /\ UNCHANGED <<tables, faults>>
        /\ [c EXCEPT !.todo = @ \ {chunk}].pc \in Phases
      BY <1>4 DEF ChunkDone, CycleStates
  <2>. QED BY <1>2, <2>1
<1>5. ASSUME NEW chunk \in cycle[j].todo, NEW answered \in SUBSET chunk, Ping(j, chunk, answered)
      PROVE  RecordInv' /\ OkIsRecorded
  <2>1. chunk \subseteq Devices
      BY <1>1 DEF CycleStates
  <2>2. [cycle[j] EXCEPT !.pinged = @ \cup chunk, !.answered = @ \cup answered] \in CycleStates
      BY <1>1, <2>1 DEF CycleStates
  <2>. QED BY <1>1, <1>4, <1>5, <2>2 DEF Ping, Phases, CycleStates
<1>6. ASSUME NEW chunk \in cycle[j].todo, NEW up \in SUBSET chunk, NEW described \in SUBSET up,
             Probe(j, chunk, up, described)
      PROVE  RecordInv' /\ OkIsRecorded
  <2>1. chunk \subseteq Devices
      BY <1>1 DEF CycleStates
  <2>2. [cycle[j] EXCEPT !.probed = @ \cup chunk, !.up = @ \cup up,
                         !.described = @ \cup described] \in CycleStates
      BY <1>1, <2>1 DEF CycleStates
  <2>. QED BY <1>1, <1>4, <1>6, <2>2 DEF Probe, Phases, CycleStates
<1>7. ASSUME NEW chunk \in cycle[j].todo, NEW projectors \in SUBSET (chunk \cap Projectors),
             Query(j, chunk, projectors)
      PROVE  RecordInv' /\ OkIsRecorded
  <2>1. chunk \subseteq Devices
      BY <1>1 DEF CycleStates
  <2>2. [cycle[j] EXCEPT !.queried = @ \cup chunk, !.projectors = @ \cup projectors] \in CycleStates
      BY <1>1, <2>1 DEF CycleStates
  <2>. QED BY <1>1, <1>4, <1>7, <2>2 DEF Query, Phases, CycleStates
<1>8. ASSUME NEW chunk \in cycle[j].todo, Walk(j, chunk)
      PROVE  RecordInv' /\ OkIsRecorded
  <2>1. chunk \subseteq Devices
      BY <1>1 DEF CycleStates
  <2>2. [cycle[j] EXCEPT !.walked = @ \cup chunk] \in CycleStates
      BY <1>1, <2>1 DEF CycleStates
  <2>. QED BY <1>1, <1>4, <1>8, <2>2 DEF Walk, Phases, CycleStates
<1>9. CASE Barrier(j)
  <2>. DEFINE next == NextPhase[cycle[j].pc]
              todo == IF next \in Phases THEN SplitEven(TargetsOf(next, cycle[j])) ELSE {}
              c == [cycle[j] EXCEPT !.pc = next, !.todo = todo]
  <2>1. cycle[j].pc \in Phases /\ CycleStep(j, c) /\ UNCHANGED <<tables, faults>>
      BY <1>9 DEF Barrier
  <2>2. next \in Phases \cup {"publish"}
      BY <2>1 DEF NextPhase, Phases
  <2>3. c.pc = next
      BY <1>1 DEF CycleStates
  <2>. HIDE DEF c
  <2>. QED BY <1>2, <2>1, <2>2, <2>3
<1>. QED BY <1>3, <1>5, <1>6, <1>7, <1>8, <1>9 DEF Collect

\* Only the write of the last table ends a cycle ok.
LEMMA DeliverRecords ==
    ASSUME CycleInv, RecordInv, NEW j \in Jobs, Deliver(j)
    PROVE  RecordInv' /\ OkIsRecorded
<1>. DEFINE d == cycle[j]
<1>1. d \in CycleStates /\ Recorded(j, d, projectorRows)
    BY DEF CycleInv, Good, RecordInv
<1>2. CASE Publish(j)
  <2>. DEFINE c == [NewCycle("flush", d.targets) EXCEPT
                        !.batch = Batch(j, d), !.described = d.described,
                        !.projectors = d.projectors]
  <2>1. CycleStep(j, c) /\ UNCHANGED tables
      BY <1>2 DEF Publish
  <2>2. c.pc = "flush" /\ c.batch = Batch(j, d)
      BY DEF NewCycle
  <2>. HIDE DEF c
  <2>3. Recorded(j, c, projectorRows')
      BY <2>2, BatchHasGuardrails DEF Recorded
  <2>. QED BY <2>1, <2>2, <2>3, RecordKept DEF tables
<1>3. CASE Skip(j)
  <2>. DEFINE c == [NewCycle("flush", {}) EXCEPT !.batch = ZeroBatch(j)]
  <2>1. CycleStep(j, c) /\ UNCHANGED tables
      BY <1>3 DEF Skip
  <2>2. c.pc = "flush" /\ c.targets = {}
      BY DEF NewCycle
  <2>. HIDE DEF c
  <2>3. Recorded(j, c, projectorRows')
      BY <2>2 DEF Recorded
  <2>. QED BY <2>1, <2>2, <2>3, RecordKept DEF tables
<1>4. CASE Flush(j)
  <2>1. d.pc = "flush" /\ CycleStep(j, AfterFlush(d)) /\ UNCHANGED <<projectorRows, sysdescrRows>>
      BY <1>4 DEF Flush
  <2>2. /\ Recorded(j, AfterFlush(d), projectorRows')
        /\ AfterFlush(d).status # "ok" \/ AfterFlush(d).pc # "idle"
      BY <1>1, <2>1 DEF AfterFlush, Ended, NewCycle, Recorded, CycleStates
  <2>. QED BY <2>1, <2>2, RecordKept
<1>5. CASE UpsertProjectors(j)
  <2>1. /\ d.pc = "projectors" /\ CycleStep(j, [d EXCEPT !.pc = "sysdescr"])
        /\ projectorRows' = projectorRows \cup d.projectors
      BY <1>5 DEF UpsertProjectors
  <2>2. /\ Recorded(j, [d EXCEPT !.pc = "sysdescr"], projectorRows')
        /\ [d EXCEPT !.pc = "sysdescr"].pc # "idle"
      BY <1>1, <2>1 DEF Recorded, CycleStates
  <2>. QED BY <2>1, <2>2, RecordKept
<1>6. CASE UpsertSysdescr(j)
  <2>1. /\ d.pc = "sysdescr" /\ CycleStep(j, Ended("ok"))
        /\ sysdescrRows' = sysdescrRows \cup d.described
        /\ projectorRows' = projectorRows
      BY <1>6 DEF UpsertSysdescr
  <2>2. Recorded(j, Ended("ok"), projectorRows')
      BY DEF Recorded, Ended, NewCycle
  <2>. QED BY <2>1, <2>2, RecordKept
<1>. QED BY <1>2, <1>3, <1>4, <1>5, <1>6 DEF Deliver

\* A failure does not end a cycle ok.
LEMMA FailRecords ==
    ASSUME CycleInv, RecordInv, NEW j \in Jobs, Fail(j)
    PROVE  RecordInv' /\ OkIsRecorded
<1>. DEFINE d == cycle[j]
<1>1. d \in CycleStates /\ Recorded(j, d, projectorRows)
    BY DEF CycleInv, Good, RecordInv
<1>2. ASSUME NEW status, status # "ok", CycleStep(j, Ended(status)), UNCHANGED tables
      PROVE  RecordInv' /\ OkIsRecorded
  <2>1. Recorded(j, Ended(status), projectorRows') /\ Ended(status).status # "ok"
      BY <1>2 DEF Recorded, Ended, NewCycle
  <2>. QED BY <1>2, <2>1, RecordKept DEF tables
<1>3. CASE LoadFails(j)
    BY <1>2, <1>3 DEF LoadFails
<1>4. CASE CollectionFails(j)
    BY <1>2, <1>4 DEF CollectionFails
<1>5. CASE PublishFails(j)
    BY <1>2, <1>5 DEF PublishFails, Failed
<1>6. CASE SkipFails(j)
  <2>1. CycleStep(j, Ended("skipped_no_targets")) /\ UNCHANGED tables
      BY <1>6 DEF SkipFails
  <2>. QED BY <1>2, <2>1
<1>7. CASE UpsertFails(j)
    BY <1>2, <1>7 DEF UpsertFails, Failed
<1>8. CASE Crash(j)
  <2>1. CycleStep(j, NewCycle("idle", {})) /\ UNCHANGED tables
      BY <1>8 DEF Crash
  <2>2. Recorded(j, NewCycle("idle", {}), projectorRows') /\ NewCycle("idle", {}).status # "ok"
      BY DEF Recorded, NewCycle
  <2>. QED BY <2>1, <2>2, RecordKept DEF tables
<1>9. ASSUME NEW delivered \in BOOLEAN, FlushUnconfirmed(j, delivered)
      PROVE  RecordInv' /\ OkIsRecorded
  <2>. DEFINE c == [d EXCEPT !.attempts = @ + 1]
              e == IF MayRetry(c.attempts) THEN c ELSE AfterFlush(c)
  <2>1. /\ d.pc = "flush" /\ CycleStep(j, e)
        /\ UNCHANGED <<projectorRows, sysdescrRows>>
      BY <1>9 DEF FlushUnconfirmed
  <2>2. c.pc = d.pc /\ c.targets = d.targets /\ c.batch = d.batch /\ Recorded(j, c, projectorRows')
      BY <1>1, <2>1 DEF Recorded, CycleStates
  <2>3. Recorded(j, AfterFlush(c), projectorRows')
        /\ (AfterFlush(c).status # "ok" \/ AfterFlush(c).pc # "idle")
    <3>1. CASE d.targets = {}
        BY <3>1, <2>2 DEF AfterFlush, Ended, NewCycle, Recorded
    <3>2. CASE d.targets # {}
      <4>1. AfterFlush(c) = [d EXCEPT !.attempts = @ + 1, !.pc = "projectors"]
          BY <3>2, <1>1 DEF AfterFlush, CycleStates
      <4>2. AfterFlush(c).pc = "projectors" /\ AfterFlush(c).batch = d.batch
          BY <4>1, <1>1 DEF CycleStates
      <4>. QED BY <4>2, <3>2, <1>1, <2>1 DEF Recorded
    <3>. QED BY <3>1, <3>2
  <2>. HIDE DEF c
  <2>4. Recorded(j, e, projectorRows') /\ (e.status # "ok" \/ e.pc # "idle")
      BY <2>1, <2>2, <2>3
  <2>. HIDE DEF e
  <2>. QED BY <2>1, <2>4, RecordKept
<1>. QED BY <1>3, <1>4, <1>5, <1>6, <1>7, <1>8, <1>9 DEF Fail

\* A cycle that ends ok has handed over its guardrails and written every
\* text it collected, for any fleet and whatever failed before.
THEOREM OkIsHonest == Spec => OkMeansRecorded
<1>1. Init => RecordInv
  <2>. SUFFICES ASSUME Init, NEW j \in Jobs PROVE Recorded(j, cycle[j], projectorRows)
      BY DEF RecordInv
  <2>1. cycle[j].pc = "idle"
      BY DEF Init, NewCycle
  <2>. QED BY <2>1 DEF Recorded
<1>2. CycleInv /\ RecordInv /\ [Next]_vars => RecordInv' /\ [OkIsRecorded]_vars
  <2>. SUFFICES ASSUME CycleInv, RecordInv, [Next]_vars PROVE RecordInv' /\ [OkIsRecorded]_vars
      OBVIOUS
  <2>1. CASE \E j \in Jobs : Collect(j) \/ Deliver(j) \/ Fail(j)
      BY <2>1, CollectRecords, DeliverRecords, FailRecords
  <2>2. ASSUME UNCHANGED <<deployment, cycle, projectorRows>>
        PROVE  RecordInv' /\ OkIsRecorded
    <3>1. Jobs' = Jobs /\ \A j \in Jobs : GuardrailLabels(j)' = GuardrailLabels(j)
        BY <2>2 DEF Jobs, GuardrailLabels
    <3>2. RecordInv'
        BY <3>1, <2>2 DEF RecordInv, Recorded
    <3>. QED BY <3>2, <2>2 DEF OkIsRecorded, EndsWith
  <2>3. CASE \E d \in deployment.devices : FleetChange(d)
      BY <2>2, <2>3 DEF FleetChange, tables
  <2>4. CASE UNCHANGED vars
      BY <2>2, <2>4 DEF vars, tables
  <2>. QED BY <2>1, <2>3, <2>4 DEF Next
<1>3. OkMeansRecorded <=> [][OkIsRecorded]_vars
    BY DEF OkMeansRecorded, OkIsRecorded
<1>. QED BY CycleInvInit, CycleInvStep, <1>1, <1>2, <1>3, PTL DEF Spec

-----------------------------------------------------------------------------
(* Who is with whom in a phase.                                            *)

(* Those that are due have their result or are with one worker.            *)
Spread(done, todo, due) ==
    /\ done \cup UNION todo = due
    /\ \A chunk \in todo : chunk # {} /\ chunk \cap done = {}
    /\ \A x, y \in todo : x = y \/ x \cap y = {}
    /\ IsFiniteSet(todo) /\ Cardinality(todo) <= AtLeast(1, MaxWorkers)

\* A set listed by successive choices has each element at one place.
LEMMA ListIsBijective ==
    ASSUME NEW S, IsFiniteSet(S)
    PROVE  /\ Cardinality(S) \in Nat
           /\ SetToSeq(S) \in [1 .. Cardinality(S) -> S]
           /\ \A i, k \in 1 .. Cardinality(S) : SetToSeq(S)[i] = SetToSeq(S)[k] => i = k
           /\ \A d \in S : \E i \in 1 .. Cardinality(S) : SetToSeq(S)[i] = d
<1>. DEFINE n == Cardinality(S)
            list == SetToSeq(S)
<1>1. PICK f \in Bijection(1 .. n, S) : TRUE
    BY FS_CardinalityType DEF ExistsBijection
<1>2. f \in [1 .. n -> S] /\ IsInjective(f)
    BY <1>1 DEF Bijection, Injection, IsInjective
<1>3. list = CHOOSE g \in [1 .. n -> S] : IsInjective(g)
    BY DEF SetToSeq
<1>4. list \in [1 .. n -> S] /\ IsInjective(list)
    BY <1>2, <1>3
<1>5. n \in Nat /\ IsFiniteSet(1 .. n) /\ Cardinality(1 .. n) = n
    BY FS_CardinalityType, FS_Interval
<1>. DEFINE listed == {list[i] : i \in 1 .. n}
<1>6. list \in Bijection(1 .. n, listed)
    BY <1>4 DEF Bijection, Injection, Surjection, IsInjective
<1>7. IsFiniteSet(listed) /\ Cardinality(listed) = n
    BY <1>5, <1>6, FS_Bijection DEF ExistsBijection
<1>8. listed = S
    BY <1>4, <1>7, FS_Subset
<1>. QED BY <1>4, <1>5, <1>8 DEF IsInjective

\* split_even leaves nobody out, gives nobody to two workers, has no more
\* chunks than workers and no empty chunk.
LEMMA SplitSpreads ==
    ASSUME NEW S, IsFiniteSet(S)
    PROVE  Spread({}, SplitEven(S), S)
<1>. DEFINE list == SetToSeq(S)
            most == AtLeast(1, MaxWorkers)
            n == AtMost(most, Len(list))
            part(k) == {d \in S : \E i \in DOMAIN list : list[i] = d /\ i % n = k}
<1>1. SplitEven(S) = {part(k) : k \in 0 .. n - 1}
    BY DEF SplitEven
<1>2. DOMAIN list = 1 .. Cardinality(S) /\ Cardinality(S) \in Nat /\ Len(list) = Cardinality(S)
    BY ListIsBijective
<1>3. most \in Nat \ {0}
    BY LimitsAssumption DEF AtLeast
<1>4. n \in Nat /\ n <= most /\ n <= Cardinality(S) /\ (Cardinality(S) > 0 => n > 0)
    BY <1>2, <1>3 DEF AtMost
<1>5. ASSUME NEW d \in S
      PROVE  \E k \in 0 .. n - 1 : d \in part(k)
  <2>1. PICK i \in DOMAIN list : list[i] = d
      BY <1>2, ListIsBijective
  <2>2. n > 0 /\ i \in Nat
      BY <1>2, <1>4, <2>1
  <2>. HIDE DEF n
  <2>3. i % n \in 0 .. n - 1
      BY <1>4, <2>2
  <2>. QED BY <2>1, <2>3
<1>6. ASSUME NEW k, NEW l, NEW d \in part(k), d \in part(l)
      PROVE  k = l
  <2>. HIDE DEF n
  <2>1. PICK i \in DOMAIN list : list[i] = d /\ i % n = k
      BY <1>6
  <2>2. PICK h \in DOMAIN list : list[h] = d /\ h % n = l
      BY <1>6
  <2>3. i = h
      BY <2>1, <2>2, <1>2, ListIsBijective
  <2>. QED BY <2>1, <2>2, <2>3
<1>7. ASSUME NEW k \in 0 .. n - 1
      PROVE  part(k) # {}
  <2>. DEFINE i == IF k = 0 THEN n ELSE k
  <2>1. i \in 1 .. Cardinality(S) /\ n > 0
      BY <1>2, <1>4
  <2>2. i % n = k
    <3>. HIDE DEF n
    <3>1. CASE k = 0
        BY <1>4, <2>1, <3>1
    <3>2. CASE k # 0
        BY <1>4, <2>1, <3>2
    <3>. QED BY <3>1, <3>2
  <2>3. list[i] \in S
      BY <2>1, ListIsBijective
  <2>. QED BY <2>1, <2>2, <2>3, <1>2
<1>8. IsFiniteSet(SplitEven(S)) /\ Cardinality(SplitEven(S)) <= most
  <2>. DEFINE f == [i \in 1 .. n |-> part(i - 1)]
  <2>. HIDE DEF n
  <2>1. \A k \in 0 .. n - 1 : k + 1 \in 1 .. n /\ (k + 1) - 1 = k
      BY <1>4
  <2>2. \A i \in 1 .. n : i - 1 \in 0 .. n - 1
      BY <1>4
  <2>. HIDE DEF part
  <2>3. f \in Surjection(1 .. n, SplitEven(S))
      BY <1>1, <2>1, <2>2 DEF Surjection
  <2>4. IsFiniteSet(1 .. n) /\ Cardinality(1 .. n) = n
      BY <1>4, FS_Interval
  <2>5. IsFiniteSet(SplitEven(S)) /\ Cardinality(SplitEven(S)) <= n
      BY <2>3, <2>4, FS_Surjection
  <2>6. Cardinality(SplitEven(S)) \in Nat
      BY <2>5, FS_CardinalityType
  <2>. QED BY <2>5, <2>6, <1>3, <1>4
<1>. HIDE DEF n, most
<1>9. \A k : part(k) \subseteq S
    OBVIOUS
<1>. HIDE DEF part
<1>10. UNION SplitEven(S) = S
    BY <1>1, <1>5, <1>9
<1>11. \A x, y \in SplitEven(S) : x = y \/ x \cap y = {}
    BY <1>1, <1>6
<1>. QED BY <1>1, <1>7, <1>8, <1>10, <1>11 DEF Spread, most

\* A worker that comes back has results for its chunk.
LEMMA ChunkKeepsSpread ==
    ASSUME NEW done, NEW todo, NEW due, NEW chunk \in todo, Spread(done, todo, due)
    PROVE  Spread(done \cup chunk, todo \ {chunk}, due)
<1>1. /\ IsFiniteSet(todo \ {chunk})
      /\ Cardinality(todo \ {chunk}) <= Cardinality(todo)
    BY FS_Subset DEF Spread
<1>2. Cardinality(todo \ {chunk}) \in Nat /\ Cardinality(todo) \in Nat
    BY <1>1, FS_CardinalityType DEF Spread
<1>3. Cardinality(todo \ {chunk}) <= AtLeast(1, MaxWorkers)
    BY <1>1, <1>2, LimitsAssumption DEF Spread, AtLeast
<1>4. \A x \in todo \ {chunk} : x # {} /\ x \cap (done \cup chunk) = {}
    BY DEF Spread
<1>5. (done \cup chunk) \cup UNION (todo \ {chunk}) = due
    BY DEF Spread
<1>6. \A x, y \in todo \ {chunk} : x = y \/ x \cap y = {}
    BY DEF Spread
<1>. QED BY <1>1, <1>3, <1>4, <1>5, <1>6 DEF Spread

\* The devices a phase is for.
Due(c) == IF c.pc \in {"ping", "probe"} THEN c.targets ELSE c.up

(* What a cycle has of each phase: nothing yet, a part that is spread over *)
(* the workers, or everything.                                             *)
Collected(c) ==
    /\ c.pc \in Phases => Spread(Done(c), c.todo, Due(c))
    /\ c.pc = "ping" => c.probed = {}
    /\ c.pc \in {"ping", "probe"} => c.queried = {}
    /\ c.pc \in {"ping", "probe", "query"} => c.walked = {}
    /\ c.pc \in {"probe", "query", "interfaces", "publish"} => c.pinged = c.targets
    /\ c.pc \in {"query", "interfaces", "publish"} => c.probed = c.targets
    /\ c.pc \in {"interfaces", "publish"} => c.queried = c.up
    /\ c.pc = "publish" => c.walked = c.up

CollectedInv == \A j \in Jobs : Collected(cycle[j])

\* A cycle that is in no phase, nor about to publish, has nothing to keep.
LEMMA ElsewhereIsCollected ==
    ASSUME NEW c, c.pc \notin Phases \cup {"publish"}
    PROVE  Collected(c)
BY DEF Collected, Phases

LEMMA StepIsCollected ==
    ASSUME CycleInv, CollectedInv, NEW j \in Jobs, NEW c, CycleStep(j, c), Collected(c)
    PROVE  CollectedInv'
<1>1. Jobs' = Jobs /\ cycle' = [cycle EXCEPT ![j] = c] /\ cycle \in [Jobs -> CycleStates]
    BY SameJobs DEF CycleStep, CycleInv, TypeOK
<1>. QED BY <1>1 DEF CollectedInv

\* Sets of devices are finite.
LEMMA DevicesAreFinite ==
    ASSUME NEW S \in SUBSET Devices
    PROVE  IsFiniteSet(S)
BY DevicesAssumption, FS_Subset

LEMMA CollectIsCollected ==
    ASSUME CycleInv, CollectedInv, NEW j \in Jobs, Collect(j)
    PROVE  CollectedInv'
<1>. DEFINE d == cycle[j]
<1>1. d \in CycleStates /\ Collected(d) /\ fleet \subseteq Devices
    BY DeploymentsAssumption
       DEF CycleInv, CollectedInv, Good, TypeOK, DeploymentRecords
<1>2. CASE Load(j)
  <2>. DEFINE mine == {x \in fleet : InShard(x, j[1], deployment.total)}
              c == [NewCycle("ping", mine) EXCEPT !.todo = SplitEven(mine)]
  <2>1. CycleStep(j, c)
      BY <1>2 DEF Load
  <2>2. Spread({}, SplitEven(mine), mine)
      BY <1>1, DevicesAreFinite, SplitSpreads
  <2>. HIDE DEF mine
  <2>3. Collected(c)
      BY <2>2 DEF Collected, NewCycle, Phases, Done, Due
  <2>. QED BY <2>1, <2>3, StepIsCollected
<1>3. ASSUME NEW chunk \in d.todo, NEW answered \in SUBSET chunk, Ping(j, chunk, answered)
      PROVE  CollectedInv'
  <2>. DEFINE c == [d EXCEPT !.pinged = @ \cup chunk, !.answered = @ \cup answered,
                             !.todo = @ \ {chunk}]
  <2>1. CycleStep(j, c) /\ d.pc = "ping"
      BY <1>1, <1>3 DEF Ping, ChunkDone, CycleStates
  <2>2. Spread(d.pinged \cup chunk, d.todo \ {chunk}, d.targets)
      BY <1>1, <2>1, ChunkKeepsSpread DEF Collected, Done, Due, Phases
  <2>3. Collected(c)
      BY <1>1, <2>1, <2>2 DEF Collected, Done, Due, Phases, CycleStates
  <2>. QED BY <2>1, <2>3, StepIsCollected
<1>4. ASSUME NEW chunk \in d.todo, NEW up \in SUBSET chunk, NEW described \in SUBSET up,
             Probe(j, chunk, up, described)
      PROVE  CollectedInv'
  <2>. DEFINE c == [d EXCEPT !.probed = @ \cup chunk, !.up = @ \cup up,
                             !.described = @ \cup described, !.todo = @ \ {chunk}]
  <2>1. CycleStep(j, c) /\ d.pc = "probe"
      BY <1>1, <1>4 DEF Probe, ChunkDone, CycleStates
  <2>2. Spread(d.probed \cup chunk, d.todo \ {chunk}, d.targets)
      BY <1>1, <2>1, ChunkKeepsSpread DEF Collected, Done, Due, Phases
  <2>3. Collected(c)
      BY <1>1, <2>1, <2>2 DEF Collected, Done, Due, Phases, CycleStates
  <2>. QED BY <2>1, <2>3, StepIsCollected
<1>5. ASSUME NEW chunk \in d.todo, NEW projectors \in SUBSET (chunk \cap Projectors),
             Query(j, chunk, projectors)
      PROVE  CollectedInv'
  <2>. DEFINE c == [d EXCEPT !.queried = @ \cup chunk, !.projectors = @ \cup projectors,
                             !.todo = @ \ {chunk}]
  <2>1. CycleStep(j, c) /\ d.pc = "query"
      BY <1>1, <1>5 DEF Query, ChunkDone, CycleStates
  <2>2. Spread(d.queried \cup chunk, d.todo \ {chunk}, d.up)
      BY <1>1, <2>1, ChunkKeepsSpread DEF Collected, Done, Due, Phases
  <2>3. Collected(c)
      BY <1>1, <2>1, <2>2 DEF Collected, Done, Due, Phases, CycleStates
  <2>. QED BY <2>1, <2>3, StepIsCollected
<1>6. ASSUME NEW chunk \in d.todo, Walk(j, chunk)
      PROVE  CollectedInv'
  <2>. DEFINE c == [d EXCEPT !.walked = @ \cup chunk, !.todo = @ \ {chunk}]
  <2>1. CycleStep(j, c) /\ d.pc = "interfaces"
      BY <1>1, <1>6 DEF Walk, ChunkDone, CycleStates
  <2>2. Spread(d.walked \cup chunk, d.todo \ {chunk}, d.up)
      BY <1>1, <2>1, ChunkKeepsSpread DEF Collected, Done, Due, Phases
  <2>3. Collected(c)
      BY <1>1, <2>1, <2>2 DEF Collected, Done, Due, Phases, CycleStates
  <2>. QED BY <2>1, <2>3, StepIsCollected
<1>7. CASE Barrier(j)
  <2>. DEFINE next == NextPhase[d.pc]
              due == TargetsOf(next, d)
              chunks == IF next \in Phases THEN SplitEven(due) ELSE {}
              c == [d EXCEPT !.pc = next, !.todo = chunks]
  <2>1. CycleStep(j, c) /\ d.pc \in Phases /\ d.todo = {}
      BY <1>7 DEF Barrier
  <2>2. Done(d) = Due(d)
      BY <1>1, <2>1 DEF Collected, Spread
  <2>3. Spread({}, SplitEven(due), due)
      BY <1>1, DevicesAreFinite, SplitSpreads DEF TargetsOf, CycleStates
  <2>. HIDE DEF next, due, chunks
  <2>4. ASSUME d.pc = "ping" PROVE Collected(c)
    <3>1. next = "probe" /\ due = d.targets /\ Spread({}, chunks, d.targets)
        BY <2>3, <2>4 DEF NextPhase, TargetsOf, Phases, next, due, chunks
    <3>. QED BY <1>1, <2>2, <2>4, <3>1 DEF Collected, Done, Due, Phases, CycleStates
  <2>5. ASSUME d.pc = "probe" PROVE Collected(c)
    <3>1. next = "query" /\ due = d.up /\ Spread({}, chunks, d.up)
        BY <2>3, <2>5 DEF NextPhase, TargetsOf, Phases, next, due, chunks
    <3>. QED BY <1>1, <2>2, <2>5, <3>1 DEF Collected, Done, Due, Phases, CycleStates
  <2>6. ASSUME d.pc = "query" PROVE Collected(c)
    <3>1. next = "interfaces" /\ due = d.up /\ Spread({}, chunks, d.up)
        BY <2>3, <2>6 DEF NextPhase, TargetsOf, Phases, next, due, chunks
    <3>. QED BY <1>1, <2>2, <2>6, <3>1 DEF Collected, Done, Due, Phases, CycleStates
  <2>7. ASSUME d.pc = "interfaces" PROVE Collected(c)
    <3>1. next = "publish"
        BY <2>7 DEF NextPhase, next
    <3>. QED BY <1>1, <2>2, <2>7, <3>1 DEF Collected, Done, Due, Phases, CycleStates
  <2>8. Collected(c)
      BY <2>1, <2>4, <2>5, <2>6, <2>7 DEF Phases
  <2>. QED BY <2>1, <2>8, StepIsCollected
<1>. QED BY <1>2, <1>3, <1>4, <1>5, <1>6, <1>7 DEF Collect

\* Publishing and failing leave the phases behind.
LEMMA OthersAreCollected ==
    ASSUME CycleInv, CollectedInv, NEW j \in Jobs, Deliver(j) \/ Fail(j)
    PROVE  CollectedInv'
<1>1. cycle[j] \in CycleStates
    BY DEF CycleInv, TypeOK
<1>2. PICK c : CycleStep(j, c) /\ c.pc \notin Phases \cup {"publish"}
  <2>1. ASSUME NEW status PROVE Ended(status).pc = "idle"
      BY DEF Ended, NewCycle
  <2>2. ASSUME NEW e \in CycleStates PROVE AfterFlush(e).pc \in {"idle", "projectors"}
      BY <2>1 DEF AfterFlush, CycleStates
  <2>3. CASE Flush(j)
      BY <1>1, <2>2, <2>3 DEF Flush, Phases
  <2>4. ASSUME NEW delivered \in BOOLEAN, FlushUnconfirmed(j, delivered)
        PROVE  \E c : CycleStep(j, c) /\ c.pc \notin Phases \cup {"publish"}
    <3>. DEFINE e == [cycle[j] EXCEPT !.attempts = @ + 1]
    <3>1. cycle[j].pc = "flush"
          /\ CycleStep(j, IF MayRetry(e.attempts) THEN e ELSE AfterFlush(e))
        BY <2>4 DEF FlushUnconfirmed
    <3>2. e.pc = "flush"
        BY <1>1, <3>1 DEF CycleStates
    <3>3. AfterFlush(e).pc \in {"idle", "projectors"}
        BY <1>1, <2>1 DEF AfterFlush, CycleStates
    <3>. QED BY <3>1, <3>2, <3>3 DEF Phases
  <2>5. CASE Publish(j) \/ Skip(j) \/ UpsertProjectors(j) \/ UpsertSysdescr(j)
    <3>1. ASSUME NEW e, CycleStep(j, e), e.pc = "flush"
          PROVE  \E c : CycleStep(j, c) /\ c.pc \notin Phases \cup {"publish"}
        BY <3>1 DEF Phases
    <3>2. CASE Publish(j)
      <4>. DEFINE e == [NewCycle("flush", cycle[j].targets) EXCEPT
                            !.batch = Batch(j, cycle[j]),
                            !.described = cycle[j].described,
                            !.projectors = cycle[j].projectors]
      <4>1. CycleStep(j, e)
          BY <3>2 DEF Publish
      <4>2. e.pc = "flush"
          BY DEF NewCycle
      <4>. QED BY <4>1, <4>2, <3>1
    <3>3. CASE Skip(j)
      <4>. DEFINE e == [NewCycle("flush", {}) EXCEPT !.batch = ZeroBatch(j)]
      <4>1. CycleStep(j, e)
          BY <3>3 DEF Skip
      <4>2. e.pc = "flush"
          BY DEF NewCycle
      <4>. QED BY <4>1, <4>2, <3>1
    <3>4. CASE UpsertProjectors(j)
      <4>. DEFINE e == [cycle[j] EXCEPT !.pc = "sysdescr"]
      <4>1. CycleStep(j, e)
          BY <3>4 DEF UpsertProjectors
      <4>2. e.pc = "sysdescr"
          BY <1>1 DEF CycleStates
      <4>. QED BY <4>1, <4>2 DEF Phases
    <3>5. CASE UpsertSysdescr(j)
        BY <2>1, <3>5 DEF UpsertSysdescr, Phases
    <3>. QED BY <2>5, <3>2, <3>3, <3>4, <3>5
  <2>6. CASE LoadFails(j) \/ CollectionFails(j) \/ PublishFails(j) \/ SkipFails(j)
             \/ UpsertFails(j) \/ Crash(j)
      BY <2>1, <2>6 DEF LoadFails, CollectionFails, PublishFails, SkipFails, UpsertFails,
                        Crash, NewCycle, Phases
  <2>. QED BY <2>3, <2>4, <2>5, <2>6 DEF Deliver, Fail
<1>. QED BY <1>2, StepIsCollected, ElsewhereIsCollected

(* In each phase of every cycle each device that is due is with one worker *)
(* or has its result, once, and nobody else is; a batch is made of whole   *)
(* phases.  For any devices, deployment, number of workers and faults.     *)
THEOREM NobodyIsLeftOut == Spec => []EachDeviceOnce
<1>1. Init => CollectedInv
    BY ElsewhereIsCollected DEF Init, CollectedInv, NewCycle, Phases
<1>2. CycleInv /\ CollectedInv /\ [Next]_vars => CollectedInv'
  <2>. SUFFICES ASSUME CycleInv, CollectedInv, [Next]_vars PROVE CollectedInv'
      OBVIOUS
  <2>1. CASE \E j \in Jobs : Collect(j) \/ Deliver(j) \/ Fail(j)
      BY <2>1, CollectIsCollected, OthersAreCollected
  <2>2. CASE \E d \in deployment.devices : FleetChange(d)
      BY <2>2 DEF FleetChange, CollectedInv, Jobs
  <2>3. CASE UNCHANGED vars
      BY <2>3 DEF vars, CollectedInv, Jobs
  <2>. QED BY <2>1, <2>2, <2>3 DEF Next
<1>3. CollectedInv => EachDeviceOnce
    BY DEF CollectedInv, EachDeviceOnce, Collected, Spread, Due
<1>. QED BY CycleInvInit, CycleInvStep, <1>1, <1>2, <1>3, PTL DEF Spec

-----------------------------------------------------------------------------
(* What GaugesSumToFleet rests on: the shards divide the fleet, and a      *)
(* gauge becomes wrong only by a cycle that loaded another fleet.          *)

Mine(j) == {d \in fleet : InShard(d, j[1], deployment.total)}

\* The jobs whose cycle has other targets than it would load now.
Outdated == {j \in Jobs : cycle[j].pc # "idle" /\ cycle[j].targets # Mine(j)}

WrongGauges == {j \in Jobs : targeted[j] # Cardinality(Mine(j))}

GaugesSettle ==
    UNCHANGED fleet =>
        /\ Outdated' \subseteq Outdated
        /\ WrongGauges' \subseteq WrongGauges \cup Outdated

ShardsDivideFleet ==
    \A tier \in deployment.tiers, d \in fleet :
        \E j \in Jobs : \A k \in Jobs : k[2] = tier /\ d \in Mine(k) <=> k = j

LEMMA OneShardEach ==
    ASSUME TypeOK, NEW tier \in deployment.tiers, NEW d \in fleet
    PROVE  \E j \in Jobs : \A k \in Jobs : k[2] = tier /\ d \in Mine(k) <=> k = j
<1>. DEFINE n == deployment.total
<1>1. n \in Nat \ {0} /\ deployment.devices \in SUBSET Devices
    BY DeploymentsAssumption DEF TypeOK, DeploymentRecords
<1>2. Hash[d] \in Nat
    BY <1>1, HashAssumption DEF TypeOK
<1>3. PICK s \in 0 .. n - 1 : \A k \in 0 .. n - 1 : InShard(d, k, n) <=> k = s
  <2>1. CASE n <= 1
      BY <1>1, <2>1 DEF InShard
  <2>2. CASE n > 1
    <3>1. Hash[d] % n \in 0 .. n - 1
        BY <1>1, <1>2
    <3>2. ~(n <= 1)
        BY <1>1, <2>2
    <3>. QED BY <3>1, <3>2 DEF InShard
  <2>. QED BY <1>1, <2>1, <2>2
<1>4. \A k \in Jobs : k[1] \in 0 .. n - 1 /\ k = <<k[1], k[2]>>
    BY DEF Jobs
<1>5. <<s, tier>> \in Jobs
    BY DEF Jobs
<1>6. \A k \in Jobs : k[2] = tier /\ d \in Mine(k) <=> k = <<s, tier>>
    BY <1>3, <1>4 DEF Mine
<1>. QED BY <1>5, <1>6

(* In every tier each device of the fleet belongs to exactly one shard's   *)
(* job, for any hash and number of shards (device_in_shard): collections   *)
(* neither miss a device nor share one.                                    *)
THEOREM FleetIsDivided == Spec => []ShardsDivideFleet
<1>1. TypeOK => ShardsDivideFleet
    BY OneShardEach DEF ShardsDivideFleet
<1>. QED BY <1>1, CycleTypeCorrect, PTL

\* What a job's step makes of its targets and of its gauge.
Retargets(j, c) ==
    /\ CycleStep(j, c)
    /\ \/ c.pc = "idle"
       \/ c.targets = Mine(j)
       \/ cycle[j].pc # "idle" /\ c.targets = cycle[j].targets
    /\ \/ UNCHANGED targeted
       \/ /\ cycle[j].pc = "flush"
          /\ targeted' = [targeted EXCEPT ![j] = Cardinality(cycle[j].targets)]

LEMMA RetargetsSettles ==
    ASSUME TypeOK, NEW j \in Jobs, NEW c, Retargets(j, c)
    PROVE  GaugesSettle
<1>1. /\ Jobs' = Jobs /\ UNCHANGED <<deployment, fleet>>
      /\ cycle'[j] = c /\ \A k \in Jobs : k # j => cycle'[k] = cycle[k]
    BY SameJobs DEF Retargets, CycleStep, TypeOK
<1>2. \A k \in Jobs : Mine(k)' = Mine(k)
    BY <1>1 DEF Mine
<1>3. Outdated' \subseteq Outdated
    BY <1>1, <1>2 DEF Outdated, Retargets
<1>4. \A k \in Jobs : \/ targeted'[k] = targeted[k]
                      \/ k = j /\ cycle[j].pc # "idle" /\ targeted'[j] = Cardinality(cycle[j].targets)
    BY DEF Retargets, TypeOK
<1>5. WrongGauges' \subseteq WrongGauges \cup Outdated
    BY <1>1, <1>2, <1>4 DEF WrongGauges, Outdated
<1>. QED BY <1>3, <1>5 DEF GaugesSettle

LEMMA CollectRetargets ==
    ASSUME TypeOK, NEW j \in Jobs, Collect(j)
    PROVE  \E c : Retargets(j, c)
<1>1. cycle[j] \in CycleStates
    BY DEF TypeOK
<1>2. CASE Load(j)
  <2>. DEFINE c == [NewCycle("ping", Mine(j)) EXCEPT !.todo = SplitEven(Mine(j))]
  <2>1. CycleStep(j, c) /\ UNCHANGED targeted
      BY <1>2 DEF Load, Mine, tables
  <2>2. c.targets = Mine(j)
      BY DEF NewCycle
  <2>. QED BY <2>1, <2>2 DEF Retargets
<1>3. ASSUME NEW phase \in Phases, NEW chunk, NEW c, ChunkDone(j, phase, chunk, c),
             c \in CycleStates, c.targets = cycle[j].targets
      PROVE  \E e : Retargets(j, e)
  <2>1. CycleStep(j, [c EXCEPT !.todo = @ \ {chunk}]) /\ UNCHANGED targeted /\ cycle[j].pc # "idle"
      BY <1>3 DEF ChunkDone, tables, Phases
  <2>2. [c EXCEPT !.todo = @ \ {chunk}].targets = cycle[j].targets
      BY <1>3 DEF CycleStates
  <2>. QED BY <2>1, <2>2 DEF Retargets
<1>4. ASSUME NEW chunk \in cycle[j].todo,
             \/ \E answered \in SUBSET chunk : Ping(j, chunk, answered)
             \/ \E up \in SUBSET chunk : \E described \in SUBSET up : Probe(j, chunk, up, described)
             \/ \E projectors \in SUBSET (chunk \cap Projectors) : Query(j, chunk, projectors)
             \/ Walk(j, chunk)
      PROVE  \E e : Retargets(j, e)
  <2>0. chunk \subseteq Devices
      BY <1>1 DEF CycleStates
  <2>1. ASSUME NEW answered \in SUBSET chunk, Ping(j, chunk, answered)
        PROVE  \E e : Retargets(j, e)
    <3>. DEFINE c == [cycle[j] EXCEPT !.pinged = @ \cup chunk, !.answered = @ \cup answered]
    <3>1. c \in CycleStates /\ c.targets = cycle[j].targets
        BY <1>1, <2>0 DEF CycleStates
    <3>. QED BY <1>3, <2>1, <3>1 DEF Ping, Phases
  <2>2. ASSUME NEW up \in SUBSET chunk, NEW described \in SUBSET up, Probe(j, chunk, up, described)
        PROVE  \E e : Retargets(j, e)
    <3>. DEFINE c == [cycle[j] EXCEPT !.probed = @ \cup chunk, !.up = @ \cup up,
                                      !.described = @ \cup described]
    <3>1. c \in CycleStates /\ c.targets = cycle[j].targets
        BY <1>1, <2>0 DEF CycleStates
    <3>. QED BY <1>3, <2>2, <3>1 DEF Probe, Phases
  <2>3. ASSUME NEW projectors \in SUBSET (chunk \cap Projectors), Query(j, chunk, projectors)
        PROVE  \E e : Retargets(j, e)
    <3>. DEFINE c == [cycle[j] EXCEPT !.queried = @ \cup chunk, !.projectors = @ \cup projectors]
    <3>1. c \in CycleStates /\ c.targets = cycle[j].targets
        BY <1>1, <2>0 DEF CycleStates
    <3>. QED BY <1>3, <2>3, <3>1 DEF Query, Phases
  <2>4. ASSUME Walk(j, chunk) PROVE \E e : Retargets(j, e)
    <3>. DEFINE c == [cycle[j] EXCEPT !.walked = @ \cup chunk]
    <3>1. c \in CycleStates /\ c.targets = cycle[j].targets
        BY <1>1, <2>0 DEF CycleStates
    <3>. QED BY <1>3, <2>4, <3>1 DEF Walk, Phases
  <2>. QED BY <1>4, <2>1, <2>2, <2>3, <2>4
<1>5. CASE Barrier(j)
  <2>1. PICK pc, todo : /\ CycleStep(j, [cycle[j] EXCEPT !.pc = pc, !.todo = todo])
                        /\ cycle[j].pc \in Phases /\ UNCHANGED targeted
      BY <1>5 DEF Barrier, tables
  <2>2. [cycle[j] EXCEPT !.pc = pc, !.todo = todo].targets = cycle[j].targets
      BY <1>1 DEF CycleStates
  <2>3. cycle[j].pc # "idle"
      BY <2>1 DEF Phases
  <2>. QED BY <2>1, <2>2, <2>3 DEF Retargets
<1>. QED BY <1>2, <1>4, <1>5 DEF Collect

LEMMA EndsIdle == \A status : Ended(status).pc = "idle"
BY DEF Ended, NewCycle

LEMMA AfterFlushTargets ==
    ASSUME NEW c \in CycleStates
    PROVE  AfterFlush(c).pc = "idle" \/ AfterFlush(c).targets = c.targets
BY EndsIdle DEF AfterFlush, CycleStates

LEMMA DeliverRetargets ==
    ASSUME TypeOK, NEW j \in Jobs, Deliver(j)
    PROVE  \E c : Retargets(j, c)
<1>1. cycle[j] \in CycleStates
    BY DEF TypeOK
<1>2. CASE Publish(j)
  <2>. DEFINE c == [NewCycle("flush", cycle[j].targets) EXCEPT
                        !.batch = Batch(j, cycle[j]), !.described = cycle[j].described,
                        !.projectors = cycle[j].projectors]
  <2>1. CycleStep(j, c) /\ UNCHANGED targeted /\ cycle[j].pc # "idle"
      BY <1>2 DEF Publish, tables
  <2>2. c.targets = cycle[j].targets
      BY DEF NewCycle
  <2>. QED BY <2>1, <2>2 DEF Retargets
<1>3. CASE Skip(j)
  <2>. DEFINE c == [NewCycle("flush", {}) EXCEPT !.batch = ZeroBatch(j)]
  <2>1. CycleStep(j, c) /\ UNCHANGED targeted /\ Mine(j) = {}
      BY <1>3 DEF Skip, tables, Mine
  <2>2. c.targets = {}
      BY DEF NewCycle
  <2>. QED BY <2>1, <2>2 DEF Retargets
<1>4. CASE Flush(j)
    BY <1>1, <1>4, AfterFlushTargets DEF Flush, Retargets
<1>5. CASE UpsertProjectors(j)
  <2>1. [cycle[j] EXCEPT !.pc = "sysdescr"].targets = cycle[j].targets
      BY <1>1 DEF CycleStates
  <2>. QED BY <1>5, <2>1 DEF UpsertProjectors, Retargets
<1>6. CASE UpsertSysdescr(j)
    BY <1>6, EndsIdle DEF UpsertSysdescr, Retargets
<1>. QED BY <1>2, <1>3, <1>4, <1>5, <1>6 DEF Deliver

LEMMA FailRetargets ==
    ASSUME TypeOK, NEW j \in Jobs, Fail(j)
    PROVE  \E c : Retargets(j, c)
<1>1. cycle[j] \in CycleStates
    BY DEF TypeOK
<1>2. CASE \/ LoadFails(j) \/ CollectionFails(j) \/ PublishFails(j) \/ SkipFails(j)
           \/ UpsertFails(j) \/ Crash(j)
  <2>1. NewCycle("idle", {}).pc = "idle"
      BY DEF NewCycle
  <2>2. \E c : CycleStep(j, c) /\ c.pc = "idle" /\ UNCHANGED targeted
      BY <1>2, <2>1, EndsIdle DEF LoadFails, CollectionFails, PublishFails, SkipFails,
             UpsertFails, Crash, tables
  <2>. QED BY <2>2 DEF Retargets
<1>3. ASSUME NEW delivered \in BOOLEAN, FlushUnconfirmed(j, delivered)
      PROVE  \E c : Retargets(j, c)
  <2>. DEFINE c == [cycle[j] EXCEPT !.attempts = @ + 1]
  <2>1. c.targets = cycle[j].targets
      BY <1>1 DEF CycleStates
  <2>2. AfterFlush(c).pc = "idle" \/ AfterFlush(c).targets = cycle[j].targets
    <3>1. [c EXCEPT !.pc = "projectors"].targets = c.targets
        BY <1>1 DEF CycleStates
    <3>. QED BY <2>1, <3>1, EndsIdle DEF AfterFlush
  <2>3. \/ UNCHANGED targeted
        \/ targeted' = [targeted EXCEPT ![j] = Cardinality(cycle[j].targets)]
      BY <1>3, <2>1 DEF FlushUnconfirmed
  <2>4. CycleStep(j, c) \/ CycleStep(j, AfterFlush(c))
      BY <1>3 DEF FlushUnconfirmed
  <2>5. cycle[j].pc = "flush"
      BY <1>3 DEF FlushUnconfirmed
  <2>. HIDE DEF c
  <2>. QED BY <2>1, <2>2, <2>3, <2>4, <2>5 DEF Retargets
<1>. QED BY <1>2, <1>3 DEF Fail

(* While the fleet stands still no cycle becomes outdated, and a job's     *)
(* devices_targeted goes wrong only if its cycle had loaded another fleet: *)
(* not by a failed, killed, unconfirmed or repeated delivery, nor by what  *)
(* another job does.                                                       *)
THEOREM GaugesStayRight == Spec => [][GaugesSettle]_vars
<1>1. ASSUME TypeOK, Next PROVE GaugesSettle
  <2>1. ASSUME NEW d \in deployment.devices, FleetChange(d) PROVE ~UNCHANGED fleet
      BY <2>1 DEF FleetChange
  <2>2. ~UNCHANGED fleet => GaugesSettle
      BY DEF GaugesSettle
  <2>3. ASSUME NEW j \in Jobs, Collect(j) \/ Deliver(j) \/ Fail(j) PROVE GaugesSettle
    <3>1. PICK c : Retargets(j, c)
        BY <1>1, <2>3, CollectRetargets, DeliverRetargets, FailRetargets
    <3>. QED BY <1>1, <3>1, RetargetsSettles
  <2>. QED BY <1>1, <2>1, <2>2, <2>3 DEF Next
<1>2. TypeOK /\ [Next]_vars => [GaugesSettle]_vars
    BY <1>1
<1>. QED BY <1>2, CycleTypeCorrect, PTL DEF Spec
=============================================================================
