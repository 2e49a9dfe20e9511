-------------------------- MODULE SnmpClientProofs --------------------------
(***************************************************************************)
(* SnmpClient keeps its type and its limits, tries a host as often as it   *)
(* may before giving it up, leaves no permit unused and has its pings end  *)
(* in time, publishes what the agents have, implements the cycle of        *)
(* SnmpCycle, and cannot stay in a phase for ever, for any targets,        *)
(* routes, agents, times and limits.                                       *)
(***************************************************************************)
EXTENDS SnmpClient, Sequences, FiniteSetTheorems, TLAPS

-----------------------------------------------------------------------------
(* Chunks.                                                                 *)

LEMMA ListIsInjective ==
    ASSUME NEW S, IsFiniteSet(S)
    PROVE  /\ Cardinality(S) \in Nat
           /\ Cycle!SetToSeq(S) \in [1 .. Cardinality(S) -> S]
           /\ \A i, k \in 1 .. Cardinality(S) :
                Cycle!SetToSeq(S)[i] = Cycle!SetToSeq(S)[k] => i = k
<1>1. PICK f \in Bijection(1 .. Cardinality(S), S) : TRUE
  BY FS_CardinalityType DEF ExistsBijection
<1>2. f \in [1 .. Cardinality(S) -> S] /\ IsInjective(f)
  BY <1>1 DEF Bijection, Injection, IsInjective
<1>3. Cycle!SetToSeq(S) = CHOOSE g \in [1 .. Cardinality(S) -> S] : IsInjective(g)
  BY DEF Cycle!SetToSeq, Cycle!IsInjective, IsInjective, Cycle!Cardinality, Cardinality
<1>4. Cycle!SetToSeq(S) \in [1 .. Cardinality(S) -> S] /\ IsInjective(Cycle!SetToSeq(S))
  BY <1>2, <1>3
<1>5. QED
  BY <1>4, FS_CardinalityType DEF IsInjective

\* Chunks share no device, and have none but the targets.
LEMMA ChunksAreDisjoint ==
    ASSUME NEW S, IsFiniteSet(S)
    PROVE  /\ Cycle!SplitEven(S) \in SUBSET SUBSET S
           /\ \A b, c \in Cycle!SplitEven(S) : b # c => b \cap c = {}
<1> DEFINE list == Cycle!SetToSeq(S)
           n == Cycle!AtMost(Cycle!AtLeast(1, Threads), Len(list))
           part(k) == {d \in S : \E i \in DOMAIN list : list[i] = d /\ i % n = k}
<1>1. Cycle!SplitEven(S) = {part(k) : k \in 0 .. n - 1}
  BY DEF Cycle!SplitEven
<1>2. DOMAIN list = 1 .. Cardinality(S)
  BY ListIsInjective
<1>3. ASSUME NEW k, NEW l, NEW d \in part(k), d \in part(l)
      PROVE  k = l
  <2> HIDE DEF n
  <2>1. PICK i \in DOMAIN list : list[i] = d /\ i % n = k
    BY <1>3
  <2>2. PICK h \in DOMAIN list : list[h] = d /\ h % n = l
    BY <1>3
  <2>3. i = h
    BY <2>1, <2>2, <1>2, ListIsInjective
  <2>4. QED
    BY <2>1, <2>2, <2>3
<1> HIDE DEF n
<1>4. \A k : part(k) \subseteq S
  OBVIOUS
<1> HIDE DEF part
<1>5. QED
  BY <1>1, <1>3, <1>4
-----------------------------------------------------------------------------
(* Reads.                                                                  *)

LEMMA HandlersAreKinds == \A t : HandlerFor(t) \in Kinds
<1> SUFFICES ASSUME NEW t PROVE HandlerFor(t) \in Kinds
  OBVIOUS
<1>1. Specialised(t) \in Kinds \cup {"declined"}
  BY DEF Specialised, Projector, Pdu, Codec, Matrix, Kinds
<1>2. QED
  BY <1>1 DEF HandlerFor, Kinds

\* A set of at most four elements is finite.
LEMMA FourAreFinite ==
    ASSUME NEW a, NEW b, NEW c, NEW d
    PROVE  IsFiniteSet({a, b, c, d})
<1>1. IsFiniteSet({a})
  BY FS_Singleton
<1>2. IsFiniteSet({a} \cup {b})
  BY <1>1, FS_AddElement
<1>3. IsFiniteSet(({a} \cup {b}) \cup {c})
  BY <1>2, FS_AddElement
<1>4. IsFiniteSet((({a} \cup {b}) \cup {c}) \cup {d})
  BY <1>3, FS_AddElement
<1>5. {a, b, c, d} = (({a} \cup {b}) \cup {c}) \cup {d}
  OBVIOUS
<1>6. QED
  BY <1>4, <1>5

LEMMA RequestsAreFinite ==
    /\ IsFiniteSet(IfColumns)
    /\ \A kind \in Kinds : IsFiniteSet(StatsRequests(kind))
<1>1. IsFiniteSet(IfColumns) /\ IsFiniteSet(OutletColumns)
  BY FourAreFinite DEF IfColumns, OutletColumns
<1>2. IsFiniteSet({"stats", "scale", "temp", "humid"} \cup OutletColumns)
  BY <1>1, FourAreFinite, FS_Union
<1>3. IsFiniteSet({"stats"} \cup PduColumns)
  <2>1. {"stats"} \cup PduColumns = OutletColumns \cup {"stats", "temp", "tempScale", "humid"}
    BY DEF PduColumns
  <2>2. QED
    BY <1>1, <2>1, FourAreFinite, FS_Union
<1>4. IsFiniteSet({"stats"}) /\ IsFiniteSet({})
  BY FS_Singleton, FS_EmptySet
<1>5. QED
  BY <1>1, <1>2, <1>3, <1>4 DEF StatsRequests, Kinds

\* What a query brings is what fetch_stats makes of what was not lost.
LEMMA StatsResultIs ==
    ASSUME NEW kind \in Kinds, NEW address \in Addresses, NEW r \in StatsResults[kind][address]
    PROVE  /\ IsFiniteSet(r.lost)
           /\ r.by = kind
           /\ r.lost \in SUBSET StatsRequests(kind)
           /\ \E reach \in Reaches(r.lost) :
                r.stats = FetchStats(kind, AgentAt[address], r.lost, reach)
<1>1. PICK lost \in Losses(StatsRequests(kind)) : \E reach \in Reaches(lost) :
        r = [stats |-> FetchStats(kind, AgentAt[address], lost, reach), by |-> kind, lost |-> lost]
  BY DEF StatsResults
<1>2. r.lost = lost /\ r.by = kind
      /\ \E reach \in Reaches(lost) : r.stats = FetchStats(kind, AgentAt[address], lost, reach)
  BY <1>1
<1>3. lost \in SUBSET StatsRequests(kind)
  BY DEF Losses
<1>4. QED
  BY <1>2, <1>3, RequestsAreFinite, FS_Subset

LEMMA PortResultIs ==
    ASSUME NEW address \in Addresses, NEW r \in PortResults[address]
    PROVE  /\ IsFiniteSet(r.lost)
           /\ r.lost \in SUBSET IfColumns
           /\ \E reach \in Reaches(r.lost) : r.rows = FetchInterfaces(AgentAt[address], reach)
<1>1. PICK lost \in Losses(IfColumns) : \E reach \in Reaches(lost) :
        r = [rows |-> FetchInterfaces(AgentAt[address], reach), lost |-> lost]
  BY DEF PortResults
<1>2. r.lost = lost
      /\ \E reach \in Reaches(lost) : r.rows = FetchInterfaces(AgentAt[address], reach)
  BY <1>1
<1>3. lost \in SUBSET IfColumns
  BY DEF Losses
<1>4. QED
  BY <1>2, <1>3, RequestsAreFinite, FS_Subset

LEMMA LossesAreCounted ==
    ASSUME faults \in 0 .. MaxFaults, NEW lost, IsFiniteSet(lost), Lose(lost)
    PROVE  faults' \in 0 .. MaxFaults
<1>1. Cardinality(lost) \in Nat
  BY FS_CardinalityType
<1>2. QED
  BY <1>1, SizesAssumption DEF Lose

-----------------------------------------------------------------------------
(* The state.                                                              *)

\* TypeOK but for what the reads brought, with what bounds the sets.
Shape ==
    /\ fleet \in SUBSET Devices
    /\ pc \in {"idle", "publish", "failed"} \cup Phases
    /\ chunks \in SUBSET SUBSET fleet
    /\ \A b, c \in chunks : b # c => b \cap c = {}
    /\ first \in SUBSET fleet
    /\ Handlers(chunks, first)
    /\ task \in [Devices -> Tasks]
    /\ \A d \in Devices \ fleet : task[d] = Fresh
    /\ clock \in Nat
    /\ {answered, up, described} \subseteq SUBSET fleet
    /\ DOMAIN queries = Devices /\ DOMAIN ports = Devices
    /\ faults \in 0 .. MaxFaults

(* Task t of d is in its turn: pings happen in the ping phase only, calls  *)
(* in the others; a host that is pinged has an attempt left until it is    *)
(* done; no query is asked that no specification matches.                  *)
InTurn(d, t, phase, replied) ==
    /\ phase = "ping" =>
        /\ t.at \notin {"queued", "calling"}
        /\ t.at # "done" => t.calls < PingAttempts
        /\ t.at = "done" /\ d \notin replied => t.calls = PingAttempts
    /\ phase # "ping" => t.at \notin {"pinging", "sleeping"}
    /\ phase = "query" /\ t.at \in {"queued", "calling"} => QueryFor(Route[d]) # "skip_no_match"

Turns == \A d \in UNION chunks : InTurn(d, task[d], pc, answered)

LEMMA Attempts == PingAttempts \in Nat \ {0} /\ PingAttempts = PingRetries + 1
BY TimesAssumption DEF PingAttempts

LEMMA FreshType == Fresh \in Tasks
BY Attempts DEF Fresh, Tasks, States

LEMMA FleetIsFinite ==
    ASSUME NEW S \in SUBSET Devices
    PROVE  IsFiniteSet(S)
BY TargetsAssumption, FS_Subset

\* One coroutine goes on, and nothing else of the phase changes.
LEMMA StepShape ==
    ASSUME Shape, NEW d, NEW at, NEW t \in Tasks, Step(d, at, t)
    PROVE  /\ d \in fleet /\ d \in Devices
           /\ pc \in Phases /\ task[d].at = at
           /\ fleet' = fleet /\ pc' = pc /\ chunks' = chunks /\ first' = first /\ clock' = clock
           /\ task' \in [Devices -> Tasks]
           /\ task'[d] = t
           /\ \A e \in Devices \ {d} : task'[e] = task[e]
BY DEF Shape, Step

\* What a step of one coroutine keeps of Shape, its results apart.
LEMMA StepKeepsShape ==
    ASSUME Shape, NEW d, NEW at, NEW t \in Tasks, Step(d, at, t),
           {answered, up, described}' \subseteq SUBSET fleet,
           DOMAIN queries' = Devices, DOMAIN ports' = Devices,
           faults' \in 0 .. MaxFaults
    PROVE  Shape'
<1>1. /\ fleet' = fleet /\ pc' = pc /\ chunks' = chunks /\ first' = first /\ clock' = clock
      /\ task' \in [Devices -> Tasks]
  BY StepShape
<1>2. Handlers(chunks, first)'
  BY <1>1 DEF Shape, Handlers
<1>3. \A e \in Devices \ fleet : task'[e] = Fresh
  <2>1. d \in fleet /\ \A e \in Devices \ {d} : task'[e] = task[e]
    BY StepShape
  <2>2. QED
    BY <2>1 DEF Shape
<1>4. QED
  BY <1>1, <1>2, <1>3 DEF Shape

\* A phase starts with chunks of its targets and fresh coroutines.
LEMMA StartShape ==
    ASSUME NEW S \in SUBSET Devices, StartPhase(S)
    PROVE  /\ chunks' \in SUBSET SUBSET S
           /\ \A b, c \in chunks' : b # c => b \cap c = {}
           /\ first' \in SUBSET S
           /\ Handlers(chunks', first')
           /\ task' = [d \in Devices |-> Fresh]
           /\ task' \in [Devices -> Tasks]
<1>1. IsFiniteSet(S)
  BY FleetIsFinite
<1>2. chunks' = Cycle!SplitEven(S)
  BY DEF StartPhase
<1>3. first' \in SUBSET S /\ Handlers(chunks', first')
  BY DEF StartPhase
<1>4. task' = [d \in Devices |-> Fresh]
  BY DEF StartPhase
<1>5. QED
  BY <1>1, <1>2, <1>3, <1>4, ChunksAreDisjoint, FreshType

\* A coroutine that goes on keeps the others in their turn.
LEMMA StepKeepsTurns ==
    ASSUME Shape, Turns, NEW d, NEW at, NEW t \in Tasks, Step(d, at, t),
           answered \subseteq answered', InTurn(d, t, pc, answered')
    PROVE  Turns'
<1> SUFFICES ASSUME NEW e \in UNION chunks PROVE InTurn(e, task'[e], pc, answered')
  BY StepShape DEF Turns, InTurn
<1>1. CASE e = d
  BY <1>1, StepShape
<1>2. CASE e # d
  <2>1. task'[e] = task[e]
    BY <1>2, StepShape DEF Shape
  <2>2. QED
    BY <2>1 DEF Turns, InTurn
<1>3. QED
  BY <1>1, <1>2

LEMMA FreshInTurn ==
    ASSUME NEW d, NEW phase, NEW replied
    PROVE  InTurn(d, Fresh, phase, replied)
BY Attempts DEF InTurn, Fresh

LEMMA ShapeInit == Init => Shape /\ Turns
<1> SUFFICES ASSUME Init PROVE Shape /\ Turns
  OBVIOUS
<1>1. fleet \in SUBSET Devices
  BY TargetsAssumption DEF Init
<1>2. Handlers(chunks, first)
  BY DEF Init, Handlers
<1>3. Turns
  BY DEF Init, Turns
<1>4. task \in [Devices -> Tasks]
  BY FreshType DEF Init
<1>5. Shape
  BY <1>1, <1>2, <1>4, SizesAssumption DEF Init, Shape
<1>6. QED
  BY <1>3, <1>5

LEMMA LoadShape == Shape /\ Turns /\ Load => Shape' /\ Turns'
<1> SUFFICES ASSUME Shape, Turns, Load PROVE Shape' /\ Turns'
  OBVIOUS
<1>1. StartPhase(fleet) /\ fleet \in SUBSET Devices
  BY DEF Load, Shape
<1>2. /\ chunks' \in SUBSET SUBSET fleet
      /\ \A b, c \in chunks' : b # c => b \cap c = {}
      /\ first' \in SUBSET fleet
      /\ Handlers(chunks', first')
      /\ task' = [d \in Devices |-> Fresh]
      /\ task' \in [Devices -> Tasks]
  BY <1>1, StartShape
<1>3. /\ pc' = "ping" /\ fleet' = fleet /\ clock' = clock /\ faults' = faults
      /\ answered' = answered /\ up' = up /\ described' = described
      /\ queries' = queries /\ ports' = ports
  BY DEF Load, results
<1>4. Shape'
  <2>1. Handlers(chunks, first)'
    BY <1>2 DEF Handlers
  <2>2. QED
    BY <1>2, <1>3, <2>1 DEF Shape, Phases
<1>5. Turns'
  <2>1. \A d \in UNION chunks' : task'[d] = Fresh
    BY <1>1, <1>2
  <2>2. QED
    BY <2>1, FreshInTurn DEF Turns, InTurn
<1>6. QED
  BY <1>4, <1>5

LEMMA BarrierShape == Shape /\ Turns /\ Barrier => Shape' /\ Turns'
<1> SUFFICES ASSUME Shape, Turns, Barrier PROVE Shape' /\ Turns'
  OBVIOUS
<1>1. /\ fleet' = fleet /\ clock' = 0 /\ faults' = faults
      /\ answered' = answered /\ up' = up /\ described' = described
      /\ queries' = queries /\ ports' = ports
  BY DEF Barrier, results
<1>2. pc' \in {"probe", "query", "interfaces", "publish"}
  BY DEF Barrier, NextPhase, Phases
<1>3. /\ chunks' \in SUBSET SUBSET fleet
      /\ \A b, c \in chunks' : b # c => b \cap c = {}
      /\ first' \in SUBSET fleet
      /\ Handlers(chunks', first')
      /\ task' = [d \in Devices |-> Fresh]
      /\ task' \in [Devices -> Tasks]
  <2>1. CASE pc' = "publish"
    BY <2>1, FreshType DEF Barrier, Handlers
  <2>2. CASE pc' # "publish"
    <3> DEFINE S == TargetsOf(pc')
    <3>1. StartPhase(S)
      BY <2>2 DEF Barrier
    <3>2. S \in SUBSET fleet /\ fleet \in SUBSET Devices
      BY DEF Shape, TargetsOf
    <3> HIDE DEF S
    <3>3. QED
      BY <3>1, <3>2, StartShape
  <2>3. QED
    BY <2>1, <2>2
<1>4. Shape'
  <2>1. Handlers(chunks, first)'
    BY <1>3 DEF Handlers
  <2>2. QED
    BY <1>1, <1>2, <1>3, <2>1 DEF Shape, Phases
<1>5. Turns'
  <2>1. \A d \in UNION chunks' : task'[d] = Fresh
    BY <1>3 DEF Shape
  <2>2. QED
    BY <2>1, FreshInTurn DEF Turns, InTurn
<1>6. QED
  BY <1>4, <1>5

\* A task with another place is a task.
LEMMA TaskAt ==
    ASSUME NEW t \in Tasks, NEW at \in States
    PROVE  /\ [t EXCEPT !.at = at] \in Tasks
           /\ [t EXCEPT !.at = at].at = at
           /\ [t EXCEPT !.at = at].calls = t.calls
BY DEF Tasks

LEMMA AcquireShape ==
    ASSUME Shape, Turns, NEW d, Acquire(d)
    PROVE  Shape' /\ Turns'
<1> DEFINE at == IF pc = "ping" THEN "pinging" ELSE "queued"
           t == [task[d] EXCEPT !.at = at]
<1>1. d \in UNION chunks /\ task[d] \in Tasks /\ task[d].at = "waiting" /\ pc \in Phases
  BY DEF Acquire, Step, Shape
<1>2. t \in Tasks /\ t.at = at /\ t.calls = task[d].calls
  <2>1. at \in States
    BY DEF States
  <2> HIDE DEF at
  <2>2. QED
    BY <1>1, <2>1, TaskAt
<1>3. Step(d, "waiting", t)
  BY DEF Acquire
<1>4. answered' = answered /\ up' = up /\ described' = described
      /\ queries' = queries /\ ports' = ports /\ faults' = faults
  BY DEF Acquire, results
<1>5. pc = "query" => QueryFor(Route[d]) # "skip_no_match"
  BY DEF Acquire
<1>6. InTurn(d, task[d], pc, answered)
  BY <1>1 DEF Turns
<1>7. InTurn(d, t, pc, answered')
  BY <1>1, <1>2, <1>5, <1>6 DEF InTurn
<1> HIDE DEF t
<1>8. Shape'
  BY <1>2, <1>3, <1>4, StepKeepsShape DEF Shape
<1>9. QED
  BY <1>2, <1>3, <1>4, <1>7, <1>8, StepKeepsTurns

LEMMA PingAnsweredShape ==
    ASSUME Shape, Turns, NEW d, PingAnswered(d)
    PROVE  Shape' /\ Turns'
<1> DEFINE t == [Fresh EXCEPT !.at = "done"]
<1>1. Step(d, "pinging", t) /\ answered' = answered \cup {d}
      /\ up' = up /\ described' = described
      /\ queries' = queries /\ ports' = ports /\ faults' = faults
  BY DEF PingAnswered
<1>2. t \in Tasks /\ t.at = "done"
  BY TaskAt, FreshType DEF States
<1>3. d \in UNION chunks /\ task[d].at = "pinging"
  BY DEF PingAnswered, Step
<1>4. pc = "ping"
  BY <1>3 DEF Turns, InTurn
<1>5. InTurn(d, t, pc, answered')
  BY <1>1, <1>2, <1>4 DEF InTurn
<1> HIDE DEF t
<1>6. d \in fleet
  BY <1>1, <1>2, StepShape
<1>7. Shape'
  BY <1>1, <1>2, <1>6, StepKeepsShape DEF Shape
<1>8. QED
  BY <1>1, <1>2, <1>5, <1>7, StepKeepsTurns

LEMMA PingFailsShape ==
    ASSUME Shape, Turns, NEW d, PingFails(d)
    PROVE  Shape' /\ Turns'
<1>1. d \in UNION chunks /\ task[d] \in Tasks /\ task[d].at = "pinging"
  BY DEF PingFails, Step, Shape
<1>2. pc = "ping" /\ task[d].calls < PingAttempts /\ task[d].calls \in Nat
  BY <1>1, Attempts DEF Turns, InTurn, Tasks
<1>3. answered' = answered /\ up' = up /\ described' = described
      /\ queries' = queries /\ ports' = ports /\ faults' = faults
  BY DEF PingFails, results
<1>4. PICK t \in Tasks : Step(d, "pinging", t) /\ InTurn(d, t, pc, answered')
  <2> DEFINE failed == task[d].calls + 1
  <2>1. CASE failed < PingAttempts
    <3>1. PICK wait \in Backoff(task[d].calls) :
            Step(d, "pinging", [at |-> "sleeping", calls |-> failed, timer |-> wait])
      BY <2>1 DEF PingFails
    <3>2. wait \in Nat
      BY TimesAssumption DEF Backoff
    <3> DEFINE t == [at |-> "sleeping", calls |-> failed, timer |-> wait]
    <3>3. t \in Tasks
      BY <1>2, <2>1, <3>2, Attempts DEF Tasks, States
    <3>4. InTurn(d, t, pc, answered')
      BY <1>2, <2>1 DEF InTurn
    <3>5. QED
      BY <3>1, <3>3, <3>4
  <2>2. CASE ~(failed < PingAttempts)
    <3> DEFINE t == [at |-> "done", calls |-> failed, timer |-> 0]
    <3>1. Step(d, "pinging", t)
      BY <2>2 DEF PingFails
    <3>2. failed = PingAttempts
      BY <1>2, <2>2, Attempts
    <3>3. t \in Tasks
      BY <3>2, Attempts DEF Tasks, States
    <3>4. InTurn(d, t, pc, answered')
      BY <1>2, <3>2 DEF InTurn
    <3>5. QED
      BY <3>1, <3>3, <3>4
  <2>3. QED
    BY <2>1, <2>2
<1>5. Shape'
  BY <1>3, <1>4, StepKeepsShape DEF Shape
<1>6. QED
  BY <1>3, <1>4, <1>5, StepKeepsTurns

LEMMA WakeUpShape ==
    ASSUME Shape, Turns, NEW d, WakeUp(d)
    PROVE  Shape' /\ Turns'
<1> DEFINE t == [task[d] EXCEPT !.at = "waiting"]
<1>1. d \in UNION chunks /\ task[d] \in Tasks /\ task[d].at = "sleeping"
  BY DEF WakeUp, Step, Shape
<1>2. Step(d, "sleeping", t)
      /\ answered' = answered /\ up' = up /\ described' = described
      /\ queries' = queries /\ ports' = ports /\ faults' = faults
  BY DEF WakeUp, results
<1>3. t \in Tasks /\ t.at = "waiting" /\ t.calls = task[d].calls
  BY <1>1, TaskAt DEF States
<1>4. InTurn(d, t, pc, answered')
  BY <1>1, <1>3 DEF Turns, InTurn
<1> HIDE DEF t
<1>5. Shape'
  BY <1>2, <1>3, StepKeepsShape DEF Shape
<1>6. QED
  BY <1>2, <1>3, <1>4, <1>5, StepKeepsTurns

LEMMA RunShape ==
    ASSUME Shape, Turns, NEW d, Run(d)
    PROVE  Shape' /\ Turns'
<1> DEFINE t == [task[d] EXCEPT !.at = "calling"]
<1>1. d \in UNION chunks /\ task[d] \in Tasks /\ task[d].at = "queued"
  BY DEF Run, Step, Shape
<1>2. Step(d, "queued", t)
      /\ answered' = answered /\ up' = up /\ described' = described
      /\ queries' = queries /\ ports' = ports /\ faults' = faults
  BY DEF Run, results
<1>3. t \in Tasks /\ t.at = "calling" /\ t.calls = task[d].calls
  BY <1>1, TaskAt DEF States
<1>4. InTurn(d, t, pc, answered')
  BY <1>1, <1>2, <1>3 DEF Turns, InTurn
<1> HIDE DEF t
<1>5. Shape'
  BY <1>2, <1>3, StepKeepsShape DEF Shape
<1>6. QED
  BY <1>2, <1>3, <1>4, <1>5, StepKeepsTurns

LEMMA ProbeShape ==
    ASSUME Shape, Turns, NEW d, NEW ok \in BOOLEAN, Probe(d, ok)
    PROVE  Shape' /\ Turns'
<1> DEFINE at == IF ok THEN "queued" ELSE "done"
           t == [at |-> at, calls |-> 1, timer |-> 0]
<1>1. task[d] \in Tasks
  BY DEF Probe, Step, Shape
<1>2. pc = "probe" /\ Step(d, "calling", t)
      /\ up' = (IF ok THEN up \cup {d} ELSE up)
      /\ answered' = answered /\ described' = described
      /\ queries' = queries /\ ports' = ports /\ faults' = faults
  BY DEF Probe
<1>3. t \in Tasks /\ t.at \in {"queued", "done"}
  <2>1. at \in States /\ at \in {"queued", "done"}
    BY DEF States
  <2> HIDE DEF at
  <2>2. 1 \in 0 .. PingAttempts
    BY Attempts
  <2>3. QED
    BY <2>1, <2>2 DEF Tasks
<1>4. InTurn(d, t, pc, answered')
  BY <1>2, <1>3 DEF InTurn
<1> HIDE DEF t
<1>5. d \in fleet
  BY <1>2, <1>3, StepShape
<1>6. Shape'
  <2>1. up' \subseteq fleet
    BY <1>2, <1>5 DEF Shape
  <2>2. QED
    BY <1>2, <1>3, <2>1, StepKeepsShape DEF Shape
<1>7. QED
  BY <1>2, <1>3, <1>4, <1>6, StepKeepsTurns

LEMMA DescribeShape ==
    ASSUME Shape, Turns, NEW d, NEW ok \in BOOLEAN, Describe(d, ok)
    PROVE  Shape' /\ Turns'
<1> DEFINE t == [task[d] EXCEPT !.at = "done"]
<1>1. task[d] \in Tasks
  BY DEF Describe, Step, Shape
<1>2. pc = "probe" /\ Step(d, "calling", t)
      /\ described' = (IF ok THEN described \cup {d} ELSE described)
      /\ answered' = answered /\ up' = up
      /\ queries' = queries /\ ports' = ports /\ faults' = faults
  BY DEF Describe
<1>3. t \in Tasks /\ t.at = "done"
  BY <1>1, TaskAt DEF States
<1>4. InTurn(d, t, pc, answered')
  BY <1>2, <1>3 DEF InTurn
<1> HIDE DEF t
<1>5. d \in fleet
  BY <1>2, <1>3, StepShape
<1>6. Shape'
  <2>1. described' \subseteq fleet
    BY <1>2, <1>5 DEF Shape
  <2>2. QED
    BY <1>2, <1>3, <2>1, StepKeepsShape DEF Shape
<1>7. QED
  BY <1>2, <1>3, <1>4, <1>6, StepKeepsTurns

LEMMA SkipQueryShape ==
    ASSUME Shape, Turns, NEW d, SkipQuery(d)
    PROVE  Shape' /\ Turns'
<1> DEFINE t == [task[d] EXCEPT !.at = "done"]
<1>1. task[d] \in Tasks
  BY DEF SkipQuery, Step, Shape
<1>2. pc = "query" /\ Step(d, "waiting", t)
      /\ answered' = answered /\ up' = up /\ described' = described
      /\ queries' = queries /\ ports' = ports /\ faults' = faults
  BY DEF SkipQuery, results
<1>3. t \in Tasks /\ t.at = "done"
  BY <1>1, TaskAt DEF States
<1>4. InTurn(d, t, pc, answered')
  BY <1>2, <1>3 DEF InTurn
<1> HIDE DEF t
<1>5. Shape'
  BY <1>2, <1>3, StepKeepsShape DEF Shape
<1>6. QED
  BY <1>2, <1>3, <1>4, <1>5, StepKeepsTurns

LEMMA QueryShape ==
    ASSUME Shape, Turns, NEW d, Query(d)
    PROVE  Shape' /\ Turns'
<1> DEFINE t == [task[d] EXCEPT !.at = "done"]
<1>1. task[d] \in Tasks /\ d \in Devices
  BY DEF Query, Step, Shape
<1>2. pc = "query" /\ Step(d, "calling", t)
      /\ answered' = answered /\ up' = up /\ described' = described /\ ports' = ports
  BY DEF Query
<1>3. t \in Tasks /\ t.at = "done"
  BY <1>1, TaskAt DEF States
<1>4. InTurn(d, t, pc, answered')
  BY <1>2, <1>3 DEF InTurn
<1>5. PICK r \in StatsResults[HandlerOf(d)][Address[d]] :
        /\ Lose(r.lost)
        /\ queries' = IF r.stats = None THEN queries ELSE [queries EXCEPT ![d] = r]
  BY DEF Query
<1>6. HandlerOf(d) \in Kinds /\ Address[d] \in Addresses
  BY <1>1, HandlersAreKinds, TargetsAssumption DEF HandlerOf
<1>7. faults' \in 0 .. MaxFaults
  BY <1>5, <1>6, StatsResultIs, LossesAreCounted DEF Shape
<1>8. DOMAIN queries' = Devices
  BY <1>5 DEF Shape
<1> HIDE DEF t
<1>9. Shape'
  BY <1>2, <1>3, <1>7, <1>8, StepKeepsShape DEF Shape
<1>10. QED
  BY <1>2, <1>3, <1>4, <1>9, StepKeepsTurns

LEMMA WalksShape ==
    ASSUME Shape, Turns, NEW d, Walks(d)
    PROVE  Shape' /\ Turns'
<1> DEFINE t == [task[d] EXCEPT !.at = "done"]
<1>1. task[d] \in Tasks /\ d \in Devices
  BY DEF Walks, Step, Shape
<1>2. pc = "interfaces" /\ Step(d, "calling", t)
      /\ answered' = answered /\ up' = up /\ described' = described /\ queries' = queries
  BY DEF Walks
<1>3. t \in Tasks /\ t.at = "done"
  BY <1>1, TaskAt DEF States
<1>4. InTurn(d, t, pc, answered')
  BY <1>2, <1>3 DEF InTurn
<1>5. PICK r \in PortResults[Address[d]] :
        /\ Lose(r.lost)
        /\ ports' = IF r.rows = <<>> THEN ports ELSE [ports EXCEPT ![d] = r]
  BY DEF Walks
<1>6. Address[d] \in Addresses
  BY <1>1, TargetsAssumption
<1>7. faults' \in 0 .. MaxFaults
  BY <1>5, <1>6, PortResultIs, LossesAreCounted DEF Shape
<1>8. DOMAIN ports' = Devices
  BY <1>5 DEF Shape
<1> HIDE DEF t
<1>9. Shape'
  BY <1>2, <1>3, <1>7, <1>8, StepKeepsShape DEF Shape
<1>10. QED
  BY <1>2, <1>3, <1>4, <1>9, StepKeepsTurns

LEMMA RaisesShape ==
    ASSUME Shape, Turns, NEW d, Raises(d)
    PROVE  Shape' /\ Turns'
<1>1. Handlers(chunks, first)'
  BY DEF Raises, Handlers
<1>2. Turns'
  BY DEF Raises, Turns
<1>3. task' \in [Devices -> Tasks]
  BY FreshType DEF Raises
<1>4. QED
  BY <1>1, <1>2, <1>3 DEF Raises, Shape

LEMMA TickShape ==
    ASSUME Shape, Turns, Tick
    PROVE  Shape' /\ Turns'
<1>1. /\ fleet' = fleet /\ pc' = pc /\ chunks' = chunks /\ first' = first /\ faults' = faults
      /\ clock' = clock + 1
      /\ answered' = answered /\ up' = up /\ described' = described
      /\ queries' = queries /\ ports' = ports
  BY DEF Tick, results
<1>2. ASSUME NEW d \in Devices
      PROVE  /\ task'[d] \in Tasks
             /\ task'[d].at = task[d].at /\ task'[d].calls = task[d].calls
  <2>1. task[d] \in Tasks
    BY DEF Shape
  <2>2. CASE task[d].at = "pinging"
    <3>1. task'[d] = [task[d] EXCEPT !.timer = @ + 1]
      BY <2>2 DEF Tick
    <3>2. QED
      BY <2>1, <3>1 DEF Tasks
  <2>3. CASE task[d].at = "sleeping"
    <3>1. task'[d] = [task[d] EXCEPT !.timer = @ - 1]
      BY <2>3 DEF Tick
    <3>2. d \in fleet
      BY <2>3 DEF Shape, Fresh
    <3>3. task[d].timer # 0
      BY <2>3, <3>2 DEF Tick, Due
    <3>4. QED
      BY <2>1, <3>1, <3>3 DEF Tasks
  <2>4. CASE task[d].at \notin {"pinging", "sleeping"}
    BY <2>1, <2>4 DEF Tick
  <2>5. QED
    BY <2>2, <2>3, <2>4
<1>3. Handlers(chunks, first)'
  BY <1>1 DEF Shape, Handlers
<1>4. \A d \in Devices \ fleet : task'[d] = Fresh
  <2> SUFFICES ASSUME NEW d \in Devices \ fleet PROVE task'[d] = Fresh
    OBVIOUS
  <2>1. task[d] = Fresh /\ task[d].at = "waiting"
    BY DEF Shape, Fresh
  <2>2. QED
    BY <2>1 DEF Tick
<1>5. task' \in [Devices -> Tasks]
  <2>1. task' = [d \in Devices |-> task'[d]]
    BY DEF Tick
  <2>2. QED
    BY <1>2, <2>1
<1>6. Shape'
  BY <1>1, <1>3, <1>4, <1>5 DEF Shape
<1>7. Turns'
  <2> SUFFICES ASSUME NEW d \in UNION chunks PROVE InTurn(d, task'[d], pc, answered)
    BY <1>1 DEF Turns, InTurn
  <2>1. d \in Devices
    BY DEF Shape
  <2>2. QED
    BY <1>2, <2>1 DEF Turns, InTurn
<1>8. QED
  BY <1>6, <1>7

LEMMA ShapeNext == Shape /\ Turns /\ [Next]_vars => Shape' /\ Turns'
<1> SUFFICES ASSUME Shape, Turns, [Next]_vars PROVE Shape' /\ Turns'
  OBVIOUS
<1>1. CASE Load
  BY <1>1, LoadShape
<1>2. CASE Barrier
  BY <1>2, BarrierShape
<1>3. CASE Tick
  BY <1>3, TickShape
<1>4. ASSUME NEW d, Ping(d) PROVE Shape' /\ Turns'
  BY <1>4, AcquireShape, PingAnsweredShape, PingFailsShape, WakeUpShape DEF Ping
<1>5. ASSUME NEW d, Call(d) PROVE Shape' /\ Turns'
  BY <1>5, RunShape, ProbeShape, DescribeShape, SkipQueryShape, QueryShape, WalksShape DEF Call
<1>6. ASSUME NEW d, Raises(d) PROVE Shape' /\ Turns'
  BY <1>6, RaisesShape
<1>7. CASE UNCHANGED vars
  BY <1>7 DEF Shape, Turns, InTurn, Handlers, vars, results
<1>8. QED
  BY <1>1, <1>2, <1>3, <1>4, <1>5, <1>6, <1>7 DEF Next, Work

LEMMA ShapeAlways == Spec => [](Shape /\ Turns)
BY ShapeInit, ShapeNext, PTL DEF Spec

-----------------------------------------------------------------------------
(* Limits.                                                                 *)

Limited ==
    /\ \A c \in chunks : Cardinality(Holders(c)) <= Permits(pc)
    /\ Cardinality(Calling) <= Threads

\* A set with one element more at most is one larger at most.
LEMMA OneMore ==
    ASSUME NEW S, IsFiniteSet(S), NEW d, NEW T, T \subseteq S \cup {d}
    PROVE  /\ Cardinality(S) \in Nat /\ Cardinality(T) \in Nat
           /\ Cardinality(T) <= Cardinality(S) + 1
<1> DEFINE U == S \cup {d}
<1>1. Cardinality(S) \in Nat
  BY FS_CardinalityType
<1>2. IsFiniteSet(U) /\ Cardinality(U) = IF d \in S THEN Cardinality(S) ELSE Cardinality(S) + 1
  BY FS_AddElement
<1>3. T \in SUBSET U
  OBVIOUS
<1> HIDE DEF U
<1>4. IsFiniteSet(T) /\ Cardinality(T) <= Cardinality(U)
  BY <1>2, <1>3, FS_Subset
<1>5. Cardinality(T) \in Nat
  BY <1>4, FS_CardinalityType
<1>6. QED
  BY <1>1, <1>2, <1>4, <1>5

LEMMA PermitsType == \A phase : Permits(phase) \in Nat \ {0}
BY SizesAssumption DEF Permits

LEMMA ChunkOf ==
    ASSUME Shape, NEW c \in chunks, NEW d \in c
    PROVE  Chunk(d) = c
<1>1. Chunk(d) \in chunks /\ d \in Chunk(d)
  BY DEF Chunk
<1>2. \A b \in chunks : b # c => b \cap c = {}
  BY DEF Shape
<1>3. QED
  BY <1>1, <1>2

LEMMA HoldersAreFinite ==
    ASSUME Shape
    PROVE  /\ \A c \in chunks : IsFiniteSet(Holders(c)) /\ Cardinality(Holders(c)) \in Nat
           /\ IsFiniteSet(Calling) /\ Cardinality(Calling) \in Nat
<1>1. \A c \in chunks : Holders(c) \in SUBSET Devices
  BY DEF Shape, Holders
<1>2. Calling \in SUBSET Devices
  BY DEF Shape, Calling
<1>3. QED
  BY <1>1, <1>2, FleetIsFinite, FS_CardinalityType

\* A coroutine that acquires nothing adds nothing to the count.
LEMMA HoldersShrink ==
    ASSUME Shape, Limited, NEW d, NEW at, NEW t \in Tasks, Step(d, at, t),
           t.at \in Holding => at \in Holding
    PROVE  \A c \in chunks' : Cardinality(Holders(c)') <= Permits(pc')
<1> SUFFICES ASSUME NEW c \in chunks PROVE Cardinality(Holders(c)') <= Permits(pc)
  BY StepShape
<1>1. Holders(c)' \subseteq Holders(c)
  <2>1. \A e \in c : e # d => task'[e] = task[e]
    BY StepShape DEF Shape
  <2>2. task'[d] = t /\ task[d].at = at
    BY StepShape
  <2>3. QED
    BY <2>1, <2>2 DEF Holders
<1>2. Cardinality(Holders(c)') <= Cardinality(Holders(c)) /\ Cardinality(Holders(c)') \in Nat
  BY <1>1, HoldersAreFinite, FS_Subset, FS_CardinalityType
<1>3. QED
  BY <1>2, HoldersAreFinite, PermitsType DEF Limited

LEMMA CallingShrinks ==
    ASSUME Shape, Limited, NEW d, NEW at, NEW t \in Tasks, Step(d, at, t), t.at # "calling"
    PROVE  Cardinality(Calling') <= Threads
<1>1. Calling' \subseteq Calling
  BY StepShape DEF Calling, Shape
<1>2. Cardinality(Calling') <= Cardinality(Calling) /\ Cardinality(Calling') \in Nat
  BY <1>1, HoldersAreFinite, FS_Subset, FS_CardinalityType
<1>3. QED
  BY <1>2, HoldersAreFinite, SizesAssumption DEF Limited

\* With all coroutines at their start nobody holds anything.
LEMMA FreshHoldNothing ==
    ASSUME task' = [d \in Devices |-> Fresh], fleet' \in SUBSET Devices,
           chunks' \in SUBSET SUBSET fleet'
    PROVE  Limited'
<1>1. \A c \in chunks' : Holders(c)' = {}
  BY DEF Holders, Holding, Fresh
<1>2. Calling' = {}
  <2>1. \A d \in fleet' : task'[d].at = "waiting"
    BY DEF Fresh
  <2>2. QED
    BY <2>1 DEF Calling
<1>3. Cardinality({}) = 0
  BY FS_EmptySet
<1>4. ASSUME NEW c \in chunks' PROVE Cardinality(Holders(c)') <= Permits(pc')
  <2>1. Holders(c)' = {}
    BY <1>1
  <2>2. Permits(pc') \in Nat
    BY PermitsType
  <2>3. QED
    BY <1>3, <2>1, <2>2
<1>5. Cardinality(Calling') <= Threads
  BY <1>2, <1>3, SizesAssumption
<1>6. QED
  BY <1>4, <1>5 DEF Limited

LEMMA AcquireLimited ==
    ASSUME Shape, Turns, Limited, NEW d, Acquire(d)
    PROVE  Limited'
<1> DEFINE at == IF pc = "ping" THEN "pinging" ELSE "queued"
           t == [task[d] EXCEPT !.at = at]
<1>1. Step(d, "waiting", t) /\ HasPermit(d) /\ d \in UNION chunks
  BY DEF Acquire, Step
<1>2. task[d] \in Tasks
  BY <1>1 DEF Shape
<1>3. t \in Tasks /\ t.at = at
  <2>1. at \in States
    BY DEF States
  <2> HIDE DEF at
  <2>2. QED
    BY <1>2, <2>1, TaskAt
<1>4. Cardinality(Calling') <= Threads
  <2>1. t.at # "calling"
    BY <1>3
  <2> HIDE DEF t
  <2>2. QED
    BY <1>1, <1>3, <2>1, CallingShrinks
<1> HIDE DEF t
<1>5. ASSUME NEW c \in chunks PROVE Cardinality(Holders(c)') <= Permits(pc)
  <2>1. \A e \in c : e # d => task'[e] = task[e]
    BY <1>1, <1>3, StepShape DEF Shape
  <2>2. IsFiniteSet(Holders(c)) /\ Cardinality(Holders(c)) \in Nat
    BY HoldersAreFinite
  <2>3. CASE d \in c
    <3>1. Cardinality(Holders(c)) < Permits(pc)
      <4>1. Chunk(d) = c
        BY <2>3, ChunkOf
      <4>2. Cardinality(Holders(Chunk(d))) < Permits(pc)
        BY <1>1 DEF HasPermit
      <4>3. QED
        BY <4>1, <4>2
    <3>2. Holders(c)' \subseteq Holders(c) \cup {d}
      BY <2>1 DEF Holders
    <3>3. Cardinality(Holders(c)') \in Nat /\ Cardinality(Holders(c)') <= Cardinality(Holders(c)) + 1
      BY <2>2, <3>2, OneMore
    <3>4. QED
      BY <2>2, <3>1, <3>3, PermitsType
  <2>4. CASE d \notin c
    <3>1. Holders(c)' = Holders(c)
      BY <2>1, <2>4 DEF Holders
    <3>2. QED
      BY <3>1 DEF Limited
  <2>5. QED
    BY <2>3, <2>4
<1>6. chunks' = chunks /\ pc' = pc
  BY <1>1, <1>3, StepShape
<1>7. QED
  BY <1>4, <1>5, <1>6 DEF Limited

LEMMA RunLimited ==
    ASSUME Shape, Turns, Limited, NEW d, Run(d)
    PROVE  Limited'
<1> DEFINE t == [task[d] EXCEPT !.at = "calling"]
<1>1. Step(d, "queued", t) /\ Cardinality(Calling) < Threads /\ d \in UNION chunks
  BY DEF Run, Step
<1>2. t \in Tasks /\ t.at = "calling"
  BY <1>1, TaskAt DEF States, Shape
<1> HIDE DEF t
<1>3. \A c \in chunks' : Cardinality(Holders(c)') <= Permits(pc')
  BY <1>1, <1>2, HoldersShrink DEF Holding
<1>4. Calling' \subseteq Calling \cup {d}
  BY <1>1, <1>2, StepShape DEF Calling, Shape
<1>5. IsFiniteSet(Calling) /\ Cardinality(Calling) \in Nat
  BY HoldersAreFinite
<1>6. Cardinality(Calling') \in Nat /\ Cardinality(Calling') <= Cardinality(Calling) + 1
  BY <1>4, <1>5, OneMore
<1>7. QED
  BY <1>1, <1>3, <1>5, <1>6, SizesAssumption DEF Limited

LEMMA LimitedInit == Init => Limited
<1> SUFFICES ASSUME Init PROVE Limited
  OBVIOUS
<1>1. chunks = {} /\ Calling = {}
  <2>1. fleet \in SUBSET Devices /\ chunks = {} /\ task = [d \in Devices |-> Fresh]
    BY TargetsAssumption DEF Init
  <2>2. \A d \in fleet : task[d].at = "waiting"
    BY <2>1 DEF Fresh
  <2>3. QED
    BY <2>1, <2>2 DEF Calling
<1>2. Cardinality(Calling) = 0
  BY <1>1, FS_EmptySet
<1>3. QED
  BY <1>1, <1>2, SizesAssumption DEF Limited

LEMMA LimitedNext == Shape /\ Shape' /\ Turns /\ Limited /\ [Next]_vars => Limited'
<1> SUFFICES ASSUME Shape, Shape', Turns, Limited, [Next]_vars PROVE Limited'
  OBVIOUS
<1>1. CASE Load \/ Barrier \/ \E d \in UNION chunks : Raises(d)
  <2>1. task' = [d \in Devices |-> Fresh]
    BY <1>1 DEF Load, Barrier, Raises, StartPhase
  <2>2. QED
    BY <2>1, FreshHoldNothing DEF Shape
<1>2. CASE Tick
  <2>1. chunks' = chunks /\ pc' = pc /\ fleet' = fleet
    BY <1>2 DEF Tick
  <2>2. \A d \in Devices : task'[d].at = task[d].at
    <3> SUFFICES ASSUME NEW d \in Devices PROVE task'[d].at = task[d].at
      OBVIOUS
    <3>1. task[d] \in Tasks
      BY DEF Shape
    <3>2. QED
      BY <1>2, <3>1 DEF Tick, Tasks
  <2>3. Calling' = Calling
    BY <2>1, <2>2 DEF Calling, Shape
  <2>4. \A c \in chunks : Holders(c)' = Holders(c)
    BY <2>2 DEF Holders, Shape
  <2>5. QED
    BY <2>1, <2>3, <2>4 DEF Limited
<1>3. ASSUME NEW d, NEW at, NEW t \in Tasks, Step(d, at, t),
             t.at \in Holding => at \in Holding, t.at # "calling"
      PROVE  Limited'
  BY <1>3, HoldersShrink, CallingShrinks DEF Limited
<1>4. ASSUME NEW d, NEW at, NEW t, Step(d, at, t)
      PROVE  d \in Devices /\ task'[d] = t /\ t \in Tasks /\ task[d].at = at
  BY <1>4 DEF Step, Shape
<1>5. ASSUME NEW d, Ping(d) PROVE Limited'
  <2>1. CASE Acquire(d)
    BY <2>1, AcquireLimited
  <2>2. CASE PingAnswered(d)
    <3>1. Step(d, "pinging", [Fresh EXCEPT !.at = "done"])
      BY <2>2 DEF PingAnswered
    <3>2. [Fresh EXCEPT !.at = "done"] \in Tasks /\ [Fresh EXCEPT !.at = "done"].at = "done"
      BY TaskAt, FreshType DEF States
    <3>3. QED
      BY <3>1, <3>2, <1>3 DEF Holding
  <2>3. CASE PingFails(d)
    <3>1. PICK t : Step(d, "pinging", t) /\ t.at \in {"sleeping", "done"}
      <4> DEFINE failed == task[d].calls + 1
      <4>1. CASE failed < PingAttempts
        <5>1. PICK wait \in Backoff(task[d].calls) :
                Step(d, "pinging", [at |-> "sleeping", calls |-> failed, timer |-> wait])
          BY <2>3, <4>1 DEF PingFails
        <5>2. QED
          BY <5>1
      <4>2. CASE ~(failed < PingAttempts)
        BY <2>3, <4>2 DEF PingFails
      <4>3. QED
        BY <4>1, <4>2
    <3>2. t \in Tasks
      BY <3>1, <1>4
    <3>3. QED
      BY <3>1, <3>2, <1>3 DEF Holding
  <2>4. CASE WakeUp(d)
    <3>1. Step(d, "sleeping", [task[d] EXCEPT !.at = "waiting"]) /\ task[d] \in Tasks
      BY <2>4 DEF WakeUp, Step, Shape
    <3>2. /\ [task[d] EXCEPT !.at = "waiting"] \in Tasks
          /\ [task[d] EXCEPT !.at = "waiting"].at = "waiting"
      BY <3>1, TaskAt DEF States
    <3>3. QED
      BY <3>1, <3>2, <1>3 DEF Holding
  <2>5. QED
    BY <1>5, <2>1, <2>2, <2>3, <2>4 DEF Ping
<1>6. ASSUME NEW d, Call(d) PROVE Limited'
  <2>1. CASE Run(d)
    BY <2>1, RunLimited
  <2>2. CASE \E ok \in BOOLEAN : Probe(d, ok)
    <3>1. PICK t : Step(d, "calling", t) /\ t.at \in {"queued", "done"}
      <4>1. PICK ok \in BOOLEAN : Probe(d, ok)
        BY <2>2
      <4> DEFINE t == [at |-> IF ok THEN "queued" ELSE "done", calls |-> 1, timer |-> 0]
      <4>2. Step(d, "calling", t)
        BY <4>1 DEF Probe
      <4>3. t.at \in {"queued", "done"}
        OBVIOUS
      <4>4. QED
        BY <4>2, <4>3
    <3>2. t \in Tasks
      BY <3>1, <1>4
    <3>3. QED
      BY <3>1, <3>2, <1>3 DEF Holding
  <2>3. CASE (\E ok \in BOOLEAN : Describe(d, ok)) \/ SkipQuery(d) \/ Query(d) \/ Walks(d)
    <3>1. PICK at : Step(d, at, [task[d] EXCEPT !.at = "done"])
      BY <2>3 DEF Describe, SkipQuery, Query, Walks
    <3>2. task[d] \in Tasks
      BY <3>1 DEF Step, Shape
    <3>3. /\ [task[d] EXCEPT !.at = "done"] \in Tasks
          /\ [task[d] EXCEPT !.at = "done"].at = "done"
      BY <3>2, TaskAt DEF States
    <3>4. QED
      BY <3>1, <3>3, <1>3 DEF Holding
  <2>4. QED
    BY <1>6, <2>1, <2>2, <2>3 DEF Call
<1>7. CASE UNCHANGED vars
  BY <1>7 DEF Limited, Holders, Calling, vars
<1>8. QED
  BY <1>1, <1>2, <1>5, <1>6, <1>7 DEF Next, Work

(* Every client keeps to its own semaphores, and all of them to the pool:  *)
(* collect_ping, collect_snmp_* under asyncio.Semaphore, and               *)
(* loop.set_default_executor.                                              *)
THEOREM LimitsAreKept == Spec => []LimitsHold
<1>1. Shape /\ Limited => LimitsHold
  <2> SUFFICES ASSUME Shape, Limited, NEW c \in chunks PROVE Busy \cap c = Holders(c)
    BY DEF LimitsHold, Limited
  <2>1. QED
    BY DEF Busy, Holders, Holding, Shape
<1>2. QED
  BY <1>1, ShapeInit, ShapeNext, LimitedInit, LimitedNext, PTL DEF Spec

(* A host is given up after the last attempt and not before: _ping_posix.  *)
THEOREM DownHostsWereTried == Spec => []DownMeansTried
<1>1. Shape /\ Turns => DownMeansTried
  BY Attempts DEF Turns, InTurn, DownMeansTried
<1>2. QED
  BY <1>1, ShapeAlways, PTL

(* Time passes for a waiting host only while its client pings as many      *)
(* others as it may: the semaphore is not held during asyncio.sleep.       *)
THEOREM NoPermitIsIdle == Spec => PermitsAreUsed
<1> DEFINE Idle == clock' > clock =>
        \A c \in chunks :
            (\E d \in c : task[d].at = "waiting") =>
                Cardinality({d \in c : task[d].at = "pinging"}) >= PingConcurrency
<1>1. ASSUME Shape, Turns, Tick PROVE Idle
  <2> SUFFICES ASSUME NEW c \in chunks, NEW d \in c, task[d].at = "waiting"
               PROVE  Cardinality({e \in c : task[e].at = "pinging"}) >= PingConcurrency
    OBVIOUS
  <2>1. pc = "ping" /\ d \in fleet /\ ~Due(d)
    BY <1>1 DEF Tick, Shape
  <2>2. Chunk(d) = c
    BY <1>1, ChunkOf
  <2>3. ~(Cardinality(Holders(c)) < Permits(pc))
    BY <2>1, <2>2 DEF Due, HasPermit
  <2>4. Permits(pc) = PingConcurrency /\ PingConcurrency \in Nat
    BY <2>1, SizesAssumption DEF Permits
  <2>5. Holders(c) = {e \in c : task[e].at = "pinging"}
    BY <1>1, <2>1 DEF Holders, Holding, Turns, InTurn
  <2>6. Cardinality(Holders(c)) \in Nat
    BY <1>1, HoldersAreFinite
  <2>7. QED
    BY <2>3, <2>4, <2>5, <2>6
<1>2. ASSUME Shape, Next, ~Tick PROVE ~(clock' > clock)
  <2>1. clock' = clock \/ clock' = 0
    <3>1. CASE Load \/ Barrier \/ \E d \in UNION chunks : Raises(d)
      BY <3>1 DEF Load, Barrier, Raises
    <3>2. ASSUME NEW d, Ping(d) \/ Call(d) PROVE clock' = clock
      BY <3>2 DEF Ping, Call, Acquire, PingAnswered, PingFails, WakeUp, Run, Probe, Describe,
                  SkipQuery, Query, Walks, Step
    <3>3. QED
      BY <1>2, <3>1, <3>2 DEF Next, Work
  <2>2. clock \in Nat
    BY <1>2 DEF Shape
  <2>3. QED
    BY <2>1, <2>2
<1>3. ASSUME Shape, UNCHANGED vars PROVE ~(clock' > clock)
  BY <1>3 DEF vars, Shape
<1>4. Shape /\ Turns /\ [Next]_vars => [Idle]_vars
  BY <1>1, <1>2, <1>3
<1>5. QED
  BY <1>4, ShapeAlways, PTL DEF Spec, PermitsAreUsed

-----------------------------------------------------------------------------
(* The time the pings take.                                                *)

\* The longest the attempts of a host with task t can have taken.
Used(t) ==
    IF t.at = "done" THEN PingAttempts * Deadline
    ELSE t.calls * Deadline + (IF t.at = "pinging" THEN t.timer ELSE 0)

\* The longest it can have been since the pings began, waiting left out.
Own(t) ==
    Used(t) + Cardinality(LongestBackoffs(t.calls)) - (IF t.at = "sleeping" THEN t.timer ELSE 0)

\* What the other hosts of chunk c can have used, unit by unit.
Spent(c, d) ==
    {unit \in (c \ {d}) \X (1 .. PingAttempts * Deadline) : unit[2] <= Used(task[unit[1]])}

OnTime(t) ==
    /\ t.at = "waiting" => t.timer = 0
    /\ t.at = "pinging" => t.timer <= Deadline

(* While a host waits, its client pings as many others as it may: what it  *)
(* has not used itself, the others have used, PingConcurrency at a time.   *)
Budget ==
    /\ pc = "idle" => clock = 0
    /\ pc = "ping" =>
        /\ \A d \in UNION chunks : OnTime(task[d])
        /\ \A c \in chunks : \A d \in c : task[d].at # "done" =>
            PingConcurrency * clock <=
                PingConcurrency * Own(task[d]) + Cardinality(Spent(c, d))

LEMMA Smaller == \A a, b, n \in Nat : a <= b => a * n <= b * n
OBVIOUS

LEMMA OneMoreTime == \A a, n \in Nat : a * n \in Nat /\ (a + 1) * n = a * n + n
OBVIOUS

LEMMA Grouped == \A a, b, n \in Nat : a * (b * n) = (a * b) * n
OBVIOUS

LEMMA Divided ==
    ASSUME NEW w \in Nat, NEW n \in Nat \ {0}, NEW x \in Int, n * x <= w
    PROVE  x <= w \div n
OBVIOUS

LEMMA Durations ==
    /\ Deadline \in Nat /\ Deadline = PingTimeout + ProcessMargin
    /\ PingAttempts * Deadline \in Nat
BY TimesAssumption, Attempts DEF Deadline

LEMMA LongestIs ==
    ASSUME NEW i \in Nat
    PROVE  /\ Least(PingBackoff * 2 ^ i, PingBackoffMax) + PingJitter \in Int
           /\ Least(PingBackoff * 2 ^ i, PingBackoffMax) + PingJitter <= PingBackoffMax + PingJitter
BY TimesAssumption DEF Least

\* The units of one more backoff.
LEMMA OneMoreBackoff ==
    ASSUME NEW n \in Nat, NEW wait \in Backoff(n)
    PROVE  /\ LongestBackoffs(n) \subseteq LongestBackoffs(n + 1)
           /\ IsFiniteSet(LongestBackoffs(n)) /\ IsFiniteSet(LongestBackoffs(n + 1))
           /\ Cardinality(LongestBackoffs(n)) + wait <= Cardinality(LongestBackoffs(n + 1))
           /\ wait \in Nat
<1> DEFINE most == PingBackoffMax + PingJitter
           units(k) == (0 .. k - 1) \X (1 .. most)
           one == {n} \X (1 .. wait)
<1>1. most \in Nat
  BY TimesAssumption
<1>2. ASSUME NEW k \in Nat PROVE IsFiniteSet(LongestBackoffs(k))
  <2>1. IsFiniteSet(0 .. k - 1) /\ IsFiniteSet(1 .. most)
    BY <1>1, FS_Interval
  <2>2. IsFiniteSet(units(k))
    BY <2>1, FS_Product
  <2>3. LongestBackoffs(k) \subseteq units(k)
    BY DEF LongestBackoffs
  <2>4. QED
    BY <2>2, <2>3, FS_Subset
<1>3. wait \in Nat /\ wait <= most /\ wait <= Least(PingBackoff * 2 ^ n, PingBackoffMax) + PingJitter
  BY <1>1, TimesAssumption, LongestIs DEF Backoff, Least
<1>4. IsFiniteSet(one) /\ Cardinality(one) = wait
  <2>1. IsFiniteSet({n}) /\ Cardinality({n}) = 1
    BY FS_Singleton
  <2>2. IsFiniteSet(1 .. wait) /\ Cardinality(1 .. wait) = wait
    BY <1>3, FS_Interval
  <2>3. IsFiniteSet(one) /\ Cardinality(one) = Cardinality({n}) * Cardinality(1 .. wait)
    BY <2>1, <2>2, FS_Product
  <2> HIDE DEF one
  <2>4. QED
    BY <1>3, <2>1, <2>2, <2>3
<1>5. LongestBackoffs(n) \subseteq LongestBackoffs(n + 1)
  BY DEF LongestBackoffs
<1>6. one \subseteq LongestBackoffs(n + 1)
  <2> SUFFICES ASSUME NEW k \in 1 .. wait PROVE <<n, k>> \in LongestBackoffs(n + 1)
    OBVIOUS
  <2>1. n \in 0 .. (n + 1) - 1 /\ k \in 1 .. PingBackoffMax + PingJitter
    BY <1>1, <1>3
  <2>2. k <= Least(PingBackoff * 2 ^ n, PingBackoffMax) + PingJitter
    BY <1>3, LongestIs
  <2>3. QED
    BY <2>1, <2>2 DEF LongestBackoffs
<1>7. LongestBackoffs(n) \cap one = {}
  BY DEF LongestBackoffs
<1>8. Cardinality(LongestBackoffs(n) \cup one) = Cardinality(LongestBackoffs(n)) + wait
  <2>1. Cardinality(LongestBackoffs(n) \cap one) = 0
    BY <1>7, FS_EmptySet
  <2>2. Cardinality(LongestBackoffs(n)) \in Nat
    BY <1>2, FS_CardinalityType
  <2> HIDE DEF one
  <2>3. Cardinality(LongestBackoffs(n) \cup one)
            = Cardinality(LongestBackoffs(n)) + Cardinality(one)
              - Cardinality(LongestBackoffs(n) \cap one)
    BY <1>2, <1>4, FS_Union
  <2>4. QED
    BY <1>3, <1>4, <2>1, <2>2, <2>3
<1>9. LongestBackoffs(n) \cup one \in SUBSET LongestBackoffs(n + 1)
  BY <1>5, <1>6
<1>10. IsFiniteSet(LongestBackoffs(n)) /\ IsFiniteSet(LongestBackoffs(n + 1))
  BY <1>2
<1>11. QED
  BY <1>3, <1>5, <1>8, <1>9, <1>10, FS_Subset

\* Fewer backoffs take no longer.
LEMMA FewerBackoffs ==
    ASSUME NEW n \in Nat, NEW m \in Nat, n <= m
    PROVE  /\ Cardinality(LongestBackoffs(n)) \in Nat
           /\ Cardinality(LongestBackoffs(n)) <= Cardinality(LongestBackoffs(m))
<1> DEFINE most == PingBackoffMax + PingJitter
           units == (0 .. m - 1) \X (1 .. most)
<1>1. most \in Nat
  BY TimesAssumption
<1>2. IsFiniteSet(0 .. m - 1) /\ IsFiniteSet(1 .. most)
  BY <1>1, FS_Interval
<1>3. IsFiniteSet(units)
  BY <1>2, FS_Product
<1>4. LongestBackoffs(m) \in SUBSET units /\ LongestBackoffs(n) \in SUBSET LongestBackoffs(m)
  BY DEF LongestBackoffs
<1>5. IsFiniteSet(LongestBackoffs(m)) /\ IsFiniteSet(LongestBackoffs(n))
  BY <1>3, <1>4, FS_Subset
<1>6. QED
  BY <1>4, <1>5, FS_Subset, FS_CardinalityType

\* No task has used more than its attempts may take.
LEMMA UsedIs ==
    ASSUME NEW t \in Tasks, OnTime(t), t.at # "done" => t.calls < PingAttempts
    PROVE  /\ Used(t) \in Nat /\ Used(t) <= PingAttempts * Deadline
<1> DEFINE pinging == IF t.at = "pinging" THEN t.timer ELSE 0
<1>1. Deadline \in Nat /\ PingAttempts \in Nat /\ PingAttempts * Deadline \in Nat
  BY Durations, Attempts
<1>2. CASE t.at = "done"
  BY <1>1, <1>2 DEF Used
<1>3. CASE t.at # "done"
  <2>1. t.calls \in Nat /\ t.calls + 1 <= PingAttempts /\ pinging \in Nat /\ pinging <= Deadline
    BY <1>1, <1>3 DEF Tasks, OnTime
  <2>2. Used(t) = t.calls * Deadline + pinging
    BY <1>3 DEF Used
  <2>3. (t.calls + 1) * Deadline <= PingAttempts * Deadline
    BY <1>1, <2>1, Smaller
  <2>4. (t.calls + 1) * Deadline = t.calls * Deadline + Deadline /\ t.calls * Deadline \in Nat
    BY <1>1, <2>1, OneMoreTime
  <2> HIDE DEF pinging
  <2>5. QED
    BY <1>1, <2>1, <2>2, <2>3, <2>4
<1>4. QED
  BY <1>2, <1>3

LEMMA ScaledUp == \A n \in Nat : \A x, y \in Int : x <= y => n * x <= n * y
OBVIOUS

LEMMA OwnIs ==
    ASSUME NEW t \in Tasks, OnTime(t), t.at # "done" => t.calls < PingAttempts
    PROVE  /\ Own(t) \in Int
           /\ t.at # "done" => Own(t) <= LongestAlone
<1> DEFINE asleep == IF t.at = "sleeping" THEN t.timer ELSE 0
           slept == Cardinality(LongestBackoffs(t.calls))
<1>1. t.calls \in Nat /\ asleep \in Nat
  BY Attempts DEF Tasks
<1>2. slept \in Nat
  BY <1>1, FewerBackoffs
<1>3. Own(t) = Used(t) + slept - asleep
  BY DEF Own
<1>4. Used(t) \in Nat /\ Used(t) <= PingAttempts * Deadline
  BY UsedIs
<1>5. Own(t) \in Int
  BY <1>1, <1>2, <1>3, <1>4
<1>6. ASSUME t.at # "done" PROVE Own(t) <= LongestAlone
  <2>1. t.calls <= PingRetries /\ PingRetries \in Nat
    BY <1>1, <1>6, Attempts, TimesAssumption
  <2>2. slept <= Cardinality(LongestBackoffs(PingRetries))
        /\ Cardinality(LongestBackoffs(PingRetries)) \in Nat
    BY <1>1, <2>1, FewerBackoffs
  <2>3. LongestAlone = PingAttempts * Deadline + Cardinality(LongestBackoffs(PingRetries))
        /\ PingAttempts * Deadline \in Nat
    BY Durations, Attempts DEF LongestAlone
  <2> HIDE DEF slept, asleep
  <2>4. QED
    BY <1>1, <1>2, <1>3, <1>4, <2>2, <2>3
<1>7. QED
  BY <1>5, <1>6

\* The others of a chunk have no more than their attempts.
LEMMA OthersHave ==
    ASSUME NEW c \in SUBSET Devices, NEW d \in c
    PROVE  LET all == (c \ {d}) \X (1 .. PingAttempts * Deadline)
           IN  /\ IsFiniteSet(all)
               /\ Cardinality(c) - 1 \in Nat
               /\ Cardinality(all) = (Cardinality(c) - 1) * (PingAttempts * Deadline)
<1> DEFINE units == 1 .. PingAttempts * Deadline
<1>1. IsFiniteSet(c)
  BY FleetIsFinite
<1>2. /\ IsFiniteSet(c \ {d}) /\ Cardinality(c \ {d}) = Cardinality(c) - 1
      /\ Cardinality(c \ {d}) \in Nat
  BY <1>1, FS_RemoveElement, FS_CardinalityType
<1>3. IsFiniteSet(units) /\ Cardinality(units) = PingAttempts * Deadline
  BY Durations, FS_Interval
<1> HIDE DEF units
<1>4. /\ IsFiniteSet((c \ {d}) \X units)
      /\ Cardinality((c \ {d}) \X units) = Cardinality(c \ {d}) * Cardinality(units)
  BY <1>2, <1>3, FS_Product
<1>5. QED
  BY <1>2, <1>3, <1>4 DEF units

\* Of two sets of units spent, the larger has no fewer.
LEMMA MoreSpent ==
    ASSUME NEW c \in SUBSET Devices, NEW d \in c, NEW S, NEW T, S \subseteq T,
           T \subseteq (c \ {d}) \X (1 .. PingAttempts * Deadline)
    PROVE  /\ IsFiniteSet(S) /\ IsFiniteSet(T)
           /\ Cardinality(S) \in Nat /\ Cardinality(T) \in Nat
           /\ Cardinality(S) <= Cardinality(T)
<1>1. IsFiniteSet((c \ {d}) \X (1 .. PingAttempts * Deadline))
  BY OthersHave
<1>2. IsFiniteSet(T)
  BY <1>1, FS_Subset
<1>3. IsFiniteSet(S) /\ Cardinality(S) <= Cardinality(T)
  BY <1>2, FS_Subset
<1>4. QED
  BY <1>2, <1>3, FS_CardinalityType

\* The hosts of a chunk are in turn and on time.
LEMMA Regular ==
    ASSUME Shape, Turns, Budget, pc = "ping", NEW c \in chunks, NEW e \in c
    PROVE  /\ c \in SUBSET Devices /\ e \in Devices /\ e \in fleet
           /\ task[e] \in Tasks /\ OnTime(task[e])
           /\ task[e].at # "done" => task[e].calls < PingAttempts
           /\ task[e].at \notin {"queued", "calling"}
           /\ Used(task[e]) \in Nat /\ Own(task[e]) \in Int
<1>1. /\ c \in SUBSET Devices /\ e \in Devices /\ e \in fleet /\ task[e] \in Tasks
  BY DEF Shape
<1>2. OnTime(task[e])
  BY <1>1 DEF Budget
<1>3. /\ task[e].at # "done" => task[e].calls < PingAttempts
      /\ task[e].at \notin {"queued", "calling"}
  BY DEF Turns, InTurn
<1>4. QED
  BY <1>1, <1>2, <1>3, UsedIs, OwnIs

\* A host that goes on, and neither gains on what it has used nor on time.
LEMMA StepKeepsBudget ==
    ASSUME Shape, Turns, Budget, pc = "ping", NEW d, NEW at, NEW t \in Tasks, Step(d, at, t),
           OnTime(t), t.at # "done" => t.calls < PingAttempts,
           Used(task[d]) <= Used(t),
           t.at # "done" => at # "done" /\ Own(task[d]) <= Own(t)
    PROVE  Budget'
<1>1. /\ d \in fleet /\ task[d].at = at /\ task'[d] = t
      /\ fleet' = fleet /\ pc' = pc /\ chunks' = chunks /\ clock' = clock
      /\ \A e \in Devices \ {d} : task'[e] = task[e]
  BY StepShape
<1>2. \A e \in UNION chunks : OnTime(task'[e])
  BY <1>1 DEF Budget, Shape
<1>3. ASSUME NEW c \in chunks, NEW e \in c, task'[e].at # "done"
      PROVE  PingConcurrency * clock <=
                PingConcurrency * Own(task'[e]) + Cardinality(Spent(c, e)')
  <2>1. task[e].at # "done" /\ Own(task[e]) <= Own(task'[e]) /\ Own(task'[e]) \in Int
    <3>1. CASE e = d
      BY <1>1, <1>3, <3>1, OwnIs
    <3>2. CASE e # d
      <4>1. task'[e] = task[e] /\ Own(task[e]) \in Int
        BY <1>1, <3>2, Regular DEF Shape
      <4>2. QED
        BY <1>3, <4>1
    <3>3. QED
      BY <3>1, <3>2
  <2>2. Spent(c, e) \subseteq Spent(c, e)'
    <3> SUFFICES ASSUME NEW unit \in Spent(c, e) PROVE unit[2] <= Used(task'[unit[1]])
      BY DEF Spent
    <3>1. /\ unit[1] \in c /\ unit[1] \in Devices /\ unit[2] \in Int
          /\ unit[2] <= Used(task[unit[1]]) /\ Used(task[unit[1]]) \in Int
      BY Regular DEF Spent
    <3>2. CASE unit[1] = d
      <4>1. Used(t) \in Int
        BY UsedIs
      <4>2. QED
        BY <1>1, <3>1, <3>2, <4>1
    <3>3. CASE unit[1] # d
      BY <1>1, <3>1, <3>3
    <3>4. QED
      BY <3>2, <3>3
  <2>3. Spent(c, e)' \subseteq (c \ {e}) \X (1 .. PingAttempts * Deadline)
    BY DEF Spent
  <2>4. /\ Cardinality(Spent(c, e)) \in Nat /\ Cardinality(Spent(c, e)') \in Nat
        /\ Cardinality(Spent(c, e)) <= Cardinality(Spent(c, e)')
    BY <2>2, <2>3, Regular, MoreSpent
  <2>5. PingConcurrency * Own(task[e]) <= PingConcurrency * Own(task'[e])
    BY <2>1, Regular, ScaledUp, SizesAssumption
  <2>6. PingConcurrency * clock <= PingConcurrency * Own(task[e]) + Cardinality(Spent(c, e))
    BY <2>1 DEF Budget
  <2>7. /\ PingConcurrency * clock \in Int /\ PingConcurrency * Own(task[e]) \in Int
        /\ PingConcurrency * Own(task'[e]) \in Int
    BY <2>1, Regular, SizesAssumption DEF Shape
  <2>8. QED
    BY <2>4, <2>5, <2>6, <2>7
<1>4. QED
  BY <1>1, <1>2, <1>3 DEF Budget

LEMMA AcquireBudget ==
    ASSUME Shape, Turns, Budget, pc = "ping", NEW d, Acquire(d)
    PROVE  Budget'
<1> DEFINE t == [task[d] EXCEPT !.at = "pinging"]
<1>1. Step(d, "waiting", t)
  BY DEF Acquire
<1>2. PICK c \in chunks : d \in c
  BY <1>1 DEF Step
<1>3. /\ task[d] \in Tasks /\ task[d].at = "waiting" /\ OnTime(task[d])
      /\ task[d].calls < PingAttempts /\ Used(task[d]) \in Nat /\ Own(task[d]) \in Int
  BY <1>1, <1>2, Regular DEF Step
<1>4. /\ t \in Tasks /\ t.at = "pinging" /\ t.calls = task[d].calls /\ t.timer = task[d].timer
  BY <1>3 DEF Tasks, States
<1> HIDE DEF t
<1>5. t.timer = 0 /\ OnTime(t)
  BY <1>3, <1>4, Durations DEF OnTime
<1>6. t.calls \in Nat /\ Deadline \in Nat /\ t.calls * Deadline \in Nat
  BY <1>4, Durations, Attempts, OneMoreTime DEF Tasks
<1>7. Used(t) = Used(task[d]) /\ Own(t) = Own(task[d])
  BY <1>3, <1>4, <1>5, <1>6 DEF Used, Own
<1>8. QED
  BY <1>1, <1>3, <1>4, <1>5, <1>7, StepKeepsBudget

LEMMA WakeUpBudget ==
    ASSUME Shape, Turns, Budget, pc = "ping", NEW d, WakeUp(d)
    PROVE  Budget'
<1> DEFINE t == [task[d] EXCEPT !.at = "waiting"]
<1>1. Step(d, "sleeping", t) /\ task[d].timer = 0
  BY DEF WakeUp
<1>2. PICK c \in chunks : d \in c
  BY <1>1 DEF Step
<1>3. /\ task[d] \in Tasks /\ task[d].at = "sleeping"
      /\ task[d].calls < PingAttempts /\ Used(task[d]) \in Nat /\ Own(task[d]) \in Int
  BY <1>1, <1>2, Regular DEF Step
<1>4. t \in Tasks /\ t.at = "waiting" /\ t.calls = task[d].calls /\ t.timer = 0
  BY <1>1, <1>3 DEF Tasks, States
<1> HIDE DEF t
<1>5. OnTime(t)
  BY <1>4 DEF OnTime
<1>6. Used(t) = Used(task[d]) /\ Own(t) = Own(task[d])
  BY <1>1, <1>3, <1>4 DEF Used, Own
<1>7. QED
  BY <1>1, <1>3, <1>4, <1>5, <1>6, StepKeepsBudget

\* A host that is done counts with all its attempts.
LEMMA DoneBudget ==
    ASSUME Shape, Turns, Budget, pc = "ping", NEW d, NEW t \in Tasks, t.at = "done",
           Step(d, "pinging", t)
    PROVE  Budget'
<1>1. PICK c \in chunks : d \in c
  BY DEF Step
<1>2. Used(task[d]) <= PingAttempts * Deadline
  BY <1>1, Regular, UsedIs
<1>3. Used(t) = PingAttempts * Deadline /\ OnTime(t)
  BY DEF Used, OnTime
<1>4. QED
  BY <1>2, <1>3, StepKeepsBudget

LEMMA PingFailsBudget ==
    ASSUME Shape, Turns, Budget, pc = "ping", NEW d, PingFails(d)
    PROVE  Budget'
<1> DEFINE failed == task[d].calls + 1
<1>1. d \in UNION chunks /\ task[d].at = "pinging"
  BY DEF PingFails, Step
<1>2. PICK c \in chunks : d \in c
  BY <1>1
<1>3. /\ task[d] \in Tasks /\ task[d].calls < PingAttempts /\ OnTime(task[d])
      /\ Used(task[d]) \in Nat /\ Own(task[d]) \in Int
  BY <1>1, <1>2, Regular
<1>4. /\ task[d].calls \in Nat /\ task[d].timer \in Nat /\ task[d].timer <= Deadline
      /\ Deadline \in Nat /\ failed \in 0 .. PingAttempts
      /\ task[d].calls * Deadline \in Nat /\ failed * Deadline = task[d].calls * Deadline + Deadline
  BY <1>1, <1>3, Durations, Attempts, OneMoreTime DEF Tasks, OnTime
<1>5. CASE failed < PingAttempts
  <2>1. PICK wait \in Backoff(task[d].calls) :
          Step(d, "pinging", [at |-> "sleeping", calls |-> failed, timer |-> wait])
    BY <1>5 DEF PingFails
  <2> DEFINE t == [at |-> "sleeping", calls |-> failed, timer |-> wait]
             before == Cardinality(LongestBackoffs(task[d].calls))
             after == Cardinality(LongestBackoffs(failed))
  <2>2. before + wait <= after /\ wait \in Nat
    BY <1>4, OneMoreBackoff
  <2>3. before \in Nat /\ after \in Nat
    BY <1>4, FewerBackoffs
  <2>4. t \in Tasks /\ t.at = "sleeping" /\ t.calls = failed /\ t.timer = wait /\ OnTime(t)
    BY <1>4, <2>2 DEF Tasks, States, OnTime
  <2>5. Used(t) = failed * Deadline /\ Own(t) = failed * Deadline + after - wait
    <3>1. failed * Deadline \in Nat
      BY <1>4
    <3> HIDE DEF t, failed
    <3>2. QED
      BY <2>2, <2>3, <2>4, <3>1 DEF Used, Own
  <2>6. /\ Used(task[d]) = task[d].calls * Deadline + task[d].timer
        /\ Own(task[d]) = task[d].calls * Deadline + task[d].timer + before
    BY <1>1, <1>4, <2>3 DEF Used, Own
  <2>7. Step(d, "pinging", t)
    BY <2>1
  <2> HIDE DEF t, before, after, failed
  <2>8. Used(task[d]) <= Used(t) /\ Own(task[d]) <= Own(t)
    BY <1>4, <2>2, <2>3, <2>5, <2>6
  <2>9. QED
    BY <1>5, <2>4, <2>7, <2>8, StepKeepsBudget
<1>6. CASE ~(failed < PingAttempts)
  <2> DEFINE t == [at |-> "done", calls |-> failed, timer |-> 0]
  <2>1. Step(d, "pinging", t)
    BY <1>6 DEF PingFails
  <2>2. t \in Tasks /\ t.at = "done"
    BY <1>4 DEF Tasks, States
  <2> HIDE DEF t
  <2>3. QED
    BY <2>1, <2>2, DoneBudget
<1>7. QED
  BY <1>5, <1>6

\* Time passes for the hosts that are pinged or asleep.
LEMMA TickTask ==
    ASSUME Shape, Turns, Budget, Tick, NEW c \in chunks, NEW e \in c
    PROVE  /\ task'[e].at = task[e].at /\ OnTime(task'[e])
           /\ Used(task'[e]) = Used(task[e]) + (IF task[e].at = "pinging" THEN 1 ELSE 0)
           /\ task[e].at = "waiting" => Own(task'[e]) = Own(task[e])
           /\ task[e].at \in {"pinging", "sleeping"} => Own(task'[e]) = Own(task[e]) + 1
<1>1. pc = "ping"
  BY DEF Tick
<1>2. /\ e \in Devices /\ task[e] \in Tasks /\ OnTime(task[e]) /\ ~Due(e)
      /\ Used(task[e]) \in Nat /\ Own(task[e]) \in Int
  BY <1>1, Regular DEF Tick
<1>3. /\ task[e].calls \in Nat /\ task[e].timer \in Nat /\ Deadline \in Nat
      /\ task[e].calls * Deadline \in Nat /\ Cardinality(LongestBackoffs(task[e].calls)) \in Nat
  BY <1>2, Durations, Attempts, OneMoreTime, FewerBackoffs DEF Tasks
<1>4. CASE task[e].at = "pinging"
  <2>1. task[e].timer # Deadline
    BY <1>2, <1>4 DEF Due
  <2>2. task'[e] = [task[e] EXCEPT !.timer = @ + 1]
    BY <1>2, <1>4 DEF Tick
  <2>3. /\ task'[e].at = "pinging" /\ task'[e].calls = task[e].calls
        /\ task'[e].timer = task[e].timer + 1
    BY <1>2, <1>4, <2>2 DEF Tasks
  <2>4. OnTime(task'[e])
    BY <1>2, <1>3, <1>4, <2>1, <2>3 DEF OnTime
  <2>5. QED
    BY <1>3, <1>4, <2>3, <2>4 DEF Used, Own
<1>5. CASE task[e].at = "sleeping"
  <2>1. task[e].timer # 0
    BY <1>2, <1>5 DEF Due
  <2>2. task'[e] = [task[e] EXCEPT !.timer = @ - 1]
    BY <1>2, <1>5 DEF Tick
  <2>3. /\ task'[e].at = "sleeping" /\ task'[e].calls = task[e].calls
        /\ task'[e].timer = task[e].timer - 1
    BY <1>2, <1>5, <2>2 DEF Tasks
  <2>4. QED
    BY <1>3, <1>5, <2>3 DEF Used, Own, OnTime
<1>6. CASE task[e].at \notin {"pinging", "sleeping"}
  <2>1. task'[e] = task[e]
    BY <1>2, <1>6 DEF Tick
  <2>2. QED
    BY <1>2, <1>6, <2>1
<1>7. QED
  BY <1>4, <1>5, <1>6

\* No time that was used is lost.
LEMMA TickSpends ==
    ASSUME Shape, Turns, Budget, Tick, NEW c \in chunks, NEW d \in c
    PROVE  Spent(c, d) \subseteq Spent(c, d)'
<1> SUFFICES ASSUME NEW unit \in Spent(c, d) PROVE unit[2] <= Used(task'[unit[1]])
  BY DEF Spent
<1>1. pc = "ping"
  BY DEF Tick
<1>2. /\ unit[1] \in c /\ unit[2] \in Int
      /\ unit[2] <= Used(task[unit[1]]) /\ Used(task[unit[1]]) \in Int
  BY <1>1, Regular DEF Spent
<1>3. Used(task'[unit[1]]) = Used(task[unit[1]]) \/ Used(task'[unit[1]]) = Used(task[unit[1]]) + 1
  BY <1>2, TickTask
<1>4. QED
  BY <1>2, <1>3

\* While a host waits, others of its chunk use a unit of time for each permit.
LEMMA OthersUse ==
    ASSUME Shape, Turns, Budget, Tick, NEW c \in chunks, NEW d \in c, task[d].at = "waiting"
    PROVE  Cardinality(Spent(c, d)) + PingConcurrency <= Cardinality(Spent(c, d)')
<1> DEFINE used == [e \in Holders(c) |-> <<e, Used(task[e]) + 1>>]
           new == {used[e] : e \in Holders(c)}
<1>1. pc = "ping" /\ d \in fleet /\ ~Due(d) /\ Chunk(d) = c
  BY ChunkOf DEF Tick, Shape
<1>2. /\ Cardinality(Holders(c)) \in Nat /\ Cardinality(Holders(c)) >= PingConcurrency
      /\ PingConcurrency \in Nat
  <2>1. ~(Cardinality(Holders(c)) < Permits(pc))
    BY <1>1 DEF Due, HasPermit
  <2>2. Permits(pc) = PingConcurrency /\ PingConcurrency \in Nat
    BY <1>1, SizesAssumption DEF Permits
  <2>3. QED
    BY <2>1, <2>2, HoldersAreFinite
<1>3. ASSUME NEW e \in Holders(c)
      PROVE  /\ e \in c \ {d} /\ Used(task[e]) \in Nat
             /\ Used(task'[e]) = Used(task[e]) + 1
             /\ Used(task'[e]) \in Nat /\ Used(task'[e]) <= PingAttempts * Deadline
  <2>1. e \in c /\ task[e].at = "pinging" /\ e # d
    BY <1>1, Regular DEF Holders, Holding
  <2>2. /\ Used(task[e]) \in Nat /\ task[e].calls < PingAttempts
        /\ Used(task'[e]) = Used(task[e]) + 1 /\ task'[e].at = "pinging" /\ OnTime(task'[e])
    BY <1>1, <2>1, Regular, TickTask
  <2>3. task'[e] \in Tasks /\ task'[e].calls < PingAttempts
    BY <1>1, <2>1, Regular, TickShape DEF Shape, Turns, InTurn, Tick
  <2>4. QED
    BY <2>1, <2>2, <2>3, UsedIs
<1>4. new \subseteq Spent(c, d)'
  <2> SUFFICES ASSUME NEW e \in Holders(c) PROVE <<e, Used(task[e]) + 1>> \in Spent(c, d)'
    OBVIOUS
  <2>1. QED
    BY <1>3, Durations DEF Spent
<1>5. Spent(c, d) \subseteq Spent(c, d)'
  BY TickSpends
<1>6. new \cap Spent(c, d) = {}
  <2> SUFFICES ASSUME NEW e \in Holders(c), <<e, Used(task[e]) + 1>> \in Spent(c, d) PROVE FALSE
    OBVIOUS
  <2>1. Used(task[e]) + 1 <= Used(task[e])
    BY DEF Spent
  <2>2. QED
    BY <1>3, <2>1
<1>7. c \in SUBSET Devices
  BY DEF Shape
<1>8. Spent(c, d)' \subseteq (c \ {d}) \X (1 .. PingAttempts * Deadline)
  BY DEF Spent
<1>9. IsFiniteSet(new) /\ IsFiniteSet(Spent(c, d)) /\ IsFiniteSet(Spent(c, d)')
      /\ Cardinality(new) \in Nat /\ Cardinality(Spent(c, d)) \in Nat
      /\ Cardinality(Spent(c, d)') \in Nat
  <2> HIDE DEF new
  <2>1. QED
    BY <1>4, <1>5, <1>7, <1>8, MoreSpent
<1>10. Cardinality(Holders(c)) <= Cardinality(new)
  <2>1. used \in [Holders(c) -> new]
    OBVIOUS
  <2>2. \A e, f \in Holders(c) : used[e] = used[f] => e = f
    OBVIOUS
  <2>3. used \in Injection(Holders(c), new)
    BY <2>1, <2>2 DEF Injection, IsInjective
  <2> HIDE DEF new, used
  <2>4. QED
    BY <1>9, <2>3, FS_Injection
<1>11. Cardinality(new \cup Spent(c, d)) = Cardinality(new) + Cardinality(Spent(c, d))
  <2> HIDE DEF new
  <2>1. Cardinality(new \cap Spent(c, d)) = 0
    BY <1>6, FS_EmptySet
  <2>2. Cardinality(new \cup Spent(c, d))
            = Cardinality(new) + Cardinality(Spent(c, d)) - Cardinality(new \cap Spent(c, d))
    BY <1>9, FS_Union
  <2>3. QED
    BY <1>9, <2>1, <2>2
<1>12. Cardinality(new \cup Spent(c, d)) <= Cardinality(Spent(c, d)')
  <2> HIDE DEF new
  <2>1. new \cup Spent(c, d) \subseteq Spent(c, d)'
    BY <1>4, <1>5
  <2>2. QED
    BY <1>9, <2>1, FS_Subset
<1> HIDE DEF new
<1>13. QED
  BY <1>2, <1>9, <1>10, <1>11, <1>12

LEMMA TickBudget ==
    ASSUME Shape, Turns, Budget, Tick
    PROVE  Budget'
<1>1. pc = "ping" /\ fleet' = fleet /\ pc' = pc /\ chunks' = chunks /\ clock' = clock + 1
  BY DEF Tick
<1>2. \A e \in UNION chunks : OnTime(task'[e])
  BY TickTask
<1>3. ASSUME NEW c \in chunks, NEW d \in c, task'[d].at # "done"
      PROVE  PingConcurrency * (clock + 1) <=
                PingConcurrency * Own(task'[d]) + Cardinality(Spent(c, d)')
  <2>1. /\ task[d].at \in {"waiting", "pinging", "sleeping"} /\ c \in SUBSET Devices
        /\ Own(task[d]) \in Int
    BY <1>1, <1>3, Regular, TickTask DEF Tasks, States
  <2>2. /\ PingConcurrency * clock <= PingConcurrency * Own(task[d]) + Cardinality(Spent(c, d))
        /\ PingConcurrency \in Nat /\ clock \in Nat
    BY <1>1, <2>1, SizesAssumption DEF Budget, Shape
  <2>3. /\ PingConcurrency * (clock + 1) = PingConcurrency * clock + PingConcurrency
        /\ PingConcurrency * (Own(task[d]) + 1) = PingConcurrency * Own(task[d]) + PingConcurrency
        /\ PingConcurrency * clock \in Int /\ PingConcurrency * Own(task[d]) \in Int
    BY <2>1, <2>2
  <2>4. Spent(c, d) \subseteq Spent(c, d)'
    BY TickSpends
  <2>5. /\ Cardinality(Spent(c, d)) \in Nat /\ Cardinality(Spent(c, d)') \in Nat
        /\ Cardinality(Spent(c, d)) <= Cardinality(Spent(c, d)')
    <3>1. Spent(c, d)' \subseteq (c \ {d}) \X (1 .. PingAttempts * Deadline)
      BY DEF Spent
    <3>2. QED
      BY <2>1, <2>4, <3>1, MoreSpent
  <2>6. CASE task[d].at = "waiting"
    <3>1. Own(task'[d]) = Own(task[d])
      BY <2>6, TickTask
    <3>2. Cardinality(Spent(c, d)) + PingConcurrency <= Cardinality(Spent(c, d)')
      BY <2>6, OthersUse
    <3>3. QED
      BY <2>2, <2>3, <2>5, <3>1, <3>2
  <2>7. CASE task[d].at \in {"pinging", "sleeping"}
    <3>1. Own(task'[d]) = Own(task[d]) + 1
      BY <2>7, TickTask
    <3>2. QED
      BY <2>2, <2>3, <2>5, <3>1
  <2>8. QED
    BY <2>1, <2>6, <2>7
<1>4. QED
  BY <1>1, <1>2, <1>3 DEF Budget

LEMMA LoadBudget == ASSUME Shape, Budget, Load PROVE Budget'
<1>1. /\ pc = "idle" /\ pc' = "ping" /\ clock' = clock /\ clock = 0 /\ fleet' = fleet
      /\ StartPhase(fleet) /\ fleet \in SUBSET Devices
  BY DEF Load, Budget, Shape
<1>2. /\ chunks' \in SUBSET SUBSET fleet /\ task' = [d \in Devices |-> Fresh]
  BY <1>1, StartShape
<1>3. /\ Fresh \in Tasks /\ Fresh.at = "waiting" /\ Fresh.timer = 0 /\ Fresh.calls = 0
      /\ OnTime(Fresh)
  BY FreshType DEF Fresh, OnTime
<1>4. Own(Fresh) \in Nat
  <2>1. Cardinality(LongestBackoffs(0)) \in Nat
    BY FewerBackoffs
  <2>2. Deadline \in Nat
    BY Durations
  <2>3. Own(Fresh) = (0 * Deadline + 0) + Cardinality(LongestBackoffs(0)) - 0
    BY <1>3 DEF Own, Used
  <2>4. QED
    BY <2>1, <2>2, <2>3
<1>5. ASSUME NEW c \in chunks', NEW d \in c
      PROVE  /\ task'[d] = Fresh
             /\ PingConcurrency * clock' <=
                    PingConcurrency * Own(task'[d]) + Cardinality(Spent(c, d)')
  <2>1. task'[d] = Fresh /\ c \in SUBSET Devices
    BY <1>1, <1>2
  <2>2. Spent(c, d)' \subseteq (c \ {d}) \X (1 .. PingAttempts * Deadline)
    BY DEF Spent
  <2>3. Cardinality(Spent(c, d)') \in Nat
    BY <2>1, <2>2, MoreSpent
  <2>4. PingConcurrency * 0 = 0 /\ PingConcurrency * Own(Fresh) \in Nat
    BY <1>4, SizesAssumption
  <2>5. QED
    BY <1>1, <2>1, <2>3, <2>4
<1>6. QED
  BY <1>1, <1>3, <1>5 DEF Budget

LEMMA BudgetInit == Init => Budget
BY DEF Init, Budget

LEMMA BudgetNext == Shape /\ Turns /\ Budget /\ [Next]_vars => Budget'
<1> SUFFICES ASSUME Shape, Turns, Budget, [Next]_vars PROVE Budget'
  OBVIOUS
<1>1. ASSUME pc' \notin {"idle", "ping"} PROVE Budget'
  BY <1>1 DEF Budget
<1>2. CASE Barrier \/ \E d \in UNION chunks : Raises(d)
  BY <1>1, <1>2 DEF Barrier, Raises, NextPhase, Phases
<1>3. ASSUME NEW d, Ping(d), pc = "ping" PROVE Budget'
  <2>1. CASE PingAnswered(d)
    <3>1. Step(d, "pinging", [Fresh EXCEPT !.at = "done"])
      BY <2>1 DEF PingAnswered
    <3>2. [Fresh EXCEPT !.at = "done"] \in Tasks /\ [Fresh EXCEPT !.at = "done"].at = "done"
      BY TaskAt, FreshType DEF States
    <3>3. QED
      BY <1>3, <3>1, <3>2, DoneBudget
  <2>2. QED
    BY <1>3, <2>1, AcquireBudget, PingFailsBudget, WakeUpBudget DEF Ping
<1>4. ASSUME NEW d, Ping(d) \/ Call(d) PROVE pc' = pc /\ pc \in Phases
  BY <1>4 DEF Ping, Call, Acquire, PingAnswered, PingFails, WakeUp, Run, Probe, Describe,
              SkipQuery, Query, Walks, Step
<1>5. ASSUME NEW d \in UNION chunks, Call(d) PROVE pc # "ping"
  <2>1. task[d].at \in {"queued", "calling"} \/ pc # "ping"
    BY <1>5 DEF Call, Run, Probe, Describe, SkipQuery, Query, Walks, Step
  <2>2. QED
    BY <2>1 DEF Turns, InTurn
<1>6. ASSUME NEW d \in UNION chunks, Ping(d) \/ Call(d) PROVE Budget'
  BY <1>1, <1>3, <1>4, <1>5, <1>6 DEF Phases
<1>7. CASE UNCHANGED vars
  <2>1. pc' = pc /\ clock' = clock /\ chunks' = chunks /\ task' = task
    BY <1>7 DEF vars
  <2>2. ASSUME NEW c, NEW d PROVE Spent(c, d)' = Spent(c, d)
    BY <2>1 DEF Spent
  <2>3. QED
    BY <2>1, <2>2 DEF Budget
<1>8. QED
  BY <1>2, <1>6, <1>7, LoadBudget, TickBudget DEF Next, Work

LEMMA BudgetAlways == Spec => []Budget
BY ShapeAlways, BudgetInit, BudgetNext, PTL DEF Spec

(* The pings of a chunk take no longer than one host's own attempts and    *)
(* backoffs and its share of the others' attempts, whatever answers,       *)
(* backoffs and limits there are (_ping_with_retry under the semaphore).   *)
THEOREM PingsEndInTime == Spec => []PingBudget
<1>1. ASSUME Shape, Turns, Budget PROVE PingBudget
  <2> SUFFICES ASSUME pc = "ping", NEW c \in chunks, NEW d \in c, task[d].at # "done"
               PROVE  clock <= LongestAlone + LongestWait(c)
    BY DEF PingBudget, Done
  <2> DEFINE all == (Cardinality(c) - 1) * (PingAttempts * Deadline)
             left == clock - LongestAlone
  <2>1. /\ c \in SUBSET Devices /\ task[d] \in Tasks /\ OnTime(task[d])
        /\ task[d].calls < PingAttempts
    BY <1>1, Regular
  <2>2. Own(task[d]) \in Int /\ Own(task[d]) <= LongestAlone
    BY <2>1, OwnIs
  <2>3. PingConcurrency * clock <= PingConcurrency * Own(task[d]) + Cardinality(Spent(c, d))
    BY <1>1 DEF Budget
  <2>4. Cardinality(Spent(c, d)) \in Nat /\ Cardinality(Spent(c, d)) <= all /\ all \in Nat
    <3>1. Spent(c, d) \subseteq (c \ {d}) \X (1 .. PingAttempts * Deadline)
      BY DEF Spent
    <3> DEFINE units == (c \ {d}) \X (1 .. PingAttempts * Deadline)
    <3>2. Cardinality(units) = all /\ IsFiniteSet(units)
      BY <2>1, OthersHave
    <3> HIDE DEF units
    <3>3. Cardinality(Spent(c, d)) <= Cardinality(units) /\ IsFiniteSet(Spent(c, d))
      BY <3>1, <3>2, FS_Subset DEF units
    <3> HIDE DEF all
    <3>4. QED
      BY <3>2, <3>3, FS_CardinalityType
  <2>5. /\ LongestAlone \in Nat /\ PingConcurrency \in Nat \ {0} /\ clock \in Nat
    <3>1. PingRetries \in Nat /\ Cardinality(LongestBackoffs(PingRetries)) \in Nat
      BY TimesAssumption, FewerBackoffs
    <3>2. LongestAlone = PingAttempts * Deadline + Cardinality(LongestBackoffs(PingRetries))
      BY Durations, Attempts DEF LongestAlone
    <3>3. QED
      BY <1>1, <3>1, <3>2, Durations, SizesAssumption DEF Shape
  <2>6. PingConcurrency * Own(task[d]) <= PingConcurrency * LongestAlone
    BY <2>2, <2>5, ScaledUp
  <2> HIDE DEF all
  <2>7. PingConcurrency * left <= all /\ left \in Int
    <3>1. PingConcurrency * left = PingConcurrency * clock - PingConcurrency * LongestAlone
          /\ left \in Int
      BY <2>5
    <3>2. /\ PingConcurrency * clock \in Int /\ PingConcurrency * LongestAlone \in Int
          /\ PingConcurrency * Own(task[d]) \in Int
      BY <2>2, <2>5
    <3> HIDE DEF left
    <3>3. QED
      BY <2>3, <2>4, <2>6, <3>1, <3>2
  <2>8. left <= all \div PingConcurrency
    BY <2>4, <2>5, <2>7, Divided
  <2>9. LongestWait(c) = all \div PingConcurrency /\ all \div PingConcurrency \in Int
    <3> DEFINE others == Cardinality(c) - 1
    <3>1. others \in Nat
      BY <2>1, OthersHave
    <3>2. all = others * (PingAttempts * Deadline)
      BY DEF all
    <3> HIDE DEF others
    <3>3. all = (others * (PingRetries + 1)) * (PingTimeout + ProcessMargin)
      BY <3>1, <3>2, Attempts, Durations, Grouped
    <3>4. QED
      BY <2>4, <2>5, <3>3 DEF LongestWait, others
  <2>10. QED
    BY <2>5, <2>8, <2>9
<1>2. QED
  BY <1>1, ShapeAlways, BudgetAlways, PTL

-----------------------------------------------------------------------------
(* What the reads bring.                                                   *)

LEMMA Agents ==
    ASSUME NEW d \in Devices
    PROVE  Address[d] \in Addresses /\ IsAgent(AgentAt[Address[d]])
BY TargetsAssumption

LEMMA EmptyTable == \A values : IsTable(<<>>, values) /\ DOMAIN <<>> = {}
BY DEF IsTable

LEMMA AtIs ==
    ASSUME NEW rows, NEW values, IsTable(rows, values), NEW i
    PROVE  At(rows, i) \in values \cup {None}
BY DEF IsTable, At

\* found is what a handler of kind reads of the agent's column: a beginning
\* of its rows, nothing of another vendor's, and everything if not lost.
IsWalk(found, agent, kind, column, lost) ==
    LET rows == agent.table[column]
        own == column \in IfColumns \/ agent.mib = kind
    IN  /\ IsTable(found, Nat)
        /\ DOMAIN found \subseteq DOMAIN rows
        /\ \A i \in DOMAIN found : found[i] = rows[i]
        /\ \A i \in DOMAIN found, j \in DOMAIN rows : j < i => j \in DOMAIN found
        /\ DOMAIN found # {} => own
        /\ column \notin lost /\ own => DOMAIN found = DOMAIN rows

LEMMA WalkIs ==
    ASSUME NEW agent, IsAgent(agent), NEW kind, NEW column \in Columns,
           NEW lost, NEW reach \in Reaches(lost)
    PROVE  IsWalk(Walk(agent, kind, column, reach), agent, kind, column, lost)
<1> DEFINE found == Walk(agent, kind, column, reach)
           rows == agent.table[column]
           all == ColumnOf(agent, kind, column)
<1>1. IsTable(rows, Nat)
  BY DEF IsAgent
<1>2. DOMAIN reach = lost \cap Columns /\ \A c \in DOMAIN reach : reach[c] \in 0 .. MaxIndex
  BY DEF Reaches
<1>3. all = rows \/ (all = <<>> /\ column \notin IfColumns /\ agent.mib # kind)
  BY DEF ColumnOf
<1>4. DOMAIN found = {i \in DOMAIN all : column \in DOMAIN reach => i <= reach[column]}
      /\ \A i \in DOMAIN found : found[i] = all[i]
  BY DEF Walk
<1>5. CASE all = <<>> /\ column \notin IfColumns /\ agent.mib # kind
  <2>1. DOMAIN found = {}
    BY <1>4, <1>5, EmptyTable
  <2>2. IsTable(found, Nat)
    BY <2>1 DEF IsTable, Walk
  <2>3. QED
    BY <1>5, <2>1, <2>2 DEF IsWalk
<1>6. CASE all = rows
  <2>1. DOMAIN rows \subseteq Indices /\ \A i \in DOMAIN rows : rows[i] \in Nat
    BY <1>1 DEF IsTable
  <2>2. IsTable(found, Nat)
    <3>1. found = [i \in DOMAIN found |-> rows[i]]
      BY <1>6 DEF Walk
    <3>2. DOMAIN found \subseteq DOMAIN rows
      BY <1>4, <1>6
    <3> HIDE DEF found, rows
    <3>3. QED
      BY <2>1, <3>1, <3>2 DEF IsTable
  <2>3. \A i \in DOMAIN found, j \in DOMAIN rows : j < i => j \in DOMAIN found
    <3> SUFFICES ASSUME NEW i \in DOMAIN found, NEW j \in DOMAIN rows, j < i,
                        column \in DOMAIN reach
                 PROVE  j <= reach[column]
      BY <1>4, <1>6
    <3>1. i \in Nat /\ j \in Nat /\ i <= reach[column] /\ reach[column] \in Nat
      BY <1>2, <1>4, <1>6, <2>1, MaxIndexAssumption DEF Indices
    <3>2. QED
      BY <3>1
  <2>4. column \notin lost => DOMAIN found = DOMAIN rows
    BY <1>2, <1>4, <1>6
  <2>5. DOMAIN found # {} => column \in IfColumns \/ agent.mib = kind
    BY <1>4, EmptyTable DEF ColumnOf
  <2>6. QED
    BY <1>4, <1>6, <2>2, <2>3, <2>4, <2>5 DEF IsWalk
<1>7. QED
  BY <1>3, <1>5, <1>6

LEMMA InterfacesAre ==
    ASSUME NEW agent, IsAgent(agent), NEW lost, NEW reach \in Reaches(lost)
    PROVE  LET rows == FetchInterfaces(agent, reach)
           IN  /\ IsTable(rows, Interface)
               /\ \A i \in DOMAIN rows :
                    /\ PortInRow(rows[i], agent, i)
                    /\ "ifType" \notin lost => At(agent.table["ifType"], i) # softwareLoopback
<1> DEFINE walk(column) == Walk(agent, "GenericSnmpHandler", column, reach)
           rows == FetchInterfaces(agent, reach)
<1>1. \A column \in IfColumns :
        /\ IsTable(walk(column), Nat)
        /\ DOMAIN walk(column) \subseteq DOMAIN agent.table[column]
        /\ \A i \in DOMAIN walk(column) : walk(column)[i] = agent.table[column][i]
        /\ column \notin lost => DOMAIN walk(column) = DOMAIN agent.table[column]
  <2> SUFFICES ASSUME NEW column \in IfColumns
               PROVE  /\ IsTable(walk(column), Nat)
                      /\ DOMAIN walk(column) \subseteq DOMAIN agent.table[column]
                      /\ \A i \in DOMAIN walk(column) : walk(column)[i] = agent.table[column][i]
                      /\ column \notin lost => DOMAIN walk(column) = DOMAIN agent.table[column]
    OBVIOUS
  <2>1. column \in Columns
    BY DEF Columns
  <2>2. IsWalk(walk(column), agent, "GenericSnmpHandler", column, lost)
    BY <2>1, WalkIs
  <2>3. QED
    BY <2>2 DEF IsWalk
<1>2. {"ifOper", "ifType", "ifCounter"} \subseteq IfColumns /\ "ifDescr" \in IfColumns
  BY DEF IfColumns
<1>3. DOMAIN rows = {i \in DOMAIN walk("ifOper") : At(walk("ifType"), i) # softwareLoopback}
      /\ \A i \in DOMAIN rows : rows[i] = [oper |-> walk("ifOper")[i],
                                          counter |-> At(walk("ifCounter"), i),
                                          descr |-> At(walk("ifDescr"), i)]
  BY DEF FetchInterfaces
<1>4. rows = [i \in DOMAIN rows |-> rows[i]]
  BY DEF FetchInterfaces
<1> HIDE DEF walk, rows
<1>5. \A i \in DOMAIN rows : rows[i] \in Interface
  <2> SUFFICES ASSUME NEW i \in DOMAIN rows PROVE rows[i] \in Interface
    OBVIOUS
  <2>1. walk("ifOper")[i] \in Nat
    BY <1>1, <1>2, <1>3 DEF IsTable
  <2>2. At(walk("ifCounter"), i) \in Nat \cup {None} /\ At(walk("ifDescr"), i) \in Nat \cup {None}
    BY <1>1, <1>2, AtIs
  <2>3. QED
    BY <1>3, <2>1, <2>2 DEF Interface
<1>6. IsTable(rows, Interface)
  <2>1. DOMAIN rows \subseteq Indices
    BY <1>1, <1>2, <1>3 DEF IsTable
  <2>2. QED
    BY <1>4, <1>5, <2>1 DEF IsTable
<1>7. ASSUME NEW i \in DOMAIN rows
      PROVE  /\ PortInRow(rows[i], agent, i)
             /\ "ifType" \notin lost => At(agent.table["ifType"], i) # softwareLoopback
  <2>1. i \in DOMAIN walk("ifOper") /\ At(walk("ifType"), i) # softwareLoopback
    BY <1>3
  <2>2. walk("ifOper")[i] = At(agent.table["ifOper"], i)
    BY <1>1, <1>2, <2>1 DEF At
  <2>3. At(walk("ifCounter"), i) \in {None, At(agent.table["ifCounter"], i)}
    BY <1>1, <1>2 DEF At
  <2>4. At(walk("ifDescr"), i) \in {None, At(agent.table["ifDescr"], i)}
    BY <1>1, <1>2 DEF At
  <2>5. "ifType" \notin lost => At(agent.table["ifType"], i) # softwareLoopback
    BY <1>1, <1>2, <2>1 DEF At
  <2>6. PortInRow(rows[i], agent, i)
    BY <1>3, <2>2, <2>3, <2>4 DEF PortInRow
  <2>7. QED
    BY <2>5, <2>6
<1>8. QED
  BY <1>6, <1>7 DEF rows

LEMMA OutletsAre ==
    ASSUME NEW agent, IsAgent(agent), NEW kind, NEW lost, NEW reach \in Reaches(lost)
    PROVE  LET outlets == FetchOutlets(kind, agent, reach)
           IN  /\ IsTable(outlets, Outlet)
               /\ DOMAIN outlets # {} => agent.mib = kind
               /\ \A i \in DOMAIN outlets :
                    OutletInRow(outlets[i], agent, i)
<1> DEFINE walk(column) == Walk(agent, kind, column, reach)
           outlets == FetchOutlets(kind, agent, reach)
           rows == UNION {DOMAIN walk(column) : column \in OutletColumns}
<1>1. ASSUME NEW column \in OutletColumns
      PROVE  IsWalk(walk(column), agent, kind, column, lost) /\ column \notin IfColumns
  <2>1. column \in Columns /\ column \notin IfColumns
    BY DEF Columns, PduColumns, OutletColumns, IfColumns
  <2>2. QED
    BY <2>1, WalkIs
<1>2. OutletColumns = {"state", "current", "power", "energy"}
  BY DEF OutletColumns
<1>3. \/ outlets = <<>>
      \/ outlets = [i \in rows |-> [state |-> OutletState(kind, At(walk("state"), i)),
                                   current |-> At(walk("current"), i),
                                   power |-> At(walk("power"), i),
                                   energy |-> At(walk("energy"), i)]]
  BY DEF FetchOutlets
<1> HIDE DEF walk
<1>4. \A column \in OutletColumns :
        /\ IsTable(walk(column), Nat)
        /\ DOMAIN walk(column) \subseteq DOMAIN agent.table[column]
        /\ \A i \in DOMAIN walk(column) : walk(column)[i] = agent.table[column][i]
        /\ DOMAIN walk(column) # {} => agent.mib = kind
  BY <1>1 DEF IsWalk
<1>5. CASE outlets = <<>>
  BY <1>5, EmptyTable
<1>6. CASE outlets # <<>>
  <2> DEFINE row(i) == [state |-> OutletState(kind, At(walk("state"), i)),
                        current |-> At(walk("current"), i),
                        power |-> At(walk("power"), i),
                        energy |-> At(walk("energy"), i)]
  <2>1. outlets = [i \in rows |-> row(i)]
    BY <1>3, <1>6
  <2>2. ASSUME NEW i PROVE row(i) \in Outlet
    <3>1. \A column \in OutletColumns : At(walk(column), i) \in Nat \cup {None}
      BY <1>4, AtIs
    <3>2. ASSUME NEW code PROVE OutletState(kind, code) \in 0 .. 2 \cup {None}
      BY DEF OutletState
    <3>3. QED
      BY <1>2, <3>1, <3>2 DEF Outlet
  <2>3. \A i : OutletInRow(row(i), agent, i)
    <3>1. \A i : \A column \in {"current", "power", "energy"} :
             At(walk(column), i) \in {None, At(agent.table[column], i)}
      BY <1>2, <1>4 DEF At
    <3>2. QED
      BY <3>1 DEF OutletInRow
  <2>4. rows \subseteq Indices /\ (rows # {} => agent.mib = kind)
    BY <1>4 DEF IsTable
  <2> HIDE DEF row, rows, outlets
  <2>5. DOMAIN outlets = rows /\ \A i \in rows : outlets[i] = row(i)
    BY <2>1
  <2>6. IsTable(outlets, Outlet)
    BY <2>1, <2>2, <2>4 DEF IsTable
  <2>7. QED
    BY <2>3, <2>4, <2>5, <2>6 DEF outlets
<1>7. QED
  BY <1>5, <1>6

\* found is a temperature for a beginning of the agent's sensors, each by its
\* own scale when no scale was lost.
AreTemperatures(temperature, agent, kind, lost) ==
    /\ IsTable(temperature, Int)
    /\ DOMAIN temperature # {} => agent.mib = kind
    /\ BeginningOf(DOMAIN temperature, DOMAIN agent.table["temp"])
    /\ {"scale", "tempScale"} \cap lost = {} =>
        \A i \in DOMAIN temperature : temperature[i] = Celsius(agent, i)

LEMMA TemperaturesAre ==
    ASSUME NEW agent, IsAgent(agent), NEW kind \in {"Sentry4Pdu", "Sentry3Pdu"},
           NEW lost, NEW reach \in Reaches(lost)
    PROVE  AreTemperatures(FetchTemperatures(kind, agent, lost, reach), agent, kind, lost)
<1> DEFINE raw == Walk(agent, kind, "temp", reach)
           scales == Walk(agent, kind, "tempScale", reach)
           inFahrenheit == Fahrenheit(kind, agent, lost, reach)
           temperature == FetchTemperatures(kind, agent, lost, reach)
<1>1. /\ IsWalk(raw, agent, kind, "temp", lost)
      /\ IsWalk(scales, agent, kind, "tempScale", lost)
      /\ {"temp", "tempScale"} \cap IfColumns = {}
  <2>1. {"temp", "tempScale"} \subseteq Columns /\ {"temp", "tempScale"} \cap IfColumns = {}
    BY DEF Columns, PduColumns, IfColumns
  <2>2. QED
    BY <2>1, WalkIs
<1>2. temperature = [i \in DOMAIN raw |-> IF i \in inFahrenheit THEN ToCelsius(raw[i]) ELSE raw[i]]
  BY DEF FetchTemperatures
<1>3. inFahrenheit = IF kind = "Sentry4Pdu"
                     THEN IF "scale" \notin lost /\ agent.scale = 1 THEN Indices ELSE {}
                     ELSE {i \in Indices : At(scales, i) = 1}
  BY DEF Fahrenheit
<1> HIDE DEF raw, scales, inFahrenheit, temperature
<1>4. /\ DOMAIN temperature = DOMAIN raw
      /\ \A i \in DOMAIN raw :
            temperature[i] = IF i \in inFahrenheit THEN ToCelsius(raw[i]) ELSE raw[i]
  BY <1>2
<1>5. /\ DOMAIN raw \subseteq Indices
      /\ \A i \in DOMAIN raw : raw[i] \in Nat /\ raw[i] = agent.table["temp"][i]
  BY <1>1 DEF IsWalk, IsTable
<1>6. IsTable(temperature, Int)
  <2>1. \A n \in Nat : ToCelsius(n) \in Int
    BY DEF ToCelsius
  <2>2. QED
    BY <1>2, <1>4, <1>5, <2>1 DEF IsTable
<1>7. DOMAIN raw # {} => agent.mib = kind
  BY <1>1 DEF IsWalk
<1>8. BeginningOf(DOMAIN raw, DOMAIN agent.table["temp"])
  BY <1>1 DEF IsWalk, BeginningOf
<1>9. ASSUME {"scale", "tempScale"} \cap lost = {}, NEW i \in DOMAIN raw
      PROVE  temperature[i] = Celsius(agent, i)
  <2>1. agent.mib = kind /\ i \in Indices
    BY <1>5, <1>7
  <2>2. i \in inFahrenheit <=> IsFahrenheit(agent, i)
    <3>1. CASE kind = "Sentry4Pdu"
      BY <1>3, <1>9, <2>1, <3>1 DEF IsFahrenheit
    <3>2. CASE kind # "Sentry4Pdu"
      <4>1. /\ DOMAIN scales = DOMAIN agent.table["tempScale"]
            /\ \A j \in DOMAIN scales : scales[j] = agent.table["tempScale"][j]
        BY <1>1, <1>9, <2>1 DEF IsWalk
      <4>2. i \in inFahrenheit <=> At(scales, i) = 1
        BY <1>3, <2>1, <3>2
      <4>3. QED
        BY <2>1, <3>2, <4>1, <4>2, NoneAssumption DEF IsFahrenheit, At
    <3>3. QED
      BY <3>1, <3>2
  <2>3. QED
    BY <1>4, <1>5, <2>2 DEF Celsius
<1>10. QED
  BY <1>4, <1>6, <1>7, <1>8, <1>9 DEF AreTemperatures, temperature

\* A reading: typed, and its rows the agent's own.
IsReading(stats, agent, kind, lost) ==
    /\ IsStats(stats)
    /\ AreTemperatures(stats.temperature, agent, kind, lost)
    /\ HumiditiesInRow(stats.humidity, agent)
    /\ DOMAIN stats.outlets # {} => agent.mib = kind
    /\ \A i \in DOMAIN stats.outlets :
        OutletInRow(stats.outlets[i], agent, i)

LEMMA ScalarType ==
    ASSUME NEW agent, IsAgent(agent), NEW kind, NEW key \in Scalars
    PROVE  ScalarOf(agent, kind, key) \in Nat \cup {None}
BY DEF IsAgent, ScalarOf

LEMMA PlainIsReading ==
    ASSUME NEW agent, NEW kind, NEW lost,
           NEW uptime \in Nat \cup {None}, NEW lamp \in Nat \cup {None}
    PROVE  IsReading(PlainStats(uptime, lamp), agent, kind, lost)
<1> DEFINE stats == PlainStats(uptime, lamp)
<1>1. stats.get \in [Keys -> Nat \cup {None}]
  BY DEF PlainStats
<1>2. stats.temperature = <<>> /\ stats.humidity = <<>> /\ stats.outlets = <<>>
  BY DEF PlainStats
<1> HIDE DEF stats
<1>3. IsStats(stats)
  BY <1>1, <1>2, EmptyTable DEF IsStats
<1>4. AreTemperatures(stats.temperature, agent, kind, lost)
  BY <1>2, EmptyTable DEF AreTemperatures, BeginningOf
<1>5. HumiditiesInRow(stats.humidity, agent)
  BY <1>2, EmptyTable DEF HumiditiesInRow, BeginningOf
<1>6. QED
  BY <1>2, <1>3, <1>4, <1>5, EmptyTable DEF IsReading, stats

LEMMA PduIsReading ==
    ASSUME NEW agent, IsAgent(agent), NEW kind \in {"Sentry4Pdu", "Sentry3Pdu"},
           NEW lost, NEW reach \in Reaches(lost)
    PROVE  IsReading(PduStats(kind, agent, lost, reach), agent, kind, lost)
<1> DEFINE code == [k \in Scalars |-> ScalarOf(agent, kind, k)]
           key(k) == CASE k = "lamp" -> None
                       [] k = "healthy" -> Healthy(kind, code["status"])
                       [] k = "severity" -> Severity(kind, code)
                       [] k = "utilized" -> Utilized(kind, code)
                       [] OTHER -> code[k]
           stats == PduStats(kind, agent, lost, reach)
<1>1. /\ stats.get = [k \in Keys |-> key(k)]
      /\ stats.temperature = FetchTemperatures(kind, agent, lost, reach)
      /\ stats.humidity = FetchHumidities(kind, agent, reach)
      /\ stats.outlets = FetchOutlets(kind, agent, reach)
  BY DEF PduStats
<1>2. \A k \in Scalars : code[k] \in Nat \cup {None}
  BY ScalarType
<1> HIDE DEF code, stats
<1>3. ASSUME NEW k \in Keys PROVE key(k) \in Nat \cup {None}
  <2>1. Healthy(kind, code["status"]) \in Nat \cup {None}
    BY DEF Healthy
  <2>2. Severity(kind, code) \in Nat \cup {None}
    BY DEF Severity
  <2>3. Utilized(kind, code) \in Nat \cup {None}
    <3>1. {"utilized", "line_current", "capacity"} \subseteq Scalars
      BY DEF Scalars
    <3>2. \A n \in Nat, m \in Nat \ {0} : n \div m \in Nat
      OBVIOUS
    <3>3. CASE kind # "Sentry4Pdu" /\ code["line_current"] # None /\ code["capacity"] \notin {None, 0}
      <4>1. Utilized(kind, code) = code["line_current"] \div code["capacity"]
        BY <3>3 DEF Utilized
      <4>2. code["line_current"] \in Nat /\ code["capacity"] \in Nat \ {0}
        BY <1>2, <3>1, <3>3
      <4>3. QED
        BY <3>2, <4>1, <4>2
    <3>4. QED
      BY <1>2, <3>1, <3>3 DEF Utilized
  <2>4. k \in {"lamp", "healthy", "severity"} \cup Scalars
    BY DEF Keys, Scalars
  <2>5. QED
    BY <1>2, <2>1, <2>2, <2>3, <2>4
<1>4. stats.get \in [Keys -> Nat \cup {None}]
  <2> HIDE DEF key
  <2>1. QED
    BY <1>1, <1>3
<1>5. IsTable(stats.humidity, Nat) /\ HumiditiesInRow(stats.humidity, agent)
  <2>1. "humid" \in Columns
    BY DEF Columns, PduColumns
  <2>2. IsWalk(Walk(agent, kind, "humid", reach), agent, kind, "humid", lost)
    BY <2>1, WalkIs
  <2>3. stats.humidity = Walk(agent, kind, "humid", reach)
    BY <1>1 DEF FetchHumidities
  <2>4. QED
    BY <2>2, <2>3 DEF IsWalk, HumiditiesInRow, BeginningOf, At
<1>6. AreTemperatures(stats.temperature, agent, kind, lost)
  BY <1>1, TemperaturesAre
<1>7. /\ IsTable(stats.outlets, Outlet)
      /\ DOMAIN stats.outlets # {} => agent.mib = kind
      /\ \A i \in DOMAIN stats.outlets :
            OutletInRow(stats.outlets[i], agent, i)
  BY <1>1, OutletsAre
<1>8. IsStats(stats)
  BY <1>4, <1>5, <1>6, <1>7 DEF IsStats, AreTemperatures
<1>9. QED
  BY <1>5, <1>6, <1>7, <1>8 DEF IsReading, stats

\* What fetch_stats returns is a reading, and not a generic handler's.
LEMMA StatsAre ==
    ASSUME NEW agent, IsAgent(agent), NEW kind \in Kinds,
           NEW lost, NEW reach \in Reaches(lost), FetchStats(kind, agent, lost, reach) # None
    PROVE  /\ IsReading(FetchStats(kind, agent, lost, reach), agent, kind, lost)
           /\ kind # "GenericSnmpHandler"
<1> DEFINE stats == FetchStats(kind, agent, lost, reach)
           uptime == ScalarOf(agent, kind, "uptime")
           lamp == ScalarOf(agent, kind, "lamp")
<1>1. uptime \in Nat \cup {None} /\ lamp \in Nat \cup {None} /\ None \in Nat \cup {None}
  BY ScalarType DEF Scalars
<1>2. CASE kind \in {"Sentry4Pdu", "Sentry3Pdu"}
  <2>1. stats = PduStats(kind, agent, lost, reach)
    BY <1>2 DEF FetchStats
  <2>2. QED
    BY <1>2, <2>1, PduIsReading
<1>3. CASE kind = "EpsonProjector"
  <2>1. stats = PlainStats(uptime, lamp)
    BY <1>3 DEF FetchStats
  <2> HIDE DEF stats, uptime, lamp
  <2>2. QED
    BY <1>1, <1>3, <2>1, PlainIsReading DEF stats
<1>4. CASE kind \in {"Codec", "ExtronMatrix"}
  <2>1. stats = PlainStats(uptime, None)
    BY <1>4 DEF FetchStats
  <2> HIDE DEF stats, uptime, lamp
  <2>2. QED
    BY <1>1, <1>4, <2>1, PlainIsReading DEF stats
<1>5. CASE kind = "GenericSnmpHandler"
  <2>1. Empty(PlainStats(None, None))
    BY DEF Empty, PlainStats
  <2>2. stats = None
    BY <1>5, <2>1 DEF FetchStats
  <2>3. QED
    BY <2>2
<1>6. QED
  BY <1>2, <1>3, <1>4, <1>5 DEF Kinds

(* What the results hold has been read at the device's address, by a       *)
(* handler of the device's own unless another shares the address.          *)
Sourced ==
    \A d \in Devices :
        /\ queries[d] # None =>
            /\ queries[d].by \in Kinds
            /\ queries[d] \in StatsResults[queries[d].by][Address[d]]
            /\ queries[d].stats # None
            /\ QueryFor(Route[d]) # "skip_no_match"
            /\ ~SharesAddress(d) => queries[d].by = HandlerFor(Route[d])
        /\ ports[d] # None => ports[d] \in PortResults[Address[d]]

LEMMA OwnHandler ==
    ASSUME Shape, NEW d \in UNION chunks, ~SharesAddress(d)
    PROVE  HandlerOf(d) = HandlerFor(Route[d])
<1> DEFINE lender == CHOOSE e \in Chunk(d) \cap first : Address[e] = Address[d]
<1>1. Chunk(d) \in chunks /\ d \in Chunk(d)
  BY DEF Chunk
<1>2. \E e \in Chunk(d) \cap first : Address[e] = Address[d]
  BY <1>1 DEF Shape, Handlers
<1>3. lender \in Chunk(d) /\ Address[lender] = Address[d]
  BY <1>2
<1>4. lender = d
  BY <1>1, <1>3 DEF Shape, SharesAddress
<1>5. QED
  BY <1>4 DEF HandlerOf

LEMMA SourcedInit == Init => Sourced
BY DEF Init, Sourced

LEMMA QuerySourced ==
    ASSUME Shape, Turns, Sourced, NEW d, Query(d)
    PROVE  Sourced'
<1>1. /\ pc = "query" /\ d \in UNION chunks /\ d \in Devices /\ task[d].at = "calling"
      /\ fleet' = fleet /\ ports' = ports
  BY DEF Query, Step, Shape
<1>2. PICK r \in StatsResults[HandlerOf(d)][Address[d]] :
        queries' = IF r.stats = None THEN queries ELSE [queries EXCEPT ![d] = r]
  BY DEF Query
<1>3. HandlerOf(d) \in Kinds /\ Address[d] \in Addresses
  BY <1>1, HandlersAreKinds, TargetsAssumption DEF HandlerOf
<1>4. r.by = HandlerOf(d)
  BY <1>3, StatsResultIs
<1>5. QueryFor(Route[d]) # "skip_no_match"
  BY <1>1 DEF Turns, InTurn
<1>6. ~SharesAddress(d) => HandlerOf(d) = HandlerFor(Route[d])
  BY <1>1, OwnHandler
<1>7. \A e : SharesAddress(e)' <=> SharesAddress(e)
  BY <1>1 DEF SharesAddress
<1>8. CASE r.stats = None
  BY <1>1, <1>2, <1>7, <1>8 DEF Sourced
<1>9. CASE r.stats # None
  <2> SUFFICES ASSUME NEW e \in Devices, queries'[e] # None
               PROVE  /\ queries'[e].by \in Kinds
                      /\ queries'[e] \in StatsResults[queries'[e].by][Address[e]]
                      /\ queries'[e].stats # None
                      /\ QueryFor(Route[e]) # "skip_no_match"
                      /\ ~SharesAddress(e) => queries'[e].by = HandlerFor(Route[e])
    BY <1>1, <1>7 DEF Sourced
  <2>1. CASE e = d
    <3>1. queries'[e] = r
      BY <1>2, <1>9, <2>1 DEF Shape
    <3>2. QED
      BY <1>2, <1>3, <1>4, <1>5, <1>6, <1>9, <2>1, <3>1
  <2>2. CASE e # d
    <3>1. queries'[e] = queries[e]
      BY <1>2, <2>2 DEF Shape
    <3>2. QED
      BY <3>1 DEF Sourced
  <2>3. QED
    BY <2>1, <2>2
<1>10. QED
  BY <1>8, <1>9

LEMMA WalksSourced ==
    ASSUME Shape, Sourced, NEW d, Walks(d)
    PROVE  Sourced'
<1>1. d \in Devices /\ fleet' = fleet /\ queries' = queries
  BY DEF Walks, Step, Shape
<1>2. PICK r \in PortResults[Address[d]] :
        ports' = IF r.rows = <<>> THEN ports ELSE [ports EXCEPT ![d] = r]
  BY DEF Walks
<1>3. \A e : SharesAddress(e)' <=> SharesAddress(e)
  BY <1>1 DEF SharesAddress
<1>4. \A e \in Devices : ports'[e] = ports[e] \/ (e = d /\ ports'[e] = r)
  BY <1>2 DEF Shape
<1>5. QED
  BY <1>1, <1>2, <1>3, <1>4 DEF Sourced

LEMMA SourcedNext == Shape /\ Turns /\ Sourced /\ [Next]_vars => Sourced'
<1> SUFFICES ASSUME Shape, Turns, Sourced, [Next]_vars PROVE Sourced'
  OBVIOUS
<1>1. ASSUME fleet' = fleet, queries' = queries, ports' = ports PROVE Sourced'
  BY <1>1 DEF Sourced, SharesAddress
<1>2. CASE Load \/ Barrier \/ Tick
  BY <1>1, <1>2 DEF Load, Barrier, Tick, results
<1>3. ASSUME NEW d, Ping(d) PROVE Sourced'
  BY <1>1, <1>3 DEF Ping, Acquire, PingAnswered, PingFails, WakeUp, Step, results
<1>4. ASSUME NEW d, Call(d) PROVE Sourced'
  <2>1. CASE Query(d)
    BY <2>1, QuerySourced
  <2>2. CASE Walks(d)
    BY <2>2, WalksSourced
  <2>3. CASE Run(d) \/ (\E ok \in BOOLEAN : Probe(d, ok) \/ Describe(d, ok)) \/ SkipQuery(d)
    BY <1>1, <2>3 DEF Run, Probe, Describe, SkipQuery, Step, results
  <2>4. QED
    BY <1>4, <2>1, <2>2, <2>3 DEF Call
<1>5. ASSUME NEW d, Raises(d) PROVE Sourced'
  BY <1>5 DEF Raises, Sourced
<1>6. CASE UNCHANGED vars
  BY <1>1, <1>6 DEF vars, results
<1>7. QED
  BY <1>2, <1>3, <1>4, <1>5, <1>6 DEF Next, Work

LEMMA SourcedAlways == Spec => [](Shape /\ Sourced)
BY ShapeInit, ShapeNext, SourcedInit, SourcedNext, PTL DEF Spec

LEMMA QueriesAre ==
    ASSUME Sourced, NEW d \in Devices, queries[d] # None
    PROVE  /\ IsReading(queries[d].stats, AgentAt[Address[d]], queries[d].by, queries[d].lost)
           /\ queries[d].by \in Kinds \ {"GenericSnmpHandler"}
           /\ queries[d].lost \in SUBSET StatsRequests(queries[d].by)
<1> DEFINE r == queries[d]
           kind == queries[d].by
           agent == AgentAt[Address[d]]
<1>1. kind \in Kinds /\ r \in StatsResults[kind][Address[d]] /\ r.stats # None
  BY DEF Sourced
<1>2. Address[d] \in Addresses /\ IsAgent(agent)
  BY Agents
<1>3. r.lost \in SUBSET StatsRequests(kind)
      /\ \E reach \in Reaches(r.lost) : r.stats = FetchStats(kind, agent, r.lost, reach)
  BY <1>1, <1>2, StatsResultIs
<1> HIDE DEF kind, r, agent
<1>4. PICK reach \in Reaches(r.lost) : r.stats = FetchStats(kind, agent, r.lost, reach)
  BY <1>3
<1>5. IsReading(r.stats, agent, kind, r.lost) /\ kind # "GenericSnmpHandler"
  BY <1>1, <1>2, <1>4, StatsAre
<1>6. QED
  BY <1>1, <1>3, <1>5 DEF kind, r, agent

LEMMA PortsAre ==
    ASSUME Sourced, NEW d \in Devices, ports[d] # None
    PROVE  LET agent == AgentAt[Address[d]]
           IN  /\ IsTable(ports[d].rows, Interface)
               /\ ports[d].lost \in SUBSET IfColumns
               /\ \A i \in DOMAIN ports[d].rows :
                    /\ PortInRow(ports[d].rows[i], agent, i)
                    /\ "ifType" \notin ports[d].lost =>
                        At(agent.table["ifType"], i) # softwareLoopback
<1> DEFINE r == ports[d]
           agent == AgentAt[Address[d]]
<1>1. r \in PortResults[Address[d]] /\ Address[d] \in Addresses /\ IsAgent(agent)
  BY Agents DEF Sourced
<1>2. r.lost \in SUBSET IfColumns
      /\ \E reach \in Reaches(r.lost) : r.rows = FetchInterfaces(agent, reach)
  BY <1>1, PortResultIs
<1> HIDE DEF r, agent
<1>3. PICK reach \in Reaches(r.lost) : r.rows = FetchInterfaces(agent, reach)
  BY <1>2
<1>4. /\ IsTable(r.rows, Interface)
      /\ \A i \in DOMAIN r.rows :
            /\ PortInRow(r.rows[i], agent, i)
            /\ "ifType" \notin r.lost => At(agent.table["ifType"], i) # softwareLoopback
  BY <1>1, <1>3, InterfacesAre
<1>5. QED
  BY <1>2, <1>4 DEF r, agent

(* The collection's state keeps its type, and so do the readings: no       *)
(* handler of snmp/handlers returns what the encoder does not expect.      *)
THEOREM ClientTypeCorrect == Spec => []TypeOK
<1>1. ASSUME Shape, Sourced PROVE TypeOK
  <2>1. ASSUME NEW d \in Devices, queries[d] # None
        PROVE  /\ IsStats(queries[d].stats)
               /\ queries[d].by \in Kinds
               /\ queries[d].lost \subseteq Columns \cup Gets
    <3>1. \A kind : StatsRequests(kind) \subseteq Columns \cup Gets
      BY DEF StatsRequests, Columns, PduColumns, Gets
    <3>2. QED
      BY <1>1, <2>1, <3>1, QueriesAre DEF IsReading
  <2>2. ASSUME NEW d \in Devices, ports[d] # None
        PROVE  IsTable(ports[d].rows, Interface) /\ ports[d].lost \subseteq IfColumns
    BY <1>1, <2>2, PortsAre
  <2>3. QED
    BY <1>1, <2>1, <2>2 DEF TypeOK, Shape
<1>2. QED
  BY <1>1, SourcedAlways, PTL

(* What is published of a device is its agent's own, row by row, with the  *)
(* sensor's own scale: _snmp_walk, fetch_interfaces, fetch_outlets,        *)
(* fetch_environment.                                                      *)
THEOREM ReadingsKeepTheirRow == Spec => []ReadingsAreGenuine
<1>1. ASSUME Shape, Sourced PROVE ReadingsAreGenuine
  <2> SUFFICES ASSUME NEW d \in Devices
      PROVE  LET agent == AgentAt[Address[d]]
             IN  /\ queries[d] # None =>
                     LET stats == queries[d].stats
                         found == DOMAIN stats.temperature
                     IN  /\ found \cup DOMAIN stats.outlets # {} => agent.mib = queries[d].by
                         /\ BeginningOf(found, DOMAIN agent.table["temp"])
                         /\ {"scale", "tempScale"} \cap queries[d].lost = {} =>
                             \A i \in found : stats.temperature[i] = Celsius(agent, i)
                         /\ HumiditiesInRow(stats.humidity, agent)
                         /\ \A i \in DOMAIN stats.outlets :
                             OutletInRow(stats.outlets[i], agent, i)
                 /\ ports[d] # None =>
                     \A i \in DOMAIN ports[d].rows :
                         /\ PortInRow(ports[d].rows[i], agent, i)
                         /\ "ifType" \notin ports[d].lost =>
                             At(agent.table["ifType"], i) # softwareLoopback
    BY DEF ReadingsAreGenuine
  <2>1. CASE queries[d] # None /\ ports[d] # None
    BY <1>1, <2>1, QueriesAre, PortsAre DEF IsReading, AreTemperatures
  <2>2. CASE queries[d] # None /\ ports[d] = None
    BY <1>1, <2>2, QueriesAre DEF IsReading, AreTemperatures
  <2>3. CASE queries[d] = None
    BY <1>1, <2>3, PortsAre
  <2>4. QED
    BY <2>1, <2>2, <2>3
<1>2. QED
  BY <1>1, SourcedAlways, PTL

\* The two choices agree wherever both choose.
LEMMA ChoicesAgree ==
    ASSUME NEW t \in Routing, QueryFor(t) # "skip_no_match",
           HandlerFor(t) # "GenericSnmpHandler"
    PROVE  HandlerFor(t) \in Family[QueryFor(t)]
<1>1. HandlerFor(t) = Specialised(t) /\ Specialised(t) # "declined"
  BY DEF HandlerFor
<1>2. CASE t.eqClass \in {"AVD", "missing"}
  BY <1>1, <1>2 DEF Specialised, Projector, QueryFor, Family
<1>3. CASE t.eqClass = "AVS"
  BY <1>1, <1>3 DEF Specialised, Pdu, QueryFor, Family
<1>4. CASE t.eqClass = "AVV"
  BY <1>1, <1>4 DEF Specialised, Codec, QueryFor, Family
<1>5. CASE t.eqClass \in {"AVA", "AVVS"}
  BY <1>1, <1>5 DEF Specialised, Matrix, QueryFor, Family
<1>6. QED
  BY <1>1, <1>2, <1>3, <1>4, <1>5 DEF Specialised

(* A reading published under a family's metrics was read by a handler of   *)
(* that family: get_handlers and the query registry, chosen apart.         *)
THEOREM RoutesAgree == Spec => []RoutedReadings
<1>1. ASSUME Shape, Sourced PROVE RoutedReadings
  <2> SUFFICES ASSUME NEW d \in Devices, queries[d] # None, ~SharesAddress(d)
               PROVE  /\ QueryFor(Route[d]) # "skip_no_match"
                      /\ queries[d].by \in Family[QueryFor(Route[d])]
    BY DEF RoutedReadings
  <2>1. QueryFor(Route[d]) # "skip_no_match" /\ queries[d].by = HandlerFor(Route[d])
    BY <1>1 DEF Sourced
  <2>2. HandlerFor(Route[d]) # "GenericSnmpHandler"
    BY <1>1, <2>1, QueriesAre
  <2>3. Route[d] \in Routing
    BY TargetsAssumption
  <2>4. QED
    BY <2>1, <2>2, <2>3, ChoicesAgree
<1>2. QED
  BY <1>1, SourcedAlways, PTL

\* The value of a device's series: one for a metric and an index.
ValueOf(d, metric, i) ==
    CASE metric = "temperature_c" -> queries[d].stats.temperature[i]
      [] metric = "humidity_pct" -> queries[d].stats.humidity[i]
      [] metric \in OutletColumns -> queries[d].stats.outlets[i][metric]
      [] metric \in {"oper", "counter", "descr"} -> ports[d].rows[i][metric]
      [] OTHER -> queries[d].stats.get[metric]

(* Of the samples of one device no two have the same metric and labels:    *)
(* encode_queries and encode_interfaces.                                   *)
THEOREM SeriesAreDistinct == Spec => []OneSamplePerSeries
<1>1. ASSUME NEW d, NEW s \in SamplesOf(d)
      PROVE  \E metric, i : s = <<metric, i, ValueOf(d, metric, i)>>
  <2> DEFINE stats == queries[d].stats
             query == QueryFor(Route[d])
  <2>1. CASE s \in QuerySamples(query, stats)
    <3>1. CASE \E k \in Published(query) : s = <<k, Scalar, stats.get[k]>>
      <4>1. PICK k \in Published(query) : s = <<k, Scalar, stats.get[k]>>
        BY <3>1
      <4>2. k \in Keys
        BY DEF Published, Keys
      <4>3. ValueOf(d, k, Scalar) = stats.get[k]
        BY <4>2 DEF ValueOf, Keys, OutletColumns
      <4>4. QED
        BY <4>1, <4>3
    <3>2. CASE s \in SensorSamples(stats)
      <4>1. \/ \E i : s = <<"temperature_c", i, stats.temperature[i]>>
            \/ \E i : s = <<"humidity_pct", i, stats.humidity[i]>>
        BY <3>2 DEF SensorSamples
      <4>2. \A i : /\ ValueOf(d, "temperature_c", i) = stats.temperature[i]
                  /\ ValueOf(d, "humidity_pct", i) = stats.humidity[i]
        BY DEF ValueOf, OutletColumns
      <4>3. QED
        BY <4>1, <4>2
    <3>3. CASE s \in RowSamples(stats.outlets, OutletColumns)
      <4>1. PICK c \in OutletColumns, i \in DOMAIN stats.outlets :
                       s = <<c, i, stats.outlets[i][c]>>
        BY <3>3 DEF RowSamples
      <4>2. ValueOf(d, c, i) = stats.outlets[i][c]
        BY DEF ValueOf, OutletColumns
      <4>3. QED
        BY <4>1, <4>2
    <3>4. QED
      BY <2>1, <3>1, <3>2, <3>3 DEF QuerySamples
  <2>2. CASE s \in InterfaceSamples(ports[d].rows)
    <3>1. PICK c \in {"oper", "counter", "descr"}, i \in DOMAIN ports[d].rows :
                     s = <<c, i, ports[d].rows[i][c]>>
      BY <2>2 DEF InterfaceSamples, RowSamples
    <3>2. ValueOf(d, c, i) = ports[d].rows[i][c]
      BY DEF ValueOf, OutletColumns
    <3>3. QED
      BY <3>1, <3>2
  <2>3. QED
    BY <2>1, <2>2 DEF SamplesOf
<1>2. OneSamplePerSeries
  BY <1>1 DEF OneSamplePerSeries
<1>3. QED
  BY <1>2, PTL

-----------------------------------------------------------------------------
(* A collection is the cycle SnmpCycle has: a worker comes back with its   *)
(* chunk when the last device of the chunk is done.                        *)

DueNow == IF pc \in {"ping", "probe"} THEN fleet ELSE up

(* The chunks of a phase are those of its targets, with nobody left out;   *)
(* sysDescr is asked of devices that are up only.                          *)
Dealt ==
    /\ pc \in Phases => UNION chunks = DueNow /\ {} \notin chunks
    /\ pc \notin Phases => chunks = {}
    /\ described \subseteq up
    /\ pc = "probe" =>
        \A d \in UNION chunks : task[d].at # "done" /\ task[d].calls = 1 => d \in up

\* The list of a finite set has every element.
LEMMA ListIsSurjective ==
    ASSUME NEW S, IsFiniteSet(S)
    PROVE  \A d \in S : \E i \in 1 .. Cardinality(S) : Cycle!SetToSeq(S)[i] = d
<1> DEFINE size == Cardinality(S)
           list == Cycle!SetToSeq(S)
           listed == {list[i] : i \in 1 .. size}
<1>1. size \in Nat /\ IsFiniteSet(1 .. size) /\ Cardinality(1 .. size) = size
  BY FS_CardinalityType, FS_Interval
<1>2. /\ list \in [1 .. size -> S]
      /\ \A i, k \in 1 .. size : list[i] = list[k] => i = k
  BY ListIsInjective
<1> HIDE DEF list
<1>3. list \in Bijection(1 .. size, listed)
  BY <1>2 DEF Bijection, Injection, Surjection, IsInjective
<1>4. IsFiniteSet(listed) /\ Cardinality(listed) = size
  BY <1>1, <1>3, FS_Bijection DEF ExistsBijection
<1>5. listed = S
  BY <1>2, <1>4, FS_Subset
<1>6. QED
  BY <1>5 DEF list

\* split_even leaves nobody out and makes no empty chunk.
LEMMA ChunksCover ==
    ASSUME NEW S, IsFiniteSet(S)
    PROVE  UNION Cycle!SplitEven(S) = S /\ {} \notin Cycle!SplitEven(S)
<1> DEFINE size == Cardinality(S)
           list == Cycle!SetToSeq(S)
           most == Cycle!AtLeast(1, Threads)
           n == Cycle!AtMost(most, Len(list))
           part(k) == {d \in S : \E i \in DOMAIN list : list[i] = d /\ i % n = k}
<1>1. Cycle!SplitEven(S) = {part(k) : k \in 0 .. n - 1}
  BY DEF Cycle!SplitEven
<1>2. size \in Nat /\ DOMAIN list = 1 .. size /\ Len(list) = size
  BY ListIsInjective
<1>3. most \in Nat \ {0}
  BY SizesAssumption DEF Cycle!AtLeast
<1>4. n \in Nat /\ n <= size /\ (size > 0 => n > 0)
  BY <1>2, <1>3 DEF Cycle!AtMost
<1>5. ASSUME NEW d \in S
      PROVE  \E k \in 0 .. n - 1 : d \in part(k)
  <2>1. PICK i \in DOMAIN list : list[i] = d
    BY <1>2, ListIsSurjective
  <2>2. n > 0 /\ i \in Nat
    BY <1>2, <1>4, <2>1
  <2> HIDE DEF n
  <2>3. i % n \in 0 .. n - 1
    BY <1>4, <2>2
  <2>4. QED
    BY <2>1, <2>3
<1>6. ASSUME NEW k \in 0 .. n - 1
      PROVE  part(k) # {}
  <2> DEFINE i == IF k = 0 THEN n ELSE k
  <2>1. i \in 1 .. size /\ n > 0
    BY <1>2, <1>4
  <2>2. i % n = k
    <3> HIDE DEF n
    <3>1. CASE k = 0
      BY <1>4, <2>1, <3>1
    <3>2. CASE k # 0
      BY <1>4, <2>1, <3>2
    <3>3. QED
      BY <3>1, <3>2
  <2>3. list[i] \in S
    BY <2>1, ListIsInjective
  <2>4. QED
    BY <2>1, <2>2, <2>3, <1>2
<1> HIDE DEF n
<1>7. \A k : part(k) \subseteq S
  OBVIOUS
<1> HIDE DEF part
<1>8. QED
  BY <1>1, <1>5, <1>6, <1>7

LEMMA DealtInit == Init => Dealt
BY DEF Init, Dealt, Phases

\* What starts a phase deals its targets out.
LEMMA StartDealt ==
    ASSUME NEW S \in SUBSET Devices, StartPhase(S)
    PROVE  /\ UNION chunks' = S /\ {} \notin chunks'
           /\ task' = [d \in Devices |-> Fresh]
<1>1. IsFiniteSet(S) /\ chunks' = Cycle!SplitEven(S)
  BY FleetIsFinite DEF StartPhase
<1>2. task' = [d \in Devices |-> Fresh]
  BY DEF StartPhase
<1>3. QED
  BY <1>1, <1>2, ChunksCover

(* What a coroutine that goes on leaves alone, and what of its own device   *)
(* each phase may change.                                                  *)
Goes(d) ==
    /\ pc \in Phases /\ d \in UNION chunks /\ task[d].at # "done"
    /\ UNCHANGED <<fleet, pc, chunks>>
    /\ \A e \in Devices \ {d} : task'[e] = task[e]
    /\ answered' # answered => pc = "ping" /\ answered' = answered \cup {d}
    /\ up' # up => pc = "probe" /\ up' = up \cup {d}
    /\ described' # described =>
        pc = "probe" /\ task[d].calls = 1 /\ described' = described \cup {d}
    /\ queries' # queries => pc = "query" /\ \A e \in Devices \ {d} : queries'[e] = queries[e]
    /\ pc = "probe" /\ task'[d].at # "done" /\ task'[d].calls = 1 =>
        d \in up' \/ task[d].calls = 1

LEMMA StepGoes ==
    ASSUME Shape, NEW d, NEW at, NEW t, at # "done", Step(d, at, t)
    PROVE  /\ pc \in Phases /\ d \in UNION chunks /\ d \in Devices
           /\ task[d].at = at /\ task[d].at # "done"
           /\ fleet' = fleet /\ pc' = pc /\ chunks' = chunks
           /\ task'[d] = t
           /\ \A e \in Devices \ {d} : task'[e] = task[e]
BY DEF Shape, Step

LEMMA PingGoes ==
    ASSUME Shape, Turns, NEW d, Ping(d)
    PROVE  Goes(d)
<1>1. CASE Acquire(d)
  <2> DEFINE at == IF pc = "ping" THEN "pinging" ELSE "queued"
             t == [task[d] EXCEPT !.at = at]
  <2>1. /\ Step(d, "waiting", t)
        /\ answered' = answered /\ up' = up /\ described' = described /\ queries' = queries
    BY <1>1 DEF Acquire, results
  <2>2. t.calls = task[d].calls
    BY <2>1 DEF Step, Shape, Tasks
  <2> HIDE DEF t
  <2>3. QED
    BY <2>1, <2>2, StepGoes DEF Goes
<1>2. ASSUME NEW at, NEW t, Step(d, at, t), at \in {"pinging", "sleeping"}
      PROVE  pc = "ping"
  BY <1>2 DEF Step, Turns, InTurn
<1>3. ASSUME NEW at, NEW t, Step(d, at, t), at \in {"pinging", "sleeping"},
             answered' = answered \/ answered' = answered \cup {d},
             up' = up, described' = described, queries' = queries
      PROVE  Goes(d)
  BY <1>2, <1>3, StepGoes DEF Goes
<1>4. CASE PingAnswered(d)
  BY <1>3, <1>4 DEF PingAnswered
<1>5. CASE PingFails(d)
  <2>1. \E t : Step(d, "pinging", t)
    BY <1>5 DEF PingFails
  <2>2. answered' = answered /\ up' = up /\ described' = described /\ queries' = queries
    BY <1>5 DEF PingFails, results
  <2>3. QED
    BY <1>3, <2>1, <2>2
<1>6. CASE WakeUp(d)
  <2>1. \E t : Step(d, "sleeping", t)
    BY <1>6 DEF WakeUp
  <2>2. answered' = answered /\ up' = up /\ described' = described /\ queries' = queries
    BY <1>6 DEF WakeUp, results
  <2>3. QED
    BY <1>3, <2>1, <2>2
<1>7. QED
  BY <1>1, <1>4, <1>5, <1>6 DEF Ping

LEMMA CallGoes ==
    ASSUME Shape, Turns, NEW d, Call(d)
    PROVE  Goes(d)
<1>1. CASE Run(d)
  <2> DEFINE t == [task[d] EXCEPT !.at = "calling"]
  <2>1. /\ Step(d, "queued", t)
        /\ answered' = answered /\ up' = up /\ described' = described /\ queries' = queries
    BY <1>1 DEF Run, results
  <2>2. t.calls = task[d].calls
    BY <2>1 DEF Step, Shape, Tasks
  <2> HIDE DEF t
  <2>3. QED
    BY <2>1, <2>2, StepGoes DEF Goes
<1>2. ASSUME NEW ok \in BOOLEAN, Probe(d, ok)
      PROVE  Goes(d)
  <2> DEFINE t == [at |-> IF ok THEN "queued" ELSE "done", calls |-> 1, timer |-> 0]
  <2>1. /\ pc = "probe" /\ Step(d, "calling", t)
        /\ up' = (IF ok THEN up \cup {d} ELSE up)
        /\ answered' = answered /\ described' = described /\ queries' = queries
    BY <1>2 DEF Probe
  <2>2. ~ok => t.at = "done"
    OBVIOUS
  <2> HIDE DEF t
  <2>3. QED
    BY <2>1, <2>2, StepGoes DEF Goes
<1>3. ASSUME NEW ok \in BOOLEAN, Describe(d, ok)
      PROVE  Goes(d)
  <2> DEFINE t == [task[d] EXCEPT !.at = "done"]
  <2>1. /\ pc = "probe" /\ Step(d, "calling", t) /\ task[d].calls = 1
        /\ described' = (IF ok THEN described \cup {d} ELSE described)
        /\ answered' = answered /\ up' = up /\ queries' = queries
    BY <1>3 DEF Describe
  <2> HIDE DEF t
  <2>2. QED
    BY <2>1, StepGoes DEF Goes
<1>4. CASE SkipQuery(d)
  <2>1. /\ pc = "query" /\ \E t : Step(d, "waiting", t)
        /\ answered' = answered /\ up' = up /\ described' = described /\ queries' = queries
    BY <1>4 DEF SkipQuery, results
  <2>2. QED
    BY <2>1, StepGoes DEF Goes
<1>5. CASE Query(d)
  <2>1. /\ pc = "query" /\ \E t : Step(d, "calling", t)
        /\ answered' = answered /\ up' = up /\ described' = described
        /\ \E r : queries' = IF r.stats = None THEN queries ELSE [queries EXCEPT ![d] = r]
    BY <1>5 DEF Query
  <2>2. \A e \in Devices \ {d} : queries'[e] = queries[e]
    BY <2>1 DEF Shape
  <2>3. QED
    BY <2>1, <2>2, StepGoes DEF Goes
<1>6. CASE Walks(d)
  <2>1. /\ pc = "interfaces" /\ \E t : Step(d, "calling", t)
        /\ answered' = answered /\ up' = up /\ described' = described /\ queries' = queries
    BY <1>6 DEF Walks
  <2>2. QED
    BY <2>1, StepGoes DEF Goes
<1>7. QED
  BY <1>1, <1>2, <1>3, <1>4, <1>5, <1>6 DEF Call

LEMMA GoesKeepsDealt ==
    ASSUME Shape, Dealt, NEW d, Goes(d)
    PROVE  Dealt'
<1>1. UNION chunks \subseteq Devices
  BY DEF Shape
<1>2. DueNow' = DueNow
  BY DEF Goes, DueNow, Phases
<1>3. ASSUME pc = "probe", NEW e \in UNION chunks, task'[e].at # "done", task'[e].calls = 1
      PROVE  e \in up'
  BY <1>1, <1>3 DEF Dealt, Goes
<1>4. described' \subseteq up'
  BY DEF Dealt, Goes
<1>5. QED
  BY <1>2, <1>3, <1>4 DEF Dealt, Goes

LEMMA DealtNext == Shape /\ Turns /\ Dealt /\ [Next]_vars => Dealt'
<1> SUFFICES ASSUME Shape, Turns, Dealt, [Next]_vars PROVE Dealt'
  OBVIOUS
<1>1. ASSUME NEW S \in SUBSET Devices, StartPhase(S), S = DueNow', pc' \in Phases,
             described' \subseteq up'
      PROVE  Dealt'
  <2>1. UNION chunks' = S /\ {} \notin chunks' /\ task' = [d \in Devices |-> Fresh]
    BY <1>1, StartDealt
  <2>2. \A d \in UNION chunks' : task'[d].calls = 0
    BY <2>1 DEF Fresh
  <2>3. QED
    BY <1>1, <2>1, <2>2 DEF Dealt
<1>2. CASE Load
  <2>1. /\ StartPhase(fleet) /\ fleet' = fleet /\ pc' = "ping"
        /\ up' = up /\ described' = described
    BY <1>2 DEF Load, results
  <2>2. QED
    BY <1>1, <2>1 DEF DueNow, Shape, Dealt, Phases
<1>3. CASE Barrier
  <2>1. /\ pc' \in {"probe", "query", "interfaces", "publish"}
        /\ fleet' = fleet /\ up' = up /\ described' = described
    BY <1>3 DEF Barrier, NextPhase, Phases, results
  <2>2. CASE pc' = "publish"
    BY <1>3, <2>1, <2>2 DEF Barrier, Dealt, Phases
  <2>3. CASE pc' # "publish"
    <3> DEFINE S == TargetsOf(pc')
    <3>1. StartPhase(S)
      BY <1>3, <2>3 DEF Barrier
    <3>2. S \in SUBSET Devices /\ S = DueNow' /\ pc' \in Phases
      BY <2>1, <2>3 DEF Shape, TargetsOf, DueNow, Phases
    <3>3. described' \subseteq up'
      BY <2>1 DEF Dealt
    <3> HIDE DEF S
    <3>4. QED
      BY <1>1, <3>1, <3>2, <3>3
  <2>4. QED
    BY <2>2, <2>3
<1>4. CASE Tick
  BY <1>4 DEF Tick, Dealt, DueNow, Phases, results
<1>5. ASSUME NEW d, Ping(d) \/ Call(d) PROVE Dealt'
  BY <1>5, PingGoes, CallGoes, GoesKeepsDealt
<1>6. ASSUME NEW d, Raises(d) PROVE Dealt'
  BY <1>6 DEF Raises, Dealt, Phases
<1>7. CASE UNCHANGED vars
  BY <1>7 DEF Dealt, DueNow, vars, results
<1>8. QED
  BY <1>2, <1>3, <1>4, <1>5, <1>6, <1>7 DEF Next, Work

LEMMA DealtAlways == Spec => [](Shape /\ Turns /\ Dealt)
BY ShapeInit, ShapeNext, DealtInit, DealtNext, PTL DEF Spec

\* The chunks some of whose devices are not done.
Todo == {c \in chunks : ~Done(c)}

LEMMA TodoIs == {c \in chunks : ~(c \subseteq Finished)} = Todo
<1> SUFFICES ASSUME NEW c \in chunks PROVE c \subseteq Finished <=> Done(c)
  BY DEF Todo
<1>1. Done(c) => c \subseteq Finished
  BY DEF Finished
<1>2. \A d \in Finished : task[d].at = "done"
  BY DEF Finished, Done
<1>3. QED
  BY <1>1, <1>2 DEF Done

\* A coroutine that goes on finishes its chunk, or no chunk.
LEMMA GoesFinishes ==
    ASSUME Shape, NEW d, Goes(d)
    PROVE  /\ Chunk(d) \in Todo /\ d \in Chunk(d) /\ d \notin Finished
           /\ \/ Finished' = Finished /\ Todo' = Todo
              \/ Finished' = Finished \cup Chunk(d) /\ Todo' = Todo \ {Chunk(d)}
<1>1. PICK c \in chunks : d \in c
  BY DEF Goes
<1>2. Chunk(d) = c
  BY <1>1, ChunkOf
<1>3. ~Done(c) /\ c \in Todo
  BY <1>1 DEF Todo, Done, Goes
<1>4. d \notin Finished
  BY DEF Finished, Done, Goes
<1>5. \A b \in chunks : b # c => (Done(b)' <=> Done(b))
  <2> SUFFICES ASSUME NEW b \in chunks, b # c PROVE Done(b)' <=> Done(b)
    OBVIOUS
  <2>1. d \notin b /\ b \subseteq Devices
    BY <1>1 DEF Shape
  <2>2. \A e \in b : task'[e] = task[e]
    BY <2>1 DEF Goes
  <2>3. QED
    BY <2>2 DEF Done
<1>6. chunks' = chunks
  BY DEF Goes
<1>7. CASE Done(c)'
  <2>1. {b \in chunks : Done(b)'} = {b \in chunks : Done(b)} \cup {c}
    BY <1>5, <1>7
  <2>2. Finished' = Finished \cup c
    BY <1>6, <2>1 DEF Finished
  <2>3. Todo' = Todo \ {c}
    BY <1>5, <1>6, <1>7 DEF Todo
  <2>4. QED
    BY <1>1, <1>2, <1>3, <1>4, <2>2, <2>3
<1>8. CASE ~Done(c)'
  <2>1. {b \in chunks : Done(b)'} = {b \in chunks : Done(b)}
    BY <1>3, <1>5, <1>8
  <2>2. Finished' = Finished
    BY <1>6, <2>1 DEF Finished
  <2>3. Todo' = Todo
    BY <1>3, <1>5, <1>6, <1>8 DEF Todo
  <2>4. QED
    BY <1>1, <1>2, <1>3, <1>4, <2>2, <2>3
<1>9. QED
  BY <1>7, <1>8

\* The cycle as a function of its fields.
Fields == {"pc", "targets", "todo", "pinged", "answered", "probed", "up", "described",
           "queried", "projectors", "walked", "batch", "attempts", "status"}

HasFields(c) == c = [f \in Fields |-> c[f]]

\* A cycle that is not retrying, by its fields.
ACycle(phase, targets, todo, pinged, replied, probed, alive, texts, queried, lamps, walked) ==
    [pc |-> phase, targets |-> targets, todo |-> todo, pinged |-> pinged, answered |-> replied,
     probed |-> probed, up |-> alive, described |-> texts, queried |-> queried,
     projectors |-> lamps, walked |-> walked, batch |-> {}, attempts |-> 0, status |-> "none"]

\* Those of the devices whose chunk has returned.
Part(devices) == devices \cap Finished

LEMMA FieldsOf ==
    ASSUME NEW p, NEW t, NEW o, NEW n, NEW r, NEW b, NEW u, NEW s, NEW q, NEW l, NEW w,
           NEW c, c = ACycle(p, t, o, n, r, b, u, s, q, l, w)
    PROVE  /\ c.pc = p /\ c.targets = t /\ c.todo = o /\ c.pinged = n /\ c.answered = r
           /\ c.probed = b /\ c.up = u /\ c.described = s /\ c.queried = q
           /\ c.projectors = l /\ c.walked = w
           /\ c.batch = {} /\ c.attempts = 0 /\ c.status = "none"
BY DEF ACycle

\* The cycle of the only job, phase by phase.
CycleByPhase ==
    /\ HasFields(AsCycle)
    /\ pc = "idle" => AsCycle = ACycle("idle", {}, Todo, {}, {}, {}, {}, {}, {}, {}, {})
    /\ pc = "ping" =>
        AsCycle = ACycle("ping", fleet, Todo, Part(fleet), Part(answered), {}, {}, {}, {}, {}, {})
    /\ pc = "probe" =>
        AsCycle = ACycle("probe", fleet, Todo, fleet, answered, Part(fleet), Part(up),
                         Part(described), {}, {}, {})
    /\ pc = "query" =>
        AsCycle = ACycle("query", fleet, Todo, fleet, answered, fleet, up, described,
                         Part(up), Part(WithText), {})
    /\ pc = "interfaces" =>
        AsCycle = ACycle("interfaces", fleet, Todo, fleet, answered, fleet, up, described,
                         up, WithText, Part(up))
    /\ pc = "publish" =>
        AsCycle = ACycle("publish", fleet, Todo, fleet, answered, fleet, up, described,
                         up, WithText, up)

LEMMA CyclePhases == CycleByPhase
<1> DEFINE returned(phase, devices) ==
             CASE Order[pc] < Order[phase] -> {}
               [] Order[pc] = Order[phase] -> devices \cap Finished
               [] OTHER -> devices
<1>1. /\ Order["idle"] = 0 /\ Order["ping"] = 1 /\ Order["probe"] = 2 /\ Order["query"] = 3
      /\ Order["interfaces"] = 4 /\ Order["publish"] = 5
  BY DEF Order
<1>2. AsCycle =
        [pc |-> IF pc = "failed" THEN "idle" ELSE pc,
         targets |-> Targets, todo |-> Todo,
         pinged |-> returned("ping", Targets), answered |-> returned("ping", answered),
         probed |-> returned("probe", Targets), up |-> returned("probe", up),
         described |-> returned("probe", described),
         queried |-> returned("query", up), projectors |-> returned("query", WithText),
         walked |-> returned("interfaces", up),
         batch |-> {}, attempts |-> 0,
         status |-> IF pc = "failed" THEN "failed_snmp_collection" ELSE "none"]
  BY TodoIs DEF AsCycle
<1>3. ASSUME NEW phase, NEW devices, Order[pc] \in Nat, Order[phase] \in Nat
      PROVE  returned(phase, devices) =
                IF Order[pc] < Order[phase] THEN {}
                ELSE IF Order[pc] = Order[phase] THEN Part(devices) ELSE devices
  <2>1. CASE Order[pc] < Order[phase]
    BY <1>3, <2>1
  <2>2. CASE Order[pc] = Order[phase]
    BY <1>3, <2>2 DEF Part
  <2>3. CASE Order[pc] > Order[phase]
    BY <1>3, <2>3
  <2>4. QED
    BY <1>3, <2>1, <2>2, <2>3
<1> HIDE DEF returned
<1>4. HasFields(AsCycle)
  BY <1>2 DEF HasFields, Fields
<1>5. CASE pc = "idle"
  BY <1>1, <1>2, <1>3, <1>4, <1>5 DEF CycleByPhase, ACycle, Targets
<1>6. CASE pc = "ping"
  BY <1>1, <1>2, <1>3, <1>4, <1>6 DEF CycleByPhase, ACycle, Targets
<1>7. CASE pc = "probe"
  BY <1>1, <1>2, <1>3, <1>4, <1>7 DEF CycleByPhase, ACycle, Targets
<1>8. CASE pc = "query"
  BY <1>1, <1>2, <1>3, <1>4, <1>8 DEF CycleByPhase, ACycle, Targets
<1>9. CASE pc = "interfaces"
  BY <1>1, <1>2, <1>3, <1>4, <1>9 DEF CycleByPhase, ACycle, Targets
<1>10. CASE pc = "publish"
  BY <1>1, <1>2, <1>3, <1>4, <1>10 DEF CycleByPhase, ACycle, Targets
<1>11. QED
  BY <1>4, <1>5, <1>6, <1>7, <1>8, <1>9, <1>10 DEF CycleByPhase

\* What a step of the only job is to SnmpCycle.
Only == <<0, "all">>

LEMMA OneCycle ==
    /\ Cycle!Jobs = {Only}
    /\ [j \in {Only} |-> AsCycle][Only] = AsCycle
BY DEF Cycle!Jobs, OneJob, Only

LEMMA OneStep ==
    ASSUME NEW c, fleet' = fleet, AsCycle' = c
    PROVE  Cycle!CycleStep(Only, c) /\ UNCHANGED Cycle!tables
<1>1. [j \in {Only} |-> AsCycle'] = [[j \in {Only} |-> AsCycle] EXCEPT ![Only] = c]
  OBVIOUS
<1>2. QED
  BY <1>1 DEF Cycle!CycleStep, Cycle!tables, OneJob, Only

\* A phase starts with all its chunks to come.
LEMMA StartTodo ==
    ASSUME NEW S \in SUBSET Devices, StartPhase(S)
    PROVE  Finished' = {} /\ Todo' = Cycle!SplitEven(S)
<1>1. chunks' = Cycle!SplitEven(S) /\ {} \notin chunks' /\ UNION chunks' = S
      /\ task' = [d \in Devices |-> Fresh]
  BY StartDealt DEF StartPhase
<1>2. \A d \in Devices : task'[d].at # "done"
  BY <1>1 DEF Fresh
<1>3. \A c \in chunks' : ~Done(c)'
  BY <1>1, <1>2 DEF Done
<1>4. QED
  BY <1>1, <1>3 DEF Finished, Todo

LEMMA LoadMaps ==
    ASSUME Shape, Dealt, Load
    PROVE  Cycle!Next
<1>1. /\ pc = "idle" /\ pc' = "ping" /\ fleet # {} /\ fleet' = fleet
      /\ StartPhase(fleet) /\ fleet \in SUBSET Devices
  BY DEF Load, Shape
<1>2. Todo = {}
  BY <1>1 DEF Dealt, Todo, Phases
<1>3. AsCycle = Cycle!NewCycle("idle", {})
  BY <1>1, <1>2, CyclePhases DEF CycleByPhase, ACycle, Cycle!NewCycle
<1>4. Finished' = {} /\ Todo' = Cycle!SplitEven(fleet)
  BY <1>1, StartTodo
<1>5. CycleByPhase'
  BY CyclePhases, PTL
<1>6. AsCycle' = ACycle("ping", fleet, Cycle!SplitEven(fleet), {}, {}, {}, {}, {}, {}, {}, {})
  BY <1>1, <1>4, <1>5 DEF CycleByPhase, Part, ACycle
<1>7. AsCycle' = [Cycle!NewCycle("ping", fleet) EXCEPT !.todo = Cycle!SplitEven(fleet)]
  BY <1>6 DEF ACycle, Cycle!NewCycle
<1>8. {d \in fleet : Cycle!InShard(d, Only[1], OneJob(fleet).total)} = fleet
  BY DEF Cycle!InShard, OneJob
<1>9. /\ Cycle!CycleStep(Only, [Cycle!NewCycle("ping", fleet)
                                  EXCEPT !.todo = Cycle!SplitEven(fleet)])
      /\ UNCHANGED Cycle!tables
  BY <1>1, <1>7, OneStep
<1>10. AsCycle.pc = "idle"
  BY <1>3 DEF Cycle!NewCycle
<1>11. Cycle!Load(Only)
  BY <1>1, <1>8, <1>9, <1>10, OneCycle DEF Cycle!Load, Only
<1>12. QED
  BY <1>11, OneCycle DEF Cycle!Next, Cycle!Collect

LEMMA SameFields ==
    ASSUME NEW c, NEW d, HasFields(c), HasFields(d), \A f \in Fields : c[f] = d[f]
    PROVE  c = d
<1>1. [f \in Fields |-> c[f]] = [f \in Fields |-> d[f]]
  OBVIOUS
<1>2. QED
  BY <1>1, Zenon DEF HasFields

\* The fields a step leaves as they are.
Keeps(fields) == \A f \in Fields \ fields : AsCycle'[f] = AsCycle[f]

\* What a phase's targets, or some of them, are when all chunks are done.
LEMMA AllAreDone ==
    ASSUME Shape, Dealt, pc \in Phases, \A c \in chunks : Done(c)
    PROVE  /\ Finished = DueNow /\ Todo = {}
           /\ pc \in {"ping", "probe"} =>
                Part(fleet) = fleet /\ Part(answered) = answered
                /\ Part(up) = up /\ Part(described) = described
           /\ pc \notin {"ping", "probe"} => Part(up) = up /\ Part(WithText) = WithText
<1>1. Finished = UNION chunks /\ Todo = {}
  BY DEF Finished, Todo
<1>2. Finished = DueNow
  BY <1>1 DEF Dealt
<1>3. WithText \subseteq up
  BY DEF WithText
<1>4. QED
  BY <1>1, <1>2, <1>3 DEF Shape, DueNow, Part

LEMMA BarrierMaps ==
    ASSUME Shape, Dealt, Barrier
    PROVE  Cycle!Next
<1> DEFINE todo == IF pc' = "publish" THEN {} ELSE Cycle!SplitEven(TargetsOf(pc'))
           c == [AsCycle EXCEPT !.pc = pc', !.todo = todo]
<1>1. /\ pc \in Phases /\ pc' = NextPhase[pc]
      /\ pc' \in {"probe", "query", "interfaces", "publish"}
      /\ fleet' = fleet /\ answered' = answered /\ up' = up /\ described' = described
      /\ queries' = queries
      /\ \A b \in chunks : Done(b)
  BY DEF Barrier, NextPhase, Phases, results
<1>2. Finished' = {} /\ Todo' = todo
  <2>1. CASE pc' = "publish"
    BY <2>1 DEF Barrier, Finished, Todo
  <2>2. CASE pc' # "publish"
    <3>1. StartPhase(TargetsOf(pc')) /\ TargetsOf(pc') \in SUBSET Devices
      BY <2>2 DEF Barrier, TargetsOf, Shape
    <3>2. QED
      BY <2>2, <3>1, StartTodo
  <2>3. QED
    BY <2>1, <2>2
<1>3. CycleByPhase /\ CycleByPhase'
  BY CyclePhases, PTL
<1>4. WithText' = WithText
  BY <1>1 DEF WithText
<1> HIDE DEF todo
<1>5. AsCycle'.pc = pc' /\ AsCycle'.todo = todo /\ Keeps({"pc", "todo"})
  <2>1. CASE pc = "ping"
    <3>1. pc' = "probe"
      BY <1>1, <2>1 DEF NextPhase
    <3>2. AsCycle = ACycle("ping", fleet, {}, fleet, answered, {}, {}, {}, {}, {}, {})
      BY <1>1, <1>3, <2>1, AllAreDone DEF CycleByPhase
    <3>3. AsCycle' = ACycle("probe", fleet, todo, fleet, answered, {}, {}, {}, {}, {}, {})
      BY <1>1, <1>2, <1>3, <3>1 DEF CycleByPhase, Part
    <3>4. QED
      BY <3>1, <3>2, <3>3, FieldsOf DEF Keeps, Fields
  <2>2. CASE pc = "probe"
    <3>1. pc' = "query"
      BY <1>1, <2>2 DEF NextPhase
    <3>2. AsCycle = ACycle("probe", fleet, {}, fleet, answered, fleet, up, described, {}, {}, {})
      BY <1>1, <1>3, <2>2, AllAreDone DEF CycleByPhase
    <3>3. AsCycle' = ACycle("query", fleet, todo, fleet, answered, fleet, up, described, {}, {}, {})
      BY <1>1, <1>2, <1>3, <3>1 DEF CycleByPhase, Part
    <3>4. QED
      BY <3>1, <3>2, <3>3, FieldsOf DEF Keeps, Fields
  <2>3. CASE pc = "query"
    <3>1. pc' = "interfaces"
      BY <1>1, <2>3 DEF NextPhase
    <3>2. AsCycle = ACycle("query", fleet, {}, fleet, answered, fleet, up, described,
                           up, WithText, {})
      BY <1>1, <1>3, <2>3, AllAreDone DEF CycleByPhase
    <3>3. AsCycle' = ACycle("interfaces", fleet, todo, fleet, answered, fleet, up, described,
                            up, WithText, {})
      BY <1>1, <1>2, <1>3, <1>4, <3>1 DEF CycleByPhase, Part
    <3>4. QED
      BY <3>1, <3>2, <3>3, FieldsOf DEF Keeps, Fields
  <2>4. CASE pc = "interfaces"
    <3>1. pc' = "publish"
      BY <1>1, <2>4 DEF NextPhase
    <3>2. AsCycle = ACycle("interfaces", fleet, {}, fleet, answered, fleet, up, described,
                           up, WithText, up)
      BY <1>1, <1>3, <2>4, AllAreDone DEF CycleByPhase
    <3>3. AsCycle' = ACycle("publish", fleet, todo, fleet, answered, fleet, up, described,
                            up, WithText, up)
      BY <1>1, <1>2, <1>3, <1>4, <3>1 DEF CycleByPhase, Part
    <3>4. QED
      BY <3>1, <3>2, <3>3, FieldsOf DEF Keeps, Fields
  <2>5. QED
    BY <1>1, <2>1, <2>2, <2>3, <2>4 DEF Phases
<1>6. AsCycle' = c
  <2>1. HasFields(AsCycle) /\ HasFields(AsCycle')
    BY <1>3 DEF CycleByPhase, HasFields
  <2>2. HasFields(c) /\ DOMAIN AsCycle = Fields
    BY <2>1 DEF HasFields
  <2>3. \A f \in Fields : AsCycle'[f] = c[f]
    BY <1>5, <2>2 DEF Keeps, Fields
  <2> HIDE DEF c
  <2>4. QED
    BY <2>1, <2>2, <2>3, SameFields
<1>7. AsCycle.pc = pc /\ AsCycle.todo = {} /\ AsCycle.targets = fleet
      /\ (pc # "ping" => pc = "probe" \/ AsCycle.up = up)
  BY <1>1, <1>3, AllAreDone DEF CycleByPhase, ACycle, Phases
<1>8. pc = "probe" => AsCycle.up = up
  BY <1>1, <1>3, AllAreDone DEF CycleByPhase, ACycle
<1>9. Cycle!NextPhase[pc] = pc'
  BY <1>1 DEF Cycle!NextPhase, NextPhase
<1>10. todo = IF pc' \in Cycle!Phases THEN Cycle!SplitEven(Cycle!TargetsOf(pc', AsCycle)) ELSE {}
  <2>1. CASE pc = "ping"
    BY <1>1, <1>7, <2>1 DEF todo, NextPhase, TargetsOf, Cycle!TargetsOf, Cycle!Phases
  <2>2. CASE pc = "probe"
    BY <1>1, <1>8, <2>2 DEF todo, NextPhase, TargetsOf, Cycle!TargetsOf, Cycle!Phases
  <2>3. CASE pc \in {"query", "interfaces"}
    BY <1>1, <1>7, <2>3 DEF todo, NextPhase, TargetsOf, Cycle!TargetsOf, Cycle!Phases
  <2>4. QED
    BY <1>1, <2>1, <2>2, <2>3 DEF Phases
<1>11. Cycle!CycleStep(Only, c) /\ UNCHANGED Cycle!tables
  BY <1>1, <1>6, OneStep
<1>12. Cycle!Barrier(Only)
  BY <1>1, <1>7, <1>9, <1>10, <1>11, OneCycle DEF Cycle!Barrier, Cycle!Phases, Phases, Only
<1>13. QED
  BY <1>12, OneCycle DEF Cycle!Next, Cycle!Collect

LEMMA RaisesMaps ==
    ASSUME Shape, NEW d, Raises(d)
    PROVE  Cycle!Next
<1>1. pc \in Phases /\ pc' = "failed" /\ fleet' = fleet /\ chunks' = {}
  BY DEF Raises
<1>2. Order["ping"] = 1 /\ Order["probe"] = 2 /\ Order["query"] = 3 /\ Order["interfaces"] = 4
      /\ Order["failed"] = 0
  BY DEF Order
<1>3. AsCycle' = Cycle!Ended("failed_snmp_collection")
  BY <1>1, <1>2 DEF AsCycle, Targets, Cycle!Ended, Cycle!NewCycle
<1>4. CycleByPhase
  BY CyclePhases
<1>5. AsCycle.pc = pc
  BY <1>1, <1>4 DEF CycleByPhase, ACycle, Phases
<1>6. /\ Cycle!CycleStep(Only, Cycle!Ended("failed_snmp_collection"))
      /\ UNCHANGED Cycle!tables
  BY <1>1, <1>3, OneStep
<1>7. Cycle!Fault
  BY <1>1 DEF Cycle!Fault, Phases
<1>8. Cycle!CollectionFails(Only)
  BY <1>1, <1>5, <1>6, <1>7, OneCycle DEF Cycle!CollectionFails, Cycle!Phases, Phases, Only
<1>9. QED
  BY <1>8, OneCycle DEF Cycle!Next, Cycle!Fail

\* The parts its chunks have returned, when a coroutine has gone on.
LEMMA GoesShows ==
    ASSUME Shape, NEW d, Goes(d)
    PROVE  /\ Finished' = Finished =>
                /\ Part(fleet)' = Part(fleet) /\ Part(answered)' = Part(answered)
                /\ Part(up)' = Part(up) /\ Part(described)' = Part(described)
                /\ Part(WithText)' = Part(WithText)
           /\ Finished' = Finished \cup Chunk(d) =>
                /\ Part(fleet)' = Part(fleet) \cup (fleet \cap Chunk(d))
                /\ Part(answered)' = Part(answered) \cup (answered' \cap Chunk(d))
                /\ Part(up)' = Part(up) \cup (up' \cap Chunk(d))
                /\ Part(described)' = Part(described) \cup (described' \cap Chunk(d))
                /\ Part(WithText)' = Part(WithText) \cup (WithText' \cap Chunk(d))
<1>1. /\ fleet \subseteq Devices /\ fleet' = fleet /\ d \in Devices
      /\ answered \subseteq Devices /\ up \subseteq Devices /\ described \subseteq Devices
  BY DEF Shape, Goes
<1>2. answered' \subseteq answered \cup {d} /\ answered \subseteq answered'
  BY DEF Goes
<1>3. up' \subseteq up \cup {d} /\ up \subseteq up'
  BY DEF Goes
<1>4. described' \subseteq described \cup {d} /\ described \subseteq described'
  BY DEF Goes
<1>5. \A e \in Devices \ {d} : e \in WithText <=> e \in WithText'
  BY <1>3 DEF WithText, Goes
<1>6. WithText \subseteq Devices /\ WithText' \subseteq Devices
  BY <1>1, <1>3 DEF WithText
<1> DEFINE Shows(X, Y) ==
             /\ Finished' = Finished => Y \cap Finished' = X \cap Finished
             /\ Finished' = Finished \cup Chunk(d) =>
                    Y \cap Finished' = (X \cap Finished) \cup (Y \cap Chunk(d))
<1>7. ASSUME NEW X \in SUBSET Devices, NEW Y \in SUBSET Devices,
             \A e \in Devices \ {d} : e \in X <=> e \in Y
      PROVE  Shows(X, Y)
  <2>1. d \notin Finished /\ d \in Chunk(d)
    BY GoesFinishes
  <2>2. X \cap Finished = Y \cap Finished
    BY <1>7, <2>1
  <2>3. QED
    BY <2>2
<1> HIDE DEF Shows
<1>8. Shows(fleet, fleet') /\ Shows(answered, answered') /\ Shows(up, up')
  BY <1>1, <1>2, <1>3, <1>7
<1>9. Shows(described, described') /\ Shows(WithText, WithText')
  BY <1>1, <1>4, <1>5, <1>6, <1>7
<1>10. QED
  BY <1>1, <1>8, <1>9 DEF Shows, Part

\* A coroutine that leaves its chunk unfinished changes nothing there.
LEMMA GoesUnseen ==
    ASSUME Shape, Dealt, NEW d, Goes(d), Finished' = Finished, Todo' = Todo
    PROVE  UNCHANGED Cycle!vars
<1>1. /\ Part(fleet)' = Part(fleet) /\ Part(answered)' = Part(answered) /\ Part(up)' = Part(up)
      /\ Part(described)' = Part(described) /\ Part(WithText)' = Part(WithText)
  BY GoesShows
<1>2. /\ pc \in Phases /\ pc' = pc /\ fleet' = fleet
      /\ pc # "ping" => answered' = answered
      /\ pc # "probe" => up' = up /\ described' = described
      /\ pc # "query" => queries' = queries
  BY DEF Goes
<1>3. CycleByPhase /\ CycleByPhase'
  BY CyclePhases, PTL
<1>4. AsCycle' = AsCycle
  <2>1. CASE pc = "ping"
    BY <1>1, <1>2, <1>3, <2>1, Zenon DEF CycleByPhase
  <2>2. CASE pc = "probe"
    BY <1>1, <1>2, <1>3, <2>2 DEF CycleByPhase
  <2>3. CASE pc = "query"
    BY <1>1, <1>2, <1>3, <2>3 DEF CycleByPhase
  <2>4. CASE pc = "interfaces"
    <3>1. WithText' = WithText
      BY <1>2, <2>4 DEF WithText
    <3>2. QED
      BY <1>1, <1>2, <1>3, <2>4, <3>1 DEF CycleByPhase
  <2>5. QED
    BY <1>2, <2>1, <2>2, <2>3, <2>4 DEF Phases
<1>5. QED
  BY <1>2, <1>4 DEF Cycle!vars, Cycle!tables, OneJob

\* A coroutine that ends its chunk is the worker that comes back with it.
LEMMA GoesReturns ==
    ASSUME Shape, Dealt, NEW d, Goes(d),
           Finished' = Finished \cup Chunk(d), Todo' = Todo \ {Chunk(d)}
    PROVE  Cycle!Next
<1> DEFINE k == Chunk(d)
<1>1. k \in Todo /\ Todo' = Todo \ {k} /\ k \subseteq fleet /\ k \subseteq DueNow
  BY GoesFinishes DEF Shape, Dealt, Todo, Goes
<1>2. /\ Part(fleet)' = Part(fleet) \cup (fleet \cap k)
      /\ Part(answered)' = Part(answered) \cup (answered' \cap k)
      /\ Part(up)' = Part(up) \cup (up' \cap k)
      /\ Part(described)' = Part(described) \cup (described' \cap k)
      /\ Part(WithText)' = Part(WithText) \cup (WithText' \cap k)
  BY GoesShows
<1>3. /\ pc \in Phases /\ pc' = pc /\ fleet' = fleet
      /\ pc # "ping" => answered' = answered
      /\ pc # "probe" => up' = up /\ described' = described
      /\ pc # "query" => queries' = queries
  BY DEF Goes
<1>4. CycleByPhase /\ CycleByPhase'
  BY CyclePhases, PTL
<1>5. HasFields(AsCycle) /\ HasFields(AsCycle') /\ DOMAIN AsCycle = Fields
  BY <1>4 DEF CycleByPhase, HasFields
<1> HIDE DEF k
<1>6. CASE pc = "ping"
  <2> DEFINE replied == answered' \cap k
             c == [[AsCycle EXCEPT !.pinged = @ \cup k, !.answered = @ \cup replied]
                     EXCEPT !.todo = @ \ {k}]
  <2>1. AsCycle = ACycle("ping", fleet, Todo, Part(fleet), Part(answered), {}, {}, {}, {}, {}, {})
    BY <1>4, <1>6 DEF CycleByPhase
  <2>2. AsCycle' = ACycle("ping", fleet, Todo \ {k}, Part(fleet) \cup k,
                          Part(answered) \cup replied, {}, {}, {}, {}, {}, {})
    BY <1>1, <1>2, <1>3, <1>4, <1>6 DEF CycleByPhase
  <2> HIDE DEF replied
  <2>3. Keeps({"pinged", "answered", "todo"})
    <3>1. /\ AsCycle'.pc = AsCycle.pc /\ AsCycle'.targets = AsCycle.targets
          /\ AsCycle'.probed = AsCycle.probed /\ AsCycle'.up = AsCycle.up
          /\ AsCycle'.described = AsCycle.described /\ AsCycle'.queried = AsCycle.queried
          /\ AsCycle'.projectors = AsCycle.projectors /\ AsCycle'.walked = AsCycle.walked
          /\ AsCycle'.batch = AsCycle.batch /\ AsCycle'.attempts = AsCycle.attempts
          /\ AsCycle'.status = AsCycle.status
      BY <2>1, <2>2 DEF ACycle
    <3>2. QED
      BY <3>1 DEF Keeps, Fields
  <2>4. /\ AsCycle'.pinged = AsCycle.pinged \cup k
        /\ AsCycle'.answered = AsCycle.answered \cup replied
        /\ AsCycle'.todo = AsCycle.todo \ {k}
    BY <2>1, <2>2, FieldsOf
  <2>5. HasFields(c)
    BY <1>5 DEF HasFields
  <2>6. \A f \in Fields : AsCycle'[f] = c[f]
    BY <1>5, <2>3, <2>4 DEF Keeps, Fields
  <2>7. AsCycle' = c
    <3> HIDE DEF c
    <3>1. QED
      BY <1>5, <2>5, <2>6, SameFields
  <2>8. Cycle!CycleStep(Only, c) /\ UNCHANGED Cycle!tables
    BY <1>3, <2>7, OneStep
  <2>9. AsCycle.pc = "ping" /\ AsCycle.todo = Todo
    BY <2>1 DEF ACycle
  <2>10. Cycle!Ping(Only, k, replied)
    BY <1>1, <1>3, <2>8, <2>9, OneCycle DEF Cycle!Ping, Cycle!ChunkDone, Only
  <2>11. QED
    BY <1>1, <2>9, <2>10, OneCycle DEF replied, Cycle!Next, Cycle!Collect, Only
<1>7. CASE pc = "probe"
  <2> DEFINE alive == up' \cap k
             texts == described' \cap k
             c == [[AsCycle EXCEPT !.probed = @ \cup k, !.up = @ \cup alive,
                                     !.described = @ \cup texts] EXCEPT !.todo = @ \ {k}]
  <2>1. AsCycle = ACycle("probe", fleet, Todo, fleet, answered, Part(fleet), Part(up),
                         Part(described), {}, {}, {})
    BY <1>4, <1>7 DEF CycleByPhase
  <2>2. AsCycle' = ACycle("probe", fleet, Todo \ {k}, fleet, answered, Part(fleet) \cup k,
                          Part(up) \cup alive, Part(described) \cup texts, {}, {}, {})
    BY <1>1, <1>2, <1>3, <1>4, <1>7 DEF CycleByPhase
  <2> HIDE DEF alive, texts
  <2>3. Keeps({"probed", "up", "described", "todo"})
    <3>1. /\ AsCycle'.pc = AsCycle.pc /\ AsCycle'.targets = AsCycle.targets
          /\ AsCycle'.pinged = AsCycle.pinged /\ AsCycle'.answered = AsCycle.answered
          /\ AsCycle'.queried = AsCycle.queried /\ AsCycle'.projectors = AsCycle.projectors
          /\ AsCycle'.walked = AsCycle.walked /\ AsCycle'.batch = AsCycle.batch
          /\ AsCycle'.attempts = AsCycle.attempts /\ AsCycle'.status = AsCycle.status
      BY <2>1, <2>2 DEF ACycle
    <3>2. QED
      BY <3>1 DEF Keeps, Fields
  <2>4. /\ AsCycle'.probed = AsCycle.probed \cup k
        /\ AsCycle'.up = AsCycle.up \cup alive
        /\ AsCycle'.described = AsCycle.described \cup texts
        /\ AsCycle'.todo = AsCycle.todo \ {k}
    BY <2>1, <2>2, FieldsOf
  <2>5. HasFields(c)
    BY <1>5 DEF HasFields
  <2>6. \A f \in Fields : AsCycle'[f] = c[f]
    BY <1>5, <2>3, <2>4 DEF Keeps, Fields
  <2>7. AsCycle' = c
    <3> HIDE DEF c
    <3>1. QED
      BY <1>5, <2>5, <2>6, SameFields
  <2>8. Cycle!CycleStep(Only, c) /\ UNCHANGED Cycle!tables
    BY <1>3, <2>7, OneStep
  <2>9. AsCycle.pc = "probe" /\ AsCycle.todo = Todo
    BY <2>1 DEF ACycle
  <2>10. Cycle!Probe(Only, k, alive, texts)
    BY <1>1, <1>3, <2>8, <2>9, OneCycle DEF Cycle!Probe, Cycle!ChunkDone, Only
  <2>11. texts \subseteq alive
    BY GoesKeepsDealt DEF Dealt, alive, texts
  <2>12. QED
    BY <1>1, <2>9, <2>10, <2>11, OneCycle DEF alive, Cycle!Next, Cycle!Collect, Only
<1>8. CASE pc = "query"
  <2> DEFINE lamps == WithText' \cap k
             c == [[AsCycle EXCEPT !.queried = @ \cup k, !.projectors = @ \cup lamps]
                     EXCEPT !.todo = @ \ {k}]
  <2>1. AsCycle = ACycle("query", fleet, Todo, fleet, answered, fleet, up, described,
                         Part(up), Part(WithText), {})
    BY <1>4, <1>8 DEF CycleByPhase
  <2>2. AsCycle' = ACycle("query", fleet, Todo \ {k}, fleet, answered, fleet, up, described,
                          Part(up) \cup k, Part(WithText) \cup lamps, {})
    BY <1>1, <1>2, <1>3, <1>4, <1>8 DEF CycleByPhase, DueNow
  <2> HIDE DEF lamps
  <2>3. Keeps({"queried", "projectors", "todo"})
    <3>1. /\ AsCycle'.pc = AsCycle.pc /\ AsCycle'.targets = AsCycle.targets
          /\ AsCycle'.pinged = AsCycle.pinged /\ AsCycle'.answered = AsCycle.answered
          /\ AsCycle'.probed = AsCycle.probed /\ AsCycle'.up = AsCycle.up
          /\ AsCycle'.described = AsCycle.described /\ AsCycle'.walked = AsCycle.walked
          /\ AsCycle'.batch = AsCycle.batch /\ AsCycle'.attempts = AsCycle.attempts
          /\ AsCycle'.status = AsCycle.status
      BY <2>1, <2>2 DEF ACycle
    <3>2. QED
      BY <3>1 DEF Keeps, Fields
  <2>4. /\ AsCycle'.queried = AsCycle.queried \cup k
        /\ AsCycle'.projectors = AsCycle.projectors \cup lamps
        /\ AsCycle'.todo = AsCycle.todo \ {k}
    BY <2>1, <2>2, FieldsOf
  <2>5. HasFields(c)
    BY <1>5 DEF HasFields
  <2>6. \A f \in Fields : AsCycle'[f] = c[f]
    BY <1>5, <2>3, <2>4 DEF Keeps, Fields
  <2>7. AsCycle' = c
    <3> HIDE DEF c
    <3>1. QED
      BY <1>5, <2>5, <2>6, SameFields
  <2>8. Cycle!CycleStep(Only, c) /\ UNCHANGED Cycle!tables
    BY <1>3, <2>7, OneStep
  <2>9. AsCycle.pc = "query" /\ AsCycle.todo = Todo
    BY <2>1 DEF ACycle
  <2>10. Cycle!Query(Only, k, lamps)
    BY <1>1, <1>3, <2>8, <2>9, OneCycle DEF Cycle!Query, Cycle!ChunkDone, Only
  <2>11. lamps \subseteq k \cap {e \in Devices : QueryFor(Route[e]) = "projector"}
    BY <1>1 DEF WithText, Shape, lamps
  <2>12. QED
    BY <1>1, <2>9, <2>10, <2>11, OneCycle DEF Cycle!Next, Cycle!Collect, Only
<1>9. CASE pc = "interfaces"
  <2> DEFINE c == [[AsCycle EXCEPT !.walked = @ \cup k] EXCEPT !.todo = @ \ {k}]
  <2>1. AsCycle = ACycle("interfaces", fleet, Todo, fleet, answered, fleet, up, described,
                         up, WithText, Part(up))
    BY <1>4, <1>9 DEF CycleByPhase
  <2>2. AsCycle' = ACycle("interfaces", fleet, Todo \ {k}, fleet, answered, fleet, up, described,
                          up, WithText, Part(up) \cup k)
    BY <1>1, <1>2, <1>3, <1>4, <1>9 DEF CycleByPhase, DueNow, WithText
  <2>3. Keeps({"walked", "todo"})
    <3>1. /\ AsCycle'.pc = AsCycle.pc /\ AsCycle'.targets = AsCycle.targets
          /\ AsCycle'.pinged = AsCycle.pinged /\ AsCycle'.answered = AsCycle.answered
          /\ AsCycle'.probed = AsCycle.probed /\ AsCycle'.up = AsCycle.up
          /\ AsCycle'.described = AsCycle.described /\ AsCycle'.queried = AsCycle.queried
          /\ AsCycle'.projectors = AsCycle.projectors /\ AsCycle'.batch = AsCycle.batch
          /\ AsCycle'.attempts = AsCycle.attempts /\ AsCycle'.status = AsCycle.status
      BY <2>1, <2>2 DEF ACycle
    <3>2. QED
      BY <3>1 DEF Keeps, Fields
  <2>4. /\ AsCycle'.walked = AsCycle.walked \cup k
        /\ AsCycle'.todo = AsCycle.todo \ {k}
    BY <2>1, <2>2, FieldsOf
  <2>5. HasFields(c)
    BY <1>5 DEF HasFields
  <2>6. \A f \in Fields : AsCycle'[f] = c[f]
    BY <1>5, <2>3, <2>4 DEF Keeps, Fields
  <2>7. AsCycle' = c
    <3> HIDE DEF c
    <3>1. QED
      BY <1>5, <2>5, <2>6, SameFields
  <2>8. Cycle!CycleStep(Only, c) /\ UNCHANGED Cycle!tables
    BY <1>3, <2>7, OneStep
  <2>9. AsCycle.pc = "interfaces" /\ AsCycle.todo = Todo
    BY <2>1 DEF ACycle
  <2>10. Cycle!Walk(Only, k)
    BY <1>1, <1>3, <2>8, <2>9, OneCycle DEF Cycle!Walk, Cycle!ChunkDone, Only
  <2>11. QED
    BY <1>1, <2>9, <2>10, OneCycle DEF Cycle!Next, Cycle!Collect, Only
<1>10. QED
  BY <1>3, <1>6, <1>7, <1>8, <1>9 DEF Phases

LEMMA InitMaps == Init => Cycle!Init
<1> SUFFICES ASSUME Init PROVE Cycle!Init
  OBVIOUS
<1>1. pc = "idle" /\ chunks = {} /\ fleet \in Fleets
  BY DEF Init
<1>2. AsCycle = Cycle!NewCycle("idle", {})
  BY <1>1, CyclePhases DEF CycleByPhase, ACycle, Cycle!NewCycle, Todo
<1>3. /\ OneJob(fleet) \in {OneJob(targets) : targets \in Fleets}
      /\ fleet \subseteq OneJob(fleet).devices
  BY <1>1 DEF OneJob
<1>4. QED
  BY <1>1, <1>2, <1>3, OneCycle DEF Cycle!Init, Only

(* Seen from outside its chunks, a collection is the one SnmpCycle takes   *)
(* for granted: _get_snmp_raw and the gather of each of its phases.        *)
THEOREM CollectionIsTheCycle == Spec => ImplementsCycle
<1>1. ASSUME Shape, Turns, Dealt, [Next]_vars
      PROVE  UNCHANGED Cycle!vars \/ Cycle!Next
  <2>1. ASSUME NEW d, Goes(d) PROVE UNCHANGED Cycle!vars \/ Cycle!Next
    BY <1>1, <2>1, GoesFinishes, GoesUnseen, GoesReturns
  <2>2. ASSUME NEW d, Ping(d) \/ Call(d) PROVE UNCHANGED Cycle!vars \/ Cycle!Next
    BY <1>1, <2>1, <2>2, PingGoes, CallGoes
  <2>3. CASE Tick
    <3>1. /\ fleet' = fleet /\ pc' = pc /\ chunks' = chunks
          /\ answered' = answered /\ up' = up /\ described' = described /\ queries' = queries
      BY <2>3 DEF Tick, results
    <3>2. \A d \in Devices : task'[d].at = task[d].at
      BY <1>1, <2>3 DEF Tick, Shape, Tasks
    <3>3. \A c \in chunks : Done(c)' <=> Done(c)
      BY <1>1, <3>2 DEF Done, Shape
    <3>4. Finished' = Finished
      BY <3>1, <3>3 DEF Finished
    <3>5. AsCycle' = AsCycle
      BY <3>1, <3>4 DEF AsCycle, Targets, WithText
    <3>6. QED
      BY <3>1, <3>5 DEF Cycle!vars, Cycle!tables, OneJob
  <2>4. CASE UNCHANGED vars
    BY <2>4 DEF vars, results, Cycle!vars, Cycle!tables, AsCycle, Targets, WithText,
               Finished, Done, OneJob
  <2>5. QED
    BY <1>1, <2>2, <2>3, <2>4, LoadMaps, BarrierMaps, RaisesMaps DEF Next, Work
<1>2. QED
  BY <1>1, InitMaps, DealtAlways, PTL DEF Spec, ImplementsCycle


-----------------------------------------------------------------------------
(* A phase comes to an end.                                                *)

\* How far a host is from being done: attempts or calls left, and its place.
Rank(t) ==
    IF t.at = "done" THEN 0
    ELSE 4 * (PingAttempts + 1 - t.calls)
            + (CASE t.at = "sleeping" -> 3 [] t.at = "waiting" -> 2
                 [] t.at \in {"pinging", "queued"} -> 1 [] OTHER -> 0)

(* A step within a phase brings one host nearer to its end and leaves the  *)
(* others alone, or lets time pass, which the budget has no end of.        *)
Advances ==
    pc \in Phases /\ pc' = pc =>
        /\ \A d \in Devices : Rank(task[d]) \in Nat
        /\ \/ \E d \in UNION chunks :
                /\ Rank(task'[d]) < Rank(task[d])
                /\ \A e \in Devices \ {d} : task'[e] = task[e]
           \/ /\ \A d \in Devices : Rank(task'[d]) = Rank(task[d])
              /\ clock' = clock + 1
              /\ \E c \in chunks : clock' <= LongestAlone + LongestWait(c)

LEMMA Ranks ==
    ASSUME NEW t \in Tasks
    PROVE  /\ Rank(t) \in Nat /\ t.calls \in Nat /\ PingAttempts \in Nat
           /\ t.at = "done" => Rank(t) = 0
           /\ t.at # "done" => Rank(t) >= 4
           /\ t.at = "sleeping" => Rank(t) = 4 * (PingAttempts + 1 - t.calls) + 3
           /\ t.at = "waiting" => Rank(t) = 4 * (PingAttempts + 1 - t.calls) + 2
           /\ t.at \in {"pinging", "queued"} => Rank(t) = 4 * (PingAttempts + 1 - t.calls) + 1
           /\ t.at = "calling" => Rank(t) = 4 * (PingAttempts + 1 - t.calls)
<1>1. /\ t.calls \in Nat /\ t.calls <= PingAttempts /\ PingAttempts \in Nat /\ t.at \in States
  BY Attempts DEF Tasks
<1>2. PingAttempts + 1 - t.calls \in Nat /\ PingAttempts + 1 - t.calls >= 1
  BY <1>1
<1>3. /\ t.at = "done" => Rank(t) = 0
      /\ t.at = "sleeping" => Rank(t) = 4 * (PingAttempts + 1 - t.calls) + 3
      /\ t.at = "waiting" => Rank(t) = 4 * (PingAttempts + 1 - t.calls) + 2
      /\ t.at \in {"pinging", "queued"} => Rank(t) = 4 * (PingAttempts + 1 - t.calls) + 1
      /\ t.at = "calling" => Rank(t) = 4 * (PingAttempts + 1 - t.calls) + 0
  BY DEF Rank
<1>4. QED
  BY <1>1, <1>2, <1>3 DEF States

OneNearer ==
    \E d \in UNION chunks :
        /\ Rank(task'[d]) < Rank(task[d])
        /\ \A e \in Devices \ {d} : task'[e] = task[e]

LEMMA StepNearer ==
    ASSUME Shape, NEW d, NEW at, NEW t \in Tasks, Step(d, at, t), Rank(t) < Rank(task[d])
    PROVE  OneNearer
<1>1. d \in UNION chunks
  BY DEF Step
<1>2. QED
  BY <1>1, StepShape DEF OneNearer

\* A host that is done has come nearer.
LEMMA DoneNearer ==
    ASSUME Shape, NEW d, NEW at, at # "done", NEW t \in Tasks, t.at = "done", Step(d, at, t)
    PROVE  OneNearer
<1>1. task[d] \in Tasks /\ task[d].at # "done"
  BY StepShape DEF Shape
<1>2. Rank(t) = 0 /\ Rank(task[d]) >= 4 /\ Rank(task[d]) \in Nat
  BY <1>1, Ranks
<1>3. QED
  BY <1>2, StepNearer

\* So has one that is in a later place with the same attempts or calls.
LEMMA PlaceNearer ==
    ASSUME Shape, NEW d, NEW at, NEW to \in States, Step(d, at, [task[d] EXCEPT !.at = to]),
           \/ at = "waiting" /\ to \in {"pinging", "queued"}
           \/ at = "sleeping" /\ to = "waiting"
           \/ at = "queued" /\ to = "calling"
    PROVE  OneNearer
<1> DEFINE t == [task[d] EXCEPT !.at = to]
<1>1. d \in Devices /\ task[d] \in Tasks /\ task[d].at = at
  BY DEF Step, Shape
<1>2. t \in Tasks /\ t.at = to /\ t.calls = task[d].calls
  BY <1>1, TaskAt
<1>3. Step(d, at, t)
  OBVIOUS
<1> HIDE DEF t
<1>4. /\ task[d].calls \in Nat /\ PingAttempts \in Nat
      /\ at = "sleeping" => Rank(task[d]) = 4 * (PingAttempts + 1 - task[d].calls) + 3
      /\ at = "waiting" => Rank(task[d]) = 4 * (PingAttempts + 1 - task[d].calls) + 2
      /\ at = "queued" => Rank(task[d]) = 4 * (PingAttempts + 1 - task[d].calls) + 1
  BY <1>1, Ranks
<1>5. /\ to = "waiting" => Rank(t) = 4 * (PingAttempts + 1 - task[d].calls) + 2
      /\ to \in {"pinging", "queued"} => Rank(t) = 4 * (PingAttempts + 1 - task[d].calls) + 1
      /\ to = "calling" => Rank(t) = 4 * (PingAttempts + 1 - task[d].calls)
  BY <1>2, Ranks
<1>6. Rank(t) < Rank(task[d])
  BY <1>4, <1>5
<1>7. QED
  BY <1>2, <1>3, <1>6, StepNearer

\* And one with an attempt or a call less to go.
LEMMA CallsNearer ==
    ASSUME Shape, NEW d, NEW at, at \in {"pinging", "calling"}, NEW t \in Tasks, Step(d, at, t),
           t.calls = task[d].calls + 1,
           at = "pinging" => t.at = "sleeping", at = "calling" => t.at = "queued"
    PROVE  OneNearer
<1>1. d \in Devices /\ task[d] \in Tasks /\ task[d].at = at
  BY DEF Step, Shape
<1>2. /\ task[d].calls \in Nat /\ PingAttempts \in Nat
      /\ at = "pinging" => Rank(task[d]) = 4 * (PingAttempts + 1 - task[d].calls) + 1
      /\ at = "calling" => Rank(task[d]) = 4 * (PingAttempts + 1 - task[d].calls)
  BY <1>1, Ranks
<1>3. /\ at = "pinging" => Rank(t) = 4 * (PingAttempts + 1 - (task[d].calls + 1)) + 3
      /\ at = "calling" => Rank(t) = 4 * (PingAttempts + 1 - (task[d].calls + 1)) + 1
  BY Ranks
<1>4. Rank(t) < Rank(task[d])
  BY <1>2, <1>3
<1>5. QED
  BY <1>4, StepNearer

LEMMA PingNearer ==
    ASSUME Shape, Turns, NEW d, Ping(d)
    PROVE  OneNearer
<1>1. CASE Acquire(d)
  <2>1. CASE pc = "ping"
    BY <1>1, <2>1, PlaceNearer DEF Acquire, States
  <2>2. CASE pc # "ping"
    BY <1>1, <2>2, PlaceNearer DEF Acquire, States
  <2>3. QED
    BY <2>1, <2>2
<1>2. CASE PingAnswered(d)
  <2> DEFINE t == [Fresh EXCEPT !.at = "done"]
  <2>1. Step(d, "pinging", t) /\ t \in Tasks /\ t.at = "done"
    BY <1>2, TaskAt, FreshType DEF PingAnswered, States
  <2> HIDE DEF t
  <2>2. QED
    BY <2>1, DoneNearer
<1>3. CASE PingFails(d)
  <2> DEFINE failed == task[d].calls + 1
  <2>1. d \in UNION chunks /\ task[d] \in Tasks /\ task[d].at = "pinging"
    BY <1>3 DEF PingFails, Step, Shape
  <2>2. task[d].calls < PingAttempts /\ task[d].calls \in Nat
    BY <2>1, Attempts DEF Turns, InTurn, Tasks
  <2>3. failed \in 0 .. PingAttempts
    BY <2>2, Attempts
  <2>4. CASE failed < PingAttempts
    <3>1. PICK wait \in Backoff(task[d].calls) :
            Step(d, "pinging", [at |-> "sleeping", calls |-> failed, timer |-> wait])
      BY <1>3, <2>4 DEF PingFails
    <3> DEFINE t == [at |-> "sleeping", calls |-> failed, timer |-> wait]
    <3>2. wait \in Nat
      BY TimesAssumption DEF Backoff
    <3>3. t \in Tasks /\ t.at = "sleeping" /\ t.calls = task[d].calls + 1
      BY <2>3, <3>2 DEF Tasks, States
    <3>4. Step(d, "pinging", t)
      BY <3>1
    <3> HIDE DEF t
    <3>5. QED
      BY <3>3, <3>4, CallsNearer
  <2>5. CASE ~(failed < PingAttempts)
    <3> DEFINE t == [at |-> "done", calls |-> failed, timer |-> 0]
    <3>1. Step(d, "pinging", t)
      BY <1>3, <2>5 DEF PingFails
    <3>2. t \in Tasks /\ t.at = "done"
      BY <2>3 DEF Tasks, States
    <3> HIDE DEF t
    <3>3. QED
      BY <3>1, <3>2, DoneNearer
  <2>6. QED
    BY <2>4, <2>5
<1>4. CASE WakeUp(d)
  BY <1>4, PlaceNearer DEF WakeUp, States
<1>5. QED
  BY <1>1, <1>2, <1>3, <1>4 DEF Ping

LEMMA CallNearer ==
    ASSUME Shape, NEW d, Call(d)
    PROVE  OneNearer
<1>1. CASE Run(d)
  BY <1>1, PlaceNearer DEF Run, States
<1>2. ASSUME NEW at, at # "done", Step(d, at, [task[d] EXCEPT !.at = "done"])
      PROVE  OneNearer
  <2> DEFINE t == [task[d] EXCEPT !.at = "done"]
  <2>1. task[d] \in Tasks
    BY <1>2 DEF Step, Shape
  <2>2. t \in Tasks /\ t.at = "done" /\ Step(d, at, t)
    BY <1>2, <2>1, TaskAt DEF States
  <2> HIDE DEF t
  <2>3. QED
    BY <1>2, <2>2, DoneNearer
<1>3. ASSUME NEW ok \in BOOLEAN, Probe(d, ok) PROVE OneNearer
  <2> DEFINE at == IF ok THEN "queued" ELSE "done"
             t == [at |-> at, calls |-> 1, timer |-> 0]
  <2>1. Step(d, "calling", t) /\ task[d].calls = 0
    BY <1>3 DEF Probe
  <2>2. t \in Tasks /\ t.at = at /\ t.calls = 1
    BY Attempts DEF Tasks, States
  <2> HIDE DEF t
  <2>3. QED
    BY <2>1, <2>2, DoneNearer, CallsNearer
<1>4. ASSUME NEW ok \in BOOLEAN, Describe(d, ok) PROVE OneNearer
  BY <1>2, <1>4 DEF Describe
<1>5. CASE SkipQuery(d) \/ Query(d) \/ Walks(d)
  BY <1>2, <1>5 DEF SkipQuery, Query, Walks
<1>6. QED
  BY <1>1, <1>3, <1>4, <1>5 DEF Call

LEMMA TickAdvances ==
    ASSUME Shape, Turns, Dealt, Budget, Shape', Turns', PingBudget', Tick
    PROVE  /\ \A d \in Devices : Rank(task'[d]) = Rank(task[d])
           /\ clock' = clock + 1
           /\ \E c \in chunks : clock' <= LongestAlone + LongestWait(c)
<1>1. pc = "ping" /\ pc' = pc /\ chunks' = chunks /\ clock' = clock + 1
  BY DEF Tick
<1>2. ASSUME NEW d \in Devices
      PROVE  task'[d].at = task[d].at /\ task'[d].calls = task[d].calls
  <2>1. task[d] \in Tasks
    BY DEF Shape
  <2>2. QED
    BY <2>1 DEF Tick, Tasks
<1>3. \A d \in Devices : Rank(task'[d]) = Rank(task[d])
  BY <1>2 DEF Rank
<1>4. PICK d \in fleet : task[d].at \in {"pinging", "sleeping"}
  BY DEF Tick
<1>5. PICK c \in chunks : d \in c
  BY <1>1 DEF Dealt, DueNow, Phases
<1>6. d \in Devices /\ task'[d].at # "done"
  BY <1>2, <1>4 DEF Shape
<1>7. clock' <= LongestAlone + LongestWait(c)
  BY <1>1, <1>5, <1>6 DEF PingBudget, Done
<1>8. QED
  BY <1>1, <1>3, <1>7

(* No host and no phase goes on for ever: each step within a phase brings  *)
(* one host nearer to being done (retries are counted, a probe has two     *)
(* calls, the rest one), and time passes only within the pings' budget.    *)
THEOREM PhasesAreFinite == Spec => [][Advances]_vars
<1> DEFINE Inv == Shape /\ Turns /\ Dealt /\ PingBudget
<1>1. ASSUME Inv, Inv', Budget, Next, pc \in Phases, pc' = pc
      PROVE  Advances
  <2>1. \A d \in Devices : Rank(task[d]) \in Nat
    BY <1>1, Ranks DEF Shape
  <2>2. ASSUME NEW d, Ping(d) \/ Call(d) PROVE OneNearer
    BY <1>1, <2>2, PingNearer, CallNearer
  <2>3. ~(Load \/ Barrier \/ \E d \in UNION chunks : Raises(d))
    BY <1>1 DEF Load, Barrier, Raises, NextPhase, Phases
  <2>4. QED
    BY <1>1, <2>1, <2>2, <2>3, TickAdvances DEF Next, Work, Advances, OneNearer
<1>2. Next /\ ~(pc \in Phases /\ pc' = pc) => Advances
  BY DEF Advances
<1>3. Spec => []Inv /\ []Budget
  BY DealtAlways, PingsEndInTime, BudgetAlways, PTL
<1>4. QED
  BY <1>1, <1>2, <1>3, PTL DEF Spec
=============================================================================
