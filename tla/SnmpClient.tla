----------------------------- MODULE SnmpClient -----------------------------
(***************************************************************************)
(* One collection of the SNMP cycle, host by host (SNMPClient in           *)
(* snmp/client.py under AVTools._get_snmp_raw, core/av_tools.py).  Each    *)
(* phase splits its devices over worker chunks; every chunk has a client   *)
(* of its own, with its own semaphores and its own handlers by address.    *)
(* Pings are processes with a time limit, tried again after a backoff; the *)
(* blocking SNMP calls of all clients share one pool of threads.  Time     *)
(* passes in whole units, and only while nothing is due.  SnmpCycle models *)
(* the same collection chunk by chunk; this module implements it.          *)
(***************************************************************************)
EXTENDS DeviceReads

CONSTANTS
    Devices,
    Addresses,
    Address,          \* the address of each device: two may share one
    Route,            \* what routing knows of each device
    AgentAt,          \* the agent that answers at each address
    Fleets,           \* sets of targets a collection may start from
    Threads,          \* --threads: worker chunks, and threads of the pool
    PingTimeout,      \* ping_timeout_s
    PingRetries,      \* ping_retries
    PingBackoff,      \* ping_backoff_s
    PingBackoffMax,   \* ping_backoff_max_s
    PingJitter,       \* ping_jitter_s
    PingConcurrency,  \* ping_concurrency, of each client
    ProbeConcurrency, \* snmp_probe_concurrency, of each client
    QueryConcurrency, \* snmp_query_concurrency, of each client
    ProcessMargin,    \* what a ping process gets beyond its own timeout
    MaxFaults         \* bound: requests left unanswered in the reads

ASSUME TargetsAssumption ==
    /\ IsFiniteSet(Devices)
    /\ Address \in [Devices -> Addresses]
    /\ Route \in [Devices -> Routing]
    /\ \A address \in Addresses : IsAgent(AgentAt[address])
    /\ Fleets \subseteq SUBSET Devices
ASSUME TimesAssumption ==
    /\ {PingTimeout, PingBackoff, PingBackoffMax, PingJitter, ProcessMargin} \subseteq Nat
    /\ PingRetries \in Nat
ASSUME SizesAssumption ==
    /\ {Threads, PingConcurrency, ProbeConcurrency, QueryConcurrency} \subseteq Nat \ {0}
    /\ MaxFaults \in Nat

VARIABLES
    fleet,      \* the targets
    pc,         \* the phase
    chunks,     \* the devices of each client of the phase
    first,      \* the devices whose handlers the phase's clients have
    task,       \* the coroutine of each device
    clock,      \* time since the pings began
    answered,   \* devices that answered a ping
    up,         \* devices whose agent answered the probe
    described,  \* devices that gave a sysDescr
    queries,    \* what a query brought, with the requests it lost
    ports,      \* what an interface walk brought, with the requests it lost
    faults      \* requests lost so far

results == <<answered, up, described, queries, ports>>
vars == <<fleet, pc, chunks, first, task, clock, results, faults>>

Phases == {"ping", "probe", "query", "interfaces"}

-----------------------------------------------------------------------------
(* Limits.                                                                 *)

\* Mutant: the first attempt counts as a retry.
RetriesOnly == IF PingRetries < 1 THEN 1 ELSE PingRetries

\* _ping_attempts
PingAttempts == PingRetries + 1

Least(n, m) == IF n < m THEN n ELSE m

\* Mutant: the base is not capped.
BackoffUncapped(i) == {PingBackoff * 2 ^ i + j : j \in 0 .. PingJitter}

\* _next_backoff_s after the failed attempt i, counted from 0.
Backoff(i) ==
    {wait \in 0 .. PingBackoffMax + PingJitter :
        wait - Least(PingBackoff * 2 ^ i, PingBackoffMax) \in 0 .. PingJitter}

Deadline == PingTimeout + ProcessMargin

\* The semaphore of a phase.
Permits(phase) ==
    CASE phase = "ping" -> PingConcurrency
      [] phase = "probe" -> ProbeConcurrency
      [] OTHER -> QueryConcurrency

States == {"waiting", "pinging", "sleeping", "queued", "calling", "done"}

\* Mutants: the semaphore is held while sleeping, or never given back.
HoldingAsleep == {"pinging", "sleeping", "queued", "calling"}
HoldingForEver == {"pinging", "queued", "calling", "done"}

\* What is inside `async with` of the semaphore.
Holding == {"pinging", "queued", "calling"}

(* at: where the coroutine is; calls: attempts that have failed, or SNMP   *)
(* calls that have returned; timer: time spent in the attempt, or to sleep.*)
Tasks == [at : States, calls : 0 .. PingAttempts, timer : Nat]

Fresh == [at |-> "waiting", calls |-> 0, timer |-> 0]

Chunk(d) == CHOOSE c \in chunks : d \in c

Holders(c) == {d \in c : task[d].at \in Holding}

Calling == {d \in fleet : task[d].at = "calling"}

\* Mutant: an off-by-one in the count of permits.
HasPermitBeyond(d) == Cardinality(Holders(Chunk(d))) <= Permits(pc)

HasPermit(d) == Cardinality(Holders(Chunk(d))) < Permits(pc)

-----------------------------------------------------------------------------
(* The collection as SnmpCycle has it: the cycle of the only job, whose    *)
(* chunks come back when the last of their devices is done.                *)

Order == [idle |-> 0, ping |-> 1, probe |-> 2, query |-> 3, interfaces |-> 4,
          publish |-> 5, failed |-> 0]

Done(c) == \A d \in c : task[d].at = "done"

Finished == UNION {c \in chunks : Done(c)}

Targets == IF pc \in {"idle", "failed"} THEN {} ELSE fleet

WithText == {d \in up : queries[d] # None /\ QueryFor(Route[d]) = "projector"}

\* Of what a phase collects, the part its finished chunks have returned.
AsCycle ==
    LET finished == Finished
        returned(phase, devices) ==
            CASE Order[pc] < Order[phase] -> {}
              [] Order[pc] = Order[phase] -> devices \cap finished
              [] OTHER -> devices
    IN  [pc |-> IF pc = "failed" THEN "idle" ELSE pc,
         targets |-> Targets,
         todo |-> {c \in chunks : ~(c \subseteq finished)},
         pinged |-> returned("ping", Targets), answered |-> returned("ping", answered),
         probed |-> returned("probe", Targets), up |-> returned("probe", up),
         described |-> returned("probe", described),
         queried |-> returned("query", up), projectors |-> returned("query", WithText),
         walked |-> returned("interfaces", up),
         batch |-> {}, attempts |-> 0,
         status |-> IF pc = "failed" THEN "failed_snmp_collection" ELSE "none"]

OneJob(targets) == [total |-> 1, tiers |-> {"all"}, devices |-> targets]

Cycle == INSTANCE SnmpCycle WITH
    Hash <- [d \in Devices |-> 0],
    Projectors <- {d \in Devices : QueryFor(Route[d]) = "projector"},
    Deployments <- {OneJob(targets) : targets \in Fleets},
    MaxWorkers <- Threads, FlushAttempts <- 1, NoData <- None,
    MaxChanges <- 0, MaxFaults <- 1,
    deployment <- OneJob(fleet),
    cycle <- [j \in {<<0, "all">>} |-> AsCycle],
    targeted <- [j \in {<<0, "all">>} |-> None],
    projectorRows <- {}, sysdescrRows <- {}, changes <- 0,
    faults <- IF pc = "failed" THEN 1 ELSE 0

-----------------------------------------------------------------------------
(* The start of a phase: chunks, clients and coroutines.                   *)

(* get_handlers: in each client the first device at an address, in an      *)
(* order the cache table does not promise, lends it its handler.           *)
Handlers(parts, owners) ==
    \A c \in parts :
        /\ \A d \in c : \E e \in c \cap owners : Address[e] = Address[d]
        /\ \A d, e \in c \cap owners : Address[d] = Address[e] => d = e

HandlerOf(d) ==
    HandlerFor(Route[CHOOSE e \in Chunk(d) \cap first : Address[e] = Address[d]])

StartPhase(targets) ==
    LET parts == Cycle!SplitEven(targets)
    IN  /\ chunks' = parts
        /\ first' \in {owners \in SUBSET targets : Handlers(parts, owners)}
        /\ task' = [d \in Devices |-> Fresh]

Init ==
    /\ fleet \in Fleets
    /\ pc = "idle"
    /\ chunks = {}
    /\ first = {}
    /\ task = [d \in Devices |-> Fresh]
    /\ clock = 0
    /\ answered = {}
    /\ up = {}
    /\ described = {}
    /\ queries = [d \in Devices |-> None]
    /\ ports = [d \in Devices |-> None]
    /\ faults = 0

Load ==
    /\ pc = "idle"
    /\ fleet # {}
    /\ pc' = "ping"
    /\ StartPhase(fleet)
    /\ UNCHANGED <<fleet, clock, results, faults>>

NextPhase == [ping |-> "probe", probe |-> "query", query |-> "interfaces",
              interfaces |-> "publish"]

\* Mutant: only devices that answered the ping are probed.
TargetsOfAnswered(phase) == IF phase = "probe" THEN answered ELSE up

TargetsOf(phase) == IF phase = "probe" THEN fleet ELSE up

\* gather has returned for every chunk; _get_snmp_raw splits anew.
Barrier ==
    /\ pc \in Phases
    /\ \A c \in chunks : Done(c)
    /\ pc' = NextPhase[pc]
    /\ IF pc' = "publish"
       THEN /\ chunks' = {}
            /\ first' = {}
            /\ task' = [d \in Devices |-> Fresh]
       ELSE StartPhase(TargetsOf(pc'))
    /\ clock' = 0
    /\ UNCHANGED <<fleet, results, faults>>

-----------------------------------------------------------------------------
(* Coroutines.                                                             *)

\* Device d, in state at, goes on with task t.
Step(d, at, t) ==
    /\ pc \in Phases
    /\ d \in UNION chunks
    /\ task[d].at = at
    /\ task' = [task EXCEPT ![d] = t]
    /\ UNCHANGED <<fleet, pc, chunks, first, clock>>

\* The semaphore is acquired: a ping starts, a call goes to the pool.
Acquire(d) ==
    /\ Step(d, "waiting", [task[d] EXCEPT !.at = IF pc = "ping" THEN "pinging" ELSE "queued"])
    /\ pc = "query" => QueryFor(Route[d]) # "skip_no_match"
    /\ HasPermit(d)
    /\ UNCHANGED <<results, faults>>

PingAnswered(d) ==
    /\ Step(d, "pinging", [Fresh EXCEPT !.at = "done"])
    /\ answered' = answered \cup {d}
    /\ UNCHANGED <<up, described, queries, ports, faults>>

(* No answer, an error, or the process is killed at its deadline: another  *)
(* attempt after a backoff, or the end.                                    *)
PingFails(d) ==
    LET failed == task[d].calls + 1
    IN  /\ IF failed < PingAttempts
           THEN \E wait \in Backoff(task[d].calls) :
                    Step(d, "pinging", [at |-> "sleeping", calls |-> failed, timer |-> wait])
           ELSE Step(d, "pinging", [at |-> "done", calls |-> failed, timer |-> 0])
        /\ UNCHANGED <<results, faults>>

WakeUp(d) ==
    /\ task[d].timer = 0
    /\ Step(d, "sleeping", [task[d] EXCEPT !.at = "waiting"])
    /\ UNCHANGED <<results, faults>>

\* A thread of the pool takes the call.
Run(d) ==
    /\ Cardinality(Calling) < Threads
    /\ Step(d, "queued", [task[d] EXCEPT !.at = "calling"])
    /\ UNCHANGED <<results, faults>>

\* probe_with_reason; sysDescr is a second call under the same permit.
Probe(d, ok) ==
    /\ pc = "probe"
    /\ task[d].calls = 0
    /\ Step(d, "calling", [at |-> IF ok THEN "queued" ELSE "done", calls |-> 1, timer |-> 0])
    /\ up' = IF ok THEN up \cup {d} ELSE up
    /\ UNCHANGED <<answered, described, queries, ports, faults>>

\* fetch_sysdescr: None for whatever goes wrong.
Describe(d, ok) ==
    /\ pc = "probe"
    /\ task[d].calls = 1
    /\ Step(d, "calling", [task[d] EXCEPT !.at = "done"])
    /\ described' = IF ok THEN described \cup {d} ELSE described
    /\ UNCHANGED <<answered, up, queries, ports, faults>>

\* No query specification matches: the semaphore is not asked for.
SkipQuery(d) ==
    /\ pc = "query"
    /\ QueryFor(Route[d]) = "skip_no_match"
    /\ Step(d, "waiting", [task[d] EXCEPT !.at = "done"])
    /\ UNCHANGED <<results, faults>>

(* What a read may bring: the requests in lost fail, walks among them after *)
(* some of their rows.  At most MaxFaults requests of all reads are lost.  *)
Losses(requests) == {lost \in SUBSET requests : Cardinality(lost) <= MaxFaults}

StatsResults ==
    [kind \in Kinds |-> [address \in Addresses |->
        UNION {{[stats |-> FetchStats(kind, AgentAt[address], lost, reach),
                 by |-> kind, lost |-> lost] : reach \in Reaches(lost)} :
               lost \in Losses(StatsRequests(kind))}]]

PortResults ==
    [address \in Addresses |->
        UNION {{[rows |-> FetchInterfaces(AgentAt[address], reach), lost |-> lost] :
                reach \in Reaches(lost)} :
               lost \in Losses(IfColumns)}]

Lose(lost) ==
    /\ faults + Cardinality(lost) <= MaxFaults
    /\ faults' = faults + Cardinality(lost)

\* The handler of the device's address reads; an empty reading is none.
Query(d) ==
    /\ pc = "query"
    /\ Step(d, "calling", [task[d] EXCEPT !.at = "done"])
    /\ \E result \in StatsResults[HandlerOf(d)][Address[d]] :
        /\ Lose(result.lost)
        /\ queries' = IF result.stats = None THEN queries ELSE [queries EXCEPT ![d] = result]
    /\ UNCHANGED <<answered, up, described, ports>>

Walks(d) ==
    /\ pc = "interfaces"
    /\ Step(d, "calling", [task[d] EXCEPT !.at = "done"])
    /\ \E result \in PortResults[Address[d]] :
        /\ Lose(result.lost)
        /\ ports' = IF result.rows = <<>> THEN ports ELSE [ports EXCEPT ![d] = result]
    /\ UNCHANGED <<answered, up, described, queries>>

\* A call raises: gather passes it on, and the collection is over.
Raises(d) ==
    /\ pc \in Phases
    /\ task[d].at = "calling"
    /\ pc' = "failed"
    /\ chunks' = {}
    /\ first' = {}
    /\ task' = [e \in Devices |-> Fresh]
    /\ clock' = 0
    /\ answered' = {}
    /\ up' = {}
    /\ described' = {}
    /\ queries' = [e \in Devices |-> None]
    /\ ports' = [e \in Devices |-> None]
    /\ UNCHANGED <<fleet, faults>>

-----------------------------------------------------------------------------
(* Time.                                                                   *)

\* The event loop has something to do for d at once.
Due(d) ==
    \/ task[d].at = "waiting" /\ HasPermit(d)
    \/ task[d].at = "sleeping" /\ task[d].timer = 0
    \/ task[d].at = "pinging" /\ task[d].timer = Deadline

Tick ==
    /\ pc = "ping"
    /\ \E d \in fleet : task[d].at \in {"pinging", "sleeping"}
    /\ \A d \in fleet : ~Due(d)
    /\ clock' = clock + 1
    /\ task' = [d \in Devices |->
                    CASE task[d].at = "pinging" -> [task[d] EXCEPT !.timer = @ + 1]
                      [] task[d].at = "sleeping" -> [task[d] EXCEPT !.timer = @ - 1]
                      [] OTHER -> task[d]]
    /\ UNCHANGED <<fleet, pc, chunks, first, results, faults>>

-----------------------------------------------------------------------------

Ping(d) == Acquire(d) \/ PingAnswered(d) \/ PingFails(d) \/ WakeUp(d)

Call(d) ==
    \/ Run(d)
    \/ \E ok \in BOOLEAN : Probe(d, ok) \/ Describe(d, ok)
    \/ SkipQuery(d)
    \/ Query(d) \/ Walks(d)

Work == Load \/ Barrier \/ Tick \/ \E d \in UNION chunks : Ping(d) \/ Call(d)

Next == Work \/ \E d \in UNION chunks : Raises(d)

Spec == Init /\ [][Next]_vars

(* The event loop runs what is ready, a ping process is killed at its      *)
(* deadline, and every SNMP request has a timeout.                         *)
FairSpec == Spec /\ WF_vars(Work)

-----------------------------------------------------------------------------
(* Properties.                                                             *)

(* The type of the state.                                                  *)
TypeOK ==
    /\ fleet \in SUBSET Devices
    /\ pc \in {"idle", "publish", "failed"} \cup Phases
    /\ chunks \in SUBSET SUBSET Devices
    /\ first \in SUBSET Devices
    /\ task \in [Devices -> Tasks]
    /\ clock \in Nat
    /\ {answered, up, described} \subseteq SUBSET Devices
    /\ \A d \in Devices :
        /\ queries[d] # None =>
            /\ IsStats(queries[d].stats)
            /\ queries[d].by \in Kinds
            /\ queries[d].lost \subseteq Columns \cup Gets
        /\ ports[d] # None =>
            /\ IsTable(ports[d].rows, Interface)
            /\ ports[d].lost \subseteq IfColumns
    /\ faults \in 0 .. MaxFaults

Busy == {d \in fleet : task[d].at \in {"pinging", "queued", "calling"}}

(* The semaphores of one client bound its own devices, and only those: the *)
(* limit counts once per chunk.  The pool bounds the calls of all clients, *)
(* whatever their semaphores allow.                                        *)
LimitsHold ==
    pc \in Phases =>
        /\ \A c \in chunks : Cardinality(Busy \cap c) <= Permits(pc)
        /\ Cardinality(Calling) <= Threads

\* The units of time a host sleeps at most in its first n backoffs.
LongestBackoffs(n) ==
    {unit \in (0 .. n - 1) \X (1 .. PingBackoffMax + PingJitter) :
        unit[2] <= Least(PingBackoff * 2 ^ unit[1], PingBackoffMax) + PingJitter}

\* The longest all attempts of one host take, with nobody before it.
LongestAlone ==
    (PingRetries + 1) * (PingTimeout + ProcessMargin) + Cardinality(LongestBackoffs(PingRetries))

\* The longest c's other hosts keep one host from the semaphore.
LongestWait(c) ==
    ((Cardinality(c) - 1) * (PingRetries + 1) * (PingTimeout + ProcessMargin))
        \div PingConcurrency

(* What a ping may take: the host's own attempts and backoffs, and the     *)
(* attempts of the others in its chunk, which share the semaphore; other   *)
(* chunks do not count, nor do the backoffs of others.                     *)
PingBudget ==
    pc = "ping" =>
        \A c \in chunks : Done(c) \/ clock <= LongestAlone + LongestWait(c)

(* A host is reported down after every attempt the settings allow and not  *)
(* before, though attempts of one host lie between those of others.        *)
DownMeansTried ==
    pc = "ping" =>
        \A d \in UNION chunks :
            task[d].at = "done" /\ d \notin answered => task[d].calls = PingRetries + 1

(* Whatever order answers, failures and backoffs come in, no time passes   *)
(* while a host waits and its client pings fewer than it may: a host that  *)
(* backs off keeps nobody waiting.                                         *)
PermitsAreUsed ==
    [][clock' > clock =>
        \A c \in chunks :
            (\E d \in c : task[d].at = "waiting") =>
                Cardinality({d \in c : task[d].at = "pinging"}) >= PingConcurrency]_vars

(* Whatever is slow, silent or queued behind the pool and the semaphores,  *)
(* a collection comes to its end: to the publisher, or to an exception.    *)
CollectionEnds == <>(pc \in {"publish", "failed"})

(* Seen from outside its chunks, a collection is the one SnmpCycle takes   *)
(* for granted: every barrier waits for all devices and hands the right    *)
(* ones to the next phase.                                                 *)
ImplementsCycle == Cycle!Init /\ [][UNCHANGED Cycle!vars \/ Cycle!Next]_vars

\* The sensor's unit, as its agent has it.
IsFahrenheit(agent, i) ==
    IF agent.mib = "Sentry4Pdu" THEN agent.scale = 1
    ELSE i \in DOMAIN agent.table["tempScale"] /\ agent.table["tempScale"][i] = 1

Celsius(agent, i) ==
    IF IsFahrenheit(agent, i) THEN ToCelsius(agent.table["temp"][i])
    ELSE agent.table["temp"][i]

(* "Temperatures are normalised to Celsius using the sensor's scale enum": *)
(* whatever else the agent did not answer.  The code keeps it only while   *)
(* the scale itself is answered.                                           *)
TemperaturesAreCelsius ==
    \A d \in Devices : queries[d] # None =>
        \A i \in DOMAIN queries[d].stats.temperature :
            queries[d].stats.temperature[i] = Celsius(AgentAt[Address[d]], i)

\* found, read by a walk that may have ended early, is a beginning of rows.
BeginningOf(found, rows) ==
    /\ found \subseteq rows
    /\ \A i \in found, j \in rows : j < i => j \in found

\* Joined from several columns, but from one row of the agent.
HumiditiesInRow(humidity, agent) ==
    /\ BeginningOf(DOMAIN humidity, DOMAIN agent.table["humid"])
    /\ \A i \in DOMAIN humidity : humidity[i] = At(agent.table["humid"], i)

OutletInRow(outlet, agent, i) ==
    \A column \in {"current", "power", "energy"} :
        outlet[column] \in {None, At(agent.table[column], i)}

PortInRow(port, agent, i) ==
    /\ port.oper = At(agent.table["ifOper"], i)
    /\ port.counter \in {None, At(agent.table["ifCounter"], i)}
    /\ port.descr \in {None, At(agent.table["ifDescr"], i)}

(* Temperatures, humidities, the current, power and energy of outlets, and *)
(* the state, counters and names of interfaces belong to the row they are  *)
(* labelled with.  A walk that failed part-way costs rows at the end of    *)
(* its own column; no row is invented or moved, and no sensor is converted *)
(* by the scale of another.  (The state of an outlet is a code of its own  *)
(* row, renamed.)                                                          *)
ReadingsAreGenuine ==
    \A d \in Devices :
        LET agent == AgentAt[Address[d]]
        IN  /\ queries[d] # None =>
                LET stats == queries[d].stats
                    found == DOMAIN stats.temperature
                IN  /\ found \cup DOMAIN stats.outlets # {} => agent.mib = queries[d].by
                    /\ BeginningOf(found, DOMAIN agent.table["temp"])
                    /\ {"scale", "tempScale"} \cap queries[d].lost = {} =>
                        \A i \in found : stats.temperature[i] = Celsius(agent, i)
                    /\ HumiditiesInRow(stats.humidity, agent)
                    /\ \A i \in DOMAIN stats.outlets :
                        OutletInRow(stats.outlets[i], agent, i)
            /\ ports[d] # None =>
                \A i \in DOMAIN ports[d].rows :
                    /\ PortInRow(ports[d].rows[i], agent, i)
                    /\ "ifType" \notin ports[d].lost =>
                        At(agent.table["ifType"], i) # softwareLoopback

Family == [projector |-> {"EpsonProjector"}, pdu |-> {"Sentry4Pdu", "Sentry3Pdu"},
           codec |-> {"Codec"}, matrix |-> {"ExtronMatrix"}]

SharesAddress(d) == \E e \in fleet \ {d} : Address[e] = Address[d]

(* The factory and the query registry choose by rules of their own.  Where *)
(* they choose differently nothing is published; a reading published under *)
(* a family's metrics was read by a handler of that family, unless the     *)
(* device shares its address, when another's handler may have read it.     *)
RoutedReadings ==
    \A d \in Devices : queries[d] # None /\ ~SharesAddress(d) =>
        /\ QueryFor(Route[d]) # "skip_no_match"
        /\ queries[d].by \in Family[QueryFor(Route[d])]

SamplesOf(d) ==
    (IF queries[d] = None THEN {} ELSE QuerySamples(QueryFor(Route[d]), queries[d].stats))
        \cup (IF ports[d] = None THEN {} ELSE InterfaceSamples(ports[d].rows))

(* Sensors, outlets and ports are numbered apart, by their own rows; of    *)
(* the samples of one device no two have the same metric and labels.       *)
OneSamplePerSeries ==
    \A d \in Devices : \A s, t \in SamplesOf(d) : s[1] = t[1] /\ s[2] = t[2] => s = t

=============================================================================
