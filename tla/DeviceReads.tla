---------------------------- MODULE DeviceReads ----------------------------
(***************************************************************************)
(* What the SNMP handlers make of a device's agent (snmp/handlers) and     *)
(* what the encoder makes of that (timeseries/encoder.py), as functions of *)
(* the agent and of the requests it leaves unanswered.  A GET is answered  *)
(* whole or not at all.  A walk asks row by row and ends at the first      *)
(* error or at its row limit, with the rows it has.  One column stands for *)
(* those read alike (four interface counters, the names that label info    *)
(* metrics); values keep the unit of the MIB, temperatures in tenths.      *)
(***************************************************************************)
EXTENDS Integers, FiniteSets, FiniteSetsExt, HandlerFactory

CONSTANTS
    MaxIndex,  \* the last row a table may have
    None       \* no such object, or a value the code leaves out

ASSUME MaxIndexAssumption == MaxIndex \in Nat
ASSUME NoneAssumption == None \notin Int

Indices == 1 .. MaxIndex

\* Columns walked row by row, and requests answered as a whole.
IfColumns == {"ifOper", "ifType", "ifCounter", "ifDescr"}
OutletColumns == {"state", "current", "power", "energy"}
PduColumns == OutletColumns \cup {"temp", "tempScale", "humid"}
Columns == IfColumns \cup PduColumns
Gets == {"stats", "scale"}

Scalars == {"uptime", "lamp", "status", "load_status", "balance_status",
            "line_current", "capacity", "utilized"}

\* The rows of a table may have gaps.
IsTable(rows, values) == DOMAIN rows \subseteq Indices /\ rows \in [DOMAIN rows -> values]

\* mib: whose objects the agent has besides MIB-II; scale: Sentry4's one scale.
IsAgent(agent) ==
    /\ agent.mib \in Kinds
    /\ agent.get \in [Scalars -> Nat \cup {None}]
    /\ agent.scale \in Nat
    /\ \A column \in Columns : IsTable(agent.table[column], Nat)

-----------------------------------------------------------------------------
(* Requests.                                                               *)

\* The requests a handler's fetch_stats may make.
StatsRequests(kind) ==
    CASE kind = "Sentry4Pdu" -> {"stats", "scale", "temp", "humid"} \cup OutletColumns
      [] kind = "Sentry3Pdu" -> {"stats"} \cup PduColumns
      [] kind = "GenericSnmpHandler" -> {}
      [] OTHER -> {"stats"}

\* The row each walk got to, when those in lost did not get to the end.
Reaches(lost) ==
    {f \in [lost \cap Columns -> 0 .. MaxIndex] : \A c \in lost \cap Columns : f[c] < MaxIndex}

\* MIB-II is every agent's, the rest is the vendor's.
ColumnOf(agent, kind, column) ==
    IF column \in IfColumns \/ agent.mib = kind THEN agent.table[column] ELSE <<>>

ScalarOf(agent, kind, key) ==
    IF key = "uptime" \/ agent.mib = kind THEN agent.get[key] ELSE None

\* _snmp_walk and _walk_indexed
Walk(agent, kind, column, reach) ==
    LET all == ColumnOf(agent, kind, column)
    IN  [i \in {i \in DOMAIN all : column \in DOMAIN reach => i <= reach[column]} |-> all[i]]

At(rows, i) == IF i \in DOMAIN rows THEN rows[i] ELSE None

-----------------------------------------------------------------------------
(* fetch_interfaces: one entry per row of ifOperStatus that is not known   *)
(* to be a loopback.                                                       *)

softwareLoopback == 24

Interface == [oper : Nat, counter : Nat \cup {None}, descr : Nat \cup {None}]

\* Mutant: the columns are taken to have the same rows.
FetchInterfacesByPosition(agent, reach) ==
    LET walk(column) == Walk(agent, "GenericSnmpHandler", column, reach)
        nth(rows, i) == IF rows = <<>> THEN None
                        ELSE rows[IF i \in DOMAIN rows THEN i ELSE Min(DOMAIN rows)]
        kept == {i \in DOMAIN walk("ifOper") : At(walk("ifType"), i) # softwareLoopback}
    IN  [i \in kept |-> [oper |-> walk("ifOper")[i],
                         counter |-> nth(walk("ifCounter"), i),
                         descr |-> nth(walk("ifDescr"), i)]]

FetchInterfaces(agent, reach) ==
    LET walk(column) == Walk(agent, "GenericSnmpHandler", column, reach)
        kept == {i \in DOMAIN walk("ifOper") : At(walk("ifType"), i) # softwareLoopback}
    IN  [i \in kept |-> [oper |-> walk("ifOper")[i],
                         counter |-> At(walk("ifCounter"), i),
                         descr |-> At(walk("ifDescr"), i)]]

-----------------------------------------------------------------------------
(* The PDU families.                                                       *)

\* NOMINAL_STATUS
Nominal(kind) == IF kind = "Sentry4Pdu" THEN 0 ELSE 1

\* QUALITY_STATUS: the codes of each severity.
Warning(kind) == IF kind = "Sentry4Pdu" THEN {15, 16} ELSE {3, 4}
Critical(kind) == IF kind = "Sentry4Pdu" THEN {14} \cup 17 .. 20 ELSE {5}
Thresholds(kind) ==
    IF kind = "Sentry4Pdu" THEN {"load_status", "balance_status"} ELSE {"load_status"}

\* Mutant: codes without a name are passed on.
OutletStateUnmapped(kind, code) ==
    IF kind = "Sentry4Pdu" /\ code = 2 THEN 0 ELSE code

\* state_map: 0 off, 1 on, 2 other.
OutletState(kind, code) ==
    CASE code = None -> None
      [] kind = "Sentry4Pdu" /\ code = 1 -> 1
      [] kind = "Sentry4Pdu" /\ code = 2 -> 0
      [] kind = "Sentry3Pdu" /\ code \in {0, 1} -> code
      [] OTHER -> 2

Outlet == [state : 0 .. 2 \cup {None}, current : Nat \cup {None},
           power : Nat \cup {None}, energy : Nat \cup {None}]

\* fetch_outlets
FetchOutlets(kind, agent, reach) ==
    LET walk(column) == Walk(agent, kind, column, reach)
        rows == UNION {DOMAIN walk(column) : column \in OutletColumns}
    IN  IF walk("state") = <<>> /\ walk("current") = <<>> THEN <<>>
        ELSE [i \in rows |-> [state |-> OutletState(kind, At(walk("state"), i)),
                              current |-> At(walk("current"), i),
                              power |-> At(walk("power"), i),
                              energy |-> At(walk("energy"), i)]]

\* _fahrenheit_map: the sensors taken to report Fahrenheit.
Fahrenheit(kind, agent, lost, reach) ==
    IF kind = "Sentry4Pdu"
    THEN IF "scale" \notin lost /\ agent.scale = 1 THEN Indices ELSE {}
    ELSE {i \in Indices : At(Walk(agent, kind, "tempScale", reach), i) = 1}

ToCelsius(tenths) == ((tenths - 320) * 5) \div 9

\* fetch_environment, temperatures and humidities
FetchTemperatures(kind, agent, lost, reach) ==
    LET raw == Walk(agent, kind, "temp", reach)
    IN  [i \in DOMAIN raw |->
            IF i \in Fahrenheit(kind, agent, lost, reach) THEN ToCelsius(raw[i]) ELSE raw[i]]

FetchHumidities(kind, agent, reach) == Walk(agent, kind, "humid", reach)

\* pq_severity: the worst of the thresholds the agent knows.
Severity(kind, code) ==
    LET known == {code[k] : k \in Thresholds(kind)} \ {None}
    IN  CASE known = {} -> None
          [] known \cap Critical(kind) # {} -> 2
          [] known \cap Critical(kind) = {} /\ known \cap Warning(kind) # {} -> 1
          [] OTHER -> 0

-----------------------------------------------------------------------------
(* fetch_stats, by handler.                                                *)

Keys == {"uptime", "lamp", "status", "healthy", "severity", "line_current", "utilized"}

IsStats(stats) ==
    /\ stats.get \in [Keys -> Nat \cup {None}]
    /\ IsTable(stats.temperature, Int)
    /\ IsTable(stats.humidity, Nat)
    /\ IsTable(stats.outlets, Outlet)

\* What the handlers without tables know: uptime, and a projector's lamp.
PlainStats(uptime, lamp) ==
    [get |-> [k \in Keys |-> CASE k = "uptime" -> uptime [] k = "lamp" -> lamp [] OTHER -> None],
     temperature |-> <<>>, humidity |-> <<>>, outlets |-> <<>>]

\* _healthy
Healthy(kind, status) ==
    IF status = None THEN None ELSE IF status = Nominal(kind) THEN 1 ELSE 0

\* Sentry3's _post: hundredths of an ampere over amperes are per cent.
Utilized(kind, code) ==
    IF kind = "Sentry4Pdu" THEN code["utilized"]
    ELSE IF code["line_current"] = None \/ code["capacity"] \in {None, 0} THEN None
    ELSE code["line_current"] \div code["capacity"]

PduStats(kind, agent, lost, reach) ==
    LET code == [k \in Scalars |-> ScalarOf(agent, kind, k)]
    IN  [get |-> [k \in Keys |->
                    CASE k = "lamp" -> None
                      [] k = "healthy" -> Healthy(kind, code["status"])
                      [] k = "severity" -> Severity(kind, code)
                      [] k = "utilized" -> Utilized(kind, code)
                      [] OTHER -> code[k]],
         temperature |-> FetchTemperatures(kind, agent, lost, reach),
         humidity |-> FetchHumidities(kind, agent, reach),
         outlets |-> FetchOutlets(kind, agent, reach)]

\* The stats mapping is empty.
Empty(stats) ==
    /\ \A k \in Keys : stats.get[k] = None
    /\ stats.temperature = <<>> /\ stats.humidity = <<>> /\ stats.outlets = <<>>

\* None when there is nothing to report.
FetchStats(kind, agent, lost, reach) ==
    LET stats ==
            CASE kind \in {"Sentry4Pdu", "Sentry3Pdu"} -> PduStats(kind, agent, lost, reach)
              [] kind = "EpsonProjector" ->
                    PlainStats(ScalarOf(agent, kind, "uptime"), ScalarOf(agent, kind, "lamp"))
              [] kind \in {"Codec", "ExtronMatrix"} ->
                    PlainStats(ScalarOf(agent, kind, "uptime"), None)
              [] OTHER -> PlainStats(None, None)
    IN  IF "stats" \in lost \/ Empty(stats) THEN None ELSE stats

-----------------------------------------------------------------------------
(* The samples of one device: metric, the index that labels it, and value. *)

\* The keys each query publishes.
Published(query) ==
    CASE query = "projector" -> {"uptime", "lamp"}
      [] query = "pdu" -> Keys \ {"lamp"}
      [] OTHER -> {"uptime"}

Scalar == 0  \* the index of what is not a row of a table

\* Mutant: temperatures and humidities share the label but not the metric.
SensorSamplesMerged(stats) ==
    {<<"sensor", i, stats.temperature[i]>> : i \in DOMAIN stats.temperature}
        \cup {<<"sensor", i, stats.humidity[i]>> : i \in DOMAIN stats.humidity}

SensorSamples(stats) ==
    {<<"temperature_c", i, stats.temperature[i]>> : i \in DOMAIN stats.temperature}
        \cup {<<"humidity_pct", i, stats.humidity[i]>> : i \in DOMAIN stats.humidity}

\* Of the rows in rows, the samples of those columns that have a value.
RowSamples(rows, columns) ==
    UNION {{<<c, i, rows[i][c]>> : i \in {i \in DOMAIN rows : rows[i][c] # None}} : c \in columns}

\* encode_queries
QuerySamples(query, stats) ==
    {<<k, Scalar, stats.get[k]>> :
            k \in {key \in Published(query) : stats.get[key] # None}}
        \cup (IF query = "pdu"
              THEN SensorSamples(stats) \cup RowSamples(stats.outlets, OutletColumns)
              ELSE {})

\* encode_interfaces
InterfaceSamples(ports) == RowSamples(ports, {"oper", "counter", "descr"})
=============================================================================
