--------------------------- MODULE CacheBootstrap ---------------------------
(***************************************************************************)
(* How the inventory jobs make sure of their tables before they use them   *)
(* (PostgresClient.__init__, postgres/inventory/client.py).  Every command *)
(* builds a client first: for one table after another it looks at the      *)
(* schema and, in a transaction of its own, drops a table of an old one;   *)
(* then it creates what is missing, again table by table, a look and a     *)
(* CREATE.  Nothing is locked in between, so that commands started         *)
(* together after an upgrade race, while others already read and write     *)
(* their tables.  A job then only adds the rows its table lacks: EAM and   *)
(* LanDB stay as they are here.                                            *)
(***************************************************************************)
EXTENDS Integers, Sequences

CONSTANTS
    Checks,    \* the tables in the order they are looked at
    Retired,   \* those no version uses any more (landb_location)
    Jobs,
    Owner,     \* the table each job refreshes
    Keys,      \* the keys of the rows a table should have
    MaxFaults  \* bound: failed statements and kills in a behaviour

Tables == {Checks[k] : k \in DOMAIN Checks}
Cached == Tables \ Retired

ASSUME ChecksAssumption == Checks \in Seq(Tables) /\ Checks # <<>>
ASSUME RetiredAssumption == Retired \subseteq Tables
ASSUME OwnerAssumption == Owner \in [Jobs -> Cached]
ASSUME BoundAssumption == MaxFaults \in Nat

VARIABLES
    schema,  \* of each table
    rows,    \* the keys in each table
    job,     \* the process of each job
    faults

vars == <<schema, rows, job, faults>>

Schemas == {"absent", "legacy", "current"}

(* k: the table at hand; snap: the rows read; skipped: history, the tables *)
(* whose check failed; disturbed: history, another job has dropped,        *)
(* created or filled a table since this one started, or skipped a check.   *)
JobStates ==
    [pc : {"stopped", "probe", "drop", "check", "create", "read", "commit"},
     k : DOMAIN Checks, snap : SUBSET Keys, skipped : SUBSET Tables,
     disturbed : BOOLEAN, status : {"none", "ok", "failed"}]

Process(pc, status) ==
    [pc |-> pc, k |-> 1, snap |-> {}, skipped |-> {}, disturbed |-> FALSE, status |-> status]

(* The type of the state; a retired table is never created again, and only *)
(* a table that is in use has rows.                                        *)
TypeOK ==
    /\ schema \in [Tables -> Schemas]
    /\ \A t \in Retired : schema[t] # "current"
    /\ rows \in [Tables -> SUBSET Keys]
    /\ \A t \in Tables : schema[t] # "current" => rows[t] = {}
    /\ job \in [Jobs -> JobStates]
    /\ faults \in 0 .. MaxFaults

\* Before the upgrade: some version's tables, which the new one may accept.
Init ==
    /\ schema \in [Tables -> Schemas]
    /\ \A t \in Retired : schema[t] # "current"
    /\ rows = [t \in Tables |-> IF schema[t] = "current" THEN Keys ELSE {}]
    /\ job = [j \in Jobs |-> Process("stopped", "none")]
    /\ faults = 0

Fault ==
    /\ faults < MaxFaults
    /\ faults' = faults + 1

-----------------------------------------------------------------------------

At(j) == Checks[job[j].k]

\* Job j goes on with state s.
Goes(j, s) == job' = [job EXCEPT ![j] = s]

\* It has changed a table as well, for all that are running.
Changes(j, s) ==
    job' = [i \in Jobs |->
                IF i = j THEN s
                ELSE IF job[i].pc = "stopped" THEN job[i]
                ELSE [job[i] EXCEPT !.disturbed = TRUE]]

Fails(j) == Goes(j, Process("stopped", "failed"))

Last(s) == s.k = Len(Checks)

\* The next table to look at, or the first to create.
AfterProbe(s) ==
    IF Last(s) THEN [s EXCEPT !.pc = "check", !.k = 1]
    ELSE [s EXCEPT !.pc = "probe", !.k = @ + 1]

\* The next table to create, or the job's own work.
AfterCreate(s) ==
    IF Last(s) THEN [s EXCEPT !.pc = "read", !.k = 1]
    ELSE [s EXCEPT !.pc = "check", !.k = @ + 1]

Start(j) ==
    /\ job[j].pc = "stopped"
    /\ Goes(j, Process("probe", "none"))
    /\ UNCHANGED <<schema, rows, faults>>

\* Mutants: some of the expected columns will do; any other column will not.
IsRetired(t) == t \in Retired /\ schema[t] # "absent"
IsUnlike(t) == schema[t] # "absent"

\* A column is missing; of a retired table, that it is there.
IsLegacy(t) == schema[t] = "legacy"

Probe(j) ==
    /\ job[j].pc = "probe"
    /\ Goes(j, IF IsLegacy(At(j)) THEN [job[j] EXCEPT !.pc = "drop"] ELSE AfterProbe(job[j]))
    /\ UNCHANGED <<schema, rows, faults>>

\* Whatever the table has become since; no table to drop is one more warning.
Drop(j) ==
    /\ job[j].pc = "drop"
    /\ schema' = [schema EXCEPT ![At(j)] = "absent"]
    /\ rows' = [rows EXCEPT ![At(j)] = {}]
    /\ Changes(j, AfterProbe(job[j]))
    /\ UNCHANGED faults

\* The check or the DROP raises: a warning, and on to the next table.
CheckFails(j) ==
    /\ Fault
    /\ job[j].pc \in {"probe", "drop"}
    /\ Goes(j, AfterProbe([job[j] EXCEPT !.skipped = @ \cup {At(j)}, !.disturbed = TRUE]))
    /\ UNCHANGED <<schema, rows>>

\* Mutants: no look at what is there; retired tables still have a class.
MissingAny(t) == t \in Cached
MissingAll(t) == schema[t] = "absent"

Missing(t) == t \in Cached /\ schema[t] = "absent"

\* create_all looks first.
Check(j) ==
    /\ job[j].pc = "check"
    /\ Goes(j, IF Missing(At(j)) THEN [job[j] EXCEPT !.pc = "create"] ELSE AfterCreate(job[j]))
    /\ UNCHANGED <<schema, rows, faults>>

Create(j) ==
    /\ job[j].pc = "create"
    /\ schema[At(j)] = "absent"
    /\ schema' = [schema EXCEPT ![At(j)] = "current"]
    /\ Changes(j, AfterCreate(job[j]))
    /\ UNCHANGED <<rows, faults>>

\* Another job was faster: the client's constructor raises.
CreateTwice(j) ==
    /\ job[j].pc = "create"
    /\ schema[At(j)] # "absent"
    /\ Fails(j)
    /\ UNCHANGED <<schema, rows, faults>>

Usable(j) == schema[Owner[j]] = "current"

\* _get_all
Read(j) ==
    /\ job[j].pc = "read"
    /\ Usable(j)
    /\ Goes(j, [job[j] EXCEPT !.pc = "commit", !.snap = rows[Owner[j]]])
    /\ UNCHANGED <<schema, rows, faults>>

\* _sync_devices inserts what the snapshot lacked.
Commit(j) ==
    /\ job[j].pc = "commit"
    /\ Usable(j)
    /\ (Keys \ job[j].snap) \cap rows[Owner[j]] = {}
    /\ rows' = [rows EXCEPT ![Owner[j]] = @ \cup (Keys \ job[j].snap)]
    /\ Changes(j, Process("stopped", "ok"))
    /\ UNCHANGED <<schema, faults>>

\* No such table, no such column, or a key that is there already.
StatementFails(j) ==
    /\ \/ job[j].pc \in {"read", "commit"} /\ ~Usable(j)
       \/ job[j].pc = "commit" /\ (Keys \ job[j].snap) \cap rows[Owner[j]] # {}
    /\ Fails(j)
    /\ UNCHANGED <<schema, rows, faults>>

Crash(j) ==
    /\ Fault
    /\ job[j].pc # "stopped"
    /\ Goes(j, Process("stopped", "none"))
    /\ UNCHANGED <<schema, rows>>

-----------------------------------------------------------------------------

Bootstrap(j) == Probe(j) \/ Drop(j) \/ Check(j) \/ Create(j) \/ CreateTwice(j)

Work(j) == Start(j) \/ Bootstrap(j) \/ Read(j) \/ Commit(j) \/ StatementFails(j)

Next == \E j \in Jobs : Work(j) \/ CheckFails(j) \/ Crash(j)

Spec == Init /\ [][Next]_vars

\* Each job is started again by its timer, and one nobody kills goes on.
FairSpec == Spec /\ \A j \in Jobs : WF_vars(Work(j))

-----------------------------------------------------------------------------
(* Properties.                                                             *)

\* The tables whose check by a process in state s is over.
Checked(s) ==
    CASE s.pc = "stopped" -> {}
      [] s.pc \in {"probe", "drop"} -> {Checks[k] : k \in 1 .. s.k - 1}
      [] OTHER -> Tables

(* What a job has checked stays checked, though others drop and create the *)
(* same tables meanwhile: a job that does its work meets no old schema and *)
(* no retired table, unless a check of its own failed with a warning.      *)
NoLegacyBehind ==
    \A j \in Jobs : \A t \in Checked(job[j]) \ job[j].skipped : schema[t] # "legacy"

(* A job fails only by a race or after a failed statement: one that nobody *)
(* disturbs gets through to its commit, whatever the upgrade left behind.  *)
FailuresAreRaces ==
    [][\A j \in Jobs :
        job[j].pc # "stopped" /\ job'[j].status = "failed" => job[j].disturbed]_vars

(* A verdict may be out of date when it is carried out: a job drops the    *)
(* table another has already created and filled.  Still, once the jobs     *)
(* that saw the old schema are through, every table is current and full    *)
(* and stays so.                                                           *)
CacheComesBack ==
    <>[](/\ \A t \in Retired : schema[t] = "absent"
         /\ \A j \in Jobs : Usable(j) /\ rows[Owner[j]] = Keys)
=============================================================================
