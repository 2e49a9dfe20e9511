------------------------ MODULE CacheBootstrapProofs ------------------------
(***************************************************************************)
(* CacheBootstrap keeps its type, leaves no old schema behind a check, has *)
(* every upgrade end and fails only by races, for any tables and jobs.     *)
(***************************************************************************)
EXTENDS CacheBootstrap, TLAPS

LEMMA ChecksAreASequence ==
    /\ Len(Checks) \in Nat \ {0}
    /\ DOMAIN Checks = 1 .. Len(Checks)
    /\ \A k \in DOMAIN Checks : Checks[k] \in Tables
BY ChecksAssumption DEF Tables

LEMMA OwnersAreCached == \A j \in Jobs : Owner[j] \in Cached /\ Owner[j] \in Tables
BY OwnerAssumption DEF Cached

\* A new process is a process, whatever it starts with.
LEMMA ProcessType ==
    ASSUME NEW pc \in {"stopped", "probe"}, NEW status \in {"none", "ok", "failed"}
    PROVE  Process(pc, status) \in JobStates
BY ChecksAreASequence DEF Process, JobStates

\* The next table, or the next stage.
LEMMA AfterProbeType ==
    ASSUME NEW s \in JobStates
    PROVE  AfterProbe(s) \in JobStates
<1>1. s.k \in 1 .. Len(Checks) /\ Len(Checks) \in Nat \ {0} /\ DOMAIN Checks = 1 .. Len(Checks)
  BY ChecksAreASequence DEF JobStates
<1>2. CASE Last(s)
  <2>1. 1 \in DOMAIN Checks
    BY <1>1
  <2>2. [s EXCEPT !.pc = "check", !.k = 1] \in JobStates
    BY <2>1 DEF JobStates
  <2>3. QED
    BY <1>2, <2>2 DEF AfterProbe
<1>3. CASE ~Last(s)
  <2>1. s.k + 1 \in DOMAIN Checks
    BY <1>1, <1>3 DEF Last
  <2>2. [s EXCEPT !.pc = "probe", !.k = @ + 1] \in JobStates
    BY <2>1 DEF JobStates
  <2>3. QED
    BY <1>3, <2>2 DEF AfterProbe
<1>4. QED
  BY <1>2, <1>3

LEMMA AfterCreateType ==
    ASSUME NEW s \in JobStates
    PROVE  AfterCreate(s) \in JobStates
<1>1. s.k \in 1 .. Len(Checks) /\ Len(Checks) \in Nat \ {0} /\ DOMAIN Checks = 1 .. Len(Checks)
  BY ChecksAreASequence DEF JobStates
<1>2. CASE Last(s)
  <2>1. 1 \in DOMAIN Checks
    BY <1>1
  <2>2. [s EXCEPT !.pc = "read", !.k = 1] \in JobStates
    BY <2>1 DEF JobStates
  <2>3. QED
    BY <1>2, <2>2 DEF AfterCreate
<1>3. CASE ~Last(s)
  <2>1. s.k + 1 \in DOMAIN Checks
    BY <1>1, <1>3 DEF Last
  <2>2. [s EXCEPT !.pc = "check", !.k = @ + 1] \in JobStates
    BY <2>1 DEF JobStates
  <2>3. QED
    BY <1>3, <2>2 DEF AfterCreate
<1>4. QED
  BY <1>2, <1>3

LEMMA AtIsATable ==
    ASSUME NEW j \in Jobs, job[j] \in JobStates
    PROVE  At(j) \in Tables
BY ChecksAreASequence DEF At, JobStates

\* Only the job that goes on changes.
LEMMA GoesType ==
    ASSUME NEW j \in Jobs, NEW s \in JobStates, job \in [Jobs -> JobStates], Goes(j, s)
    PROVE  job' \in [Jobs -> JobStates]
BY DEF Goes

LEMMA ChangesType ==
    ASSUME NEW j \in Jobs, NEW s \in JobStates, job \in [Jobs -> JobStates], Changes(j, s)
    PROVE  job' \in [Jobs -> JobStates]
<1>1. ASSUME NEW i \in Jobs
      PROVE  [job[i] EXCEPT !.disturbed = TRUE] \in JobStates
  <2>1. job[i] \in JobStates
    OBVIOUS
  <2>2. QED
    BY <2>1 DEF JobStates
<1>2. QED
  BY <1>1 DEF Changes

-----------------------------------------------------------------------------
(* Types.                                                                  *)

\* Every step keeps the type of the processes.
LEMMA JobsKeepType ==
    ASSUME job \in [Jobs -> JobStates], rows \in [Tables -> SUBSET Keys], Next
    PROVE  job' \in [Jobs -> JobStates]
<1>1. PICK j \in Jobs : Work(j) \/ CheckFails(j) \/ Crash(j)
  BY DEF Next
<1> DEFINE s == job[j]
<1>2. s \in JobStates
  OBVIOUS
<1>3. At(j) \in Tables
  BY <1>2, AtIsATable
<1>4. /\ Process("probe", "none") \in JobStates
      /\ Process("stopped", "none") \in JobStates
      /\ Process("stopped", "ok") \in JobStates
      /\ Process("stopped", "failed") \in JobStates
  BY ProcessType
<1>5. CASE Start(j)
  BY <1>4, <1>5, GoesType DEF Start
<1>6. CASE Probe(j)
  <2>1. [s EXCEPT !.pc = "drop"] \in JobStates
    BY <1>2 DEF JobStates
  <2>2. AfterProbe(s) \in JobStates
    BY <1>2, AfterProbeType
  <2>3. CASE IsLegacy(At(j))
    BY <1>6, <2>1, <2>3, GoesType DEF Probe
  <2>4. CASE ~IsLegacy(At(j))
    BY <1>6, <2>2, <2>4, GoesType DEF Probe
  <2>5. QED
    BY <2>3, <2>4
<1>7. CASE Drop(j)
  BY <1>2, <1>7, AfterProbeType, ChangesType DEF Drop
<1>8. CASE CheckFails(j)
  <2>1. [s EXCEPT !.skipped = @ \cup {At(j)}, !.disturbed = TRUE] \in JobStates
    BY <1>2, <1>3 DEF JobStates
  <2>2. QED
    BY <1>8, <2>1, AfterProbeType, GoesType DEF CheckFails
<1>9. CASE Check(j)
  <2>1. [s EXCEPT !.pc = "create"] \in JobStates
    BY <1>2 DEF JobStates
  <2>2. AfterCreate(s) \in JobStates
    BY <1>2, AfterCreateType
  <2>3. CASE Missing(At(j))
    BY <1>9, <2>1, <2>3, GoesType DEF Check
  <2>4. CASE ~Missing(At(j))
    BY <1>9, <2>2, <2>4, GoesType DEF Check
  <2>5. QED
    BY <2>3, <2>4
<1>10. CASE Create(j)
  BY <1>2, <1>10, AfterCreateType, ChangesType DEF Create
<1>11. CASE CreateTwice(j) \/ StatementFails(j)
  BY <1>4, <1>11, GoesType DEF CreateTwice, StatementFails, Fails
<1>12. CASE Read(j)
  <2>1. rows[Owner[j]] \subseteq Keys
    BY OwnersAreCached
  <2>2. [s EXCEPT !.pc = "commit", !.snap = rows[Owner[j]]] \in JobStates
    BY <1>2, <2>1 DEF JobStates
  <2>3. QED
    BY <1>12, <2>2, GoesType DEF Read
<1>13. CASE Commit(j)
  BY <1>4, <1>13, ChangesType DEF Commit
<1>14. CASE Crash(j)
  BY <1>4, <1>14, GoesType DEF Crash
<1>15. QED
  BY <1>1, <1>5, <1>6, <1>7, <1>8, <1>9, <1>10, <1>11, <1>12, <1>13, <1>14
     DEF Work, Bootstrap

\* What others do leaves a process as it was, but for the disturbance.
LEMMA OthersStay ==
    ASSUME TypeOK, NEW j \in Jobs, Work(j) \/ CheckFails(j) \/ Crash(j), NEW i \in Jobs, i # j
    PROVE  \/ job'[i] = job[i] /\ UNCHANGED <<schema, rows>>
           \/ job'[i] = job[i] /\ job[i].pc = "stopped"
           \/ job'[i] = [job[i] EXCEPT !.disturbed = TRUE]
<1>1. ASSUME NEW s, Goes(j, s) PROVE job'[i] = job[i]
  BY <1>1 DEF Goes, TypeOK
<1>2. ASSUME NEW s, Changes(j, s)
      PROVE  \/ job'[i] = job[i] /\ job[i].pc = "stopped"
             \/ job'[i] = [job[i] EXCEPT !.disturbed = TRUE]
  BY <1>2 DEF Changes
<1>3. QED
  BY <1>1, <1>2 DEF Work, Bootstrap, Start, Probe, Drop, CheckFails, Check, Create, CreateTwice,
     Read, Commit, StatementFails, Crash, Fails

\* The one that goes on.
LEMMA TheOneThatGoes ==
    ASSUME TypeOK, NEW j \in Jobs, NEW s, Goes(j, s) \/ Changes(j, s)
    PROVE  job'[j] = s
BY DEF Goes, Changes, TypeOK

\* Only a table that is in use is created.
CreatesCached == \A j \in Jobs : job[j].pc = "create" => At(j) \in Cached

TypeInv == TypeOK /\ CreatesCached

LEMMA CreatesStep ==
    ASSUME TypeOK, CreatesCached, NEW j \in Jobs, Work(j) \/ CheckFails(j) \/ Crash(j)
    PROVE  CreatesCached'
<1> SUFFICES ASSUME NEW i \in Jobs, job'[i].pc = "create"
             PROVE  Checks[job'[i].k] \in Cached
  BY DEF CreatesCached, At
<1>1. job[i] \in JobStates /\ job[j] \in JobStates
  BY DEF TypeOK
<1>2. CASE i # j
  <2>1. job'[i] = job[i] \/ job'[i] = [job[i] EXCEPT !.disturbed = TRUE]
    BY <1>2, OthersStay
  <2>2. job'[i].pc = job[i].pc /\ job'[i].k = job[i].k
    BY <1>1, <2>1 DEF JobStates
  <2>3. QED
    BY <2>2 DEF CreatesCached, At
<1>3. CASE i = j /\ Check(j) /\ Missing(At(j))
  <2>1. job'[j] = [job[j] EXCEPT !.pc = "create"]
    BY <1>3, TheOneThatGoes DEF Check
  <2>2. QED
    BY <1>1, <1>3, <2>1 DEF Missing, At, JobStates
<1>4. CASE i = j /\ ~(Check(j) /\ Missing(At(j)))
  <2>1. CASE Probe(j) \/ Drop(j) \/ CheckFails(j)
    <3>1. \E u : job'[j] \in {AfterProbe(u), [job[j] EXCEPT !.pc = "drop"]} /\ u \in JobStates
      <4>1. [job[j] EXCEPT !.skipped = @ \cup {At(j)}, !.disturbed = TRUE] \in JobStates
        BY <1>1, AtIsATable DEF JobStates
      <4>2. QED
        BY <1>1, <2>1, <4>1, TheOneThatGoes DEF Probe, Drop, CheckFails
    <3>2. \A u \in JobStates : AfterProbe(u).pc # "create"
      BY DEF AfterProbe, JobStates
    <3>3. [job[j] EXCEPT !.pc = "drop"].pc = "drop"
      BY <1>1 DEF JobStates
    <3>4. QED
      BY <1>4, <3>1, <3>2, <3>3
  <2>2. CASE Check(j) \/ Create(j)
    <3>1. job'[j] = AfterCreate(job[j])
      BY <1>4, <2>2, TheOneThatGoes DEF Check, Create
    <3>2. AfterCreate(job[j]).pc # "create"
      BY <1>1 DEF AfterCreate, JobStates
    <3>3. QED
      BY <1>4, <3>1, <3>2
  <2>3. CASE Read(j)
    <3>1. job'[j] = [job[j] EXCEPT !.pc = "commit", !.snap = rows[Owner[j]]]
      BY <2>3, TheOneThatGoes DEF Read
    <3>2. QED
      BY <1>1, <1>4, <3>1 DEF JobStates
  <2>4. CASE Start(j) \/ CreateTwice(j) \/ Commit(j) \/ StatementFails(j) \/ Crash(j)
    <3>1. \E pc \in {"stopped", "probe"}, status \in {"none", "ok", "failed"} :
             job'[j] = Process(pc, status)
      BY <2>4, TheOneThatGoes DEF Start, CreateTwice, Commit, StatementFails, Crash, Fails
    <3>2. QED
      BY <1>4, <3>1 DEF Process
  <2>5. QED
    BY <2>1, <2>2, <2>3, <2>4 DEF Work, Bootstrap
<1>5. QED
  BY <1>2, <1>3, <1>4

\* What a step does to the tables, whoever makes it.
LEMMA TablesChange ==
    ASSUME TypeOK, NEW j \in Jobs, Work(j) \/ CheckFails(j) \/ Crash(j)
    PROVE  \/ /\ schema' = [schema EXCEPT ![At(j)] = "absent"]
              /\ rows' = [rows EXCEPT ![At(j)] = {}]
           \/ /\ job[j].pc = "create"
              /\ schema[At(j)] = "absent"
              /\ schema' = [schema EXCEPT ![At(j)] = "current"]
              /\ rows' = rows
           \/ /\ schema[Owner[j]] = "current"
              /\ schema' = schema
              /\ rows' = [rows EXCEPT ![Owner[j]] = @ \cup (Keys \ job[j].snap)]
           \/ UNCHANGED <<schema, rows>>
<1>1. CASE Drop(j)
  BY <1>1 DEF Drop
<1>2. CASE Commit(j)
  BY <1>2 DEF Commit, Usable
<1>3. CASE Create(j)
  BY <1>3 DEF Create
<1>4. CASE Start(j) \/ Probe(j) \/ CheckFails(j) \/ Check(j) \/ CreateTwice(j)
           \/ Read(j) \/ StatementFails(j) \/ Crash(j)
  BY <1>4 DEF Start, Probe, CheckFails, Check, CreateTwice, Read, StatementFails, Crash
<1>5. QED
  BY <1>1, <1>2, <1>3, <1>4 DEF Work, Bootstrap

\* A table that is legacy has been so from the beginning.
LEMMA LegacyIsOld ==
    ASSUME TypeOK, NEW j \in Jobs, Work(j) \/ CheckFails(j) \/ Crash(j), NEW t \in Tables,
           schema'[t] = "legacy"
    PROVE  schema[t] = "legacy"
<1>1. At(j) \in Tables
  BY AtIsATable DEF TypeOK
<1>2. QED
  BY <1>1, TablesChange DEF TypeOK

LEMMA TablesKeepType ==
    ASSUME TypeOK, CreatesCached, NEW j \in Jobs, Work(j) \/ CheckFails(j) \/ Crash(j)
    PROVE  /\ schema' \in [Tables -> Schemas]
           /\ \A t \in Retired : schema'[t] # "current"
           /\ rows' \in [Tables -> SUBSET Keys]
           /\ \A t \in Tables : schema'[t] # "current" => rows'[t] = {}
<1>1. At(j) \in Tables
  BY AtIsATable DEF TypeOK
<1>2. Owner[j] \in Tables
  BY OwnersAreCached
<1> USE <1>1, <1>2, RetiredAssumption DEF Cached, Schemas, TypeOK
<1>3. CASE /\ schema' = [schema EXCEPT ![At(j)] = "absent"]
           /\ rows' = [rows EXCEPT ![At(j)] = {}]
  BY <1>3
<1>4. CASE /\ job[j].pc = "create"
           /\ schema[At(j)] = "absent"
           /\ schema' = [schema EXCEPT ![At(j)] = "current"]
           /\ rows' = rows
  BY <1>4 DEF CreatesCached
<1>5. CASE /\ schema[Owner[j]] = "current"
           /\ schema' = schema
           /\ rows' = [rows EXCEPT ![Owner[j]] = @ \cup (Keys \ job[j].snap)]
  BY <1>5
<1>6. CASE UNCHANGED <<schema, rows>>
  BY <1>6
<1>7. QED
  BY <1>3, <1>4, <1>5, <1>6, TablesChange

LEMMA TypeStep == TypeInv /\ [Next]_vars => TypeInv'
<1> SUFFICES ASSUME TypeInv, [Next]_vars PROVE TypeInv'
  OBVIOUS
<1>1. CASE Next
  <2>1. PICK j \in Jobs : Work(j) \/ CheckFails(j) \/ Crash(j)
    BY <1>1 DEF Next
  <2>2. job' \in [Jobs -> JobStates]
    BY <1>1, JobsKeepType DEF TypeInv, TypeOK
  <2>3. faults' \in 0 .. MaxFaults
    BY <2>1, BoundAssumption DEF TypeInv, TypeOK, Work, Bootstrap, Start, Probe, Drop, CheckFails,
       Check, Create, CreateTwice, Read, Commit, StatementFails, Crash, Fault
  <2>4. CreatesCached'
    BY <2>1, CreatesStep DEF TypeInv
  <2>5. QED
    BY <2>1, <2>2, <2>3, <2>4, TablesKeepType DEF TypeInv, TypeOK
<1>2. CASE UNCHANGED vars
  BY <1>2 DEF vars, TypeInv, TypeOK, CreatesCached, At
<1>3. QED
  BY <1>1, <1>2

LEMMA TypeInit == Init => TypeInv
<1> SUFFICES ASSUME Init PROVE TypeInv
  OBVIOUS
<1>1. job \in [Jobs -> JobStates]
  BY ProcessType DEF Init
<1>2. QED
  BY <1>1, BoundAssumption DEF Init, TypeInv, TypeOK, CreatesCached, Process

(* The state keeps its type: no retired table comes back, and no table     *)
(* that is gone or of an old schema has rows.                              *)
THEOREM BootstrapTypeCorrect == Spec => []TypeOK
<1>1. TypeInv => TypeOK
  BY DEF TypeInv
<1>2. QED
  BY <1>1, TypeInit, TypeStep, PTL DEF Spec

-----------------------------------------------------------------------------
(* No old schema behind a check.                                           *)

LEMMA ProbeChecksOne ==
    ASSUME NEW s \in JobStates, s.pc \in {"probe", "drop"}
    PROVE  /\ Checked(AfterProbe(s)) = Checked(s) \cup {Checks[s.k]}
           /\ AfterProbe(s).skipped = s.skipped
           /\ AfterProbe(s).disturbed = s.disturbed
           /\ AfterProbe(s).status = s.status
           /\ AfterProbe(s).pc \in {"probe", "check"}
           /\ AfterProbe(s).pc = "check" => AfterProbe(s).k = 1
<1>1. s.k \in 1 .. Len(Checks) /\ Len(Checks) \in Nat \ {0} /\ DOMAIN Checks = 1 .. Len(Checks)
  BY ChecksAreASequence DEF JobStates
<1>2. Checked(s) = {Checks[k] : k \in 1 .. s.k - 1}
  BY DEF Checked
<1>3. CASE Last(s)
  <2>1. AfterProbe(s) = [s EXCEPT !.pc = "check", !.k = 1]
    BY <1>3 DEF AfterProbe
  <2>2. Checked(AfterProbe(s)) = Tables
    BY <2>1 DEF Checked, JobStates
  <2>3. Tables = {Checks[k] : k \in 1 .. s.k - 1} \cup {Checks[s.k]}
    BY <1>1, <1>3 DEF Tables, Last
  <2>4. QED
    BY <1>2, <2>1, <2>2, <2>3 DEF JobStates
<1>4. CASE ~Last(s)
  <2>1. AfterProbe(s) = [s EXCEPT !.pc = "probe", !.k = @ + 1]
    BY <1>4 DEF AfterProbe
  <2>2. AfterProbe(s).pc = "probe" /\ AfterProbe(s).k = s.k + 1
    BY <2>1 DEF JobStates
  <2>3. Checked(AfterProbe(s)) = {Checks[k] : k \in 1 .. (s.k + 1) - 1}
    BY <2>2 DEF Checked
  <2>4. {Checks[k] : k \in 1 .. (s.k + 1) - 1}
            = {Checks[k] : k \in 1 .. s.k - 1} \cup {Checks[s.k]}
    BY <1>1
  <2>5. QED
    BY <1>2, <2>1, <2>2, <2>3, <2>4 DEF JobStates
<1>5. QED
  BY <1>3, <1>4

LEMMA CreateKeepsChecked ==
    ASSUME NEW s \in JobStates, s.pc \in {"check", "create"}
    PROVE  /\ Checked(AfterCreate(s)) = Tables
           /\ AfterCreate(s).skipped = s.skipped
           /\ AfterCreate(s).disturbed = s.disturbed
           /\ AfterCreate(s).status = s.status
           /\ AfterCreate(s).snap = s.snap
           /\ Last(s) => AfterCreate(s).pc = "read"
           /\ ~Last(s) => AfterCreate(s).pc = "check" /\ AfterCreate(s).k = s.k + 1
BY DEF AfterCreate, Checked, JobStates

LEMMA FreshIsUnchecked ==
    ASSUME NEW pc \in {"stopped", "probe"}, NEW status
    PROVE  Checked(Process(pc, status)) = {}
BY DEF Checked, Process

LEMMA NoLegacyStep == TypeOK /\ NoLegacyBehind /\ [Next]_vars => NoLegacyBehind'
<1> SUFFICES ASSUME TypeOK, NoLegacyBehind, Next PROVE NoLegacyBehind'
  BY DEF vars, NoLegacyBehind, Checked
<1>1. PICK j \in Jobs : Work(j) \/ CheckFails(j) \/ Crash(j)
  BY DEF Next
<1> DEFINE s == job[j]
<1>2. s \in JobStates /\ At(j) = Checks[s.k] /\ At(j) \in Tables
  BY AtIsATable DEF TypeOK, At
<1>3. \A t \in Tables : schema'[t] = "legacy" => schema[t] = "legacy"
  BY <1>1, LegacyIsOld
<1>4. ASSUME NEW i \in Jobs, i # j
      PROVE  Checked(job'[i]) = Checked(job[i]) /\ job'[i].skipped = job[i].skipped
  <2>1. job[i] \in JobStates
    BY DEF TypeOK
  <2>2. job'[i] = job[i] \/ job'[i] = [job[i] EXCEPT !.disturbed = TRUE]
    BY <1>1, <1>4, OthersStay
  <2>3. QED
    BY <2>1, <2>2 DEF Checked, JobStates
<1>5. \A t \in Checked(job'[j]) \ job'[j].skipped :
          \/ t \in Checked(s) \ s.skipped
          \/ schema'[t] # "legacy"
  <2>1. CASE \E pc \in {"stopped", "probe"}, status \in {"none", "ok", "failed"} :
                 job'[j] = Process(pc, status)
    BY <2>1, FreshIsUnchecked
  <2>2. CASE Probe(j)
    <3>1. CASE IsLegacy(At(j))
      <4>1. job'[j] = [s EXCEPT !.pc = "drop"]
        BY <2>2, <3>1, TheOneThatGoes DEF Probe
      <4>2. QED
        BY <1>2, <2>2, <4>1 DEF Probe, Checked, JobStates
    <3>2. CASE ~IsLegacy(At(j))
      <4>1. job'[j] = AfterProbe(s) /\ schema' = schema /\ s.pc = "probe"
        BY <2>2, <3>2, TheOneThatGoes DEF Probe
      <4>2. QED
        BY <1>2, <3>2, <4>1, ProbeChecksOne DEF IsLegacy
    <3>3. QED
      BY <3>1, <3>2
  <2>3. CASE Drop(j)
    <3>1. job'[j] = AfterProbe(s) /\ s.pc = "drop"
      BY <2>3, TheOneThatGoes DEF Drop
    <3>2. schema'[At(j)] = "absent"
      BY <1>2, <2>3 DEF Drop, TypeOK
    <3>3. QED
      BY <1>2, <3>1, <3>2, ProbeChecksOne
  <2>4. CASE CheckFails(j)
    <3> DEFINE u == [s EXCEPT !.skipped = @ \cup {At(j)}, !.disturbed = TRUE]
    <3>1. job'[j] = AfterProbe(u)
      BY <2>4, TheOneThatGoes DEF CheckFails
    <3>2. u \in JobStates /\ u.pc = s.pc /\ u.pc \in {"probe", "drop"} /\ u.k = s.k
          /\ u.skipped = s.skipped \cup {At(j)}
      BY <1>2, <2>4 DEF CheckFails, JobStates
    <3>3. Checked(u) = Checked(s)
      BY <3>2 DEF Checked
    <3>4. QED
      BY <1>2, <3>1, <3>2, <3>3, ProbeChecksOne
  <2>5. CASE Check(j) \/ Create(j)
    <3>1. s.pc \in {"check", "create"} /\ (job'[j] = AfterCreate(s) \/ job'[j] = [s EXCEPT !.pc = "create"])
      BY <2>5, TheOneThatGoes DEF Check, Create
    <3>2. Checked(s) = Tables
      BY <3>1 DEF Checked
    <3>3. Checked(job'[j]) = Tables /\ job'[j].skipped = s.skipped
      BY <1>2, <3>1, CreateKeepsChecked DEF Checked, JobStates
    <3>4. QED
      BY <3>2, <3>3
  <2>6. CASE Read(j)
    <3>1. job'[j] = [s EXCEPT !.pc = "commit", !.snap = rows[Owner[j]]] /\ s.pc = "read"
      BY <2>6, TheOneThatGoes DEF Read
    <3>2. QED
      BY <1>2, <3>1 DEF Checked, JobStates
  <2>7. CASE Start(j) \/ CreateTwice(j) \/ Commit(j) \/ StatementFails(j) \/ Crash(j)
    BY <2>1, <2>7, TheOneThatGoes DEF Start, CreateTwice, Commit, StatementFails, Crash, Fails
  <2>8. QED
    BY <1>1, <2>2, <2>3, <2>4, <2>5, <2>6, <2>7 DEF Work, Bootstrap
<1>6. ASSUME NEW i \in Jobs
      PROVE  Checked(job[i]) \subseteq Tables /\ Checked(job'[i]) \subseteq Tables
  <2>1. job[i] \in JobStates /\ job'[i] \in JobStates
    BY JobsKeepType DEF TypeOK
  <2>2. \A u \in JobStates : u.k \in 1 .. Len(Checks)
    BY ChecksAreASequence DEF JobStates
  <2>3. \A u \in JobStates : Checked(u) \subseteq Tables
    BY <2>2, ChecksAreASequence DEF Checked
  <2>4. QED
    BY <2>1, <2>3
<1>7. QED
  BY <1>3, <1>4, <1>5, <1>6 DEF NoLegacyBehind

LEMMA NoLegacyInit == Init => NoLegacyBehind
BY FreshIsUnchecked DEF Init, NoLegacyBehind

(* A job that does its work meets no table of an old schema, unless one of *)
(* its own checks failed: for any order of tables and any jobs.            *)
THEOREM ChecksHold == Spec => []NoLegacyBehind
<1>1. Init => TypeInv /\ NoLegacyBehind
  BY TypeInit, NoLegacyInit
<1>2. TypeInv /\ NoLegacyBehind /\ [Next]_vars => (TypeInv /\ NoLegacyBehind)'
  BY TypeStep, NoLegacyStep DEF TypeInv
<1>3. QED
  BY <1>1, <1>2, PTL DEF Spec

-----------------------------------------------------------------------------
(* Failures are races.                                                     *)

\* What a process that nobody has disturbed can count on.
Calm(j) ==
    LET s == job[j]
    IN  /\ s.skipped = {}
        /\ s.pc \in {"check", "create"} =>
            \A i \in 1 .. s.k - 1 : Checks[i] \in Cached => schema[Checks[i]] = "current"
        /\ s.pc = "create" => schema[Checks[s.k]] = "absent"
        /\ s.pc \in {"read", "commit"} => \A t \in Cached : schema[t] = "current"
        /\ s.pc = "commit" => s.snap = rows[Owner[j]]

RaceInv ==
    \A j \in Jobs : job[j].pc # "stopped" =>
        /\ job[j].status = "none"
        /\ job[j].disturbed \/ Calm(j)

LEMMA RaceInit == Init => RaceInv
BY DEF Init, RaceInv, Process

\* A process that is not the one that goes.
LEMMA RaceOthers ==
    ASSUME TypeOK, RaceInv, NEW j \in Jobs, Work(j) \/ CheckFails(j) \/ Crash(j),
           NEW i \in Jobs, i # j, job'[i].pc # "stopped"
    PROVE  /\ job'[i].status = "none"
           /\ job'[i].disturbed \/ Calm(i)'
<1>1. job[i] \in JobStates
  BY DEF TypeOK
<1>2. CASE job'[i] = job[i] /\ UNCHANGED <<schema, rows>>
  BY <1>2 DEF RaceInv, Calm
<1>3. CASE job'[i] = [job[i] EXCEPT !.disturbed = TRUE]
  <2>1. job'[i].disturbed /\ job'[i].pc = job[i].pc /\ job'[i].status = job[i].status
    BY <1>1, <1>3 DEF JobStates
  <2>2. QED
    BY <2>1 DEF RaceInv
<1>4. QED
  BY <1>2, <1>3, OthersStay

\* In the sequence everything up to its end is everything.
LEMMA AllCreated ==
    ASSUME NEW k \in 1 .. Len(Checks), k = Len(Checks),
           \A i \in 1 .. k : Checks[i] \in Cached => schema'[Checks[i]] = "current"
    PROVE  \A t \in Cached : schema'[t] = "current"
BY ChecksAreASequence DEF Cached, Tables

\* The table at hand is done: the process goes on to the next, or to work.
LEMMA CalmAfterCreate ==
    ASSUME NEW j \in Jobs, job[j] \in JobStates, job[j].pc \in {"check", "create"}, Calm(j),
           job'[j] = AfterCreate(job[j]),
           \A i \in 1 .. job[j].k : Checks[i] \in Cached => schema'[Checks[i]] = "current"
    PROVE  Calm(j)'
<1>1. job[j].k \in 1 .. Len(Checks)
  BY ChecksAreASequence DEF JobStates
<1>2. job'[j].skipped = {}
  BY CreateKeepsChecked DEF Calm
<1>3. CASE Last(job[j])
  <2>1. job'[j].pc = "read"
    BY <1>3, CreateKeepsChecked
  <2>2. \A t \in Cached : schema'[t] = "current"
    BY <1>1, <1>3, AllCreated DEF Last
  <2>3. QED
    BY <1>2, <2>1, <2>2 DEF Calm
<1>4. CASE ~Last(job[j])
  <2>1. job'[j].pc = "check" /\ job'[j].k = job[j].k + 1
    BY <1>4, CreateKeepsChecked
  <2>2. 1 .. job'[j].k - 1 = 1 .. job[j].k
    BY <1>1, <2>1
  <2>3. QED
    BY <1>2, <2>1, <2>2 DEF Calm
<1>5. QED
  BY <1>3, <1>4

LEMMA RaceStep == TypeOK /\ NoLegacyBehind /\ RaceInv /\ [Next]_vars => RaceInv'
<1> SUFFICES ASSUME TypeOK, NoLegacyBehind, RaceInv, Next PROVE RaceInv'
  BY DEF vars, RaceInv, Calm
<1>1. PICK j \in Jobs : Work(j) \/ CheckFails(j) \/ Crash(j)
  BY DEF Next
<1> DEFINE s == job[j]
<1>2. s \in JobStates /\ At(j) = Checks[s.k] /\ s.k \in 1 .. Len(Checks) /\ Len(Checks) \in Nat
  BY ChecksAreASequence DEF TypeOK, At, JobStates
<1> SUFFICES ASSUME job'[j].pc # "stopped"
             PROVE  job'[j].status = "none" /\ (job'[j].disturbed \/ Calm(j)')
  BY <1>1, RaceOthers DEF RaceInv
<1>3. CASE Start(j)
  BY <1>3, TheOneThatGoes DEF Start, Process, Calm
<1>4. CASE CreateTwice(j) \/ Commit(j) \/ StatementFails(j) \/ Crash(j)
  <2>1. job'[j].pc = "stopped"
    BY <1>4, TheOneThatGoes DEF CreateTwice, Commit, StatementFails, Crash, Fails, Process
  <2>2. QED
    BY <2>1
<1>5. CASE Probe(j)
  <2>1. s.pc = "probe" /\ s.status = "none" /\ (s.disturbed \/ Calm(j))
    BY <1>5 DEF Probe, RaceInv
  <2>2. CASE IsLegacy(At(j))
    <3>1. job'[j] = [s EXCEPT !.pc = "drop"]
      BY <1>5, <2>2, TheOneThatGoes DEF Probe
    <3>2. /\ job'[j].pc = "drop" /\ job'[j].status = "none" /\ job'[j].skipped = s.skipped
          /\ job'[j].disturbed = s.disturbed
      BY <1>2, <2>1, <3>1 DEF JobStates
    <3>3. QED
      BY <2>1, <3>2 DEF Calm
  <2>3. CASE ~IsLegacy(At(j))
    <3>1. job'[j] = AfterProbe(s)
      BY <1>5, <2>3, TheOneThatGoes DEF Probe
    <3>2. QED
      BY <1>2, <2>1, <3>1, ProbeChecksOne DEF Calm
  <2>4. QED
    BY <2>2, <2>3
<1>6. CASE Drop(j)
  <2>1. s.pc = "drop" /\ s.status = "none" /\ (s.disturbed \/ Calm(j))
    BY <1>6 DEF Drop, RaceInv
  <2>2. job'[j] = AfterProbe(s)
    BY <1>6, TheOneThatGoes DEF Drop
  <2>3. QED
    BY <1>2, <2>1, <2>2, ProbeChecksOne DEF Calm
<1>7. CASE CheckFails(j)
  <2> DEFINE u == [s EXCEPT !.skipped = @ \cup {At(j)}, !.disturbed = TRUE]
  <2>1. s.pc \in {"probe", "drop"} /\ s.status = "none"
    BY <1>7 DEF CheckFails, RaceInv
  <2>2. u \in JobStates /\ u.pc = s.pc /\ u.disturbed /\ u.status = "none"
    BY <1>2, <2>1, AtIsATable DEF JobStates
  <2>3. job'[j] = AfterProbe(u)
    BY <1>7, TheOneThatGoes DEF CheckFails
  <2>4. QED
    BY <2>1, <2>2, <2>3, ProbeChecksOne
<1>8. CASE Check(j)
  <2>1. s.pc = "check" /\ s.status = "none" /\ (s.disturbed \/ Calm(j))
    BY <1>8 DEF Check, RaceInv
  <2>2. CASE Missing(At(j))
    <3>1. job'[j] = [s EXCEPT !.pc = "create"] /\ schema' = schema
      BY <1>8, <2>2, TheOneThatGoes DEF Check
    <3>2. /\ job'[j].pc = "create" /\ job'[j].status = "none" /\ job'[j].skipped = s.skipped
          /\ job'[j].disturbed = s.disturbed /\ job'[j].k = s.k
      BY <1>2, <2>1, <3>1 DEF JobStates
    <3>3. QED
      BY <1>2, <2>1, <2>2, <3>1, <3>2 DEF Calm, Missing
  <2>3. CASE ~Missing(At(j))
    <3>1. job'[j] = AfterCreate(s) /\ schema' = schema
      BY <1>8, <2>3, TheOneThatGoes DEF Check
    <3>2. job'[j].status = "none" /\ job'[j].disturbed = s.disturbed
      BY <1>2, <2>1, <3>1, CreateKeepsChecked
    <3>3. ASSUME Calm(j)
          PROVE  \A i \in 1 .. s.k : Checks[i] \in Cached => schema'[Checks[i]] = "current"
      <4>1. At(j) \in Tables /\ schema[At(j)] \in Schemas
        BY <1>2, AtIsATable DEF TypeOK
      <4>2. Checked(s) = Tables /\ s.skipped = {}
        BY <2>1, <3>3 DEF Checked, Calm
      <4>3. schema[At(j)] # "legacy"
        BY <4>1, <4>2 DEF NoLegacyBehind
      <4>4. At(j) \in Cached => schema[At(j)] = "current"
        BY <2>3, <4>1, <4>3 DEF Missing, Schemas
      <4>5. \A i \in 1 .. s.k : i \in 1 .. s.k - 1 \/ i = s.k
        BY <1>2
      <4>6. QED
        BY <1>2, <2>1, <3>1, <3>3, <4>4, <4>5 DEF Calm
    <3>4. Calm(j) => Calm(j)'
      BY <1>2, <2>1, <3>1, <3>3, CalmAfterCreate
    <3>5. QED
      BY <2>1, <3>2, <3>4
  <2>4. QED
    BY <2>2, <2>3
<1>9. CASE Create(j)
  <2>1. s.pc = "create" /\ s.status = "none" /\ (s.disturbed \/ Calm(j))
    BY <1>9 DEF Create, RaceInv
  <2>2. job'[j] = AfterCreate(s) /\ schema' = [schema EXCEPT ![At(j)] = "current"]
    BY <1>9, TheOneThatGoes DEF Create
  <2>3. job'[j].status = "none" /\ job'[j].disturbed = s.disturbed
    BY <1>2, <2>1, <2>2, CreateKeepsChecked
  <2>4. ASSUME Calm(j)
        PROVE  \A i \in 1 .. s.k : Checks[i] \in Cached => schema'[Checks[i]] = "current"
    <3>1. \A i \in 1 .. s.k : (i \in 1 .. s.k - 1 \/ i = s.k) /\ Checks[i] \in Tables
      BY <1>2, ChecksAreASequence
    <3>2. QED
      BY <1>2, <2>1, <2>2, <2>4, <3>1 DEF Calm, TypeOK
  <2>5. Calm(j) => Calm(j)'
    BY <1>2, <2>1, <2>2, <2>4, CalmAfterCreate
  <2>6. QED
    BY <2>1, <2>3, <2>5
<1>10. CASE Read(j)
  <2>1. s.pc = "read" /\ s.status = "none" /\ (s.disturbed \/ Calm(j))
    BY <1>10 DEF Read, RaceInv
  <2>2. job'[j] = [s EXCEPT !.pc = "commit", !.snap = rows[Owner[j]]]
        /\ UNCHANGED <<schema, rows>>
    BY <1>10, TheOneThatGoes DEF Read
  <2>3. /\ job'[j].pc = "commit" /\ job'[j].status = "none" /\ job'[j].skipped = s.skipped
        /\ job'[j].disturbed = s.disturbed /\ job'[j].snap = rows[Owner[j]]
    BY <1>2, <2>1, <2>2 DEF JobStates
  <2>4. QED
    BY <2>1, <2>2, <2>3 DEF Calm
<1>11. QED
  BY <1>1, <1>3, <1>4, <1>5, <1>6, <1>7, <1>8, <1>9, <1>10 DEF Work, Bootstrap

\* A failure of a process that could count on the tables is impossible.
LEMMA FailureIsRace ==
    ASSUME TypeOK, RaceInv, Next, NEW i \in Jobs, job[i].pc # "stopped", job'[i].status = "failed"
    PROVE  job[i].disturbed
<1>1. PICK j \in Jobs : Work(j) \/ CheckFails(j) \/ Crash(j)
  BY DEF Next
<1>2. job[i] \in JobStates /\ job[i].status = "none"
  BY DEF TypeOK, RaceInv
<1>3. i = j
  <2>1. SUFFICES ASSUME i # j PROVE FALSE
    OBVIOUS
  <2>2. job'[i] = job[i] \/ job'[i] = [job[i] EXCEPT !.disturbed = TRUE]
    BY <1>1, <2>1, OthersStay
  <2>3. QED
    BY <1>2, <2>2 DEF JobStates
<1>4. CreateTwice(j) \/ StatementFails(j)
  <2>1. ASSUME Start(j) \/ Commit(j) \/ Crash(j) PROVE FALSE
    BY <1>3, <2>1, TheOneThatGoes DEF Start, Commit, Crash, Process
  <2>2. ASSUME Probe(j) \/ Drop(j) \/ CheckFails(j) PROVE FALSE
    <3>1. \A u \in JobStates : u.status = "none" /\ u.pc \in {"probe", "drop"} =>
              AfterProbe(u).status = "none"
      BY ProbeChecksOne
    <3>2. /\ [job[j] EXCEPT !.pc = "drop"].status = "none"
          /\ [job[j] EXCEPT !.skipped = @ \cup {At(j)}, !.disturbed = TRUE] \in JobStates
          /\ [job[j] EXCEPT !.skipped = @ \cup {At(j)}, !.disturbed = TRUE].status = "none"
          /\ [job[j] EXCEPT !.skipped = @ \cup {At(j)}, !.disturbed = TRUE].pc = job[j].pc
      BY <1>2, <1>3, AtIsATable DEF JobStates
    <3>3. job'[j].status = "none"
      BY <1>2, <1>3, <2>2, <3>1, <3>2, TheOneThatGoes DEF Probe, Drop, CheckFails
    <3>4. QED
      BY <1>3, <3>3
  <2>3. ASSUME Check(j) \/ Create(j) PROVE FALSE
    <3>1. job'[j] \in {AfterCreate(job[j]), [job[j] EXCEPT !.pc = "create"]}
          /\ job[j].pc \in {"check", "create"}
      BY <2>3, TheOneThatGoes DEF Check, Create
    <3>2. [job[j] EXCEPT !.pc = "create"].status = "none"
      BY <1>2, <1>3 DEF JobStates
    <3>3. QED
      BY <1>2, <1>3, <3>1, <3>2, CreateKeepsChecked
  <2>4. ASSUME Read(j) PROVE FALSE
    <3>1. job'[j] = [job[j] EXCEPT !.pc = "commit", !.snap = rows[Owner[j]]]
      BY <2>4, TheOneThatGoes DEF Read
    <3>2. QED
      BY <1>2, <1>3, <3>1 DEF JobStates
  <2>5. QED
    BY <1>1, <2>1, <2>2, <2>3, <2>4 DEF Work, Bootstrap
<1>5. SUFFICES ASSUME Calm(j) PROVE FALSE
  BY <1>3 DEF RaceInv
<1>6. CASE CreateTwice(j)
  BY <1>5, <1>6 DEF CreateTwice, Calm, At
<1>7. CASE StatementFails(j)
  <2>1. job[j].pc \in {"read", "commit"}
    BY <1>7 DEF StatementFails
  <2>2. Usable(j)
    BY <1>5, <2>1, OwnersAreCached DEF Calm, Usable
  <2>3. job[j].pc = "commit" => (Keys \ job[j].snap) \cap rows[Owner[j]] = {}
    BY <1>5 DEF Calm
  <2>4. QED
    BY <1>7, <2>2, <2>3 DEF StatementFails
<1>8. QED
  BY <1>4, <1>6, <1>7

(* A job that no other job disturbs and whose checks do not fail gets to   *)
(* its commit, whatever mixture of schemas the upgrade left behind.        *)
THEOREM LoneJobsSucceed == Spec => FailuresAreRaces
<1>1. Init => TypeInv /\ NoLegacyBehind /\ RaceInv
  BY TypeInit, NoLegacyInit, RaceInit
<1>2. TypeInv /\ NoLegacyBehind /\ RaceInv /\ [Next]_vars
         => (TypeInv /\ NoLegacyBehind /\ RaceInv)'
  BY TypeStep, NoLegacyStep, RaceStep DEF TypeInv
<1>3. TypeInv /\ RaceInv /\ [Next]_vars =>
         [\A j \in Jobs :
            job[j].pc # "stopped" /\ job'[j].status = "failed" => job[j].disturbed]_vars
  BY FailureIsRace DEF TypeInv
<1>4. QED
  BY <1>1, <1>2, <1>3, PTL DEF Spec, FailuresAreRaces

-----------------------------------------------------------------------------
(* What CacheComesBack rests on: tables are lost to verdicts on an old     *)
(* schema, and verdicts run out.                                           *)

Condemned == {t \in Tables : schema[t] = "legacy"}

\* The jobs about to carry out a verdict.
Sentencing == {j \in Jobs : job[j].pc = "drop"}

\* Table t is dropped, or loses rows.
Loses(t) ==
    \/ schema[t] = "current" /\ schema'[t] # "current"
    \/ ~(rows[t] \subseteq rows'[t])

VerdictsEnd ==
    /\ Condemned' \subseteq Condemned
    /\ Condemned = {} => Sentencing' \subseteq Sentencing
    /\ \A t \in Tables : Loses(t) => \E j \in Sentencing \ Sentencing' : At(j) = t

\* Whoever is about to drop a table now was so before, or has just seen the
\* old schema; who has dropped it goes on to the next.
LEMMA VerdictsAreFound ==
    ASSUME TypeOK, NEW j \in Jobs, Work(j) \/ CheckFails(j) \/ Crash(j)
    PROVE  /\ \A i \in Jobs : job'[i].pc = "drop" =>
                \/ job[i].pc = "drop"
                \/ i = j /\ At(j) \in Condemned
           /\ Drop(j) => job[j].pc = "drop" /\ job'[j].pc # "drop"
<1>1. job[j] \in JobStates /\ At(j) \in Tables
  BY AtIsATable DEF TypeOK
<1>2. ASSUME NEW i \in Jobs, i # j, job'[i].pc = "drop"
      PROVE  job[i].pc = "drop"
  <2>1. job[i] \in JobStates
    BY DEF TypeOK
  <2>2. job'[i] = job[i] \/ job'[i] = [job[i] EXCEPT !.disturbed = TRUE]
    BY <1>2, OthersStay
  <2>3. QED
    BY <1>2, <2>1, <2>2 DEF JobStates
<1>3. \A u \in JobStates : u.pc # "drop" => AfterCreate(u).pc # "drop"
  BY DEF AfterCreate, JobStates
<1>4. \A u \in JobStates : AfterProbe(u).pc # "drop"
  BY DEF AfterProbe, JobStates
<1>5. CASE Probe(j)
  <2>1. CASE IsLegacy(At(j))
    BY <1>1, <1>2, <1>5, <2>1 DEF Probe, Drop, IsLegacy, Condemned
  <2>2. CASE ~IsLegacy(At(j))
    <3>1. job'[j] = AfterProbe(job[j])
      BY <1>5, <2>2, TheOneThatGoes DEF Probe
    <3>2. QED
      BY <1>1, <1>2, <1>4, <1>5, <3>1 DEF Probe, Drop
  <2>3. QED
    BY <2>1, <2>2
<1>6. CASE Drop(j)
  <2>1. job'[j] = AfterProbe(job[j])
    BY <1>6, TheOneThatGoes DEF Drop
  <2>2. QED
    BY <1>1, <1>2, <1>4, <1>6, <2>1 DEF Drop
<1>7. CASE ~Probe(j) /\ ~Drop(j)
  <2>1. job'[j].pc # "drop"
    <3>1. CASE CheckFails(j)
      <4>1. [job[j] EXCEPT !.skipped = @ \cup {At(j)}, !.disturbed = TRUE] \in JobStates
        BY <1>1 DEF JobStates
      <4>2. QED
        BY <1>4, <3>1, <4>1, TheOneThatGoes DEF CheckFails
    <3>2. CASE Check(j) \/ Create(j)
      <4>1. /\ job[j].pc # "drop"
            /\ job'[j] = AfterCreate(job[j]) \/ job'[j] = [job[j] EXCEPT !.pc = "create"]
        BY <3>2, TheOneThatGoes DEF Check, Create
      <4>2. QED
        BY <1>1, <1>3, <4>1 DEF JobStates
    <3>3. CASE Read(j)
      <4>1. job'[j] = [job[j] EXCEPT !.pc = "commit", !.snap = rows[Owner[j]]]
        BY <3>3, TheOneThatGoes DEF Read
      <4>2. QED
        BY <1>1, <4>1 DEF JobStates
    <3>4. CASE Start(j) \/ CreateTwice(j) \/ Commit(j) \/ StatementFails(j) \/ Crash(j)
      <4>1. \E pc \in {"stopped", "probe"}, status \in {"none", "ok", "failed"} :
               job'[j] = Process(pc, status)
        BY <3>4, TheOneThatGoes DEF Start, CreateTwice, Commit, StatementFails, Crash, Fails
      <4>2. QED
        BY <4>1 DEF Process
    <3>5. QED
      BY <1>7, <3>1, <3>2, <3>3, <3>4 DEF Work, Bootstrap
  <2>2. QED
    BY <1>2, <1>7, <2>1
<1>8. QED
  BY <1>5, <1>6, <1>7

(* No table becomes old again; a table is dropped only by a job that has   *)
(* found it old, once for each finding, and once no table is old nobody    *)
(* finds one so: at most one drop more for every job that runs, and from   *)
(* then on tables only grow, whatever is started, fails or is killed.      *)
THEOREM UpgradeEnds == Spec => [][VerdictsEnd]_vars
<1>1. ASSUME TypeOK, Next PROVE VerdictsEnd
  <2>1. PICK j \in Jobs : Work(j) \/ CheckFails(j) \/ Crash(j)
    BY <1>1 DEF Next
  <2>2. Condemned' \subseteq Condemned
    BY <1>1, <2>1, LegacyIsOld DEF Condemned
  <2>3. Condemned = {} => Sentencing' \subseteq Sentencing
    BY <1>1, <2>1, VerdictsAreFound DEF Sentencing
  <2>4. ASSUME NEW t \in Tables, Loses(t)
        PROVE  \E i \in Sentencing \ Sentencing' : At(i) = t
    <3>1. Owner[j] \in Tables /\ rows[Owner[j]] \subseteq Keys /\ At(j) \in Tables
      BY <1>1, OwnersAreCached, AtIsATable DEF TypeOK, Cached
    <3>2. CASE Drop(j)
      <4>1. At(j) = t
        BY <1>1, <2>4, <3>1, <3>2 DEF Drop, Loses, TypeOK
      <4>2. job[j].pc = "drop" /\ job'[j].pc # "drop"
        BY <1>1, <2>1, <3>2, VerdictsAreFound
      <4>3. QED
        BY <4>1, <4>2 DEF Sentencing
    <3>3. CASE Create(j)
      BY <1>1, <2>4, <3>1, <3>3 DEF Create, Loses, TypeOK
    <3>4. CASE Commit(j)
      BY <1>1, <2>4, <3>1, <3>4 DEF Commit, Loses, TypeOK
    <3>5. CASE Start(j) \/ Probe(j) \/ CheckFails(j) \/ Check(j) \/ CreateTwice(j)
               \/ Read(j) \/ StatementFails(j) \/ Crash(j)
      BY <2>4, <3>5 DEF Start, Probe, CheckFails, Check, CreateTwice, Read,
         StatementFails, Crash, Loses
    <3>6. QED
      BY <2>1, <3>2, <3>3, <3>4, <3>5 DEF Work, Bootstrap
  <2>5. QED
    BY <2>2, <2>3, <2>4 DEF VerdictsEnd
<1>2. TypeOK /\ [Next]_vars => [VerdictsEnd]_vars
  BY <1>1
<1>3. QED
  BY <1>2, BootstrapTypeCorrect, PTL DEF Spec
=============================================================================
