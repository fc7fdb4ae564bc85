----------------------------- MODULE OperationsDb -----------------------------
(***************************************************************************)
(* The life of the operations database: scripts/init_db.py creates or      *)
(* migrates it, statement by statement, and the server writes to its kill  *)
(* switch (halt_system) and to its journal (journal_entry) meanwhile.      *)
(*                                                                         *)
(* executescript commits every statement on its own; the seed of           *)
(* system_state is a transaction of its own.  Two runs of init_db may      *)
(* overlap, and a run can be killed, or give up on a lock, at any point.   *)
(* Of the schema's tables only those the server writes, and `runs`, are    *)
(* modelled, and two of its four views; the others are alike.              *)
(***************************************************************************)
EXTENDS Naturals, Sequences, FiniteSets

CONSTANTS
  Inits,        \* the processes that run init_db
  NoInit,
  RunIds,       \* what the user may type as a run_id, besides nothing
  NoRun,        \* the journal entry names no run
  MaxStarts,    \* bound: how often init_db is started
  MaxCrashes    \* bound: how many of its runs are killed

ASSUME DbAssumption ==
  /\ NoInit \notin Inits
  /\ NoRun \notin RunIds
  /\ {MaxStarts, MaxCrashes} \subseteq Nat

Tables == {"runs", "proposals", "approvals", "system_state", "journal"}
Views  == {"v_pending_approval", "v_override_log"}

Create(name) == [do |-> "create", name |-> name]   \* CREATE TABLE IF NOT EXISTS or CREATE VIEW
Drop(name)   == [do |-> "drop", name |-> name]     \* DROP VIEW IF EXISTS

\* Mutant: the script drops a table before it creates it.
TableScriptRecreating ==
  << Create("runs"), Create("proposals"), Create("approvals"),
     Create("system_state"), Drop("journal"), Create("journal") >>

\* schema.sql, in its order: every table is created unless it is there ...
TableScript ==
  << Create("runs"), Create("proposals"), Create("approvals"),
     Create("system_state"), Create("journal") >>

\* ... and every view is made anew.
ViewScript ==
  << Drop("v_pending_approval"), Create("v_pending_approval"),
     Drop("v_override_log"), Create("v_override_log") >>

Script == TableScript \o ViewScript

VARIABLES
  objects,    \* the tables and views there are
  switch,     \* the row of system_state: none, enabled or halted
  runs,       \* the rows of runs
  journal,    \* the rows of journal: the run each one names
  lock,       \* the init_db process with an open write transaction
  pc,         \* where each init_db is
  at,         \* and the statement of the script it executes next
  told,       \* has halt_system answered "trading_enabled": false?
  starts, crashes

db   == <<objects, switch, runs, journal>>
proc == <<lock, pc, at>>
vars == <<db, proc, told, starts, crashes>>

Init ==
  /\ objects = {}
  /\ switch = "none"
  /\ runs = {} /\ journal = {}
  /\ lock = NoInit
  /\ pc = [p \in Inits |-> "idle"]
  /\ at = [p \in Inits |-> 1]
  /\ told = FALSE
  /\ starts = 0 /\ crashes = 0

Goto(p, loc) == pc' = [pc EXCEPT ![p] = loc]

-----------------------------------------------------------------------------
(* init_db. *)

Start(p) ==
  /\ pc[p] \in {"idle", "done", "failed"}
  /\ starts < MaxStarts
  /\ Goto(p, "script")
  /\ at' = [at EXCEPT ![p] = 1]
  /\ starts' = starts + 1
  /\ UNCHANGED <<db, lock, told, crashes>>

\* Mutant: DROP VIEW without IF EXISTS.
RefusedWithoutIfExists(statement) ==
  \/ statement.do = "create" /\ statement.name \in Views \cap objects
  \/ statement.do = "drop" /\ statement.name \notin objects

\* A view that is there cannot be created; everything else goes through.
Refused(statement) ==
  statement.do = "create" /\ statement.name \in Views \cap objects

\* One statement of executescript, committed at once.
Execute(p) ==
  /\ pc[p] = "script" /\ lock = NoInit
  /\ at[p] <= Len(Script)
  /\ LET statement == Script[at[p]] IN
       /\ ~ Refused(statement)
       /\ objects' = IF statement.do = "drop" THEN objects \ {statement.name}
                                              ELSE objects \cup {statement.name}
  /\ at' = [at EXCEPT ![p] = @ + 1]
  /\ UNCHANGED <<switch, runs, journal, lock, pc, told, starts, crashes>>

\* "view ... already exists": the script stops and the process with it.
ExecuteFails(p) ==
  /\ pc[p] = "script" /\ lock = NoInit
  /\ at[p] <= Len(Script) /\ Refused(Script[at[p]])
  /\ Goto(p, "failed")
  /\ UNCHANGED <<db, lock, at, told, starts, crashes>>

BeginSeed(p) ==
  /\ pc[p] = "script" /\ at[p] > Len(Script)
  /\ lock = NoInit
  /\ lock' = p
  /\ Goto(p, "seed")
  /\ UNCHANGED <<db, at, told, starts, crashes>>

\* Mutants: INSERT OR REPLACE, and no commit.
SeededAnew(old) == "enabled"

SeededNever(old) == old

\* What INSERT OR IGNORE leaves in system_state.
Seeded(old) == IF old = "none" THEN "enabled" ELSE old

Commit(p) ==
  /\ pc[p] = "seed"
  /\ switch' = Seeded(switch)
  /\ lock' = NoInit
  /\ Goto(p, "done")
  /\ UNCHANGED <<objects, runs, journal, at, told, starts, crashes>>

\* Mutant: a lock that outlives its process.
CrashKeepingLock(p) ==
  /\ crashes < MaxCrashes
  /\ pc[p] \in {"script", "seed"}
  /\ Goto(p, "failed")
  /\ crashes' = crashes + 1
  /\ UNCHANGED <<db, lock, at, told, starts>>

\* Killed, or "database is locked": an open transaction is rolled back.
Crash(p) ==
  /\ crashes < MaxCrashes
  /\ pc[p] \in {"script", "seed"}
  /\ Goto(p, "failed")
  /\ lock' = IF lock = p THEN NoInit ELSE lock
  /\ crashes' = crashes + 1
  /\ UNCHANGED <<db, at, told, starts>>

-----------------------------------------------------------------------------
(* The server and the pipeline. *)

\* What UPDATE ... WHERE id = 1 leaves in system_state.
Halted(old) == IF old = "none" THEN old ELSE "halted"

\* The answer does not depend on the number of rows updated.
HaltSystem ==
  /\ "system_state" \in objects /\ lock = NoInit
  /\ switch' = Halted(switch)
  /\ told' = TRUE
  /\ UNCHANGED <<objects, runs, journal, proc, starts, crashes>>

\* foreign_keys is off on the server's connection: the PRAGMA of schema.sql
\* lasts as long as the connection of init_db.
JournalEntry(run) ==
  /\ "journal" \in objects /\ lock = NoInit
  /\ journal' = journal \cup {run}
  /\ UNCHANGED <<objects, switch, runs, proc, told, starts, crashes>>

\* A pipeline run registers itself (the pipeline is a stub).
RegisterRun(run) ==
  /\ "runs" \in objects /\ lock = NoInit
  /\ runs' = runs \cup {run}
  /\ UNCHANGED <<objects, switch, journal, proc, told, starts, crashes>>

-----------------------------------------------------------------------------
InitDb(p) == Execute(p) \/ ExecuteFails(p) \/ BeginSeed(p) \/ Commit(p)

Next ==
  \/ \E p \in Inits : Start(p) \/ InitDb(p) \/ Crash(p)
  \/ HaltSystem
  \/ \E run \in RunIds \cup {NoRun} : JournalEntry(run)
  \/ \E run \in RunIds : RegisterRun(run)

Spec == Init /\ [][Next]_vars

-----------------------------------------------------------------------------
(* What is checked, and proved in OperationsDbProofs. *)

TypeOK ==
  /\ objects \subseteq Tables \cup Views
  /\ switch \in {"none", "enabled", "halted"}
  /\ runs \subseteq RunIds
  /\ journal \subseteq RunIds \cup {NoRun}
  /\ lock \in Inits \cup {NoInit}
  /\ \A p \in Inits : lock = p <=> pc[p] = "seed"
  /\ pc \in [Inits -> {"idle", "script", "seed", "done", "failed"}]
  /\ at \in [Inits -> 1 .. Len(Script) + 1]
  /\ told \in BOOLEAN
  /\ starts \in 0 .. MaxStarts /\ crashes \in 0 .. MaxCrashes

\* No run of init_db, whole, overlapping or killed, starts trading again once
\* the kill switch is off, or removes it.
HaltHolds == [][switch = "halted" => switch' = "halted"]_vars

\* "adds anything missing without touching your history": no table goes once
\* it is there, and no row of the journal or of runs with it.
HistoryIsKept ==
  [][/\ objects \cap Tables \subseteq objects'
     /\ journal \subseteq journal' /\ runs \subseteq runs']_vars

Running(p) == pc[p] \in {"script", "seed"}

Complete == objects = Tables \cup Views /\ switch # "none"

\* "Idempotent: safe to re-run": however runs of init_db overlap, and though
\* one that loses the race for a view fails, the database is complete once
\* they have all ended, unless one was killed.
OverlappingRunsComplete ==
  starts > 0 /\ crashes = 0 /\ (\A p \in Inits : ~ Running(p)) => Complete

\* A run that ends well leaves a seeded kill switch and every table behind,
\* whatever was killed before it.
DoneMeansSeeded ==
  \A p \in Inits : pc[p] = "done" => Tables \subseteq objects /\ switch # "none"

\* halt_system "Fails closed": after it has answered that trading is disabled,
\* trading is not enabled.
HaltIsEffective == told => switch # "enabled"
=============================================================================
