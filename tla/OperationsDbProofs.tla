------------------------- MODULE OperationsDbProofs -------------------------
(***************************************************************************)
(* What holds of OperationsDb for any number of init_db processes, starts  *)
(* and crashes.                                                            *)
(***************************************************************************)
EXTENDS OperationsDb, SequenceTheorems, TLAPS

Statements == [do : {"create", "drop"}, name : Tables \cup Views]

\* What the proofs need to know of schema.sql.
LEMMA ScriptFacts ==
  /\ Len(Script) = 9
  /\ \A n \in 1 .. 9 : Script[n] \in Statements
  /\ \A n \in 1 .. 9 : Script[n].do = "drop" => Script[n].name \notin Tables
  /\ \A table \in Tables : \E n \in 1 .. 5 : Script[n] = Create(table)
  /\ \A n \in 1 .. 5 : Script[n].do = "create" /\ Script[n].name \in Tables
  /\ Script[6] = Drop("v_pending_approval") /\ Script[7] = Create("v_pending_approval")
  /\ Script[8] = Drop("v_override_log") /\ Script[9] = Create("v_override_log")
  <1>1. /\ TableScript \in Seq(Statements) /\ Len(TableScript) = 5
        /\ ViewScript \in Seq(Statements) /\ Len(ViewScript) = 4
    BY DEF TableScript, ViewScript, Statements, Create, Drop, Tables, Views
  <1> DEFINE both == TableScript \o ViewScript
  <1>concat. /\ Len(both) = Len(TableScript) + Len(ViewScript)
        /\ \A n \in 1 .. Len(TableScript) + Len(ViewScript) :
             both[n] = IF n <= Len(TableScript) THEN TableScript[n]
                       ELSE ViewScript[n - Len(TableScript)]
    BY <1>1, ConcatProperties
  <1> HIDE DEF both
  <1>same. Script = both
    BY DEF Script, both
  <1>2. Len(Script) = 9
    BY <1>1, <1>concat, <1>same
  <1>3. \A n \in 1 .. 5 : Script[n] = TableScript[n]
    BY <1>1, <1>concat, <1>same
  <1>4. \A n \in 6 .. 9 : Script[n] = ViewScript[n - 5]
    BY <1>1, <1>concat, <1>same
  <1>5. /\ Script[1] = Create("runs") /\ Script[2] = Create("proposals")
        /\ Script[3] = Create("approvals") /\ Script[4] = Create("system_state")
        /\ Script[5] = Create("journal")
    BY <1>3 DEF TableScript
  <1>6. /\ Script[6] = Drop("v_pending_approval") /\ Script[7] = Create("v_pending_approval")
        /\ Script[8] = Drop("v_override_log") /\ Script[9] = Create("v_override_log")
    BY <1>4 DEF ViewScript
  <1>7. \A n \in 1 .. 9 : n = 1 \/ n = 2 \/ n = 3 \/ n = 4 \/ n = 5
                          \/ n = 6 \/ n = 7 \/ n = 8 \/ n = 9
    OBVIOUS
  <1>8. \A n \in 1 .. 9 : /\ Script[n] \in Statements
                          /\ Script[n].do = "drop" => Script[n].name \notin Tables
    BY <1>5, <1>6, <1>7 DEF Create, Drop, Statements, Tables, Views
  <1>9. \A table \in Tables : \E n \in 1 .. 5 : Script[n] = Create(table)
    BY <1>5 DEF Tables
  <1>10. \A n \in 1 .. 5 : Script[n].do = "create" /\ Script[n].name \in Tables
    BY <1>5, <1>7 DEF Create, Tables
  <1> QED
    BY <1>2, <1>6, <1>8, <1>9, <1>10

\* The inductive invariant: what a run has got through is in the database, and
\* no statement takes a table away.
Progress ==
  \A p \in Inits :
    /\ pc[p] = "script" =>
         \A n \in 1 .. 9 : n < at[p] /\ Script[n].do = "create" /\ Script[n].name \in Tables
                             => Script[n].name \in objects
    /\ pc[p] \in {"seed", "done"} => Tables \subseteq objects
    /\ pc[p] = "done" => switch # "none"

Inv == TypeOK /\ Progress

LEMMA InvInit == Init => Inv
  <1> SUFFICES ASSUME Init PROVE Inv
    OBVIOUS
  <1>1. 1 \in 1 .. Len(Script) + 1
    BY ScriptFacts
  <1>2. TypeOK
    <2>1. /\ objects \subseteq Tables \cup Views
          /\ switch \in {"none", "enabled", "halted"}
          /\ runs \subseteq RunIds /\ journal \subseteq RunIds \cup {NoRun}
          /\ told \in BOOLEAN
      BY DEF Init
    <2>2. /\ lock \in Inits \cup {NoInit}
          /\ \A p \in Inits : lock = p <=> pc[p] = "seed"
      BY DbAssumption DEF Init
    <2>3. /\ pc \in [Inits -> {"idle", "script", "seed", "done", "failed"}]
          /\ at \in [Inits -> 1 .. Len(Script) + 1]
      BY <1>1 DEF Init
    <2>4. starts \in 0 .. MaxStarts /\ crashes \in 0 .. MaxCrashes
      BY DbAssumption DEF Init
    <2> QED
      BY <2>1, <2>2, <2>3, <2>4 DEF TypeOK
  <1>3. Progress
    BY DEF Init, Progress
  <1> QED
    BY <1>2, <1>3 DEF Inv

\* A step that starts no run, moves none, and takes no table and no row of
\* system_state away keeps the invariant.
LEMMA InvServer ==
  ASSUME Inv, TypeOK', UNCHANGED <<pc, at>>,
         objects \cap Tables \subseteq objects', switch # "none" => switch' # "none"
  PROVE  Inv'
  BY DEF Inv, Progress

LEMMA TypesNext == TypeOK /\ [Next]_vars => TypeOK'
  <1> SUFFICES ASSUME TypeOK, [Next]_vars PROVE TypeOK'
    OBVIOUS
  <1> USE ScriptFacts, DbAssumption
  <1>1. CASE UNCHANGED vars
    BY <1>1 DEF TypeOK, vars, db, proc
  <1>2. ASSUME NEW p \in Inits, Start(p) PROVE TypeOK'
    BY <1>2 DEF TypeOK, Start, Goto, db
  <1>3. ASSUME NEW p \in Inits, Execute(p) PROVE TypeOK'
    <2>1. Script[at[p]] \in Statements /\ at[p] + 1 \in 1 .. Len(Script) + 1
      BY <1>3 DEF TypeOK, Execute
    <2>2. objects' \subseteq Tables \cup Views
      BY <1>3, <2>1 DEF TypeOK, Execute, Statements
    <2> QED
      BY <1>3, <2>1, <2>2 DEF TypeOK, Execute
  <1>4. ASSUME NEW p \in Inits, ExecuteFails(p) PROVE TypeOK'
    BY <1>4 DEF TypeOK, ExecuteFails, Goto, db
  <1>5. ASSUME NEW p \in Inits, BeginSeed(p) PROVE TypeOK'
    BY <1>5 DEF TypeOK, BeginSeed, Goto, db
  <1>6. ASSUME NEW p \in Inits, Commit(p) PROVE TypeOK'
    BY <1>6 DEF TypeOK, Commit, Goto, Seeded
  <1>7. ASSUME NEW p \in Inits, Crash(p) PROVE TypeOK'
    BY <1>7 DEF TypeOK, Crash, Goto, db
  <1>8. CASE HaltSystem
    BY <1>8 DEF TypeOK, HaltSystem, Halted, proc
  <1>9. ASSUME NEW run \in RunIds \cup {NoRun}, JournalEntry(run) PROVE TypeOK'
    BY <1>9 DEF TypeOK, JournalEntry, proc
  <1>10. ASSUME NEW run \in RunIds, RegisterRun(run) PROVE TypeOK'
    BY <1>10 DEF TypeOK, RegisterRun, proc
  <1> QED
    BY <1>1, <1>2, <1>3, <1>4, <1>5, <1>6, <1>7, <1>8, <1>9, <1>10 DEF Next, InitDb

\* No step takes a table away.
LEMMA TablesStay == TypeOK /\ [Next]_vars => objects \cap Tables \subseteq objects'
  <1> SUFFICES ASSUME TypeOK, [Next]_vars PROVE objects \cap Tables \subseteq objects'
    OBVIOUS
  <1>1. ASSUME NEW p \in Inits, Execute(p) PROVE objects \cap Tables \subseteq objects'
    <2>1. at[p] \in 1 .. 9
      BY <1>1, ScriptFacts DEF TypeOK, Execute
    <2> QED
      BY <1>1, <2>1, ScriptFacts DEF Execute
  <1>2. ASSUME ~ \E p \in Inits : Execute(p) PROVE objects' = objects
    BY <1>2 DEF Next, InitDb, Start, ExecuteFails, BeginSeed, Commit, Crash,
                HaltSystem, JournalEntry, RegisterRun, vars, db
  <1> QED
    BY <1>1, <1>2

\* No step takes the kill switch away, or starts trading again.
LEMMA SwitchStays ==
  TypeOK /\ [Next]_vars => /\ switch = "halted" => switch' = "halted"
                           /\ switch # "none" => switch' # "none"
  <1> SUFFICES ASSUME TypeOK, [Next]_vars
               PROVE  /\ switch = "halted" => switch' = "halted"
                      /\ switch # "none" => switch' # "none"
    OBVIOUS
  <1>1. switch' \in {switch, Seeded(switch), Halted(switch)}
    BY DEF Next, InitDb, Start, Execute, ExecuteFails, BeginSeed, Commit, Crash,
           HaltSystem, JournalEntry, RegisterRun, vars, db
  <1> QED
    BY <1>1 DEF Seeded, Halted, TypeOK

LEMMA InvNext == Inv /\ [Next]_vars => Inv'
  <1> SUFFICES ASSUME Inv, [Next]_vars PROVE Inv'
    OBVIOUS
  <1>1. /\ TypeOK /\ TypeOK'
        /\ objects \cap Tables \subseteq objects'
        /\ switch # "none" => switch' # "none"
    BY TypesNext, TablesStay, SwitchStays DEF Inv
  <1>2. ASSUME NEW p \in Inits, Start(p) PROVE Progress'
    BY <1>1, <1>2, ScriptFacts DEF Inv, Progress, TypeOK, Start, Goto, db
  <1>3. ASSUME NEW p \in Inits, Execute(p) PROVE Progress'
    <2>1. /\ at[p] \in 1 .. 9 /\ at'[p] = at[p] + 1
          /\ \A q \in Inits \ {p} : at'[q] = at[q]
          /\ UNCHANGED <<pc, switch>>
      BY <1>1, <1>3, ScriptFacts DEF Execute, TypeOK
    <2>2. Script[at[p]].do = "create" => Script[at[p]].name \in objects'
      BY <1>3, <2>1, ScriptFacts DEF Execute, Statements
    <2>3. ASSUME NEW q \in Inits, pc[q] = "script",
                 NEW n \in 1 .. 9, n < at'[q], Script[n].do = "create",
                 Script[n].name \in Tables
          PROVE  Script[n].name \in objects'
      <3>1. CASE q = p /\ n = at[p]
        BY <2>2, <2>3, <3>1
      <3>2. CASE ~ (q = p /\ n = at[p])
        <4>1. n < at[q]
          BY <1>1, <2>1, <2>3, <3>2 DEF TypeOK
        <4> QED
          BY <1>1, <2>3, <4>1 DEF Inv, Progress
      <3> QED
        BY <3>1, <3>2
    <2>4. ASSUME NEW q \in Inits
          PROVE  /\ pc[q] \in {"seed", "done"} => Tables \subseteq objects'
                 /\ pc[q] = "done" => switch' # "none"
      BY <1>1, <2>1 DEF Inv, Progress
    <2> QED
      BY <2>1, <2>3, <2>4 DEF Progress
  <1>4. ASSUME NEW p \in Inits, BeginSeed(p) PROVE Progress'
    <2>1. Tables \subseteq objects
      <3> SUFFICES ASSUME NEW table \in Tables PROVE table \in objects
        OBVIOUS
      <3>1. PICK n \in 1 .. 5 : Script[n] = Create(table)
        BY ScriptFacts
      <3>2. n < at[p] /\ pc[p] = "script"
        BY <1>1, <1>4, ScriptFacts DEF BeginSeed, TypeOK
      <3> QED
        BY <3>1, <3>2 DEF Inv, Progress, Create
    <2> QED
      BY <1>1, <1>4, <2>1 DEF Inv, Progress, BeginSeed, TypeOK, Goto, db
  <1>5. ASSUME NEW p \in Inits, Commit(p) PROVE Progress'
    BY <1>1, <1>5 DEF Inv, Progress, Commit, TypeOK, Goto, Seeded
  <1>6. ASSUME NEW p \in Inits, ExecuteFails(p) \/ Crash(p) PROVE Progress'
    BY <1>1, <1>6 DEF Inv, Progress, ExecuteFails, Crash, TypeOK, Goto, db
  <1>7. ASSUME UNCHANGED <<pc, at>> PROVE Progress'
    BY <1>1, <1>7, InvServer DEF Inv
  <1>8. \/ \E p \in Inits : Start(p) \/ Execute(p) \/ BeginSeed(p) \/ Commit(p)
                            \/ ExecuteFails(p) \/ Crash(p)
        \/ UNCHANGED <<pc, at>>
    BY DEF Next, InitDb, HaltSystem, JournalEntry, RegisterRun, vars, proc
  <1> QED
    BY <1>1, <1>2, <1>3, <1>4, <1>5, <1>6, <1>7, <1>8 DEF Inv

LEMMA Invariance == Spec => []Inv
  BY InvInit, InvNext, PTL DEF Spec

\* A run of init_db that ends well leaves every table and a seeded kill switch
\* behind, whatever ran beside it and was killed before it.
THEOREM DoneRunsAreSeeded == Spec => []DoneMeansSeeded
  <1>1. Inv => DoneMeansSeeded
    BY DEF Inv, Progress, DoneMeansSeeded
  <1> QED
    BY <1>1, Invariance, PTL

\* No number of re-runs of init_db enables trading again once it is halted.
THEOREM HaltsHold == Spec => HaltHolds
  <1>1. Inv /\ [Next]_vars => [switch = "halted" => switch' = "halted"]_vars
    BY SwitchStays DEF Inv
  <1> QED
    BY <1>1, Invariance, PTL DEF Spec, HaltHolds

\* A re-run adds what is missing and touches nothing else: no table and no row
\* of journal or runs ever goes.
THEOREM HistoryStays == Spec => HistoryIsKept
  <1> DEFINE Kept == /\ objects \cap Tables \subseteq objects'
                     /\ journal \subseteq journal' /\ runs \subseteq runs'
  <1>1. Inv /\ [Next]_vars => [Kept]_vars
    <2> SUFFICES ASSUME Inv, Next PROVE Kept
      OBVIOUS
    <2>1. journal \subseteq journal' /\ runs \subseteq runs'
      BY DEF Next, InitDb, Start, Execute, ExecuteFails, BeginSeed, Commit, Crash,
             HaltSystem, JournalEntry, RegisterRun, db
    <2> QED
      BY <2>1, TablesStay DEF Inv
  <1> QED
    BY <1>1, Invariance, PTL DEF Spec, HistoryIsKept

-----------------------------------------------------------------------------
(* Overlapping runs.  A run that loses the race for a view fails before it *)
(* has done the rest of the script, so no run can be relied on to reach    *)
(* its end.  What can be relied on is that whatever is missing, somebody   *)
(* is still going to make: the first view, then, because of it, the second *)
(* one, then, because of that, the row of the kill switch.                 *)

InScript(p, first, last) == pc[p] = "script" /\ at[p] \in first .. last

FirstViewComes ==
  "v_pending_approval" \in objects \/ \E p \in Inits : InScript(p, 1, 7)

SecondViewComes ==
  "v_override_log" \in objects \/ \E p \in Inits : InScript(p, 8, 9)

SeedComes ==
  switch # "none" \/ \E p \in Inits : pc[p] = "seed" \/ InScript(p, 10, 10)

TablesCame == Tables \subseteq objects

\* The second inductive invariant, as long as no run was killed.
Relay ==
  /\ starts > 0 /\ crashes = 0 => FirstViewComes
  /\ "v_pending_approval" \in objects => TablesCame
  /\ "v_pending_approval" \in objects /\ crashes = 0 => SecondViewComes
  /\ "v_override_log" \in objects /\ crashes = 0 => SeedComes

LEMMA RelayInit == Init => Relay
  BY DEF Init, Relay

\* Steps that leave the objects and the scripts under way alone, or only put a
\* run at its start.
LEMMA RelayAside ==
  ASSUME Inv, Relay, objects' = objects, switch # "none" => switch' # "none",
         crashes' = crashes, crashes \in Nat,
         starts' > 0 => starts > 0 \/ \E p \in Inits : InScript(p, 1, 7)',
         \A p \in Inits : /\ pc[p] = "script" \/ pc[p] = "seed" => pc'[p] = pc[p]
                          /\ at'[p] = at[p] \/ pc[p] \notin {"script", "seed"}
  PROVE  Relay'
  <1>1. ASSUME NEW p \in Inits, NEW first, NEW last, InScript(p, first, last)
        PROVE  InScript(p, first, last)'
    BY <1>1 DEF InScript
  <1>2. FirstViewComes => FirstViewComes'
    BY <1>1 DEF FirstViewComes
  <1>3. SecondViewComes => SecondViewComes'
    BY <1>1 DEF SecondViewComes
  <1>4. SeedComes => SeedComes'
    BY <1>1 DEF SeedComes
  <1>5. (\E p \in Inits : InScript(p, 1, 7)') => FirstViewComes'
    BY DEF FirstViewComes
  <1> QED
    BY <1>2, <1>3, <1>4, <1>5 DEF Relay, TablesCame

\* One statement of the script.
LEMMA RelayExecute ==
  ASSUME Inv, Relay, NEW p \in Inits, Execute(p), TypeOK'
  PROVE  Relay'
  <1>1. /\ at[p] \in 1 .. 9 /\ at'[p] = at[p] + 1 /\ pc[p] = "script"
        /\ \A q \in Inits \ {p} : at'[q] = at[q]
        /\ UNCHANGED <<pc, switch, starts, crashes>>
        /\ objects' = IF Script[at[p]].do = "drop" THEN objects \ {Script[at[p]].name}
                                                   ELSE objects \cup {Script[at[p]].name}
        /\ ~ Refused(Script[at[p]])
    BY ScriptFacts DEF Inv, TypeOK, Execute
  <1>2. ASSUME NEW first, NEW last, NEW q \in Inits, q # p, InScript(q, first, last)
        PROVE  InScript(q, first, last)'
    BY <1>1, <1>2 DEF InScript
  <1>3. TablesCame => TablesCame'
    BY TablesStay DEF TablesCame, Inv, Next, InitDb
  <1> DEFINE v1 == "v_pending_approval"
             v2 == "v_override_log"
  <1>names. v1 # v2 /\ v1 \notin Tables /\ v2 \notin Tables
    BY DEF Tables
  <1> HIDE DEF v1, v2
  <1>4. CASE at[p] \in 1 .. 5
    <2>1. /\ v1 \in objects' <=> v1 \in objects
          /\ v2 \in objects' <=> v2 \in objects
      BY <1>1, <1>4, <1>names, ScriptFacts
    <2>2. InScript(p, 1, 7)'
      BY <1>1, <1>4 DEF InScript
    <2>3. SecondViewComes => SecondViewComes'
      BY <1>1, <1>2, <1>4, <2>1 DEF SecondViewComes, InScript, v2
    <2>4. SeedComes => SeedComes'
      BY <1>1, <1>2, <1>4 DEF SeedComes, InScript
    <2> QED
      BY <1>1, <1>3, <2>1, <2>2, <2>3, <2>4 DEF Relay, FirstViewComes, v1, v2
  <1>5. CASE at[p] = 6
    <2>1. objects' = objects \ {v1}
      BY <1>1, <1>5, ScriptFacts DEF Drop, v1
    <2>2. InScript(p, 1, 7)'
      BY <1>1, <1>5 DEF InScript
    <2>3. SeedComes => SeedComes'
      BY <1>1, <1>2, <1>5 DEF SeedComes, InScript
    <2> QED
      BY <1>1, <1>names, <2>1, <2>2, <2>3 DEF Relay, FirstViewComes, v1, v2
  <1>6. CASE at[p] = 7
    <2>1. objects' = objects \cup {v1}
      BY <1>1, <1>6, ScriptFacts DEF Create, v1
    <2>2. InScript(p, 8, 9)'
      BY <1>1, <1>6 DEF InScript
    <2>3. TablesCame
      <3> SUFFICES ASSUME NEW table \in Tables PROVE table \in objects
        BY DEF TablesCame
      <3>1. PICK n \in 1 .. 5 : Script[n] = Create(table)
        BY ScriptFacts
      <3>2. n < at[p] /\ n \in 1 .. 9
        BY <1>6, <3>1
      <3> QED
        BY <1>1, <3>1, <3>2 DEF Inv, Progress, Create
    <2>4. SeedComes => SeedComes'
      BY <1>1, <1>2, <1>6 DEF SeedComes, InScript
    <2> QED
      BY <1>1, <1>3, <1>names, <2>1, <2>2, <2>3, <2>4
         DEF Relay, FirstViewComes, SecondViewComes, v1, v2
  <1>7. CASE at[p] = 8
    <2>1. objects' = objects \ {v2}
      BY <1>1, <1>7, ScriptFacts DEF Drop, v2
    <2>2. InScript(p, 8, 9)'
      BY <1>1, <1>7 DEF InScript
    <2>3. FirstViewComes => FirstViewComes'
      BY <1>1, <1>2, <1>7, <1>names, <2>1 DEF FirstViewComes, InScript, v1
    <2> QED
      BY <1>1, <1>3, <1>names, <2>1, <2>2, <2>3 DEF Relay, SecondViewComes, v1, v2
  <1>8. CASE at[p] = 9
    <2>1. objects' = objects \cup {v2}
      BY <1>1, <1>8, ScriptFacts DEF Create, v2
    <2>2. InScript(p, 10, 10)'
      BY <1>1, <1>8 DEF InScript
    <2>3. FirstViewComes => FirstViewComes'
      BY <1>1, <1>2, <1>8, <2>1 DEF FirstViewComes, InScript, v1
    <2> QED
      BY <1>1, <1>3, <1>names, <2>1, <2>2, <2>3
         DEF Relay, SecondViewComes, SeedComes, v1, v2
  <1> QED
    BY <1>1, <1>4, <1>5, <1>6, <1>7, <1>8

LEMMA RelayNext == Inv /\ Relay /\ [Next]_vars => Relay'
  <1> SUFFICES ASSUME Inv, Relay, [Next]_vars PROVE Relay'
    OBVIOUS
  <1>1. /\ TypeOK /\ TypeOK' /\ crashes \in Nat
        /\ objects \cap Tables \subseteq objects'
        /\ switch # "none" => switch' # "none"
    BY TypesNext, TablesStay, SwitchStays, DbAssumption DEF Inv, TypeOK
  <1>2. ASSUME NEW p \in Inits, Start(p) PROVE Relay'
    <2>1. InScript(p, 1, 7)'
      BY <1>1, <1>2 DEF Start, Goto, InScript, TypeOK
    <2> QED
      BY <1>1, <1>2, <2>1, RelayAside DEF Start, Goto, db, TypeOK
  <1>3. ASSUME NEW p \in Inits, Execute(p) PROVE Relay'
    BY <1>1, <1>3, RelayExecute
  <1>4. ASSUME NEW p \in Inits, ExecuteFails(p) PROVE Relay'
    <2>1. /\ at[p] \in 1 .. 9 /\ pc[p] = "script" /\ at' = at
          /\ \A q \in Inits \ {p} : pc'[q] = pc[q]
          /\ UNCHANGED <<objects, switch, starts, crashes>>
          /\ Refused(Script[at[p]])
      BY <1>1, <1>4, ScriptFacts DEF TypeOK, ExecuteFails, Goto, db
    <2>2. \/ at[p] = 7 /\ "v_pending_approval" \in objects
          \/ at[p] = 9 /\ "v_override_log" \in objects
      <3>1. at[p] \notin 1 .. 5
        BY <2>1, ScriptFacts DEF Refused, Views, Tables
      <3>2. at[p] # 6 /\ at[p] # 8
        BY <2>1, ScriptFacts DEF Refused, Drop
      <3>3. at[p] = 7 \/ at[p] = 9
        BY <2>1, <3>1, <3>2
      <3>4. Script[at[p]].name \in objects
        BY <2>1 DEF Refused
      <3>5. Script[7].name = "v_pending_approval" /\ Script[9].name = "v_override_log"
        BY ScriptFacts DEF Create
      <3> QED
        BY <3>3, <3>4, <3>5
    <2>3. ASSUME NEW first, NEW last, NEW q \in Inits, q # p, InScript(q, first, last)
          PROVE  InScript(q, first, last)'
      BY <2>1, <2>3 DEF InScript
    <2>4. FirstViewComes => FirstViewComes'
      BY <2>1, <2>2, <2>3 DEF FirstViewComes, InScript
    <2>5. SecondViewComes => SecondViewComes'
      BY <2>1, <2>2, <2>3 DEF SecondViewComes, InScript
    <2>6. SeedComes => SeedComes'
      BY <2>1, <2>2, <2>3 DEF SeedComes, InScript
    <2> QED
      BY <2>1, <2>4, <2>5, <2>6 DEF Relay, TablesCame
  <1>5. ASSUME NEW p \in Inits, BeginSeed(p) PROVE Relay'
    <2>1. /\ pc[p] = "script" /\ at[p] = 10 /\ pc'[p] = "seed" /\ at' = at
          /\ \A q \in Inits \ {p} : pc'[q] = pc[q]
          /\ UNCHANGED <<objects, switch, starts, crashes>>
      BY <1>1, <1>5, ScriptFacts DEF TypeOK, BeginSeed, Goto, db
    <2>2. ASSUME NEW first, NEW last, NEW q \in Inits, q # p, InScript(q, first, last)
          PROVE  InScript(q, first, last)'
      BY <2>1, <2>2 DEF InScript
    <2>3. FirstViewComes => FirstViewComes'
      BY <2>1, <2>2 DEF FirstViewComes, InScript
    <2>4. SecondViewComes => SecondViewComes'
      BY <2>1, <2>2 DEF SecondViewComes, InScript
    <2>5. SeedComes'
      BY <2>1 DEF SeedComes
    <2> QED
      BY <2>1, <2>3, <2>4, <2>5 DEF Relay, TablesCame
  <1>6. ASSUME NEW p \in Inits, Commit(p) PROVE Relay'
    <2>1. /\ pc[p] = "seed" /\ at' = at
          /\ \A q \in Inits \ {p} : pc'[q] = pc[q]
          /\ UNCHANGED <<objects, starts, crashes>>
          /\ switch' # "none"
      BY <1>1, <1>6 DEF TypeOK, Commit, Goto, Seeded
    <2>2. ASSUME NEW first, NEW last, NEW q \in Inits, InScript(q, first, last)
          PROVE  InScript(q, first, last)'
      BY <2>1, <2>2 DEF InScript
    <2>3. FirstViewComes => FirstViewComes'
      BY <2>1, <2>2 DEF FirstViewComes
    <2>4. SecondViewComes => SecondViewComes'
      BY <2>1, <2>2 DEF SecondViewComes
    <2>5. SeedComes'
      BY <2>1 DEF SeedComes
    <2> QED
      BY <2>1, <2>3, <2>4, <2>5 DEF Relay, TablesCame
  <1>7. ASSUME NEW p \in Inits, Crash(p) PROVE Relay'
    <2>1. crashes' # 0 /\ objects' = objects
      BY <1>1, <1>7 DEF Crash, db
    <2> QED
      BY <2>1 DEF Relay, TablesCame
  <1>8. ASSUME UNCHANGED <<objects, pc, at, starts, crashes>> PROVE Relay'
    BY <1>1, <1>8, RelayAside
  <1>9. \/ \E p \in Inits : Start(p) \/ Execute(p) \/ ExecuteFails(p) \/ BeginSeed(p)
                            \/ Commit(p) \/ Crash(p)
        \/ UNCHANGED <<objects, pc, at, starts, crashes>>
    BY DEF Next, InitDb, HaltSystem, JournalEntry, RegisterRun, vars, proc, db
  <1> QED
    BY <1>2, <1>3, <1>4, <1>5, <1>6, <1>7, <1>8, <1>9

\* Every variable keeps its type, and only the run that seeds holds the lock.
THEOREM TypesAreKept == Spec => []TypeOK
  <1>1. Inv => TypeOK
    BY DEF Inv
  <1> QED
    BY <1>1, Invariance, PTL

\* However runs of init_db overlap, and though those that lose a race for a
\* view fail half-way, the database is complete when the last of them has
\* ended, unless one was killed.
THEOREM OverlapsAreHarmless == Spec => []OverlappingRunsComplete
  <1>1. Inv /\ Relay => OverlappingRunsComplete
    <2> SUFFICES ASSUME Inv, Relay, starts > 0, crashes = 0,
                        \A p \in Inits : ~ Running(p)
                 PROVE  Complete
      BY DEF OverlappingRunsComplete
    <2>1. \A p \in Inits : pc[p] # "seed" /\ \A first, last : ~ InScript(p, first, last)
      BY DEF Running, InScript
    <2>2. "v_pending_approval" \in objects
      BY <2>1 DEF Relay, FirstViewComes
    <2>3. Tables \subseteq objects /\ "v_override_log" \in objects
      BY <2>1, <2>2 DEF Relay, SecondViewComes, TablesCame
    <2>4. switch # "none"
      BY <2>1, <2>3 DEF Relay, SeedComes
    <2>5. objects \subseteq Tables \cup Views
      BY DEF Inv, TypeOK
    <2> QED
      BY <2>2, <2>3, <2>4, <2>5 DEF Complete, Views
  <1>2. Inv /\ Relay /\ [Next]_vars => Inv' /\ Relay'
    BY InvNext, RelayNext
  <1>3. Init => Inv /\ Relay
    BY InvInit, RelayInit
  <1> QED
    BY <1>1, <1>2, <1>3, PTL DEF Spec
=============================================================================
