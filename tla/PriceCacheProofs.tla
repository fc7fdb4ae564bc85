-------------------------- MODULE PriceCacheProofs --------------------------
(***************************************************************************)
(* Theorems about PriceCache, for any number of symbols, days and crashes. *)
(*                                                                         *)
(* Everything rests on one fact: what a symbol is known to hold only ever  *)
(* grows, although its file is torn while it is written and stays so when  *)
(* its writer dies.  A last date that any process or the manifest has ever *)
(* got hold of is therefore never ahead of the file, and a fetch that      *)
(* starts there joins on to what is cached.                                *)
(***************************************************************************)
EXTENDS PriceCache, FiniteSetTheorems, TLAPS

\* A history without a gap, of which all that is never fetched again is final:
\* by this day, and as IBKR knows it, but for what was restated too late.
Complete(history, known, exempt, day) ==
  /\ Dates(history) = 1 .. LastDate(history)
  /\ LastDate(history) \in 0 .. day
  /\ \A d \in Days : history[d] <= known[d]
  /\ \A d \in Dates(history) \ exempt :
       d <= LastDate(history) - Overlap => history[d] = known[d]

Torn(s) == file[s].state = "torn"
Writing(s) == pc["refresher"] = "writing" /\ symbol = s

\* The last date that the file of s has, or will have when it is written; when
\* its writer has died nobody reads it any more, and every date is early enough.
Held(s) ==
  IF Writing(s) THEN LastDate(bars) ELSE IF Torn(s) THEN LastDay ELSE LastDate(file[s].bars)

\* IBKR has a bar of every day, and the files are complete.
Histories ==
  \A s \in Symbols :
    /\ Dates(market[s]) = 1 .. today
    /\ file[s].state = "absent" => file[s].bars = NoBars
    /\ ~ Torn(s) => Complete(file[s].bars, market[s], late[s], today)

\* What was fetched up to the day of the fetch joins on to the file.
Joins(new, cached, known, exempt, day) ==
  /\ \A d \in Dates(new) : cached[d] <= new[d]
  /\ \A d \in Days : new[d] <= known[d]
  /\ \E fetched \in 1 .. day :
       /\ LastDate(cached) <= fetched
       /\ \A d \in Dates(new) : d <= fetched
       /\ \A d \in 1 .. fetched : LastDate(cached) - Overlap < d => d \in Dates(new)
       /\ \A d \in Dates(new) \ exempt : d <= fetched - Overlap => new[d] = known[d]

Places ==
  /\ pc["reader"] \notin {"update", "updating", "fetch", "merge", "write", "writing"}
  /\ pc["refresher"] \notin {"report", "load"}
  /\ pc["refresher"] # "idle" => symbol \in Symbols
  /\ pc["refresher"] \in {"idle", "fetch", "merge", "write", "writing"} => purpose = "last_date"
  /\ pc["refresher"] \in {"update", "updating"} => purpose = "update"

\* What the refresher has in its hands at each step of its work.
AtWork ==
  /\ pc["refresher"] = "merge" /\ ~ Torn(symbol) =>
       Joins(bars, file[symbol].bars, market[symbol], late[symbol], today)
  /\ pc["refresher"] \in {"write", "writing"} => Complete(bars, market[symbol], late[symbol], today)
  /\ pc["refresher"] = "write" =>
       /\ ~ Torn(symbol) /\ LastDate(file[symbol].bars) <= LastDate(bars)
       /\ \A d \in Days : file[symbol].bars[d] <= bars[d]
  /\ pc["refresher"] = "writing" => Torn(symbol)
  /\ purpose = "update" => file[symbol] = [state |-> "whole", bars |-> bars]

\* Nobody has ever been told of a date that is not there.
Claims ==
  \A s \in Symbols :
    /\ manifest.dates[s] <= Held(s)
    /\ \A p \in Processes : dates[p][s] <= Held(s)

\* What the gate let pass is there, and is long enough.
Passed ==
  /\ pc["reader"] = "idle" => dates["reader"] = NoDates
  /\ pc["reader"] \in {"report", "load"} =>
       \A s \in Symbols : dates["reader"][s] # 0 =>
         file[s].state # "absent" /\ MinBars <= Held(s)
  /\ pc["reader"] = "load" => \A s \in todo["reader"] : dates["reader"][s] # 0

Inv == TypeOK /\ Histories /\ Places /\ AtWork /\ Claims /\ Passed

-----------------------------------------------------------------------------
(* Facts about histories. *)

LEMMA DatesAreDays ==
  ASSUME NEW history \in Bars
  PROVE  Dates(history) \subseteq Days
  BY DEF Dates

LEMMA LastOfPrefix ==
  ASSUME NEW history, NEW n \in 0 .. LastDay, Dates(history) = 1 .. n
  PROVE  LastDate(history) = n
  <1>1. CASE n = 0
    <2>1. Dates(history) = {}
      BY <1>1
    <2> QED
      BY <1>1, <2>1 DEF LastDate
  <1>2. CASE n # 0
    <2>1. n \in Dates(history) /\ \A e \in Dates(history) : e <= n
      BY <1>2, CacheAssumption
    <2>2. \A d \in Dates(history) : (\A e \in Dates(history) : e <= d) => d = n
      BY <2>1, CacheAssumption
    <2> QED
      BY <2>1, <2>2 DEF LastDate
  <1> QED
    BY <1>1, <1>2

LEMMA VersionsFit == 0 \in Versions /\ 1 \in Versions /\ Versions \subseteq Nat
  BY CacheAssumption DEF Versions

LEMMA NoBarsAtAll == NoBars \in Bars /\ Dates(NoBars) = {} /\ LastDate(NoBars) = 0
  <1>1. Dates(NoBars) = {}
    BY DEF NoBars, Dates
  <1> QED
    BY <1>1, VersionsFit DEF NoBars, Bars, LastDate

LEMMA BarChanges ==
  ASSUME NEW history \in Bars, NEW d \in Days, NEW v \in Versions
  PROVE  /\ [history EXCEPT ![d] = v] \in Bars
         /\ [history EXCEPT ![d] = v][d] = v
         /\ \A e \in Days \ {d} : [history EXCEPT ![d] = v][e] = history[e]
  BY DEF Bars

LEMMA CompleteFits ==
  ASSUME TypeOK, NEW history, NEW s \in Symbols, Complete(history, market[s], late[s], today)
  PROVE  /\ LastDate(history) \in 0 .. LastDay
         /\ LastDate(history) \in Nat /\ LastDate(history) <= today
         /\ Cardinality(Dates(history)) = LastDate(history)
  <1>1. LastDate(history) \in 0 .. today /\ today \in 1 .. LastDay /\ LastDay \in Nat
    BY CacheAssumption DEF TypeOK, Days, Complete
  <1>2. Cardinality(1 .. LastDate(history)) = LastDate(history)
    <2>1. ASSUME NEW n \in Nat PROVE Cardinality(1 .. n) = n
      <3>1. Cardinality(1 .. n) = IF 1 > n THEN 0 ELSE n - 1 + 1
        BY FS_Interval
      <3> QED
        BY <3>1
    <2> QED
      BY <1>1, <2>1
  <1> QED
    BY <1>1, <1>2 DEF Complete

LEMMA FileFits ==
  ASSUME Inv, NEW s \in Symbols, ~ Torn(s)
  PROVE  LastDate(file[s].bars) \in 0 .. LastDay /\ LastDate(file[s].bars) \in Nat
  BY CompleteFits DEF Inv, Histories

LEMMA HeldFits ==
  ASSUME Inv, NEW s \in Symbols
  PROVE  Held(s) \in 0 .. LastDay
  <1>1. Writing(s) => LastDate(bars) \in 0 .. LastDay
    BY CompleteFits DEF Inv, AtWork, Writing
  <1>2. LastDay \in 0 .. LastDay
    BY CacheAssumption
  <1> QED
    BY <1>1, <1>2, FileFits DEF Held

LEMMA InvInit == Init => Inv
  <1> SUFFICES ASSUME Init PROVE Inv
    OBVIOUS
  <1> DEFINE first == [NoBars EXCEPT ![1] = 1]
  <1>1. 1 \in Days /\ 0 \in 0 .. LastDay /\ 0 \in 0 .. MaxCrashes
    BY CacheAssumption DEF Days
  <1>2. first \in Bars /\ Dates(first) = 1 .. 1
    <2>1. first \in Bars
      <3>1. 1 \in Versions /\ 1 \in Days /\ NoBars \in Bars
        BY <1>1, NoBarsAtAll, VersionsFit
      <3> QED
        BY <3>1, BarChanges
    <2>2. \A d \in Days : first[d] # 0 <=> d = 1
      BY DEF NoBars
    <2> QED
      BY <1>1, <2>1, <2>2 DEF Dates
  <1>3. \A s \in Symbols : ~ Torn(s) /\ LastDate(file[s].bars) = 0 /\ Held(s) = 0
    BY NoBarsAtAll DEF Init, Torn, Held, Writing
  <1> HIDE DEF first
  <1>4. TypeOK
    <2>1. market \in [Symbols -> Bars]
      BY <1>2 DEF Init, first
    <2>2. file \in [Symbols -> [state : States, bars : Bars]]
      BY NoBarsAtAll DEF Init, States
    <2>3. manifest \in [state : States, dates : [Symbols -> 0 .. LastDay]]
      BY <1>1 DEF Init, States, NoDates
    <2>4. dates \in [Processes -> [Symbols -> 0 .. LastDay]]
      BY <1>1 DEF Init, NoDates
    <2> QED
      BY <1>1, <2>1, <2>2, <2>3, <2>4, NoBarsAtAll DEF Init, TypeOK
  <1>5. Histories
    <2>1. \A s \in Symbols : file[s].bars = NoBars /\ market[s] = first /\ late[s] = {} /\ today = 1
      BY DEF Init, first
    <2>2. Complete(NoBars, first, {}, 1)
      <3>1. \A d \in Days : NoBars[d] = 0 /\ first[d] \in Nat
        BY <1>2 DEF NoBars, Bars, Versions
      <3> QED
        BY <3>1, NoBarsAtAll DEF Complete
    <2> QED
      BY <1>2, <2>1, <2>2 DEF Histories
  <1>6. Places /\ AtWork
    BY DEF Init, Places, AtWork, Processes
  <1>7. Claims
    BY <1>3 DEF Init, Claims, NoDates
  <1>8. Passed
    BY DEF Init, Passed, Processes
  <1> QED
    BY <1>4, <1>5, <1>6, <1>7, <1>8 DEF Inv

-----------------------------------------------------------------------------
(* Types. *)

Locations == {"idle", "manifest", "inspect", "rebuilding", "report", "load",
              "update", "updating", "fetch", "merge", "write", "writing"}

LEMMA NoDatesFit == NoDates \in [Symbols -> 0 .. LastDay]
  BY CacheAssumption DEF NoDates

LEMMA TypesLeave ==
  ASSUME TypeOK, NEW p \in Processes, Leave(p)
  PROVE  /\ pc' \in [Processes -> Locations]
         /\ symbol' \in Symbols \cup {NoSymbol} /\ purpose' \in {"last_date", "update"}
         /\ todo' \in [Processes -> SUBSET Symbols]
         /\ dates' \in [Processes -> [Symbols -> 0 .. LastDay]] /\ bars' \in Bars
  BY NoDatesFit, NoBarsAtAll DEF TypeOK, Leave, Goto, Locations

LEMMA TypesHasManifest ==
  ASSUME TypeOK, NEW p \in Processes, NEW held \in [Symbols -> 0 .. LastDay],
         HasManifest(p, held)
  PROVE  /\ pc' \in [Processes -> Locations]
         /\ symbol' \in Symbols \cup {NoSymbol} /\ purpose' \in {"last_date", "update"}
         /\ todo' \in [Processes -> SUBSET Symbols]
         /\ dates' \in [Processes -> [Symbols -> 0 .. LastDay]] /\ bars' \in Bars
  <1>1. CASE p = "reader"
    BY <1>1, TypesLeave DEF HasManifest
  <1>2. CASE p # "reader"
    <2>1. /\ \E loc \in {"update", "fetch"} : pc' = [pc EXCEPT ![p] = loc]
          /\ dates' = [dates EXCEPT ![p] = held]
          /\ UNCHANGED <<symbol, purpose, todo, bars>>
      BY <1>2 DEF HasManifest, Goto
    <2> QED
      BY <2>1 DEF TypeOK, Locations
  <1> QED
    BY <1>1, <1>2

LEMMA DatesChange ==
  ASSUME TypeOK, NEW p \in Processes, NEW s \in Symbols, NEW d \in 0 .. LastDay
  PROVE  [dates EXCEPT ![p][s] = d] \in [Processes -> [Symbols -> 0 .. LastDay]]
  BY DEF TypeOK

\* The files and manifests that a write leaves behind.
LEMMA FilesFit ==
  ASSUME NEW history \in Bars, NEW d \in [Symbols -> 0 .. LastDay]
  PROVE  /\ [state |-> "torn", bars |-> NoBars] \in [state : States, bars : Bars]
         /\ [state |-> "whole", bars |-> history] \in [state : States, bars : Bars]
         /\ [state |-> "torn", dates |-> NoDates] \in [state : States, dates : [Symbols -> 0 .. LastDay]]
         /\ [state |-> "whole", dates |-> d] \in [state : States, dates : [Symbols -> 0 .. LastDay]]
  BY NoDatesFit, NoBarsAtAll DEF States

LEMMA TypesStep ==
  ASSUME Inv, NEW p \in Processes, Step(p)
  PROVE  TypeOK'
  <1> USE DEF disk, world
  <1> TypeOK
    BY DEF Inv
  <1>1. CASE ReadManifest(p)
    <2>1. manifest.dates \in [Symbols -> 0 .. LastDay]
      BY DEF TypeOK
    <2>2. HasManifest(p, manifest.dates) /\ UNCHANGED <<world, disk, crashes>>
      BY <1>1 DEF ReadManifest
    <2> QED
      BY <2>1, <2>2, TypesHasManifest DEF TypeOK, Locations
  <1>2. CASE BeginRebuild(p)
    BY <1>2 DEF TypeOK, BeginRebuild, Goto
  <1>3. CASE RewriteManifest(p)
    BY <1>3, FilesFit, NoBarsAtAll, NoDatesFit DEF TypeOK, RewriteManifest, Goto, locals
  <1>4. CASE FillManifest(p)
    <2>1. dates[p] \in [Symbols -> 0 .. LastDay]
      BY DEF TypeOK
    <2>2. manifest' \in [state : States, dates : [Symbols -> 0 .. LastDay]]
      BY <1>4, <2>1, FilesFit, NoBarsAtAll DEF FillManifest
    <2>3. HasManifest(p, dates[p]) \/ Leave(p)
      BY <1>4 DEF FillManifest
    <2>4. UNCHANGED <<world, file, crashes>>
      BY <1>4 DEF FillManifest
    <2> QED
      BY <2>1, <2>2, <2>3, <2>4, TypesLeave, TypesHasManifest DEF TypeOK, Locations
  <1>5. ASSUME NEW s \in Symbols, InspectFile(p, s) PROVE TypeOK'
    <2>1. LastDate(file[s].bars) \in 0 .. LastDay
      BY <1>5, FileFits DEF InspectFile, Torn
    <2>2. dates' \in [Processes -> [Symbols -> 0 .. LastDay]]
      BY <1>5, <2>1, DatesChange DEF InspectFile
    <2>3. todo' \in [Processes -> SUBSET Symbols]
      BY <1>5 DEF InspectFile, TypeOK
    <2> QED
      BY <1>5, <2>2, <2>3 DEF TypeOK, InspectFile
  <1>6. ASSUME NEW s \in Symbols, InspectFails(p, s) PROVE TypeOK'
    BY <1>6, TypesLeave DEF TypeOK, InspectFails, Locations
  <1> QED
    BY <1>1, <1>2, <1>3, <1>4, <1>5, <1>6 DEF Step

LEMMA TypesGate ==
  ASSUME Inv, ReaderAsks \/ ReaderReports \/ Gate
  PROVE  TypeOK'
  <1> USE DEF disk, world, locals
  <1> TypeOK /\ "reader" \in Processes
    BY DEF Inv, Processes
  <1>1. CASE ReaderAsks
    BY <1>1 DEF TypeOK, ReaderAsks, Goto
  <1>2. CASE ReaderReports
    BY <1>2 DEF TypeOK, ReaderReports, Goto
  <1>3. CASE BeginLoad
    BY <1>3 DEF TypeOK, BeginLoad, Goto
  <1>4. CASE EndLoad
    BY <1>4, TypesLeave DEF TypeOK, EndLoad, Locations
  <1>5. ASSUME NEW s \in Symbols, ReportFile(s) PROVE TypeOK'
    <2> DEFINE d == IF IsOk(file[s].bars) THEN LastDate(file[s].bars) ELSE 0
    <2>1. d \in 0 .. LastDay
      BY <1>5, FileFits, CacheAssumption DEF ReportFile, Torn
    <2>2. dates' = [dates EXCEPT !["reader"][s] = d]
      BY <1>5 DEF ReportFile
    <2> HIDE DEF d
    <2>3. dates' \in [Processes -> [Symbols -> 0 .. LastDay]]
      BY <2>1, <2>2, DatesChange
    <2>4. todo' \in [Processes -> SUBSET Symbols]
      BY <1>5 DEF ReportFile, TypeOK
    <2> QED
      BY <1>5, <2>3, <2>4 DEF TypeOK, ReportFile
  <1>6. ASSUME NEW s \in Symbols, LoadColumn(s) PROVE TypeOK'
    BY <1>6 DEF TypeOK, LoadColumn
  <1> QED
    BY <1>1, <1>2, <1>3, <1>4, <1>5, <1>6 DEF Gate

LEMMA MergedFits ==
  ASSUME NEW existing \in Bars, NEW new \in Bars
  PROVE  /\ Merged(existing, new) \in Bars
         /\ Dates(Merged(existing, new)) = Dates(existing) \cup Dates(new)
         /\ \A d \in Days : Merged(existing, new)[d] =
              IF d \in Dates(new) THEN new[d] ELSE existing[d]
  BY DEF Merged, Bars, Dates

LEMMA TypesRefresh ==
  ASSUME Inv, Refresh
  PROVE  TypeOK'
  <1> USE DEF disk, world, locals
  <1> TypeOK /\ "refresher" \in Processes
    BY DEF Inv, Processes
  <1>0. pc["refresher"] # "idle" => symbol \in Symbols
    BY DEF Inv, Places
  <1>1. CASE Fetch
    <2>1. market[symbol] \in Bars
      BY <1>0, <1>1 DEF Fetch, TypeOK
    <2>2. bars' \in Bars
      <3>1. \A d \in Days : market[symbol][d] \in Versions /\ 0 \in Versions
        BY <2>1, VersionsFit DEF Bars
      <3> QED
        BY <1>1, <3>1 DEF Fetch, Bars
    <2> QED
      BY <1>1, <2>2, NoDatesFit DEF Fetch, Goto, TypeOK
  <1>2. CASE Merge
    <2>1. file[symbol].bars \in Bars
      BY <1>0, <1>2 DEF Merge, TypeOK
    <2>2. bars' \in Bars
      BY <1>2, <2>1, MergedFits DEF Merge, TypeOK
    <2> QED
      BY <1>2, <2>2 DEF Merge, Goto, TypeOK
  <1>3. CASE MergeFails
    BY <1>3, TypesLeave DEF MergeFails, TypeOK, Locations
  <1>4. CASE TruncateFile
    BY <1>4, FilesFit, NoBarsAtAll, NoDatesFit DEF TruncateFile, Goto, TypeOK
  <1>5. CASE FillFile
    BY <1>5, FilesFit, NoBarsAtAll, NoDatesFit DEF FillFile, Goto, TypeOK
  <1>6. CASE UpdateManifest
    <2>1. LastDate(bars) \in 0 .. LastDay
      <3>1. file[symbol] = [state |-> "whole", bars |-> bars]
        BY <1>6 DEF UpdateManifest, Inv, Places, AtWork
      <3> QED
        BY <1>0, <1>6, <3>1, FileFits DEF UpdateManifest, Torn
    <2>2. dates' \in [Processes -> [Symbols -> 0 .. LastDay]]
      BY <1>0, <1>6, <2>1, DatesChange DEF UpdateManifest
    <2> QED
      BY <1>6, <2>2, FilesFit, NoBarsAtAll, NoDatesFit DEF UpdateManifest, Goto, TypeOK
  <1> QED
    BY <1>1, <1>2, <1>3, <1>4, <1>5, <1>6 DEF Refresh

LEMMA RestatesSome ==
  ASSUME TypeOK, NEW s \in Symbols, Restate(s) \/ Adjust(s)
  PROVE  \E days \in SUBSET Days : Restated(s, days) /\ days \subseteq Dates(market[s])
  <1>1. Dates(market[s]) \subseteq Days
    BY DEF Dates
  <1> QED
    BY <1>1 DEF Restate, Adjust

\* IBKR's bars after a restatement, and which of them it was too late for.
LEMMA RestatedBars ==
  ASSUME TypeOK, NEW s \in Symbols, NEW days \in SUBSET Days, Restated(s, days)
  PROVE  /\ market' \in [Symbols -> Bars] /\ late' \in [Symbols -> SUBSET Days]
         /\ \A d \in Days : market'[s][d] = IF d \in days THEN market[s][d] + 1 ELSE market[s][d]
         /\ late'[s] = late[s] \cup {d \in days : d <= today - Overlap}
         /\ \A r \in Symbols \ {s} : market'[r] = market[r] /\ late'[r] = late[r]
  <1> DEFINE new == [d \in Days |-> IF d \in days THEN market[s][d] + 1 ELSE market[s][d]]
             late2 == late[s] \cup {d \in days : d <= today - Overlap}
  <1>1. market' = [market EXCEPT ![s] = new] /\ late' = [late EXCEPT ![s] = late2]
    BY DEF Restated
  <1>2. new \in Bars
    <2>1. ASSUME NEW d \in Days PROVE new[d] \in Versions
      <3>1. /\ market[s][d] \in 0 .. MaxVersion /\ MaxVersion \in Nat
            /\ d \in days => market[s][d] < MaxVersion
        BY CacheAssumption DEF TypeOK, Bars, Versions, Restated
      <3> QED
        BY <3>1 DEF Versions
    <2> QED
      BY <2>1 DEF Bars
  <1>3. late2 \in SUBSET Days
    BY DEF TypeOK
  <1>4. \A d \in Days : new[d] = IF d \in days THEN market[s][d] + 1 ELSE market[s][d]
    OBVIOUS
  <1>5. \A r \in Symbols : market'[r] = (IF r = s THEN new ELSE market[r])
    BY <1>1 DEF TypeOK
  <1>6. \A r \in Symbols : late'[r] = (IF r = s THEN late2 ELSE late[r])
    BY <1>1 DEF TypeOK
  <1> HIDE DEF new
  <1> QED
    BY <1>1, <1>2, <1>3, <1>4, <1>5, <1>6 DEF TypeOK

LEMMA TypesWorld ==
  ASSUME Inv, \/ NextDay
              \/ \E s \in Symbols : RefreshSymbol(s) \/ Restate(s) \/ Adjust(s)
              \/ \E p \in Processes : Crash(p)
  PROVE  TypeOK'
  <1> USE DEF disk, world, locals
  <1> TypeOK
    BY DEF Inv
  <1>1. CASE NextDay
    <2>1. today + 1 \in Days
      BY <1>1, CacheAssumption DEF NextDay, TypeOK, Days
    <2>2. 1 \in Versions
      BY VersionsFit
    <2>3. market' \in [Symbols -> Bars]
      BY <1>1, <2>1, <2>2, BarChanges DEF NextDay, TypeOK
    <2> QED
      BY <1>1, <2>1, <2>3 DEF NextDay, TypeOK
  <1>2. ASSUME NEW s \in Symbols, Restate(s) \/ Adjust(s) PROVE TypeOK'
    <2>1. PICK days \in SUBSET Days : Restated(s, days)
      BY <1>2, RestatesSome
    <2>2. market' \in [Symbols -> Bars] /\ late' \in [Symbols -> SUBSET Days]
      BY <2>1, RestatedBars DEF TypeOK
    <2> QED
      BY <2>1, <2>2 DEF Restated, TypeOK
  <1>3. ASSUME NEW s \in Symbols, RefreshSymbol(s) PROVE TypeOK'
    BY <1>3 DEF RefreshSymbol, Goto, TypeOK
  <1>4. ASSUME NEW p \in Processes, Crash(p) PROVE TypeOK'
    <2>1. crashes' \in 0 .. MaxCrashes
      BY <1>4, CacheAssumption DEF Crash, TypeOK
    <2> QED
      BY <1>4, <2>1, TypesLeave DEF Crash, TypeOK, Locations
  <1> QED
    BY <1>1, <1>2, <1>3, <1>4

LEMMA TypesNext == Inv /\ [Next]_vars => TypeOK'
  <1> SUFFICES ASSUME Inv, [Next]_vars PROVE TypeOK'
    OBVIOUS
  <1>1. CASE UNCHANGED vars
    BY <1>1 DEF Inv, TypeOK, vars, world, disk, locals
  <1> QED
    BY <1>1, TypesStep, TypesGate, TypesRefresh, TypesWorld DEF Next

-----------------------------------------------------------------------------
(* Where the processes are. *)

\* A process moves: the refresher, or the reader, which does not touch what
\* only the refresher has.
LEMMA LeavePlaces ==
  ASSUME Inv, NEW p \in Processes, Leave(p)
  PROVE  /\ Places' /\ pc'[p] = "idle"
         /\ \A q \in Processes \ {p} : pc'[q] = pc[q] /\ dates'[q] = dates[q] /\ todo'[q] = todo[q]
         /\ dates'[p] = NoDates /\ todo'[p] = {}
         /\ p = "reader" => UNCHANGED <<symbol, purpose, bars>>
         /\ p = "refresher" => purpose' = "last_date"
  <1>1. /\ pc'[p] = "idle" /\ dates'[p] = NoDates /\ todo'[p] = {}
        /\ \A q \in Processes \ {p} : pc'[q] = pc[q] /\ dates'[q] = dates[q] /\ todo'[q] = todo[q]
    BY DEF Leave, Goto, Inv, TypeOK
  <1>2. CASE p = "reader"
    <2>1. UNCHANGED <<symbol, purpose, bars>>
      BY <1>2 DEF Leave
    <2> QED
      BY <1>1, <1>2, <2>1 DEF Inv, Places, Processes
  <1>3. CASE p = "refresher"
    <2>1. purpose' = "last_date"
      BY <1>3 DEF Leave
    <2> QED
      BY <1>1, <1>3, <2>1 DEF Inv, Places, Processes
  <1> QED
    BY <1>1, <1>2, <1>3 DEF Processes, Leave

LEMMA HasManifestPlaces ==
  ASSUME Inv, NEW p \in Processes, NEW held, HasManifest(p, held),
         pc[p] \in {"manifest", "rebuilding"}
  PROVE  /\ Places' /\ pc'[p] \in {"idle", "update", "fetch"}
         /\ \A q \in Processes \ {p} : pc'[q] = pc[q] /\ dates'[q] = dates[q] /\ todo'[q] = todo[q]
         /\ dates'[p] = held \/ dates'[p] = NoDates
         /\ pc'[p] = "idle" \/ p # "reader"
         /\ UNCHANGED <<symbol, purpose, bars>>
  <1>1. CASE p = "reader"
    BY <1>1, LeavePlaces DEF HasManifest
  <1>2. CASE p = "refresher"
    <2>1. /\ pc'[p] = IF purpose = "update" THEN "update" ELSE "fetch"
          /\ dates'[p] = held
          /\ \A q \in Processes \ {p} : pc'[q] = pc[q] /\ dates'[q] = dates[q] /\ todo'[q] = todo[q]
          /\ UNCHANGED <<symbol, purpose, bars>>
      BY <1>2 DEF HasManifest, Goto, Inv, TypeOK
    <2>2. Places'
      BY <1>2, <2>1 DEF Inv, Places, Processes, TypeOK
    <2> QED
      BY <1>2, <2>1, <2>2
  <1> QED
    BY <1>1, <1>2 DEF Processes

LEMMA PlacesNext == Inv /\ [Next]_vars => Places'
  <1> SUFFICES ASSUME Inv, [Next]_vars PROVE Places'
    OBVIOUS
  <1> USE DEF world, disk, locals
  <1>1. CASE UNCHANGED vars \/ NextDay \/ \E s \in Symbols : Restate(s) \/ Adjust(s)
    BY <1>1 DEF vars, NextDay, Restate, Adjust, Restated, Inv, Places
  <1>2. ASSUME NEW p \in Processes, Step(p) PROVE Places'
    <2>1. CASE ReadManifest(p) \/ FillManifest(p)
      BY <2>1, LeavePlaces, HasManifestPlaces DEF ReadManifest, FillManifest
    <2>2. CASE \E s \in Symbols : InspectFile(p, s)
      BY <2>2 DEF InspectFile, Inv, Places
    <2>3. CASE \E s \in Symbols : InspectFails(p, s)
      BY <2>3, LeavePlaces DEF InspectFails
    <2>4. CASE BeginRebuild(p) \/ RewriteManifest(p)
      <3>1. /\ pc[p] \in {"manifest", "inspect"} /\ pc'[p] \in {"inspect", "rebuilding"}
            /\ \A q \in Processes \ {p} : pc'[q] = pc[q]
            /\ UNCHANGED <<symbol, purpose>>
        BY <2>4 DEF BeginRebuild, RewriteManifest, Goto, Inv, TypeOK
      <3> QED
        BY <3>1 DEF Inv, Places, Processes
    <2> QED
      BY <1>2, <2>1, <2>2, <2>3, <2>4 DEF Step
  <1>3. ASSUME NEW p \in Processes, Crash(p) PROVE Places'
    BY <1>3, LeavePlaces DEF Crash
  <1>4. CASE EndLoad \/ MergeFails
    BY <1>4, LeavePlaces DEF EndLoad, MergeFails, Processes
  <1>5. CASE ReaderAsks \/ ReaderReports \/ BeginLoad
    <2>1. /\ pc'["reader"] \in {"manifest", "report", "load"}
          /\ pc'["refresher"] = pc["refresher"]
          /\ UNCHANGED <<symbol, purpose>>
      BY <1>5 DEF ReaderAsks, ReaderReports, BeginLoad, Goto, Inv, TypeOK, Processes
    <2> QED
      BY <2>1 DEF Inv, Places
  <1>6. CASE \E s \in Symbols : ReportFile(s) \/ LoadColumn(s)
    BY <1>6 DEF ReportFile, LoadColumn, Inv, Places
  <1>7. CASE Fetch \/ Merge \/ TruncateFile \/ FillFile \/ UpdateManifest
    <2>1. /\ pc["refresher"] \in {"fetch", "merge", "write", "writing", "update"}
          /\ pc'["reader"] = pc["reader"] /\ symbol' = symbol
          /\ \/ pc'["refresher"] \in {"merge", "write", "writing"} /\ purpose' = "last_date"
             \/ pc'["refresher"] = "updating" /\ purpose' = "update"
             \/ pc'["refresher"] = "manifest"
      BY <1>7 DEF Fetch, Merge, TruncateFile, FillFile, UpdateManifest, Goto, Inv, TypeOK, Places,
                  Processes
    <2> QED
      BY <2>1 DEF Inv, Places
  <1>8. ASSUME NEW s \in Symbols, RefreshSymbol(s) PROVE Places'
    <2>1. /\ pc'["refresher"] = "manifest" /\ pc'["reader"] = pc["reader"]
          /\ symbol' = s /\ purpose' = purpose
      BY <1>8 DEF RefreshSymbol, Goto, Inv, TypeOK, Processes
    <2> QED
      BY <2>1 DEF Inv, Places
  <1> QED
    BY <1>1, <1>2, <1>3, <1>4, <1>5, <1>6, <1>7, <1>8 DEF Next, Gate, Refresh

-----------------------------------------------------------------------------
(* Histories, and what the refresher makes of them. *)

\* IBKR goes on: it restates bars, and it is too late only for those that
\* are out of the reach of a fetch.
Grows(old, exempt, day, new, exempted, later) ==
  /\ day <= later /\ exempt \subseteq exempted
  /\ \A d \in Days : old[d] <= new[d]
  /\ \A d \in Days \ exempted : d <= day - Overlap => new[d] = old[d]

LEMMA Transitive ==
  ASSUME NEW a \in Bars, NEW b \in Bars, NEW c \in Bars, NEW d \in Days,
         a[d] <= b[d], b[d] <= c[d]
  PROVE  a[d] <= c[d]
  <1>1. a[d] \in 0 .. MaxVersion /\ b[d] \in 0 .. MaxVersion /\ c[d] \in 0 .. MaxVersion
    BY DEF Bars, Versions
  <1> QED
    BY <1>1, CacheAssumption

LEMMA CompleteGrows ==
  ASSUME NEW history \in Bars, NEW old \in Bars, NEW new \in Bars,
         NEW exempt, NEW exempted, NEW day \in Nat, NEW later \in Nat,
         Complete(history, old, exempt, day), Grows(old, exempt, day, new, exempted, later)
  PROVE  Complete(history, new, exempted, later)
  <1>1. /\ LastDate(history) \in 0 .. day /\ day <= later /\ Overlap \in Nat
        /\ Dates(history) \subseteq Days /\ Dates(history) = 1 .. LastDate(history)
    BY CacheAssumption DEF Complete, Grows, Dates
  <1>2. ASSUME NEW d \in Dates(history) \ exempted, d <= LastDate(history) - Overlap
        PROVE  history[d] = new[d]
    <2>1. d \in Days /\ d \in Nat
      BY <1>1
    <2>2. d <= day - Overlap
      BY <1>1, <1>2, <2>1
    <2>3. history[d] = old[d]
      BY <1>2 DEF Complete, Grows
    <2> QED
      BY <2>1, <2>2, <2>3 DEF Grows
  <1>3. \A d \in Days : history[d] <= new[d]
    BY Transitive DEF Complete, Grows
  <1>4. LastDate(history) \in 0 .. later
    BY <1>1
  <1> QED
    BY <1>1, <1>2, <1>3, <1>4 DEF Complete

LEMMA JoinsGrows ==
  ASSUME NEW new \in Bars, NEW cached \in Bars, NEW old \in Bars, NEW known \in Bars,
         NEW exempt, NEW exempted, NEW day \in Nat, NEW later \in Nat,
         Joins(new, cached, old, exempt, day), Grows(old, exempt, day, known, exempted, later)
  PROVE  Joins(new, cached, known, exempted, later)
  <1>1. PICK fetched \in 1 .. day :
          /\ LastDate(cached) <= fetched
          /\ \A d \in Dates(new) : d <= fetched
          /\ \A d \in 1 .. fetched : LastDate(cached) - Overlap < d => d \in Dates(new)
          /\ \A d \in Dates(new) \ exempt : d <= fetched - Overlap => new[d] = old[d]
    BY DEF Joins
  <1>2. day <= later /\ Overlap \in Nat /\ Dates(new) \subseteq Days
    BY CacheAssumption DEF Grows, Dates
  <1>3. fetched \in 1 .. later
    BY <1>2
  <1>4. ASSUME NEW d \in Dates(new) \ exempted, d <= fetched - Overlap PROVE new[d] = known[d]
    <2>1. d \in Days /\ d \in Nat /\ d \notin exempt
      BY <1>2 DEF Days, Grows
    <2>2. d <= day - Overlap
      BY <1>2, <1>4, <2>1
    <2> QED
      BY <1>1, <1>4, <2>1, <2>2 DEF Grows
  <1>5. \A d \in Days : new[d] <= known[d]
    BY Transitive DEF Joins, Grows
  <1>6. \A d \in Dates(new) : cached[d] <= new[d]
    BY DEF Joins
  <1> QED
    BY <1>1, <1>3, <1>4, <1>5, <1>6 DEF Joins

LEMMA WorldGrows ==
  ASSUME Inv, NextDay \/ \E s \in Symbols : Restate(s) \/ Adjust(s), NEW r \in Symbols
  PROVE  /\ Grows(market[r], late[r], today, market'[r], late'[r], today')
         /\ Dates(market'[r]) = 1 .. today'
  <1>1. /\ today \in 1 .. LastDay /\ LastDay \in Nat /\ Overlap \in Nat
        /\ market[r] \in Bars /\ Dates(market[r]) = 1 .. today
        /\ 1 \in Versions /\ \A d \in Days : market[r][d] \in Nat
    <2>1. market[r] \in Bars /\ Dates(market[r]) = 1 .. today
      BY DEF Inv, TypeOK, Histories
    <2>2. \A d \in Days : market[r][d] \in Nat
      BY <2>1, VersionsFit DEF Bars
    <2> QED
      BY <2>1, <2>2, VersionsFit, CacheAssumption DEF Inv, TypeOK, Days
  <1>2. CASE NextDay
    <2>1. /\ today' = today + 1 /\ market'[r] = [market[r] EXCEPT ![today + 1] = 1]
          /\ today + 1 \in Days /\ late' = late
      BY <1>1, <1>2 DEF NextDay, Days
    <2>2. /\ market'[r][today + 1] = 1
          /\ \A d \in Days \ {today + 1} : market'[r][d] = market[r][d]
      BY <1>1, <2>1, BarChanges
    <2>3. market[r][today + 1] = 0
      BY <1>1, <2>1 DEF Dates
    <2>4. Grows(market[r], late[r], today, market'[r], late'[r], today')
      BY <1>1, <2>1, <2>2, <2>3 DEF Grows, Days
    <2>5. Dates(market'[r]) = Dates(market[r]) \cup {today + 1}
      BY <2>1, <2>2 DEF Dates
    <2>6. 1 .. today + 1 = (1 .. today) \cup {today + 1}
      BY <1>1
    <2> QED
      BY <1>1, <2>1, <2>4, <2>5, <2>6
  <1>3. ASSUME NEW s \in Symbols, Restate(s) \/ Adjust(s)
        PROVE  /\ Grows(market[r], late[r], today, market'[r], late'[r], today')
               /\ Dates(market'[r]) = 1 .. today'
    <2>1. TypeOK
      BY DEF Inv
    <2>2. PICK days \in SUBSET Days : Restated(s, days) /\ days \subseteq Dates(market[s])
      BY <1>3, <2>1, RestatesSome
    <2>3. today' = today
      BY <2>2 DEF Restated
    <2>4. CASE r # s
      <3>1. market'[r] = market[r] /\ late'[r] = late[r]
        BY <2>1, <2>2, <2>4, RestatedBars
      <3> QED
        BY <1>1, <2>3, <3>1 DEF Grows
    <2>5. CASE r = s
      <3>1. /\ \A d \in Days : market'[r][d] = IF d \in days THEN market[r][d] + 1 ELSE market[r][d]
            /\ late'[r] = late[r] \cup {d \in days : d <= today - Overlap}
        BY <2>1, <2>2, <2>5, RestatedBars
      <3>2. Grows(market[r], late[r], today, market'[r], late'[r], today')
        BY <1>1, <2>3, <3>1 DEF Grows
      <3>3. \A d \in Days : market'[r][d] # 0 <=> market[r][d] # 0
        <4>1. \A d \in days : market[r][d] # 0 /\ market[r][d] + 1 # 0
          BY <1>1, <2>2, <2>5 DEF Dates
        <4> QED
          BY <3>1, <4>1
      <3>4. Dates(market'[r]) = Dates(market[r])
        BY <3>3 DEF Dates
      <3> QED
        BY <1>1, <2>3, <3>2, <3>4
    <2> QED
      BY <2>4, <2>5
  <1> QED
    BY <1>2, <1>3

LEMMA MergeCompletes ==
  ASSUME NEW existing \in Bars, NEW new \in Bars, NEW known, NEW exempt, NEW day \in 1 .. LastDay,
         Complete(existing, known, exempt, day), Joins(new, existing, known, exempt, day)
  PROVE  /\ Complete(Merged(existing, new), known, exempt, day)
         /\ LastDate(existing) <= LastDate(Merged(existing, new))
         /\ \A d \in Days : existing[d] <= Merged(existing, new)[d]
  <1> DEFINE last == LastDate(existing)
             merged == Merged(existing, new)
  <1>1. PICK fetched \in 1 .. day :
          /\ last <= fetched
          /\ \A d \in Dates(new) : d <= fetched
          /\ \A d \in 1 .. fetched : last - Overlap < d => d \in Dates(new)
          /\ \A d \in Dates(new) \ exempt : d <= fetched - Overlap => new[d] = known[d]
    BY DEF Joins
  <1>2. /\ Dates(existing) = 1 .. last /\ last \in 0 .. day
        /\ \A d \in Dates(existing) \ exempt : d <= last - Overlap => existing[d] = known[d]
        /\ Overlap \in Nat \ {0} /\ LastDay \in Nat
    BY CacheAssumption DEF Complete
  <1>3. /\ Dates(merged) = Dates(existing) \cup Dates(new)
        /\ \A d \in Days : merged[d] = IF d \in Dates(new) THEN new[d] ELSE existing[d]
        /\ Dates(new) \subseteq 1 .. LastDay
    BY MergedFits, DatesAreDays DEF Days
  <1> HIDE DEF last, merged
  <1>4. Dates(merged) = 1 .. fetched
    <2>1. ASSUME NEW d \in 1 .. fetched PROVE d \in Dates(merged)
      <3>1. CASE d <= last
        BY <1>2, <1>3, <3>1
      <3>2. CASE ~ (d <= last)
        BY <1>1, <1>2, <1>3, <3>2
      <3> QED
        BY <3>1, <3>2
    <2>2. ASSUME NEW d \in Dates(merged) PROVE d \in 1 .. fetched
      BY <1>1, <1>2, <1>3
    <2> QED
      BY <2>1, <2>2
  <1>5. LastDate(merged) = fetched
    BY <1>2, <1>4, LastOfPrefix
  <1>6. ASSUME NEW d \in Dates(merged) \ exempt, d <= fetched - Overlap PROVE merged[d] = known[d]
    <2>1. d \in 1 .. fetched /\ d \in Days
      BY <1>2, <1>4 DEF Days
    <2>2. CASE d \in Dates(new)
      BY <1>1, <1>3, <1>6, <2>1, <2>2
    <2>3. CASE d \notin Dates(new)
      <3>1. d \in Dates(existing) /\ ~ (last - Overlap < d)
        BY <1>1, <1>3, <2>1, <2>3
      <3>2. d <= last - Overlap
        BY <1>2, <2>1, <3>1
      <3> QED
        BY <1>2, <1>3, <2>1, <2>3, <3>1, <3>2
    <2> QED
      BY <2>2, <2>3
  <1>7. ASSUME NEW d \in Days PROVE merged[d] <= known[d] /\ existing[d] <= merged[d]
    <2>1. existing[d] \in Nat /\ existing[d] <= known[d] /\ new[d] <= known[d]
      BY DEF Bars, Versions, Complete, Joins
    <2>2. d \in Dates(new) => existing[d] <= new[d]
      BY DEF Joins
    <2> QED
      BY <1>3, <2>1, <2>2
  <1> QED
    BY <1>1, <1>2, <1>4, <1>5, <1>6, <1>7 DEF Complete, merged, last

LEMMA FetchJoins ==
  ASSUME Inv, Fetch, ~ Torn(symbol)
  PROVE  Joins(bars', file[symbol].bars, market[symbol], late[symbol], today)
  <1> DEFINE last == dates["refresher"][symbol]
             cached == LastDate(file[symbol].bars)
  <1>1. /\ symbol \in Symbols /\ pc["refresher"] = "fetch" /\ ~ Writing(symbol)
        /\ bars' = [d \in Days |-> IF d \in ToFetch(last) THEN market[symbol][d] ELSE 0]
    BY DEF Fetch, Inv, Places, Writing
  <1>2. /\ last \in Nat /\ last <= cached /\ cached \in 0 .. today
        /\ today \in 1 .. LastDay /\ LastDay \in Nat /\ Overlap \in Nat
        /\ Dates(market[symbol]) = 1 .. today
    BY <1>1, CacheAssumption
       DEF Inv, TypeOK, Claims, Held, Histories, Complete, Processes, Days
  <1>3. Dates(bars') = ToFetch(last)
    <2>1. \A d \in Days : bars'[d] = IF d \in ToFetch(last) THEN market[symbol][d] ELSE 0
      BY <1>1
    <2>2. ASSUME NEW d \in ToFetch(last) PROVE d \in Days /\ market[symbol][d] # 0
      BY <1>2 DEF ToFetch, Days, Dates
    <2>3. ToFetch(last) \subseteq Days
      BY DEF ToFetch
    <2> QED
      BY <2>1, <2>2, <2>3 DEF Dates
  <1>4. \A d \in ToFetch(last) : bars'[d] = market[symbol][d] /\ d <= today
    BY <1>1 DEF ToFetch
  <1> HIDE DEF last, cached
  <1>5. \A d \in 1 .. today : cached - Overlap < d => d \in ToFetch(last)
    BY <1>2 DEF ToFetch, Days
  <1>6. today \in 1 .. today
    BY <1>2
  <1>7. \A d \in Days : file[symbol].bars[d] <= market[symbol][d] /\ market[symbol][d] \in Nat
    BY <1>1 DEF Inv, Histories, Complete, TypeOK, Bars, Versions
  <1>8. ToFetch(last) \subseteq Days
    BY DEF ToFetch
  <1>9. \A d \in Dates(bars') : file[symbol].bars[d] <= bars'[d]
    BY <1>3, <1>4, <1>7, <1>8
  <1>10. \A d \in Days : bars'[d] <= market[symbol][d]
    BY <1>1, <1>7
  <1> QED
    BY <1>2, <1>3, <1>4, <1>5, <1>6, <1>9, <1>10 DEF Joins, cached

-----------------------------------------------------------------------------
(* What a symbol holds only grows. *)

\* Steps that have nothing to do with the work on a file: the refresher stands,
\* or it is, or goes, where it has no file in its hands.
Quiet ==
  /\ UNCHANGED <<world, file>>
  /\ \/ pc'["refresher"] = pc["refresher"] /\ UNCHANGED <<symbol, purpose, bars>>
     \/ /\ pc'["refresher"] \notin {"merge", "write", "writing"}
        /\ purpose' = "update" => purpose = "update" /\ UNCHANGED <<symbol, bars>>

LEMMA QuietSteps ==
  ASSUME Inv, [Next]_vars
  PROVE  \/ Quiet
         \/ Fetch \/ Merge \/ TruncateFile \/ FillFile
         \/ NextDay \/ \E s \in Symbols : Restate(s) \/ Adjust(s)
  <1> USE DEF world, disk, locals
  <1>1. CASE UNCHANGED vars
    BY <1>1 DEF vars, Quiet
  <1>2. ASSUME NEW p \in Processes, Step(p) PROVE Quiet
    <2>1. CASE ReadManifest(p) \/ FillManifest(p)
      <3>1. \/ Leave(p)
            \/ \E held : HasManifest(p, held) /\ pc[p] \in {"manifest", "rebuilding"}
        BY <2>1 DEF ReadManifest, FillManifest
      <3>2. UNCHANGED <<world, file>>
        BY <2>1 DEF ReadManifest, FillManifest
      <3>3. CASE p = "reader"
        <4>1. /\ pc'["refresher"] = pc["refresher"] /\ UNCHANGED <<symbol, purpose, bars>>
          BY <3>1, <3>3, LeavePlaces, HasManifestPlaces DEF Processes
        <4> QED
          BY <3>2, <4>1 DEF Quiet
      <3>4. CASE p = "refresher"
        <4>1. pc'["refresher"] \in {"idle", "update", "fetch"}
          BY <3>1, <3>4, LeavePlaces, HasManifestPlaces
        <4>2. purpose' = "last_date" \/ UNCHANGED <<symbol, purpose, bars>>
          BY <3>1, <3>4, LeavePlaces, HasManifestPlaces
        <4> QED
          BY <3>2, <4>1, <4>2 DEF Quiet
      <3> QED
        BY <3>3, <3>4 DEF Processes
    <2>2. CASE \E s \in Symbols : InspectFile(p, s)
      BY <2>2 DEF InspectFile, Quiet
    <2>3. CASE \E s \in Symbols : InspectFails(p, s)
      BY <2>3, LeavePlaces DEF InspectFails, Quiet, Processes
    <2>4. CASE BeginRebuild(p) \/ RewriteManifest(p)
      <3>1. /\ pc'[p] \in {"inspect", "rebuilding"}
            /\ \A q \in Processes \ {p} : pc'[q] = pc[q]
            /\ UNCHANGED <<world, file, symbol, purpose, bars>>
        BY <2>4 DEF BeginRebuild, RewriteManifest, Goto, Inv, TypeOK
      <3> QED
        BY <3>1 DEF Quiet, Processes
    <2> QED
      BY <1>2, <2>1, <2>2, <2>3, <2>4 DEF Step
  <1>3. ASSUME NEW p \in Processes, Crash(p) PROVE Quiet
    BY <1>3, LeavePlaces DEF Crash, Quiet, Processes
  <1>4. CASE EndLoad \/ MergeFails
    BY <1>4, LeavePlaces DEF EndLoad, MergeFails, Processes, Quiet
  <1>5. CASE ReaderAsks \/ ReaderReports \/ BeginLoad
    BY <1>5 DEF ReaderAsks, ReaderReports, BeginLoad, Goto, Inv, TypeOK, Processes, Quiet
  <1>6. CASE \E s \in Symbols : ReportFile(s) \/ LoadColumn(s)
    BY <1>6 DEF ReportFile, LoadColumn, Quiet
  <1>7. CASE UpdateManifest
    BY <1>7 DEF UpdateManifest, Goto, Inv, TypeOK, Processes, Quiet
  <1>8. ASSUME NEW s \in Symbols, RefreshSymbol(s) PROVE Quiet
    BY <1>8 DEF RefreshSymbol, Goto, Inv, TypeOK, Processes, Places, Quiet
  <1> QED
    BY <1>1, <1>2, <1>3, <1>4, <1>5, <1>6, <1>7, <1>8 DEF Next, Gate, Refresh

\* The steps that have: where they are, and what they leave.
LEMMA WorkSteps ==
  ASSUME Inv, Fetch \/ Merge \/ TruncateFile \/ FillFile
  PROVE  /\ symbol \in Symbols /\ UNCHANGED <<world, manifest, symbol>>
         /\ pc'["reader"] = pc["reader"]
         /\ dates'["reader"] = dates["reader"] /\ todo' = todo
         /\ Fetch => pc["refresher"] = "fetch" /\ pc'["refresher"] = "merge" /\ UNCHANGED <<file, purpose>>
         /\ Merge => pc["refresher"] = "merge" /\ pc'["refresher"] = "write" /\ UNCHANGED <<file, purpose>>
         /\ TruncateFile => /\ pc["refresher"] = "write" /\ pc'["refresher"] = "writing"
                            /\ file'[symbol].state = "torn" /\ UNCHANGED <<bars, purpose>>
         /\ FillFile => /\ pc["refresher"] = "writing" /\ pc'["refresher"] = "manifest"
                        /\ file'[symbol] = [state |-> "whole", bars |-> bars] /\ UNCHANGED bars
         /\ \A s \in Symbols \ {symbol} : file'[s] = file[s]
  BY DEF Fetch, Merge, TruncateFile, FillFile, Goto, Inv, TypeOK, Places, Processes, world, disk, locals

LEMMA HeldGrows ==
  ASSUME Inv, [Next]_vars, NEW s \in Symbols
  PROVE  /\ Held(s) <= Held(s)'
         /\ file[s].state # "absent" => file'[s].state # "absent"
  <1>0. Held(s) \in 0 .. LastDay /\ LastDay \in Nat
    BY HeldFits, CacheAssumption
  <1>1. CASE Quiet
    <2>1. file' = file
      BY <1>1 DEF Quiet
    <2>2. CASE UNCHANGED <<symbol, bars>> /\ pc'["refresher"] = pc["refresher"]
      BY <1>0, <2>1, <2>2 DEF Held, Writing, Torn
    <2>3. CASE pc'["refresher"] # "writing"
      <3>1. Writing(s) => Torn(s)
        BY DEF Inv, AtWork, Writing
      <3> QED
        BY <1>0, <2>1, <2>3, <3>1 DEF Held, Writing, Torn
    <2> QED
      BY <1>1, <2>2, <2>3 DEF Quiet
  <1>2. CASE NextDay \/ \E r \in Symbols : Restate(r) \/ Adjust(r)
    BY <1>0, <1>2 DEF NextDay, Restate, Adjust, Restated, Held, Writing, Torn, disk, locals
  <1>3. CASE Fetch \/ Merge
    BY <1>0, <1>3, WorkSteps DEF Held, Writing, Torn
  <1>4. CASE TruncateFile
    <2>1. CASE s = symbol
      BY <1>4, <2>1, WorkSteps DEF Held, Writing, Torn, Inv, AtWork
    <2>2. CASE s # symbol
      BY <1>0, <1>4, <2>2, WorkSteps DEF Held, Writing, Torn
    <2> QED
      BY <2>1, <2>2
  <1>5. CASE FillFile
    <2>1. CASE s = symbol
      BY <1>0, <1>5, <2>1, WorkSteps DEF Held, Writing, Torn
    <2>2. CASE s # symbol
      BY <1>0, <1>5, <2>2, WorkSteps DEF Held, Writing, Torn
    <2> QED
      BY <2>1, <2>2
  <1> QED
    BY <1>1, <1>2, <1>3, <1>4, <1>5, QuietSteps

-----------------------------------------------------------------------------
(* The invariant is kept. *)

LEMMA HistoriesNext == Inv /\ [Next]_vars => Histories'
  <1> SUFFICES ASSUME Inv, [Next]_vars, NEW s \in Symbols
               PROVE  /\ Dates(market'[s]) = 1 .. today'
                      /\ file'[s].state = "absent" => file'[s].bars = NoBars
                      /\ ~ Torn(s)' => Complete(file'[s].bars, market'[s], late'[s], today')
    BY DEF Histories
  <1>1. CASE Quiet
    BY <1>1 DEF Quiet, world, Inv, Histories, Torn
  <1>2. CASE NextDay \/ \E r \in Symbols : Restate(r) \/ Adjust(r)
    <2>1. /\ file' = file /\ today \in Nat /\ today' \in Nat
          /\ file[s].bars \in Bars /\ market[s] \in Bars /\ market'[s] \in Bars
      BY <1>2, TypesNext DEF NextDay, Restate, Adjust, Restated, disk, Inv, TypeOK, Days
    <2> QED
      BY <1>2, <2>1, WorldGrows, CompleteGrows DEF Inv, Histories, Torn
  <1>3. CASE Fetch \/ Merge
    BY <1>3, WorkSteps DEF Inv, Histories, Torn, world
  <1>4. CASE TruncateFile \/ FillFile
    <2>1. UNCHANGED <<market, late, today>>
      BY <1>4, WorkSteps DEF world
    <2>2. CASE s # symbol
      BY <1>4, <2>1, <2>2, WorkSteps DEF Inv, Histories, Torn
    <2>3. CASE s = symbol /\ TruncateFile
      BY <2>1, <2>3, WorkSteps DEF Inv, Histories, Torn
    <2>4. CASE s = symbol /\ FillFile
      <3>1. Complete(bars, market[s], late[s], today)
        BY <2>4, WorkSteps DEF Inv, AtWork
      <3>2. file'[s] = [state |-> "whole", bars |-> bars]
        BY <2>4, WorkSteps
      <3> QED
        BY <2>1, <3>1, <3>2 DEF Inv, Histories
    <2> QED
      BY <1>4, <2>2, <2>3, <2>4
  <1> QED
    BY <1>1, <1>2, <1>3, <1>4, QuietSteps

LEMMA AtWorkNext == Inv /\ [Next]_vars => AtWork'
  <1> SUFFICES ASSUME Inv, [Next]_vars PROVE AtWork'
    OBVIOUS
  <1>1. CASE Quiet
    <2>1. UNCHANGED <<today, market, late, file>>
      BY <1>1 DEF Quiet, world
    <2>2. CASE pc'["refresher"] = pc["refresher"] /\ UNCHANGED <<symbol, purpose, bars>>
      BY <2>1, <2>2 DEF Inv, AtWork, Torn
    <2>3. CASE /\ pc'["refresher"] \notin {"merge", "write", "writing"}
               /\ purpose' = "update" => purpose = "update" /\ UNCHANGED <<symbol, bars>>
      BY <2>1, <2>3 DEF Inv, AtWork, Torn
    <2> QED
      BY <1>1, <2>2, <2>3 DEF Quiet
  <1>2. CASE NextDay \/ \E r \in Symbols : Restate(r) \/ Adjust(r)
    <2>1. /\ UNCHANGED <<file, pc, symbol, purpose, bars>> /\ today \in Nat /\ today' \in Nat
      BY <1>2, TypesNext DEF NextDay, Restate, Adjust, Restated, disk, locals, Inv, TypeOK, Days
    <2>2. pc["refresher"] # "idle" =>
            /\ symbol \in Symbols /\ bars \in Bars /\ file[symbol].bars \in Bars
            /\ market[symbol] \in Bars /\ market'[symbol] \in Bars
      BY TypesNext DEF Inv, Places, TypeOK
    <2>3. pc["refresher"] = "merge" /\ ~ Torn(symbol) =>
            Joins(bars, file[symbol].bars, market'[symbol], late'[symbol], today')
      BY <1>2, <2>1, <2>2, WorldGrows, JoinsGrows DEF Inv, AtWork
    <2>4. pc["refresher"] \in {"write", "writing"} => Complete(bars, market'[symbol], late'[symbol], today')
      BY <1>2, <2>1, <2>2, WorldGrows, CompleteGrows DEF Inv, AtWork
    <2> QED
      BY <2>1, <2>3, <2>4 DEF Inv, AtWork, Torn
  <1>3. CASE Fetch
    <2>1. /\ pc'["refresher"] = "merge" /\ purpose' = "last_date"
          /\ UNCHANGED <<today, market, late, file, symbol>>
      BY <1>3, WorkSteps DEF world, Inv, Places
    <2> QED
      BY <1>3, <2>1, FetchJoins DEF AtWork, Torn
  <1>4. CASE Merge
    <2>1. /\ pc'["refresher"] = "write" /\ purpose' = "last_date" /\ symbol \in Symbols
          /\ UNCHANGED <<today, market, late, file, symbol>>
          /\ bars' = Merged(file[symbol].bars, bars) /\ ~ Torn(symbol)
          /\ pc["refresher"] = "merge"
      BY <1>4, WorkSteps DEF world, Inv, Places, Merge, Torn
    <2>2. /\ file[symbol].bars \in Bars /\ bars \in Bars /\ today \in 1 .. LastDay
          /\ Complete(file[symbol].bars, market[symbol], late[symbol], today)
          /\ Joins(bars, file[symbol].bars, market[symbol], late[symbol], today)
      BY <2>1 DEF Inv, TypeOK, Days, Histories, AtWork
    <2>3. /\ Complete(bars', market[symbol], late[symbol], today)
          /\ LastDate(file[symbol].bars) <= LastDate(bars')
          /\ \A d \in Days : file[symbol].bars[d] <= bars'[d]
      BY <2>1, <2>2, MergeCompletes
    <2> QED
      BY <2>1, <2>3 DEF AtWork, Torn
  <1>5. CASE TruncateFile
    BY <1>5, WorkSteps DEF Inv, Places, AtWork, Torn, world
  <1>6. CASE FillFile
    BY <1>6, WorkSteps DEF AtWork
  <1> QED
    BY <1>1, <1>2, <1>3, <1>4, <1>5, <1>6, QuietSteps

\* What a process or the manifest gets to know is what somebody knew, or the
\* last date of a file that reads.
LEMMA News ==
  ASSUME Inv, [Next]_vars, NEW s \in Symbols
  PROVE  /\ \/ manifest'.dates[s] \in {0, manifest.dates[s]}
            \/ \E p \in Processes : manifest'.dates[s] = dates[p][s]
         /\ \A p \in Processes :
              \/ dates'[p][s] \in {0, dates[p][s], manifest.dates[s]}
              \/ ~ Torn(s) /\ dates'[p][s] = LastDate(file[s].bars)
  <1> USE DEF world, disk, locals
  <1> DEFINE ManifestNews == \/ manifest'.dates[s] \in {0, manifest.dates[s]}
                             \/ \E p \in Processes : manifest'.dates[s] = dates[p][s]
             DatesNews == \A p \in Processes :
                            \/ dates'[p][s] \in {0, dates[p][s], manifest.dates[s]}
                            \/ ~ Torn(s) /\ dates'[p][s] = LastDate(file[s].bars)
  <1>1. CASE UNCHANGED vars \/ NextDay \/ \E r \in Symbols : Restate(r) \/ Adjust(r) \/ RefreshSymbol(r)
    BY <1>1 DEF vars, NextDay, Restate, Adjust, Restated, RefreshSymbol
  <1>2. ASSUME NEW q \in Processes, Leave(q) PROVE DatesNews
    BY <1>2, LeavePlaces DEF NoDates
  <1>3. ASSUME NEW q \in Processes, NEW held, HasManifest(q, held),
               pc[q] \in {"manifest", "rebuilding"},
               held[s] \in {0, dates[q][s], manifest.dates[s]}
        PROVE  DatesNews
    BY <1>3, HasManifestPlaces DEF NoDates
  <1>4. ASSUME NEW q \in Processes, Step(q) PROVE ManifestNews /\ DatesNews
    <2>1. CASE ReadManifest(q)
      BY <1>3, <2>1 DEF ReadManifest
    <2>2. CASE BeginRebuild(q)
      BY <2>2 DEF BeginRebuild
    <2>3. CASE RewriteManifest(q)
      BY <2>3 DEF RewriteManifest, NoDates
    <2>4. CASE FillManifest(q)
      <3>1. ManifestNews
        BY <2>4 DEF FillManifest, NoDates
      <3>2. DatesNews
        BY <1>2, <1>3, <2>4 DEF FillManifest
      <3> QED
        BY <3>1, <3>2
    <2>5. ASSUME NEW r \in Symbols, InspectFile(q, r) PROVE ManifestNews /\ DatesNews
      BY <2>5 DEF InspectFile, Torn, Inv, TypeOK
    <2>6. ASSUME NEW r \in Symbols, InspectFails(q, r) PROVE ManifestNews /\ DatesNews
      BY <1>2, <2>6 DEF InspectFails
    <2> QED
      BY <1>4, <2>1, <2>2, <2>3, <2>4, <2>5, <2>6 DEF Step
  <1>5. ASSUME NEW q \in Processes, Crash(q) PROVE ManifestNews /\ DatesNews
    BY <1>2, <1>5 DEF Crash
  <1>6. CASE EndLoad \/ MergeFails
    BY <1>2, <1>6 DEF EndLoad, MergeFails, Processes
  <1>7. CASE ReaderAsks \/ ReaderReports \/ BeginLoad \/ \E r \in Symbols : LoadColumn(r)
    BY <1>7 DEF ReaderAsks, ReaderReports, BeginLoad, LoadColumn
  <1>8. ASSUME NEW r \in Symbols, ReportFile(r) PROVE ManifestNews /\ DatesNews
    BY <1>8 DEF ReportFile, Torn, Inv, TypeOK
  <1>9. CASE Fetch \/ Merge \/ TruncateFile \/ FillFile
    <2>1. /\ manifest' = manifest
          /\ dates' = dates \/ dates' = [dates EXCEPT !["refresher"] = NoDates]
      BY <1>9 DEF Fetch, Merge, TruncateFile, FillFile
    <2>2. \A p \in Processes : dates'[p] \in {dates[p], NoDates}
      BY <2>1 DEF Inv, TypeOK
    <2> QED
      BY <2>1, <2>2 DEF NoDates
  <1>10. CASE UpdateManifest
    <2>1. file[symbol] = [state |-> "whole", bars |-> bars]
      BY <1>10 DEF UpdateManifest, Inv, Places, AtWork
    <2> QED
      BY <1>10, <2>1 DEF UpdateManifest, NoDates, Torn, Inv, TypeOK
  <1> QED
    BY <1>1, <1>4, <1>5, <1>6, <1>7, <1>8, <1>9, <1>10 DEF Next, Gate, Refresh

LEMMA ClaimsNext == Inv /\ [Next]_vars => Claims'
  <1> SUFFICES ASSUME Inv, [Next]_vars, NEW s \in Symbols
               PROVE  /\ manifest'.dates[s] <= Held(s)'
                      /\ \A p \in Processes : dates'[p][s] <= Held(s)'
    BY DEF Claims
  <1>1. Held(s) \in Nat /\ Held(s)' \in Nat /\ Held(s) <= Held(s)'
    <2>1. Held(s)' \in Int
      <3>1. TypeOK' /\ AtWork' /\ Histories'
        BY TypesNext, AtWorkNext, HistoriesNext
      <3>2. Writing(s)' => LastDate(bars)' \in Nat
        BY <3>1 DEF AtWork, Complete, Writing, TypeOK, Days
      <3>3. ~ Torn(s)' => LastDate(file[s].bars)' \in Nat
        BY <3>1 DEF Histories, Complete, TypeOK, Days
      <3> QED
        BY <3>2, <3>3, CacheAssumption DEF Held
    <2> QED
      BY <2>1, HeldFits, HeldGrows, CacheAssumption
  <1>2. ~ Torn(s) => LastDate(file[s].bars) = Held(s)
    BY DEF Held, Writing, Inv, AtWork
  <1>3. /\ manifest.dates[s] \in Nat /\ manifest.dates[s] <= Held(s)
        /\ \A p \in Processes : dates[p][s] \in Nat /\ dates[p][s] <= Held(s)
    BY DEF Inv, TypeOK, Claims
  <1>4. \/ manifest'.dates[s] \in {0, manifest.dates[s]}
        \/ \E p \in Processes : manifest'.dates[s] = dates[p][s]
    BY News
  <1>5. ASSUME NEW p \in Processes PROVE dates'[p][s] <= Held(s)'
    <2>1. \/ dates'[p][s] \in {0, dates[p][s], manifest.dates[s]}
          \/ ~ Torn(s) /\ dates'[p][s] = LastDate(file[s].bars)
      BY News
    <2> QED
      BY <1>1, <1>2, <1>3, <2>1
  <1> QED
    BY <1>1, <1>3, <1>4, <1>5

\* The reader passes on what it has seen, and what it has seen grows.
LEMMA PassedNext == Inv /\ [Next]_vars => Passed'
  <1> SUFFICES ASSUME Inv, [Next]_vars PROVE Passed'
    OBVIOUS
  <1> USE DEF world, disk, locals
  <1>1. \A s \in Symbols :
          file[s].state # "absent" /\ MinBars <= Held(s) =>
            file'[s].state # "absent" /\ MinBars <= Held(s)'
    <2>1. \A s \in Symbols : Held(s) \in Nat /\ Held(s)' \in Int
      BY HeldFits, TypesNext, AtWorkNext, HistoriesNext, CacheAssumption
         DEF Held, Writing, AtWork, Histories, Complete, TypeOK, Days
    <2> QED
      BY <2>1, HeldGrows, CacheAssumption
  <1>2. CASE UNCHANGED <<pc["reader"], dates["reader"], todo["reader"]>>
    BY <1>1, <1>2 DEF Inv, Passed
  <1>3. CASE Leave("reader")
    BY <1>3, LeavePlaces DEF Passed, Processes
  <1>4. CASE Step("reader")
    <2>1. CASE \/ ReadManifest("reader") \/ FillManifest("reader")
               \/ \E s \in Symbols : InspectFails("reader", s)
      <3>1. pc["reader"] # "updating"
        BY DEF Inv, Places
      <3> QED
        BY <1>3, <2>1, <3>1 DEF ReadManifest, FillManifest, InspectFails, HasManifest
    <2>2. CASE BeginRebuild("reader") \/ RewriteManifest("reader")
      BY <2>2 DEF BeginRebuild, RewriteManifest, Goto, Passed, Inv, TypeOK, Processes
    <2>3. CASE \E s \in Symbols : InspectFile("reader", s)
      BY <2>3 DEF InspectFile, Passed
    <2> QED
      BY <1>4, <2>1, <2>2, <2>3 DEF Step
  <1>5. CASE Step("refresher") \/ Crash("refresher")
    <2>1. ASSUME Leave("refresher") PROVE UNCHANGED <<pc["reader"], dates["reader"], todo["reader"]>>
      BY <2>1, LeavePlaces DEF Processes
    <2>2. ASSUME NEW held, HasManifest("refresher", held), pc["refresher"] \in {"manifest", "rebuilding"}
          PROVE  UNCHANGED <<pc["reader"], dates["reader"], todo["reader"]>>
      BY <2>2, HasManifestPlaces DEF Processes
    <2>3. UNCHANGED <<pc["reader"], dates["reader"], todo["reader"]>>
      BY <1>5, <2>1, <2>2
         DEF Crash, Step, ReadManifest, FillManifest, InspectFails, InspectFile, BeginRebuild,
             RewriteManifest, Goto, Inv, TypeOK, Processes
    <2> QED
      BY <1>2, <2>3
  <1>6. CASE ReaderAsks
    BY <1>6 DEF ReaderAsks, Goto, Passed, Inv, TypeOK, Processes
  <1>7. CASE ReaderReports
    <2>1. /\ pc["reader"] = "idle" /\ pc'["reader"] = "report" /\ dates' = dates
      BY <1>7 DEF ReaderReports, Goto, Inv, TypeOK, Processes
    <2> QED
      BY <2>1 DEF Passed, Inv, NoDates
  <1>8. ASSUME NEW s \in Symbols, ReportFile(s) PROVE Passed'
    <2> DEFINE d == IF IsOk(file[s].bars) THEN LastDate(file[s].bars) ELSE 0
    <2>1. /\ pc["reader"] = "report" /\ pc' = pc /\ ~ Torn(s)
          /\ dates'["reader"][s] = d
          /\ \A r \in Symbols \ {s} : dates'["reader"][r] = dates["reader"][r]
      BY <1>8 DEF ReportFile, Torn, Inv, TypeOK, Processes
    <2>2. d # 0 => file[s].state # "absent" /\ MinBars <= Held(s)
      <3>1. file[s].state = "absent" => ~ IsOk(file[s].bars)
        BY NoBarsAtAll DEF Inv, Histories, IsOk
      <3>2. Cardinality(Dates(file[s].bars)) = LastDate(file[s].bars)
        BY <2>1, CompleteFits DEF Inv, Histories
      <3>3. LastDate(file[s].bars) = Held(s)
        BY <2>1 DEF Held, Writing, Inv, AtWork
      <3>4. MinBars \in Nat /\ Held(s) \in Nat
        BY CacheAssumption, HeldFits
      <3> QED
        BY <3>1, <3>2, <3>3, <3>4 DEF IsOk
    <2> HIDE DEF d
    <2> QED
      BY <1>1, <2>1, <2>2 DEF Inv, Passed
  <1>9. CASE BeginLoad
    BY <1>1, <1>9 DEF BeginLoad, Goto, Passed, Inv, TypeOK, Processes
  <1>10. ASSUME NEW s \in Symbols, LoadColumn(s) PROVE Passed'
    BY <1>1, <1>10 DEF LoadColumn, Passed, Inv, TypeOK, Processes
  <1>11. CASE EndLoad \/ Crash("reader")
    BY <1>3, <1>11 DEF EndLoad, Crash
  <1>12. CASE Fetch \/ Merge \/ TruncateFile \/ FillFile
    BY <1>2, <1>12, WorkSteps
  <1>13. CASE MergeFails
    BY <1>2, <1>13, LeavePlaces DEF MergeFails, Processes
  <1>14. CASE UpdateManifest \/ \E s \in Symbols : RefreshSymbol(s)
    BY <1>2, <1>14 DEF UpdateManifest, RefreshSymbol, Goto, Inv, TypeOK, Processes
  <1>15. CASE UNCHANGED vars \/ NextDay \/ \E s \in Symbols : Restate(s) \/ Adjust(s)
    BY <1>2, <1>15 DEF vars, NextDay, Restate, Adjust, Restated
  <1> QED
    BY <1>4, <1>5, <1>6, <1>7, <1>8, <1>9, <1>10, <1>11, <1>12, <1>13, <1>14, <1>15
       DEF Next, Gate, Refresh, Processes

LEMMA InvNext == Inv /\ [Next]_vars => Inv'
  BY TypesNext, HistoriesNext, PlacesNext, AtWorkNext, ClaimsNext, PassedNext DEF Inv

-----------------------------------------------------------------------------
(* The theorems. *)

\* The invariant itself, the types included.
THEOREM CacheInvariance == Spec => [](TypeOK /\ Claims)
  <1>1. Inv => TypeOK /\ Claims
    BY DEF Inv
  <1> QED
    BY <1>1, InvInit, InvNext, PTL DEF Spec

\* However the rebuilds of two processes race with the writes of one, and
\* wherever either dies: the manifest is never ahead of a file that reads, so
\* that no day is left unfetched for good.
THEOREM ManifestIsNeverAhead == Spec => []ManifestNeverAhead
  <1>1. Inv => ManifestNeverAhead
    <2> SUFFICES ASSUME Inv, NEW s \in Symbols, Whole(s)
                 PROVE  manifest.dates[s] <= LastDate(file[s].bars)
      BY DEF ManifestNeverAhead
    <2>1. Held(s) = LastDate(file[s].bars)
      BY DEF Whole, Held, Writing, Torn, Inv, AtWork
    <2> QED
      BY <2>1 DEF Inv, Claims
  <1> QED
    BY <1>1, InvInit, InvNext, PTL DEF Spec

\* Incremental fetches leave no gap, for any history and any overlap.
THEOREM HistoriesHaveNoGaps == Spec => []NoGaps
  <1>1. Inv => NoGaps
    BY DEF Inv, Histories, NoGaps, Whole, Torn, Complete
  <1> QED
    BY <1>1, InvInit, InvNext, PTL DEF Spec

\* Whatever IBKR restates and however old it is: a bar that it restated while a
\* fetch could still reach it is in the file as IBKR has it, once it is so old
\* that it is not fetched again (next_fetch_duration, merge).
THEOREM RestatementsAlwaysArrive == Spec => []RestatementsArrive
  <1>1. Inv => RestatementsArrive
    BY DEF Inv, Histories, RestatementsArrive, Whole, Torn, Complete
  <1> QED
    BY <1>1, InvInit, InvNext, PTL DEF Spec

\* Between the report of the data gate and the load of what passed it, the
\* refresher may write any file: none gets lost, older or shorter.
THEOREM GateAlwaysHolds == Spec => []GateStillHolds
  <1>1. Inv => GateStillHolds
    <2> SUFFICES ASSUME Inv, pc["reader"] = "load", NEW s \in todo["reader"]
                 PROVE  /\ file[s].state # "absent"
                        /\ Whole(s) => /\ LastDate(file[s].bars) >= dates["reader"][s]
                                       /\ Cardinality(Dates(file[s].bars)) >= MinBars
      BY DEF GateStillHolds
    <2>1. s \in Symbols /\ "reader" \in Processes
      BY DEF Inv, TypeOK, Processes
    <2>2. file[s].state # "absent" /\ MinBars <= Held(s) /\ dates["reader"][s] <= Held(s)
      BY <2>1 DEF Inv, Passed, Claims
    <2>3. Whole(s) => /\ Held(s) = LastDate(file[s].bars)
                      /\ Cardinality(Dates(file[s].bars)) = LastDate(file[s].bars)
                      /\ LastDate(file[s].bars) \in Nat
      BY <2>1, CompleteFits DEF Whole, Held, Writing, Torn, Inv, AtWork, Histories
    <2>4. dates["reader"][s] \in Nat /\ MinBars \in Nat
      BY <2>1, CacheAssumption DEF Inv, TypeOK
    <2> QED
      BY <2>2, <2>3, <2>4
  <1> QED
    BY <1>1, InvInit, InvNext, PTL DEF Spec

\* No step takes a cached bar away or puts an earlier version in its place, but
\* for the one that begins to write the file with all of them (merge, write).
THEOREM CachedBarsAreKept == Spec => BarsAreKept
  <1> DEFINE Kept == \A s \in Symbols : Whole(s) /\ file[s]' # file[s] =>
                       file'[s].state = "torn" /\ pc'["refresher"] = "writing"
                         /\ \A d \in Days : file[s].bars[d] <= bars[d]
  <1>1. Inv /\ [Next]_vars => [Kept]_vars
    <2> SUFFICES ASSUME Inv, Next, NEW s \in Symbols, Whole(s), file'[s] # file[s]
                 PROVE  /\ file'[s].state = "torn" /\ pc'["refresher"] = "writing"
                        /\ \A d \in Days : file[s].bars[d] <= bars[d]
      OBVIOUS
    <2>1. ~ Quiet /\ ~ NextDay /\ ~ \E r \in Symbols : Restate(r) \/ Adjust(r)
      BY DEF Quiet, NextDay, Restate, Adjust, Restated, disk
    <2>2. (TruncateFile \/ FillFile) /\ s = symbol
      BY <2>1, QuietSteps, WorkSteps
    <2>3. TruncateFile
      BY <2>2, WorkSteps DEF Whole, Torn, Inv, AtWork
    <2>4. \A d \in Days : file[s].bars[d] <= bars[d]
      BY <2>2, <2>3, WorkSteps DEF Inv, AtWork
    <2> QED
      BY <2>2, <2>3, <2>4, WorkSteps
  <1> QED
    BY <1>1, InvInit, InvNext, PTL DEF Spec, BarsAreKept
=============================================================================
