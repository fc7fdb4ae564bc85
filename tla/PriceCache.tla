----------------------------- MODULE PriceCache -----------------------------
(***************************************************************************)
(* The parquet price cache of src/data/cache.py: one file of daily bars    *)
(* for each symbol, and a manifest of their last dates.                    *)
(*                                                                         *)
(* Two processes use it at the same time: the refresher, which asks for    *)
(* the last date of a symbol, fetches what next_fetch_duration says and    *)
(* merges it, and a reader (signals, backtest), which asks for last dates  *)
(* too and, in doing so, may rebuild the manifest, or passes the data gate *)
(* and loads the symbols that passed it.  There is no lock, and            *)
(* neither file is replaced atomically: to_parquet and write_text first    *)
(* truncate the file and then fill it, and a process can die in between.   *)
(*                                                                         *)
(* A bar is its version, which grows when IBKR restates it; 0 is no bar.    *)
(* Every day has a bar.  src/data/refresh.py is a stub, so the refresher   *)
(* is modelled from the calls its documentation announces.                 *)
(***************************************************************************)
EXTENDS Integers, FiniteSets

CONSTANTS
  Symbols,
  NoSymbol,      \* a model value: the refresher is between two symbols
  LastDay,       \* bound: the model ends on this day
  Overlap,       \* days fetched again (5 in next_fetch_duration)
  MaxStaleDays,  \* of the data gate
  MinBars,       \* of the data gate
  MaxVersion,    \* bound: how often a bar is restated, and one
  MaxCrashes     \* bound: how often a process dies

ASSUME CacheAssumption ==
  /\ {LastDay, Overlap, MaxVersion} \subseteq Nat \ {0}
  /\ {MaxCrashes, MaxStaleDays, MinBars} \subseteq Nat
  /\ NoSymbol \notin Symbols

Days == 1 .. LastDay
Versions == 0 .. MaxVersion
Bars == [Days -> Versions]
NoBars == [d \in Days |-> 0]

Dates(bars) == {d \in Days : bars[d] # 0}

\* Mutant: the day after the last bar.
LastDateExclusive(bars) ==
  IF Dates(bars) = {} THEN 0
  ELSE 1 + CHOOSE d \in Dates(bars) : \A e \in Dates(bars) : e <= d

\* The last bar's day, 0 when there is none (CacheStats.last_date is None).
LastDate(bars) ==
  IF Dates(bars) = {} THEN 0
  ELSE CHOOSE d \in Dates(bars) : \A e \in Dates(bars) : e <= d

Processes == {"refresher", "reader"}

VARIABLES
  today,
  market,     \* the bars IBKR has for each symbol
  late,       \* the days whose bars were restated when they were too old to be
              \* fetched again: for the properties, the code has no such variable
  file,       \* each parquet file: absent, torn or whole, and its bars
  manifest,   \* _manifest.json: the same, and the last date of each symbol
  pc,         \* where each process is
  symbol,     \* the symbol the refresher is at
  purpose,    \* why it reads the manifest: last_date or _update_manifest
  todo,       \* the files its rebuild_manifest has still to inspect
  dates,      \* the manifest as the process holds it; between staleness_report
              \* and load_matrix, the last dates of the symbols that are ok
  bars,       \* the bars the refresher holds: fetched, then combined
  crashes

disk   == <<file, manifest>>
world  == <<today, market, late>>
locals == <<symbol, purpose, todo, dates, bars>>
vars   == <<world, disk, pc, locals, crashes>>

NoDates == [s \in Symbols |-> 0]

Init ==
  /\ today = 1
  /\ market = [s \in Symbols |-> [NoBars EXCEPT ![1] = 1]]
  /\ late = [s \in Symbols |-> {}]
  /\ file = [s \in Symbols |-> [state |-> "absent", bars |-> NoBars]]
  /\ manifest = [state |-> "absent", dates |-> NoDates]
  /\ pc = [p \in Processes |-> "idle"]
  /\ symbol = NoSymbol
  /\ purpose = "last_date"
  /\ todo = [p \in Processes |-> {}]
  /\ dates = [p \in Processes |-> NoDates]
  /\ bars = NoBars
  /\ crashes = 0

Goto(p, loc) == pc' = [pc EXCEPT ![p] = loc]

-----------------------------------------------------------------------------
(* read_manifest, in last_date and in _update_manifest. *)

\* A call ends, by a return or by an exception that nothing catches.
Leave(p) ==
  /\ Goto(p, "idle")
  /\ todo' = [todo EXCEPT ![p] = {}]
  /\ dates' = [dates EXCEPT ![p] = NoDates]
  /\ IF p = "refresher" THEN symbol' = NoSymbol /\ purpose' = "last_date" /\ bars' = NoBars
                        ELSE UNCHANGED <<symbol, purpose, bars>>

\* The reader calls last_date; for which symbol makes no difference to it.
ReaderAsks ==
  /\ pc["reader"] = "idle"
  /\ Goto("reader", "manifest")
  /\ UNCHANGED <<world, disk, locals, crashes>>

RefreshSymbol(s) ==
  /\ pc["refresher"] = "idle"
  /\ symbol' = s
  /\ Goto("refresher", "manifest")
  /\ UNCHANGED <<world, disk, purpose, todo, dates, bars, crashes>>

\* What a process does once it holds the manifest `held`.
HasManifest(p, held) ==
  IF p = "reader"
  THEN Leave(p)
  ELSE /\ Goto(p, IF purpose = "update" THEN "update" ELSE "fetch")
       /\ dates' = [dates EXCEPT ![p] = held]
       /\ UNCHANGED <<symbol, purpose, todo, bars>>

\* A manifest that is there is believed; one that is not is empty.
ReadManifest(p) ==
  /\ pc[p] = "manifest"
  /\ manifest.state # "torn"
  /\ HasManifest(p, manifest.dates)
  /\ UNCHANGED <<world, disk, crashes>>

\* JSONDecodeError: rebuild_manifest, from the files there are.
BeginRebuild(p) ==
  /\ pc[p] = "manifest"
  /\ manifest.state = "torn"
  /\ todo' = [todo EXCEPT ![p] = {s \in Symbols : file[s].state # "absent"}]
  /\ Goto(p, "inspect")
  /\ UNCHANGED <<world, disk, symbol, purpose, dates, bars, crashes>>

InspectFile(p, s) ==
  /\ pc[p] = "inspect"
  /\ s \in todo[p] /\ file[s].state # "torn"
  /\ dates' = [dates EXCEPT ![p][s] = LastDate(file[s].bars)]
  /\ todo' = [todo EXCEPT ![p] = @ \ {s}]
  /\ UNCHANGED <<world, disk, pc, symbol, purpose, bars, crashes>>

\* read_parquet raises on a file that is not whole.
InspectFails(p, s) ==
  /\ pc[p] = "inspect"
  /\ s \in todo[p] /\ file[s].state = "torn"
  /\ Leave(p)
  /\ UNCHANGED <<world, disk, crashes>>

\* Mutant: the rebuilt manifest is returned, but not written.
RewriteManifestInMemory(p) ==
  /\ pc[p] = "inspect" /\ todo[p] = {}
  /\ HasManifest(p, dates[p])
  /\ UNCHANGED <<world, disk, crashes>>

\* The end of rebuild_manifest: write_text truncates the manifest ...
RewriteManifest(p) ==
  /\ pc[p] = "inspect" /\ todo[p] = {}
  /\ manifest' = [state |-> "torn", dates |-> NoDates]
  /\ Goto(p, "rebuilding")
  /\ UNCHANGED <<world, file, locals, crashes>>

\* Mutant: the entry says when the symbol was updated, not how far it goes.
UpdateManifestWithToday ==
  /\ pc["refresher"] = "update"
  /\ dates' = [dates EXCEPT !["refresher"][symbol] = today]
  /\ manifest' = [state |-> "torn", dates |-> NoDates]
  /\ Goto("refresher", "updating")
  /\ UNCHANGED <<world, file, symbol, purpose, todo, bars, crashes>>

\* ... and so does _update_manifest, with one entry of the manifest it read.
UpdateManifest ==
  /\ pc["refresher"] = "update"
  /\ dates' = [dates EXCEPT !["refresher"][symbol] = LastDate(bars)]
  /\ manifest' = [state |-> "torn", dates |-> NoDates]
  /\ Goto("refresher", "updating")
  /\ UNCHANGED <<world, file, symbol, purpose, todo, bars, crashes>>

\* The text arrives.  On top of one that came in between it may end in the
\* other's tail, which is no JSON.
FillManifest(p) ==
  /\ \/ manifest' = [state |-> "whole", dates |-> dates[p]]
     \/ /\ manifest.state = "whole"
        /\ manifest' = [state |-> "torn", dates |-> NoDates]
  /\ \/ pc[p] = "rebuilding" /\ HasManifest(p, dates[p])
     \/ pc[p] = "updating" /\ Leave(p)
  /\ UNCHANGED <<world, file, crashes>>

-----------------------------------------------------------------------------
(* The data gate: staleness_report, then load_matrix of what is ok.  Both read *)
(* one file after the other.                                                   *)

ReaderReports ==
  /\ pc["reader"] = "idle"
  /\ todo' = [todo EXCEPT !["reader"] = Symbols]
  /\ Goto("reader", "report")
  /\ UNCHANGED <<world, disk, symbol, purpose, dates, bars, crashes>>

\* Mutant: too few bars are ok.
IsOkUnlessStale(history) == Dates(history) # {} /\ today - LastDate(history) <= MaxStaleDays

\* Neither missing nor stale nor short.
IsOk(history) ==
  /\ Dates(history) # {}
  /\ today - LastDate(history) <= MaxStaleDays
  /\ Cardinality(Dates(history)) >= MinBars

ReportFile(s) ==
  /\ pc["reader"] = "report"
  /\ s \in todo["reader"] /\ file[s].state # "torn"
  /\ dates' = [dates EXCEPT !["reader"][s] = IF IsOk(file[s].bars) THEN LastDate(file[s].bars) ELSE 0]
  /\ todo' = [todo EXCEPT !["reader"] = @ \ {s}]
  /\ UNCHANGED <<world, disk, pc, symbol, purpose, bars, crashes>>

BeginLoad ==
  /\ pc["reader"] = "report" /\ todo["reader"] = {}
  /\ todo' = [todo EXCEPT !["reader"] = {s \in Symbols : dates["reader"][s] # 0}]
  /\ Goto("reader", "load")
  /\ UNCHANGED <<world, disk, symbol, purpose, dates, bars, crashes>>

\* One column; a symbol without a file is passed over.
LoadColumn(s) ==
  /\ pc["reader"] = "load"
  /\ s \in todo["reader"] /\ file[s].state # "torn"
  /\ todo' = [todo EXCEPT !["reader"] = @ \ {s}]
  /\ UNCHANGED <<world, disk, pc, symbol, purpose, dates, bars, crashes>>

\* The matrix is complete, or read_parquet raises.
EndLoad ==
  /\ \/ pc["reader"] = "load" /\ todo["reader"] = {}
     \/ pc["reader"] \in {"report", "load"} /\ \E s \in todo["reader"] : file[s].state = "torn"
  /\ Leave("reader")
  /\ UNCHANGED <<world, disk, crashes>>

-----------------------------------------------------------------------------
(* Fetch, merge and write. *)

\* next_fetch_duration: everything when nothing is known, else the days since
\* the last one and some that are already there.
ToFetch(last) ==
  {d \in Days : d <= today /\ (last = 0 \/ d > last - Overlap)}

Fetch ==
  /\ pc["refresher"] = "fetch"
  /\ LET wanted == ToFetch(dates["refresher"][symbol]) IN
       bars' = [d \in Days |-> IF d \in wanted THEN market[symbol][d] ELSE 0]
  /\ dates' = [dates EXCEPT !["refresher"] = NoDates]
  /\ Goto("refresher", "merge")
  /\ UNCHANGED <<world, disk, symbol, purpose, todo, crashes>>

\* Mutants: keep="first", and a write where there should be a merge.
MergedKeepingFirst(existing, new) ==
  [d \in Days |-> IF existing[d] # 0 THEN existing[d] ELSE new[d]]

MergedNewOnly(existing, new) == new

\* "New bars win on overlap" (merge).
Merged(existing, new) ==
  [d \in Days |-> IF new[d] # 0 THEN new[d] ELSE existing[d]]

Merge ==
  /\ pc["refresher"] = "merge"
  /\ file[symbol].state # "torn"
  /\ bars' = Merged(file[symbol].bars, bars)
  /\ Goto("refresher", "write")
  /\ UNCHANGED <<world, disk, symbol, purpose, todo, dates, crashes>>

\* The fetch fails, the bars do not validate, or the old file cannot be read.
MergeFails ==
  /\ pc["refresher"] = "merge"
  /\ Leave("refresher")
  /\ UNCHANGED <<world, disk, crashes>>

\* Mutant: the old file is removed before the new one is written.
TruncateFileRemoving ==
  /\ pc["refresher"] = "write"
  /\ file' = [file EXCEPT ![symbol] = [state |-> "absent", bars |-> NoBars]]
  /\ Goto("refresher", "writing")
  /\ UNCHANGED <<world, manifest, locals, crashes>>

TruncateFile ==
  /\ pc["refresher"] = "write"
  /\ file' = [file EXCEPT ![symbol] = [state |-> "torn", bars |-> NoBars]]
  /\ Goto("refresher", "writing")
  /\ UNCHANGED <<world, manifest, locals, crashes>>

\* to_parquet is done; _update_manifest reads the manifest afresh.
FillFile ==
  /\ pc["refresher"] = "writing"
  /\ file' = [file EXCEPT ![symbol] = [state |-> "whole", bars |-> bars]]
  /\ purpose' = "update"
  /\ Goto("refresher", "manifest")
  /\ UNCHANGED <<world, manifest, symbol, todo, dates, bars, crashes>>

-----------------------------------------------------------------------------
(* The world. *)

Crash(p) ==
  /\ crashes < MaxCrashes
  /\ pc[p] # "idle"
  /\ Leave(p)
  /\ crashes' = crashes + 1
  /\ UNCHANGED <<world, disk>>

NextDay ==
  /\ today < LastDay
  /\ today' = today + 1
  /\ market' = [s \in Symbols |-> [market[s] EXCEPT ![today + 1] = 1]]
  /\ UNCHANGED <<late, disk, pc, locals, crashes>>

Restated(s, days) ==
  /\ \A d \in days : market[s][d] < MaxVersion
  /\ market' = [market EXCEPT ![s] = [d \in Days |-> IF d \in days THEN @[d] + 1 ELSE @[d]]]
  /\ late' = [late EXCEPT ![s] = @ \cup {d \in days : d <= today - Overlap}]
  /\ UNCHANGED <<today, disk, pc, locals, crashes>>

\* "IBKR may restate a recent bar" ...
Restate(s) == \E d \in Dates(market[s]) : d > today - Overlap /\ Restated(s, {d})

\* ... and, because prices are split and dividend adjusted (what_to_show:
\* ADJUSTED_LAST), a split or a dividend restates all bars before it.
Adjust(s) == Restated(s, Dates(market[s]))

-----------------------------------------------------------------------------
Step(p) ==
  \/ ReadManifest(p) \/ BeginRebuild(p) \/ RewriteManifest(p) \/ FillManifest(p)
  \/ \E s \in Symbols : InspectFile(p, s) \/ InspectFails(p, s)

Gate ==
  BeginLoad \/ EndLoad \/ \E s \in Symbols : ReportFile(s) \/ LoadColumn(s)

Refresh ==
  Fetch \/ Merge \/ MergeFails \/ TruncateFile \/ FillFile \/ UpdateManifest

Next ==
  \/ ReaderAsks \/ ReaderReports \/ Gate
  \/ \E p \in Processes : Step(p) \/ Crash(p)
  \/ Refresh
  \/ \E s \in Symbols : RefreshSymbol(s) \/ Restate(s) \/ Adjust(s)
  \/ NextDay

Spec == Init /\ [][Next]_vars

\* A process that has begun goes on, and the reader is run again and again: it
\* does not pass the data gate for ever without asking for a last date.
FairSpec ==
  /\ Spec
  /\ \A p \in Processes : WF_vars(Step(p))
  /\ WF_vars(Gate)
  /\ WF_vars(Refresh)
  /\ SF_vars(ReaderAsks)

-----------------------------------------------------------------------------
(* What is checked, and proved in PriceCacheProofs. *)

States == {"absent", "torn", "whole"}

TypeOK ==
  /\ today \in Days
  /\ market \in [Symbols -> Bars]
  /\ late \in [Symbols -> SUBSET Days]
  /\ file \in [Symbols -> [state : States, bars : Bars]]
  /\ manifest \in [state : States, dates : [Symbols -> 0 .. LastDay]]
  /\ pc \in [Processes -> {"idle", "manifest", "inspect", "rebuilding", "report", "load",
                           "update", "updating", "fetch", "merge", "write", "writing"}]
  /\ symbol \in Symbols \cup {NoSymbol}
  /\ purpose \in {"last_date", "update"}
  /\ todo \in [Processes -> SUBSET Symbols]
  /\ dates \in [Processes -> [Symbols -> 0 .. LastDay]]
  /\ bars \in Bars
  /\ crashes \in 0 .. MaxCrashes

Whole(s) == file[s].state = "whole"

\* The manifest may lag behind a file but never runs ahead of it, whatever
\* rebuilds, races and crashes: a last date that is too late would leave days
\* unfetched for ever.
ManifestNeverAhead ==
  \A s \in Symbols : Whole(s) => manifest.dates[s] <= LastDate(file[s].bars)

\* A file that reads has every bar up to its last date: no crash, race or late
\* manifest opens a gap in the history that incremental fetches extend.
NoGaps ==
  \A s \in Symbols : Whole(s) => Dates(file[s].bars) = 1 .. LastDate(file[s].bars)

\* A restated bar is corrected before it is too old to be fetched again: a bar
\* that was restated while it was within the overlap agrees with IBKR once it
\* has left it, whatever was fetched and written when ("so restatements are
\* picked up").
RestatementsArrive ==
  \A s \in Symbols : Whole(s) =>
    \A d \in Dates(file[s].bars) \ late[s] :
      d <= LastDate(file[s].bars) - Overlap => file[s].bars[d] = market[s][d]

\* "Price history is immutable - yesterday's adjusted close does not change - so
\* it is fetched once": what is not fetched again is still what IBKR has.
HistoryIsImmutable ==
  \A s \in Symbols : Whole(s) =>
    \A d \in Dates(file[s].bars) :
      d <= LastDate(file[s].bars) - Overlap => file[s].bars[d] = market[s][d]

\* What passed the data gate is still as good when load_matrix reads it: no
\* symbol that was ok is passed over in silence, or loaded with an older last
\* bar, whatever the refresher does between the two reads.
GateStillHolds ==
  pc["reader"] = "load" => \A s \in todo["reader"] :
    /\ file[s].state # "absent"
    /\ Whole(s) => LastDate(file[s].bars) >= dates["reader"][s]
                      /\ Cardinality(Dates(file[s].bars)) >= MinBars

\* Bars that were cached stay cached, and no bar goes back to an earlier version:
\* a file is only ever replaced by one with at least its bars, unless it is
\* being written or its writer has died ("New bars win on overlap").
BarsAreKept ==
  [][\A s \in Symbols : Whole(s) /\ file[s]' # file[s] =>
       file'[s].state = "torn" /\ pc'["refresher"] = "writing"
         /\ \A d \in Days : file[s].bars[d] <= bars[d]]_vars

\* A manifest that a crash left torn is rebuilt by the next process that reads
\* it, as long as every file reads ("manifest corrupt; rebuilding").
ManifestHeals ==
  manifest.state = "torn" ~>
    manifest.state = "whole" \/ \E s \in Symbols : file[s].state = "torn"
=============================================================================
