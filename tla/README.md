# A TLA+ model of the trading scaffold

This directory specifies the parts of the repository that keep state, checks
them with TLC on small instances and proves the central results with TLAPS for
instances of any size. Every definition is written from the source; the comments
of the modules name the functions, and `PROJECT.json` the lines.

## 1. The system

| Component | State | Operations | Interaction |
|---|---|---|---|
| **Approval queue** `datasette/plugins/approval.py` | tables `proposals`, `approvals` | `approve_proposal`, `approve_all` | coroutines of one event loop; reads on a pool of threads; writes queued for Datasette's single write thread |
| **Kill switch, journal** (same file) | tables `system_state`, `journal` | `halt_system`, `journal_entry` | one write statement each |
| **Database creation** `scripts/init_db.py`, `db/schema.sql` | tables and views | `main`: `executescript`, seed, commit | a process of its own, beside the server |
| **Pacing limiter** `src/data/pacing.py` | timestamps, tokens, cooldown | `acquire`, `enter_cooldown`, `stats` | threads that share a lock |
| **Price cache** `src/data/cache.py` | one parquet file per symbol, a manifest | `last_date`, `merge`, `write`, `rebuild_manifest`; `staleness_report`, `load_matrix` | processes that share files, without locks |
| **Request guards** `datasette/plugins/host_guard.py`, `same_origin_only` | none of their own; the ASGI messages sent | `host_guard_wrapper`, `register_routes`, `_is_same_origin` | wrap every request, before the handlers |
| **Configuration** `src/config.py` | the cache of `load_config`, `os.environ` | `load_config`, the validators, `_anchor`, `db_path` | every process loads its own, from files anyone may edit |
| **Broker protocol** `src/execution/broker.py` | none | `OrderRequest`, `marketable_limit`, `get_position`, `held_symbols` | the guards of orders; called with a configuration |
| Refresh, signals, rules, AI veto, risk engine, orders, backtest, report | none | stubs: `raise NotImplementedError` | — |

What is hard here, by component, and what makes it correct:

* **Approval queue.** Two requests, or one request and another process, act
  between a handler's read and its write; a statement fails or the server dies
  (`make serve` uses `--reload`) between the UPDATE and the INSERT. Correct
  means: status and audit row never part, a risk rejection holds at write time,
  a decision is final, the bulk path is all or nothing, overrides are counted
  exactly, and an answer is the truth.
* **Kill switch and database.** `init_db` commits statement by statement, may
  overlap with itself and be killed. Correct means: a re-run mends, loses
  nothing, and never starts trading again after a halt.
* **Pacing limiter.** Threads wake together; time passes between a check and its
  use; a cooldown is entered in between. Correct means IBKR's own rule: at most
  60 requests in any 10 minutes, none in a cooldown, and `acquire` returns.
* **Price cache.** Files are truncated and then filled; two processes write the
  manifest. Correct means: the manifest never promises bars that are not there,
  histories have no gaps, restated bars get corrected, and what passed the data
  gate is as good when it is loaded, although the gate reads each file twice and
  the refresher may write it in between.
* **Request guards.** Three checks in two files, on headers that different
  browsers send differently; names that look like this machine's. Correct means:
  only clients at home make a handler run, all of them can, every call is
  answered once.
* **Configuration and orders.** Files are edited while processes run, relative
  paths depend on where a process is, a validator and `OrderRequest` both judge
  the order type, prices are rounded. Correct means: one usable configuration
  and one database, limits that fill without chasing, positions on which the helpers
  agree.

The complete list, with lines, is under `hazards` in `PROJECT.json`.

## 2. The modules

| Module | Models | Instances |
|---|---|---|
| `Approval` | approval queue | `MCApproval` |
| `DecisionLedger` | what the queue promises, in one atomic step per decision; `Approval` implements it | checked through `MCApproval` |
| `ApprovalProofs`, `ApprovalRefinement`, `ApprovalAnswers` | theorems about `Approval` | |
| `PacingLimiter` | pacing limiter | `MCPacing` |
| `PacingProofs` | theorems about `PacingLimiter` | |
| `PriceCache` | price cache, the refresher's and a reader's use of it | `MCPriceCache` |
| `PriceCacheProofs` | theorems about `PriceCache` | |
| `OperationsDb` | `init_db`, halt and journal | `MCOperationsDb` |
| `OperationsDbProofs` | theorems about `OperationsDb` | |
| `Requests` | host guard, routes, same-origin check, method check | `MCRequests` |
| `RequestsProofs` | theorems about `Requests` | |
| `Configuration` | `load_config`, validators, path of the database | through `Trading` |
| `Trading` | composes `Configuration` with the helpers of `broker.py` | `MCTrading` |
| `TradingProofs` | theorems about `Configuration` and `Trading` | |

Definitions marked *Mutant* in a comment are not part of the model. Each is a
plausible slip in the definition after it; put in its place, it makes one of the
properties fail, which shows that the property watches that code.

### Approval

A request is a coroutine: `pc[r]` is the await it has reached. `Receive` is the
part before the first await, `FetchProposal` the SELECT, `CheckProposal` all of
the Python between the SELECT and `execute_write_fn` (`Verdict` lists the early
returns in their order), `SelectClean` and `EnqueueApproveAll` the same for the
bulk path, `Respond` and `CountPending` what follows the write.
The write thread takes one function at a time (`BeginWrite`); inside it every
UPDATE (`FlipStatus`, `SkipRow`, `RefuseRow`) and every INSERT
(`InsertApproval`) is a step, `Commit` and `WriteFails` are the two ends of
`with conn:`. While a transaction is open, `workProposals` and `workApprovals`
are what it sees, `proposals` and `approvals` what is committed; `locked` is
SQLite's write lock, taken by the first UPDATE. `Crash` kills the server.
`Propose` inserts proposals and `Reassess` refreshes `risk_status` and `ai_flag`
of a pending one, from another process; the propose step is not written yet, so
both are external. `approve_all`'s ids are a set: its loop has no ORDER BY.

Abstracted: a quantity is absent, text, nonpositive, positive or nan; a reason is
there or not; timestamps and JSON bodies are left out. The status `EXPIRED`,
which a comment of `schema.sql` names, is not modelled because nothing sets it.

### PacingLimiter

There is no clock variable: a timestamp is an age, a deadline is the time left,
and both saturate where the code can no longer tell values apart, so the state
space is finite although time runs for ever. `Tick` may happen between any two
steps, also while a thread holds the lock between `_wait_needed` and `_consume`,
where the code reads `time.monotonic()` twice. `WaitForCooldown`,
`WaitForWindow` and `CheckTokens` are the returns of `_wait_needed`. Tokens are
counted in units so that fractions are exact; `time.sleep` sleeps at least as
long as asked. An age is a whole number of ticks, so `_evict`'s strict comparison
(`<`) is `age > Window`. `issued` is IBKR's view and no variable of the code. It
counts a request when it is granted: the time between `acquire` and the request
itself belongs to the caller, which is not written yet.

### PriceCache

A file is absent, torn or whole; `to_parquet` and `write_text` are two steps
each, truncate and fill, and a crash may fall between them. Two writers of the
manifest may leave one's text with the tail of the other's, which does not
parse (`FillManifest`). Bars are versions, so that it shows when IBKR restates
one. It does so in two ways: a recent bar on its own (`Restate`), and all bars at
once after a split or a dividend (`Adjust`), because the series asked for is
`ADJUSTED_LAST`. `Overlap` stands for the 5 days of `next_fetch_duration`. `late`
is no variable of the code: it remembers the bars that were restated when they
were too old to be fetched again, so that properties can tell them from those
that the overlap is for. Every day has a bar: weekends are left out. One
refresher and one reader run at a time. The reader either asks for last dates
(`ReaderAsks`, which may rebuild the manifest) or runs the data gate: it reports
on each file (`ReportFile`; `IsOk` is "neither missing nor stale nor short"),
then loads the symbols that were ok (`LoadColumn`), which reads each file again.
`load_matrix`'s choice of field and start date is left out: it selects from the
bars that are read and changes nothing on disk.

### OperationsDb

`Script` is `schema.sql` in its order; `Execute` runs one statement,
`ExecuteFails` is "view already exists". `BeginSeed` and `Commit` are the seed's
transaction, which holds the write lock. Modelled are the tables the server
writes and `runs`, and two of the four views. `Crash` also stands for a run that
gives up with "database is locked". `HaltSystem` and `JournalEntry` are single
statements; a statement on a missing table is an error and changes nothing.

### Requests

The guards see headers only, but what they are for is about the sender. So a
request of the model carries both: who sent it, from which site to which name,
and the headers that a script, the address bar or a page in an old or new
browser derives from that; the properties compare the outcome with the sender,
never with the headers. Header texts are sequences of tokens, because the
hazard is in the parsing (`[::1]:8001`, a name that only begins like this
machine's). `Pass`, `RefuseStart`, `RefuseBody` and `RefuseWebsocket` are the
wrapper, `Handle` is `same_origin_only` with the method check every handler
begins with, `Datasette` is all that is not one of the four routes. What a
handler does afterwards is `Approval` and `OperationsDb`. How browsers fill in
`Sec-Fetch-Site` and `Origin` is external. A name is words without colons and
brackets or one bracketed text, a port is nothing or a colon and a number
(`NamesAssumption`): what the host of a URL can be. Left out: repeated headers, blanks
around a Host, the scheme of an Origin.

### Configuration and Trading

A process is started with or without `WM_DB_PATH` in its environment
(`Start`), calls `load_config` any number of times (`LoadDotenv`, `LoadFile`, and
`LoadCached` once `lru_cache` holds an answer), and opens its database from any
directory (`OpenDb`, `Anchor`). `EditYaml` and `EditDotenv` happen at any time.
A file of the model is a record of the values whose checks something else relies
on; `Accepted` conjoins the validators of those, `ModelPostInit` the checks
across sections. `Trading` lets a process that holds a configuration build an
order or look up a position. `round` of a float that should be a tie may go
either way, so `Rounded` is a set. The order type and the offset an order uses
are those of the configuration: the caller is not written yet, and a comment of
`config.py` says so ("Use LIMIT with limit_offset_pct").

## 3. What is checked

| Run | Shows | Bounds | States |
|---|---|---|---|
| `MCApproval` | `OneRowPerDecision`, `WarningsHold`, `TransactionInvariant`, `AnswersAreTrue`, `ConflictMeansDecided`, `OverridesAreExact`, `HistoryIsFinal`, `AllOrNothing`, refinement of `DecisionLedger` | 2 proposals, 2 requests, 1 refresh of a pending row | 982 k |
| `MCApprovalLive` | `EveryRequestAnswered` | 1 proposal, 2 requests | 45 k |
| `MCPacing` | `WindowRespected`, `NothingForgotten`, `BurstBounded`, `NoGrantInCooldown`, `NobodyWaitsInVain` | 2 threads, 3 grants in 4 ticks, cooldowns and timeouts, 1 violation | 232 k |
| `MCPriceCache` | `ManifestNeverAhead`, `NoGaps`, `GateStillHolds`, `RestatementsArrive`, `BarsAreKept`, `ManifestHeals` | 1 symbol, 4 days, overlap 2, every bar restated once, 1 crash | 448 k |
| `MCOperationsDb` | `OverlappingRunsComplete`, `DoneMeansSeeded`, `HaltHolds`, `HistoryIsKept` | 2 processes, 3 starts, 1 crash | 37 k |
| `MCRequests` | `OnlyOwnClientsAct`, `OnlyLocalNamesAreAnswered`, `OwnClientsAreServed`, `AnsweredOnce` | 7 names, 4 of them this machine's, 3 port texts, every sender, method and route | 30 k |
| `MCTrading` | `ConfigsAreUsable`, `OneConfigPerProcess`, `OneDatabase`, `LimitsAreMarketable`, `PositionsAgree` | 2 processes, 2 edits, 5 prices | 324 k |

Why the bounds are enough to be interesting: two requests make every race of the
approval queue (single against single, single against bulk, bulk against bulk),
two proposals make a bulk approval that is half done; with three grants in the
window both mechanisms of the limiter bind in turn, and a second thread is enough
to wake up inside the gap between check and consumption; four days with an
overlap of two let bars leave the overlap after having been restated, on their
own or with all others; one symbol is enough for the races, because files of two
symbols meet in the manifest only, and `PriceCacheProofs` has no bound on their
number; three starts let
one run of `init_db` overlap another and a third repair a killed one. The
request instances are exhaustive in the kinds of sender and in what the parsing
distinguishes. Two edits let a file change before and after a process has loaded
it and change back; the prices include the smallest ones and ties of the
rounding, the configurations one on each side of every limit that is checked.
`Quiet` in `Trading` is a bound too: the helpers depend on their arguments alone,
so they are called before anything is edited.
Symmetry is used on ids in safety runs only.

Deadlock is checked except in the approval runs, where the server may come to
rest with every request answered, and in `MCRequests`, where a run is the life
of one request. `Requests` has no type invariant of its own: it has four small
variables, and `AnsweredOnce` says more about them.

### Runs that find a disagreement

Five runs check what a comment or a doc says and find an execution in which the
code does something else; `findings` in `PROJECT.json` quotes the lines.

| Run | The code |
|---|---|
| `MCApprovalNan` | accepts `modified_quantity=nan` and stores NULL |
| `MCApprovalStaleFlag` | approves a proposal flagged since it was read, with override 0 and no reason |
| `MCPacingSlowRate` | never grants anything when the rate is below 1 per minute: the first refill clips the initial token to the capacity |
| `MCPriceCacheAdjusted` | takes cached history for immutable, but asks for adjusted prices: after a split or a dividend the bars before the overlap stay as they were |
| `MCOperationsDbHalt` | acknowledges a halt that changed no row; the seed then enables trading |

Because of the second, the exactness of overrides is an invariant only as long as
nobody has refreshed a pending row (`OverridesAreExact`), and so is what a 409
says (`ConflictMeansDecided`).

A sixth disagreement is one in which the code does better than its comment.
`pacing.py:19-21` says that a bucket idle for an hour "has a full reserve and will
happily fire 60 requests in ten seconds", and `:15-17` that the sliding window is
there for that. The bucket holds no more than min(5, requests_per_minute) tokens,
so with the shipped 6 per minute it fires 7 at most: that is `BurstBounded`, which
holds and contradicts the comment. The window is needed all the same, because a
full bucket and 6 per minute add up to 65 in ten minutes.

More things the models show and no run insists on: a crash inside
`to_parquet` leaves a price file that `merge` cannot read, so that the symbol
stays as it is until somebody removes the file (`ManifestHeals` therefore
excepts it); a reader's rebuild of the
manifest can put an old date over a newer one, so `last_date` may lag behind the
file until the symbol's next write (`ManifestNeverAhead` bounds the damage to
bars fetched twice); the journal takes a `run_id` that no run has, because
the `PRAGMA foreign_keys` of `schema.sql` concerns `init_db`'s connection only;
and both guards against market orders, `_never_market` and `OrderRequest`, know
the word MARKET only: a type such as IBKR's own `MKT` passes both, and without a
price. Which type an order gets is up to callers that are not written yet, so no
property is stated of it: of the two guards alone it would only repeat them. A
500 that `approve_all` answers because its last count failed says nothing of the
approval, which happened: `AnswersAreTrue` excepts it.

### Fairness

* `Approval!FairSpec`: weak fairness of each handler and of the write thread: the
  event loop runs what is ready and Datasette's write thread takes what is
  queued. Clients, failures, crashes and other processes owe nothing.
* `PacingLimiter!FairSpec`: time goes on, and a thread that can take a step does.
  That one given caller returns is not so: several may overtake each other at the
  lock for ever, and nothing in the code prevents that. `NobodyWaitsInVain` says
  what does hold with two threads: as long as anybody waits, calls of somebody
  go on returning, also after cooldowns. `AcquireReturns`, for one thread, is
  what the run `MCPacingSlowRate` refutes.
* `PriceCache!FairSpec`: a process that has begun goes on, and someone asks for a
  last date again and again: `SF_vars(ReaderAsks)`, because the reader that is
  idle may also pass the data gate, and does not do so for ever. The healing of
  the manifest happens in the next call, so without a next call there is none.

## 4. What is proved

All for arbitrary constants under the `ASSUME`s of the modules.

* `ApprovalProofs!TypeCorrectness`: `Spec => []TypeOK`. To be inductive it needs
  `InputsAreKept`: a request past its first checks, in the queue or on the write
  thread, holds an input with one of the three decisions, and while the thread is
  idle no UPDATE waits for its INSERT.
* `ApprovalProofs!TransactionInvariance`, `EveryDecisionHasOneRow`,
  `WarningsAlwaysHold`. `OneRowPerDecision` is not inductive: between the UPDATE
  and the INSERT the transaction's own view violates it. `TransactionInvariant`
  states both, with the row of `flipped` excepted in the transaction's view, and
  adds that this view extends what is committed; then `Commit` preserves it
  because `flipped` is `NoProposal` there, and `Propose` and `Reassess` because
  they cannot run while the write lock is held.
* `ApprovalProofs!HistoryNeverChanges`: the action property from the same
  invariant. Only `Commit` changes `approvals`, to a view that extends it.
* `ApprovalRefinement!QueueImplementsLedger`: `Spec => LedgerIsImplemented`, and
  `ApproveAllIsAllOrNothing`. Both are about `Commit`. `Draft` adds to the
  invariant that the open transaction's view differs from the committed tables by
  decisions on pending proposals and by rows of the request that owns the write
  thread, and that it has dealt with every id outside `todo`; `Seated` that a
  request is in the queue once and has written nothing before its transaction is
  over. A `Commit` is then `Decide` for the proposals whose row it replaces, each
  by the decision of the one row that `Accounted` finds for it; `Propose` and
  `Reassess` are `Assess`, all else a stutter.
* `ApprovalAnswers!AnswersAreAlwaysTrue`, `ConflictsMeanDecided`,
  `OverridesAreAlwaysExact`. An answer is given long after the facts it is about,
  so the invariant follows each request: `Told` and `Kept` say what it has counted
  and committed at each await, `Shown` that what `CheckProposal` read and nobody
  has refreshed still stands, unless the proposal has been decided since. `Thread`
  follows the function on the write thread: its count is the number of rows it has
  added to its own view, which `Commit` publishes and a failure discards.
* `PacingProofs!PacingInvariance`, `WindowIsRespected`,
  `NoGrantDuringCooldown`. `Len(issued) <= Max` is not inductive: it needs
  `NothingForgotten`, which says that what IBKR counts is a suffix of what the
  limiter remembers. Eviction keeps it because it is by the same limit and both
  are ordered; `Consume` because the thread holds the lock and the length is
  below `Max` since its check.
* `PacingProofs!BurstsAreBounded`. The bound says nothing of the tokens, and a
  thread may consume long after its check, so it is not inductive. `Smooth` adds,
  to the grants of the last `a` ticks, a token for the thread between its check
  and its consumption (`Spoken`: it is as good as granted) and all that could be
  granted at once (`Reserve`: the tokens left and what the time since the last
  refill adds, up to the capacity). This sum grows by at most `Refill` when `a`
  does, and a grant only moves a token from one term to another.
* `PriceCacheProofs!CacheInvariance`, `ManifestIsNeverAhead`,
  `HistoriesHaveNoGaps`, `RestatementsAlwaysArrive`, `GateAlwaysHolds`,
  `CachedBarsAreKept`. All rest on `Held(s)`, the last date that the file of `s`
  has or will have when it is written: it only grows, so any date that a process
  or the manifest got hold of, however long ago, is not ahead of the file
  (`Claims`). A fetch that starts there minus the overlap therefore joins on to
  what is cached (`Joins`), whatever was written in between, and `merge` makes a
  history without a gap of the two (`Complete`). `Complete` also says that a bar
  before the overlap is IBKR's unless it is in `late`, which makes
  `RestatementsAlwaysArrive` hold whatever IBKR restates; what the exception
  costs is what `MCPriceCacheAdjusted` shows. Versions only grow at IBKR, and what
  was fetched is no older than what an earlier fetch had put in the file, so no
  write goes back in time (`CachedBarsAreKept`). `Passed` carries what the gate
  has seen to the second read.
* `OperationsDbProofs!DoneRunsAreSeeded`, `HaltsHold`, `HistoryStays`. The
  invariant `Progress` adds to `DoneMeansSeeded` what a run has achieved on its
  way: every table up to its statement is there, and no statement of any run
  takes a table away, because the script drops views only.
* `OperationsDbProofs!OverlapsAreHarmless`. A run dies at a view that another has
  just made, so that none of the runs need get to the end that the code gives
  them. `Relay` says that whatever is missing somebody is still going to make:
  the first view, and then whoever made it the second, and then the seed; a run
  that fails at a view leaves behind the one that made it.
* `OperationsDbProofs!TypesAreKept`, `PacingProofs!PacingTypes`,
  `TradingProofs!TradingTypes`: the type invariants, from the same inductive
  invariants.
* `TradingProofs`: `ConfigurationsAreUsable`, `OneConfiguration` and
  `OneDatabaseForAll` need an invariant that ties what a process has returned
  to its cache (every configuration it has is the cached one, which was
  accepted), and what it has opened to its environment, which does not change
  after `load_dotenv`; while files and shells agree, that is the value in `.env`
  or the default. `LimitsAreAlwaysMarketable` is arithmetic, for every price and
  offset; `PositionsAlwaysAgree` compares two definitions over all pairs of rows.

* `RequestsProofs!CallsAreAnsweredOnce`, `OnlyLocalNamesGetAnswers`,
  `OnlyOwnClientsEverAct`, `OwnClientsAreAlwaysServed`. The run tries seven names;
  the theorems hold for every set of names and ports a URL may have. Their core
  is `NameIsFound`: from a name with any port behind it `HostWithoutPort` finds
  that name, in lower case, so the comparison is with the name and nothing longer.
  `Way` says what has been sent at each point, and `Arrived` what the headers of
  each kind of sender can be.

With this every invariant and every action property of the passing runs is a
theorem. Only model-checked are the liveness properties (`EveryRequestAnswered`,
`NobodyWaitsInVain`, `ManifestHeals`), because the prover knows neither fairness
nor `ENABLED`, and the five disagreements, which are executions.

`tlapm` is to be run on `ApprovalProofs`, `ApprovalRefinement`,
`ApprovalAnswers`, `PacingProofs`, `PriceCacheProofs`, `OperationsDbProofs`,
`RequestsProofs` and `TradingProofs`, `tlc -config X.cfg` on the MC module of a
run.

## 5. Not modelled

Stubs (refresh beyond its calls of the cache, signals, rules, AI veto, risk
engine, orders, backtest, report): every function of theirs raises
`NotImplementedError`, so there is no code to be faithful to, and the larger
part of `src/` is of this kind. Their results enter as inputs (`risk_status`,
`ai_flag`). Canned queries, pages and most views only read.

Of the configuration: the ranges of fields that no other part of the code
relies on yet, `require_secret` and the printout. Of the broker protocol: the
abstract methods, and `gross_exposure` and `spread_bps`, which nothing calls
yet. `limit_offset_pct` has no upper bound in the code; whether it should is not
said anywhere, so no property does.

## 6. Plan

1. *Done.* `Approval` with its ledger, `PacingLimiter`, `PriceCache` with the
   data gate, `OperationsDb`, `Requests`, `Configuration` and `Trading`.
2. *Done.* The proofs of all their safety properties, and the refinement.
3. `Server`: `Approval`, halt and journal on one write thread, beside `init_db`
   on the same file.
4. `Refresh`: the limiter and the cache composed, one `acquire` per fetch,
   cooldowns, a grant that is used late, once `refresh.py` is written.
