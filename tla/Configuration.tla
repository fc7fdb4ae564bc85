--------------------------- MODULE Configuration ---------------------------
(***************************************************************************)
(* src/config.py: how the processes of the system (init_db, refresh,       *)
(* approve, report) come by their configuration and by the path of their   *)
(* database, while somebody edits config.yaml and .env under them.         *)
(*                                                                         *)
(* A file is a record of the values some check or some property looks at:  *)
(* weights and exposure in percent, the limit offset in thousandths, the   *)
(* rate in tenths of a request a minute.  The other fields of the sections *)
(* have ranges of the same kind, or none.  A path is its directory and its *)
(* name; "." is the directory of a relative one.                           *)
(***************************************************************************)
EXTENDS Integers, FiniteSets

CONSTANTS
  Processes,
  Files,         \* what config.yaml may say
  Overrides,     \* what WM_DB_PATH may say
  Unset,         \* WM_DB_PATH is not set
  Root,          \* REPO_ROOT
  Directories,   \* where processes are started
  MaxEdits       \* bound: how often a file is edited

FileNames == {"operations.db"} \cup {value.name : value \in Overrides}

ASSUME ConfigurationAssumption ==
  /\ Files \subseteq [rate : Int, rankThreshold : Int, rankExit : Int, minWeight : Int,
                     maxWeight : Int, gross : Int, role : STRING, orderType : STRING, offset : Int]
  /\ Overrides \subseteq [dir : Directories \cup {"."}, name : FileNames]
  /\ Unset \notin Overrides
  /\ Root \in Directories
  /\ "." \notin Directories
  /\ MaxEdits \in Nat

NoConfig == [rate |-> 0]     \* the cache of load_config is empty

VARIABLES
  yaml,       \* config.yaml
  dotenv,     \* WM_DB_PATH in .env
  edits,
  settled,    \* since the start, .env and the shell have said the same thing
  pc,         \* where each process is: down, up, or inside load_config
  environ,    \* WM_DB_PATH in its environment
  cached,     \* what lru_cache holds
  configs,    \* the configurations load_config has returned to it
  opened      \* the database files it has opened

world   == <<yaml, dotenv, edits, settled>>
process == <<pc, environ, cached, configs, opened>>
cvars   == <<world, process>>

ConfigInit ==
  /\ yaml \in Files
  /\ dotenv \in Overrides \cup {Unset}
  /\ edits = 0
  /\ settled = TRUE
  /\ pc = [p \in Processes |-> "down"]
  /\ environ = [p \in Processes |-> Unset]
  /\ cached = [p \in Processes |-> NoConfig]
  /\ configs = [p \in Processes |-> {}]
  /\ opened = [p \in Processes |-> {}]

-----------------------------------------------------------------------------
(* Validation. *)

\* str.upper
Upper(type) == CASE type = "market" -> "MARKET" [] type = "limit" -> "LIMIT" [] OTHER -> type

DataCfg(c) == 0 < c.rate /\ c.rate <= 60

EntryCfg(c) == c.rankThreshold > 0

RiskCfg(c) == 0 < c.gross /\ c.gross <= 100

AiCfg(c) == c.role = "veto_only"

ExecutionCfg(c) == c.offset >= 0 /\ Upper(c.orderType) # "MARKET"

SizingCfg(c) == 0 < c.maxWeight /\ c.maxWeight <= 100 /\ 0 <= c.minWeight /\ c.minWeight <= 100

\* Mutant: an exit rank equal to the entry rank passes.
ModelPostInitLax(c) == c.rankExit >= c.rankThreshold /\ c.minWeight < c.maxWeight

\* The checks across sections.
ModelPostInit(c) == c.rankExit > c.rankThreshold /\ c.minWeight < c.maxWeight

Accepted(c) ==
  /\ DataCfg(c) /\ EntryCfg(c) /\ SizingCfg(c) /\ RiskCfg(c) /\ AiCfg(c) /\ ExecutionCfg(c)
  /\ ModelPostInit(c)

-----------------------------------------------------------------------------
(* Loading. *)

\* The shell may export the variable.
Start(p) ==
  /\ pc[p] = "down"
  /\ \E value \in Overrides \cup {Unset} :
       /\ environ' = [environ EXCEPT ![p] = value]
       /\ settled' = (settled /\ value \in {Unset, dotenv})
  /\ pc' = [pc EXCEPT ![p] = "up"]
  /\ UNCHANGED <<yaml, dotenv, edits, cached, configs, opened>>

Return(p, c) == configs' = [configs EXCEPT ![p] = @ \cup {c}]

\* lru_cache: a call after a successful one reads nothing.
LoadCached(p) ==
  /\ pc[p] = "up" /\ cached[p] # NoConfig
  /\ Return(p, cached[p])
  /\ UNCHANGED <<world, pc, environ, cached, opened>>

\* Mutant: no lru_cache.
LoadDotenvEachTime(p) ==
  /\ pc[p] = "up"
  /\ environ' = [environ EXCEPT ![p] = IF @ = Unset THEN dotenv ELSE @]
  /\ pc' = [pc EXCEPT ![p] = "loading"]
  /\ UNCHANGED <<world, cached, configs, opened>>

\* load_dotenv, which does not override what is set ...
LoadDotenv(p) ==
  /\ pc[p] = "up" /\ cached[p] = NoConfig
  /\ environ' = [environ EXCEPT ![p] = IF @ = Unset THEN dotenv ELSE @]
  /\ pc' = [pc EXCEPT ![p] = "loading"]
  /\ UNCHANGED <<world, cached, configs, opened>>

\* ... and the file itself, if it validates.
LoadFile(p) ==
  /\ pc[p] = "loading" /\ Accepted(yaml)
  /\ cached' = [cached EXCEPT ![p] = yaml]
  /\ Return(p, yaml)
  /\ pc' = [pc EXCEPT ![p] = "up"]
  /\ UNCHANGED <<world, environ, opened>>

\* The process ends: a main that returns, or a ValueError that nobody catches.
Exit(p) ==
  /\ pc[p] = "up" \/ (pc[p] = "loading" /\ ~ Accepted(yaml))
  /\ pc' = [pc EXCEPT ![p] = "down"]
  /\ environ' = [environ EXCEPT ![p] = Unset]
  /\ cached' = [cached EXCEPT ![p] = NoConfig]
  /\ configs' = [configs EXCEPT ![p] = {}]
  /\ opened' = [opened EXCEPT ![p] = {}]
  /\ UNCHANGED world

DefaultDb == [dir |-> ".", name |-> "operations.db"]

\* Mutants: relative to the current directory, or left as it is.
AnchorToCwd(raw, cwd) == IF raw.dir = "." THEN [raw EXCEPT !.dir = cwd] ELSE raw

AnchorNot(raw, cwd) == raw

\* "Resolve a relative path against the repo root, not the current directory."
Anchor(raw, cwd) == IF raw.dir = "." THEN [raw EXCEPT !.dir = Root] ELSE raw

\* cfg.db_path, evaluated afresh each time, wherever the process is.
OpenDb(p) ==
  /\ pc[p] = "up" /\ configs[p] # {}
  /\ \E cwd \in Directories :
       LET raw == IF environ[p] = Unset THEN DefaultDb ELSE environ[p] IN
         opened' = [opened EXCEPT ![p] = @ \cup {Anchor(raw, cwd)}]
  /\ UNCHANGED <<world, pc, environ, cached, configs>>

EditYaml ==
  /\ edits < MaxEdits
  /\ yaml' \in Files \ {yaml}
  /\ edits' = edits + 1
  /\ UNCHANGED <<dotenv, settled, process>>

EditDotenv ==
  /\ edits < MaxEdits
  /\ dotenv' \in (Overrides \cup {Unset}) \ {dotenv}
  /\ edits' = edits + 1
  /\ settled' = FALSE
  /\ UNCHANGED <<yaml, process>>

ConfigNext ==
  \/ \E p \in Processes :
       Start(p) \/ LoadCached(p) \/ LoadDotenv(p) \/ LoadFile(p) \/ OpenDb(p) \/ Exit(p)
  \/ EditYaml \/ EditDotenv

-----------------------------------------------------------------------------
(* What is checked, and proved in TradingProofs. *)

ConfigTypeOK ==
  /\ yaml \in Files
  /\ dotenv \in Overrides \cup {Unset}
  /\ edits \in 0 .. MaxEdits /\ settled \in BOOLEAN
  /\ pc \in [Processes -> {"down", "up", "loading"}]
  /\ environ \in [Processes -> Overrides \cup {Unset}]
  /\ cached \in [Processes -> Files \cup {NoConfig}]
  /\ configs \in [Processes -> SUBSET Files]
  /\ opened \in [Processes -> SUBSET [dir : Directories, name : FileNames]]

\* What the rest of the system needs of a configuration, said without the
\* validators: the limiter can be built, and stays below IBKR's 60 requests in
\* ten minutes (what becomes of a rate below one a minute is AcquireReturns of
\* PacingLimiter); no rank is both entered and left, and a holding that slips
\* by one place is kept; some weight fits between the bounds; exposure is
\* never above the account.
Usable(c) ==
  LET entered(rank) == rank <= c.rankThreshold
      left(rank)    == rank > c.rankExit IN
    /\ c.rate > 0 /\ c.rate <= 60
    /\ \E rank \in 1 .. c.rankThreshold : entered(rank)
    /\ \A rank \in 1 .. c.rankThreshold : entered(rank) => ~ left(rank) /\ ~ left(rank + 1)
    /\ \E weight \in 1 .. 100 : c.minWeight <= weight /\ weight <= c.maxWeight
    /\ c.gross <= 100

\* No process ever works with a configuration the rest cannot live with,
\* however config.yaml is edited.
ConfigsAreUsable ==
  \A p \in Processes : \A c \in configs[p] : Usable(c)

\* "Cached — call freely": a process that asks again gets the configuration it
\* had, though config.yaml and .env were edited in between.
OneConfigPerProcess ==
  \A p \in Processes : Cardinality(configs[p]) <= 1

\* What `make serve` opens, from the repository's root.
Served == [dir |-> Root, name |-> "operations.db"]

\* No "second, empty database": a process uses one file, from whatever
\* directory, and as long as .env and the shells agree all use the same, which
\* is the one the server shows unless it is overridden.
OneDatabase ==
  /\ \A p \in Processes : Cardinality(opened[p]) <= 1
  /\ settled =>
       /\ Cardinality(UNION {opened[p] : p \in Processes}) <= 1
       /\ dotenv = Unset => \A p \in Processes : opened[p] \subseteq {Served}
=============================================================================
