--------------------------- MODULE TradingProofs ---------------------------
(***************************************************************************)
(* Theorems about Trading, and so about Configuration, whose steps are     *)
(* steps of it, with any number of processes, files, directories and       *)
(* edits.                                                                  *)
(*                                                                         *)
(* The inductive invariant relates what a process has got so far to what   *)
(* it would get now: a configuration it was given is the cached one, and   *)
(* the database it opened is the one its environment names, which cannot   *)
(* change any more once something is cached.                               *)
(***************************************************************************)
EXTENDS Trading, TLAPS, FiniteSetTheorems

\* What WM_DB_PATH names, wherever the process is.
Database(value) == Anchor(IF value = Unset THEN DefaultDb ELSE value, Root)

Loaded(p) == cached[p] # NoConfig

InvOf(p) ==
  /\ Loaded(p) => Accepted(cached[p])
  /\ Loaded(p) => pc[p] = "up"
  /\ configs[p] \subseteq {cached[p]}
  /\ ~ Loaded(p) => configs[p] = {}
  /\ configs[p] = {} => opened[p] = {}
  /\ opened[p] \subseteq {Database(environ[p])}
  /\ settled => environ[p] \in {Unset, dotenv}
  /\ settled /\ (pc[p] = "loading" \/ Loaded(p)) => environ[p] = dotenv

ConfigInv == ConfigTypeOK /\ \A p \in Processes : InvOf(p)

-----------------------------------------------------------------------------
(* The path of the database does not depend on the current directory. *)

\* The path of the database, wherever a process is, is the one below the
\* repository's root (_anchor).
LEMMA AnchorIgnoresCwd ==
  ASSUME NEW raw, NEW cwd
  PROVE  Anchor(raw, cwd) = Anchor(raw, Root)
BY DEF Anchor

\* The path of the database is absolute, in a known directory (db_path).
LEMMA DatabaseType ==
  ASSUME NEW value \in Overrides \cup {Unset}
  PROVE  Database(value) \in [dir : Directories, name : FileNames]
<1>1. CASE value = Unset
  <2>1. Database(value) = [dir |-> Root, name |-> "operations.db"]
    BY <1>1 DEF Database, Anchor, DefaultDb
  <2>2. Root \in Directories
    BY ConfigurationAssumption
  <2>3. "operations.db" \in FileNames
    BY DEF FileNames
  <2>4. QED BY <2>1, <2>2, <2>3
<1>2. CASE value # Unset
  <2>1. value \in [dir : Directories \cup {"."}, name : FileNames]
    BY <1>2, ConfigurationAssumption
  <2>2. CASE value.dir = "."
    BY <1>2, <2>1, <2>2, ConfigurationAssumption DEF Database, Anchor
  <2>3. CASE value.dir # "."
    BY <1>2, <2>1, <2>3 DEF Database, Anchor
  <2>4. QED BY <2>2, <2>3
<1>3. QED BY <1>1, <1>2

\* An accepted configuration is not the empty cache (ibkr_requests_per_minute
\* is positive).
LEMMA AcceptedIsSome ==
  ASSUME NEW c, Accepted(c)
  PROVE  c # NoConfig
BY DEF Accepted, DataCfg, NoConfig

-----------------------------------------------------------------------------
(* The steps. *)

\* Before any process runs nothing is loaded or opened.
LEMMA ConfigInvInit == ConfigInit => ConfigInv
<1> SUFFICES ASSUME ConfigInit PROVE ConfigInv
  OBVIOUS
<1>1. MaxEdits \in Nat
  BY ConfigurationAssumption
<1>2. ConfigTypeOK
  BY <1>1 DEF ConfigInit, ConfigTypeOK
<1>3. ASSUME NEW p \in Processes PROVE InvOf(p)
  BY DEF ConfigInit, InvOf, Loaded
<1>4. QED BY <1>2, <1>3 DEF ConfigInv

\* What a step of the configuration leaves alone.
LEMMA OthersKeepInv ==
  ASSUME NEW q \in Processes, InvOf(q),
         pc'[q] = pc[q], environ'[q] = environ[q], cached'[q] = cached[q],
         configs'[q] = configs[q], opened'[q] = opened[q],
         settled' => settled /\ dotenv' = dotenv
  PROVE  InvOf(q)'
BY DEF InvOf, Loaded

\* The invariant is kept by every step of Configuration (load_config, db_path,
\* and the edits).
LEMMA ConfigInvStep == ConfigInv /\ [ConfigNext]_cvars => ConfigInv'
<1> SUFFICES ASSUME ConfigInv, [ConfigNext]_cvars PROVE ConfigInv'
  OBVIOUS
<1> USE DEF ConfigInv
<1>1. ASSUME NEW p \in Processes, Start(p) PROVE ConfigInv'
  <2>1. ConfigTypeOK'
    BY <1>1 DEF Start, ConfigTypeOK
  <2>2. InvOf(p)'
    BY <1>1 DEF Start, ConfigTypeOK, InvOf, Loaded
  <2>3. ASSUME NEW q \in Processes \ {p} PROVE InvOf(q)'
    BY <1>1, OthersKeepInv DEF Start, ConfigTypeOK
  <2>4. QED BY <2>1, <2>2, <2>3
<1>2. ASSUME NEW p \in Processes, LoadCached(p) PROVE ConfigInv'
  <2>1. ConfigTypeOK'
    BY <1>2 DEF LoadCached, Return, ConfigTypeOK, world
  <2>2. InvOf(p)'
    BY <1>2 DEF LoadCached, Return, ConfigTypeOK, InvOf, Loaded, world
  <2>3. ASSUME NEW q \in Processes \ {p} PROVE InvOf(q)'
    BY <1>2, OthersKeepInv DEF LoadCached, Return, ConfigTypeOK, world
  <2>4. QED BY <2>1, <2>2, <2>3
<1>3. ASSUME NEW p \in Processes, LoadDotenv(p) PROVE ConfigInv'
  <2>1. ConfigTypeOK'
    BY <1>3 DEF LoadDotenv, ConfigTypeOK, world
  <2>2. InvOf(p)'
    BY <1>3 DEF LoadDotenv, ConfigTypeOK, InvOf, Loaded, world
  <2>3. ASSUME NEW q \in Processes \ {p} PROVE InvOf(q)'
    BY <1>3, OthersKeepInv DEF LoadDotenv, ConfigTypeOK, world
  <2>4. QED BY <2>1, <2>2, <2>3
<1>4. ASSUME NEW p \in Processes, LoadFile(p) PROVE ConfigInv'
  <2>1. ConfigTypeOK'
    BY <1>4 DEF LoadFile, Return, ConfigTypeOK, world
  <2>2. InvOf(p)'
    <3>1. yaml # NoConfig
      BY <1>4, AcceptedIsSome DEF LoadFile
    <3>2. configs[p] = {} /\ opened[p] = {}
      BY <1>4 DEF LoadFile, InvOf, Loaded
    <3>3. QED BY <1>4, <3>1, <3>2 DEF LoadFile, Return, ConfigTypeOK, InvOf, Loaded, world
  <2>3. ASSUME NEW q \in Processes \ {p} PROVE InvOf(q)'
    BY <1>4, OthersKeepInv DEF LoadFile, Return, ConfigTypeOK, world
  <2>4. QED BY <2>1, <2>2, <2>3
<1>5. ASSUME NEW p \in Processes, Exit(p) PROVE ConfigInv'
  <2>1. ConfigTypeOK'
    BY <1>5 DEF Exit, ConfigTypeOK, world
  <2>2. InvOf(p)'
    BY <1>5 DEF Exit, ConfigTypeOK, InvOf, Loaded, world
  <2>3. ASSUME NEW q \in Processes \ {p} PROVE InvOf(q)'
    BY <1>5, OthersKeepInv DEF Exit, ConfigTypeOK, world
  <2>4. QED BY <2>1, <2>2, <2>3
<1>6. ASSUME NEW p \in Processes, OpenDb(p) PROVE ConfigInv'
  <2>1. opened' = [opened EXCEPT ![p] = @ \cup {Database(environ[p])}]
    BY <1>6, AnchorIgnoresCwd DEF OpenDb, Database
  <2>2. ConfigTypeOK'
    <3>1. Database(environ[p]) \in [dir : Directories, name : FileNames]
      BY DatabaseType DEF ConfigTypeOK
    <3>2. QED BY <1>6, <2>1, <3>1 DEF OpenDb, ConfigTypeOK, world
  <2>3. InvOf(p)'
    BY <1>6, <2>1 DEF OpenDb, ConfigTypeOK, InvOf, Loaded, world
  <2>4. ASSUME NEW q \in Processes \ {p} PROVE InvOf(q)'
    BY <1>6, <2>1, OthersKeepInv DEF OpenDb, ConfigTypeOK, world
  <2>5. QED BY <2>2, <2>3, <2>4
<1>7. CASE EditYaml
  <2>1. ConfigTypeOK'
    BY <1>7, ConfigurationAssumption DEF EditYaml, ConfigTypeOK, process
  <2>2. ASSUME NEW q \in Processes PROVE InvOf(q)'
    BY <1>7, OthersKeepInv DEF EditYaml, process
  <2>3. QED BY <2>1, <2>2
<1>8. CASE EditDotenv
  <2>1. ConfigTypeOK'
    <3>1. MaxEdits \in Nat
      BY ConfigurationAssumption
    <3>2. edits' \in 0 .. MaxEdits
      BY <1>8, <3>1 DEF EditDotenv, ConfigTypeOK
    <3>3. QED BY <1>8, <3>2 DEF EditDotenv, ConfigTypeOK, process
  <2>2. ASSUME NEW q \in Processes PROVE InvOf(q)'
    BY <1>8, OthersKeepInv DEF EditDotenv, process
  <2>3. QED BY <2>1, <2>2
<1>9. CASE UNCHANGED cvars
  BY <1>9 DEF cvars, world, process, ConfigTypeOK, InvOf, Loaded
<1>10. QED
  BY <1>1, <1>2, <1>3, <1>4, <1>5, <1>6, <1>7, <1>8, <1>9 DEF ConfigNext

\* A step of Trading is one of Configuration, or leaves it alone.
LEMMA TradingStep == [Next]_vars => [ConfigNext]_cvars
BY DEF Next, UseBroker, Forget, vars

\* The inductive invariant holds throughout (load_config, db_path).
THEOREM ConfigInvariance == Spec => []ConfigInv
<1>1. Init => ConfigInv
  BY ConfigInvInit DEF Init
<1>2. ConfigInv /\ [Next]_vars => ConfigInv'
  BY ConfigInvStep, TradingStep
<1>3. QED BY <1>1, <1>2, PTL DEF Spec

-----------------------------------------------------------------------------
(* What follows. *)

\* An accepted configuration is one the rest of the system can live with
\* (the validators of config.py).
LEMMA AcceptedIsUsable ==
  ASSUME NEW c \in Files, Accepted(c)
  PROVE  Usable(c)
<1> USE DEF Accepted, DataCfg, EntryCfg, SizingCfg, RiskCfg, ModelPostInit
<1>1. /\ c.rate \in Int /\ c.rankThreshold \in Int /\ c.rankExit \in Int
      /\ c.minWeight \in Int /\ c.maxWeight \in Int /\ c.gross \in Int
  BY ConfigurationAssumption
<1>2. c.rate > 0 /\ c.rate <= 60 /\ c.gross <= 100
  BY <1>1
<1>3. 1 \in 1 .. c.rankThreshold /\ 1 <= c.rankThreshold
  BY <1>1
<1>4. ASSUME NEW rank \in 1 .. c.rankThreshold
      PROVE  ~ rank > c.rankExit /\ ~ rank + 1 > c.rankExit
  BY <1>1
<1>5. c.maxWeight \in 1 .. 100 /\ c.minWeight <= c.maxWeight /\ c.maxWeight <= c.maxWeight
  BY <1>1
<1>6. QED BY <1>2, <1>3, <1>4, <1>5 DEF Usable

\* No process ever works with a configuration the rest cannot live with,
\* however config.yaml is edited (load_config, the validators).
THEOREM ConfigurationsAreUsable == Spec => []ConfigsAreUsable
<1>1. ConfigInv => ConfigsAreUsable
  <2> SUFFICES ASSUME ConfigInv, NEW p \in Processes, NEW c \in configs[p]
               PROVE  Usable(c)
    BY DEF ConfigsAreUsable
  <2>1. c \in Files /\ Accepted(c)
    BY DEF ConfigInv, ConfigTypeOK, InvOf, Loaded
  <2>2. QED BY <2>1, AcceptedIsUsable
<1>2. QED BY <1>1, ConfigInvariance, PTL

\* A set below a singleton has at most one element.
LEMMA AtMostOne ==
  ASSUME NEW S, NEW x, S \subseteq {x}
  PROVE  Cardinality(S) <= 1
<1>1. CASE S = {}
  BY <1>1, FS_EmptySet
<1>2. CASE S # {}
  <2>1. S = {x}
    BY <1>2
  <2>2. Cardinality({x}) = 1
    BY FS_Singleton
  <2>3. QED BY <2>1, <2>2
<1>3. QED BY <1>1, <1>2

\* A process that asks again gets the configuration it had (lru_cache).
THEOREM OneConfiguration == Spec => []OneConfigPerProcess
<1>1. ConfigInv => OneConfigPerProcess
  BY AtMostOne DEF ConfigInv, InvOf, OneConfigPerProcess
<1>2. QED BY <1>1, ConfigInvariance, PTL

\* A process uses one database file, from whatever directory; as long as .env
\* and the shells agree, all use the same (_anchor, db_path).
THEOREM OneDatabaseForAll == Spec => []OneDatabase
<1>1. ConfigInv => OneDatabase
  <2> SUFFICES ASSUME ConfigInv PROVE OneDatabase
    OBVIOUS
  <2>1. \A p \in Processes : Cardinality(opened[p]) <= 1
    BY AtMostOne DEF ConfigInv, InvOf
  <2>2. ASSUME settled PROVE UNION {opened[p] : p \in Processes} \subseteq {Database(dotenv)}
    <3> SUFFICES ASSUME NEW p \in Processes, opened[p] # {}
                 PROVE  opened[p] \subseteq {Database(dotenv)}
      OBVIOUS
    <3>1. configs[p] # {} /\ Loaded(p)
      BY DEF ConfigInv, InvOf
    <3>2. environ[p] = dotenv
      BY <2>2, <3>1 DEF ConfigInv, InvOf
    <3>3. QED BY <3>2 DEF ConfigInv, InvOf
  <2>3. ASSUME settled PROVE Cardinality(UNION {opened[p] : p \in Processes}) <= 1
    BY <2>2, <2>3, AtMostOne
  <2>4. ASSUME settled, dotenv = Unset, NEW p \in Processes PROVE opened[p] \subseteq {Served}
    <3>1. Database(Unset) = Served
      BY DEF Database, Anchor, DefaultDb, Served
    <3>2. QED BY <2>2, <2>4, <3>1
  <2>5. QED BY <2>1, <2>3, <2>4 DEF OneDatabase
<1>2. QED BY <1>1, ConfigInvariance, PTL

-----------------------------------------------------------------------------
(* The helpers of broker.py. *)

\* Every call of a helper is made with an accepted configuration.
LEMMA CallsAreAccepted ==
  ASSUME ConfigInv, NEW p \in Processes, NEW c \in configs[p]
  PROVE  c \in Files /\ Accepted(c)
BY DEF ConfigInv, ConfigTypeOK, InvOf, Loaded

\* A helper is called, the answer is forgotten, or nothing is called at all.
LEMMA CallStep ==
  ASSUME ConfigInv, [Next]_vars
  PROVE  \/ call' = call
         \/ call' = NoCall
         \/ LookUp
         \/ \E c \in Files : Accepted(c) /\ BuildOrder(c)
<1>1. CASE \E p \in Processes : UseBroker(p)
  BY <1>1, CallsAreAccepted DEF UseBroker
<1>2. QED BY <1>1 DEF Next, Forget, vars

\* Rounding to cents moves a price by half a cent at most (round(x, 2)).
LEMMA RoundedIsClose ==
  ASSUME NEW n \in Int, NEW k \in Rounded(n)
  PROVE  k \in Int /\ 10000 * k - n <= 5000 /\ n - 10000 * k <= 5000
BY DEF Rounded

\* What LimitsAreMarketable says of one limit: r is the reference, w what the
\* offset makes of it.
MarketableLimitOf(action, r, w, k) ==
  IF action = "BUY"
  THEN /\ 1000 * (10 * k - 5 - r) <= w
       /\ 10 * k + (IF r % 10 = 0 THEN 0 ELSE 5) >= r
  ELSE /\ 1000 * (r - 5 - 10 * k) <= w
       /\ 10 * k - (IF r % 10 = 0 THEN 0 ELSE 5) <= r

\* A limit is on the right side of the reference, and not beyond the offset
\* (marketable_limit).
LEMMA MarketableLimitIsMarketable ==
  ASSUME NEW action \in {"BUY", "SELL"}, NEW r \in Nat, NEW offset \in Nat,
         NEW k \in MarketableLimit(action, r, offset)
  PROVE  MarketableLimitOf(action, r, r * offset, k)
<1> DEFINE w == r * offset
<1>1. w \in Nat
  OBVIOUS
<1>2. CASE action = "BUY"
  <2>1. r * (1000 + offset) = 1000 * r + w
    OBVIOUS
  <2>2. k \in Rounded(1000 * r + w)
    BY <1>2, <2>1 DEF MarketableLimit
  <2> HIDE DEF w
  <2>3. k \in Int /\ 10000 * k - (1000 * r + w) <= 5000 /\ (1000 * r + w) - 10000 * k <= 5000
    BY <1>1, <2>2, RoundedIsClose
  <2>4. r % 10 = 0 => 10 * k >= r
    BY <1>1, <2>3
  <2>5. MarketableLimitOf(action, r, w, k)
    BY <1>1, <1>2, <2>3, <2>4 DEF MarketableLimitOf
  <2>6. QED BY <2>5 DEF w
<1>3. CASE action = "SELL"
  <2>1. r * (1000 - offset) = 1000 * r - w
    OBVIOUS
  <2>2. k \in Rounded(1000 * r - w)
    BY <1>3, <2>1 DEF MarketableLimit
  <2> HIDE DEF w
  <2>3. k \in Int /\ 10000 * k - (1000 * r - w) <= 5000 /\ (1000 * r - w) - 10000 * k <= 5000
    BY <1>1, <2>2, RoundedIsClose
  <2>4. r % 10 = 0 => 10 * k <= r
    BY <1>1, <2>3
  <2>5. MarketableLimitOf(action, r, w, k)
    BY <1>1, <1>3, <2>3, <2>4 DEF MarketableLimitOf
  <2>6. QED BY <2>5 DEF w
<1>4. QED BY <1>2, <1>3

\* Every limit price fills at once and does not chase (marketable_limit).
THEOREM LimitsAreAlwaysMarketable == Spec => []LimitsAreMarketable
<1>1. Init => LimitsAreMarketable
  BY DEF Init, NoCall, LimitsAreMarketable
<1>2. ASSUME NEW c \in Files, Accepted(c), BuildOrder(c) PROVE LimitsAreMarketable'
  <2>1. PICK action \in {"BUY", "SELL"}, reference \in Prices, quantity \in Quantities :
          \E price \in {{}} \cup {{k} : k \in MarketableLimit(action, reference, c.offset)} :
            call' = [of |-> "order", config |-> c, action |-> action, reference |-> reference,
                     quantity |-> quantity, price |-> price]
    BY <1>2 DEF BuildOrder
  <2>2. reference \in Nat /\ c.offset \in Nat
    BY <1>2, TradingAssumption, ConfigurationAssumption DEF Accepted, ExecutionCfg
  <2>3. /\ call'.action = action /\ call'.reference = reference /\ call'.config = c
        /\ \A k \in call'.price : k \in MarketableLimit(action, reference, c.offset)
    BY <2>1
  <2>4. ASSUME NEW k \in call'.price
        PROVE  MarketableLimitOf(call'.action, call'.reference, call'.reference * call'.config.offset, k)
    BY <2>2, <2>3, MarketableLimitIsMarketable
  <2>5. QED BY <2>4 DEF LimitsAreMarketable, MarketableLimitOf
<1>3. ConfigInv /\ LimitsAreMarketable /\ [Next]_vars => LimitsAreMarketable'
  <2> SUFFICES ASSUME ConfigInv, LimitsAreMarketable, [Next]_vars PROVE LimitsAreMarketable'
    OBVIOUS
  <2>1. CASE call' = call
    BY <2>1 DEF LimitsAreMarketable
  <2>2. CASE call' = NoCall
    BY <2>2 DEF LimitsAreMarketable, NoCall
  <2>3. CASE LookUp
    BY <2>3 DEF LookUp, LimitsAreMarketable
  <2>4. QED BY <1>2, <2>1, <2>2, <2>3, CallStep
<1>4. QED BY <1>1, <1>3, ConfigInvariance, PTL DEF Spec

\* Of two rows the answers of get_position and held_symbols agree.
LEMMA LookUpsAgree ==
  ASSUME NEW first \in Positions, NEW second \in Positions, NEW symbol \in Symbols
  PROVE  LET rows == <<first, second>> IN
           /\ (GetPosition(rows, symbol) # {}) = (symbol.name \in HeldSymbols(rows))
           /\ \A position \in GetPosition(rows, symbol) : Same(position, symbol) /\ IsOpen(position)
<1> DEFINE rows == <<first, second>>
           hit(i) == Same(rows[i], symbol) /\ IsOpen(rows[i])
<1>1. DOMAIN rows = {1, 2} /\ rows[1] = first /\ rows[2] = second
  OBVIOUS
<1>2. GetPosition(rows, symbol) =
        {rows[i] : i \in {j \in {1, 2} : hit(j) /\ \A k \in 1 .. j - 1 : ~ hit(k)}}
  BY <1>1 DEF GetPosition
<1>3. (symbol.name \in HeldSymbols(rows)) = (hit(1) \/ hit(2))
  BY <1>1 DEF HeldSymbols, Same
<1> HIDE DEF hit
<1>4. hit(1) => rows[1] \in GetPosition(rows, symbol)
  BY <1>2
<1>5. ~ hit(1) /\ hit(2) => rows[2] \in GetPosition(rows, symbol)
  <2>1. 1 .. 2 - 1 = {1}
    OBVIOUS
  <2>2. QED BY <1>2, <2>1
<1>6. \A position \in GetPosition(rows, symbol) : \E i \in {1, 2} : position = rows[i] /\ hit(i)
  BY <1>2
<1>7. (GetPosition(rows, symbol) # {}) = (hit(1) \/ hit(2))
  BY <1>4, <1>5, <1>6
<1>8. \A position \in GetPosition(rows, symbol) : Same(position, symbol) /\ IsOpen(position)
  BY <1>6 DEF hit
<1>9. QED BY <1>3, <1>7, <1>8

\* Whatever rows the broker sends, get_position and held_symbols agree on them
\* (broker.py, helpers).
THEOREM PositionsAlwaysAgree == Spec => []PositionsAgree
<1>1. Init => PositionsAgree
  BY DEF Init, NoCall, PositionsAgree
<1>2. LookUp => PositionsAgree'
  BY LookUpsAgree DEF LookUp, PositionsAgree
<1>3. ConfigInv /\ PositionsAgree /\ [Next]_vars => PositionsAgree'
  <2> SUFFICES ASSUME ConfigInv, PositionsAgree, [Next]_vars PROVE PositionsAgree'
    OBVIOUS
  <2>1. CASE call' = call
    BY <2>1 DEF PositionsAgree
  <2>2. CASE call' = NoCall
    BY <2>2 DEF PositionsAgree, NoCall
  <2>3. ASSUME NEW c \in Files, BuildOrder(c) PROVE PositionsAgree'
    BY <2>3 DEF BuildOrder, PositionsAgree
  <2>4. QED BY <1>2, <2>1, <2>2, <2>3, CallStep
<1>4. QED BY <1>1, <1>3, ConfigInvariance, PTL DEF Spec

\* Every variable keeps its type; an order has at most one limit, a whole
\* number of cents (marketable_limit, OrderRequest).
THEOREM TradingTypes == Spec => []TypeOK
<1> DEFINE CallTypeOK ==
      /\ call.of \in {"none", "order", "position"}
      /\ call.of = "order" => call.price \subseteq Int /\ Cardinality(call.price) <= 1
<1>1. Init => CallTypeOK
  BY DEF Init, NoCall
<1>2. ASSUME NEW c \in Files, Accepted(c), BuildOrder(c) PROVE CallTypeOK'
  <2>1. PICK action \in {"BUY", "SELL"}, reference \in Prices, quantity \in Quantities :
          \E price \in {{}} \cup {{k} : k \in MarketableLimit(action, reference, c.offset)} :
            call' = [of |-> "order", config |-> c, action |-> action, reference |-> reference,
                     quantity |-> quantity, price |-> price]
    BY <1>2 DEF BuildOrder
  <2>2. PICK price \in {{}} \cup {{k} : k \in MarketableLimit(action, reference, c.offset)} :
          call'.of = "order" /\ call'.price = price
    BY <2>1
  <2>3. reference * (IF action = "BUY" THEN 1000 + c.offset ELSE 1000 - c.offset) \in Int
    <3>1. reference \in Int /\ c.offset \in Int
      BY <1>2, TradingAssumption, ConfigurationAssumption DEF Accepted, ExecutionCfg
    <3>2. QED BY <3>1
  <2>4. MarketableLimit(action, reference, c.offset) \subseteq Int
    BY <2>3, RoundedIsClose DEF MarketableLimit
  <2>5. price = {} \/ \E k \in Int : price = {k}
    BY <2>4
  <2>6. \E x : price \subseteq {x} /\ price \subseteq Int
    BY <2>5
  <2>7. price \subseteq Int /\ Cardinality(price) <= 1
    BY <2>6, AtMostOne
  <2>8. QED BY <2>2, <2>7
<1>3. LookUp => CallTypeOK'
  BY DEF LookUp
<1>4. ConfigInv /\ CallTypeOK /\ [Next]_vars => CallTypeOK'
  <2> SUFFICES ASSUME ConfigInv, CallTypeOK, [Next]_vars PROVE CallTypeOK'
    OBVIOUS
  <2>1. CASE call' = call
    BY <2>1
  <2>2. CASE call' = NoCall
    BY <2>2 DEF NoCall
  <2> HIDE DEF CallTypeOK
  <2>3. QED BY <1>2, <1>3, <2>1, <2>2, CallStep
<1>5. ConfigInv /\ CallTypeOK => TypeOK
  BY DEF TypeOK, ConfigInv
<1>6. QED BY <1>1, <1>4, <1>5, ConfigInvariance, PTL DEF Spec
=============================================================================
