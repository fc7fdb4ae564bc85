------------------------------ MODULE Trading ------------------------------
(***************************************************************************)
(* The helpers of src/execution/broker.py, called by a process with a      *)
(* configuration it holds.  The steps that will build orders are not in    *)
(* the repository yet; what is modelled of them is that the order type and *)
(* the offset are those of the configuration, as config.py says ("Use      *)
(* LIMIT with limit_offset_pct").                                          *)
(*                                                                         *)
(* A reference price is in mills, tenths of a cent, a limit price in cents *)
(* and an offset in thousandths.  A quantity is in units of 1e-9.          *)
(***************************************************************************)
EXTENDS Configuration, Sequences

CONSTANTS
  Prices,        \* reference prices
  Quantities,    \* of an order, or of a position
  Symbols        \* records [name, spelling]

ASSUME TradingAssumption ==
  Prices \subseteq Nat \ {0} /\ Quantities \subseteq Int

VARIABLE call     \* the last call of a helper, with its arguments and answer

vars == <<cvars, call>>

NoCall == [of |-> "none"]

Init == ConfigInit /\ call = NoCall

-----------------------------------------------------------------------------
(* Orders. *)

\* round(x, 2), to cents from ten-thousandths of a cent.  A float that should
\* be a tie may lie on either side of it.
Rounded(n) ==
  {k \in {n \div 10000, n \div 10000 + 1} : 10000 * k - n \in -5000 .. 5000}

\* Mutant: a sale asks for more than the reference.
MarketableLimitAlwaysUp(action, reference, offset) == Rounded(reference * (1000 + offset))

MarketableLimit(action, reference, offset) ==
  Rounded(reference * (IF action = "BUY" THEN 1000 + offset ELSE 1000 - offset))

\* __post_init__ of OrderRequest; price is {} when there is none.
OrderRequest(quantity, type, price) ==
  /\ quantity > 0
  /\ Upper(type) # "MARKET"
  /\ Upper(type) = "LIMIT" => price # {}

BuildOrder(c) ==
  \E action \in {"BUY", "SELL"}, reference \in Prices, quantity \in Quantities :
    \E price \in {{}} \cup {{k} : k \in MarketableLimit(action, reference, c.offset)} :
      /\ OrderRequest(quantity, c.orderType, price)
      /\ call' = [of |-> "order", config |-> c, action |-> action, reference |-> reference,
                  quantity |-> quantity, price |-> price]

-----------------------------------------------------------------------------
(* Positions, as the broker answers. *)

Positions == [symbol : Symbols, quantity : Quantities]

IsOpen(position) == position.quantity > 1 \/ position.quantity < -1

\* p.symbol.upper() == symbol.upper()
Same(position, symbol) == position.symbol.name = symbol.name

\* Mutant: the first row of the symbol, if it is open.
GetPositionFirst(positions, symbol) ==
  {positions[i] : i \in {j \in DOMAIN positions :
     /\ Same(positions[j], symbol) /\ IsOpen(positions[j])
     /\ \A k \in 1 .. j - 1 : ~ Same(positions[k], symbol)}}

\* The first open row of the symbol, if there is one.
GetPosition(positions, symbol) ==
  {positions[i] : i \in {j \in DOMAIN positions :
     /\ Same(positions[j], symbol) /\ IsOpen(positions[j])
     /\ \A k \in 1 .. j - 1 : ~ (Same(positions[k], symbol) /\ IsOpen(positions[k]))}}

HeldSymbols(positions) ==
  {positions[i].symbol.name : i \in {j \in DOMAIN positions : IsOpen(positions[j])}}

LookUp ==
  \E first, second \in Positions, symbol \in Symbols :
    LET positions == <<first, second>> IN
      call' = [of |-> "position", symbol |-> symbol, found |-> GetPosition(positions, symbol),
               held |-> HeldSymbols(positions)]

-----------------------------------------------------------------------------
\* Bound: an answer depends on the configuration and the arguments alone, so
\* helpers are called before anything is edited, in one process, which runs alone.
Quiet(p) ==
  /\ edits = 0 /\ opened[p] = {}
  /\ \A q \in Processes \ {p} : pc[q] = "down"

\* A process that holds a configuration calls a helper.
UseBroker(p) ==
  /\ pc[p] = "up" /\ call = NoCall /\ Quiet(p)
  /\ \E c \in configs[p] : BuildOrder(c) \/ LookUp
  /\ UNCHANGED cvars

\* The answer is used, or forgotten.
Forget == call # NoCall /\ call' = NoCall /\ UNCHANGED cvars

Next ==
  \/ ConfigNext /\ call = NoCall /\ UNCHANGED call
  \/ \E p \in Processes : UseBroker(p)
  \/ Forget

Spec == Init /\ [][Next]_vars

-----------------------------------------------------------------------------
(* What is checked, and proved in TradingProofs. *)

TypeOK ==
  /\ ConfigTypeOK
  /\ call.of \in {"none", "order", "position"}
  /\ call.of = "order" => call.price \subseteq Int /\ Cardinality(call.price) <= 1

\* A limit price fills at once and does not chase: it lies between the
\* reference and the offset from it, up to the rounding of half a cent, and
\* never on the wrong side of a reference in whole cents.
LimitsAreMarketable ==
  call.of = "order" => \A cents \in call.price :
    LET mills  == 10 * cents
        worst  == call.reference * call.config.offset IN
      IF call.action = "BUY"
      THEN /\ 1000 * (mills - 5 - call.reference) <= worst
           /\ mills + (IF call.reference % 10 = 0 THEN 0 ELSE 5) >= call.reference
      ELSE /\ 1000 * (call.reference - 5 - mills) <= worst
           /\ mills - (IF call.reference % 10 = 0 THEN 0 ELSE 5) <= call.reference

\* get_position and held_symbols tell the same story of one list, whatever
\* closed, dust, short or repeated rows of a symbol it has.
PositionsAgree ==
  call.of = "position" =>
    /\ (call.found # {}) = (call.symbol.name \in call.held)
    /\ \A position \in call.found : Same(position, call.symbol) /\ IsOpen(position)
=============================================================================
