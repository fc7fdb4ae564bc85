----------------------------- MODULE MCTrading -----------------------------
(* An instance of Trading for TLC: the shipped configuration, and files in  *)
(* which one section has been edited to the edge of its range or past it.   *)
EXTENDS Trading

Shipped ==
  [rate |-> 60, rankThreshold |-> 2, rankExit |-> 4, minWeight |-> 8, maxWeight |-> 20,
   gross |-> 100, role |-> "veto_only", orderType |-> "LIMIT", offset |-> 3]

MCFiles ==
  {Shipped}
  \cup {[Shipped EXCEPT !.rate = r] : r \in {0, 5, 61}}
  \cup {[Shipped EXCEPT !.rankThreshold = t, !.rankExit = e] : t \in {0, 2}, e \in {1, 2, 3}}
  \cup {[Shipped EXCEPT !.minWeight = w] : w \in {-1, 0, 20}}
  \cup {[Shipped EXCEPT !.gross = g] : g \in {0, 50, 101}}
  \cup {[Shipped EXCEPT !.role = "generate"]}
  \cup {[Shipped EXCEPT !.orderType = t] : t \in {"market", "limit", "STOP"}}
  \cup {[Shipped EXCEPT !.offset = o] : o \in {-1, 0, 300}}

MCRoot == "/repo"
MCDirectories == {MCRoot, "/home"}
MCOverrides == {[dir |-> ".", name |-> "other.db"], [dir |-> "/home", name |-> "operations.db"]}

MCQuantities == {-3, 0, 1, 3}
MCSymbols == {[name |-> "SPY", spelling |-> "SPY"], [name |-> "SPY", spelling |-> "spy"],
              [name |-> "QQQ", spelling |-> "QQQ"]}
=============================================================================
