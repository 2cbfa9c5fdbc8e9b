------------------------------ MODULE MCTrading ------------------------------
(* An instance of Trading for TLC.                                           *)
EXTENDS Trading

CONSTANTS ann, bob, cat, gem, pie, junk

(* ann has part of a stack of gems, bob a full one; cat has a coin.          *)
MCItems ==
  [p \in Players |-> [i \in ItemIds |->
     CASE p = ann /\ i = <<gem, 1>> -> 1
       [] p = bob /\ i = <<gem, 2>> -> 2
       [] OTHER -> 0]]

MCCoins == [p \in Players |-> IF p = cat THEN 1 ELSE 0]

MCStackSize == [l \in Lots |-> IF l = gem THEN 2 ELSE 1]

Entry(n, lot, count) == [itemId |-> <<gem, n>>, itemLot |-> lot, itemCount |-> count]
For(n, list) == [coins |-> n, items |-> list]

(* ann offers her stack; bob his, in two parts, in two parts that are more   *)
(* than it has, or as another lot; cat her coin or what she bought with it.  *)
MCOffers ==
  [p \in Players |->
     CASE p = ann -> {For(0, <<Entry(1, gem, 1)>>)}
       [] p = bob -> {For(0, <<Entry(2, gem, 1), Entry(2, gem, 1)>>),
                      For(0, <<Entry(2, gem, 1), Entry(2, gem, 2)>>),
                      For(0, <<Entry(2, pie, 2)>>)}
       [] OTHER -> {For(1, <<>>), For(0, <<Entry(3, gem, 1)>>)}]
=============================================================================
