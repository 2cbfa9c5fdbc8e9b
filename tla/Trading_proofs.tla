--------------------------- MODULE Trading_proofs ---------------------------
(* Trades that both sides accept are settled in that step; they conserve    *)
(* coins always, and items and the sizes of stacks as long as no trade was  *)
(* completed with something overlooked; and wealth moves in no other way.   *)
(* For every number of players, lots, slots and trades, every count range   *)
(* and every set of offers.                                                 *)
EXTENDS Trading, FiniteData

(* Every open trade was opened, and what is kept of trades has its type;    *)
(* purses are never negative, whatever SetCoins is given.                   *)
TradesInv ==
  /\ coins \in [Players -> Nat]
  /\ trade \in [TradeIds -> Trade]
  /\ nextTrade \in Nat
  /\ \A t \in trades : t \in TradeIds /\ t < nextTrade

(* A new trade and what is left of a deleted one are trades.                *)
LEMMA NewTradeType ==
  ASSUME NEW p \in Players, NEW q \in Players
  PROVE  NewTrade(p, q) \in Trade
<1>1. <<>> \in Seq(TradeItem)
      OBVIOUS
<1> QED BY <1>1 DEF NewTrade, Trade

LEMMA NoTradeType == NoTrade \in Trade
BY NewTradeType, TradingAssumption DEF NoTrade

(* An offer replaced by another leaves a trade, accepted as it was.         *)
LEMMA OfferType ==
  ASSUME NEW r \in Trade, NEW c \in [Players -> Nat],
         NEW i \in [Players -> Seq(TradeItem)]
  PROVE  /\ [r EXCEPT !.coins = c, !.items = i] \in Trade
         /\ [r EXCEPT !.coins = c, !.items = i].accepted = r.accepted
<1>1. PICK changed : changed = [r EXCEPT !.coins = c, !.items = i]
      OBVIOUS
<1>2. changed = [a |-> r.a, b |-> r.b, coins |-> c, items |-> i,
                 accepted |-> r.accepted]
      BY <1>1 DEF Trade
<1>3. r.a \in Players /\ r.b \in Players /\ r.accepted \in [Players -> BOOLEAN]
      BY DEF Trade
<1>4. changed \in Trade
      BY <1>2, <1>3 DEF Trade
<1>5. changed.accepted = r.accepted
      BY <1>2
<1> QED BY <1>1, <1>4, <1>5

(* SetCoins never leaves a purse below zero.                                *)
LEMMA PurseType == \A n \in Int : Purse(n) \in Nat
BY DEF Purse

LEMMA InitTrades == Init => TradesInv
BY NoTradeType, TradingAssumption DEF Init, TradesInv

(* Complete pays both sides or neither, and leaves natural numbers.         *)
LEMMA CompleteCoins ==
  ASSUME TradesInv, NEW t \in TradeIds, Complete(t)
  PROVE  coins' \in [Players -> Nat]
<1>1. trade[t] \in Trade
      BY DEF TradesInv
<1> DEFINE a == trade[t].a
           b == trade[t].b
           paidA == trade[t].coins[a]
           paidB == trade[t].coins[b]
<1>2. a \in Players /\ b \in Players /\ paidA \in Nat /\ paidB \in Nat
      BY <1>1 DEF Trade
<1>3. CASE UNCHANGED <<wealth, careless>>
      BY <1>3 DEF wealth, TradesInv
<1>4. CASE coins' = [coins EXCEPT ![a] = Purse(@ - paidA + paidB),
                                  ![b] = Purse(@ - paidB + paidA)]
  <2> HIDE DEF a, b, paidA, paidB
  <2>1. \A n \in Nat : /\ Purse(n - paidA + paidB) \in Nat
                       /\ Purse(n - paidB + paidA) \in Nat
        BY <1>2, PurseType
  <2> QED BY <1>2, <1>4, <2>1 DEF TradesInv
<1> QED BY <1>3, <1>4 DEF Complete

-----------------------------------------------------------------------------
(* What each message keeps, and that a trade whose sides have both accepted *)
(* had accepted before, or has a side that is away, or is gone.             *)
Both(tr, t) == \A q \in {trade[t].a, trade[t].b} : tr[t].accepted[q]

Settled ==
  \A t \in trades' \cap trades :
    ({trade[t].a, trade[t].b} \subseteq present /\ Both(trade', t)) => Both(trade, t)

LEMMA RequestSettles ==
  ASSUME TradesInv, NEW p \in Players, NEW q \in Players,
         HandleClientTradeRequest(p, q)
  PROVE  TradesInv' /\ Settled
<1>1. /\ nextTrade \in TradeIds /\ nextTrade' = nextTrade + 1 /\ coins' = coins
      /\ nextTrade \notin trades
      BY DEF HandleClientTradeRequest, wealth, TradesInv
<1>2. NewTrade(p, q) \in Trade /\ NoTrade \in Trade
      BY NewTradeType, NoTradeType
<1>3. nextTrade + 1 \in Nat /\ \A t \in trades : t < nextTrade + 1
      BY TradingAssumption DEF TradesInv, TradeIds
<1>4. CASE PlayerTrades(p) = {} /\ trades' = trades \cup {nextTrade}
           /\ trade' = [trade EXCEPT ![nextTrade] = NewTrade(p, q)]
  <2>1. TradesInv'
    <3>1. trade' \in [TradeIds -> Trade]
          BY <1>2, <1>1, <1>4 DEF TradesInv
    <3>2. \A t \in trades' : t \in TradeIds /\ t < nextTrade'
          BY <1>1, <1>4, <1>3 DEF TradesInv
    <3> QED BY <1>1, <1>3, <3>1, <3>2 DEF TradesInv
  <2>2. \A t \in trades : trade'[t] = trade[t]
        BY <1>1, <1>4 DEF TradesInv
  <2> QED BY <2>1, <2>2 DEF Settled, Both
<1>5. ASSUME NEW t \in PlayerTrades(p),
             trades' = (trades \ {t}) \cup {nextTrade},
             trade' = [trade EXCEPT ![t] = NoTrade, ![nextTrade] = NewTrade(p, q)]
      PROVE  TradesInv' /\ Settled
  <2>1. t \in TradeIds
        BY DEF PlayerTrades, TradesInv
  <2>2. TradesInv'
    <3>1. trade' \in [TradeIds -> Trade]
      <4>1. [trade EXCEPT ![t] = NoTrade] \in [TradeIds -> Trade]
            BY <1>2 DEF TradesInv
      <4> QED BY <1>2, <1>1, <1>5, <4>1
    <3>2. \A u \in trades' : u \in TradeIds /\ u < nextTrade'
          BY <1>1, <1>5, <1>3 DEF TradesInv
    <3> QED BY <1>1, <1>3, <3>1, <3>2 DEF TradesInv
  <2>3. \A u \in trades \cap trades' : trade'[u] = trade[u]
        BY <1>1, <1>5 DEF TradesInv
  <2> QED BY <2>2, <2>3 DEF Settled, Both
<1> QED BY <1>4, <1>5 DEF HandleClientTradeRequest

LEMMA CancelSettles ==
  ASSUME TradesInv, NEW p \in Players, HandleClientTradeCancel(p)
  PROVE  TradesInv' /\ Settled
<1>1. PICK t \in trades : /\ trades' = trades \ {t}
                          /\ trade' = [trade EXCEPT ![t] = NoTrade]
                          /\ coins' = coins /\ nextTrade' = nextTrade
      BY DEF HandleClientTradeCancel, PlayerTrades, wealth
<1>2. TradesInv'
      BY <1>1, NoTradeType DEF TradesInv
<1>3. \A u \in trades' : trade'[u] = trade[u]
      BY <1>1 DEF TradesInv
<1> QED BY <1>2, <1>3 DEF Settled, Both

(* Changing an offer, whatever the new one lists, leaves the acceptances as *)
(* they are.                                                                *)
LEMMA UpdateSettles ==
  ASSUME TradesInv, NEW p \in Players,
         NEW offer \in Offers[p], HandleClientTradeUpdate(p, offer)
  PROVE  TradesInv' /\ Settled
<1> DEFINE n    == offer.coins
           list == offer.items
<1>1. PICK t \in trades :
        trade' = [trade EXCEPT ![t].coins[p] = n, ![t].items[p] = list]
      BY DEF HandleClientTradeUpdate, PlayerTrades
<1>2. coins' = coins /\ trades' = trades /\ nextTrade' = nextTrade
      BY DEF HandleClientTradeUpdate, wealth
<1>3. n \in Nat
      BY TradingAssumption DEF Offer
<1>4. list \in Seq(TradeItem)
      BY TradingAssumption DEF Offer
<1> HIDE DEF n, list
<1>5. t \in TradeIds /\ trade[t] \in Trade
      BY DEF TradesInv
<1>6. trade'[t] = [trade[t] EXCEPT !.coins = [@ EXCEPT ![p] = n],
                                   !.items = [@ EXCEPT ![p] = list]]
      BY <1>1, <1>5 DEF TradesInv, Trade
<1>7. /\ trade'[t] \in Trade
      /\ trade'[t].accepted = trade[t].accepted
  <2>1. /\ [trade[t].coins EXCEPT ![p] = n] \in [Players -> Nat]
        /\ [trade[t].items EXCEPT ![p] = list] \in [Players -> Seq(TradeItem)]
        BY <1>3, <1>4, <1>5 DEF Trade
  <2>2. /\ [trade[t] EXCEPT !.coins = [trade[t].coins EXCEPT ![p] = n],
                           !.items = [trade[t].items EXCEPT ![p] = list]]
             \in Trade
        /\ [trade[t] EXCEPT !.coins = [trade[t].coins EXCEPT ![p] = n],
                           !.items = [trade[t].items EXCEPT ![p] = list]].accepted
             = trade[t].accepted
    <3> DEFINE r == trade[t]
               c == [trade[t].coins EXCEPT ![p] = n]
               i == [trade[t].items EXCEPT ![p] = list]
    <3>1. r \in Trade /\ c \in [Players -> Nat] /\ i \in [Players -> Seq(TradeItem)]
          BY <1>5, <2>1
    <3> HIDE DEF r, c, i
    <3>2. /\ [r EXCEPT !.coins = c, !.items = i] \in Trade
          /\ [r EXCEPT !.coins = c, !.items = i].accepted = r.accepted
          BY <3>1, OfferType
    <3> QED BY <3>2 DEF r, c, i
  <2> QED BY <1>6, <2>2
<1>8. /\ \A u \in TradeIds \ {t} : trade'[u] = trade[u]
      /\ trade' \in [TradeIds -> Trade]
  <2>1. \A u \in TradeIds \ {t} : trade'[u] = trade[u]
        BY <1>1, <1>5 DEF TradesInv
  <2>2. trade' = [u \in TradeIds |-> trade'[u]]
        BY <1>1 DEF TradesInv
  <2> QED BY <1>7, <2>1, <2>2 DEF TradesInv
<1>9. TradesInv'
      BY <1>2, <1>8 DEF TradesInv
<1> QED BY <1>2, <1>7, <1>8, <1>9 DEF Settled, Both, TradesInv

(* Either both accept and are here, and the trade is over, or nothing that  *)
(* both accepted is new.                                                    *)
LEMMA AcceptSettles ==
  ASSUME TradesInv, NEW p \in Players, NEW bFirst \in BOOLEAN,
         HandleClientTradeAccept(p, bFirst)
  PROVE  TradesInv' /\ Settled
<1>1. PICK t \in trades :
        LET accepted == [trade[t].accepted EXCEPT ![p] = ~bFirst]
            parties  == {trade[t].a, trade[t].b}
        IN
        IF (\A q \in parties : accepted[q]) /\ parties \subseteq present
        THEN Settle(t)
        ELSE /\ trade' = [trade EXCEPT ![t].accepted = accepted]
             /\ UNCHANGED <<trades, wealth, careless>>
      BY DEF HandleClientTradeAccept, PlayerTrades
<1> DEFINE accepted == [trade[t].accepted EXCEPT ![p] = ~bFirst]
           parties  == {trade[t].a, trade[t].b}
<1>2. nextTrade' = nextTrade /\ t \in TradeIds /\ trade[t] \in Trade
      BY DEF HandleClientTradeAccept, TradesInv
<1>3. CASE Settle(t)
  <2>1. /\ trades' = trades \ {t} /\ trade' = [trade EXCEPT ![t] = NoTrade]
        /\ coins' \in [Players -> Nat]
        BY <1>2, <1>3, CompleteCoins DEF Settle
  <2>2. TradesInv'
        BY <1>2, <2>1, NoTradeType DEF TradesInv
  <2>3. \A u \in trades' : trade'[u] = trade[u]
        BY <1>2, <2>1 DEF TradesInv
  <2> QED BY <2>2, <2>3 DEF Settled, Both
<1>4. CASE /\ ~((\A q \in parties : accepted[q]) /\ parties \subseteq present)
           /\ trade' = [trade EXCEPT ![t].accepted = accepted]
           /\ UNCHANGED <<trades, wealth, careless>>
  <2>1. accepted \in [Players -> BOOLEAN]
        BY <1>2 DEF Trade
  <2>2. trade'[t].accepted = accepted /\ trade'[t] \in Trade
        BY <1>2, <1>4, <2>1 DEF TradesInv, Trade
  <2>3. /\ \A u \in TradeIds \ {t} : trade'[u] = trade[u]
        /\ trade' \in [TradeIds -> Trade]
        BY <1>2, <1>4, <2>1, <2>2 DEF TradesInv, Trade
  <2>4. TradesInv'
        BY <1>2, <1>4, <2>3 DEF TradesInv, wealth
  <2> HIDE DEF accepted
  <2>5. ~(parties \subseteq present /\ Both(trade', t))
        BY <1>4, <2>2 DEF Both
  <2> QED BY <1>4, <2>3, <2>4, <2>5 DEF Settled, Both, TradesInv
<1> QED BY <1>1, <1>3, <1>4

(* What is not a message of a trade leaves the trades alone.                *)
LEMMA OtherSettles ==
  ASSUME TradesInv, UNCHANGED <<trades, trade, nextTrade>>,
         coins' \in [Players -> Nat]
  PROVE  TradesInv' /\ Settled
BY DEF TradesInv, Settled, Both

LEMMA StepSettles == TradesInv /\ [Next]_vars => TradesInv' /\ Settled
<1> SUFFICES ASSUME TradesInv, [Next]_vars PROVE TradesInv' /\ Settled
    OBVIOUS
<1>1. ASSUME NEW p \in Players, ClientStep(p) PROVE TradesInv' /\ Settled
      BY <1>1, RequestSettles, CancelSettles, UpdateSettles, AcceptSettles
         DEF ClientStep
<1>2. ASSUME NEW p \in Players, PlayerLeaves(p) \/ PlayerReturns(p)
      PROVE  TradesInv' /\ Settled
      BY <1>2, OtherSettles DEF PlayerLeaves, PlayerReturns, wealth, TradesInv
<1>3. ASSUME NEW p \in Players, SpendCoin(p) PROVE TradesInv' /\ Settled
  <2>1. coins' \in [Players -> Nat]
        BY <1>3 DEF SpendCoin, TradesInv
  <2> QED BY <1>3, <2>1, OtherSettles DEF SpendCoin
<1>4. ASSUME NEW p \in Players, NEW i \in ItemIds, UseItem(p, i)
      PROVE  TradesInv' /\ Settled
      BY <1>4, OtherSettles DEF UseItem, TradesInv
<1>5. CASE UNCHANGED vars
      BY <1>5, OtherSettles DEF vars, wealth, TradesInv
<1> QED BY <1>1, <1>2, <1>3, <1>4, <1>5 DEF Next

(* A trade that both sides have accepted, when both are here, is over in    *)
(* the step of the second acceptance, so it is settled once.                *)
THEOREM AcceptedAreSettled == Spec => AcceptedTradesAreSettled
<1> DEFINE SettledAtOnce ==
      \A t \in trades' :
        LET parties  == {trade[t].a, trade[t].b}
            both(tr) == \A q \in parties : tr[t].accepted[q]
        IN (parties \subseteq present /\ both(trade') /\ t \in trades) => both(trade)
<1>1. TradesInv /\ [Next]_vars => TradesInv' /\ [SettledAtOnce]_vars
      BY StepSettles DEF Settled, Both
<1>2. Spec => [][SettledAtOnce]_vars
      BY <1>1, InitTrades, PTL DEF Spec
<1> QED BY <1>2 DEF AcceptedTradesAreSettled

-----------------------------------------------------------------------------
(* What inventories hold, and what becomes of it when one count changes.    *)

Counts == [ItemIds -> 0..(CountRange - 1)]

LEMMA FiniteConstants ==
  /\ IsFiniteSet(Players) /\ IsFiniteSet(ItemIds)
  /\ \A l \in Lots : IsFiniteSet(OfLot(l))
  /\ CountRange \in Nat /\ MaxItems \in Nat /\ Slots \in Nat
<1>1. IsFiniteSet(Numbers) /\ IsFiniteSet(Lots)
  BY TradingAssumption, FS_Interval DEF Numbers
<1>2. IsFiniteSet(ItemIds)
  BY <1>1, FS_Product DEF ItemIds
<1>3. ASSUME NEW l \in Lots PROVE IsFiniteSet(OfLot(l))
  BY <1>1, FS_Singleton, FS_Product DEF OfLot
<1> QED
  BY <1>2, <1>3, TradingAssumption

LEMMA IdsOfLots ==
  /\ \A l \in Lots : OfLot(l) \subseteq ItemIds
  /\ \A i \in ItemIds : i[1] \in Lots /\ i[2] \in Numbers /\ i \in OfLot(i[1]) /\ i = <<i[1], i[2]>>
  /\ \A i \in ItemIds, l \in Lots : i \in OfLot(l) => l = i[1]
  /\ \A l \in Lots, n \in Numbers : <<l, n>> \in OfLot(l)
BY DEF ItemIds, OfLot

LEMMA StackTypes ==
  /\ \A l \in Lots : StackSize[l] \in Nat /\ StackSize[l] \in 1..(CountRange - 1)
  /\ CountRange \in Nat
BY TradingAssumption

LEMMA CountsType ==
  ASSUME NEW inv \in [Players -> Counts]
  PROVE  \A p \in Players : \A i \in ItemIds :
           inv[p][i] \in Nat /\ inv[p][i] \in 0..(CountRange - 1)
<1>1. \A p \in Players : inv[p] \in Counts
  OBVIOUS
<1> QED
  BY <1>1, FiniteConstants DEF Counts

(* The arithmetic of uint32_t stays in range, and is that of the integers   *)
(* where nothing wraps.                                                     *)
LEMMA CountType ==
  /\ \A m, n \in 0..(CountRange - 1) : Count(m + n) \in 0..(CountRange - 1)
  /\ \A m, n \in 0..(CountRange - 1) : Count(m - n) \in 0..(CountRange - 1)
  /\ \A n \in 0..(CountRange - 1) : Count(n) = n
BY StackTypes DEF Count

LEMMA TotalIsSum == \A f : Total(f) = SumOver(f, Players)
BY DEF Total, SumOver

LEMMA StockIsSum ==
  ASSUME NEW inv, NEW l, NEW p \in Players
  PROVE  Stock(inv, l)[p] = SumOver(inv[p], OfLot(l))
BY DEF Stock, SumOver

LEMMA StockType ==
  ASSUME NEW inv \in [Players -> Counts], NEW l \in Lots
  PROVE  /\ \A p \in Players : Stock(inv, l)[p] \in Nat
         /\ Total(Stock(inv, l)) \in Nat
<1>1. ASSUME NEW p \in Players PROVE Stock(inv, l)[p] \in Nat
  <2>1. \A i \in OfLot(l) : inv[p][i] \in Nat
    BY CountsType, IdsOfLots
  <2> QED
    BY <2>1, StockIsSum, SumType, FiniteConstants
<1> QED
  BY <1>1, TotalIsSum, SumType, FiniteConstants

LEMMA TotalType ==
  ASSUME NEW f \in [Players -> Nat]
  PROVE  Total(f) \in Nat
BY TotalIsSum, SumType, FiniteConstants

WithAmount(f, p, n) == [f EXCEPT ![p] = n]

LEMMA TotalChange ==
  ASSUME NEW f \in [Players -> Nat], NEW p \in Players, NEW n \in Nat
  PROVE  /\ WithAmount(f, p, n) \in [Players -> Nat]
         /\ Total(WithAmount(f, p, n)) + f[p] = Total(f) + n
<1> DEFINE g == WithAmount(f, p, n)
<1>1. g \in [Players -> Nat] /\ g[p] = n /\ \A q \in Players \ {p} : g[q] = f[q]
  BY DEF WithAmount
<1> HIDE DEF g
<1>2. SumOver(g, Players) + f[p] = SumOver(f, Players) + g[p]
  BY <1>1, SumDiffers, FiniteConstants
<1> QED
  BY <1>1, <1>2, TotalIsSum DEF g

(* The count of one stack changes: so does the stock of its lot, and that   *)
(* of no other.                                                             *)
WithCount(inv, p, i, n) == [inv EXCEPT ![p][i] = n]

LEMMA StockChange ==
  ASSUME NEW inv \in [Players -> Counts], NEW p \in Players, NEW i \in ItemIds,
         NEW n \in 0..(CountRange - 1)
  PROVE  LET new == WithCount(inv, p, i, n)
         IN
         /\ new \in [Players -> Counts]
         /\ new[p][i] = n
         /\ \A j \in ItemIds \ {i} : new[p][j] = inv[p][j]
         /\ \A q \in Players \ {p} : new[q] = inv[q]
         /\ Total(Stock(new, i[1])) + inv[p][i] = Total(Stock(inv, i[1])) + n
         /\ \A l \in Lots \ {i[1]} : Total(Stock(new, l)) = Total(Stock(inv, l))
<1> DEFINE row == [inv[p] EXCEPT ![i] = n]
           new == WithCount(inv, p, i, n)
<1>1. inv[p] \in Counts
  OBVIOUS
<1>2. row \in Counts /\ row[i] = n /\ \A j \in ItemIds \ {i} : row[j] = inv[p][j]
  BY <1>1 DEF Counts
<1>3. new = [inv EXCEPT ![p] = row]
  BY DEF WithCount
<1> HIDE DEF row, new
<1>4. new \in [Players -> Counts] /\ new[p] = row /\ \A q \in Players \ {p} : new[q] = inv[q]
  BY <1>2, <1>3
<1>5. \A j \in ItemIds : row[j] \in Nat /\ inv[p][j] \in Nat
  BY <1>4, CountsType
<1>6. ASSUME NEW l \in Lots
      PROVE  /\ \A q \in Players \ {p} : Stock(new, l)[q] = Stock(inv, l)[q]
             /\ \A q \in Players : Stock(new, l)[q] \in Nat /\ Stock(inv, l)[q] \in Nat
             /\ Total(Stock(new, l)) \in Nat /\ Total(Stock(inv, l)) \in Nat
  BY <1>4, StockIsSum, StockType
<1>7. ASSUME NEW l \in Lots
      PROVE  Total(Stock(new, l)) + Stock(inv, l)[p] = Total(Stock(inv, l)) + Stock(new, l)[p]
  <2> DEFINE f == Stock(inv, l)
             g == Stock(new, l)
  <2>1. /\ \A q \in Players : f[q] \in Nat
        /\ \A q \in Players : g[q] \in Nat
        /\ \A q \in Players \ {p} : g[q] = f[q]
    BY <1>6
  <2> HIDE DEF f, g
  <2>2. SumOver(g, Players) + f[p] = SumOver(f, Players) + g[p]
    BY <2>1, SumDiffers, FiniteConstants
  <2> QED
    BY <2>2, TotalIsSum DEF f, g
<1> DEFINE old == inv[p]
<1>8. Total(Stock(new, i[1])) + inv[p][i] = Total(Stock(inv, i[1])) + n
  <2> DEFINE l == i[1]
             S == OfLot(l)
  <2>1. l \in Lots /\ i \in S /\ S \subseteq ItemIds /\ IsFiniteSet(S)
    BY IdsOfLots, FiniteConstants
  <2>2. /\ \A j \in S : row[j] \in Nat
        /\ \A j \in S : old[j] \in Nat
        /\ \A j \in S \ {i} : row[j] = old[j]
    BY <1>2, <1>5, <2>1
  <2> HIDE DEF old, S, l
  <2>3. SumOver(row, S) + old[i] = SumOver(old, S) + row[i]
    BY <2>1, <2>2, SumDiffers
  <2>4. Stock(new, l)[p] = SumOver(row, S) /\ Stock(inv, l)[p] = SumOver(old, S)
    BY <1>4, StockIsSum DEF S, old
  <2> DEFINE A == Total(Stock(new, l))
             B == Total(Stock(inv, l))
             x == Stock(inv, l)[p]
             y == Stock(new, l)[p]
             z == old[i]
  <2>5. /\ A \in Nat /\ B \in Nat /\ x \in Nat /\ y \in Nat /\ z \in Nat /\ n \in Nat
        /\ A + x = B + y /\ y + z = x + n
    BY <1>2, <1>6, <1>7, <2>1, <2>2, <2>3, <2>4, StackTypes
  <2> HIDE DEF A, B, x, y, z
  <2>6. A + z = B + n
    BY <2>5
  <2> QED
    BY <2>6 DEF A, B, z, l, old
<1>9. ASSUME NEW l \in Lots \ {i[1]}
      PROVE  Total(Stock(new, l)) = Total(Stock(inv, l))
  <2> DEFINE S == OfLot(l)
  <2>1. i \notin S /\ S \subseteq ItemIds /\ IsFiniteSet(S)
    BY IdsOfLots, FiniteConstants
  <2>2. /\ \A j \in S : row[j] = old[j]
        /\ \A j \in S : old[j] \in Nat
    BY <1>2, <1>5, <2>1
  <2> HIDE DEF old, S
  <2>3. SumOver(row, S) = SumOver(old, S)
    BY <2>1, <2>2, SameSum
  <2>4. Stock(new, l)[p] = Stock(inv, l)[p]
    BY <1>4, <2>3, StockIsSum DEF S, old
  <2> DEFINE A == Total(Stock(new, l))
             B == Total(Stock(inv, l))
             x == Stock(inv, l)[p]
             y == Stock(new, l)[p]
  <2>5. A \in Nat /\ B \in Nat /\ x \in Nat /\ A + x = B + y /\ x = y
    BY <1>6, <1>7, <2>4
  <2> HIDE DEF A, B, x, y
  <2>6. A = B
    BY <2>5
  <2> QED
    BY <2>6 DEF A, B
<1> QED
  BY <1>2, <1>4, <1>8, <1>9 DEF new

(* One of the stacks that are held of a lot is the smallest.                *)
LEMMA SmallestIsHeld ==
  ASSUME NEW inv \in [Players -> Counts], NEW p \in Players, NEW l \in Lots,
         HeldOf(inv, p, l) # {}
  PROVE  SmallestStack(inv, p, l) \in HeldOf(inv, p, l)
<1> DEFINE H == HeldOf(inv, p, l)
<1>1. \A i \in H : inv[p][i] \in Nat
  BY CountsType, IdsOfLots DEF HeldOf
<1>2. \E i \in H : \A j \in H : inv[p][i] <= inv[p][j]
  <2> DEFINE S == {inv[p][j] : j \in H}
  <2>1. S \in SUBSET Nat /\ S # {}
    BY <1>1
  <2>2. PICK m \in S : \A k \in S : m <= k
    <3> HIDE DEF S
    <3> QED
      BY <2>1, LeastNatural
  <2> QED
    BY <2>2
<1> QED
  BY <1>2 DEF SmallestStack

-----------------------------------------------------------------------------
(* The inventories, the mail and the item numbers while a trade is being    *)
(* completed, and the items AddItem has left.                               *)
Goods ==
  [items: [Players -> Counts], mail: [Players -> [Lots -> Nat]],
   nextItem: [Lots -> Nat \ {0}], left: Nat]

Fresh(s) ==
  \A p \in Players, l \in Lots, n \in Numbers :
    n >= s.nextItem[l] => s.items[p][<<l, n>>] = 0

Roomy(inv) == \A p \in Players : Cardinality(Held(inv, p)) <= Slots

Tidy(s) == s \in Goods /\ Fresh(s) /\ Roomy(s.items)

(* No stack is larger than those of its lot may be.                         *)
Neat(s) ==
  \A p \in Players, l \in Lots : \A i \in OfLot(l) : s.items[p][i] <= StackSize[l]

(* The bound on the items of a lot was not passed.                          *)
Bounded(s) == \A l \in Lots : s.nextItem[l] <= MaxItems + 1

Mailed(s, l) == [p \in Players |-> s.mail[p][l]]

LotOf(s, l) == Total(Stock(s.items, l)) + Total(Mailed(s, l))

(* What is there of a lot while items of lot k are being added.             *)
Amount(s, l, k) == LotOf(s, l) + (IF l = k THEN s.left ELSE 0)

GoodsOf(inv, post, next, n) == [items |-> inv, mail |-> post, nextItem |-> next, left |-> n]

LEMMA GoodsParts ==
  ASSUME NEW s \in Goods
  PROVE  /\ s = GoodsOf(s.items, s.mail, s.nextItem, s.left)
         /\ s.items \in [Players -> Counts] /\ s.mail \in [Players -> [Lots -> Nat]]
         /\ s.nextItem \in [Lots -> Nat \ {0}] /\ s.left \in Nat
         /\ \A l \in Lots : s.nextItem[l] \in Nat
         /\ \A l \in Lots : Mailed(s, l) \in [Players -> Nat]
         /\ \A p \in Players : \A i \in ItemIds :
              s.items[p][i] \in Nat /\ s.items[p][i] \in 0..(CountRange - 1)
<1>1. /\ s = GoodsOf(s.items, s.mail, s.nextItem, s.left)
      /\ s.items \in [Players -> Counts] /\ s.mail \in [Players -> [Lots -> Nat]]
      /\ s.nextItem \in [Lots -> Nat \ {0}] /\ s.left \in Nat
  BY DEF Goods, GoodsOf
<1>2. ASSUME NEW l \in Lots PROVE Mailed(s, l) \in [Players -> Nat]
  <2>1. \A p \in Players : s.mail[p] \in [Lots -> Nat]
    BY <1>1
  <2> QED
    BY <2>1 DEF Mailed
<1> QED
  BY <1>1, <1>2, CountsType

LEMMA AmountTypes ==
  ASSUME NEW s \in Goods, NEW l \in Lots
  PROVE  /\ Total(Stock(s.items, l)) \in Nat /\ Total(Mailed(s, l)) \in Nat
         /\ LotOf(s, l) \in Nat /\ \A k : Amount(s, l, k) \in Nat
<1>1. Total(Stock(s.items, l)) \in Nat
  BY GoodsParts, StockType
<1>2. Total(Mailed(s, l)) \in Nat
  BY GoodsParts, TotalType
<1>3. LotOf(s, l) \in Nat
  BY <1>1, <1>2 DEF LotOf
<1>4. s.left \in Nat
  BY GoodsParts
<1> QED
  BY <1>1, <1>2, <1>3, <1>4 DEF Amount

LEMMA HeldFinite ==
  ASSUME NEW inv, NEW p
  PROVE  IsFiniteSet(Held(inv, p)) /\ Cardinality(Held(inv, p)) \in Nat
<1>1. Held(inv, p) \in SUBSET ItemIds
  BY DEF Held
<1> QED
  BY <1>1, FiniteConstants, FS_Subset, FS_CardinalityType

(* Nobody has a stack that was not held before.                             *)
NoNewStacks(inv, new) ==
  \A p \in Players : \A i \in ItemIds : new[p][i] # 0 => inv[p][i] # 0

LEMMA TidyKept ==
  ASSUME NEW s, Tidy(s), NEW r \in Goods, r.nextItem = s.nextItem,
         NoNewStacks(s.items, r.items)
  PROVE  Tidy(r)
<1>1. /\ \A p \in Players : \A i \in ItemIds : r.items[p][i] \in Nat
      /\ \A p \in Players : \A i \in ItemIds : s.items[p][i] \in Nat
      /\ s \in Goods /\ Fresh(s) /\ Roomy(s.items)
  BY GoodsParts DEF Tidy
<1>2. Fresh(r)
  BY <1>1, IdsOfLots DEF Fresh, NoNewStacks
<1>3. ASSUME NEW p \in Players PROVE Cardinality(Held(r.items, p)) <= Slots
  <2>1. Held(r.items, p) \subseteq Held(s.items, p)
    BY <1>1 DEF Held, NoNewStacks
  <2>2. Cardinality(Held(r.items, p)) <= Cardinality(Held(s.items, p))
    BY <2>1, HeldFinite, FS_Subset
  <2>3. Cardinality(Held(s.items, p)) <= Slots
    BY <1>1 DEF Roomy
  <2> QED
    BY <2>2, <2>3, HeldFinite, FiniteConstants
<1> QED
  BY <1>2, <1>3 DEF Tidy, Roomy

(* What adding items of a lot to a player's things may do: the others are   *)
(* left alone, and unless stacks were too large before, no stack of the     *)
(* player gets smaller or too large, and no item is made or lost.           *)
Passes(s, r, p, l) ==
  /\ Tidy(r)
  /\ \A q \in Players \ {p} : r.items[q] = s.items[q] /\ r.mail[q] = s.mail[q]
  /\ \A m \in Lots : r.nextItem[m] >= s.nextItem[m]
  /\ Neat(s) =>
       /\ Neat(r)
       /\ \A i \in ItemIds : r.items[p][i] >= s.items[p][i]
       /\ Bounded(r) => \A m \in Lots : Amount(r, m, l) = Amount(s, m, l)

LEMMA PassesNothing ==
  ASSUME NEW s, Tidy(s), NEW p \in Players, NEW l \in Lots
  PROVE  Passes(s, s, p, l)
<1>1. s \in Goods
  BY DEF Tidy
<1>2. /\ \A m \in Lots : s.nextItem[m] \in Nat
      /\ \A i \in ItemIds : s.items[p][i] \in Nat
  BY <1>1, GoodsParts
<1> QED
  BY <1>2 DEF Passes

LEMMA BoundedBefore ==
  ASSUME NEW s \in Goods, NEW r \in Goods,
         \A m \in Lots : r.nextItem[m] >= s.nextItem[m], Bounded(r)
  PROVE  Bounded(s)
<1>1. \A m \in Lots : r.nextItem[m] \in Nat /\ s.nextItem[m] \in Nat
  BY GoodsParts
<1> QED
  BY <1>1, FiniteConstants DEF Bounded

LEMMA PassesOn ==
  ASSUME NEW s, NEW r, NEW u, Tidy(s), NEW p \in Players, NEW l \in Lots,
         Passes(s, r, p, l), Passes(r, u, p, l)
  PROVE  Passes(s, u, p, l)
<1>1. s \in Goods /\ r \in Goods /\ u \in Goods /\ Tidy(u)
  BY DEF Passes, Tidy
<1>2. /\ \A m \in Lots : s.nextItem[m] \in Nat /\ r.nextItem[m] \in Nat /\ u.nextItem[m] \in Nat
      /\ \A i \in ItemIds : s.items[p][i] \in Nat /\ r.items[p][i] \in Nat /\ u.items[p][i] \in Nat
  BY <1>1, GoodsParts
<1>3. \A q \in Players \ {p} : u.items[q] = s.items[q] /\ u.mail[q] = s.mail[q]
  BY DEF Passes
<1>4. /\ \A m \in Lots : u.nextItem[m] >= r.nextItem[m]
      /\ \A m \in Lots : u.nextItem[m] >= s.nextItem[m]
  BY <1>2 DEF Passes
<1>5. ASSUME Neat(s)
      PROVE  /\ Neat(u)
             /\ \A i \in ItemIds : u.items[p][i] >= s.items[p][i]
             /\ Bounded(u) => \A m \in Lots : Amount(u, m, l) = Amount(s, m, l)
  <2>1. /\ Neat(r) /\ Neat(u)
        /\ \A i \in ItemIds : r.items[p][i] >= s.items[p][i]
        /\ \A i \in ItemIds : u.items[p][i] >= r.items[p][i]
        /\ Bounded(r) => \A m \in Lots : Amount(r, m, l) = Amount(s, m, l)
        /\ Bounded(u) => \A m \in Lots : Amount(u, m, l) = Amount(r, m, l)
    BY <1>5 DEF Passes
  <2>2. \A i \in ItemIds : u.items[p][i] >= s.items[p][i]
    BY <1>2, <2>1
  <2>3. Bounded(u) => Bounded(r)
    BY <1>1, <1>4, BoundedBefore
  <2> QED
    BY <2>1, <2>2, <2>3
<1> QED
  BY <1>1, <1>3, <1>4, <1>5 DEF Passes

-----------------------------------------------------------------------------
(* AddItem, step by step: the smallest stack first.                         *)
LEMMA FillCases ==
  ASSUME NEW s \in Goods, NEW p \in Players, NEW l \in Lots
  PROVE  LET r == Fill(s, p, l)
             i == SmallestStack(s.items, p, l)
             delta == Lesser(s.left, Count(StackSize[l] - s.items[p][i]))
         IN  \/ r = s
             \/ /\ i \in HeldOf(s.items, p, l)
                /\ r = GoodsOf(WithCount(s.items, p, i, Count(s.items[p][i] + delta)),
                               s.mail, s.nextItem, s.left - delta)
<1> DEFINE r == Fill(s, p, l)
           i == SmallestStack(s.items, p, l)
           delta == Lesser(s.left, Count(StackSize[l] - s.items[p][i]))
           count == Count(s.items[p][i] + delta)
<1>1. CASE HeldOf(s.items, p, l) = {}
  BY <1>1 DEF Fill
<1>2. CASE HeldOf(s.items, p, l) # {}
  <2>1. i \in HeldOf(s.items, p, l)
    BY <1>2, SmallestIsHeld, GoodsParts
  <2>2. r = [s EXCEPT !.items[p][i] = Count(@ + delta), !.left = @ - delta]
    BY <1>2 DEF Fill
  <2>3. [s EXCEPT !.items[p][i] = Count(@ + delta), !.left = @ - delta]
          = [s EXCEPT !.items = WithCount(s.items, p, i, count), !.left = s.left - delta]
    <3>1. i \in ItemIds /\ s.items \in [Players -> Counts]
      BY <2>1, GoodsParts, IdsOfLots DEF HeldOf
    <3> HIDE DEF i, delta
    <3> QED
      BY <3>1 DEF WithCount, Goods, Counts
  <2> DEFINE inv == WithCount(s.items, p, i, count)
             n == s.left - delta
  <2>4. r = [s EXCEPT !.items = inv, !.left = n]
    BY <2>2, <2>3
  <2> HIDE DEF r, inv, n
  <2>5. r = GoodsOf(inv, s.mail, s.nextItem, n)
    BY <2>4 DEF Goods, GoodsOf
  <2> QED
    BY <2>1, <2>5 DEF r, inv, n
<1> QED
  BY <1>1, <1>2

LEMMA FillPasses ==
  ASSUME NEW s, Tidy(s), NEW p \in Players, NEW l \in Lots
  PROVE  Passes(s, Fill(s, p, l), p, l)
<1> DEFINE r == Fill(s, p, l)
           i == SmallestStack(s.items, p, l)
           c == s.items[p][i]
           fits == Count(StackSize[l] - c)
           delta == Lesser(s.left, fits)
           count == Count(c + delta)
           n == s.left - delta
           inv == WithCount(s.items, p, i, count)
<1>0. /\ s \in Goods /\ s.items \in [Players -> Counts]
      /\ s.mail \in [Players -> [Lots -> Nat]] /\ s.nextItem \in [Lots -> Nat \ {0}]
      /\ s.left \in Nat
      /\ \A m \in Lots : s.nextItem[m] \in Nat
  BY GoodsParts DEF Tidy
<1>1. CASE r = s
  BY <1>1, PassesNothing
<1>2. CASE /\ i \in HeldOf(s.items, p, l)
           /\ r = GoodsOf(inv, s.mail, s.nextItem, n)
  <2>1. /\ i \in ItemIds /\ i \in OfLot(l) /\ i[1] = l
        /\ c \in 0..(CountRange - 1) /\ c # 0
    BY <1>0, <1>2, IdsOfLots, CountsType DEF HeldOf
  <2>2. StackSize[l] \in 1..(CountRange - 1) /\ CountRange \in Nat
    BY StackTypes
  <2>3. fits \in 0..(CountRange - 1) /\ (c <= StackSize[l] => fits = StackSize[l] - c)
    <3> HIDE DEF c
    <3> QED
      BY <2>1, <2>2 DEF Count
  <2>4. delta \in 0..(CountRange - 1) /\ delta <= s.left /\ delta <= fits
    <3> HIDE DEF fits
    <3> QED
      BY <1>0, <2>2, <2>3 DEF Lesser
  <2>5. /\ count \in 0..(CountRange - 1)
        /\ c <= StackSize[l] => count = c + delta /\ count <= StackSize[l]
    <3> HIDE DEF c, fits, delta
    <3>1. count \in 0..(CountRange - 1)
      BY <2>1, <2>2, <2>4, CountType
    <3>2. c <= StackSize[l] => c + delta \in 0..(CountRange - 1) /\ c + delta <= StackSize[l]
      BY <2>1, <2>2, <2>3, <2>4
    <3>3. c <= StackSize[l] => count = c + delta
      BY <3>2, CountType
    <3> QED
      BY <3>1, <3>2, <3>3
  <2>6. n \in Nat /\ n + delta = s.left
    <3> HIDE DEF delta
    <3> QED
      BY <1>0, <2>4
  <2> HIDE DEF r, i, n, inv, count, delta, fits
  <2>7. /\ inv \in [Players -> Counts]
        /\ inv[p][i] = count
        /\ \A j \in ItemIds \ {i} : inv[p][j] = s.items[p][j]
        /\ \A q \in Players \ {p} : inv[q] = s.items[q]
        /\ Total(Stock(inv, l)) + c = Total(Stock(s.items, l)) + count
        /\ \A m \in Lots \ {l} : Total(Stock(inv, m)) = Total(Stock(s.items, m))
    BY <1>0, <2>1, <2>5, StockChange DEF inv
  <2>8. /\ r \in Goods /\ r.items = inv /\ r.mail = s.mail
        /\ r.nextItem = s.nextItem /\ r.left = n
    <3> DEFINE post == s.mail
               next == s.nextItem
    <3>1. /\ inv \in [Players -> Counts] /\ post \in [Players -> [Lots -> Nat]]
          /\ next \in [Lots -> Nat \ {0}] /\ n \in Nat
      BY <1>0, <2>6, <2>7
    <3>2. r = GoodsOf(inv, post, next, n)
      BY <1>2
    <3> HIDE DEF post, next
    <3>3. /\ r \in Goods /\ r.items = inv /\ r.mail = post
          /\ r.nextItem = next /\ r.left = n
      BY <3>1, <3>2 DEF Goods, GoodsOf
    <3> QED
      BY <3>3 DEF post, next
  <2>9. NoNewStacks(s.items, r.items)
    BY <2>1, <2>7, <2>8 DEF NoNewStacks
  <2>10. Tidy(r)
    BY <2>8, <2>9, TidyKept
  <2>11. ASSUME Neat(s)
         PROVE  /\ Neat(r)
                /\ \A j \in ItemIds : r.items[p][j] >= s.items[p][j]
                /\ \A m \in Lots : Amount(r, m, l) = Amount(s, m, l)
    <3>1. c <= StackSize[l]
      BY <2>1, <2>11 DEF Neat
    <3>2. count = c + delta /\ count <= StackSize[l]
      BY <2>5, <3>1
    <3>3. Neat(r)
      <4> SUFFICES ASSUME NEW q \in Players, NEW m \in Lots, NEW j \in OfLot(m)
                   PROVE  inv[q][j] <= StackSize[m]
        BY <2>8 DEF Neat
      <4>1. j \in ItemIds /\ j[1] = m /\ s.items[q][j] <= StackSize[m]
        BY <2>11, IdsOfLots DEF Neat
      <4>2. CASE q = p /\ j = i
        BY <2>1, <2>7, <3>2, <4>1, <4>2
      <4>3. CASE ~(q = p /\ j = i)
        BY <2>7, <4>1, <4>3
      <4> QED
        BY <4>2, <4>3
    <3>4. ASSUME NEW j \in ItemIds PROVE r.items[p][j] >= s.items[p][j]
      <4>1. s.items[p][j] \in Nat
        BY <1>0, CountsType
      <4>2. CASE j = i
        <5>1. s.items[p][j] = c /\ r.items[p][j] = count
          BY <2>7, <2>8, <4>2
        <5> HIDE DEF c
        <5> QED
          BY <2>1, <2>4, <3>2, <5>1
      <4>3. CASE j # i
        BY <2>7, <2>8, <4>1, <4>3
      <4> QED
        BY <4>2, <4>3
    <3>5. ASSUME NEW m \in Lots PROVE Amount(r, m, l) = Amount(s, m, l)
      <4>1. Mailed(r, m) = Mailed(s, m)
        BY <2>8 DEF Mailed
      <4>2. CASE m # l
        <5>1. Total(Stock(r.items, m)) = Total(Stock(s.items, m))
          BY <2>7, <2>8, <4>2
        <5> QED
          BY <4>1, <4>2, <5>1 DEF Amount, LotOf
      <4>3. CASE m = l
        <5> DEFINE A == Total(Stock(r.items, l))
                   B == Total(Stock(s.items, l))
                   M == Total(Mailed(s, l))
        <5>1. A \in Nat /\ B \in Nat /\ M \in Nat
          BY <1>0, <2>8, AmountTypes
        <5>2. A + c = B + count
          BY <2>7, <2>8
        <5>3. c \in Nat /\ delta \in Nat /\ n \in Nat /\ count = c + delta
          BY <2>1, <2>2, <2>4, <2>6, <3>2
        <5>4. s.left = n + delta
          BY <2>6
        <5> HIDE DEF A, B, M, c
        <5>5. A = B + delta
          BY <5>1, <5>2, <5>3
        <5>6. (A + M) + n = (B + M) + s.left
          BY <5>1, <5>3, <5>4, <5>5
        <5> QED
          BY <2>8, <4>1, <4>3, <5>6 DEF Amount, LotOf, A, B, M
      <4> QED
        BY <4>2, <4>3
    <3> QED
      BY <3>3, <3>4, <3>5
  <2>12. \A m \in Lots : r.nextItem[m] >= s.nextItem[m]
    BY <1>0, <2>8
  <2>13. \A q \in Players \ {p} : r.items[q] = s.items[q] /\ r.mail[q] = s.mail[q]
    BY <2>7, <2>8
  <2> QED
    BY <2>10, <2>11, <2>12, <2>13 DEF Passes, r
<1> QED
  <2>1. \/ r = s
        \/ /\ i \in HeldOf(s.items, p, l)
           /\ r = GoodsOf(inv, s.mail, s.nextItem, n)
    BY <1>0, FillCases
  <2> QED
    BY <1>1, <1>2, <2>1

(* Then a stack of what is left, in a free slot or in the mail.             *)
LEMMA NewStackCases ==
  ASSUME NEW s \in Goods, NEW p \in Players, NEW l \in Lots
  PROVE  LET r == NewStack(s, p, l)
             size == Lesser(s.left, StackSize[l])
             next == [s.nextItem EXCEPT ![l] = s.nextItem[l] + 1]
             post == [s.mail EXCEPT ![p] = [s.mail[p] EXCEPT ![l] = s.mail[p][l] + size]]
         IN  \/ /\ HasRoom(s.items, p)
                /\ r = GoodsOf(WithCount(s.items, p, <<l, s.nextItem[l]>>, size),
                               s.mail, next, s.left - size)
             \/ r = GoodsOf(s.items, post, s.nextItem, s.left - size)
<1> DEFINE r == NewStack(s, p, l)
           size == Lesser(s.left, StackSize[l])
           rest == [s EXCEPT !.left = @ - size]
           n == s.left - size
           i == <<l, s.nextItem[l]>>
           inv == WithCount(s.items, p, i, size)
           next == [s.nextItem EXCEPT ![l] = s.nextItem[l] + 1]
           post == [s.mail EXCEPT ![p] = [s.mail[p] EXCEPT ![l] = s.mail[p][l] + size]]
<1>1. /\ s.items \in [Players -> Counts] /\ s.mail \in [Players -> [Lots -> Nat]]
      /\ s.nextItem \in [Lots -> Nat \ {0}]
  BY GoodsParts
<1>2. /\ rest = GoodsOf(s.items, s.mail, s.nextItem, n)
      /\ rest.items = s.items /\ rest.mail = s.mail /\ rest.nextItem = s.nextItem
  <2> HIDE DEF size
  <2> QED
    BY DEF Goods, GoodsOf
<1>3. CASE HasRoom(s.items, p)
  <2>1. r = [rest EXCEPT !.items[p][i] = size, !.nextItem[l] = @ + 1]
    BY <1>3 DEF NewStack
  <2> HIDE DEF r, rest, i, size, n
  <2>2. r = [rest EXCEPT !.items = inv, !.nextItem = next]
    BY <1>1, <1>2, <2>1 DEF WithCount, GoodsOf
  <2> HIDE DEF inv, next
  <2>3. r = GoodsOf(inv, s.mail, next, n)
    BY <1>2, <2>2 DEF GoodsOf
  <2> QED
    BY <1>3, <2>3 DEF r, inv, next, n, size, i
<1>4. CASE ~HasRoom(s.items, p)
  <2>1. r = [rest EXCEPT !.mail[p][l] = @ + size]
    BY <1>4 DEF NewStack
  <2> HIDE DEF r, rest, i, size, n
  <2>2. r = [rest EXCEPT !.mail = post]
    BY <1>1, <1>2, <2>1 DEF GoodsOf
  <2> HIDE DEF post
  <2>3. r = GoodsOf(s.items, post, s.nextItem, n)
    BY <1>2, <2>2 DEF GoodsOf
  <2> QED
    BY <2>3 DEF r, post, n, size
<1> QED
  BY <1>3, <1>4

(* A stack in the mail.                                                     *)
LEMMA MailedPasses ==
  ASSUME NEW s, Tidy(s), NEW p \in Players, NEW l \in Lots,
         NEW size \in Nat, size <= s.left, NEW post, NEW r,
         post = [s.mail EXCEPT ![p] = [s.mail[p] EXCEPT ![l] = s.mail[p][l] + size]],
         r = GoodsOf(s.items, post, s.nextItem, s.left - size)
  PROVE  Passes(s, r, p, l)
<1>0. /\ s \in Goods /\ s.items \in [Players -> Counts]
      /\ s.mail \in [Players -> [Lots -> Nat]] /\ s.nextItem \in [Lots -> Nat \ {0}]
      /\ s.left \in Nat
      /\ \A m \in Lots : s.nextItem[m] \in Nat
      /\ \A i \in ItemIds : s.items[p][i] \in Nat
  BY GoodsParts DEF Tidy
<1> DEFINE n == s.left - size
           row == [s.mail[p] EXCEPT ![l] = s.mail[p][l] + size]
<1>1. n \in Nat /\ n + size = s.left
  BY <1>0
<1>2. /\ row \in [Lots -> Nat] /\ s.mail[p] \in [Lots -> Nat]
      /\ row[l] = s.mail[p][l] + size
      /\ \A m \in Lots \ {l} : row[m] = s.mail[p][m]
  <2>1. s.mail[p] \in [Lots -> Nat]
    BY <1>0
  <2>2. s.mail[p][l] + size \in Nat
    BY <2>1
  <2> QED
    BY <2>1, <2>2
<1>3. post = [s.mail EXCEPT ![p] = row]
  OBVIOUS
<1> HIDE DEF n, row
<1>4. /\ post \in [Players -> [Lots -> Nat]] /\ post[p] = row
      /\ \A q \in Players \ {p} : post[q] = s.mail[q]
  BY <1>0, <1>2, <1>3
<1>5. /\ r \in Goods /\ r.items = s.items /\ r.mail = post
      /\ r.nextItem = s.nextItem /\ r.left = n
  <2> DEFINE inv == s.items
             next == s.nextItem
  <2>1. r = GoodsOf(inv, post, next, n)
    BY DEF n
  <2>2. inv \in [Players -> Counts] /\ next \in [Lots -> Nat \ {0}]
    BY <1>0
  <2> HIDE DEF inv, next
  <2>3. r \in Goods /\ r.items = inv /\ r.mail = post /\ r.nextItem = next /\ r.left = n
    BY <1>1, <1>4, <2>1, <2>2 DEF Goods, GoodsOf
  <2> QED
    BY <2>3 DEF inv, next
<1>6. Tidy(r)
  BY <1>5, TidyKept DEF NoNewStacks
<1>7. ASSUME NEW m \in Lots PROVE Amount(r, m, l) = Amount(s, m, l)
  <2>1. Total(Stock(r.items, m)) = Total(Stock(s.items, m))
    BY <1>5
  <2>2. CASE m # l
    <3>1. Mailed(r, m) = Mailed(s, m)
      <4>1. \A q \in Players : post[q][m] = s.mail[q][m]
        BY <1>2, <1>4, <2>2
      <4> QED
        BY <1>5, <4>1 DEF Mailed
    <3> QED
      BY <2>1, <2>2, <3>1 DEF Amount, LotOf
  <2>3. CASE m = l
    <3> DEFINE old == Mailed(s, l)
               x == old[p]
               y == x + size
               new == Mailed(r, l)
    <3>1. old \in [Players -> Nat] /\ x = s.mail[p][l] /\ x \in Nat /\ y \in Nat
      <4>1. old \in [Players -> Nat]
        BY <1>0, GoodsParts
      <4> QED
        BY <4>1 DEF Mailed
    <3>2. new = WithAmount(old, p, y)
      BY <1>2, <1>4, <1>5, <3>1 DEF Mailed, WithAmount
    <3> HIDE DEF old, new, y
    <3>3. Total(new) + x = Total(old) + y
      BY <3>1, <3>2, TotalChange
    <3> DEFINE A == Total(new)
               B == Total(old)
               M == Total(Stock(s.items, l))
    <3>4. A \in Nat /\ B \in Nat /\ M \in Nat
      BY <1>0, <1>5, AmountTypes DEF old, new
    <3>5. A + x = B + (x + size)
      BY <3>3 DEF y
    <3> HIDE DEF A, B, M, x
    <3>6. A = B + size
      BY <3>1, <3>4, <3>5
    <3>7. (M + A) + n = (M + B) + s.left
      BY <1>1, <3>4, <3>6
    <3> QED
      BY <1>5, <2>1, <2>3, <3>7 DEF Amount, LotOf, A, B, M, old, new
  <2> QED
    BY <2>2, <2>3
<1>8. Neat(s) => Neat(r)
  BY <1>5 DEF Neat
<1>9. /\ \A m \in Lots : r.nextItem[m] >= s.nextItem[m]
      /\ \A i \in ItemIds : r.items[p][i] >= s.items[p][i]
  <2>1. \A m \in Lots : s.nextItem[m] \in Nat /\ r.nextItem[m] = s.nextItem[m]
    BY <1>0, <1>5
  <2>2. \A i \in ItemIds : s.items[p][i] \in Nat /\ r.items[p][i] = s.items[p][i]
    BY <1>0, <1>5
  <2> QED
    BY <2>1, <2>2
<1>10. \A q \in Players \ {p} : r.items[q] = s.items[q] /\ r.mail[q] = s.mail[q]
  BY <1>4, <1>5
<1> QED
  BY <1>6, <1>7, <1>8, <1>9, <1>10 DEF Passes

(* A stack in a slot: its number was not given before, so there was nothing *)
(* by that number.                                                          *)
LEMMA StackedPasses ==
  ASSUME NEW s, Tidy(s), NEW p \in Players, NEW l \in Lots, HasRoom(s.items, p),
         NEW size \in 0..StackSize[l], size <= s.left, NEW next,
         next = [s.nextItem EXCEPT ![l] = s.nextItem[l] + 1]
  PROVE  Passes(s, GoodsOf(WithCount(s.items, p, <<l, s.nextItem[l]>>, size),
                           s.mail, next, s.left - size), p, l)
<1> DEFINE r == GoodsOf(WithCount(s.items, p, <<l, s.nextItem[l]>>, size),
                        s.mail, next, s.left - size)
           n == s.left - size
           k == s.nextItem[l]
           i == <<l, k>>
           inv == WithCount(s.items, p, i, size)
<1>0. /\ s \in Goods /\ Fresh(s) /\ Roomy(s.items) /\ s.items \in [Players -> Counts]
      /\ s.mail \in [Players -> [Lots -> Nat]] /\ s.nextItem \in [Lots -> Nat \ {0}]
      /\ s.left \in Nat
      /\ \A m \in Lots : s.nextItem[m] \in Nat
      /\ \A j \in ItemIds : s.items[p][j] \in Nat
  BY GoodsParts DEF Tidy
<1>1. /\ n \in Nat /\ n + size = s.left /\ size \in Nat /\ size \in 0..(CountRange - 1)
      /\ size <= StackSize[l]
  <2> DEFINE most == StackSize[l]
             had  == s.left
  <2>1. most \in 1..(CountRange - 1) /\ CountRange \in Nat /\ had \in Nat
    BY <1>0, StackTypes
  <2>2. size \in 0..most /\ size <= had
    OBVIOUS
  <2> HIDE DEF most, had
  <2>3. /\ had - size \in Nat /\ (had - size) + size = had
        /\ size \in Nat /\ size \in 0..(CountRange - 1) /\ size <= most
    BY <2>1, <2>2
  <2> QED
    BY <2>3 DEF most, had
<1>2. k \in Nat /\ k # 0
  BY <1>0
<1> HIDE DEF r, n, k, i, inv
<1>3. /\ next \in [Lots -> Nat \ {0}] /\ next[l] = k + 1
      /\ \A m \in Lots \ {l} : next[m] = s.nextItem[m]
  <2>1. next = [s.nextItem EXCEPT ![l] = k + 1]
    BY DEF k
  <2>2. k + 1 \in Nat \ {0}
    BY <1>2
  <2> QED
    BY <1>0, <2>1, <2>2
<1>4. \A m \in Lots : next[m] \in Nat /\ next[m] >= s.nextItem[m]
  <2> TAKE m \in Lots
  <2>1. CASE m = l
    <3>1. s.nextItem[m] = k
      BY <2>1 DEF k
    <3> QED
      BY <1>2, <1>3, <2>1, <3>1
  <2>2. CASE m # l
    BY <1>0, <1>3, <2>2
  <2> QED
    BY <2>1, <2>2
<1>5. /\ inv \in [Players -> Counts]
      /\ k \notin Numbers => inv = s.items
      /\ k \in Numbers =>
           /\ i \in ItemIds /\ i \in OfLot(l) /\ i[1] = l
           /\ s.items[p][i] = 0 /\ inv[p][i] = size
           /\ \A j \in ItemIds \ {i} : inv[p][j] = s.items[p][j]
           /\ Total(Stock(inv, l)) = Total(Stock(s.items, l)) + size
           /\ \A m \in Lots \ {l} : Total(Stock(inv, m)) = Total(Stock(s.items, m))
      /\ \A q \in Players \ {p} : inv[q] = s.items[q]
  <2>1. CASE k \notin Numbers
    <3>1. i \notin ItemIds
      BY <2>1 DEF ItemIds, i
    <3>2. s.items[p] \in Counts
      BY <1>0
    <3>3. [s.items[p] EXCEPT ![i] = size] = s.items[p]
      BY <3>1, <3>2 DEF Counts
    <3>4. inv = [s.items EXCEPT ![p] = [s.items[p] EXCEPT ![i] = size]]
      BY DEF inv, WithCount
    <3>5. inv = s.items
      BY <1>0, <3>3, <3>4
    <3> QED
      BY <1>0, <2>1, <3>5
  <2>2. CASE k \in Numbers
    <3>1. i \in ItemIds /\ i \in OfLot(l) /\ i[1] = l
      BY <2>2, IdsOfLots DEF i
    <3>2. s.items[p][i] = 0
      <4>1. k >= s.nextItem[l]
        BY <1>2 DEF k
      <4> QED
        BY <1>0, <2>2, <4>1 DEF Fresh, i
    <3>3. /\ inv \in [Players -> Counts]
          /\ inv[p][i] = size
          /\ \A j \in ItemIds \ {i} : inv[p][j] = s.items[p][j]
          /\ \A q \in Players \ {p} : inv[q] = s.items[q]
          /\ Total(Stock(inv, l)) + s.items[p][i] = Total(Stock(s.items, l)) + size
          /\ \A m \in Lots \ {l} : Total(Stock(inv, m)) = Total(Stock(s.items, m))
      BY <1>0, <1>1, <3>1, StockChange DEF inv
    <3>4. Total(Stock(inv, l)) \in Nat /\ Total(Stock(s.items, l)) \in Nat
      BY <1>0, <3>3, StockType
    <3>5. Total(Stock(inv, l)) = Total(Stock(s.items, l)) + size
      BY <1>1, <3>2, <3>3, <3>4
    <3> QED
      BY <2>2, <3>1, <3>2, <3>3, <3>5
  <2> QED
    BY <2>1, <2>2
<1>6. /\ r \in Goods /\ r.items = inv /\ r.mail = s.mail
      /\ r.nextItem = next /\ r.left = n
  <2> DEFINE post == s.mail
  <2>1. r = GoodsOf(inv, post, next, n)
    BY DEF r, n, inv, i, k
  <2>2. /\ post \in [Players -> [Lots -> Nat]] /\ inv \in [Players -> Counts]
        /\ next \in [Lots -> Nat \ {0}] /\ n \in Nat
    BY <1>0, <1>1, <1>3, <1>5
  <2> HIDE DEF post
  <2>3. r \in Goods /\ r.items = inv /\ r.mail = post /\ r.nextItem = next /\ r.left = n
    BY <2>1, <2>2 DEF Goods, GoodsOf
  <2> QED
    BY <2>3 DEF post
<1>7. Fresh(r)
  <2> SUFFICES ASSUME NEW q \in Players, NEW m \in Lots, NEW j \in Numbers, j >= next[m]
               PROVE  inv[q][<<m, j>>] = 0
    BY <1>6 DEF Fresh
  <2>1. j \in Nat /\ j >= s.nextItem[m]
    BY <1>0, <1>4, FiniteConstants DEF Numbers
  <2>2. s.items[q][<<m, j>>] = 0 /\ <<m, j>> \in ItemIds
    BY <1>0, <2>1, IdsOfLots DEF Fresh
  <2>3. <<m, j>> # i
    BY <1>2, <1>3, <2>1 DEF i
  <2> QED
    BY <1>5, <2>2, <2>3
<1>8. Roomy(inv)
  <2>1. CASE k \notin Numbers
    BY <1>0, <1>5, <2>1
  <2>2. CASE k \in Numbers
    <3>1. ASSUME NEW q \in Players \ {p} PROVE Cardinality(Held(inv, q)) <= Slots
      <4>1. Held(inv, q) = Held(s.items, q)
        BY <1>5 DEF Held
      <4> QED
        BY <1>0, <4>1 DEF Roomy
    <3>2. Cardinality(Held(inv, p)) <= Slots
      <4> DEFINE H == Held(s.items, p)
                 G == Held(inv, p)
      <4>1. G \subseteq H \cup {i}
        BY <1>5, <2>2 DEF Held
      <4>2. /\ IsFiniteSet(H) /\ Cardinality(H) \in Nat /\ Cardinality(H) < Slots
            /\ Cardinality(G) \in Nat
        BY HeldFinite DEF HasRoom
      <4> HIDE DEF H, G
      <4>3. IsFiniteSet(H \cup {i}) /\ Cardinality(H \cup {i}) <= Cardinality(H) + 1
        <5>1. IsFiniteSet(H)
          BY <4>2
        <5>2. /\ IsFiniteSet(H \cup {i})
              /\ Cardinality(H \cup {i}) = IF i \in H THEN Cardinality(H) ELSE Cardinality(H) + 1
          BY <5>1, FS_AddElement
        <5> QED
          BY <4>2, <5>2
      <4>4. Cardinality(G) <= Cardinality(H \cup {i}) /\ Cardinality(H \cup {i}) \in Nat
        BY <4>1, <4>3, FS_Subset, FS_CardinalityType
      <4>5. Cardinality(G) <= Slots
        BY <4>2, <4>3, <4>4, FiniteConstants
      <4> QED
        BY <4>5 DEF G
    <3> QED
      BY <3>1, <3>2 DEF Roomy
  <2> QED
    BY <2>1, <2>2
<1>9. Tidy(r)
  BY <1>6, <1>7, <1>8 DEF Tidy
<1>10. ASSUME Neat(s) PROVE Neat(r)
  <2> SUFFICES ASSUME NEW q \in Players, NEW m \in Lots, NEW j \in OfLot(m)
               PROVE  inv[q][j] <= StackSize[m]
    BY <1>6 DEF Neat
  <2>1. j \in ItemIds /\ j[1] = m /\ s.items[q][j] <= StackSize[m]
    BY <1>10, IdsOfLots DEF Neat
  <2>2. CASE q = p /\ j = i /\ k \in Numbers
    BY <1>1, <1>5, <2>1, <2>2
  <2>3. CASE ~(q = p /\ j = i /\ k \in Numbers)
    BY <1>5, <2>1, <2>3
  <2> QED
    BY <2>2, <2>3
<1>11. ASSUME NEW j \in ItemIds PROVE r.items[p][j] >= s.items[p][j]
  <2>1. s.items[p][j] \in Nat /\ r.items[p][j] = inv[p][j]
    BY <1>0, <1>6
  <2>2. CASE j = i /\ k \in Numbers
    BY <1>1, <1>5, <2>1, <2>2
  <2>3. CASE ~(j = i /\ k \in Numbers)
    BY <1>5, <2>1, <2>3
  <2> QED
    BY <2>2, <2>3
<1>12. ASSUME Bounded(r), NEW m \in Lots PROVE Amount(r, m, l) = Amount(s, m, l)
  <2>1. k \in Numbers
    <3>1. k + 1 <= MaxItems + 1
      BY <1>3, <1>6, <1>12 DEF Bounded
    <3> QED
      BY <1>2, <3>1, FiniteConstants DEF Numbers
  <2>2. Mailed(r, m) = Mailed(s, m)
    BY <1>6 DEF Mailed
  <2>3. CASE m # l
    <3>1. Total(Stock(r.items, m)) = Total(Stock(s.items, m))
      BY <1>5, <1>6, <2>1, <2>3
    <3> QED
      BY <2>2, <2>3, <3>1 DEF Amount, LotOf
  <2>4. CASE m = l
    <3> DEFINE A == Total(Stock(r.items, l))
               B == Total(Stock(s.items, l))
               M == Total(Mailed(s, l))
    <3>1. A \in Nat /\ B \in Nat /\ M \in Nat
      BY <1>0, <1>6, AmountTypes
    <3>2. A = B + size
      BY <1>5, <1>6, <2>1
    <3> HIDE DEF A, B, M
    <3>3. (A + M) + n = (B + M) + s.left
      BY <1>1, <3>1, <3>2
    <3> QED
      BY <1>6, <2>2, <2>4, <3>3 DEF Amount, LotOf, A, B, M
  <2> QED
    BY <2>3, <2>4
<1>13. \A m \in Lots : r.nextItem[m] >= s.nextItem[m]
  BY <1>4, <1>6
<1>14. \A q \in Players \ {p} : r.items[q] = s.items[q] /\ r.mail[q] = s.mail[q]
  BY <1>5, <1>6
<1> QED
  BY <1>9, <1>10, <1>11, <1>12, <1>13, <1>14 DEF Passes, r

LEMMA NewStackPasses ==
  ASSUME NEW s, Tidy(s), NEW p \in Players, NEW l \in Lots
  PROVE  /\ Passes(s, NewStack(s, p, l), p, l)
         /\ s.left # 0 => NewStack(s, p, l).left < s.left
<1> DEFINE r == NewStack(s, p, l)
           size == Lesser(s.left, StackSize[l])
           next == [s.nextItem EXCEPT ![l] = s.nextItem[l] + 1]
           post == [s.mail EXCEPT ![p] = [s.mail[p] EXCEPT ![l] = s.mail[p][l] + size]]
           inv == WithCount(s.items, p, <<l, s.nextItem[l]>>, size)
<1>1. s \in Goods /\ s.left \in Nat
  BY GoodsParts DEF Tidy
<1>2. /\ size \in 0..StackSize[l] /\ size \in Nat /\ size <= s.left
      /\ s.left # 0 => size > 0
  BY <1>1, StackTypes DEF Lesser
<1>3. s.left # 0 => s.left - size < s.left
  <2> HIDE DEF size
  <2> QED
    BY <1>1, <1>2
<1>4. \/ HasRoom(s.items, p) /\ r = GoodsOf(inv, s.mail, next, s.left - size)
      \/ r = GoodsOf(s.items, post, s.nextItem, s.left - size)
  BY <1>1, NewStackCases
<1> HIDE DEF r, size
<1>5. Passes(s, r, p, l)
  BY <1>2, <1>4, StackedPasses, MailedPasses
<1>6. r.left = s.left - size
  BY <1>4 DEF GoodsOf
<1> QED
  BY <1>3, <1>5, <1>6 DEF r

(* New stacks until nothing is left: each takes something, so as many       *)
(* rounds as there are items are enough.                                    *)
Round(v, p, l) == IF v.left = 0 THEN v ELSE NewStack(v, p, l)

StacksOf(s, p, l, f) ==
  f = [k \in 0..s.left |-> IF k = 0 THEN s ELSE Round(f[k - 1], p, l)]

LEMMA NewStacksIterates ==
  ASSUME NEW s, NEW p, NEW l
  PROVE  NewStacks(s, p, l) = (CHOOSE f : StacksOf(s, p, l, f))[s.left]
BY DEF NewStacks, StacksOf, Round

LEMMA RoundPasses ==
  ASSUME NEW s, Tidy(s), NEW p \in Players, NEW l \in Lots,
         NEW v, Passes(s, v, p, l)
  PROVE  /\ Passes(s, Round(v, p, l), p, l)
         /\ v.left # 0 => Round(v, p, l).left < v.left
<1>1. Tidy(v)
  BY DEF Passes
<1>2. CASE v.left = 0
  BY <1>2 DEF Round
<1>3. CASE v.left # 0
  <2> DEFINE r == NewStack(v, p, l)
  <2>1. Passes(v, r, p, l) /\ r.left < v.left /\ Round(v, p, l) = r
    BY <1>1, <1>3, NewStackPasses DEF Round
  <2> HIDE DEF r
  <2>2. Passes(s, r, p, l)
    BY <2>1, PassesOn
  <2> QED
    BY <2>1, <2>2
<1> QED
  BY <1>2, <1>3

LEMMA StacksExist ==
  ASSUME NEW s, Tidy(s), NEW p \in Players, NEW l \in Lots
  PROVE  \E f : StacksOf(s, p, l, f)
<1> DEFINE n == s.left
           S == {v \in Goods : Passes(s, v, p, l)}
           step == [x \in (1..n) \X S |-> Round(x[2], p, l)]
<1>0. n \in Nat /\ s \in S
  BY GoodsParts, PassesNothing DEF Tidy
<1>1. Rounds(step, n, S)
  <2>1. \A v \in S : Round(v, p, l) \in S
    BY RoundPasses DEF Passes, Tidy
  <2> HIDE DEF n, S
  <2>2. \A x \in (1..n) \X S : Round(x[2], p, l) \in S
    BY <2>1
  <2> QED
    BY <2>2 DEF Rounds
<1>2. PICK f : LoopOf(f, s, step, n, S)
  <2> HIDE DEF step, n, S
  <2> QED
    BY <1>0, <1>1, LoopExists
<1>3. ASSUME NEW k \in 0..n, k # 0 PROVE f[k] = Round(f[k - 1], p, l)
  <2>1. k \in 1..n /\ k - 1 \in 0..n
    BY <1>0, <1>3
  <2>2. f[k - 1] \in S /\ f[k] = step[<<k, f[k - 1]>>]
    <3> HIDE DEF step, n, S
    <3> QED
      BY <1>2, <2>1 DEF LoopOf
  <2> HIDE DEF n, S
  <2> QED
    BY <2>1, <2>2
<1>4. f = [k \in 0..n |-> IF k = 0 THEN s ELSE Round(f[k - 1], p, l)]
  <2>1. f = [k \in 0..n |-> f[k]] /\ f[0] = s
    BY <1>2 DEF LoopOf
  <2> HIDE DEF step, n, S
  <2> QED
    BY <1>3, <2>1
<1> HIDE DEF step
<1> QED
  BY <1>4 DEF StacksOf

LEMMA NewStacksPasses ==
  ASSUME NEW s, Tidy(s), NEW p \in Players, NEW l \in Lots
  PROVE  Passes(s, NewStacks(s, p, l), p, l) /\ NewStacks(s, p, l).left = 0
<1> DEFINE n == s.left
           f == CHOOSE any : StacksOf(s, p, l, any)
           Fine(v, k) == Passes(s, v, p, l) /\ (v.left + k <= n \/ v.left = 0)
           Reached == {k \in Nat : k <= n => Fine(f[k], k)}
<1>0. n \in Nat
  BY GoodsParts DEF Tidy
<1>1. StacksOf(s, p, l, f)
  <2>1. \E any : StacksOf(s, p, l, any)
    BY StacksExist
  <2> QED
    BY <2>1
<1>2. NewStacks(s, p, l) = f[n]
  BY NewStacksIterates
<1> HIDE DEF f
<1>3. \A k \in 0..n : f[k] = IF k = 0 THEN s ELSE Round(f[k - 1], p, l)
  BY <1>1 DEF StacksOf
<1>4. 0 \in Reached
  <2>1. f[0] = s
    BY <1>0, <1>3
  <2>2. Fine(s, 0)
    BY <1>0, PassesNothing
  <2> QED
    BY <2>1, <2>2
<1>5. ASSUME NEW k \in Nat, k \in Reached PROVE k + 1 \in Reached
  <2> SUFFICES ASSUME k + 1 <= n PROVE Fine(f[k + 1], k + 1)
    OBVIOUS
  <2> DEFINE v == f[k]
             r == Round(v, p, l)
  <2>1. k <= n /\ k + 1 \in 0..n /\ (k + 1) - 1 = k /\ k + 1 # 0
    BY <1>0
  <2>2. Fine(v, k)
    BY <1>5, <2>1
  <2>3. f[k + 1] = r
    BY <1>3, <2>1
  <2> HIDE DEF v, r
  <2>4. Passes(s, v, p, l)
    BY <2>2
  <2>5. Passes(s, r, p, l) /\ (v.left # 0 => r.left < v.left)
    BY <2>4, RoundPasses DEF r
  <2>6. v.left \in Nat /\ r.left \in Nat
    BY <2>4, <2>5, GoodsParts DEF Passes, Tidy
  <2>7. CASE v.left = 0
    <3>1. r = v
      BY <2>7 DEF r, Round
    <3> QED
      BY <2>3, <2>5, <2>7, <3>1
  <2>8. CASE v.left # 0
    <3>1. v.left + k <= n
      BY <2>2, <2>8
    <3>2. r.left + (k + 1) <= n
      <4> DEFINE x == v.left
                 y == r.left
      <4>1. x \in Nat /\ y \in Nat /\ y < x /\ x + k <= n
        BY <2>5, <2>6, <2>8, <3>1
      <4> HIDE DEF x, y, n
      <4>2. y + (k + 1) <= n
        BY <1>0, <4>1
      <4> QED
        BY <4>2 DEF x, y, n
    <3> QED
      BY <2>3, <2>5, <3>2
  <2> QED
    BY <2>7, <2>8
<1>6. n \in Reached
  <2> HIDE DEF Reached
  <2> QED
    BY <1>0, <1>4, <1>5, NaturalsOfSet
<1>7. Fine(f[n], n)
  BY <1>0, <1>6
<1>8. Passes(s, f[n], p, l)
  BY <1>7
<1>9. f[n].left \in Nat
  BY <1>8, GoodsParts DEF Passes, Tidy
<1>10. f[n].left = 0
  <2> DEFINE x == f[n].left
  <2>1. x \in Nat /\ (x + n <= n \/ x = 0)
    BY <1>7, <1>9
  <2> HIDE DEF x, n
  <2>2. x = 0
    BY <1>0, <2>1
  <2> QED
    BY <2>2 DEF x, n
<1> QED
  BY <1>2, <1>8, <1>10

(* So many items of a lot for the player; of a lot that is not there, none. *)
LEMMA AddItemCorrect ==
  ASSUME NEW s, Tidy(s), NEW p \in Players, NEW l, NEW n \in Nat
  PROVE  LET r == AddItem(s, p, l, n)
         IN  /\ Tidy(r)
             /\ \A q \in Players \ {p} : r.items[q] = s.items[q] /\ r.mail[q] = s.mail[q]
             /\ \A m \in Lots : r.nextItem[m] >= s.nextItem[m]
             /\ (l \in Lots /\ Neat(s)) =>
                  /\ Neat(r)
                  /\ \A i \in ItemIds : r.items[p][i] >= s.items[p][i]
                  /\ Bounded(r) => \A m \in Lots :
                       LotOf(r, m) = LotOf(s, m) + (IF m = l THEN n ELSE 0)
<1> DEFINE r == AddItem(s, p, l, n)
           s0 == [s EXCEPT !.left = n]
           s1 == Fill(s0, p, l)
<1>0. s \in Goods /\ \A m \in Lots : s.nextItem[m] \in Nat
  BY GoodsParts DEF Tidy
<1>1. CASE l \notin Lots
  <2>1. r = s
    BY <1>1 DEF AddItem
  <2> QED
    BY <1>0, <1>1, <2>1
<1>2. CASE l \in Lots
  <2>1. r = NewStacks(s1, p, l)
    BY <1>2 DEF AddItem
  <2>2. /\ s0 \in Goods /\ s0.items = s.items /\ s0.mail = s.mail
        /\ s0.nextItem = s.nextItem /\ s0.left = n
    BY <1>0 DEF Goods
  <2> HIDE DEF r, s0, s1
  <2>3. Tidy(s0)
    BY <2>2, TidyKept DEF NoNewStacks
  <2>4. Passes(s0, s1, p, l) /\ Tidy(s1)
    <3>1. Passes(s0, s1, p, l)
      BY <1>2, <2>3, FillPasses DEF s1
    <3> QED
      BY <3>1 DEF Passes
  <2>5. Passes(s1, r, p, l) /\ r.left = 0
    BY <1>2, <2>1, <2>4, NewStacksPasses
  <2>6. Passes(s0, r, p, l)
    BY <1>2, <2>3, <2>4, <2>5, PassesOn
  <2>7. /\ Tidy(r) /\ r \in Goods
        /\ \A q \in Players \ {p} : r.items[q] = s.items[q] /\ r.mail[q] = s.mail[q]
        /\ \A m \in Lots : r.nextItem[m] >= s.nextItem[m]
    BY <2>2, <2>6 DEF Passes, Tidy
  <2>8. ASSUME Neat(s)
        PROVE  /\ Neat(r)
               /\ \A i \in ItemIds : r.items[p][i] >= s.items[p][i]
               /\ Bounded(r) => \A m \in Lots :
                    LotOf(r, m) = LotOf(s, m) + (IF m = l THEN n ELSE 0)
    <3>1. Neat(s0)
      BY <2>2, <2>8 DEF Neat
    <3>2. /\ Neat(r)
          /\ \A i \in ItemIds : r.items[p][i] >= s.items[p][i]
          /\ Bounded(r) => \A m \in Lots : Amount(r, m, l) = Amount(s0, m, l)
      BY <2>2, <2>6, <3>1 DEF Passes
    <3>3. ASSUME Bounded(r), NEW m \in Lots
          PROVE  LotOf(r, m) = LotOf(s, m) + (IF m = l THEN n ELSE 0)
      <4>1. Amount(r, m, l) = Amount(s0, m, l)
        BY <3>2, <3>3
      <4>2. LotOf(s0, m) = LotOf(s, m)
        BY <2>2 DEF LotOf, Mailed
      <4>3. LotOf(r, m) \in Nat /\ LotOf(s, m) \in Nat
        BY <1>0, <2>7, AmountTypes
      <4>4. LotOf(r, m) + (IF m = l THEN 0 ELSE 0) = LotOf(s, m) + (IF m = l THEN n ELSE 0)
        BY <2>2, <2>5, <4>1, <4>2 DEF Amount
      <4> QED
        BY <4>3, <4>4
    <3> QED
      BY <3>2, <3>3
  <2> QED
    BY <2>7, <2>8 DEF r
<1> QED
  BY <1>1, <1>2

-----------------------------------------------------------------------------
(* One entry of an offer: what the stack has less of, the other side gets,  *)
(* if it has that much and is of that lot.                                  *)
LEMMA HandOverCorrect ==
  ASSUME NEW s, Tidy(s), NEW from \in Players, NEW to \in Players, from # to,
         NEW offer \in TradeItem
  PROVE  LET r == HandOver(s, from, to, offer)
         IN  /\ Tidy(r)
             /\ \A q \in Players \ {from, to} : r.items[q] = s.items[q] /\ r.mail[q] = s.mail[q]
             /\ \A m \in Lots : r.nextItem[m] >= s.nextItem[m]
             /\ (/\ Neat(s) /\ offer.itemLot = offer.itemId[1]
                 /\ s.items[from][offer.itemId] >= offer.itemCount) =>
                  /\ Neat(r)
                  /\ \A i \in ItemIds : r.items[to][i] >= s.items[to][i]
                  /\ r.items[from][offer.itemId] = s.items[from][offer.itemId] - offer.itemCount
                  /\ \A i \in ItemIds \ {offer.itemId} : r.items[from][i] = s.items[from][i]
                  /\ Bounded(r) => \A m \in Lots : LotOf(r, m) = LotOf(s, m)
<1> DEFINE r == HandOver(s, from, to, offer)
           id == offer.itemId
           n == offer.itemCount
           lot == offer.itemLot
           c == s.items[from][id]
           rest == Count(c - n)
           reduced == IF c = 0 THEN s.items ELSE WithCount(s.items, from, id, rest)
           taken == [s EXCEPT !.items = reduced]
<1>0. /\ s \in Goods /\ s.items \in [Players -> Counts]
      /\ s.mail \in [Players -> [Lots -> Nat]] /\ s.nextItem \in [Lots -> Nat \ {0}]
      /\ id \in ItemIds /\ id[1] \in Lots /\ n \in 0..(CountRange - 1) /\ n \in Nat
      /\ c \in 0..(CountRange - 1) /\ c \in Nat
      /\ \A i \in ItemIds : s.items[to][i] \in Nat
      /\ \A m \in Lots : s.nextItem[m] \in Nat
  <2>1. s \in Goods
    BY DEF Tidy
  <2>2. id \in ItemIds /\ n \in 0..(CountRange - 1) /\ n \in Nat
    BY StackTypes DEF TradeItem
  <2> HIDE DEF id, n
  <2> QED
    BY <2>1, <2>2, GoodsParts, IdsOfLots
<1>1. rest \in 0..(CountRange - 1) /\ (c >= n => rest = c - n)
  <2> HIDE DEF c, n
  <2>1. rest \in 0..(CountRange - 1)
    BY <1>0, CountType
  <2>2. c >= n => c - n \in 0..(CountRange - 1)
    BY <1>0, StackTypes
  <2> QED
    BY <2>1, <2>2, CountType
<1>2. r = AddItem(taken, to, lot, n)
  <2>1. CASE c = 0
    <3>1. taken = s
      BY <1>0, <2>1 DEF Goods
    <3> QED
      BY <2>1, <3>1 DEF HandOver
  <2>2. CASE c # 0
    <3>1. [s EXCEPT !.items[from][id] = Count(@ - n)] = taken
      BY <1>0, <2>2 DEF WithCount, Goods
    <3> QED
      BY <2>2, <3>1 DEF HandOver
  <2> QED
    BY <2>1, <2>2
<1> HIDE DEF r, rest, reduced, id, n, lot
<1>3. /\ reduced \in [Players -> Counts]
      /\ \A j \in ItemIds \ {id} : reduced[from][j] = s.items[from][j]
      /\ \A q \in Players \ {from} : reduced[q] = s.items[q]
      /\ NoNewStacks(s.items, reduced)
      /\ c = 0 => reduced = s.items
      /\ c # 0 =>
           /\ reduced[from][id] = rest
           /\ Total(Stock(reduced, id[1])) + c = Total(Stock(s.items, id[1])) + rest
           /\ \A m \in Lots \ {id[1]} : Total(Stock(reduced, m)) = Total(Stock(s.items, m))
  <2>1. CASE c = 0
    <3>1. reduced = s.items
      BY <2>1 DEF reduced
    <3> QED
      BY <1>0, <2>1, <3>1 DEF NoNewStacks
  <2>2. CASE c # 0
    <3>1. reduced = WithCount(s.items, from, id, rest)
      BY <2>2 DEF reduced
    <3>2. /\ reduced \in [Players -> Counts]
          /\ reduced[from][id] = rest
          /\ \A j \in ItemIds \ {id} : reduced[from][j] = s.items[from][j]
          /\ \A q \in Players \ {from} : reduced[q] = s.items[q]
          /\ Total(Stock(reduced, id[1])) + c = Total(Stock(s.items, id[1])) + rest
          /\ \A m \in Lots \ {id[1]} : Total(Stock(reduced, m)) = Total(Stock(s.items, m))
      BY <1>0, <1>1, <3>1, StockChange
    <3>3. NoNewStacks(s.items, reduced)
      BY <2>2, <3>2 DEF NoNewStacks
    <3> QED
      BY <2>2, <3>2, <3>3
  <2> QED
    BY <2>1, <2>2
<1>4. /\ taken \in Goods /\ taken.items = reduced /\ taken.mail = s.mail
      /\ taken.nextItem = s.nextItem
  BY <1>0, <1>3 DEF Goods
<1> HIDE DEF taken
<1>5. Tidy(taken)
  BY <1>3, <1>4, TidyKept
<1>6. /\ Tidy(r)
      /\ \A q \in Players \ {to} : r.items[q] = taken.items[q] /\ r.mail[q] = taken.mail[q]
      /\ \A m \in Lots : r.nextItem[m] >= taken.nextItem[m]
      /\ (lot \in Lots /\ Neat(taken)) =>
           /\ Neat(r)
           /\ \A i \in ItemIds : r.items[to][i] >= taken.items[to][i]
           /\ Bounded(r) => \A m \in Lots :
                LotOf(r, m) = LotOf(taken, m) + (IF m = lot THEN n ELSE 0)
  BY <1>0, <1>2, <1>5, AddItemCorrect
<1>7. \A q \in Players \ {from, to} : r.items[q] = s.items[q] /\ r.mail[q] = s.mail[q]
  BY <1>3, <1>4, <1>6
<1>8. \A m \in Lots : r.nextItem[m] >= s.nextItem[m]
  BY <1>4, <1>6
<1>9. ASSUME Neat(s), lot = id[1], c >= n
      PROVE  /\ Neat(r)
             /\ \A i \in ItemIds : r.items[to][i] >= s.items[to][i]
             /\ r.items[from][id] = c - n
             /\ \A i \in ItemIds \ {id} : r.items[from][i] = s.items[from][i]
             /\ Bounded(r) => \A m \in Lots : LotOf(r, m) = LotOf(s, m)
  <2>1. reduced[from][id] = c - n
    <3>1. CASE c = 0
      <4>1. n = 0 /\ c - n = 0
        <5> HIDE DEF c
        <5> QED
          BY <1>0, <1>9, <3>1
      <4> QED
        BY <1>3, <3>1, <4>1
    <3>2. CASE c # 0
      BY <1>1, <1>3, <1>9, <3>2
    <3> QED
      BY <3>1, <3>2
  <2>2. Neat(taken)
    <3> SUFFICES ASSUME NEW q \in Players, NEW m \in Lots, NEW j \in OfLot(m)
                 PROVE  reduced[q][j] <= StackSize[m]
      BY <1>4 DEF Neat
    <3>1. j \in ItemIds /\ j[1] = m /\ s.items[q][j] <= StackSize[m] /\ StackSize[m] \in Nat
      BY <1>9, IdsOfLots, StackTypes DEF Neat
    <3>2. CASE q = from /\ j = id
      <4>1. c <= StackSize[m] /\ reduced[q][j] = c - n
        BY <2>1, <3>1, <3>2
      <4> HIDE DEF c
      <4>2. c - n <= StackSize[m]
        BY <1>0, <3>1, <4>1
      <4> QED
        BY <4>1, <4>2
    <3>3. CASE ~(q = from /\ j = id)
      BY <1>3, <3>1, <3>3
    <3> QED
      BY <3>2, <3>3
  <2>3. lot \in Lots
    BY <1>0, <1>9
  <2>4. /\ Neat(r)
        /\ \A i \in ItemIds : r.items[to][i] >= taken.items[to][i]
        /\ Bounded(r) => \A m \in Lots :
             LotOf(r, m) = LotOf(taken, m) + (IF m = lot THEN n ELSE 0)
    BY <1>6, <2>2, <2>3
  <2>5. \A i \in ItemIds : r.items[to][i] >= s.items[to][i]
    BY <1>3, <1>4, <2>4
  <2>6. /\ r.items[from][id] = c - n
        /\ \A i \in ItemIds \ {id} : r.items[from][i] = s.items[from][i]
    BY <1>3, <1>4, <1>6, <2>1
  <2>7. ASSUME Bounded(r), NEW m \in Lots PROVE LotOf(r, m) = LotOf(s, m)
    <3>1. LotOf(r, m) = LotOf(taken, m) + (IF m = lot THEN n ELSE 0)
      BY <2>4, <2>7
    <3>2. Mailed(taken, m) = Mailed(s, m)
      BY <1>4 DEF Mailed
    <3> DEFINE A == Total(Stock(taken.items, m))
               B == Total(Stock(s.items, m))
               M == Total(Mailed(s, m))
    <3>3. A \in Nat /\ B \in Nat /\ M \in Nat
      BY <1>0, <1>4, AmountTypes
    <3>4. LotOf(taken, m) = A + M /\ LotOf(s, m) = B + M
      BY <3>2 DEF LotOf
    <3>5. CASE m # lot
      <4>1. A = B
        BY <1>3, <1>4, <1>9, <3>5
      <4> HIDE DEF A, B, M
      <4> QED
        BY <3>1, <3>3, <3>4, <3>5, <4>1
    <3>6. CASE m = lot
      <4>1. A + n = B
        <5>1. CASE c = 0
          <6>1. n = 0 /\ A = B
            <7>1. A = B
              BY <1>3, <1>4, <5>1
            <7>2. n = 0
              <8> HIDE DEF c
              <8> QED
                BY <1>0, <1>9, <5>1
            <7> QED
              BY <7>1, <7>2
          <6> HIDE DEF A, B
          <6> QED
            BY <3>3, <6>1
        <5>2. CASE c # 0
          <6>1. A + c = B + (c - n)
            BY <1>1, <1>3, <1>4, <1>9, <3>6, <5>2
          <6> HIDE DEF A, B, c
          <6> QED
            BY <1>0, <3>3, <6>1
        <5> QED
          BY <5>1, <5>2
      <4> HIDE DEF A, B, M
      <4>2. (A + M) + n = B + M
        BY <1>0, <3>3, <4>1
      <4> QED
        BY <3>1, <3>4, <3>6, <4>2
    <3> QED
      BY <3>5, <3>6
  <2> QED
    BY <2>4, <2>5, <2>6, <2>7
<1> QED
  BY <1>6, <1>7, <1>8, <1>9 DEF r, id, n, lot

(* What the fold of HandOverAll iterates, over every set of offers.         *)
Handed(s, from, to, offers, it) ==
  it = [S \in SUBSET (DOMAIN offers) |->
          IF S = {} THEN s
          ELSE HandOver(it[S \ {Max(S)}], from, to, offers[Max(S)])]

LEMMA HandOverAllIterates ==
  ASSUME NEW s, NEW from, NEW to, NEW offers
  PROVE  HandOverAll(s, from, to, offers)
           = (CHOOSE it : Handed(s, from, to, offers, it))[DOMAIN offers]
BY DEF HandOverAll, FoldLeft, MapThenFoldSet, Handed

(* The library's fold is defined: over sets of so many offers by the rule   *)
(* of those with one fewer.                                                 *)
LEMMA HandingExists ==
  ASSUME NEW s, NEW from, NEW to, NEW offers, NEW m \in Nat, DOMAIN offers = 1..m
  PROVE  \E it : Handed(s, from, to, offers, it)
<1> DEFINE D == 1..m
           Rule(it, S) == IF S = {} THEN s
                          ELSE HandOver(it[S \ {Max(S)}], from, to, offers[Max(S)])
           Upto(it, n) == \A S \in SUBSET D : Cardinality(S) <= n => it[S] = Rule(it, S)
           Reached == {n \in Nat : \E it : Upto(it, n)}
<1>0. IsFiniteSet(D) /\ \A S \in SUBSET D : IsFiniteSet(S) /\ Cardinality(S) \in Nat
                          /\ (Cardinality(S) = 0 <=> S = {})
  <2>1. IsFiniteSet(1..m)
    BY FS_Interval
  <2>2. IsFiniteSet(D)
    BY <2>1
  <2> HIDE DEF D
  <2>3. \A S \in SUBSET D : IsFiniteSet(S)
    BY <2>2, FS_Subset
  <2> QED
    BY <2>2, <2>3, FS_CardinalityType, FS_EmptySet
<1>1. \A S \in SUBSET D : S # {} =>
        /\ S \ {Max(S)} \in SUBSET D
        /\ Cardinality(S \ {Max(S)}) = Cardinality(S) - 1
  BY <1>0, MaxIsLast, OneLess
<1>2. 0 \in Reached
  <2> DEFINE none == [S \in SUBSET D |-> s]
  <2>1. \A S \in SUBSET D : Cardinality(S) <= 0 => none[S] = Rule(none, S)
    BY <1>0
  <2>2. Upto(none, 0)
    BY <2>1
  <2> QED
    BY <2>2
<1>3. ASSUME NEW n \in Nat, n \in Reached
      PROVE  n + 1 \in Reached
  <2>1. PICK it : Upto(it, n)
    BY <1>3
  <2> DEFINE next == [S \in SUBSET D |-> Rule(it, S)]
  <2>2. ASSUME NEW S \in SUBSET D, Cardinality(S) <= n + 1
        PROVE  next[S] = Rule(next, S)
    <3>1. CASE S = {}
      BY <3>1
    <3>2. CASE S # {}
      <4> DEFINE r == S \ {Max(S)}
      <4>1. r \in SUBSET D /\ Cardinality(r) <= n
        BY <1>0, <1>1, <2>2, <3>2
      <4> HIDE DEF r
      <4>2. it[r] = Rule(it, r) /\ next[r] = Rule(it, r)
        BY <2>1, <4>1
      <4>3. next[S] = HandOver(it[r], from, to, offers[Max(S)])
        BY <3>2 DEF r
      <4>4. Rule(next, S) = HandOver(next[r], from, to, offers[Max(S)])
        BY <3>2 DEF r
      <4> HIDE DEF next, Rule
      <4> QED
        BY <4>2, <4>3, <4>4
    <3> QED
      BY <3>1, <3>2
  <2> HIDE DEF next, Rule
  <2>3. Upto(next, n + 1)
    BY <2>2
  <2> QED
    BY <2>3
<1> HIDE DEF Rule
<1>4. Cardinality(D) \in Reached
  <2> HIDE DEF Reached
  <2> QED
    BY <1>0, <1>2, <1>3, NaturalsOfSet
<1>5. PICK it : Upto(it, Cardinality(D))
  BY <1>4
<1>6. \A S \in SUBSET D : it[S] = Rule(it, S)
  <2>1. \A S \in SUBSET D : Cardinality(S) <= Cardinality(D)
    BY <1>0, FS_Subset
  <2> QED
    BY <1>5, <2>1
<1> DEFINE all == [S \in SUBSET D |-> it[S]]
<1>7. all = [S \in SUBSET D |-> Rule(all, S)]
  <2>1. ASSUME NEW S \in SUBSET D PROVE all[S] = Rule(all, S)
    <3>1. all[S] = Rule(it, S)
      BY <1>6
    <3>2. Rule(it, S) = Rule(all, S)
      <4>1. S # {} => all[S \ {Max(S)}] = it[S \ {Max(S)}]
        BY <1>1
      <4> HIDE DEF all
      <4> QED
        BY <4>1 DEF Rule
    <3> QED
      BY <3>1, <3>2
  <2> HIDE DEF Rule
  <2>2. [S \in SUBSET D |-> Rule(all, S)] = [S \in SUBSET D |-> all[S]]
    <3> HIDE DEF all
    <3> QED
      BY <2>1
  <2> QED
    BY <2>2
<1> HIDE DEF all
<1> QED
  BY <1>7 DEF Handed, Rule

(* What the entries after the first k ask of a stack: one entry less, and   *)
(* as much less as it asks.                                                 *)
Asked(offers, k, i) ==
  [j \in DOMAIN offers |-> IF j > k /\ offers[j].itemId = i THEN offers[j].itemCount ELSE 0]

Remaining(offers, k, i) == SumOver(Asked(offers, k, i), DOMAIN offers)

LEMMA RemainingFirst ==
  ASSUME NEW offers \in Seq(TradeItem), NEW i
  PROVE  Remaining(offers, 0, i) = Listed(offers, i)
<1> DEFINE asked == [k \in DOMAIN offers |->
                       IF offers[k].itemId = i THEN offers[k].itemCount ELSE 0]
<1>1. DOMAIN offers = 1..Len(offers)
  BY LenProperties
<1>2. Asked(offers, 0, i) = asked
  BY <1>1 DEF Asked
<1>3. Listed(offers, i) = SumOver(asked, DOMAIN offers)
  BY DEF Listed, SumOver
<1> QED
  BY <1>2, <1>3 DEF Remaining

LEMMA RemainingNext ==
  ASSUME NEW offers \in Seq(TradeItem), NEW i, NEW k \in Nat, k + 1 <= Len(offers)
  PROVE  LET n == IF offers[k + 1].itemId = i THEN offers[k + 1].itemCount ELSE 0
         IN  /\ Remaining(offers, k, i) \in Nat /\ Remaining(offers, k + 1, i) \in Nat
             /\ n \in Nat
             /\ Remaining(offers, k, i) = Remaining(offers, k + 1, i) + n
<1> DEFINE D == DOMAIN offers
           f == Asked(offers, k, i)
           g == Asked(offers, k + 1, i)
           z == k + 1
           n == IF offers[z].itemId = i THEN offers[z].itemCount ELSE 0
<1>1. Len(offers) \in Nat /\ D = 1..Len(offers)
  BY LenProperties
<1>2. \A j \in D : offers[j].itemCount \in Nat
  <2>1. \A j \in D : offers[j] \in TradeItem
    BY <1>1, ElementOfSeq
  <2> QED
    BY <2>1, StackTypes DEF TradeItem
<1>3. IsFiniteSet(D)
  BY <1>1, FS_Interval
<1>4. z \in D
  BY <1>1
<1>5. /\ \A j \in D : f[j] \in Nat
      /\ \A j \in D : g[j] \in Nat
  BY <1>2 DEF Asked
<1>6. \A j \in D \ {z} : g[j] = f[j]
  <2> SUFFICES ASSUME NEW j \in D, j # z PROVE g[j] = f[j]
    OBVIOUS
  <2>1. (j > k) = (j > k + 1)
    BY <1>1
  <2> QED
    BY <2>1 DEF Asked
<1>7. f[z] = n /\ g[z] = 0
  BY <1>4 DEF Asked
<1> HIDE DEF D, f, g, z, n
<1>8. SumOver(g, D) + f[z] = SumOver(f, D) + g[z]
  BY <1>3, <1>4, <1>5, <1>6, SumDiffers
<1>9. SumOver(f, D) \in Nat /\ SumOver(g, D) \in Nat
  BY <1>3, <1>5, SumType
<1>10. n \in Nat /\ SumOver(f, D) = SumOver(g, D) + n
  BY <1>4, <1>5, <1>7, <1>8, <1>9
<1> QED
  BY <1>9, <1>10 DEF Remaining, D, f, g, n, z

(* What the verification should have seen to: the entries together take no  *)
(* more from a stack than is in it, and each names the lot of its stack.    *)
Afforded(s, p, offers) ==
  /\ \A i \in ItemIds : Listed(offers, i) <= s.items[p][i]
  /\ \A k \in DOMAIN offers : offers[k].itemLot = offers[k].itemId[1]

(* All that one side offers is handed over, one after the other: then no    *)
(* items are made or lost, and the other side has no fewer of any.          *)
LEMMA HandOverAllCorrect ==
  ASSUME NEW s, Tidy(s), NEW from \in Players, NEW to \in Players, from # to,
         NEW offers \in Seq(TradeItem)
  PROVE  LET r == HandOverAll(s, from, to, offers)
         IN  /\ Tidy(r)
             /\ \A q \in Players \ {from, to} : r.items[q] = s.items[q] /\ r.mail[q] = s.mail[q]
             /\ \A m \in Lots : r.nextItem[m] >= s.nextItem[m]
             /\ (Neat(s) /\ Afforded(s, from, offers)) =>
                  /\ Neat(r)
                  /\ \A i \in ItemIds : r.items[to][i] >= s.items[to][i]
                  /\ Bounded(r) => \A m \in Lots : LotOf(r, m) = LotOf(s, m)
<1> DEFINE it == CHOOSE any : Handed(s, from, to, offers, any)
           m == Len(offers)
           D == DOMAIN offers
           Careful == Neat(s) /\ Afforded(s, from, offers)
           Kind(v, k) ==
             /\ Neat(v)
             /\ \A i \in ItemIds : v.items[to][i] >= s.items[to][i]
             /\ \A i \in ItemIds : Remaining(offers, k, i) <= v.items[from][i]
             /\ Bounded(v) => \A l \in Lots : LotOf(v, l) = LotOf(s, l)
           Good(v, k) ==
             /\ Tidy(v)
             /\ \A q \in Players \ {from, to} : v.items[q] = s.items[q] /\ v.mail[q] = s.mail[q]
             /\ \A l \in Lots : v.nextItem[l] >= s.nextItem[l]
             /\ Careful => Kind(v, k)
           Reached == {k \in Nat : k <= m => Good(it[1..k], k)}
<1>1. m \in Nat /\ D = 1..m /\ \A k \in D : offers[k] \in TradeItem
  BY LenProperties, ElementOfSeq
<1>2. Handed(s, from, to, offers, it)
  <2>1. \E any : Handed(s, from, to, offers, any)
    BY <1>1, HandingExists
  <2> QED
    BY <2>1
<1>3. HandOverAll(s, from, to, offers) = it[D]
  BY HandOverAllIterates
<1> HIDE DEF it, m
<1>4. it[{}] = s
  BY <1>2 DEF Handed
<1>5. \A k \in 1..m : it[1..k] = HandOver(it[1..(k - 1)], from, to, offers[k])
  <2> TAKE k \in 1..m
  <2>1. k \in Nat \ {0} /\ 1..k \in SUBSET D /\ 1..k # {}
    <3>1. k \in Nat \ {0} /\ 1..k \subseteq 1..m /\ k \in 1..k
      BY <1>1 DEF D
    <3>2. D = 1..m
      BY <1>1
    <3> HIDE DEF D
    <3> QED
      BY <3>1, <3>2
  <2>2. Max(1..k) = k /\ (1..k) \ {k} = 1..(k - 1)
    BY <2>1, MaxIsLast
  <2>3. it[1..k] = HandOver(it[(1..k) \ {Max(1..k)}], from, to, offers[Max(1..k)])
    <3> DEFINE S == 1..k
    <3>1. S \in SUBSET (DOMAIN offers) /\ S # {}
      BY <2>1
    <3> HIDE DEF S
    <3>2. it[S] = HandOver(it[S \ {Max(S)}], from, to, offers[Max(S)])
      BY <1>2, <3>1 DEF Handed
    <3> QED
      BY <3>2 DEF S
  <2> QED
    BY <2>2, <2>3
<1>6. /\ s \in Goods
      /\ \A i \in ItemIds : s.items[to][i] \in Nat
      /\ \A l \in Lots : s.nextItem[l] \in Nat
  BY GoodsParts DEF Tidy
<1>7. 0 \in Reached
  <2>1. 1..0 = {}
    OBVIOUS
  <2>2. it[1..0] = s
    BY <1>4, <2>1
  <2>3. Careful => Kind(s, 0)
    BY <1>6, RemainingFirst DEF Afforded
  <2> HIDE DEF Careful, Kind
  <2>4. Good(s, 0)
    BY <1>6, <2>3
  <2> HIDE DEF Good
  <2> QED
    BY <2>2, <2>4
<1>8. ASSUME NEW k \in Nat, k \in Reached
      PROVE  k + 1 \in Reached
  <2> SUFFICES ASSUME k + 1 <= m PROVE Good(it[1..(k + 1)], k + 1)
    OBVIOUS
  <2> DEFINE v == it[1..k]
             offer == offers[k + 1]
             id == offer.itemId
             n == offer.itemCount
             r == HandOver(v, from, to, offer)
  <2>1. k + 1 \in D /\ (k + 1) - 1 = k /\ k <= m
    BY <1>1
  <2>2. Good(v, k)
    BY <1>8, <2>1
  <2>3. it[1..(k + 1)] = r
    BY <1>1, <1>5, <2>1
  <2>4. offer \in TradeItem /\ id \in ItemIds /\ n \in Nat
    BY <1>1, <2>1, StackTypes DEF TradeItem
  <2> HIDE DEF v, r, offer
  <2>5. /\ Tidy(r)
        /\ \A q \in Players \ {from, to} : r.items[q] = v.items[q] /\ r.mail[q] = v.mail[q]
        /\ \A l \in Lots : r.nextItem[l] >= v.nextItem[l]
        /\ (/\ Neat(v) /\ offer.itemLot = id[1] /\ v.items[from][id] >= n) =>
             /\ Neat(r)
             /\ \A i \in ItemIds : r.items[to][i] >= v.items[to][i]
             /\ r.items[from][id] = v.items[from][id] - n
             /\ \A i \in ItemIds \ {id} : r.items[from][i] = v.items[from][i]
             /\ Bounded(r) => \A l \in Lots : LotOf(r, l) = LotOf(v, l)
    BY <2>2, <2>4, HandOverCorrect DEF r
  <2>6. /\ v \in Goods /\ r \in Goods
        /\ \A l \in Lots : v.nextItem[l] \in Nat /\ r.nextItem[l] \in Nat
        /\ \A i \in ItemIds : /\ v.items[to][i] \in Nat /\ r.items[to][i] \in Nat
                              /\ v.items[from][i] \in Nat /\ r.items[from][i] \in Nat
    BY <2>2, <2>5, GoodsParts DEF Tidy
  <2>7. \A l \in Lots : r.nextItem[l] >= s.nextItem[l]
    <3>1. \A l \in Lots : v.nextItem[l] >= s.nextItem[l]
      BY <2>2
    <3> QED
      BY <1>6, <2>5, <2>6, <3>1
  <2>8. \A q \in Players \ {from, to} : r.items[q] = s.items[q] /\ r.mail[q] = s.mail[q]
    <3>1. \A q \in Players \ {from, to} : v.items[q] = s.items[q] /\ v.mail[q] = s.mail[q]
      BY <2>2
    <3> QED
      BY <2>5, <3>1
  <2>9. ASSUME Careful PROVE Kind(r, k + 1)
    <3>1. Kind(v, k)
      BY <2>2, <2>9
    <3>2. \A i \in ItemIds :
            /\ Remaining(offers, k, i) \in Nat /\ Remaining(offers, k + 1, i) \in Nat
            /\ i = id => Remaining(offers, k, i) = Remaining(offers, k + 1, i) + n
            /\ i # id => Remaining(offers, k, i) = Remaining(offers, k + 1, i)
      <4> TAKE i \in ItemIds
      <4> DEFINE x == IF offers[k + 1].itemId = i THEN offers[k + 1].itemCount ELSE 0
                 A == Remaining(offers, k, i)
                 B == Remaining(offers, k + 1, i)
      <4>1. A \in Nat /\ B \in Nat /\ x \in Nat /\ A = B + x
        BY RemainingNext DEF m
      <4>2. (i = id => x = n) /\ (i # id => x = 0)
        BY DEF offer
      <4> HIDE DEF A, B, x
      <4>3. A \in Nat /\ B \in Nat /\ (i = id => A = B + n) /\ (i # id => A = B)
        BY <4>1, <4>2
      <4> QED
        BY <4>3 DEF A, B
    <3>3. v.items[from][id] >= n
      <4> DEFINE A == Remaining(offers, k, id)
                 B == Remaining(offers, k + 1, id)
                 c == v.items[from][id]
      <4>1. A \in Nat /\ B \in Nat /\ A = B + n /\ A <= c /\ c \in Nat
        BY <2>4, <2>6, <3>1, <3>2
      <4> HIDE DEF A, B, c, n
      <4>2. c >= n
        BY <2>4, <4>1
      <4> QED
        BY <4>2 DEF c
    <3>4. offer.itemLot = id[1]
      BY <2>1, <2>9 DEF Afforded, offer
    <3>5. /\ Neat(r)
          /\ \A i \in ItemIds : r.items[to][i] >= v.items[to][i]
          /\ r.items[from][id] = v.items[from][id] - n
          /\ \A i \in ItemIds \ {id} : r.items[from][i] = v.items[from][i]
          /\ Bounded(r) => \A l \in Lots : LotOf(r, l) = LotOf(v, l)
      BY <2>5, <3>1, <3>3, <3>4
    <3>6. \A i \in ItemIds : r.items[to][i] >= s.items[to][i]
      <4>1. \A i \in ItemIds : v.items[to][i] >= s.items[to][i]
        BY <3>1
      <4> QED
        BY <1>6, <2>6, <3>5, <4>1
    <3>7. ASSUME NEW i \in ItemIds PROVE Remaining(offers, k + 1, i) <= r.items[from][i]
      <4> DEFINE A == Remaining(offers, k, i)
                 B == Remaining(offers, k + 1, i)
                 c == v.items[from][i]
                 d == r.items[from][i]
      <4>1. A \in Nat /\ B \in Nat /\ A <= c /\ c \in Nat /\ d \in Nat
        BY <2>6, <3>1, <3>2
      <4>2. CASE i = id
        <5>1. A = B + n /\ d = c - n
          BY <3>2, <3>5, <4>2
        <5> HIDE DEF A, B, c, d, n
        <5>2. B <= d
          BY <2>4, <4>1, <5>1
        <5> QED
          BY <5>2 DEF B, d
      <4>3. CASE i # id
        <5>1. A = B /\ d = c
          BY <3>2, <3>5, <4>3
        <5> HIDE DEF A, B, c, d
        <5>2. B <= d
          BY <4>1, <5>1
        <5> QED
          BY <5>2 DEF B, d
      <4> QED
        BY <4>2, <4>3
    <3>8. ASSUME Bounded(r), NEW l \in Lots PROVE LotOf(r, l) = LotOf(s, l)
      <4>1. Bounded(v)
        BY <2>5, <2>6, <3>8, BoundedBefore
      <4>2. LotOf(v, l) = LotOf(s, l)
        BY <3>1, <4>1
      <4> QED
        BY <3>5, <3>8, <4>2
    <3> QED
      BY <3>5, <3>6, <3>7, <3>8
  <2> HIDE DEF Careful, Kind
  <2>10. Good(r, k + 1)
    BY <2>5, <2>7, <2>8, <2>9
  <2> HIDE DEF Good
  <2> QED
    BY <2>3, <2>10
<1>9. m \in Reached
  <2> HIDE DEF Reached
  <2> QED
    BY <1>1, <1>7, <1>8, NaturalsOfSet
<1>10. Good(it[1..m], m)
  BY <1>1, <1>9
<1>11. HandOverAll(s, from, to, offers) = it[1..m]
  BY <1>1, <1>3
<1> DEFINE r == HandOverAll(s, from, to, offers)
<1>12. Good(r, m)
  BY <1>10, <1>11
<1> HIDE DEF r
<1> QED
  BY <1>12 DEF r

-----------------------------------------------------------------------------
(* The invariant: what trades and wealth are, that the two sides of an open *)
(* trade are different, that nobody has an item whose number was not given  *)
(* yet, and what was neither made nor lost so far.                          *)
Kept == GoodsOf(items, mail, nextItem, 0)

Differ == \A t \in trades : trade[t].a # trade[t].b

Counted ==
  /\ present \subseteq Players
  /\ nextTrade \in 1..(MaxTrades + 1)
  /\ lost \in [coins: Nat, items: [Lots -> Nat]]
  /\ absences \in Nat
  /\ careless \in BOOLEAN

LotsBalance ==
  \A l \in Lots : LotOf(Kept, l) + lost.items[l] = Total(Stock(InitialItems, l))

Sound ==
  /\ Tidy(Kept) /\ Bounded(Kept)
  /\ careless \/ (Neat(Kept) /\ LotsBalance)

TradingInv == TradesInv /\ Counted /\ Sound /\ Differ /\ CoinsConserved

LEMMA KeptParts ==
  /\ Kept.items = items /\ Kept.mail = mail /\ Kept.nextItem = nextItem
  /\ Kept' = GoodsOf(items', mail', nextItem', 0)
  /\ Kept'.items = items' /\ Kept'.mail = mail' /\ Kept'.nextItem = nextItem'
  /\ \A l : LotOf(Kept, l)
              = Total(Stock(items, l)) + Total([p \in Players |-> mail[p][l]])
BY DEF Kept, GoodsOf, LotOf, Mailed

LEMMA TradingInvImplies ==
  TradingInv => TypeOK /\ WealthConserved
<1> SUFFICES ASSUME TradingInv PROVE TypeOK /\ WealthConserved
  OBVIOUS
<1>0. Kept \in Goods
  BY DEF TradingInv, Sound, Tidy
<1>1. WealthConserved
  BY KeptParts DEF TradingInv, Sound, LotsBalance, WealthConserved, ItemsConserved
<1>2. /\ items \in [Players -> [ItemIds -> 0..(CountRange - 1)]]
      /\ mail \in [Players -> [Lots -> Nat]]
      /\ nextItem \in [Lots -> Nat \ {0}]
  BY <1>0, GoodsParts, KeptParts DEF Counts
<1>3. \A p \in Players : Cardinality(Held(items, p)) <= Slots
  BY KeptParts DEF TradingInv, Sound, Tidy, Roomy
<1>4. nextItem \in [Lots -> 1..(MaxItems + 1)]
  <2>1. \A l \in Lots : nextItem[l] \in Nat \ {0} /\ nextItem[l] <= MaxItems + 1
    BY <1>2, KeptParts DEF TradingInv, Sound, Bounded
  <2>2. \A l \in Lots : nextItem[l] \in 1..(MaxItems + 1)
    BY <2>1, FiniteConstants
  <2> QED
    BY <1>2, <2>2
<1>5. trades \subseteq TradeIds \cap (1..(nextTrade - 1))
  <2> SUFFICES ASSUME NEW t \in trades PROVE t \in TradeIds /\ t \in 1..(nextTrade - 1)
    OBVIOUS
  <2>1. t \in TradeIds /\ t < nextTrade /\ nextTrade \in Nat
    BY DEF TradingInv, TradesInv
  <2> QED
    BY <2>1, TradingAssumption DEF TradeIds
<1>6. careless \/ \A p \in Players, l \in Lots : \A i \in OfLot(l) : items[p][i] <= StackSize[l]
  BY KeptParts DEF TradingInv, Sound, Neat
<1> QED
  BY <1>1, <1>2, <1>3, <1>4, <1>5, <1>6 DEF TradingInv, TradesInv, Counted, TypeOK

LEMMA InitConserves == Init => TradingInv
<1> SUFFICES ASSUME Init PROVE TradingInv
  OBVIOUS
<1>1. Counted
  <2>1. lost \in [coins: Nat, items: [Lots -> Nat]]
    BY DEF Init
  <2>2. 1 \in 1..(MaxTrades + 1) /\ MaxAbsences \in Nat
    BY TradingAssumption
  <2>3. nextTrade \in 1..(MaxTrades + 1) /\ absences \in Nat
    BY <2>2 DEF Init
  <2>4. present \subseteq Players /\ careless \in BOOLEAN
    BY DEF Init
  <2> QED
    BY <2>1, <2>3, <2>4 DEF Counted
<1>2. \A p \in Players, l \in Lots : \A i \in OfLot(l) :
        /\ InitialItems[p][i] \in Nat /\ InitialItems[p][i] <= StackSize[l]
        /\ InitialItems[p][i] > 0 => i[2] < FirstNewItem
  <2> SUFFICES ASSUME NEW p \in Players, NEW l \in Lots, NEW n \in Numbers
               PROVE  /\ InitialItems[p][<<l, n>>] \in Nat
                      /\ InitialItems[p][<<l, n>>] <= StackSize[l]
                      /\ InitialItems[p][<<l, n>>] > 0 => n < FirstNewItem
    BY DEF OfLot
  <2>1. InitialItems[p] \in [ItemIds -> Nat] /\ <<l, n>> \in ItemIds
    BY TradingAssumption, IdsOfLots
  <2> QED
    BY <2>1, TradingAssumption
<1>3. items \in [Players -> Counts]
  <2> SUFFICES ASSUME NEW p \in Players PROVE InitialItems[p] \in Counts
    BY TradingAssumption DEF Init
  <2>1. ASSUME NEW i \in ItemIds PROVE InitialItems[p][i] \in 0..(CountRange - 1)
    <3>1. i[1] \in Lots /\ i \in OfLot(i[1])
      BY IdsOfLots
    <3> DEFINE c == InitialItems[p][i]
               most == StackSize[i[1]]
    <3>2. c \in Nat /\ c <= most /\ most \in 1..(CountRange - 1) /\ CountRange \in Nat
      BY <1>2, <3>1, StackTypes
    <3> HIDE DEF c, most
    <3>3. c \in 0..(CountRange - 1)
      BY <3>2
    <3> QED
      BY <3>3 DEF c
  <2>2. InitialItems[p] \in [ItemIds -> Nat]
    BY TradingAssumption
  <2> QED
    BY <2>1, <2>2 DEF Counts
<1>4. mail \in [Players -> [Lots -> Nat]] /\ nextItem \in [Lots -> Nat \ {0}]
  BY TradingAssumption DEF Init
<1>5. Kept \in Goods
  BY <1>3, <1>4 DEF Kept, Goods, GoodsOf
<1>6. Tidy(Kept)
  <2>1. Fresh(Kept)
    <3> SUFFICES ASSUME NEW p \in Players, NEW l \in Lots, NEW n \in Numbers, n >= FirstNewItem
                 PROVE  InitialItems[p][<<l, n>>] = 0
      BY KeptParts DEF Init, Fresh
    <3>1. /\ InitialItems[p][<<l, n>>] \in Nat
          /\ InitialItems[p][<<l, n>>] > 0 => n < FirstNewItem
      BY <1>2, IdsOfLots
    <3>2. n \in Nat /\ FirstNewItem \in Nat
      BY TradingAssumption DEF Numbers
    <3> QED
      BY <3>1, <3>2
  <2>2. Roomy(items)
    BY TradingAssumption DEF Init, Roomy, Held
  <2> QED
    BY <1>5, <2>1, <2>2, KeptParts DEF Tidy
<1>7. Bounded(Kept)
  BY TradingAssumption, KeptParts DEF Init, Bounded
<1>8. LotsBalance
  <2> SUFFICES ASSUME NEW l \in Lots
               PROVE  LotOf(Kept, l) + lost.items[l] = Total(Stock(InitialItems, l))
    BY DEF LotsBalance
  <2> DEFINE post == [p \in Players |-> mail[p][l]]
  <2>1. Total(post) = 0
    <3>1. \A p \in Players : post[p] = 0
      BY DEF Init
    <3> HIDE DEF post
    <3> QED
      BY <3>1, SumOfNothing, TotalIsSum, FiniteConstants
  <2>2. Total(Stock(items, l)) \in Nat
    BY <1>3, StockType
  <2>3. items = InitialItems /\ lost.items[l] = 0
    BY DEF Init
  <2> QED
    BY <2>1, <2>2, <2>3, KeptParts
<1>9. CoinsConserved
  <2>1. Total(InitialCoins) \in Nat
    BY TotalType, TradingAssumption
  <2> QED
    BY <2>1 DEF Init, CoinsConserved
<1>10. Neat(Kept)
  BY <1>2, KeptParts DEF Init, Neat
<1>11. Differ
  BY DEF Init, Differ
<1> QED
  BY <1>1, <1>6, <1>7, <1>8, <1>9, <1>10, <1>11, InitTrades DEF TradingInv, Sound

(* What is paid is what is received.                                        *)
LEMMA CompletePays ==
  ASSUME TradesInv, NEW t \in TradeIds, Complete(t), trade[t].a # trade[t].b
  PROVE  Total(coins') = Total(coins)
<1> DEFINE a == trade[t].a
           b == trade[t].b
           paidA == trade[t].coins[a]
           paidB == trade[t].coins[b]
<1>1. /\ a \in Players /\ b \in Players /\ a # b /\ paidA \in Nat /\ paidB \in Nat
      /\ coins \in [Players -> Nat]
  BY DEF TradesInv, Trade
<1>2. CASE ~Verified(t)
  BY <1>2 DEF Complete, wealth
<1>3. CASE Verified(t)
  <2>1. /\ coins[a] >= paidA /\ coins[b] >= paidB
        /\ coins' = [coins EXCEPT ![a] = Purse(@ - paidA + paidB),
                                  ![b] = Purse(@ - paidB + paidA)]
    BY <1>3 DEF Complete, Verified, CanPay
  <2> DEFINE x == coins[a]
             y == coins[b]
             u == x - paidA + paidB
             v == y - paidB + paidA
  <2> HIDE DEF a, b, paidA, paidB
  <2>2. x \in Nat /\ y \in Nat
    BY <1>1
  <2>3. u \in Nat /\ v \in Nat /\ Purse(u) = u /\ Purse(v) = v
    <3>1. x >= paidA /\ y >= paidB
      BY <2>1
    <3> HIDE DEF x, y
    <3> QED
      BY <1>1, <2>2, <3>1 DEF Purse
  <2> DEFINE mid == WithAmount(coins, a, u)
  <2>4. coins' = WithAmount(mid, b, v)
    BY <1>1, <2>1, <2>3 DEF WithAmount
  <2>5. mid[b] = y
    BY <1>1 DEF WithAmount
  <2>6. mid \in [Players -> Nat] /\ Total(mid) + x = Total(coins) + u
    <3> HIDE DEF u
    <3> QED
      BY <1>1, <2>3, TotalChange
  <2> HIDE DEF mid
  <2>7. coins' \in [Players -> Nat] /\ Total(coins') + y = Total(mid) + v
    <3> HIDE DEF v, y
    <3> QED
      BY <1>1, <2>3, <2>4, <2>5, <2>6, TotalChange
  <2>8. Total(coins) \in Nat /\ Total(mid) \in Nat /\ Total(coins') \in Nat
    BY <1>1, <2>6, <2>7, TotalType
  <2> HIDE DEF x, y
  <2> QED
    BY <1>1, <2>2, <2>6, <2>7, <2>8
<1> QED
  BY <1>2, <1>3

LEMMA ListedType ==
  ASSUME NEW offers \in Seq(TradeItem), NEW i
  PROVE  Listed(offers, i) \in Nat
<1> DEFINE asked == [k \in DOMAIN offers |->
                       IF offers[k].itemId = i THEN offers[k].itemCount ELSE 0]
           D == DOMAIN offers
<1>1. D = 1..Len(offers) /\ Len(offers) \in Nat
  BY LenProperties
<1>2. IsFiniteSet(D)
  BY <1>1, FS_Interval
<1>3. \A k \in D : asked[k] \in Nat
  <2>1. \A k \in D : offers[k] \in TradeItem
    BY <1>1, ElementOfSeq
  <2> QED
    BY <2>1, StackTypes DEF TradeItem
<1>4. Listed(offers, i) = SumOver(asked, D)
  BY DEF Listed, SumOver
<1> HIDE DEF asked, D
<1> QED
  BY <1>2, <1>3, <1>4, SumType

(* What is not overlooked is afforded.                                      *)
LEMMA NothingOverlooked ==
  ASSUME TradingInv, NEW t \in TradeIds, NEW p \in Players,
         HasItems(t, p), ~Overlooked(t, p)
  PROVE  Afforded(Kept, p, trade[t].items[p])
<1> DEFINE offers == trade[t].items[p]
<1>1. offers \in Seq(TradeItem) /\ Kept \in Goods
  BY DEF TradingInv, TradesInv, Sound, Tidy, Trade
<1>2. /\ \A i \in ItemIds : ~(Listed(offers, i) > items[p][i])
      /\ \A k \in DOMAIN offers : offers[k].itemLot = offers[k].itemId[1]
  BY DEF Overlooked
<1>3. \A i \in ItemIds : items[p][i] \in Nat
  BY <1>1, GoodsParts, KeptParts
<1> HIDE DEF offers
<1>4. \A i \in ItemIds : Listed(offers, i) <= items[p][i]
  BY <1>1, <1>2, <1>3, ListedType
<1>5. Afforded(Kept, p, offers)
  BY <1>2, <1>4, KeptParts DEF Afforded
<1> QED
  BY <1>5 DEF offers

(* Complete hands over what both sides offered, or nothing.                 *)
LEMMA CompleteHands ==
  ASSUME TradingInv, NEW t \in trades, Complete(t)
  PROVE  /\ Tidy(Kept') /\ Bounded(Kept') /\ careless' \in BOOLEAN
         /\ careless' \/ (/\ ~careless /\ Neat(Kept')
                          /\ \A l \in Lots : LotOf(Kept', l) = LotOf(Kept, l))
         /\ \A q \in Players : ~IsParticipant(t, q) => items'[q] = items[q] /\ mail'[q] = mail[q]
<1> DEFINE a == trade[t].a
           b == trade[t].b
           offersA == trade[t].items[a]
           offersB == trade[t].items[b]
           s1 == HandOverAll(Kept, a, b, offersA)
           s2 == HandOverAll(s1, b, a, offersB)
<1>1. /\ t \in TradeIds /\ trade[t] \in Trade
      /\ a \in Players /\ b \in Players /\ a # b
      /\ offersA \in Seq(TradeItem) /\ offersB \in Seq(TradeItem)
      /\ Tidy(Kept) /\ Bounded(Kept) /\ careless \in BOOLEAN
      /\ careless \/ Neat(Kept)
  BY DEF TradingInv, TradesInv, Sound, Differ, Counted, Trade
<1>2. CASE ~Verified(t)
  <2>1. items' = items /\ mail' = mail /\ nextItem' = nextItem /\ careless' = careless
    BY <1>2 DEF Complete, wealth
  <2>2. Kept' = Kept
    BY <2>1 DEF Kept
  <2> QED
    BY <1>1, <2>1, <2>2
<1>3. CASE Verified(t)
  <2>1. /\ \A l \in Lots : s2.nextItem[l] <= MaxItems + 1
        /\ items' = s2.items /\ mail' = s2.mail /\ nextItem' = s2.nextItem
        /\ careless' = (careless \/ Overlooked(t, a) \/ Overlooked(t, b))
    BY <1>3 DEF Complete, Kept, GoodsOf
  <2>2. HasItems(t, a) /\ HasItems(t, b)
    BY <1>3 DEF Verified
  <2>3. careless' \/ (/\ ~careless /\ Neat(Kept)
                      /\ Afforded(Kept, a, offersA) /\ Afforded(Kept, b, offersB))
    BY <1>1, <2>1, <2>2, NothingOverlooked
  <2>4. careless' \in BOOLEAN
    BY <2>1
  <2> HIDE DEF a, b, offersA, offersB, s1, s2
  <2>5. /\ Tidy(s1)
        /\ \A q \in Players \ {a, b} : s1.items[q] = items[q] /\ s1.mail[q] = mail[q]
        /\ (Neat(Kept) /\ Afforded(Kept, a, offersA)) =>
             /\ Neat(s1)
             /\ \A i \in ItemIds : s1.items[b][i] >= items[b][i]
             /\ Bounded(s1) => \A l \in Lots : LotOf(s1, l) = LotOf(Kept, l)
    <3>1. /\ Tidy(s1)
          /\ \A q \in Players \ {a, b} : s1.items[q] = Kept.items[q] /\ s1.mail[q] = Kept.mail[q]
          /\ (Neat(Kept) /\ Afforded(Kept, a, offersA)) =>
               /\ Neat(s1)
               /\ \A i \in ItemIds : s1.items[b][i] >= Kept.items[b][i]
               /\ Bounded(s1) => \A l \in Lots : LotOf(s1, l) = LotOf(Kept, l)
      BY <1>1, HandOverAllCorrect DEF s1
    <3>2. Kept.items = items /\ Kept.mail = mail
      BY KeptParts
    <3> QED
      BY <3>1, <3>2
  <2>6. /\ Tidy(s2)
        /\ \A q \in Players \ {b, a} : s2.items[q] = s1.items[q] /\ s2.mail[q] = s1.mail[q]
        /\ \A l \in Lots : s2.nextItem[l] >= s1.nextItem[l]
        /\ (Neat(s1) /\ Afforded(s1, b, offersB)) =>
             /\ Neat(s2)
             /\ Bounded(s2) => \A l \in Lots : LotOf(s2, l) = LotOf(s1, l)
    BY <1>1, <2>5, HandOverAllCorrect DEF s2
  <2>7. s1 \in Goods /\ s2 \in Goods /\ Bounded(s2) /\ Bounded(s1)
    <3>1. s1 \in Goods /\ s2 \in Goods
      BY <2>5, <2>6 DEF Tidy
    <3>2. Bounded(s2)
      BY <2>1 DEF Bounded
    <3> QED
      BY <2>6, <3>1, <3>2, BoundedBefore
  <2>8. ASSUME ~careless'
        PROVE  /\ ~careless /\ Neat(s2)
               /\ \A l \in Lots : LotOf(s2, l) = LotOf(Kept, l)
    <3>1. /\ ~careless /\ Neat(Kept)
          /\ Afforded(Kept, a, offersA) /\ Afforded(Kept, b, offersB)
      BY <2>3, <2>8
    <3>2. /\ Neat(s1)
          /\ \A i \in ItemIds : s1.items[b][i] >= items[b][i]
          /\ \A l \in Lots : LotOf(s1, l) = LotOf(Kept, l)
      BY <2>5, <2>7, <3>1
    <3>3. Afforded(s1, b, offersB)
      <4>1. \A i \in ItemIds : Listed(offersB, i) <= items[b][i]
        BY <3>1, KeptParts DEF Afforded
      <4>2. \A i \in ItemIds : items[b][i] \in Nat /\ s1.items[b][i] \in Nat
        <5>1. Kept \in Goods
          BY <1>1 DEF Tidy
        <5> QED
          BY <1>1, <2>7, <5>1, GoodsParts, KeptParts
      <4>3. \A i \in ItemIds : Listed(offersB, i) \in Nat
        BY <1>1, ListedType
      <4>4. \A i \in ItemIds : Listed(offersB, i) <= s1.items[b][i]
        BY <3>2, <4>1, <4>2, <4>3
      <4> QED
        BY <3>1, <4>4 DEF Afforded
    <3>4. Neat(s2) /\ \A l \in Lots : LotOf(s2, l) = LotOf(s1, l)
      BY <2>6, <2>7, <3>2, <3>3
    <3> QED
      BY <3>1, <3>2, <3>4
  <2>9. Kept'.items = s2.items /\ Kept'.mail = s2.mail /\ Kept'.nextItem = s2.nextItem
    BY <2>1, KeptParts
  <2>10. Kept' \in Goods
    <3>1. Kept' = GoodsOf(s2.items, s2.mail, s2.nextItem, 0)
      BY <2>1, KeptParts
    <3>2. /\ s2.items \in [Players -> Counts] /\ s2.mail \in [Players -> [Lots -> Nat]]
          /\ s2.nextItem \in [Lots -> Nat \ {0}]
      BY <2>7, GoodsParts
    <3> QED
      BY <3>1, <3>2 DEF Goods, GoodsOf
  <2>11. Tidy(Kept') /\ Bounded(Kept')
    BY <2>6, <2>7, <2>9, <2>10 DEF Tidy, Fresh, Bounded
  <2>12. \A l \in Lots : LotOf(Kept', l) = LotOf(s2, l)
    BY <2>9 DEF LotOf, Mailed
  <2>13. Neat(s2) => Neat(Kept')
    BY <2>9 DEF Neat
  <2>14. ASSUME NEW q \in Players, ~IsParticipant(t, q)
         PROVE  items'[q] = items[q] /\ mail'[q] = mail[q]
    <3>1. q \notin {a, b}
      BY <2>14 DEF IsParticipant, a, b
    <3> QED
      BY <2>1, <2>5, <2>6, <3>1
  <2> QED
    BY <2>4, <2>8, <2>11, <2>12, <2>13, <2>14
<1> QED
  BY <1>2, <1>3

-----------------------------------------------------------------------------
(* Every step keeps the invariant.                                          *)

LEMMA WealthUntouched ==
  ASSUME TradingInv, UNCHANGED <<wealth, lost, careless>>
  PROVE  Sound' /\ CoinsConserved'
<1>1. Kept' = Kept /\ UNCHANGED <<coins, items, mail, nextItem>>
  BY DEF Kept, wealth
<1>2. Sound'
  <2>1. Tidy(Kept') /\ Bounded(Kept')
    BY <1>1 DEF TradingInv, Sound
  <2>2. careless' \/ (Neat(Kept') /\ LotsBalance')
    BY <1>1 DEF TradingInv, Sound, LotsBalance
  <2> QED
    BY <2>1, <2>2 DEF Sound
<1>3. CoinsConserved'
  BY <1>1 DEF TradingInv, CoinsConserved
<1> QED
  BY <1>2, <1>3

LEMMA RequestConserves ==
  ASSUME TradingInv, NEW p \in Players, NEW q \in Players,
         HandleClientTradeRequest(p, q)
  PROVE  TradingInv'
<1>1. TradesInv'
  BY RequestSettles DEF TradingInv
<1>2. Sound' /\ CoinsConserved'
  BY WealthUntouched DEF HandleClientTradeRequest
<1>3. Counted'
  <2>1. nextTrade \in 1..MaxTrades /\ nextTrade' = nextTrade + 1
    BY DEF HandleClientTradeRequest, TradeIds
  <2>2. nextTrade' \in 1..(MaxTrades + 1)
    BY <2>1, TradingAssumption
  <2> QED
    BY <2>2 DEF HandleClientTradeRequest, TradingInv, Counted
<1>4. Differ'
  <2>1. p # q /\ nextTrade \in TradeIds /\ nextTrade \notin trades
    BY DEF HandleClientTradeRequest, TradingInv, TradesInv
  <2> DEFINE fresh == NewTrade(p, q)
  <2>2. fresh.a # fresh.b
    BY <2>1 DEF NewTrade
  <2> HIDE DEF fresh
  <2>3. /\ trade \in [TradeIds -> Trade]
        /\ \A t \in trades : t \in TradeIds /\ trade[t].a # trade[t].b
    BY DEF TradingInv, TradesInv, Differ
  <2>4. CASE trades' = trades \cup {nextTrade} /\ trade' = [trade EXCEPT ![nextTrade] = fresh]
    BY <2>1, <2>2, <2>3, <2>4 DEF Differ
  <2>5. ASSUME NEW t \in PlayerTrades(p), trades' = (trades \ {t}) \cup {nextTrade},
               trade' = [trade EXCEPT ![t] = NoTrade, ![nextTrade] = fresh]
        PROVE  Differ'
    <3>0. t \in trades /\ t \in TradeIds /\ t # nextTrade
      BY <2>1, <2>3 DEF PlayerTrades
    <3>1. /\ trade'[nextTrade] = fresh
          /\ \A u \in TradeIds \ {t, nextTrade} : trade'[u] = trade[u]
      BY <2>1, <2>3, <2>5, <3>0
    <3> SUFFICES ASSUME NEW u \in trades' PROVE trade'[u].a # trade'[u].b
      BY DEF Differ
    <3>2. CASE u = nextTrade
      BY <2>2, <3>1, <3>2
    <3>3. CASE u # nextTrade
      <4>1. u \in trades /\ u \in TradeIds /\ u # t
        BY <2>3, <2>5, <3>0, <3>3
      <4> QED
        BY <2>3, <3>1, <3>3, <4>1
    <3> QED
      BY <3>2, <3>3
  <2> QED
    BY <2>4, <2>5 DEF HandleClientTradeRequest, fresh
<1> QED
  BY <1>1, <1>2, <1>3, <1>4 DEF TradingInv

(* A trade that is deleted leaves the others as they were.                  *)
LEMMA DeletedLeavesOthers ==
  ASSUME TradingInv, NEW t \in trades,
         trades' = trades \ {t}, trade' = [trade EXCEPT ![t] = NoTrade]
  PROVE  Differ'
<1>1. /\ trade \in [TradeIds -> Trade]
      /\ \A u \in trades : u \in TradeIds /\ trade[u].a # trade[u].b
  BY DEF TradingInv, TradesInv, Differ
<1>2. \A u \in TradeIds \ {t} : trade'[u] = trade[u]
  BY <1>1
<1> QED
  BY <1>1, <1>2 DEF Differ

LEMMA CancelConserves ==
  ASSUME TradingInv, NEW p \in Players, HandleClientTradeCancel(p)
  PROVE  TradingInv'
<1>1. TradesInv'
  BY CancelSettles DEF TradingInv
<1>2. Sound' /\ CoinsConserved'
  BY WealthUntouched DEF HandleClientTradeCancel
<1>3. Counted'
  BY DEF HandleClientTradeCancel, TradingInv, Counted
<1>4. Differ'
  BY DeletedLeavesOthers DEF HandleClientTradeCancel, PlayerTrades
<1> QED
  BY <1>1, <1>2, <1>3, <1>4 DEF TradingInv

LEMMA UpdateConserves ==
  ASSUME TradingInv, NEW p \in Players,
         NEW offer \in Offers[p], HandleClientTradeUpdate(p, offer)
  PROVE  TradingInv'
<1>1. TradesInv'
  BY UpdateSettles DEF TradingInv
<1>2. Sound' /\ CoinsConserved'
  BY WealthUntouched DEF HandleClientTradeUpdate
<1>3. Counted'
  BY DEF HandleClientTradeUpdate, TradingInv, Counted
<1>4. Differ'
  <2>1. PICK t \in trades :
          trade' = [trade EXCEPT ![t].coins[p] = offer.coins, ![t].items[p] = offer.items]
    BY DEF HandleClientTradeUpdate, PlayerTrades
  <2>2. trades' = trades
    BY DEF HandleClientTradeUpdate
  <2>3. /\ trade \in [TradeIds -> Trade] /\ t \in TradeIds
        /\ \A u \in trades : u \in TradeIds /\ trade[u].a # trade[u].b
    BY DEF TradingInv, TradesInv, Differ
  <2>4. \A u \in TradeIds \ {t} : trade'[u] = trade[u]
    BY <2>1, <2>3
  <2>5. trade'[t].a = trade[t].a /\ trade'[t].b = trade[t].b
    BY <2>1, <2>3 DEF Trade
  <2> QED
    BY <2>2, <2>3, <2>4, <2>5 DEF Differ
<1> QED
  BY <1>1, <1>2, <1>3, <1>4 DEF TradingInv

LEMMA AcceptConserves ==
  ASSUME TradingInv, NEW p \in Players, NEW bFirst \in BOOLEAN,
         HandleClientTradeAccept(p, bFirst)
  PROVE  TradingInv'
<1>1. TradesInv'
  BY AcceptSettles DEF TradingInv
<1>2. UNCHANGED <<present, nextTrade, absences, lost>>
  BY DEF HandleClientTradeAccept
<1>3. PICK t \in trades :
        LET accepted == [trade[t].accepted EXCEPT ![p] = ~bFirst]
            parties  == {trade[t].a, trade[t].b}
        IN
        IF (\A q \in parties : accepted[q]) /\ parties \subseteq present
        THEN Settle(t)
        ELSE /\ trade' = [trade EXCEPT ![t].accepted = accepted]
             /\ UNCHANGED <<trades, wealth, careless>>
  BY DEF HandleClientTradeAccept, PlayerTrades
<1>4. t \in TradeIds /\ trade[t] \in Trade /\ trade[t].a # trade[t].b
  BY DEF TradingInv, TradesInv, Differ
<1>5. CASE Settle(t)
  <2>1. Differ'
    BY <1>5, DeletedLeavesOthers DEF Settle
  <2>2. Total(coins') = Total(coins)
    BY <1>4, <1>5, CompletePays DEF Settle, TradingInv
  <2>3. /\ Tidy(Kept') /\ Bounded(Kept') /\ careless' \in BOOLEAN
        /\ careless' \/ (/\ ~careless /\ Neat(Kept')
                         /\ \A l \in Lots : LotOf(Kept', l) = LotOf(Kept, l))
    BY <1>5, CompleteHands DEF Settle
  <2>4. Sound'
    <3>1. ASSUME ~careless' PROVE Neat(Kept') /\ LotsBalance'
      <4>1. LotsBalance
        BY <2>3, <3>1 DEF TradingInv, Sound
      <4>2. \A l \in Lots : LotOf(Kept', l) = LotOf(Kept, l)
        BY <2>3, <3>1
      <4> QED
        BY <1>2, <2>3, <3>1, <4>1, <4>2 DEF LotsBalance
    <3> QED
      BY <2>3, <3>1 DEF Sound
  <2>5. CoinsConserved'
    BY <1>2, <2>2 DEF TradingInv, CoinsConserved
  <2>6. Counted'
    BY <1>2, <2>3 DEF TradingInv, Counted
  <2> QED
    BY <1>1, <2>1, <2>4, <2>5, <2>6 DEF TradingInv
<1>6. ASSUME NEW accepted, trade' = [trade EXCEPT ![t].accepted = accepted],
             UNCHANGED <<trades, wealth, careless>>
      PROVE  TradingInv'
  <2>1. Sound' /\ CoinsConserved'
    BY <1>2, <1>6, WealthUntouched
  <2>2. /\ trade \in [TradeIds -> Trade]
        /\ \A u \in trades : u \in TradeIds /\ trade[u].a # trade[u].b
    BY DEF TradingInv, TradesInv, Differ
  <2>3. \A u \in TradeIds : trade'[u].a = trade[u].a /\ trade'[u].b = trade[u].b
    BY <1>4, <1>6, <2>2 DEF Trade
  <2>4. Differ'
    BY <1>6, <2>2, <2>3 DEF Differ
  <2>5. Counted'
    BY <1>2, <1>6 DEF TradingInv, Counted
  <2> QED
    BY <1>1, <2>1, <2>4, <2>5 DEF TradingInv
<1> QED
  BY <1>3, <1>5, <1>6

(* Coins spent and items used up are counted as lost.                       *)
LEMMA SpendConserves ==
  ASSUME TradingInv, TradesInv', NEW p \in Players, SpendCoin(p)
  PROVE  TradingInv'
<1>1. /\ coins \in [Players -> Nat] /\ lost \in [coins: Nat, items: [Lots -> Nat]]
      /\ coins[p] > 0
      /\ coins' = [coins EXCEPT ![p] = coins[p] - 1]
      /\ lost' = [lost EXCEPT !.coins = lost.coins + 1]
      /\ UNCHANGED <<items, mail, nextItem, trades, trade, present, nextTrade, absences, careless>>
  BY DEF SpendCoin, TradingInv, TradesInv, Counted
<1>2. /\ lost' \in [coins: Nat, items: [Lots -> Nat]]
      /\ lost'.coins = lost.coins + 1 /\ lost'.items = lost.items
  BY <1>1
<1>3. Kept' = Kept
  BY <1>1 DEF Kept
<1>4. Total(coins') + 1 = Total(coins)
  <2> DEFINE c == coins[p]
             d == c - 1
  <2>1. c \in Nat /\ d \in Nat /\ coins' = WithAmount(coins, p, d)
    BY <1>1 DEF WithAmount
  <2> HIDE DEF d
  <2>2. coins' \in [Players -> Nat] /\ Total(coins') + coins[p] = Total(coins) + d
    <3>1. coins \in [Players -> Nat] /\ d \in Nat
      BY <1>1, <2>1
    <3>2. /\ WithAmount(coins, p, d) \in [Players -> Nat]
          /\ Total(WithAmount(coins, p, d)) + coins[p] = Total(coins) + d
      BY <3>1, TotalChange
    <3> QED
      BY <2>1, <3>2
  <2>3. Total(coins) \in Nat /\ Total(coins') \in Nat
    BY <1>1, <2>2, TotalType
  <2>4. Total(coins') + c = Total(coins) + (c - 1)
    BY <2>2 DEF d
  <2> HIDE DEF c
  <2> QED
    BY <2>1, <2>3, <2>4
<1>5. Total(coins) \in Nat /\ Total(coins') \in Nat
  <2>1. coins' \in [Players -> Nat]
    BY DEF TradesInv
  <2> QED
    BY <1>1, <2>1, TotalType
<1>6. CoinsConserved'
  <2>1. Total(coins) + lost.coins = Total(InitialCoins) /\ lost.coins \in Nat
    BY <1>1 DEF TradingInv, CoinsConserved
  <2>2. Total(coins') + (lost.coins + 1) = Total(InitialCoins)
    BY <1>4, <1>5, <2>1
  <2> QED
    BY <1>2, <2>2 DEF CoinsConserved
<1>7. Sound'
  <2>1. Tidy(Kept') /\ Bounded(Kept')
    BY <1>3 DEF TradingInv, Sound
  <2>2. careless' \/ (Neat(Kept') /\ LotsBalance')
    BY <1>1, <1>2, <1>3 DEF TradingInv, Sound, LotsBalance
  <2> QED
    BY <2>1, <2>2 DEF Sound
<1>8. Counted' /\ Differ'
  BY <1>1, <1>2 DEF TradingInv, Counted, Differ
<1> QED
  BY <1>6, <1>7, <1>8 DEF TradingInv

LEMMA UseConserves ==
  ASSUME TradingInv, TradesInv', NEW p \in Players, NEW i \in ItemIds, UseItem(p, i)
  PROVE  TradingInv'
<1> DEFINE l == i[1]
           c == items[p][i]
           d == c - 1
           k == lost.items[l]
<1>0. /\ Kept \in Goods /\ Tidy(Kept) /\ Bounded(Kept)
      /\ items \in [Players -> Counts] /\ c \in 0..(CountRange - 1)
      /\ mail \in [Players -> [Lots -> Nat]] /\ nextItem \in [Lots -> Nat \ {0}]
      /\ l \in Lots /\ i \in OfLot(l)
  <2>1. Kept \in Goods /\ Tidy(Kept) /\ Bounded(Kept)
    BY DEF TradingInv, Sound, Tidy
  <2>2. /\ items \in [Players -> Counts] /\ mail \in [Players -> [Lots -> Nat]]
        /\ nextItem \in [Lots -> Nat \ {0}]
    BY <2>1, GoodsParts, KeptParts
  <2> QED
    BY <2>1, <2>2, CountsType, IdsOfLots
<1>1. /\ lost \in [coins: Nat, items: [Lots -> Nat]]
      /\ c > 0 /\ items' = WithCount(items, p, i, d)
      /\ lost' = [lost EXCEPT !.items = [lost.items EXCEPT ![l] = k + 1]]
      /\ UNCHANGED <<coins, mail, nextItem, trades, trade, present, nextTrade, absences, careless>>
  <2>1. lost \in [coins: Nat, items: [Lots -> Nat]]
    BY DEF TradingInv, Counted
  <2> QED
    BY <1>0, <2>1 DEF UseItem, WithCount
<1>2. /\ lost' \in [coins: Nat, items: [Lots -> Nat]]
      /\ lost'.coins = lost.coins /\ k \in Nat /\ lost'.items[l] = k + 1
      /\ \A m \in Lots \ {l} : lost'.items[m] = lost.items[m]
  <2> DEFINE row == [lost.items EXCEPT ![l] = k + 1]
  <2>1. lost.items \in [Lots -> Nat] /\ k \in Nat
    BY <1>0, <1>1
  <2>2. /\ row \in [Lots -> Nat] /\ row[l] = k + 1
        /\ \A m \in Lots \ {l} : row[m] = lost.items[m]
    BY <1>0, <2>1
  <2> HIDE DEF row, k
  <2>3. lost'.items = row /\ lost'.coins = lost.coins /\ lost' \in [coins: Nat, items: [Lots -> Nat]]
    BY <1>1, <2>2 DEF row
  <2> QED
    BY <2>1, <2>2, <2>3
<1>3. d \in 0..(CountRange - 1) /\ d \in Nat /\ c \in Nat /\ d + 1 = c
  <2> HIDE DEF c
  <2>1. c \in 0..(CountRange - 1) /\ c > 0
    BY <1>0, <1>1
  <2> QED
    BY <2>1, StackTypes
<1> HIDE DEF d, l, k
<1>4. /\ items' \in [Players -> Counts]
      /\ items'[p][i] = d
      /\ \A j \in ItemIds \ {i} : items'[p][j] = items[p][j]
      /\ \A q \in Players \ {p} : items'[q] = items[q]
      /\ Total(Stock(items', l)) + c = Total(Stock(items, l)) + d
      /\ \A m \in Lots \ {l} : Total(Stock(items', m)) = Total(Stock(items, m))
  BY <1>0, <1>1, <1>3, StockChange DEF l
<1>5. NoNewStacks(items, items')
  BY <1>1, <1>4 DEF NoNewStacks
<1>6. Kept' \in Goods /\ Tidy(Kept') /\ Bounded(Kept')
  <2>1. Kept' = GoodsOf(items', mail, nextItem, 0)
    BY <1>1, KeptParts
  <2>2. Kept' \in Goods
    BY <1>0, <1>4, <2>1 DEF Goods, GoodsOf
  <2>3. Kept'.nextItem = Kept.nextItem
    BY <1>1, KeptParts
  <2>4. Tidy(Kept')
    BY <1>0, <1>5, <2>2, <2>3, TidyKept, KeptParts
  <2>5. Bounded(Kept')
    BY <1>0, <2>3 DEF Bounded
  <2> QED
    BY <2>2, <2>4, <2>5
<1>7. ASSUME Neat(Kept) PROVE Neat(Kept')
  <2> SUFFICES ASSUME NEW q \in Players, NEW m \in Lots, NEW j \in OfLot(m)
               PROVE  items'[q][j] <= StackSize[m]
    BY KeptParts DEF Neat
  <2>1. j \in ItemIds /\ items[q][j] <= StackSize[m] /\ StackSize[m] \in Nat
    BY <1>7, IdsOfLots, StackTypes, KeptParts DEF Neat
  <2>2. CASE q = p /\ j = i
    <3>1. c <= StackSize[m] /\ items'[q][j] = d
      BY <1>4, <2>1, <2>2
    <3> HIDE DEF c
    <3>2. d <= StackSize[m]
      BY <1>3, <2>1, <3>1
    <3> QED
      BY <3>1, <3>2
  <2>3. CASE ~(q = p /\ j = i)
    BY <1>4, <2>1, <2>3
  <2> QED
    BY <2>2, <2>3
<1>8. ASSUME LotsBalance PROVE LotsBalance'
  <2> SUFFICES ASSUME NEW m \in Lots
               PROVE  LotOf(Kept', m) + lost'.items[m] = Total(Stock(InitialItems, m))
    BY DEF LotsBalance
  <2> DEFINE A == Total(Stock(items', m))
             B == Total(Stock(items, m))
             M == Total([q \in Players |-> mail[q][m]])
             x == lost.items[m]
             y == lost'.items[m]
             N == Total(Stock(InitialItems, m))
  <2>1. LotOf(Kept, m) = B + M
    BY KeptParts
  <2>2. LotOf(Kept', m) = A + M
    BY <1>1, KeptParts DEF LotOf, Mailed
  <2>3. (B + M) + x = N
    BY <1>8, <2>1 DEF LotsBalance
  <2>4. A \in Nat /\ B \in Nat /\ M \in Nat
    <3>1. M = Total(Mailed(Kept, m))
      BY KeptParts DEF Mailed
    <3> QED
      BY <1>0, <1>4, <3>1, AmountTypes, StockType
  <2>5. x \in Nat
    BY <1>1
  <2>6. CASE m # l
    <3>1. A = B /\ y = x
      BY <1>2, <1>4, <2>6
    <3> QED
      BY <2>2, <2>3, <3>1
  <2>7. CASE m = l
    <3>1. A + c = B + d /\ y = x + 1
      BY <1>2, <1>4, <2>7 DEF k
    <3> HIDE DEF A, B, M, N, x, y, c
    <3>2. (A + M) + y = N
      BY <1>3, <2>3, <2>4, <2>5, <3>1
    <3> QED
      BY <2>2, <3>2 DEF N, y
  <2> QED
    BY <2>6, <2>7
<1>9. Sound'
  BY <1>1, <1>6, <1>7, <1>8 DEF TradingInv, Sound
<1>10. Counted' /\ Differ' /\ CoinsConserved'
  BY <1>1, <1>2 DEF TradingInv, Counted, Differ, CoinsConserved
<1> QED
  BY <1>9, <1>10 DEF TradingInv

LEMMA StepConserves == TradingInv /\ [Next]_vars => TradingInv'
<1> SUFFICES ASSUME TradingInv, [Next]_vars PROVE TradingInv'
  OBVIOUS
<1>0. TradesInv'
  BY StepSettles DEF TradingInv
<1>1. ASSUME NEW p \in Players, ClientStep(p) PROVE TradingInv'
  BY <1>1, RequestConserves, CancelConserves, UpdateConserves, AcceptConserves
     DEF ClientStep
<1>2. ASSUME UNCHANGED <<wealth, lost, careless, trades, trade, nextTrade>>,
             present' \subseteq Players, absences' \in Nat
      PROVE  TradingInv'
  <2>1. Sound' /\ CoinsConserved'
    BY <1>2, WealthUntouched
  <2> QED
    BY <1>0, <1>2, <2>1 DEF TradingInv, Counted, Differ
<1>3. ASSUME NEW p \in Players, PlayerLeaves(p) \/ PlayerReturns(p) PROVE TradingInv'
  BY <1>2, <1>3 DEF PlayerLeaves, PlayerReturns, TradingInv, Counted
<1>4. ASSUME NEW p \in Players, SpendCoin(p) PROVE TradingInv'
  BY <1>0, <1>4, SpendConserves
<1>5. ASSUME NEW p \in Players, NEW i \in ItemIds, UseItem(p, i) PROVE TradingInv'
  BY <1>0, <1>5, UseConserves
<1>6. CASE UNCHANGED vars
  BY <1>2, <1>6 DEF vars, TradingInv, Counted
<1> QED
  BY <1>1, <1>3, <1>4, <1>5, <1>6 DEF Next

LEMMA TradingAlways == Spec => []TradingInv
BY InitConserves, StepConserves, PTL DEF Spec

(* Counts are those of a uint32_t, inventories keep within their slots and  *)
(* every trade is one that was opened, whatever is offered, accepted, spent *)
(* or used up in between; and no stack outgrows its size unless a trade was *)
(* completed whose entries together took more than there was, or named      *)
(* another lot (TradingManager.cpp, Item.cpp).                              *)
THEOREM TypeCorrect == Spec => []TypeOK
<1>1. TradingInv => TypeOK
  BY TradingInvImplies
<1> QED
  BY <1>1, TradingAlways, PTL

(* Trades make and destroy no coins, whatever clients offer, and no items   *)
(* until a trade was completed with something that Trade::Complete, which   *)
(* checks the entries of an offer one by one, overlooks: what the first     *)
(* side gives takes nothing of what the second is about to give, and what   *)
(* an entry takes is left for it by those before it.                        *)
THEOREM WealthIsConserved == Spec => []WealthConserved
<1>1. TradingInv => WealthConserved
  BY TradingInvImplies
<1> QED
  BY <1>1, TradingAlways, PTL

-----------------------------------------------------------------------------
(* Whose wealth changes, and by whose consent.                              *)

MovesInTrade ==
  \A p \in Players :
    (lost' = lost /\ <<coins'[p], items'[p], mail'[p]>> # <<coins[p], items[p], mail[p]>>)
      => \E t \in trades \ trades' :
           /\ IsParticipant(t, p)
           /\ \E q \in {trade[t].a, trade[t].b} : trade[t].accepted[q]

(* Both have accepted after the second acceptance, so one had before.       *)
LEMMA SettleMoves ==
  ASSUME TradingInv, NEW p \in Players, NEW bFirst \in BOOLEAN, NEW t \in PlayerTrades(p),
         \A q \in {trade[t].a, trade[t].b} : [trade[t].accepted EXCEPT ![p] = ~bFirst][q],
         Settle(t)
  PROVE  MovesInTrade
<1>1. /\ t \in trades /\ t \in TradeIds /\ trade[t] \in Trade
      /\ trade[t].a # trade[t].b /\ p \in {trade[t].a, trade[t].b}
  BY DEF PlayerTrades, IsParticipant, TradingInv, TradesInv, Differ
<1>2. t \notin trades'
  BY DEF Settle
<1>3. \E q \in {trade[t].a, trade[t].b} : trade[t].accepted[q]
  <2>1. PICK q \in {trade[t].a, trade[t].b} : q # p
    BY <1>1
  <2>2. q \in Players /\ trade[t].accepted \in [Players -> BOOLEAN]
    BY <1>1 DEF Trade
  <2>3. [trade[t].accepted EXCEPT ![p] = ~bFirst][q] = trade[t].accepted[q]
    BY <2>1, <2>2
  <2>4. trade[t].accepted[q]
    BY <2>3
  <2> QED
    BY <2>4
<1>4. ASSUME NEW q \in Players, ~IsParticipant(t, q)
      PROVE  coins'[q] = coins[q] /\ items'[q] = items[q] /\ mail'[q] = mail[q]
  <2>1. items'[q] = items[q] /\ mail'[q] = mail[q]
    BY <1>1, <1>4, CompleteHands DEF Settle
  <2>2. coins'[q] = coins[q]
    <3>1. q # trade[t].a /\ q # trade[t].b /\ coins \in [Players -> Nat]
      BY <1>4 DEF IsParticipant, TradingInv, TradesInv
    <3> QED
      BY <3>1 DEF Settle, Complete, wealth
  <2> QED
    BY <2>1, <2>2
<1> QED
  BY <1>1, <1>2, <1>3, <1>4 DEF MovesInTrade

LEMMA StepMoves ==
  ASSUME TradingInv, [Next]_vars
  PROVE  MovesInTrade
<1>1. ASSUME UNCHANGED wealth PROVE MovesInTrade
  BY <1>1 DEF wealth, MovesInTrade
<1>2. ASSUME NEW p \in Players, NEW bFirst \in BOOLEAN, HandleClientTradeAccept(p, bFirst)
      PROVE  MovesInTrade
  <2>1. PICK t \in PlayerTrades(p) :
          IF /\ \A q \in {trade[t].a, trade[t].b} : [trade[t].accepted EXCEPT ![p] = ~bFirst][q]
             /\ {trade[t].a, trade[t].b} \subseteq present
          THEN Settle(t)
          ELSE UNCHANGED wealth
    BY <1>2 DEF HandleClientTradeAccept
  <2>2. CASE UNCHANGED wealth
    BY <1>1, <2>2
  <2>3. CASE /\ \A q \in {trade[t].a, trade[t].b} : [trade[t].accepted EXCEPT ![p] = ~bFirst][q]
             /\ Settle(t)
    BY <2>3, SettleMoves
  <2> QED
    BY <2>1, <2>2, <2>3
<1>3. ASSUME NEW p \in Players, ClientStep(p) PROVE MovesInTrade
  <2>1. ASSUME NEW q \in Players, HandleClientTradeRequest(p, q) PROVE MovesInTrade
    BY <1>1, <2>1 DEF HandleClientTradeRequest
  <2>2. ASSUME HandleClientTradeCancel(p) PROVE MovesInTrade
    BY <1>1, <2>2 DEF HandleClientTradeCancel
  <2>3. ASSUME NEW offer, HandleClientTradeUpdate(p, offer) PROVE MovesInTrade
    BY <1>1, <2>3 DEF HandleClientTradeUpdate
  <2> QED
    BY <1>2, <1>3, <2>1, <2>2, <2>3 DEF ClientStep
<1>4. ASSUME NEW p \in Players, PlayerLeaves(p) \/ PlayerReturns(p) PROVE MovesInTrade
  BY <1>1, <1>4 DEF PlayerLeaves, PlayerReturns
<1>5. ASSUME NEW p \in Players, NEW i \in ItemIds, UseItem(p, i) PROVE MovesInTrade
  <2>1. lost \in [coins: Nat, items: [Lots -> Nat]]
    BY DEF TradingInv, Counted
  <2>2. i[1] \in Lots
    BY IdsOfLots
  <2>3. lost'.items[i[1]] = lost.items[i[1]] + 1 /\ lost.items[i[1]] \in Nat
    BY <1>5, <2>1, <2>2 DEF UseItem
  <2>4. lost' # lost
    BY <2>3
  <2> QED
    BY <2>4 DEF MovesInTrade
<1>6. CASE UNCHANGED vars
  BY <1>1, <1>6 DEF vars
<1>7. ASSUME NEW p \in Players, SpendCoin(p) PROVE MovesInTrade
  <2>1. lost \in [coins: Nat, items: [Lots -> Nat]]
    BY DEF TradingInv, Counted
  <2>2. lost'.coins = lost.coins + 1
    BY <1>7, <2>1 DEF SpendCoin
  <2>3. lost' # lost
    BY <2>1, <2>2
  <2> QED
    BY <2>3 DEF MovesInTrade
<1> QED
  BY <1>3, <1>4, <1>5, <1>6, <1>7 DEF Next

(* A player's wealth changes hands only in a trade of its own that one side *)
(* had confirmed before and that closes in the same step: Complete touches  *)
(* the two sides of its trade and nobody else.                              *)
THEOREM WealthMovesAsAgreed == Spec => WealthMovesInTradesOnly
<1>1. TradingInv /\ [Next]_vars => MovesInTrade
  BY StepMoves
<1>2. Spec => [][MovesInTrade]_vars
  BY <1>1, TradingAlways, PTL DEF Spec
<1> QED
  BY <1>2 DEF WealthMovesInTradesOnly, MovesInTrade
=============================================================================
