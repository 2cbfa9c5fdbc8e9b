------------------------------- MODULE Trading -------------------------------
(***************************************************************************)
(* Trades between the players of one world (dGame/TradingManager), the      *)
(* client messages that drive them, and what a completed trade does to the  *)
(* purses and inventories of both sides.                                    *)
(*                                                                         *)
(* The items are stacks without configuration data, of lots that share one  *)
(* inventory.  An object id is never used again: items are named by their   *)
(* lot and the number of those created of it before, trades by the number   *)
(* of those opened before.  Nothing tells the manager that a player has     *)
(* left the world, inventories change elsewhere while a trade is open, and  *)
(* an offer is what its client wrote: it need not be what the player has.   *)
(***************************************************************************)
EXTENDS Integers, Sequences, FiniteSets, SequencesExt

CONSTANTS
  Players,
  Lots,           \* the lots there are in the game data
  NoLot,          \* a lot that is not there (IsValidItem)
  StackSize,      \* stackSize of each lot
  CountRange,     \* 2^32: the count of an item is a uint32_t
  Slots,          \* the size of an inventory of items
  InitialCoins,   \* what each player starts with
  InitialItems,   \* the counts each player starts with, by item id
  FirstNewItem,   \* the first item number that nobody has yet
  Offers,         \* what the client of each player offers in trades
  MaxTrades,      \* bound on the trades ever opened
  MaxItems,       \* bound on the items of a lot ever created
  MaxLosses,      \* bound on what is spent or used up outside of trades
  MaxAbsences     \* bound on the times a player leaves the world

TradeIds == 1..MaxTrades
Numbers  == 1..MaxItems
ItemIds  == Lots \X Numbers

OfLot(l) == {l} \X Numbers

(* itemId, itemLot and itemCount come from the client, each by itself.      *)
TradeItem == [itemId: ItemIds, itemLot: Lots \cup {NoLot},
              itemCount: 0..(CountRange - 1)]

Offer == [coins: Nat, items: Seq(TradeItem)]

ASSUME TradingAssumption ==
  /\ Players # {} /\ IsFiniteSet(Players)
  /\ IsFiniteSet(Lots) /\ NoLot \notin Lots
  /\ CountRange \in Nat
  /\ StackSize \in [Lots -> 1..(CountRange - 1)]
  /\ Slots \in Nat
  /\ InitialCoins \in [Players -> Nat]
  /\ FirstNewItem \in 1..(MaxItems + 1)
  /\ InitialItems \in [Players -> [ItemIds -> Nat]]
  /\ \A p \in Players, l \in Lots, n \in Numbers :
       /\ InitialItems[p][<<l, n>>] <= StackSize[l]
       /\ InitialItems[p][<<l, n>>] > 0 =>
            n < FirstNewItem /\ \A q \in Players \ {p} : InitialItems[q][<<l, n>>] = 0
  /\ \A p \in Players :
       Cardinality({i \in ItemIds : InitialItems[p][i] > 0}) <= Slots
  /\ Offers \in [Players -> SUBSET Offer]
  /\ MaxTrades \in Nat /\ MaxItems \in Nat
  /\ MaxLosses \in Nat /\ MaxAbsences \in Nat

VARIABLES
  present,    \* the players whose entity is in the world
  coins,      \* the purse of each player
  items,      \* the count of each item in each inventory, 0 if not there
  mail,       \* the items mailed to each player for want of room, by lot
  nextItem,   \* the next item number of each lot
  trades,     \* the open trades
  trade,      \* what each trade holds
  nextTrade,  \* the next trade id
  lost,       \* what was spent and used up outside of trades
  absences,   \* how often a player may still leave
  careless    \* history: a trade was completed with something Overlooked

wealth == <<coins, items, mail, nextItem>>
vars == <<present, wealth, trades, trade, nextTrade, lost, absences, careless>>

Trade ==
  [a: Players, b: Players, coins: [Players -> Nat],
   items: [Players -> Seq(TradeItem)], accepted: [Players -> BOOLEAN]]

NewTrade(p, q) ==
  [a |-> p, b |-> q, coins |-> [r \in Players |-> 0],
   items |-> [r \in Players |-> <<>>],
   accepted |-> [r \in Players |-> FALSE]]

(* What is left of a deleted trade.                                         *)
NoTrade == LET p == CHOOSE p \in Players : TRUE IN NewTrade(p, p)

IsParticipant(t, p) == p \in {trade[t].a, trade[t].b}

(* GetPlayerTrade returns the first trade of the player that the unordered  *)
(* map of trades happens to list: any of them.                              *)
PlayerTrades(p) == {t \in trades : IsParticipant(t, p)}

-----------------------------------------------------------------------------
(* Item::SetCount and InventoryComponent::AddItem.  What they work on is a  *)
(* record of wealth without coins, and of the items AddItem has left.       *)

Lesser(m, n) == IF m < n THEN m ELSE n

(* Sums and differences of counts, in the arithmetic of uint32_t.           *)
Count(n) ==
  IF n < 0 THEN n + CountRange ELSE IF n >= CountRange THEN n - CountRange ELSE n

Held(inv, p)      == {i \in ItemIds : inv[p][i] > 0}
HeldOf(inv, p, l) == {i \in OfLot(l) : inv[p][i] > 0}
HasRoom(inv, p)   == Cardinality(Held(inv, p)) < Slots

(* FindItemByLot: one of the smallest stacks, which of them is a matter of  *)
(* their ids.                                                               *)
SmallestStack(inv, p, l) ==
  CHOOSE i \in HeldOf(inv, p, l) :
    \A j \in HeldOf(inv, p, l) : inv[p][i] <= inv[p][j]

(* The smallest stack takes what it can of the items left.                  *)
Fill(s, p, l) ==
  LET i     == SmallestStack(s.items, p, l)
      delta == Lesser(s.left, Count(StackSize[l] - s.items[p][i]))
  IN
  IF HeldOf(s.items, p, l) = {} THEN s
  ELSE [s EXCEPT !.items[p][i] = Count(@ + delta), !.left = @ - delta]

(* Mutant: a full inventory is not noticed.                                 *)
NewStackAnyway(s, p, l) ==
  LET size == Lesser(s.left, StackSize[l])
      rest == [s EXCEPT !.left = @ - size]
  IN [rest EXCEPT !.items[p][<<l, s.nextItem[l]>>] = size, !.nextItem[l] = @ + 1]

(* Up to a stack of what is left becomes an item of its own, or is mailed   *)
(* when there is no slot.                                                   *)
NewStack(s, p, l) ==
  LET size == Lesser(s.left, StackSize[l])
      rest == [s EXCEPT !.left = @ - size]
  IN
  IF HasRoom(s.items, p)
  THEN [rest EXCEPT !.items[p][<<l, s.nextItem[l]>>] = size, !.nextItem[l] = @ + 1]
  ELSE [rest EXCEPT !.mail[p][l] = @ + size]

(* New stacks until nothing is left.                                        *)
NewStacks(s, p, l) ==
  LET after[k \in 0..s.left] ==
        IF k = 0 THEN s
        ELSE IF after[k - 1].left = 0 THEN after[k - 1]
        ELSE NewStack(after[k - 1], p, l)
  IN after[s.left]

AddItem(s, p, l, n) ==
  IF l \in Lots THEN NewStacks(Fill([s EXCEPT !.left = n], p, l), p, l) ELSE s

(* One iteration of Complete's loops: FindItemById, SetCount and AddItem.   *)
HandOver(s, from, to, offer) ==
  LET taken == IF s.items[from][offer.itemId] = 0 THEN s
               ELSE [s EXCEPT !.items[from][offer.itemId] =
                                Count(@ - offer.itemCount)]
  IN AddItem(taken, to, offer.itemLot, offer.itemCount)

HandOverAll(s, from, to, offers) ==
  FoldLeft(LAMBDA acc, offer : HandOver(acc, from, to, offer), s, offers)

(* Complete's verification of coins and items, entry by entry.              *)
CanPay(t, p) == coins[p] >= trade[t].coins[p]

HasItems(t, p) ==
  \A k \in DOMAIN trade[t].items[p] :
    LET held == items[p][trade[t].items[p][k].itemId]
    IN held > 0 /\ held >= trade[t].items[p][k].itemCount

(* Mutant: only the first side is asked to have its items.                  *)
VerifiedFirst(t) ==
  /\ CanPay(t, trade[t].a) /\ CanPay(t, trade[t].b)
  /\ HasItems(t, trade[t].a)

Verified(t) ==
  /\ CanPay(t, trade[t].a) /\ CanPay(t, trade[t].b)
  /\ HasItems(t, trade[t].a) /\ HasItems(t, trade[t].b)

(* What the verification overlooks: entries that together take more from a  *)
(* stack than is in it, and an entry that names another lot.                *)
Listed(offers, i) ==
  LET asked == [k \in DOMAIN offers |->
                  IF offers[k].itemId = i THEN offers[k].itemCount ELSE 0]
  IN MapThenSumSet(LAMBDA k : asked[k], DOMAIN offers)

Overlooked(t, p) ==
  /\ HasItems(t, p)
  /\ \/ \E i \in ItemIds : Listed(trade[t].items[p], i) > items[p][i]
     \/ \E k \in DOMAIN trade[t].items[p] :
          trade[t].items[p][k].itemLot # trade[t].items[p][k].itemId[1]

(* Character::SetCoins.                                                     *)
Purse(n) == IF n < 0 THEN 0 ELSE n

(* Complete: coins, then the items of A, then those of B.                   *)
Complete(t) ==
  LET a == trade[t].a
      b == trade[t].b
      paidA == trade[t].coins[a]
      paidB == trade[t].coins[b]
      s0 == [items |-> items, mail |-> mail, nextItem |-> nextItem, left |-> 0]
      s1 == HandOverAll(s0, a, b, trade[t].items[a])
      s2 == HandOverAll(s1, b, a, trade[t].items[b])
  IN
  IF Verified(t)
  THEN /\ \A l \in Lots : s2.nextItem[l] <= MaxItems + 1
       /\ coins' = [coins EXCEPT ![a] = Purse(@ - paidA + paidB),
                                 ![b] = Purse(@ - paidB + paidA)]
       /\ items' = s2.items
       /\ mail' = s2.mail
       /\ nextItem' = s2.nextItem
       /\ careless' = (careless \/ Overlooked(t, a) \/ Overlooked(t, b))
  ELSE UNCHANGED <<wealth, careless>>

-----------------------------------------------------------------------------
(* The messages of a client: GameMessages::HandleClientTrade...             *)

HandleClientTradeRequest(p, q) ==
  /\ p \in present /\ q \in present /\ p # q
  /\ nextTrade \in TradeIds
  /\ \/ \E t \in PlayerTrades(p) :
          /\ ~IsParticipant(t, q)
          /\ trades' = (trades \ {t}) \cup {nextTrade}
          /\ trade' = [trade EXCEPT ![t] = NoTrade,
                                    ![nextTrade] = NewTrade(p, q)]
     \/ /\ PlayerTrades(p) = {}
        /\ trades' = trades \cup {nextTrade}
        /\ trade' = [trade EXCEPT ![nextTrade] = NewTrade(p, q)]
  /\ nextTrade' = nextTrade + 1
  /\ UNCHANGED <<present, wealth, lost, absences, careless>>

HandleClientTradeCancel(p) ==
  /\ p \in present
  /\ \E t \in PlayerTrades(p) :
       /\ trades' = trades \ {t}
       /\ trade' = [trade EXCEPT ![t] = NoTrade]
  /\ UNCHANGED <<present, wealth, nextTrade, lost, absences, careless>>

(* SetCoins and SetItems keep whatever the client offers.                   *)
HandleClientTradeUpdate(p, offer) ==
  /\ p \in present
  /\ \E t \in PlayerTrades(p) :
       trade' = [trade EXCEPT ![t].coins[p] = offer.coins,
                              ![t].items[p] = offer.items]
  /\ UNCHANGED <<present, wealth, trades, nextTrade, lost, absences, careless>>

(* Mutant: a trade whose verification fails stays open.                     *)
SettleIfVerified(t) ==
  /\ Complete(t)
  /\ IF Verified(t)
     THEN trades' = trades \ {t} /\ trade' = [trade EXCEPT ![t] = NoTrade]
     ELSE trades' = trades /\ trade' = [trade EXCEPT ![t].accepted =
                                          [q \in Players |-> TRUE]]

(* Complete, then CancelTrade, whether or not anything was traded.          *)
Settle(t) ==
  /\ Complete(t)
  /\ trades' = trades \ {t}
  /\ trade' = [trade EXCEPT ![t] = NoTrade]

(* Mutant: the second confirmation need not be that of the other side.      *)
AcceptForBoth(p, bFirst) ==
  /\ p \in present
  /\ \E t \in PlayerTrades(p) :
       LET accepted == [trade[t].accepted EXCEPT ![p] = ~bFirst]
           parties  == {trade[t].a, trade[t].b}
       IN
       IF (\E q \in parties : accepted[q]) /\ parties \subseteq present
       THEN Settle(t)
       ELSE /\ trade' = [trade EXCEPT ![t].accepted = accepted]
            /\ UNCHANGED <<trades, wealth, careless>>
  /\ UNCHANGED <<present, nextTrade, lost, absences>>

(* SetAccepted: bFirst withdraws an acceptance (it opens the confirmation   *)
(* of the offer), its absence confirms.                                     *)
HandleClientTradeAccept(p, bFirst) ==
  /\ p \in present
  /\ \E t \in PlayerTrades(p) :
       LET accepted == [trade[t].accepted EXCEPT ![p] = ~bFirst]
           parties  == {trade[t].a, trade[t].b}
       IN
       IF (\A q \in parties : accepted[q]) /\ parties \subseteq present
       THEN Settle(t)
       ELSE /\ trade' = [trade EXCEPT ![t].accepted = accepted]
            /\ UNCHANGED <<trades, wealth, careless>>
  /\ UNCHANGED <<present, nextTrade, lost, absences>>

-----------------------------------------------------------------------------
(* What goes on beside the trades.                                          *)

PlayerLeaves(p) ==
  /\ p \in present
  /\ absences > 0
  /\ absences' = absences - 1
  /\ present' = present \ {p}
  /\ UNCHANGED <<wealth, trades, trade, nextTrade, lost, careless>>

PlayerReturns(p) ==
  /\ p \notin present
  /\ present' = present \cup {p}
  /\ UNCHANGED <<wealth, trades, trade, nextTrade, lost, absences, careless>>

Losses == lost.coins + MapThenSumSet(LAMBDA l : lost.items[l], Lots)

(* Coins spent, in this world or another.                                   *)
SpendCoin(p) ==
  /\ coins[p] > 0
  /\ Losses < MaxLosses
  /\ coins' = [coins EXCEPT ![p] = @ - 1]
  /\ lost' = [lost EXCEPT !.coins = @ + 1]
  /\ UNCHANGED <<present, items, mail, nextItem, trades, trade, nextTrade,
                 absences, careless>>

(* An item used up, in this world or another.                               *)
UseItem(p, i) ==
  /\ items[p][i] > 0
  /\ Losses < MaxLosses
  /\ items' = [items EXCEPT ![p][i] = @ - 1]
  /\ lost' = [lost EXCEPT !.items[i[1]] = @ + 1]
  /\ UNCHANGED <<present, coins, mail, nextItem, trades, trade, nextTrade,
                 absences, careless>>

-----------------------------------------------------------------------------
Init ==
  /\ present = Players
  /\ coins = InitialCoins
  /\ items = InitialItems
  /\ mail = [p \in Players |-> [l \in Lots |-> 0]]
  /\ nextItem = [l \in Lots |-> FirstNewItem]
  /\ trades = {}
  /\ trade = [t \in TradeIds |-> NoTrade]
  /\ nextTrade = 1
  /\ lost = [coins |-> 0, items |-> [l \in Lots |-> 0]]
  /\ absences = MaxAbsences
  /\ careless = FALSE

ClientStep(p) ==
  \/ \E q \in Players : HandleClientTradeRequest(p, q)
  \/ HandleClientTradeCancel(p)
  \/ \E offer \in Offers[p] : HandleClientTradeUpdate(p, offer)
  \/ \E bFirst \in BOOLEAN : HandleClientTradeAccept(p, bFirst)

Next ==
  \E p \in Players :
    \/ ClientStep(p)
    \/ PlayerLeaves(p)
    \/ PlayerReturns(p)
    \/ SpendCoin(p)
    \/ \E i \in ItemIds : UseItem(p, i)

Spec == Init /\ [][Next]_vars

-----------------------------------------------------------------------------
(* Properties.                                                              *)

(* Type invariant: counts are those of a uint32_t, and no inventory grows   *)
(* beyond its slots, where the constructor of Item would drop the item      *)
(* (AddManagedItem).  No stack grows beyond its size, whatever became of    *)
(* the items between an offer and the trade, unless a trade was careless:   *)
(* then SetCount may be given less than nothing, which is a huge count.     *)
TypeOK ==
  /\ present \subseteq Players
  /\ coins \in [Players -> Nat]
  /\ items \in [Players -> [ItemIds -> 0..(CountRange - 1)]]
  /\ \A p \in Players : Cardinality(Held(items, p)) <= Slots
  /\ mail \in [Players -> [Lots -> Nat]]
  /\ nextItem \in [Lots -> 1..(MaxItems + 1)]
  /\ trades \subseteq TradeIds \cap (1..(nextTrade - 1))
  /\ trade \in [TradeIds -> Trade]
  /\ nextTrade \in 1..(MaxTrades + 1)
  /\ lost \in [coins: Nat, items: [Lots -> Nat]]
  /\ absences \in Nat
  /\ careless \in BOOLEAN
  /\ careless \/ \A p \in Players, l \in Lots : \A i \in OfLot(l) :
                  items[p][i] <= StackSize[l]

Total(f) == MapThenSumSet(LAMBDA p : f[p], Players)

(* Trades make and destroy no coins: what the players have and what they    *)
(* spent is what they started with, though clients offer coins they do not  *)
(* have, SetCoins turns a debt into nothing and purses change between an    *)
(* offer and its completion.                                                *)
CoinsConserved == Total(coins) + lost.coins = Total(InitialCoins)

(* How many items of a lot each player has.                                 *)
Stock(inv, l) ==
  [p \in Players |-> MapThenSumSet(LAMBDA i : inv[p][i], OfLot(l))]

(* Trades make and destroy no items of any lot, those that were mailed for  *)
(* want of room included, though the first side's items are added to stacks *)
(* the second side is about to give, a stack may be listed several times    *)
(* and stacks change between an offer and its completion; as long as the    *)
(* entries of no trade together took more from a stack than was in it, and  *)
(* none named another lot, which Complete does not look at.                 *)
ItemsConserved ==
  careless \/ \A l \in Lots :
    Total(Stock(items, l)) + Total([p \in Players |-> mail[p][l]]) + lost.items[l]
      = Total(Stock(InitialItems, l))

(* Both, whatever trades and losses come between the offer of a side and    *)
(* its completion.                                                          *)
WealthConserved == CoinsConserved /\ ItemsConserved

(* A trade that becomes accepted by both is over in the same step, traded   *)
(* or refused, unless one side is away; so it is settled once.              *)
AcceptedTradesAreSettled ==
  [][\A t \in trades' :
       LET parties  == {trade[t].a, trade[t].b}
           both(tr) == \A q \in parties : tr[t].accepted[q]
       IN (parties \subseteq present /\ both(trade') /\ t \in trades)
             => both(trade)]_vars

(* A player's wealth changes hands only in a trade of its own that closes   *)
(* in the same step and that one side had confirmed before: never by the    *)
(* confirmation of another trade the player happens to be part of.          *)
WealthMovesInTradesOnly ==
  [][\A p \in Players :
       (lost' = lost /\ <<coins'[p], items'[p], mail'[p]>>
                          # <<coins[p], items[p], mail[p]>>)
         => \E t \in trades \ trades' :
              /\ IsParticipant(t, p)
              /\ \E q \in {trade[t].a, trade[t].b} : trade[t].accepted[q]]_vars
=============================================================================
