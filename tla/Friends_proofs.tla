--------------------------- MODULE Friends_proofs ---------------------------
(***************************************************************************)
(* Friendships have the consent of both and are kept once, for every number *)
(* of players, when nobody asks for a best friend who is offline.  (If they *)
(* do, BestFriendsByConsent is false: the entry of a player that is not     *)
(* found is shared.)                                                        *)
(***************************************************************************)
EXTENDS Friends, FiniteSetTheorems, SequenceTheorems,
        NaturalsInduction, WellFoundedInduction, TLAPS

(* The list has an entry of the friend, with that flag.                     *)
Lists(data, id, best) ==
  \E k \in DOMAIN data.friends :
    /\ data.friends[k].friendID = id
    /\ data.friends[k].isBestFriend = best

-----------------------------------------------------------------------------
(* The operations on one list.                                              *)

(* The count a list is sent with is a byte.                                 *)
LEMMA ByteCounts == \A n \in Nat : n % 256 \in 0..255
OBVIOUS

(* A non-empty set of numbers has a least one, which CHOOSE gives.          *)
LEMMA LeastExists ==
  ASSUME NEW S \in SUBSET Nat, S # {}
  PROVE  \E x \in S : \A y \in S : x <= y
<1> DEFINE R == OpToRel(<, Nat)
<1>1. PICK x \in S : \A y \in S : <<y, x>> \notin R
  <2>1. IsWellFoundedOn(R, Nat)
        BY NatLessThanWellFounded
  <2> HIDE DEF R
  <2> QED BY <2>1, WFMin
<1>2. \A y \in S : <<y, x>> \in R <=> y < x
      BY DEF OpToRel
<1> HIDE DEF R
<1>3. ASSUME NEW y \in S PROVE x <= y
  <2>1. x \in Nat /\ y \in Nat
        OBVIOUS
  <2>2. ~(y < x)
        BY <1>1, <1>2
  <2> QED BY <2>1, <2>2
<1> QED BY <1>3

(* A list with one more friend has what it had, and the friend.             *)
LEMMA AddEntryLists ==
  ASSUME NEW data \in PlayerData, NEW id \in Players
  PROVE  /\ AddEntry(data, id) \in PlayerData
         /\ AddEntry(data, id).playerID = data.playerID
         /\ Lists(AddEntry(data, id), id, FALSE)
         /\ \A x, best : Lists(data, x, best) => Lists(AddEntry(data, id), x, best)
<1> DEFINE fd == [friendID |-> id, isBestFriend |-> FALSE]
<1>1. AddEntry(data, id) = [data EXCEPT !.friends = Append(@, fd)]
      BY DEF AddEntry
<1>2. fd \in FriendData
      BY DEF FriendData
<1>3. data.friends \in Seq(FriendData)
      BY DEF PlayerData
<1>4. /\ Append(data.friends, fd) \in Seq(FriendData)
      /\ DOMAIN data.friends = 1..Len(data.friends)
      /\ DOMAIN Append(data.friends, fd) = 1..(Len(data.friends) + 1)
      /\ \A k \in 1..Len(data.friends) : Append(data.friends, fd)[k] = data.friends[k]
      /\ Append(data.friends, fd)[Len(data.friends) + 1] = fd
      /\ Len(data.friends) \in Nat
      BY <1>2, <1>3
<1> HIDE DEF fd
<1>5. AddEntry(data, id).friends = Append(data.friends, fd)
      BY <1>1 DEF PlayerData
<1>6. AddEntry(data, id) \in PlayerData /\ AddEntry(data, id).playerID = data.playerID
      BY <1>1, <1>4 DEF PlayerData
<1>7. Lists(AddEntry(data, id), id, FALSE)
  <2>1. fd.friendID = id /\ fd.isBestFriend = FALSE
        BY DEF fd
  <2> QED BY <1>4, <1>5, <2>1 DEF Lists
<1>8. ASSUME NEW x, NEW best, Lists(data, x, best)
      PROVE  Lists(AddEntry(data, id), x, best)
      BY <1>4, <1>5, <1>8 DEF Lists
<1> QED BY <1>6, <1>7, <1>8

(* Marking a friend leaves the others' flags alone.                         *)
LEMMA MarkBestLists ==
  ASSUME NEW data \in PlayerData, NEW id
  PROVE  /\ MarkBest(data, id) \in PlayerData
         /\ MarkBest(data, id).playerID = data.playerID
         /\ \A best : Lists(data, id, best) => Lists(MarkBest(data, id), id, TRUE)
         /\ \A x, best : x # id /\ Lists(data, x, best)
                            => Lists(MarkBest(data, id), x, best)
<1> DEFINE old == data.friends
           new == [k \in DOMAIN old |->
                     IF old[k].friendID = id
                     THEN [old[k] EXCEPT !.isBestFriend = TRUE] ELSE old[k]]
<1>1. old \in Seq(FriendData)
      BY DEF PlayerData
<1>2. /\ DOMAIN old = 1..Len(old) /\ Len(old) \in Nat
      /\ \A k \in DOMAIN old : old[k] \in FriendData
      BY <1>1
<1>3. DOMAIN new = DOMAIN old
      OBVIOUS
<1>4. ASSUME NEW k \in DOMAIN old
      PROVE  /\ new[k] \in FriendData
             /\ new[k].friendID = old[k].friendID
             /\ old[k].friendID = id => new[k].isBestFriend = TRUE
             /\ old[k].friendID # id => new[k] = old[k]
      BY <1>2 DEF FriendData
<1>5. new \in Seq(FriendData)
  <2>1. new \in [1..Len(old) -> FriendData]
        BY <1>2, <1>4
  <2> HIDE DEF new
  <2> QED BY <1>2, <2>1
<1>6. MarkBest(data, id) = [data EXCEPT !.countOfBestFriends = (@ + 1) % 256,
                                        !.friends = new]
      BY DEF MarkBest
<1> HIDE DEF new
<1>7. (data.countOfBestFriends + 1) % 256 \in 0..255
  <2>1. data.countOfBestFriends \in 0..255
        BY DEF PlayerData
  <2>2. data.countOfBestFriends + 1 \in Nat
        BY <2>1
  <2> QED BY <2>2, ByteCounts
<1>8. /\ MarkBest(data, id).friends = new
      /\ MarkBest(data, id) \in PlayerData
      /\ MarkBest(data, id).playerID = data.playerID
      BY <1>5, <1>6, <1>7 DEF PlayerData
<1>9. ASSUME NEW best, Lists(data, id, best)
      PROVE  Lists(MarkBest(data, id), id, TRUE)
      BY <1>3, <1>4, <1>8, <1>9 DEF Lists
<1>10. ASSUME NEW x, NEW best, x # id, Lists(data, x, best)
       PROVE  Lists(MarkBest(data, id), x, best)
      BY <1>3, <1>4, <1>8, <1>10 DEF Lists
<1> QED BY <1>8, <1>9, <1>10

(* Erasing a friend leaves the others.                                      *)
LEMMA EraseEntryLists ==
  ASSUME NEW data \in PlayerData, NEW id
  PROVE  /\ EraseEntry(data, id) \in PlayerData
         /\ EraseEntry(data, id).playerID = data.playerID
         /\ data.friends = <<>> => EraseEntry(data, id) = data
         /\ \A x, best : x # id /\ Lists(data, x, best)
                            => Lists(EraseEntry(data, id), x, best)
<1> DEFINE old == data.friends
<1>1. /\ old \in Seq(FriendData)
      /\ DOMAIN old = 1..Len(old) /\ Len(old) \in Nat
      /\ data.countOfBestFriends \in 0..255
      BY DEF PlayerData
<1>2. old = <<>> => FriendIds(data) = {}
      BY DEF FriendIds
<1>3. CASE id \notin FriendIds(data)
      BY <1>3 DEF EraseEntry
<1>4. CASE id \in FriendIds(data)
  <2> DEFINE first(k) == /\ old[k].friendID = id
                         /\ \A j \in 1..(k - 1) : old[j].friendID # id
             k == CHOOSE k \in DOMAIN old : first(k)
             new == RemoveAt(old, k)
  <2>1. \E j \in DOMAIN old : first(j)
    <3> DEFINE places == {j \in DOMAIN old : old[j].friendID = id}
    <3>1. places # {} /\ places \subseteq Nat
          BY <1>1, <1>4 DEF FriendIds
    <3>2. PICK j \in places : \A i \in places : j <= i
          BY <3>1, LeastExists
    <3> QED BY <1>1, <3>2
  <2>2. k \in 1..Len(old) /\ old[k].friendID = id
        BY <1>1, <2>1
  <2> HIDE DEF k
  <2>3. /\ SubSeq(old, 1, k - 1) \in Seq(FriendData)
        /\ Len(SubSeq(old, 1, k - 1)) = k - 1
        /\ \A i \in 1..(k - 1) : SubSeq(old, 1, k - 1)[i] = old[i]
        BY <1>1, <2>2, SubSeqProperties
  <2>4. /\ SubSeq(old, k + 1, Len(old)) \in Seq(FriendData)
        /\ Len(SubSeq(old, k + 1, Len(old))) = Len(old) - k
        /\ \A i \in 1..(Len(old) - k) :
             SubSeq(old, k + 1, Len(old))[i] = old[k + i]
        BY <1>1, <2>2, SubSeqProperties
  <2>5. /\ new \in Seq(FriendData)
        /\ DOMAIN new = 1..(Len(old) - 1)
        /\ \A i \in 1..(k - 1) : new[i] = old[i]
        /\ \A i \in k..(Len(old) - 1) : new[i] = old[i + 1]
    <3> DEFINE before == SubSeq(old, 1, k - 1)
               after  == SubSeq(old, k + 1, Len(old))
    <3>1. new = before \o after
          BY DEF RemoveAt
    <3>2. before \in Seq(FriendData) /\ after \in Seq(FriendData)
          BY <2>3, <2>4
    <3>3. /\ Len(before) = k - 1 /\ Len(after) = Len(old) - k
          /\ \A i \in 1..(k - 1) : before[i] = old[i]
          /\ \A i \in 1..(Len(old) - k) : after[i] = old[k + i]
          BY <2>3, <2>4
    <3> HIDE DEF before, after, new
    <3>4. /\ new \in Seq(FriendData)
          /\ Len(new) = Len(before) + Len(after)
          /\ \A i \in 1..(Len(before) + Len(after)) :
               new[i] = IF i <= Len(before) THEN before[i]
                        ELSE after[i - Len(before)]
          BY <3>1, <3>2, ConcatProperties
    <3>5. DOMAIN new = 1..(Len(old) - 1)
          BY <1>1, <2>2, <3>3, <3>4
    <3>6. \A i \in 1..(k - 1) : new[i] = old[i]
          BY <1>1, <2>2, <3>3, <3>4
    <3>7. ASSUME NEW i \in k..(Len(old) - 1)
          PROVE  new[i] = old[i + 1]
      <4>1. i - (k - 1) \in 1..(Len(old) - k) /\ k + (i - (k - 1)) = i + 1
            BY <1>1, <2>2
      <4>2. /\ Len(old) \in Nat /\ k \in 1..Len(old) /\ i \in Nat
            /\ i \in 1..(Len(before) + Len(after)) /\ ~(i <= Len(before))
            BY <1>1, <2>2, <3>3
      <4>3. new[i] = after[i - (k - 1)]
            BY <3>3, <3>4, <4>2
      <4>4. after[i - (k - 1)] = old[k + (i - (k - 1))]
            BY <3>3, <4>1
      <4> QED BY <4>1, <4>3, <4>4
    <3> QED BY <3>4, <3>5, <3>6, <3>7
  <2> HIDE DEF new
  <2>6. PICK count \in 0..255 :
          EraseEntry(data, id) =
            [data EXCEPT !.friends = new, !.countOfBestFriends = count]
    <3> DEFINE count == IF old[k].isBestFriend
                        THEN (data.countOfBestFriends + 255) % 256
                        ELSE data.countOfBestFriends
    <3>1. count \in 0..255
      <4> DEFINE n == data.countOfBestFriends
      <4>1. n \in 0..255 /\ n + 255 \in Nat
        <5>1. n \in 0..255
              BY <1>1
        <5> HIDE DEF n
        <5> QED BY <5>1
      <4>2. (data.countOfBestFriends + 255) % 256 \in 0..255
            BY <4>1, ByteCounts
      <4> QED BY <1>1, <4>2
    <3>2. EraseEntry(data, id) =
            [data EXCEPT !.friends = new, !.countOfBestFriends = count]
          BY <1>4 DEF EraseEntry, k, new
    <3> QED BY <3>1, <3>2
  <2>7. /\ EraseEntry(data, id).friends = new
        /\ EraseEntry(data, id) \in PlayerData
        /\ EraseEntry(data, id).playerID = data.playerID
        BY <2>5, <2>6 DEF PlayerData
  <2>8. ASSUME NEW x, NEW best, x # id, Lists(data, x, best)
        PROVE  Lists(EraseEntry(data, id), x, best)
    <3>1. PICK j \in 1..Len(old) : /\ old[j].friendID = x
                                   /\ old[j].isBestFriend = best
          BY <1>1, <2>8 DEF Lists
    <3>2. j # k
          BY <2>2, <2>8, <3>1
    <3>3. \E i \in DOMAIN new : new[i] = old[j]
      <4>1. CASE j < k
        <5>1. j \in 1..(k - 1) /\ j \in 1..(Len(old) - 1)
              BY <1>1, <2>2, <4>1
        <5> QED BY <2>5, <5>1
      <4>2. CASE j > k
        <5>1. j - 1 \in k..(Len(old) - 1) /\ (j - 1) + 1 = j
              BY <2>2, <3>1, <4>2
        <5>2. j - 1 \in DOMAIN new
              BY <1>1, <2>2, <2>5, <5>1
        <5> QED BY <2>5, <5>1, <5>2
      <4> QED BY <2>2, <3>1, <3>2, <4>1, <4>2
    <3> QED BY <2>7, <3>1, <3>3 DEF Lists
  <2> QED BY <1>2, <1>4, <2>7, <2>8
<1> QED BY <1>3, <1>4

-----------------------------------------------------------------------------
(* The inductive invariant.                                                 *)

(* Nobody asks who is offline, so the shared entry stays empty.             *)
EntriesOwn ==
  /\ m_Players[LWOOBJID_EMPTY] = NoData
  /\ \A p \in Players : m_Players[p].playerID \in {p, LWOOBJID_EMPTY}

(* Each bit of best_friend was set by a request of that player.             *)
BitsAsked ==
  \A row \in rows :
    /\ row.best \in {1, 3} => <<row.player, row.friend>> \in asked
    /\ row.best \in {2, 3} => <<row.friend, row.player>> \in asked

NobodyAsksItself == \A p \in Players : <<p, p>> \notin requests

IInv ==
  /\ TypeOK
  /\ IsFiniteSet(rows)
  /\ EntriesOwn
  /\ OneRowPerFriendship
  /\ ListsCoverTable
  /\ BitsAsked
  /\ NobodyAsksItself

(* ListsCoverTable in terms of Lists.                                       *)
LEMMA CoverByLists ==
  ListsCoverTable <=>
    \A p \in loaded : \A row \in RowsOf(p) :
      Lists(m_Players[p], FriendOf(row, p), row.best = 3)
BY DEF ListsCoverTable, Lists

(* The shared entry for a player that is not found is player data.          *)
LEMMA NoDataType == NoData \in PlayerData
<1>1. <<>> \in Seq(FriendData)
      OBVIOUS
<1> QED BY <1>1 DEF NoData, PlayerData, Keys

(* Who is found by name is found as itself.                                 *)
LEMMA FoundByName ==
  ASSUME EntriesOwn, NEW q \in Players, Found(ByName(q))
  PROVE  ByName(q) = q /\ Found(q) /\ m_Players[q].playerID = q
BY FriendsAssumption DEF EntriesOwn, Found, ByName, ById, NoData

LEMMA InitIInv == Init => IInv
<1> SUFFICES ASSUME Init PROVE IInv
    OBVIOUS
<1> USE FriendsAssumption DEF Init
<1>1. TypeOK
  <2>1. m_Players \in [Keys -> PlayerData]
        BY NoDataType
  <2>2. rows \subseteq Row
        BY DEF Row
  <2>3. logins \in 0..MaxLogins
        OBVIOUS
  <2> QED BY <2>1, <2>2, <2>3 DEF TypeOK
<1>2. IsFiniteSet(rows)
  <2>1. IsFiniteSet(InitialFriends)
        BY FS_Product, FS_Subset
  <2> DEFINE made == [f \in InitialFriends |->
                       [player |-> f[1], friend |-> f[2], best |-> 0]]
  <2>2. made \in Surjection(InitialFriends, rows)
        BY DEF Surjection
  <2> QED BY <2>1, <2>2, FS_Surjection
<1>3. EntriesOwn
      BY DEF EntriesOwn, NoData, Keys
<1>4. OneRowPerFriendship
  <2> SUFFICES ASSUME NEW f \in InitialFriends, NEW g \in InitialFriends,
                      {f[1], f[2]} = {g[1], g[2]}
               PROVE  f[1] = g[1] /\ f[2] = g[2] /\ f[1] # f[2]
      BY DEF OneRowPerFriendship, IsBetween
  <2>1. f = <<f[1], f[2]>> /\ g = <<g[1], g[2]>>
        OBVIOUS
  <2>2. f[1] # f[2] /\ g[1] # g[2]
        OBVIOUS
  <2>3. ~(f[1] = g[2] /\ f[2] = g[1])
        BY <2>1
  <2> QED BY <2>2, <2>3
<1>5. ListsCoverTable
      BY DEF ListsCoverTable
<1>6. BitsAsked
      BY DEF BitsAsked
<1> QED BY <1>1, <1>2, <1>3, <1>4, <1>5, <1>6 DEF IInv, NobodyAsksItself

-----------------------------------------------------------------------------
(* The steps.                                                               *)

(* Loaded lists that lose nothing cover a table that gains nothing.         *)
LEMMA CoverKept ==
  ASSUME ListsCoverTable, rows' = rows, loaded' \subseteq loaded,
         \A r \in loaded' : m_Players'[r] = m_Players[r]
  PROVE  ListsCoverTable'
<1> SUFFICES ASSUME NEW r \in loaded', NEW row \in RowsOf(r)
             PROVE  \E k \in DOMAIN m_Players[r].friends :
                      /\ m_Players[r].friends[k].friendID = FriendOf(row, r)
                      /\ m_Players[r].friends[k].isBestFriend = (row.best = 3)
    BY DEF ListsCoverTable, RowsOf, FriendOf
<1> QED BY DEF ListsCoverTable

(* Each action keeps the invariant.                                         *)
LEMMA LoginIInv ==
  ASSUME IInv, NEW p \in Players, Login(p)
  PROVE  IInv'
<1> USE FriendsAssumption DEF IInv, Login
<1>1. m_Players[p].playerID = LWOOBJID_EMPTY /\ p \notin loaded /\ p \in Keys
      BY DEF TypeOK, Found, Keys
<1>2. [NoData EXCEPT !.playerID = p] \in PlayerData
      BY NoDataType DEF PlayerData, Keys
<1>3. TypeOK'
  <2>1. m_Players' \in [Keys -> PlayerData]
        BY <1>2 DEF TypeOK
  <2>2. loaded' \subseteq {r \in Players : Found(r)'}
        BY <1>1 DEF TypeOK, Found, Keys
  <2>3. logins' \in 0..MaxLogins
        BY DEF TypeOK
  <2> QED BY <2>1, <2>2, <2>3 DEF TypeOK
<1>4. EntriesOwn'
      BY <1>1 DEF EntriesOwn, TypeOK, Keys, NoData
<1>5. ListsCoverTable'
  <2>1. \A r \in loaded : m_Players'[r] = m_Players[r]
        BY <1>1 DEF TypeOK, Keys
  <2> QED BY <2>1, CoverKept
<1> QED BY <1>3, <1>4, <1>5 DEF OneRowPerFriendship, IsBetween, BitsAsked,
                                 NobodyAsksItself

LEMMA LogoutIInv ==
  ASSUME IInv, NEW p \in Keys, Logout(p)
  PROVE  IInv'
<1> USE FriendsAssumption DEF IInv, Logout
<1>1. TypeOK'
  <2>1. m_Players' \in [Keys -> PlayerData]
        BY NoDataType DEF TypeOK
  <2>2. loaded' \subseteq {r \in Players : Found(r)'}
        BY DEF TypeOK, Found, Keys
  <2> QED BY <2>1, <2>2 DEF TypeOK
<1>2. EntriesOwn'
      BY DEF EntriesOwn, TypeOK, Keys, NoData
<1>3. ListsCoverTable'
  <2>1. \A r \in loaded' : m_Players'[r] = m_Players[r]
        BY DEF TypeOK, Keys
  <2> QED BY <2>1, CoverKept
<1> QED BY <1>1, <1>2, <1>3 DEF OneRowPerFriendship, IsBetween, BitsAsked,
                                 NobodyAsksItself

(* A list that enumerates a finite set has each of its elements.            *)
LEMMA ListsAll ==
  ASSUME NEW S, IsFiniteSet(S), NEW list \in [1..Cardinality(S) -> S],
         \A j, k \in DOMAIN list : j # k => list[j] # list[k]
  PROVE  \A x \in S : \E k \in 1..Cardinality(S) : list[k] = x
<1> DEFINE n == Cardinality(S)
<1>1. n \in Nat
      BY FS_CardinalityType
<1>2. IsFiniteSet(1..n) /\ Cardinality(1..n) = n
      BY <1>1, FS_Interval
<1>3. list \in Injection(1..n, S)
      BY DEF Injection, IsInjective
<1>4. list \in Surjection(1..n, S)
      BY <1>2, <1>3, FS_Injection
<1> QED BY <1>4 DEF Surjection

LEMMA ListIInv ==
  ASSUME IInv, NEW p \in Players, HandleFriendlistRequest(p)
  PROVE  IInv'
<1> USE FriendsAssumption DEF IInv
<1>1. PICK list \in GetFriendsList(p) :
        LET best(row) == row.best = 3
            fds == [k \in DOMAIN list |->
                     [friendID |-> FriendOf(list[k], p),
                      isBestFriend |-> best(list[k])]]
        IN m_Players' = [m_Players EXCEPT
            ![p].friends = @ \o fds,
            ![p].countOfBestFriends =
               (@ + Cardinality({row \in RowsOf(p) : best(row)})) % 256]
      BY DEF HandleFriendlistRequest
<1> DEFINE n == Cardinality(RowsOf(p))
           fds == [k \in 1..n |-> [friendID |-> FriendOf(list[k], p),
                                   isBestFriend |-> list[k].best = 3]]
           old == m_Players[p].friends
           bests == Cardinality({row \in RowsOf(p) : row.best = 3})
           count == (m_Players[p].countOfBestFriends + bests) % 256
<1>2. /\ p \in Keys /\ p # LWOOBJID_EMPTY
      /\ m_Players[p] \in PlayerData
      /\ loaded' = loaded \cup {p}
      /\ Found(p)
      /\ UNCHANGED <<rows, requests, logins, asked>>
      BY DEF HandleFriendlistRequest, TypeOK, Keys
<1>3. IsFiniteSet(RowsOf(p)) /\ n \in Nat /\ bests \in Nat
  <2>1. IsFiniteSet(RowsOf(p)) /\ IsFiniteSet({row \in RowsOf(p) : row.best = 3})
        BY FS_Subset DEF RowsOf
  <2> QED BY <2>1, FS_CardinalityType
<1>4. /\ list \in [1..n -> RowsOf(p)]
      /\ \A j, k \in DOMAIN list : j # k => list[j] # list[k]
      BY DEF GetFriendsList
<1>5. fds \in Seq(FriendData) /\ Len(fds) = n
  <2>1. ASSUME NEW row \in RowsOf(p) PROVE FriendOf(row, p) \in Players
        BY DEF RowsOf, FriendOf, TypeOK, Row
  <2>2. fds \in [1..n -> FriendData]
        BY <1>4, <2>1 DEF FriendData
  <2> HIDE DEF fds
  <2> QED BY <1>3, <2>2
<1>6. count \in 0..255
  <2>1. m_Players[p].countOfBestFriends \in 0..255
        BY <1>2 DEF PlayerData
  <2> HIDE DEF bests
  <2>2. m_Players[p].countOfBestFriends + bests \in Nat
        BY <1>3, <2>1
  <2> QED BY <2>2, ByteCounts
<1>7. m_Players' = [m_Players EXCEPT ![p].friends = old \o fds,
                                     ![p].countOfBestFriends = count]
      BY <1>1, <1>4
<1> HIDE DEF fds, bests, count
<1>8. /\ old \in Seq(FriendData) /\ old \o fds \in Seq(FriendData)
      /\ DOMAIN old = 1..Len(old) /\ Len(old) \in Nat
      /\ DOMAIN (old \o fds) = 1..(Len(old) + n)
      /\ \A k \in 1..Len(old) : (old \o fds)[k] = old[k]
      /\ \A k \in 1..n : (old \o fds)[Len(old) + k] = fds[k]
  <2>1. old \in Seq(FriendData)
        BY <1>2 DEF PlayerData
  <2> HIDE DEF old, n
  <2> QED BY <1>3, <1>5, <2>1
<1>9. /\ m_Players' \in [Keys -> PlayerData]
      /\ m_Players'[p].friends = old \o fds
      /\ m_Players'[p].playerID = m_Players[p].playerID
      /\ \A k \in Keys \ {p} : m_Players'[k] = m_Players[k]
      BY <1>2, <1>6, <1>7, <1>8 DEF TypeOK, PlayerData
<1>10. TypeOK'
  <2>1. loaded' \subseteq {r \in Players : Found(r)'}
        BY <1>2, <1>9 DEF TypeOK, Found, Keys
  <2> QED BY <1>2, <1>9, <2>1 DEF TypeOK
<1>11. EntriesOwn'
       BY <1>2, <1>9 DEF EntriesOwn, Keys, NoData
<1>12. ListsCoverTable'
  <2> SUFFICES ASSUME NEW r \in loaded', NEW row \in RowsOf(r)
               PROVE  Lists(m_Players'[r], FriendOf(row, r), row.best = 3)
      BY <1>2 DEF ListsCoverTable, Lists, RowsOf, FriendOf
  <2>1. CASE r # p
        BY <1>2, <1>9, <2>1, CoverByLists DEF TypeOK, Keys
  <2>2. CASE r = p
    <3>1. PICK k \in 1..n : list[k] = row
          BY <1>3, <1>4, <2>2, ListsAll
    <3>2. fds[k].friendID = FriendOf(row, p) /\ fds[k].isBestFriend = (row.best = 3)
          BY <3>1 DEF fds
    <3> HIDE DEF n, old
    <3>3. Len(old) + k \in DOMAIN (old \o fds)
          BY <1>3, <1>8
    <3>4. (old \o fds)[Len(old) + k] = fds[k]
          BY <1>8
    <3>5. m_Players'[r].friends = old \o fds
          BY <1>9, <2>2
    <3> QED BY <2>2, <3>2, <3>3, <3>4, <3>5 DEF Lists
  <2> QED BY <2>1, <2>2
<1> QED BY <1>2, <1>10, <1>11, <1>12 DEF OneRowPerFriendship, IsBetween, BitsAsked,
                                 NobodyAsksItself

LEMMA RequestIInv ==
  ASSUME IInv, NEW p \in Players, NEW q \in Players, HandleFriendRequest(p, q)
  PROVE  IInv'
<1> USE FriendsAssumption DEF IInv, HandleFriendRequest
<1>1. Found(ByName(q))
      OBVIOUS
<1>2. ByName(q) = q
      BY <1>1, FoundByName
<1>3. TypeOK'
      BY <1>2 DEF TypeOK, Found
<1>4. ListsCoverTable'
      BY CoverKept
<1> QED BY <1>2, <1>3, <1>4 DEF EntriesOwn, OneRowPerFriendship, IsBetween, BitsAsked,
              NobodyAsksItself

(* Two lists change, of players found, and neither changes who it is of.    *)
LEMMA TwoEntries ==
  ASSUME TypeOK, EntriesOwn, NEW p \in Players, NEW q \in Players,
         Found(p), Found(q),
         NEW dp \in PlayerData, NEW dq \in PlayerData,
         dp.playerID = m_Players[p].playerID, dq.playerID = m_Players[q].playerID,
         loaded' = loaded,
         m_Players' \in [Keys -> PlayerData],
         m_Players'[p] = dp, m_Players'[q] = dq,
         \A k \in Keys \ {p, q} : m_Players'[k] = m_Players[k]
  PROVE  /\ EntriesOwn'
         /\ loaded' \subseteq {r \in Players : Found(r)'}
BY FriendsAssumption DEF TypeOK, EntriesOwn, Found, Keys, NoData

LEMMA BestIInv ==
  ASSUME AsksOffline = FALSE, IInv, NEW p \in Players, NEW q \in Players,
         HandleBestFriendRequest(p, q)
  PROVE  IInv' /\ \A r \in rows' : \E t \in rows : r.player = t.player /\ r.friend = t.friend
<1> USE FriendsAssumption DEF IInv
<1>1. /\ p \in loaded /\ q # p
      /\ ByName(q) = q
      /\ Found(q) /\ Found(p)
      /\ m_Players[q].playerID = q
  <2>1. Found(q)
        BY DEF HandleBestFriendRequest
  <2>2. ByName(q) = q
        BY <2>1 DEF ByName, ById, EntriesOwn, NoData
  <2> QED BY <2>1, <2>2, FoundByName DEF HandleBestFriendRequest, TypeOK
<1> DEFINE between == {row \in rows : IsBetween(row, p, q)}
<1>2. /\ asked' = asked \cup {<<p, q>>}
      /\ UNCHANGED <<loaded, requests, logins>>
      /\ \/ m_Players' = m_Players /\ UNCHANGED rows
         \/ \E row \in between :
              /\ AskedBest(row, p) # row.best
              /\ SetBestFriendStatus(m_Players, p, q, row)
      BY <1>1 DEF HandleBestFriendRequest
<1>3. CASE m_Players' = m_Players /\ UNCHANGED rows
  <2>1. TypeOK'
        BY <1>2, <1>3 DEF TypeOK, Found
  <2>2. ListsCoverTable'
        BY <1>2, <1>3, CoverKept
  <2>3. BitsAsked'
        BY <1>2, <1>3 DEF BitsAsked
  <2> QED BY <1>2, <1>3, <2>1, <2>2, <2>3 DEF EntriesOwn, OneRowPerFriendship, IsBetween,
                                                    NobodyAsksItself
<1>4. CASE \E row \in between :
             /\ AskedBest(row, p) # row.best
             /\ SetBestFriendStatus(m_Players, p, q, row)
  <2>1. PICK row \in rows :
          /\ {row.player, row.friend} = {p, q}
          /\ AskedBest(row, p) # row.best
          /\ SetBestFriendStatus(m_Players, p, q, row)
        BY <1>4 DEF IsBetween
  <2> DEFINE best == AskedBest(row, p)
             new == [row EXCEPT !.best = best]
  <2>2. /\ row \in Row /\ best \in 0..3 /\ row.best \in 0..2
        /\ p = row.player => best = row.best + 1 /\ row.best \in {0, 2}
        /\ p # row.player => best = row.best + 2 /\ row.best \in {0, 1}
    <3>1. row \in Row /\ row.best \in 0..3
          BY DEF TypeOK, Row
    <3> QED BY <2>1, <3>1 DEF AskedBest
  <2>3. /\ new \in Row /\ new.best = best
        /\ new.player = row.player /\ new.friend = row.friend
        BY <2>2 DEF Row
  <2>4. rows' = (rows \ {row}) \cup {new}
        BY <2>1 DEF SetBestFriendStatus
  <2>5. m_Players' = IF best = 3
                     THEN [m_Players EXCEPT ![p] = MarkBest(@, q),
                                            ![q] = MarkBest(@, p)]
                     ELSE m_Players
        BY <1>1, <2>1 DEF SetBestFriendStatus
  <2> HIDE DEF new, best
  <2>6. /\ p \in Keys /\ q \in Keys
        /\ m_Players[p] \in PlayerData /\ m_Players[q] \in PlayerData
        BY DEF TypeOK, Keys
  <2>7. /\ m_Players' \in [Keys -> PlayerData]
        /\ EntriesOwn'
        /\ loaded' \subseteq {r \in Players : Found(r)'}
    <3>1. CASE best # 3
          BY <1>2, <2>5, <3>1 DEF TypeOK, EntriesOwn, Found
    <3>2. CASE best = 3
      <4>1. /\ MarkBest(m_Players[p], q) \in PlayerData
            /\ MarkBest(m_Players[p], q).playerID = m_Players[p].playerID
            /\ MarkBest(m_Players[q], p) \in PlayerData
            /\ MarkBest(m_Players[q], p).playerID = m_Players[q].playerID
            BY <2>6, MarkBestLists
      <4>2. /\ m_Players' \in [Keys -> PlayerData]
            /\ m_Players'[p] = MarkBest(m_Players[p], q)
            /\ m_Players'[q] = MarkBest(m_Players[q], p)
            /\ \A k \in Keys \ {p, q} : m_Players'[k] = m_Players[k]
            BY <1>1, <2>5, <2>6, <3>2, <4>1 DEF TypeOK
      <4> QED BY <1>1, <1>2, <4>1, <4>2, TwoEntries
    <3> QED BY <3>1, <3>2
  <2>8. TypeOK'
        BY <1>2, <2>3, <2>4, <2>7 DEF TypeOK
  <2>9. IsFiniteSet(rows')
        BY <2>4, FS_RemoveElement, FS_AddElement
  <2>10. OneRowPerFriendship'
    <3>1. \A t \in rows : {t.player, t.friend} = {p, q} => t = row
          BY <2>1 DEF OneRowPerFriendship, IsBetween
    <3> QED BY <2>1, <2>3, <2>4, <3>1 DEF OneRowPerFriendship, IsBetween
  <2>11. ListsCoverTable'
    <3> SUFFICES ASSUME NEW r \in loaded', NEW t \in rows',
                        r \in {t.player, t.friend}
                 PROVE  Lists(m_Players'[r], FriendOf(t, r), t.best = 3)
        BY DEF ListsCoverTable, Lists, RowsOf, FriendOf
    <3>1. r \in loaded /\ r \in Keys /\ r \in Players /\ m_Players[r] \in PlayerData
          BY <1>2 DEF TypeOK, Keys
    <3>2. CASE t = new
      <4>1. t.best = 3 <=> best = 3
            BY <2>3, <3>2
      <4>2. Lists(m_Players[r], FriendOf(row, r), FALSE)
        <5>1. (row.best = 3) = FALSE
              BY <2>2
        <5>2. row \in RowsOf(r)
              BY <2>3, <3>2 DEF RowsOf
        <5>3. Lists(m_Players[r], FriendOf(row, r), row.best = 3)
              BY <3>1, <5>2, CoverByLists
        <5> QED BY <5>1, <5>3
      <4>3. /\ FriendOf(t, r) = FriendOf(row, r)
            /\ r \in {p, q}
            /\ r = p => FriendOf(row, r) = q
            /\ r = q => FriendOf(row, r) = p
            BY <1>1, <2>1, <2>3, <3>2 DEF FriendOf
      <4>4. CASE best # 3
            BY <2>5, <4>1, <4>2, <4>3, <4>4
      <4>5. CASE best = 3
        <5>1. m_Players'[p] = MarkBest(m_Players[p], q)
              BY <1>1, <2>5, <2>6, <4>5 DEF TypeOK
        <5>2. m_Players'[q] = MarkBest(m_Players[q], p)
              BY <1>1, <2>5, <2>6, <4>5 DEF TypeOK
        <5>3. /\ r = p => Lists(m_Players'[p], q, TRUE)
              /\ r = q => Lists(m_Players'[q], p, TRUE)
              BY <2>6, <4>2, <4>3, <5>1, <5>2, MarkBestLists
        <5> QED BY <4>1, <4>3, <4>5, <5>3
      <4> QED BY <4>4, <4>5
    <3>3. CASE t # new
      <4>1. t \in rows /\ t # row
            BY <2>4, <3>3
      <4>2. Lists(m_Players[r], FriendOf(t, r), t.best = 3)
            BY <3>1, <4>1, CoverByLists DEF RowsOf
      <4>3. {t.player, t.friend} # {p, q} /\ t.player # t.friend
            BY <2>1, <4>1 DEF OneRowPerFriendship, IsBetween
      <4>4. /\ r = p => FriendOf(t, r) # q
            /\ r = q => FriendOf(t, r) # p
            BY <4>3 DEF FriendOf
      <4>5. \/ m_Players'[r] = m_Players[r]
            \/ r = p /\ m_Players'[r] = MarkBest(m_Players[r], q)
            \/ r = q /\ m_Players'[r] = MarkBest(m_Players[r], p)
            BY <1>1, <2>5, <3>1 DEF TypeOK
      <4>6. ASSUME NEW x, x # FriendOf(t, r)
            PROVE  Lists(MarkBest(m_Players[r], x), FriendOf(t, r), t.best = 3)
        <5> DEFINE friend == FriendOf(t, r)
                   flag   == (t.best = 3)
        <5>1. Lists(m_Players[r], friend, flag) /\ friend # x
              BY <4>2, <4>6
        <5> HIDE DEF friend, flag
        <5>2. Lists(MarkBest(m_Players[r], x), friend, flag)
              BY <3>1, <5>1, MarkBestLists
        <5> QED BY <5>2 DEF friend, flag
      <4>7. CASE m_Players'[r] = m_Players[r]
            BY <4>2, <4>7
      <4>8. CASE r = p /\ m_Players'[r] = MarkBest(m_Players[r], q)
        <5>1. Lists(MarkBest(m_Players[r], q), FriendOf(t, r), t.best = 3)
              BY <4>4, <4>6, <4>8
        <5> QED BY <4>8, <5>1
      <4>9. CASE r = q /\ m_Players'[r] = MarkBest(m_Players[r], p)
        <5>1. Lists(MarkBest(m_Players[r], p), FriendOf(t, r), t.best = 3)
              BY <4>4, <4>6, <4>9
        <5> QED BY <4>9, <5>1
      <4> QED BY <4>5, <4>7, <4>8, <4>9
    <3> QED BY <3>2, <3>3
  <2>12. BitsAsked'
    <3>1. \A t \in rows' : t = new \/ t \in rows
          BY <2>4
    <3>2. /\ best \in {1, 3} => <<row.player, row.friend>> \in asked'
          /\ best \in {2, 3} => <<row.friend, row.player>> \in asked'
          BY <1>1, <1>2, <2>1, <2>2 DEF BitsAsked
    <3> QED BY <1>2, <2>3, <3>1, <3>2 DEF BitsAsked
  <2>13. \A r \in rows' : \E t \in rows : r.player = t.player /\ r.friend = t.friend
         BY <2>1, <2>3, <2>4
  <2> QED BY <1>2, <2>7, <2>8, <2>9, <2>10, <2>11, <2>12, <2>13 DEF NobodyAsksItself
<1> QED BY <1>2, <1>3, <1>4

(* The new row is of two players who were not friends, since the list of    *)
(* the one who answers has been loaded.                                     *)
LEMMA ResponseIInv ==
  ASSUME IInv, NEW p \in Players, NEW q \in Players, NEW accepted \in BOOLEAN,
         HandleFriendResponse(p, q, accepted)
  PROVE  /\ IInv'
         /\ \A r \in rows' : r \in rows \/ IsBetween(r, p, q)
<1> USE FriendsAssumption DEF IInv
<1>1. /\ <<q, p>> \in requests /\ requests' = requests \ {<<q, p>>}
      /\ p \in loaded /\ Found(p)
      /\ p \in Keys /\ q \in Keys
      /\ m_Players[p] \in PlayerData /\ m_Players[q] \in PlayerData
      /\ UNCHANGED <<loaded, logins, asked>>
      BY DEF HandleFriendResponse, TypeOK, Keys
<1>2. CASE UNCHANGED <<m_Players, rows>>
  <2>1. TypeOK'
        BY <1>1, <1>2 DEF TypeOK, Found
  <2>2. ListsCoverTable'
        BY <1>1, <1>2, CoverKept
  <2> QED BY <1>1, <1>2, <2>1, <2>2
          DEF EntriesOwn, OneRowPerFriendship, IsBetween, BitsAsked,
              NobodyAsksItself
<1>3. CASE ~UNCHANGED <<m_Players, rows>>
  <2>1. /\ Found(ByName(q))
        /\ ~HasFriend(p, m_Players[ByName(q)].playerID)
        /\ m_Players' = [m_Players EXCEPT
             ![ByName(q)] = AddEntry(@, p),
             ![p] = AddEntry(@, m_Players[ByName(q)].playerID)]
        /\ rows' = AddFriend(p, m_Players[ByName(q)].playerID)
        BY <1>3 DEF HandleFriendResponse
  <2>2. ByName(q) = q /\ Found(q) /\ m_Players[q].playerID = q
        BY <2>1, FoundByName
  <2>3. /\ ~HasFriend(p, q)
        /\ m_Players' = [m_Players EXCEPT ![q] = AddEntry(@, p),
                                          ![p] = AddEntry(@, q)]
        /\ rows' = AddFriend(p, q)
        BY <2>1, <2>2
  <2>4. \A t \in rows : ~IsBetween(t, p, q)
    <3> SUFFICES ASSUME NEW t \in rows, {t.player, t.friend} = {p, q}
                 PROVE  FALSE
        BY DEF IsBetween
    <3>1. t \in RowsOf(p) /\ FriendOf(t, p) = q
          BY DEF RowsOf, FriendOf
    <3>2. q \in FriendIds(m_Players[p])
          BY <1>1, <3>1 DEF ListsCoverTable, FriendIds
    <3> QED BY <2>3, <3>2 DEF HasFriend
  <2> DEFINE new == [player |-> p, friend |-> q, best |-> 0]
  <2>5. rows' = rows \cup {new}
        BY <2>3, <2>4 DEF AddFriend, IsBetween
  <2>6. new \in Row
        BY DEF Row
  <2>7. ASSUME p # q PROVE IInv'
    <3>1. /\ AddEntry(m_Players[p], q) \in PlayerData
          /\ AddEntry(m_Players[p], q).playerID = m_Players[p].playerID
          /\ AddEntry(m_Players[q], p) \in PlayerData
          /\ AddEntry(m_Players[q], p).playerID = m_Players[q].playerID
          /\ Lists(AddEntry(m_Players[p], q), q, FALSE)
          /\ Lists(AddEntry(m_Players[q], p), p, FALSE)
          BY <1>1, AddEntryLists
    <3>2. /\ m_Players' \in [Keys -> PlayerData]
          /\ m_Players'[p] = AddEntry(m_Players[p], q)
          /\ m_Players'[q] = AddEntry(m_Players[q], p)
          /\ \A k \in Keys \ {p, q} : m_Players'[k] = m_Players[k]
          BY <1>1, <2>3, <2>7, <3>1 DEF TypeOK
    <3>3. EntriesOwn' /\ loaded' \subseteq {r \in Players : Found(r)'}
          BY <1>1, <2>2, <3>1, <3>2, TwoEntries
    <3>4. TypeOK'
          BY <1>1, <2>5, <2>6, <3>2, <3>3 DEF TypeOK
    <3>5. IsFiniteSet(rows')
          BY <2>5, FS_AddElement
    <3>6. OneRowPerFriendship'
          BY <2>4, <2>5, <2>7 DEF OneRowPerFriendship, IsBetween
    <3>7. ListsCoverTable'
      <4> SUFFICES ASSUME NEW r \in loaded', NEW t \in rows',
                          r \in {t.player, t.friend}
                   PROVE  Lists(m_Players'[r], FriendOf(t, r), t.best = 3)
          BY DEF ListsCoverTable, Lists, RowsOf, FriendOf
      <4>1. r \in loaded /\ r \in Keys /\ r \in Players /\ m_Players[r] \in PlayerData
            BY <1>1 DEF TypeOK, Keys
      <4>2. CASE t = new
        <5>1. (t.best = 3) = FALSE
              BY <4>2
        <5>2. Lists(m_Players'[r], FriendOf(t, r), FALSE)
              BY <2>7, <3>1, <3>2, <4>2 DEF FriendOf
        <5> QED BY <5>1, <5>2
      <4>3. CASE t \in rows
        <5> DEFINE friend == FriendOf(t, r)
                   flag   == (t.best = 3)
        <5>1. Lists(m_Players[r], friend, flag)
              BY <4>1, <4>3, CoverByLists DEF RowsOf
        <5>2. \/ m_Players'[r] = m_Players[r]
              \/ \E x \in Players : m_Players'[r] = AddEntry(m_Players[r], x)
              BY <3>2, <4>1
        <5> HIDE DEF friend, flag
        <5>3. Lists(m_Players'[r], friend, flag)
              BY <4>1, <5>1, <5>2, AddEntryLists
        <5> QED BY <5>3 DEF friend, flag
      <4> QED BY <2>5, <4>2, <4>3
    <3>8. BitsAsked'
      <4>1. new.best \notin {1, 2, 3}
            OBVIOUS
      <4> HIDE DEF new
      <4>2. \A t \in rows' : t = new \/ t \in rows
            BY <2>5
      <4> QED BY <1>1, <4>1, <4>2 DEF BitsAsked
    <3> QED BY <1>1, <3>3, <3>4, <3>5, <3>6, <3>7, <3>8 DEF NobodyAsksItself
  <2>8. p # q
        BY <1>1 DEF NobodyAsksItself
  <2> QED BY <2>5, <2>7, <2>8 DEF IsBetween
<1> QED BY <1>1, <1>2, <1>3 DEF IsBetween

LEMMA RemoveIInv ==
  ASSUME IInv, NEW p \in Players, NEW q \in Players, HandleRemoveFriend(p, q)
  PROVE  IInv' /\ rows' \subseteq rows
<1> USE FriendsAssumption DEF IInv
<1> DEFINE between == {row \in rows : IsBetween(row, p, q)}
           e == ById(q)
<1>1. /\ p \in loaded /\ Found(p)
      /\ p \in Keys /\ q \in Keys /\ e \in {q, LWOOBJID_EMPTY} /\ e \in Keys
      /\ \A k \in Keys : m_Players[k] \in PlayerData
      /\ asked' = asked \ {<<p, q>>, <<q, p>>}
      /\ UNCHANGED <<loaded, requests, logins>>
      /\ \/ between = {} /\ rows' = rows
         \/ \E row \in between : rows' = rows \ {row}
      /\ m_Players' = [[m_Players EXCEPT ![p] = EraseEntry(m_Players[p], q)]
                         EXCEPT ![e] = EraseEntry(@, p)]
      BY DEF HandleRemoveFriend, TypeOK, Keys, ById
<1>2. rows' = rows \ between
      BY <1>1 DEF OneRowPerFriendship, IsBetween
<1> DEFINE dp == EraseEntry(m_Players[p], q)
           de == EraseEntry(IF e = p THEN dp ELSE m_Players[e], p)
<1>3. /\ dp \in PlayerData /\ dp.playerID = m_Players[p].playerID
      /\ de \in PlayerData /\ de.playerID = m_Players[e].playerID
      /\ e = LWOOBJID_EMPTY => de = NoData
  <2>1. dp \in PlayerData /\ dp.playerID = m_Players[p].playerID
        BY <1>1, EraseEntryLists
  <2>2. CASE e = p
        BY <2>1, <2>2, EraseEntryLists
  <2>3. CASE e # p
    <3>1. e = LWOOBJID_EMPTY => m_Players[e].friends = <<>> /\ m_Players[e] = NoData
          BY DEF EntriesOwn, NoData
    <3> QED BY <1>1, <2>1, <2>3, <3>1, EraseEntryLists
  <2> QED BY <2>1, <2>2, <2>3
<1> HIDE DEF dp, de
<1>4. m_Players' = [[m_Players EXCEPT ![p] = dp] EXCEPT ![e] = de]
  <2> DEFINE mid == [m_Players EXCEPT ![p] = dp]
  <2>1. m_Players' = [mid EXCEPT ![e] = EraseEntry(mid[e], p)]
        BY <1>1 DEF dp
  <2>2. mid[e] = IF e = p THEN dp ELSE m_Players[e]
        BY <1>1 DEF TypeOK
  <2> HIDE DEF mid
  <2>3. m_Players' = [mid EXCEPT ![e] = de]
        BY <2>1, <2>2 DEF de
  <2> QED BY <2>3 DEF mid
<1> HIDE DEF e, between
<1>5. /\ m_Players' \in [Keys -> PlayerData]
      /\ m_Players'[e] = de
      /\ e # p => m_Players'[p] = dp
      /\ \A k \in Keys \ {p, e} : m_Players'[k] = m_Players[k]
      BY <1>1, <1>3, <1>4 DEF TypeOK
<1>6. \A k \in Keys : m_Players'[k].playerID = m_Players[k].playerID
      BY <1>3, <1>5
<1>7. EntriesOwn'
      BY <1>1, <1>3, <1>5, <1>6 DEF EntriesOwn, Keys
<1>8. TypeOK'
  <2>1. loaded' \subseteq {r \in Players : Found(r)'}
        BY <1>1, <1>6 DEF TypeOK, Found, Keys
  <2> QED BY <1>1, <1>2, <1>5, <2>1 DEF TypeOK
<1>9. IsFiniteSet(rows')
      BY <1>2, FS_Subset
<1>10. OneRowPerFriendship'
       BY <1>2 DEF OneRowPerFriendship, IsBetween
<1>11. ListsCoverTable'
  <2> SUFFICES ASSUME NEW r \in loaded', NEW t \in rows',
                      r \in {t.player, t.friend}
               PROVE  Lists(m_Players'[r], FriendOf(t, r), t.best = 3)
      BY DEF ListsCoverTable, Lists, RowsOf, FriendOf
  <2> DEFINE friend == FriendOf(t, r)
             flag   == (t.best = 3)
  <2>1. /\ r \in loaded /\ r \in Keys /\ r \in Players
        /\ t \in rows /\ {t.player, t.friend} # {p, q}
        BY <1>1, <1>2 DEF TypeOK, Keys, between, IsBetween
  <2>2. Lists(m_Players[r], friend, flag)
        BY <2>1, CoverByLists DEF RowsOf
  <2>3. (r = p => friend # q) /\ (r = q => friend # p)
        BY <2>1 DEF FriendOf
  <2> HIDE DEF friend, flag
  <2>4. CASE r = p
    <3>1. Lists(dp, friend, flag)
          BY <1>1, <2>2, <2>3, <2>4, EraseEntryLists DEF dp
    <3>2. CASE e = p
      <4>1. q = p
            BY <1>1, <3>2
      <4>2. Lists(de, friend, flag)
            BY <1>3, <2>3, <2>4, <3>1, <3>2, <4>1, EraseEntryLists DEF de
      <4> QED BY <1>5, <2>4, <3>2, <4>2 DEF friend, flag
    <3> QED BY <1>5, <2>4, <3>1, <3>2 DEF friend, flag
  <2>5. CASE r # p /\ r = e
    <3>1. r = q
          BY <1>1, <2>1, <2>5
    <3>2. Lists(de, friend, flag)
          BY <1>1, <2>2, <2>3, <2>5, <3>1, EraseEntryLists DEF de
    <3> QED BY <1>5, <2>5, <3>2 DEF friend, flag
  <2>6. CASE r # p /\ r # e
        BY <1>5, <2>1, <2>2, <2>6 DEF friend, flag
  <2> QED BY <2>4, <2>5, <2>6
<1>12. BitsAsked'
  <2>1. ASSUME NEW t \in rows'
        PROVE  /\ t \in rows
               /\ <<t.player, t.friend>> \notin {<<p, q>>, <<q, p>>}
               /\ <<t.friend, t.player>> \notin {<<p, q>>, <<q, p>>}
        BY <1>2 DEF between, IsBetween
  <2> QED BY <1>1, <2>1 DEF BitsAsked
<1> QED BY <1>1, <1>2, <1>7, <1>8, <1>9, <1>10, <1>11, <1>12 DEF NobodyAsksItself

-----------------------------------------------------------------------------
(* The theorems.                                                            *)

LEMMA StutterIInv == IInv /\ UNCHANGED vars => IInv'
<1> SUFFICES ASSUME IInv, UNCHANGED vars PROVE IInv'
    OBVIOUS
<1>1. ListsCoverTable'
      BY CoverKept DEF IInv, vars
<1> QED BY <1>1 DEF IInv, vars, TypeOK, Found, EntriesOwn, OneRowPerFriendship,
                    IsBetween, BitsAsked, NobodyAsksItself

(* Every step keeps the invariant, and only an answer brings two players    *)
(* together.                                                                *)
LEMMA StepIInv ==
  ASSUME AsksOffline = FALSE, IInv, Next
  PROVE  /\ IInv'
         /\ \/ \A r \in rows' : \E t \in rows : r.player = t.player /\ r.friend = t.friend
            \/ \E p, q \in Players :
                 /\ <<q, p>> \in requests \ requests'
                 /\ \A r \in rows' : r \in rows \/ IsBetween(r, p, q)
<1>1. ASSUME NEW p \in Players, Login(p)
      PROVE  IInv' /\ rows' = rows
      BY <1>1, LoginIInv DEF Login
<1>2. ASSUME NEW k \in Keys, Logout(k)
      PROVE  IInv' /\ rows' = rows
      BY <1>2, LogoutIInv DEF Logout
<1>3. ASSUME NEW p \in Players, HandleFriendlistRequest(p)
      PROVE  IInv' /\ rows' = rows
      BY <1>3, ListIInv DEF HandleFriendlistRequest
<1>4. ASSUME NEW p \in Players, NEW q \in Players, HandleFriendRequest(p, q)
      PROVE  IInv' /\ rows' = rows
      BY <1>4, RequestIInv DEF HandleFriendRequest
<1>5. ASSUME NEW p \in Players, NEW q \in Players, HandleBestFriendRequest(p, q)
      PROVE  IInv' /\ \A r \in rows' : \E t \in rows : r.player = t.player /\ r.friend = t.friend
      BY <1>5, BestIInv
<1>6. ASSUME NEW p \in Players, NEW q \in Players, NEW accepted \in BOOLEAN,
             HandleFriendResponse(p, q, accepted)
      PROVE  /\ IInv'
             /\ <<q, p>> \in requests \ requests'
             /\ \A r \in rows' : r \in rows \/ IsBetween(r, p, q)
      BY <1>6, ResponseIInv DEF HandleFriendResponse
<1>7. ASSUME NEW p \in Players, NEW q \in Players, HandleRemoveFriend(p, q)
      PROVE  IInv' /\ rows' \subseteq rows
      BY <1>7, RemoveIInv
<1> QED BY <1>1, <1>2, <1>3, <1>4, <1>5, <1>6, <1>7 DEF Next

LEMMA Invariance ==
  ASSUME AsksOffline = FALSE
  PROVE  Spec => []IInv
<1>1. IInv /\ [Next]_vars => IInv'
      BY StepIInv, StutterIInv
<1> QED BY <1>1, InitIInv, PTL DEF Spec

(* What the chat server keeps and the table have their types.               *)
THEOREM TypeCorrect ==
  ASSUME AsksOffline = FALSE
  PROVE  Spec => []TypeOK
<1>1. IInv => TypeOK
      BY DEF IInv
<1> QED BY <1>1, Invariance, PTL

(* However answers and lists interleave, two players have one row at most.  *)
THEOREM OneRow ==
  ASSUME AsksOffline = FALSE
  PROVE  Spec => []OneRowPerFriendship
<1>1. IInv => OneRowPerFriendship
      BY DEF IInv
<1> QED BY <1>1, Invariance, PTL

(* The list of a player in game has all its friends and best friends.       *)
THEOREM ListsCorrect ==
  ASSUME AsksOffline = FALSE
  PROVE  Spec => []ListsCoverTable
<1>1. IInv => ListsCoverTable
      BY DEF IInv
<1> QED BY <1>1, Invariance, PTL

(* Best friends have each asked the other.                                  *)
THEOREM BestByConsent ==
  ASSUME AsksOffline = FALSE
  PROVE  Spec => []BestFriendsByConsent
<1>1. IInv => BestFriendsByConsent
      BY DEF IInv, BitsAsked, BestFriendsByConsent
<1> QED BY <1>1, Invariance, PTL

(* Friends have one accepted the other's request.                           *)
THEOREM Friendship ==
  ASSUME AsksOffline = FALSE
  PROVE  Spec => FriendsByConsent
<1> DEFINE Consent ==
      \A p, q \in Players :
       ((\E row \in rows' : IsBetween(row, p, q))
          /\ ~\E row \in rows : IsBetween(row, p, q))
         => \E pair \in requests \ requests' : {pair[1], pair[2]} = {p, q}
<1>1. IInv /\ [Next]_vars => [Consent]_vars
  <2> SUFFICES ASSUME IInv, Next,
                      NEW p \in Players, NEW q \in Players,
                      NEW row \in rows', IsBetween(row, p, q),
                      ~\E t \in rows : IsBetween(t, p, q)
               PROVE  \E pair \in requests \ requests' : {pair[1], pair[2]} = {p, q}
      OBVIOUS
  <2>1. CASE \A r \in rows' : \E t \in rows : r.player = t.player /\ r.friend = t.friend
        BY <2>1 DEF IsBetween
  <2>2. CASE \E x, y \in Players :
               /\ <<y, x>> \in requests \ requests'
               /\ \A r \in rows' : r \in rows \/ IsBetween(r, x, y)
    <3>1. PICK x \in Players, y \in Players :
            /\ <<y, x>> \in requests \ requests'
            /\ \A r \in rows' : r \in rows \/ IsBetween(r, x, y)
          BY <2>2
    <3>2. {y, x} = {p, q}
          BY <3>1 DEF IsBetween
    <3> QED BY <3>1, <3>2
  <2> QED BY <2>1, <2>2, StepIInv
<1>2. Spec => [][Consent]_vars
      BY <1>1, Invariance, PTL DEF Spec
<1> QED BY <1>2 DEF FriendsByConsent
=============================================================================
