------------------------ MODULE ActivityLobby_proofs ------------------------
(* What an activity promises its players when their lobby starts, for every *)
(* number of players and every size of a lobby.                             *)
EXTENDS ActivityLobby, FiniteData, SequenceTheorems

Lobby == [players: Seq(Objects), timer: Int]

(* The queue is one of lobbies, whatever the memory holds.                  *)
LobbyInv == TypeOK /\ m_Queue \in Seq(Lobby)

-----------------------------------------------------------------------------
(* Lobbies and queues.                                                      *)

(* A lobby has a slot exactly while it is below the limit, which is one at  *)
(* least.                                                                   *)
LEMMA SlotBelowLimit ==
  /\ TeamLimit \in Nat \ {0}
  /\ \A lobby \in Lobby : HasSlot(lobby) <=> Len(lobby.players) < TeamLimit
<1> SUFFICES ASSUME NEW lobby \in Lobby
             PROVE  /\ TeamLimit \in Nat \ {0}
                    /\ HasSlot(lobby) <=> Len(lobby.players) < TeamLimit
  <2>1. [players |-> <<>>, timer |-> 0] \in Lobby
    BY DEF Lobby
  <2> QED
    BY <2>1
<1>1. MaxTeamSize \in Nat \ {0} /\ MaxTeams \in Nat \ {0}
  BY ActivityAssumption
<1>2. Len(lobby.players) \in Nat
  BY DEF Lobby
<1> QED
  BY <1>1, <1>2 DEF TeamLimit, HasSlot

(* What a queue points to, place by place.                                  *)
LEMMA ReferencedPlaces ==
  ASSUME NEW queue, NEW h
  PROVE  h \in Referenced(queue) <=>
           \E i \in DOMAIN queue : \E k \in DOMAIN queue[i].players :
             queue[i].players[k] = h
  BY DEF Referenced, ToSet

LEMMA MembersPlaces ==
  ASSUME NEW lobby, NEW id
  PROVE  id \in Members(lobby) <=>
           \E k \in DOMAIN lobby.players : EntityOf(lobby.players[k]) = id
  BY DEF Members, ToSet

(* A lobby that is changed in its players alone, or in its timer alone.     *)
LEMMA LobbyExcept ==
  ASSUME NEW lobby \in Lobby, NEW p \in Seq(Objects), NEW t \in Int
  PROVE  /\ [lobby EXCEPT !.players = p] \in Lobby
         /\ [lobby EXCEPT !.players = p].players = p
         /\ [lobby EXCEPT !.players = p].timer = lobby.timer
         /\ [lobby EXCEPT !.timer = t] \in Lobby
         /\ [lobby EXCEPT !.timer = t].players = lobby.players
         /\ [lobby EXCEPT !.timer = t].timer = t
  BY DEF Lobby

LEMMA EveryLobby ==
  ASSUME NEW queue \in Seq(Lobby)
  PROVE  /\ Len(queue) \in Nat /\ DOMAIN queue = 1..Len(queue)
         /\ \A i \in DOMAIN queue :
              /\ queue[i] \in Lobby /\ queue[i].players \in Seq(Objects)
              /\ queue[i].timer \in Int /\ Len(queue[i].players) \in Nat
              /\ DOMAIN queue[i].players = 1..Len(queue[i].players)
              /\ \A k \in DOMAIN queue[i].players : queue[i].players[k] \in Objects
<1>1. Len(queue) \in Nat /\ DOMAIN queue = 1..Len(queue)
  BY LenProperties
<1>2. ASSUME NEW i \in DOMAIN queue
      PROVE  /\ queue[i] \in Lobby /\ queue[i].players \in Seq(Objects)
             /\ queue[i].timer \in Int
  <2>1. queue[i] \in Lobby
    BY <1>1, <1>2, ElementOfSeq
  <2> QED
    BY <2>1 DEF Lobby
<1>3. ASSUME NEW i \in DOMAIN queue
      PROVE  /\ Len(queue[i].players) \in Nat
             /\ DOMAIN queue[i].players = 1..Len(queue[i].players)
             /\ \A k \in DOMAIN queue[i].players : queue[i].players[k] \in Objects
  <2> DEFINE s == queue[i].players
  <2>1. s \in Seq(Objects)
    BY <1>2
  <2> HIDE DEF s
  <2>2. Len(s) \in Nat /\ DOMAIN s = 1..Len(s)
    BY <2>1, LenProperties
  <2>3. \A k \in DOMAIN s : s[k] \in Objects
    BY <2>1, <2>2, ElementOfSeq
  <2> QED
    BY <2>2, <2>3 DEF s
<1> QED
  BY <1>1, <1>2, <1>3

(* The lobbies that are kept are lobbies of the queue, in their order.      *)
LEMMA LobbiesAtFacts ==
  ASSUME NEW queue \in Seq(Lobby), NEW places \in SUBSET (1..Len(queue))
  PROVE  /\ LobbiesAt(queue, places) \in Seq(Lobby)
         /\ \E at \in [1..Len(LobbiesAt(queue, places)) -> places] :
              /\ \A j \in 1..Len(LobbiesAt(queue, places)) :
                   LobbiesAt(queue, places)[j] = queue[at[j]]
              /\ \A j, l \in 1..Len(LobbiesAt(queue, places)) : j < l => at[j] < at[l]
<1> DEFINE upTo(i) == Cardinality({k \in places : k <= i})
           rank == [i \in places |-> upTo(i)]
           c == Cardinality(places)
           chosen(j) == CHOOSE i \in places : upTo(i) = j
           at == [j \in 1..c |-> chosen(j)]
<1>0. Len(queue) \in Nat
  OBVIOUS
<1>1. /\ IsFiniteSet(places) /\ c \in Nat
      /\ \A i \in places : rank[i] \in 1..c
      /\ \A i, j \in places : i < j => rank[i] < rank[j]
      /\ \A r \in 1..c : \E i \in places : rank[i] = r
  BY <1>0, RankEnumerates
<1>2. \A j \in 1..c : at[j] \in places /\ rank[at[j]] = j
  <2> TAKE j \in 1..c
  <2>1. \E i \in places : upTo(i) = j
    BY <1>1
  <2> HIDE DEF upTo
  <2> QED
    BY <2>1
<1>3. LobbiesAt(queue, places) = [j \in 1..c |-> queue[at[j]]]
  <2>1. LobbiesAt(queue, places) = [j \in 1..c |-> queue[chosen(j)]]
    BY DEF LobbiesAt
  <2>2. \A j \in 1..c : at[j] = chosen(j)
    <3> HIDE DEF chosen
    <3> QED
      OBVIOUS
  <2> HIDE DEF chosen, at, c
  <2> QED
    BY <2>1, <2>2
<1> HIDE DEF rank, at
<1> DEFINE kept == [j \in 1..c |-> queue[at[j]]]
<1>4. kept \in Seq(Lobby) /\ Len(kept) = c /\ \A j \in 1..c : kept[j] = queue[at[j]]
  <2>1. ASSUME NEW j \in 1..c PROVE queue[at[j]] \in Lobby
    <3>1. at[j] \in 1..Len(queue)
      BY <1>2
    <3> QED
      BY <3>1, ElementOfSeq
  <2> HIDE DEF c
  <2> QED
    BY <2>1, <1>1
<1>5. at \in [1..c -> places]
  BY <1>2 DEF at
<1>6. ASSUME NEW j \in 1..c, NEW l \in 1..c, j < l
      PROVE  at[j] < at[l]
  <2>1. at[j] \in Int /\ at[l] \in Int /\ j \in Int /\ l \in Int
    <3>1. at[j] \in 1..Len(queue) /\ at[l] \in 1..Len(queue)
      BY <1>2
    <3> QED
      BY <3>1
  <2>2. SUFFICES ASSUME ~(at[j] < at[l]) PROVE FALSE
    OBVIOUS
  <2>3. CASE at[j] = at[l]
    BY <2>3, <1>2, <1>6, <2>1
  <2>4. CASE at[l] < at[j]
    <3>1. rank[at[l]] < rank[at[j]]
      BY <2>4, <1>1, <1>2
    <3> QED
      BY <3>1, <1>2, <1>6, <2>1
  <2> QED
    BY <2>1, <2>2, <2>3, <2>4
<1> HIDE DEF c
<1> QED
  BY <1>3, <1>4, <1>5, <1>6

-----------------------------------------------------------------------------
(* The operations on the queue.                                             *)

(* The first lobby that has someone is one of the queue.                    *)
LEMMA LobbyOfFacts ==
  ASSUME NEW queue \in Seq(Lobby), NEW id,
         \E i \in DOMAIN queue : id \in Members(queue[i])
  PROVE  LobbyOf(id, queue) \in DOMAIN queue /\ id \in Members(queue[LobbyOf(id, queue)])
<1> DEFINE having == {i \in DOMAIN queue : id \in Members(queue[i])}
<1>1. DOMAIN queue = 1..Len(queue) /\ Len(queue) \in Nat
  BY EveryLobby
<1>2. having \in SUBSET (1..Len(queue)) /\ having # {}
  BY <1>1
<1>3. PICK i \in having : \A j \in 1..(i - 1) : j \notin having
  <2> HIDE DEF having
  <2> QED
    BY <1>1, <1>2, FirstPlace
<1>4. i \in DOMAIN queue /\ id \in Members(queue[i])
  OBVIOUS
<1>5. \A j \in 1..(i - 1) : id \notin Members(queue[j])
  BY <1>1, <1>3
<1> QED
  BY <1>4, <1>5 DEF LobbyOf

(* A queue without one of its places; what PlayerLeave does with the place. *)
Without(queue, i, k) == [queue EXCEPT ![i].players = RemoveAt(@, k)]
Leaves(queue, id, i, k, h) ==
  /\ i = LobbyOf(id, queue)
  /\ h = queue[i].players[k] /\ EntityOf(h) = id
  /\ m_Queue' = Without(queue, i, k)
  /\ crashed' = (h \notin live) /\ live' = live \ {h}
  /\ lobbyPlayer' \in [Objects -> LobbyPlayer]
  /\ \A g \in Referenced(m_Queue') \cap Objects :
       g # h => lobbyPlayer'[g] = lobbyPlayer[g]

(* PlayerLeave takes one place out of one lobby, deletes what is there and  *)
(* leaves all other memory that is pointed to as it was.                    *)
LEMMA LeaveFacts ==
  ASSUME NEW queue \in Seq(Lobby), NEW id,
         \E i \in DOMAIN queue : id \in Members(queue[i]),
         lobbyPlayer \in [Objects -> LobbyPlayer],
         Leave(id, queue)
  PROVE  \E i \in DOMAIN queue : \E k \in DOMAIN queue[i].players : \E h \in Objects :
           Leaves(queue, id, i, k, h)
<1> DEFINE i == LobbyOf(id, queue)
           players == queue[i].players
           holding == {k \in DOMAIN players : EntityOf(players[k]) = id}
           k == CHOOSE k \in DOMAIN players :
                  /\ EntityOf(players[k]) = id
                  /\ \A j \in 1..(k - 1) : EntityOf(players[j]) # id
           h == players[k]
           left == [queue EXCEPT ![i].players = RemoveAt(@, k)]
<1>1. i \in DOMAIN queue /\ id \in Members(queue[i])
  BY LobbyOfFacts
<1>2. /\ DOMAIN players = 1..Len(players) /\ Len(players) \in Nat
      /\ \A n \in DOMAIN players : players[n] \in Objects
  BY <1>1, EveryLobby
<1>3. holding \in SUBSET (1..Len(players)) /\ holding # {}
  BY <1>1, <1>2, MembersPlaces
<1>4. k \in DOMAIN players /\ EntityOf(players[k]) = id
  <2> HIDE DEF i, players
  <2>1. PICK n \in holding : \A j \in 1..(n - 1) : j \notin holding
    <3> HIDE DEF holding
    <3> QED
      BY <1>2, <1>3, FirstPlace
  <2>2. n \in DOMAIN players /\ EntityOf(players[n]) = id
    OBVIOUS
  <2>3. \A j \in 1..(n - 1) : EntityOf(players[j]) # id
    BY <1>2, <2>1
  <2> QED
    BY <2>2, <2>3
<1>5. /\ m_Queue' = left /\ crashed' = (h \notin live) /\ live' = live \ {h}
      /\ \E freed \in {lobbyPlayer[h]} \cup [entityID: {Nobody}, ready: BOOLEAN] :
           lobbyPlayer' = Forget([lobbyPlayer EXCEPT ![h] = freed], left)
  BY DEF Leave
<1> HIDE DEF i, k
<1>6. h \in Objects
  BY <1>2, <1>4
<1> HIDE DEF h, left
<1>7. PICK freed \in {lobbyPlayer[h]} \cup [entityID: {Nobody}, ready: BOOLEAN] :
        lobbyPlayer' = Forget([lobbyPlayer EXCEPT ![h] = freed], left)
  BY <1>5
<1>8. freed \in LobbyPlayer /\ NoPlayer \in LobbyPlayer
  BY <1>6 DEF LobbyPlayer, NoPlayer
<1>9. lobbyPlayer' \in [Objects -> LobbyPlayer]
  BY <1>6, <1>7, <1>8 DEF Forget
<1>10. ASSUME NEW g \in Referenced(m_Queue') \cap Objects, g # h
       PROVE  lobbyPlayer'[g] = lobbyPlayer[g]
  BY <1>5, <1>6, <1>7, <1>10 DEF Forget
<1>11. Leaves(queue, id, i, k, h)
  BY <1>4, <1>5, <1>9, <1>10 DEF i, h, left, Leaves, Without
<1> QED
  BY <1>1, <1>4, <1>6, <1>11

(* The queue that PlayerLeave leaves: a lobby with one place less.          *)
LEMMA LeftQueue ==
  ASSUME NEW queue \in Seq(Lobby), NEW i \in DOMAIN queue, NEW k \in DOMAIN queue[i].players
  PROVE  LET left == Without(queue, i, k)
         IN  /\ left \in Seq(Lobby) /\ Len(left) = Len(queue)
             /\ \A j \in DOMAIN queue :
                  /\ left[j].timer = queue[j].timer
                  /\ j # i => left[j] = queue[j]
             /\ left[i].players = RemoveAt(queue[i].players, k)
             /\ Len(left[i].players) = Len(queue[i].players) - 1
             /\ \A l \in DOMAIN left[i].players :
                  /\ l \in 1..(Len(queue[i].players) - 1)
                  /\ left[i].players[l] = IF l < k THEN queue[i].players[l]
                                          ELSE queue[i].players[l + 1]
<1> DEFINE removed == RemoveAt(queue[i].players, k)
           lobby == [queue[i] EXCEPT !.players = removed]
           left == [queue EXCEPT ![i] = lobby]
<1>1. /\ queue[i] \in Lobby /\ queue[i].players \in Seq(Objects)
      /\ Len(queue[i].players) \in Nat /\ k \in 1..Len(queue[i].players)
      /\ DOMAIN queue = 1..Len(queue)
  BY EveryLobby
<1>2. /\ removed \in Seq(Objects) /\ Len(removed) = Len(queue[i].players) - 1
      /\ DOMAIN removed = 1..Len(removed)
      /\ \A l \in 1..(Len(queue[i].players) - 1) :
           removed[l] = IF l < k THEN queue[i].players[l] ELSE queue[i].players[l + 1]
  BY <1>1, RemoveAtFacts, LenProperties
<1> HIDE DEF removed
<1>3. /\ lobby \in Lobby /\ lobby.players = removed /\ lobby.timer = queue[i].timer
  BY <1>1, <1>2 DEF Lobby
<1> HIDE DEF lobby
<1>4. /\ left \in Seq(Lobby) /\ Len(left) = Len(queue)
      /\ \A j \in 1..Len(queue) : left[j] = IF j = i THEN lobby ELSE queue[j]
  BY <1>1, <1>3, ExceptSeq
<1>5. Without(queue, i, k) = left
  BY DEF left, lobby, removed, Without
<1> HIDE DEF left
<1> QED
  BY <1>1, <1>2, <1>3, <1>4, <1>5 DEF removed

(* TakeCost, asked n times, takes the cost as often as there is enough.     *)
LEMMA TimesPaidFacts ==
  ASSUME held \in [Players -> Nat], NEW p \in Players, NEW n \in Nat
  PROVE  TimesPaid(p, n) \in 0..n /\ TimesPaid(p, n) * Cost <= held[p]
<1> DEFINE stops == {m \in 0..n : m = n \/ (m + 1) * Cost > held[p]}
<1>1. Cost \in Nat /\ held[p] \in Nat
  BY ActivityAssumption
<1>2. stops \in SUBSET Nat /\ n \in stops
  OBVIOUS
<1>3. PICK m \in stops : \A l \in stops : m <= l
  <2> HIDE DEF stops
  <2> QED
    BY <1>2, LeastNatural
<1>4. m \in 0..n /\ (m = n \/ (m + 1) * Cost > held[p])
  OBVIOUS
<1>5. m * Cost <= held[p]
  <2>1. CASE m = 0
    BY <2>1, <1>1
  <2>2. CASE m # 0
    <3>1. m - 1 \in 0..n /\ m - 1 # n /\ ~(m <= m - 1) /\ (m - 1) + 1 = m
      BY <2>2, <1>4
    <3>2. ~(((m - 1) + 1) * Cost > held[p])
      BY <3>1, <1>3
    <3>3. m * Cost \in Nat
      BY <1>1, <1>4
    <3> QED
      BY <3>1, <3>2, <3>3, <1>1
  <2> QED
    BY <2>1, <2>2
<1>6. \E l \in 0..n : l * Cost <= held[p] /\ (l = n \/ (l + 1) * Cost > held[p])
  BY <1>4, <1>5
<1> HIDE DEF stops
<1> QED
  BY <1>6 DEF TimesPaid

(* A player who joins gets memory that nothing points to, or that was freed *)
(* though a lobby still points to it.                                       *)
LEMMA JoinFacts ==
  ASSUME LobbyInv, NEW p \in Players, PlayerJoin(p)
  PROVE  \E h \in Objects :
           LET joined(lobby) == [lobby EXCEPT !.players = Append(@, h)]
           IN  /\ h \in Referenced(m_Queue) => h \notin live
               /\ lobbyPlayer' = [lobbyPlayer EXCEPT ![h] = [entityID |-> p, ready |-> FALSE]]
               /\ live' = live \cup {h}
               /\ \/ /\ \E i \in DOMAIN m_Queue : HasSlot(m_Queue[i])
                     /\ m_Queue' = [i \in DOMAIN m_Queue |->
                                      IF HasSlot(m_Queue[i]) THEN joined(m_Queue[i])
                                      ELSE m_Queue[i]]
                  \/ /\ \A i \in DOMAIN m_Queue : ~HasSlot(m_Queue[i])
                     /\ m_Queue' = Append(m_Queue, [players |-> <<h>>, timer |-> WaitTime])
<1> DEFINE Ref == Referenced(m_Queue)
           new == IF Objects = Ref THEN {} ELSE {CHOOSE h \in Objects : h \notin Ref}
           open == {i \in DOMAIN m_Queue : HasSlot(m_Queue[i])}
<1>1. Ref \subseteq Objects
  BY DEF LobbyInv, TypeOK
<1>2. PICK h \in (Ref \ live) \cup new :
        LET joined == [i \in DOMAIN m_Queue |->
                        IF i \in open THEN [m_Queue[i] EXCEPT !.players = Append(@, h)]
                        ELSE m_Queue[i]]
        IN  /\ m_Queue' = IF open # {} THEN joined
                          ELSE Append(m_Queue, [players |-> <<h>>, timer |-> WaitTime])
            /\ lobbyPlayer' = [lobbyPlayer EXCEPT ![h] = [entityID |-> p, ready |-> FALSE]]
            /\ live' = live \cup {h}
  BY DEF PlayerJoin
<1>3. h \in Objects /\ (h \in Ref => h \notin live)
  <2>1. CASE h \in Ref \ live
    BY <2>1, <1>1
  <2>2. CASE h \in new
    <3>1. \E g \in Objects : g \notin Ref
      BY <2>2, <1>1
    <3> HIDE DEF Ref
    <3> QED
      BY <2>2, <3>1
  <2> QED
    BY <2>1, <2>2
<1>4. CASE open # {}
  <2>1. m_Queue' = [i \in DOMAIN m_Queue |->
                     IF HasSlot(m_Queue[i]) THEN [m_Queue[i] EXCEPT !.players = Append(@, h)]
                     ELSE m_Queue[i]]
    BY <1>2, <1>4
  <2>2. \E i \in DOMAIN m_Queue : HasSlot(m_Queue[i])
    BY <1>4
  <2> QED
    BY <1>2, <1>3, <2>1, <2>2
<1>5. CASE open = {}
  BY <1>2, <1>3, <1>5
<1> QED
  BY <1>4, <1>5

(* How a lobby with a new player looks.                                     *)
LEMMA JoinedLobby ==
  ASSUME NEW lobby \in Lobby, NEW h \in Objects
  PROVE  LET joined == [lobby EXCEPT !.players = Append(@, h)]
         IN  /\ joined \in Lobby /\ joined.timer = lobby.timer
             /\ Len(joined.players) = Len(lobby.players) + 1
             /\ \A k \in 1..Len(lobby.players) : joined.players[k] = lobby.players[k]
             /\ joined.players[Len(lobby.players) + 1] = h
<1> DEFINE p == Append(lobby.players, h)
<1>1. lobby.players \in Seq(Objects) /\ lobby.timer \in Int
  BY DEF Lobby
<1>2. /\ p \in Seq(Objects) /\ Len(p) = Len(lobby.players) + 1
      /\ \A k \in 1..Len(lobby.players) : p[k] = lobby.players[k]
      /\ p[Len(lobby.players) + 1] = h
  BY <1>1, AppendProperties
<1> HIDE DEF p
<1>3. [lobby EXCEPT !.players = p] \in Lobby
      /\ [lobby EXCEPT !.players = p].players = p
      /\ [lobby EXCEPT !.players = p].timer = lobby.timer
  BY <1>1, <1>2, LobbyExcept
<1> QED
  BY <1>2, <1>3 DEF p

(* What an update does: the queue after the countdown, which of its lobbies *)
(* start, and whether it ran to its end or a player was found to be away.   *)
LEMMA UpdateFacts ==
  ASSUME LobbyInv, Update
  PROVE  \E queue \in Seq(Lobby) : \E over \in SUBSET (1..Len(m_Queue)) :
           /\ Len(queue) = Len(m_Queue)
           /\ \A i \in 1..Len(m_Queue) :
                /\ queue[i].players = m_Queue[i].players
                /\ \/ queue[i].timer = m_Queue[i].timer
                   \/ queue[i].timer = CountDown(m_Queue[i])
                /\ i \in over => queue[i].players # <<>> /\ queue[i].timer <= 0
                /\ i \notin over => queue[i].timer > 0 \/ queue[i].timer = m_Queue[i].timer
           /\ held' = [p \in Players |->
                         held[p] - Cost * TimesPaid(p, Cardinality(Places(p, over)))]
           /\ started' = {queue[i].players : i \in over}
           /\ \/ /\ m_Queue' = LobbiesAt(queue, {i \in 1..Len(m_Queue) :
                                     queue[i].players # <<>> /\ queue[i].timer > 0})
                 /\ live' = live \cap Referenced(m_Queue')
                 /\ lobbyPlayer' = Forget(lobbyPlayer, m_Queue')
                 /\ UNCHANGED <<crashed, gap>>
              \/ \E id : /\ \E i \in DOMAIN queue : id \in Members(queue[i])
                        /\ Leave(id, queue)
                        /\ gap' = (gap \/ LobbyOf(id, queue) # Len(m_Queue) \/ over # {})
<1> DEFINE n     == Len(m_Queue)
           away  == {i \in 1..n : \E h \in ToSet(m_Queue[i].players) : ~IsHere(h)}
           first == CHOOSE i \in away \cup {n + 1} : \A j \in away : i <= j
           ticked(i) == [m_Queue[i] EXCEPT !.timer = CountDown(m_Queue[i])]
           queue == [i \in 1..n |-> IF i < first /\ m_Queue[i].players # <<>>
                                    THEN ticked(i) ELSE m_Queue[i]]
           over  == {i \in 1..(first - 1) : queue[i].players # <<>> /\ queue[i].timer <= 0}
           kept  == {i \in 1..n : queue[i].players # <<>> /\ queue[i].timer > 0}
<1>1. /\ n \in Nat /\ m_Queue \in Seq(Lobby) /\ DOMAIN m_Queue = 1..n
      /\ \A i \in 1..n : m_Queue[i] \in Lobby /\ m_Queue[i].timer \in Int
  BY EveryLobby DEF LobbyInv
<1>2. first \in away \cup {n + 1} /\ \A j \in away : first <= j
  <2>1. CASE away = {}
    BY <2>1
  <2>2. CASE away # {}
    <3>1. away \in SUBSET Nat
      BY <1>1
    <3>2. \E i \in away : \A j \in away : i <= j
      <4> HIDE DEF away
      <4> QED
        BY <2>2, <3>1, LeastNatural
    <3> HIDE DEF away
    <3> QED
      BY <3>2
  <2> QED
    BY <2>1, <2>2
<1>3. first \in 1..(n + 1)
  BY <1>1, <1>2
<1> HIDE DEF first
<1>4. \A i \in 1..n : /\ ticked(i) \in Lobby /\ CountDown(m_Queue[i]) \in Int
                      /\ ticked(i).players = m_Queue[i].players
                      /\ ticked(i).timer = CountDown(m_Queue[i])
  <2> TAKE i \in 1..n
  <2>1. CountDown(m_Queue[i]) \in Int
    BY <1>1, ActivityAssumption DEF CountDown
  <2> QED
    BY <2>1, <1>1 DEF Lobby
<1>5. queue \in Seq(Lobby) /\ Len(queue) = n
  <2>1. \A i \in 1..n : queue[i] \in Lobby
    <3> HIDE DEF ticked
    <3> QED
      BY <1>1, <1>4
  <2> HIDE DEF ticked
  <2> QED
    BY <2>1, <1>1
<1>6. ASSUME NEW i \in 1..n
      PROVE  /\ queue[i].players = m_Queue[i].players
             /\ \/ queue[i].timer = m_Queue[i].timer
                \/ queue[i].timer = CountDown(m_Queue[i])
             /\ i \in over => queue[i].players # <<>> /\ queue[i].timer <= 0
             /\ i \notin over => queue[i].timer > 0 \/ queue[i].timer = m_Queue[i].timer
  <2>1. CASE i < first /\ m_Queue[i].players # <<>>
    <3>1. queue[i] = ticked(i)
      BY <2>1
    <3>2. i \in 1..(first - 1)
      BY <2>1, <1>3, <1>1
    <3> HIDE DEF ticked, queue
    <3>3. queue[i].players # <<>> /\ queue[i].timer \in Int
      BY <2>1, <3>1, <1>4
    <3>4. i \notin over => queue[i].timer > 0
      BY <3>2, <3>3
    <3>5. i \in over => queue[i].timer <= 0
      OBVIOUS
    <3> QED
      BY <3>1, <3>3, <3>4, <3>5, <1>4
  <2>2. CASE ~(i < first /\ m_Queue[i].players # <<>>)
    <3>1. queue[i] = m_Queue[i]
      BY <2>2
    <3> HIDE DEF queue
    <3>2. i \notin over
      BY <3>1, <2>2, <1>3, <1>1
    <3> QED
      BY <3>1, <3>2
  <2> QED
    BY <2>1, <2>2
<1>7. over \in SUBSET (1..n)
  BY <1>1, <1>3
<1>8. /\ held' = [p \in Players |->
                    held[p] - Cost * TimesPaid(p, Cardinality(Places(p, over)))]
      /\ started' = {queue[i].players : i \in over}
  BY Zenon DEF Update, first
<1>9. \/ /\ away = {}
         /\ m_Queue' = LobbiesAt(queue, kept)
         /\ live' = live \cap Referenced(m_Queue')
         /\ lobbyPlayer' = Forget(lobbyPlayer, m_Queue')
         /\ UNCHANGED <<crashed, gap>>
      \/ /\ away # {}
         /\ Leave(FirstAway(queue[first].players), queue)
         /\ gap' = (gap \/ LobbyOf(FirstAway(queue[first].players), queue) # n
                        \/ over # {})
  BY Zenon DEF Update, first
<1>10. ASSUME away # {}
       PROVE  \E i \in DOMAIN queue : FirstAway(queue[first].players) \in Members(queue[i])
  <2>1. first \in away /\ first \in 1..n
    <3>1. PICK j \in away : TRUE
      BY <1>10
    <3>2. first <= j /\ j <= n /\ j \in Int
      BY <1>1, <1>2
    <3> QED
      BY <3>2, <1>1, <1>2, <1>3
  <2> DEFINE players == queue[first].players
             absent == {k \in DOMAIN players : ~IsHere(players[k])}
  <2>2. DOMAIN players = 1..Len(players) /\ Len(players) \in Nat
    BY <1>5, <2>1, EveryLobby
  <2>3. players = m_Queue[first].players
    BY <1>6, <2>1
  <2> HIDE DEF players
  <2>4. absent \in SUBSET (1..Len(players)) /\ absent # {}
    BY <2>1, <2>2, <2>3 DEF ToSet
  <2>5. PICK k \in absent : \A j \in 1..(k - 1) : j \notin absent
    <3> HIDE DEF absent
    <3> QED
      BY <2>2, <2>4, FirstPlace
  <2>6. /\ k \in DOMAIN players /\ ~IsHere(players[k])
        /\ \A j \in 1..(k - 1) : IsHere(players[j])
    BY <2>2, <2>5
  <2>7. \E l \in DOMAIN players : FirstAway(players) = EntityOf(players[l])
    BY <2>6 DEF FirstAway
  <2>8. FirstAway(players) \in Members(queue[first])
    BY <2>7, MembersPlaces DEF players
  <2>9. first \in DOMAIN queue
    BY <2>1
  <2> QED
    BY <2>8, <2>9 DEF players
<1> HIDE DEF queue, over, away
<1>11. \/ /\ m_Queue' = LobbiesAt(queue, kept)
          /\ live' = live \cap Referenced(m_Queue')
          /\ lobbyPlayer' = Forget(lobbyPlayer, m_Queue')
          /\ UNCHANGED <<crashed, gap>>
       \/ \E id : /\ \E i \in DOMAIN queue : id \in Members(queue[i])
                 /\ Leave(id, queue)
                 /\ gap' = (gap \/ LobbyOf(id, queue) # n \/ over # {})
  <2>1. CASE away = {}
    BY <2>1, <1>9
  <2>2. CASE away # {}
    BY <2>2, <1>9, <1>10
  <2> QED
    BY <2>1, <2>2
<1> QED
  BY <1>5, <1>6, <1>7, <1>8, <1>11

-----------------------------------------------------------------------------
(* The type invariant.                                                      *)

(* No timer is above the waiting time and no lobby above the limit.         *)
InLimits(queue) ==
  \A i \in DOMAIN queue : queue[i].timer <= WaitTime /\ Len(queue[i].players) <= TeamLimit

(* Whatever else a queue of lobbies points to, it is memory.                *)
LEMMA ReferencedObjects ==
  ASSUME NEW queue \in Seq(Lobby)
  PROVE  Referenced(queue) \subseteq Objects
  BY EveryLobby, ReferencedPlaces

LEMMA JoinQueue ==
  ASSUME LobbyInv, NEW p \in Players, PlayerJoin(p)
  PROVE  /\ m_Queue' \in Seq(Lobby) /\ InLimits(m_Queue')
         /\ \E h \in Objects :
              /\ h \in Referenced(m_Queue) => h \notin live
              /\ lobbyPlayer' = [lobbyPlayer EXCEPT ![h] = [entityID |-> p, ready |-> FALSE]]
              /\ live' = live \cup {h}
              /\ Referenced(m_Queue') = Referenced(m_Queue) \cup {h}
<1> DEFINE n == Len(m_Queue)
           joined(lobby, g) == [lobby EXCEPT !.players = Append(@, g)]
           new(g) == [players |-> <<g>>, timer |-> WaitTime]
<1>1. PICK h \in Objects :
        /\ h \in Referenced(m_Queue) => h \notin live
        /\ lobbyPlayer' = [lobbyPlayer EXCEPT ![h] = [entityID |-> p, ready |-> FALSE]]
        /\ live' = live \cup {h}
        /\ \/ /\ \E i \in DOMAIN m_Queue : HasSlot(m_Queue[i])
              /\ m_Queue' = [i \in DOMAIN m_Queue |->
                               IF HasSlot(m_Queue[i]) THEN joined(m_Queue[i], h) ELSE m_Queue[i]]
           \/ /\ \A i \in DOMAIN m_Queue : ~HasSlot(m_Queue[i])
              /\ m_Queue' = Append(m_Queue, new(h))
  BY JoinFacts
<1>2. /\ m_Queue \in Seq(Lobby) /\ n \in Nat /\ DOMAIN m_Queue = 1..n
      /\ \A i \in 1..n : /\ m_Queue[i] \in Lobby /\ m_Queue[i].timer <= WaitTime
                         /\ Len(m_Queue[i].players) \in Nat
                         /\ DOMAIN m_Queue[i].players = 1..Len(m_Queue[i].players)
                         /\ Len(m_Queue[i].players) <= TeamLimit
  BY EveryLobby DEF LobbyInv, TypeOK
<1>3. TeamLimit \in Nat \ {0} /\ WaitTime \in Nat
  BY SlotBelowLimit, ActivityAssumption
<1>4. \A i \in 1..n :
        /\ joined(m_Queue[i], h) \in Lobby /\ joined(m_Queue[i], h).timer = m_Queue[i].timer
        /\ joined(m_Queue[i], h).players \in Seq(Objects)
        /\ Len(joined(m_Queue[i], h).players) = Len(m_Queue[i].players) + 1
        /\ DOMAIN joined(m_Queue[i], h).players = 1..(Len(m_Queue[i].players) + 1)
        /\ \A k \in 1..Len(m_Queue[i].players) :
             joined(m_Queue[i], h).players[k] = m_Queue[i].players[k]
        /\ joined(m_Queue[i], h).players[Len(m_Queue[i].players) + 1] = h
  <2> TAKE i \in 1..n
  <2> DEFINE j == joined(m_Queue[i], h)
  <2>1. /\ j \in Lobby /\ j.timer = m_Queue[i].timer
        /\ Len(j.players) = Len(m_Queue[i].players) + 1
        /\ \A k \in 1..Len(m_Queue[i].players) : j.players[k] = m_Queue[i].players[k]
        /\ j.players[Len(m_Queue[i].players) + 1] = h
    BY <1>2, JoinedLobby
  <2> HIDE DEF j
  <2>2. j.players \in Seq(Objects)
    BY <2>1 DEF Lobby
  <2>3. DOMAIN j.players = 1..Len(j.players)
    BY <2>2, LenProperties
  <2> QED
    BY <2>1, <2>2, <2>3 DEF j
<1> HIDE DEF joined
<1>5. CASE /\ \E i \in DOMAIN m_Queue : HasSlot(m_Queue[i])
           /\ m_Queue' = [i \in DOMAIN m_Queue |->
                            IF HasSlot(m_Queue[i]) THEN joined(m_Queue[i], h) ELSE m_Queue[i]]
  <2>1. m_Queue' \in Seq(Lobby) /\ DOMAIN m_Queue' = 1..n
        /\ \A i \in 1..n : m_Queue'[i] = IF HasSlot(m_Queue[i]) THEN joined(m_Queue[i], h)
                                        ELSE m_Queue[i]
    BY <1>2, <1>4, <1>5
  <2>2. InLimits(m_Queue')
    <3> SUFFICES ASSUME NEW i \in 1..n
                 PROVE  m_Queue'[i].timer <= WaitTime /\ Len(m_Queue'[i].players) <= TeamLimit
      BY <2>1 DEF InLimits
    <3>1. CASE HasSlot(m_Queue[i])
      <4>1. Len(m_Queue[i].players) < TeamLimit
        BY <3>1, <1>2, SlotBelowLimit
      <4>2. m_Queue'[i] = joined(m_Queue[i], h)
        BY <3>1, <2>1
      <4> QED
        BY <4>1, <4>2, <1>2, <1>3, <1>4
    <3>2. CASE ~HasSlot(m_Queue[i])
      BY <3>2, <2>1, <1>2
    <3> QED
      BY <3>1, <3>2
  <2>3. ASSUME NEW g
        PROVE  g \in Referenced(m_Queue') <=> g \in Referenced(m_Queue) \/ g = h
    <3>1. ASSUME NEW i \in 1..n, NEW k \in DOMAIN m_Queue[i].players,
                 m_Queue[i].players[k] = g
          PROVE  g \in Referenced(m_Queue')
      <4>1. k \in DOMAIN m_Queue'[i].players /\ m_Queue'[i].players[k] = g
        <5>1. CASE HasSlot(m_Queue[i])
          <6>1. m_Queue'[i] = joined(m_Queue[i], h)
            BY <5>1, <2>1
          <6>2. Len(m_Queue[i].players) \in Nat /\ k \in 1..Len(m_Queue[i].players)
            BY <1>2
          <6>3. k \in 1..(Len(m_Queue[i].players) + 1)
            BY <6>2
          <6> QED
            BY <6>1, <6>2, <6>3, <3>1, <1>4
        <5>2. CASE ~HasSlot(m_Queue[i])
          BY <5>2, <3>1, <2>1
        <5> QED
          BY <5>1, <5>2
      <4> QED
        BY <4>1, <2>1, ReferencedPlaces
    <3>2. h \in Referenced(m_Queue')
      <4>1. PICK i \in 1..n : HasSlot(m_Queue[i])
        BY <1>2, <1>5
      <4>2. m_Queue'[i] = joined(m_Queue[i], h)
        BY <4>1, <2>1
      <4>3. Len(m_Queue[i].players) + 1 \in DOMAIN m_Queue'[i].players
            /\ m_Queue'[i].players[Len(m_Queue[i].players) + 1] = h
        BY <4>2, <1>2, <1>4
      <4> QED
        BY <4>3, <2>1, ReferencedPlaces
    <3>3. ASSUME NEW i \in 1..n, NEW k \in DOMAIN m_Queue'[i].players,
                 m_Queue'[i].players[k] = g
          PROVE  g = h \/ g \in Referenced(m_Queue)
      <4>1. CASE HasSlot(m_Queue[i])
        <5>1. m_Queue'[i] = joined(m_Queue[i], h)
          BY <4>1, <2>1
        <5>2. k \in 1..(Len(m_Queue[i].players) + 1)
          BY <5>1, <1>4
        <5>3. CASE k = Len(m_Queue[i].players) + 1
          BY <5>1, <5>3, <3>3, <1>4
        <5>4. CASE k \in 1..Len(m_Queue[i].players)
          <6>1. m_Queue[i].players[k] = g /\ k \in DOMAIN m_Queue[i].players
            BY <5>1, <5>4, <3>3, <1>2, <1>4
          <6> QED
            BY <6>1, <1>2, ReferencedPlaces
        <5> QED
          BY <5>2, <5>3, <5>4, <1>2
      <4>2. CASE ~HasSlot(m_Queue[i])
        <5>1. m_Queue'[i] = m_Queue[i]
          BY <4>2, <2>1
        <5> QED
          BY <5>1, <3>3, <1>2, ReferencedPlaces
      <4> QED
        BY <4>1, <4>2
    <3> QED
      BY <3>1, <3>2, <3>3, <2>1, <1>2, ReferencedPlaces
  <2> QED
    BY <1>1, <2>1, <2>2, <2>3
<1>6. CASE m_Queue' = Append(m_Queue, new(h))
  <2>1. new(h) \in Lobby /\ new(h).timer = WaitTime /\ Len(new(h).players) = 1
        /\ DOMAIN new(h).players = {1} /\ new(h).players[1] = h
    BY <1>3 DEF Lobby
  <2> HIDE DEF new
  <2>2. m_Queue' \in Seq(Lobby) /\ DOMAIN m_Queue' = 1..(n + 1)
        /\ \A i \in 1..(n + 1) : m_Queue'[i] = IF i <= n THEN m_Queue[i] ELSE new(h)
    BY <1>2, <1>6, <2>1
  <2>3. InLimits(m_Queue')
    <3> SUFFICES ASSUME NEW i \in 1..(n + 1)
                 PROVE  m_Queue'[i].timer <= WaitTime /\ Len(m_Queue'[i].players) <= TeamLimit
      BY <2>2 DEF InLimits
    <3>1. CASE i <= n
      <4>1. i \in 1..n /\ m_Queue'[i] = m_Queue[i]
        BY <3>1, <1>2, <2>2
      <4> QED
        BY <4>1, <1>2
    <3>2. CASE ~(i <= n)
      <4>1. m_Queue'[i] = new(h)
        BY <3>2, <2>2
      <4> QED
        BY <4>1, <2>1, <1>3
    <3> QED
      BY <3>1, <3>2
  <2>4. ASSUME NEW g
        PROVE  g \in Referenced(m_Queue') <=> g \in Referenced(m_Queue) \/ g = h
    <3>1. n + 1 \in DOMAIN m_Queue' /\ m_Queue'[n + 1] = new(h)
      BY <1>2, <2>2
    <3>2. h \in Referenced(m_Queue')
      BY <2>1, <3>1, ReferencedPlaces
    <3>3. \A i \in 1..n : i \in DOMAIN m_Queue' /\ m_Queue'[i] = m_Queue[i]
      BY <1>2, <2>2
    <3>4. ASSUME NEW i \in DOMAIN m_Queue', i \notin 1..n PROVE m_Queue'[i] = new(h)
      BY <1>2, <2>2, <3>4
    <3>5. g \in Referenced(m_Queue) => g \in Referenced(m_Queue')
      BY <3>3, <1>2, ReferencedPlaces
    <3>6. ASSUME g \in Referenced(m_Queue') PROVE g \in Referenced(m_Queue) \/ g = h
      <4>1. PICK i \in DOMAIN m_Queue' : \E k \in DOMAIN m_Queue'[i].players :
              m_Queue'[i].players[k] = g
        BY <3>6, ReferencedPlaces
      <4>2. CASE i \in 1..n
        BY <4>1, <4>2, <3>3, <1>2, ReferencedPlaces
      <4>3. CASE i \notin 1..n
        BY <4>1, <4>3, <3>4, <2>1
      <4> QED
        BY <4>2, <4>3
    <3> QED
      BY <3>2, <3>5, <3>6
  <2> QED
    BY <1>1, <2>2, <2>3, <2>4
<1> QED
  BY <1>1, <1>5, <1>6

(* What PlayerLeave frees is no longer counted as pointed to.               *)
LEMMA LeaveLive ==
  ASSUME NEW queue \in Seq(Lobby), NEW id,
         \E i \in DOMAIN queue : id \in Members(queue[i]),
         lobbyPlayer \in [Objects -> LobbyPlayer],
         live \subseteq Referenced(queue),
         Leave(id, queue)
  PROVE  /\ m_Queue' \in Seq(Lobby)
         /\ lobbyPlayer' \in [Objects -> LobbyPlayer]
         /\ live' \subseteq Referenced(m_Queue')
         /\ crashed' \in BOOLEAN
<1>0. PICK i \in DOMAIN queue :
        \E k \in DOMAIN queue[i].players : \E h \in Objects : Leaves(queue, id, i, k, h)
  BY LeaveFacts
<1>1. PICK k \in DOMAIN queue[i].players, h \in Objects : Leaves(queue, id, i, k, h)
  BY <1>0
<1>2. /\ m_Queue' \in Seq(Lobby) /\ Len(m_Queue') = Len(queue)
      /\ \A j \in DOMAIN queue : /\ m_Queue'[j].timer = queue[j].timer
                                 /\ j # i => m_Queue'[j] = queue[j]
      /\ Len(m_Queue'[i].players) = Len(queue[i].players) - 1
      /\ \A l \in DOMAIN m_Queue'[i].players :
           m_Queue'[i].players[l] = IF l < k THEN queue[i].players[l]
                                   ELSE queue[i].players[l + 1]
  BY <1>1, LeftQueue DEF Leaves
<1>3. /\ DOMAIN queue = DOMAIN m_Queue'
      /\ \A j \in DOMAIN queue : Len(queue[j].players) \in Nat
      /\ k \in 1..Len(queue[i].players)
      /\ DOMAIN queue[i].players = 1..Len(queue[i].players)
      /\ DOMAIN m_Queue'[i].players = 1..(Len(queue[i].players) - 1)
  BY <1>2, EveryLobby
<1>4. ASSUME NEW g \in live' PROVE g \in Referenced(m_Queue')
  <2>1. g \in Referenced(queue) /\ g # h
    BY <1>1 DEF Leaves
  <2>0. PICK j \in DOMAIN queue : \E l \in DOMAIN queue[j].players : queue[j].players[l] = g
    BY <2>1, ReferencedPlaces
  <2>2. PICK l \in DOMAIN queue[j].players : queue[j].players[l] = g
    BY <2>0
  <2>3. CASE j # i
    <3>1. m_Queue'[j] = queue[j]
      BY <1>2, <2>3
    <3> QED
      BY <3>1, <1>3, <2>2, ReferencedPlaces
  <2>4. CASE j = i
    <3>1. l # k /\ l \in 1..Len(queue[i].players) /\ queue[i].players[l] = g
      BY <1>1, <1>3, <2>1, <2>2, <2>4 DEF Leaves
    <3>2. \E m \in DOMAIN m_Queue'[i].players : m_Queue'[i].players[m] = g
      <4>1. CASE l < k
        <5>1. l \in 1..(Len(queue[i].players) - 1)
          BY <3>1, <4>1, <1>3
        <5> QED
          BY <5>1, <3>1, <4>1, <1>2, <1>3
      <4>2. CASE ~(l < k)
        <5>1. l - 1 \in 1..(Len(queue[i].players) - 1) /\ ~(l - 1 < k) /\ (l - 1) + 1 = l
          BY <3>1, <4>2, <1>3
        <5>2. m_Queue'[i].players[l - 1] = queue[i].players[(l - 1) + 1]
          BY <5>1, <1>2, <1>3
        <5> QED
          BY <5>1, <5>2, <3>1, <1>3
      <4> QED
        BY <4>1, <4>2
    <3> QED
      BY <3>2, <1>3, ReferencedPlaces
  <2> QED
    BY <2>3, <2>4
<1> QED
  BY <1>1, <1>2, <1>4 DEF Leaves

(* PlayerLeave keeps the limits.                                            *)
LEMMA LeaveLimits ==
  ASSUME NEW queue \in Seq(Lobby), InLimits(queue), NEW id,
         \E i \in DOMAIN queue : id \in Members(queue[i]),
         lobbyPlayer \in [Objects -> LobbyPlayer],
         Leave(id, queue)
  PROVE  InLimits(m_Queue')
<1>0. PICK i \in DOMAIN queue :
        \E k \in DOMAIN queue[i].players : \E h \in Objects : Leaves(queue, id, i, k, h)
  BY LeaveFacts
<1>1. PICK k \in DOMAIN queue[i].players, h \in Objects : Leaves(queue, id, i, k, h)
  BY <1>0
<1>2. /\ m_Queue' \in Seq(Lobby) /\ Len(m_Queue') = Len(queue)
      /\ \A j \in DOMAIN queue : /\ m_Queue'[j].timer = queue[j].timer
                                 /\ j # i => m_Queue'[j] = queue[j]
      /\ Len(m_Queue'[i].players) = Len(queue[i].players) - 1
      /\ \A l \in DOMAIN m_Queue'[i].players :
           m_Queue'[i].players[l] = IF l < k THEN queue[i].players[l]
                                   ELSE queue[i].players[l + 1]
  BY <1>1, LeftQueue DEF Leaves
<1>3. /\ DOMAIN queue = DOMAIN m_Queue'
      /\ \A j \in DOMAIN queue : Len(queue[j].players) \in Nat
      /\ k \in 1..Len(queue[i].players)
      /\ DOMAIN queue[i].players = 1..Len(queue[i].players)
      /\ DOMAIN m_Queue'[i].players = 1..(Len(queue[i].players) - 1)
  BY <1>2, EveryLobby
<1>4. InLimits(m_Queue')
  <2>2. ASSUME NEW j \in DOMAIN queue PROVE Len(m_Queue'[j].players) <= TeamLimit
    <3>1. Len(queue[j].players) <= TeamLimit /\ Len(queue[j].players) \in Nat
          /\ TeamLimit \in Nat
      BY <1>3, SlotBelowLimit DEF InLimits
    <3>2. CASE j = i
      BY <3>1, <3>2, <1>2
    <3>3. CASE j # i
      BY <3>1, <3>3, <1>2
    <3> QED
      BY <3>2, <3>3
  <2> QED
    BY <1>2, <1>3, <2>2 DEF InLimits
<1> QED
  BY <1>4

(* What the type invariant says of the queue and the memory, and of the     *)
(* rest of the state.                                                       *)
MemoryOK ==
  /\ m_Queue \in Seq(Lobby) /\ InLimits(m_Queue)
  /\ lobbyPlayer \in [Objects -> LobbyPlayer]
  /\ live \subseteq Referenced(m_Queue)

RestOK ==
  /\ present \subseteq Players
  /\ held \in [Players -> Nat] /\ \A p \in Players : held[p] <= InitialHeld[p]
  /\ solo \in BOOLEAN /\ crashed \in BOOLEAN /\ gap \in BOOLEAN /\ frame \in BOOLEAN
  /\ leaves \in 0..MaxLeaves
  /\ departures \in 0..MaxDepartures /\ reloads \in 0..MaxReloads

LEMMA LobbyInvParts == LobbyInv <=> MemoryOK /\ RestOK
  BY ReferencedObjects DEF LobbyInv, TypeOK, MemoryOK, RestOK, InLimits

LEMMA NextLobbyInv == MemoryOK' /\ RestOK' => LobbyInv'
  BY LobbyInvParts, PTL

LEMMA InitLobby == Init => LobbyInv
<1> SUFFICES ASSUME Init PROVE MemoryOK /\ RestOK
  BY LobbyInvParts
<1>1. MemoryOK
  BY DEF Init, MemoryOK, InLimits, LobbyPlayer, NoPlayer, Referenced
<1>2. RestOK
  <2>1. MaxLeaves \in Nat /\ MaxDepartures \in Nat /\ MaxReloads \in Nat
        /\ InitialHeld \in [Players -> Nat]
    BY ActivityAssumption
  <2>2. \A p \in Players : InitialHeld[p] <= InitialHeld[p]
    BY <2>1
  <2>3. /\ present = Players /\ held = InitialHeld
        /\ leaves = 0 /\ departures = 0 /\ reloads = 0
    BY DEF Init
  <2>4. solo \in BOOLEAN /\ crashed \in BOOLEAN /\ gap \in BOOLEAN /\ frame \in BOOLEAN
    BY DEF Init
  <2> QED
    BY <2>1, <2>2, <2>3, <2>4 DEF RestOK
<1> QED
  BY <1>1, <1>2

LEMMA JoinType ==
  ASSUME LobbyInv, NEW p \in Players, PlayerJoin(p)
  PROVE  LobbyInv'
<1>1. PICK h \in Objects :
        /\ lobbyPlayer' = [lobbyPlayer EXCEPT ![h] = [entityID |-> p, ready |-> FALSE]]
        /\ live' = live \cup {h}
        /\ Referenced(m_Queue') = Referenced(m_Queue) \cup {h}
  BY JoinQueue
<1>2. m_Queue' \in Seq(Lobby) /\ InLimits(m_Queue')
  BY JoinQueue
<1>3. lobbyPlayer' \in [Objects -> LobbyPlayer]
  BY <1>1, LobbyInvParts DEF MemoryOK, LobbyPlayer
<1>4. live' \subseteq Referenced(m_Queue')
  BY <1>1, LobbyInvParts DEF MemoryOK
<1>5. MemoryOK'
  BY <1>2, <1>3, <1>4 DEF MemoryOK
<1>6. RestOK'
  BY LobbyInvParts DEF RestOK, PlayerJoin, bounds
<1> QED
  BY <1>5, <1>6, NextLobbyInv

LEMMA ReadyType ==
  ASSUME LobbyInv, NEW p \in Players, NEW bReady \in BOOLEAN, PlayerReady(p, bReady)
  PROVE  LobbyInv'
<1>1. lobbyPlayer' \in [Objects -> LobbyPlayer]
  <2>1. \A h \in Objects : lobbyPlayer[h] \in LobbyPlayer
                           /\ [lobbyPlayer[h] EXCEPT !.ready = bReady] \in LobbyPlayer
    BY LobbyInvParts DEF MemoryOK, LobbyPlayer
  <2> QED
    BY <2>1 DEF PlayerReady
<1>2. m_Queue' = m_Queue /\ live' = live
  BY DEF PlayerReady
<1>3. MemoryOK'
  BY <1>1, <1>2, LobbyInvParts DEF MemoryOK
<1>4. RestOK'
  BY LobbyInvParts DEF RestOK, PlayerReady, bounds
<1> QED
  BY <1>3, <1>4, NextLobbyInv

LEMMA LeaveType ==
  ASSUME LobbyInv, NEW p \in Players, PlayerLeave(p)
  PROVE  LobbyInv'
<1>1. /\ m_Queue' \in Seq(Lobby) /\ InLimits(m_Queue')
      /\ lobbyPlayer' \in [Objects -> LobbyPlayer]
      /\ live' \subseteq Referenced(m_Queue')
      /\ crashed' \in BOOLEAN
  <2>1. Leave(p, m_Queue) /\ \E i \in DOMAIN m_Queue : p \in Members(m_Queue[i])
    BY DEF PlayerLeave, PlayerIsInQueue
  <2> QED
    BY <2>1, LobbyInvParts, LeaveLive, LeaveLimits DEF MemoryOK
<1>2. gap' \in BOOLEAN /\ leaves' \in 0..MaxLeaves
  <2>1. leaves \in 0..MaxLeaves /\ leaves < MaxLeaves /\ leaves' = leaves + 1 /\ MaxLeaves \in Nat
    BY LobbyInvParts, ActivityAssumption DEF RestOK, PlayerLeave
  <2>2. leaves' \in 0..MaxLeaves
    BY <2>1
  <2>3. gap \in BOOLEAN
    BY LobbyInvParts DEF RestOK
  <2> QED
    BY <2>2, <2>3 DEF PlayerLeave
<1>3. MemoryOK'
  BY <1>1 DEF MemoryOK
<1>4. RestOK'
  BY <1>1, <1>2, LobbyInvParts DEF RestOK, PlayerLeave
<1> QED
  BY <1>3, <1>4, NextLobbyInv

(* Nobody pays more than he has.                                            *)
LEMMA PaymentType ==
  ASSUME RestOK, NEW over \in SUBSET (1..Len(m_Queue)), m_Queue \in Seq(Lobby),
         held' = [p \in Players |->
                   held[p] - Cost * TimesPaid(p, Cardinality(Places(p, over)))]
  PROVE  held' \in [Players -> Nat] /\ \A p \in Players : held'[p] <= InitialHeld[p]
<1> SUFFICES ASSUME NEW p \in Players
             PROVE  held'[p] \in Nat /\ held'[p] <= InitialHeld[p]
  OBVIOUS
<1> DEFINE c == Cardinality(Places(p, over))
           m == TimesPaid(p, c)
<1>1. c \in Nat
  <2>1. IsFiniteSet(over)
    <3>1. Len(m_Queue) \in Nat
      OBVIOUS
    <3>2. IsFiniteSet(1..Len(m_Queue))
      BY <3>1, FS_Interval
    <3> QED
      BY <3>2, FS_Subset
  <2>2. IsFiniteSet(1..TeamLimit)
    BY SlotBelowLimit, FS_Interval
  <2>3. IsFiniteSet(over \X (1..TeamLimit))
    BY <2>1, <2>2, FS_Product
  <2>4. IsFiniteSet(Places(p, over))
    BY <2>3, FS_Subset DEF Places
  <2> QED
    BY <2>4, FS_CardinalityType
<1>2. m \in 0..c /\ m * Cost <= held[p]
  <2>1. held \in [Players -> Nat]
    BY DEF RestOK
  <2> QED
    BY <1>1, <2>1, TimesPaidFacts
<1>3. held[p] \in Nat /\ held[p] <= InitialHeld[p] /\ InitialHeld[p] \in Nat /\ Cost \in Nat
  BY ActivityAssumption DEF RestOK
<1>4. held'[p] = held[p] - Cost * m
  OBVIOUS
<1> HIDE DEF m
<1>5. m \in Nat /\ m * Cost \in Nat /\ Cost * m = m * Cost
  BY <1>1, <1>2, <1>3
<1> QED
  BY <1>2, <1>3, <1>4, <1>5

LEMMA UpdateType ==
  ASSUME LobbyInv, Update
  PROVE  LobbyInv'
<1> DEFINE n == Len(m_Queue)
           kept(q) == {i \in 1..n : q[i].players # <<>> /\ q[i].timer > 0}
<1>1. PICK queue \in Seq(Lobby), over \in SUBSET (1..n) :
        /\ Len(queue) = n
        /\ \A i \in 1..n :
             /\ queue[i].players = m_Queue[i].players
             /\ \/ queue[i].timer = m_Queue[i].timer
                \/ queue[i].timer = CountDown(m_Queue[i])
        /\ held' = [p \in Players |->
                     held[p] - Cost * TimesPaid(p, Cardinality(Places(p, over)))]
        /\ \/ /\ m_Queue' = LobbiesAt(queue, kept(queue))
              /\ live' = live \cap Referenced(m_Queue')
              /\ lobbyPlayer' = Forget(lobbyPlayer, m_Queue')
              /\ UNCHANGED <<crashed, gap>>
           \/ \E id : /\ \E i \in DOMAIN queue : id \in Members(queue[i])
                      /\ Leave(id, queue)
                      /\ gap' = (gap \/ LobbyOf(id, queue) # n \/ over # {})
  BY UpdateFacts
<1>2. /\ m_Queue \in Seq(Lobby) /\ n \in Nat /\ DOMAIN m_Queue = 1..n /\ DOMAIN queue = 1..n
      /\ \A i \in 1..n : m_Queue[i] \in Lobby /\ m_Queue[i].timer \in Int
                         /\ m_Queue[i].timer <= WaitTime
                         /\ Len(m_Queue[i].players) <= TeamLimit
  <2>1. m_Queue \in Seq(Lobby) /\ InLimits(m_Queue)
    BY LobbyInvParts DEF MemoryOK
  <2> QED
    BY <1>1, <2>1, EveryLobby DEF InLimits
<1>3. InLimits(queue) /\ Referenced(queue) = Referenced(m_Queue)
  <2>1. \A i \in 1..n : CountDown(m_Queue[i]) <= WaitTime
    BY <1>2, ActivityAssumption DEF CountDown
  <2>2. InLimits(queue)
    BY <1>1, <1>2, <2>1 DEF InLimits
  <2>3. ASSUME NEW h PROVE h \in Referenced(queue) <=> h \in Referenced(m_Queue)
    <3>1. h \in Referenced(queue) => h \in Referenced(m_Queue)
      BY <1>1, <1>2, ReferencedPlaces
    <3>2. h \in Referenced(m_Queue) => h \in Referenced(queue)
      BY <1>1, <1>2, ReferencedPlaces
    <3> QED
      BY <3>1, <3>2
  <2> QED
    BY <2>2, <2>3
<1>4. MemoryOK' /\ crashed' \in BOOLEAN /\ gap' \in BOOLEAN
  <2>0. RestOK /\ MemoryOK
    BY LobbyInvParts
  <2>1. CASE /\ m_Queue' = LobbiesAt(queue, kept(queue))
             /\ live' = live \cap Referenced(m_Queue')
             /\ lobbyPlayer' = Forget(lobbyPlayer, m_Queue')
             /\ UNCHANGED <<crashed, gap>>
    <3>1. m_Queue' \in Seq(Lobby)
          /\ \E at \in [1..Len(m_Queue') -> kept(queue)] :
               \A j \in 1..Len(m_Queue') : m_Queue'[j] = queue[at[j]]
      <4>1. kept(queue) \in SUBSET (1..Len(queue))
        BY <1>1
      <4> HIDE DEF kept
      <4> QED
        BY <2>1, <4>1, LobbiesAtFacts
    <3>2. InLimits(m_Queue')
      <4>1. PICK at \in [1..Len(m_Queue') -> kept(queue)] :
              \A j \in 1..Len(m_Queue') : m_Queue'[j] = queue[at[j]]
        BY <3>1
      <4>2. \A j \in 1..Len(m_Queue') : at[j] \in DOMAIN queue
        BY <1>2
      <4>3. DOMAIN m_Queue' = 1..Len(m_Queue')
        BY <3>1, LenProperties
      <4> QED
        BY <1>3, <4>1, <4>2, <4>3 DEF InLimits
    <3>3. lobbyPlayer' \in [Objects -> LobbyPlayer]
      BY <2>0, <2>1 DEF Forget, MemoryOK, NoPlayer, LobbyPlayer
    <3> QED
      BY <2>0, <2>1, <3>1, <3>2, <3>3 DEF MemoryOK, RestOK
  <2>2. CASE \E id : /\ \E i \in DOMAIN queue : id \in Members(queue[i])
                     /\ Leave(id, queue)
                     /\ gap' = (gap \/ LobbyOf(id, queue) # n \/ over # {})
    <3>1. PICK id : /\ \E i \in DOMAIN queue : id \in Members(queue[i])
                    /\ Leave(id, queue)
                    /\ gap' = (gap \/ LobbyOf(id, queue) # n \/ over # {})
      BY <2>2
    <3>2. lobbyPlayer \in [Objects -> LobbyPlayer] /\ live \subseteq Referenced(queue)
          /\ gap \in BOOLEAN
      BY <2>0, <1>3 DEF MemoryOK, RestOK
    <3>3. /\ m_Queue' \in Seq(Lobby) /\ InLimits(m_Queue')
          /\ lobbyPlayer' \in [Objects -> LobbyPlayer]
          /\ live' \subseteq Referenced(m_Queue')
          /\ crashed' \in BOOLEAN
      BY <1>3, <3>1, <3>2, LeaveLive, LeaveLimits
    <3> QED
      BY <3>1, <3>2, <3>3 DEF MemoryOK
  <2> QED
    BY <1>1, <2>1, <2>2
<1>5. held' \in [Players -> Nat] /\ \A p \in Players : held'[p] <= InitialHeld[p]
  BY <1>1, <1>2, LobbyInvParts, PaymentType
<1>6. RestOK'
  <2>1. frame' \in BOOLEAN /\ UNCHANGED <<present, solo, bounds>>
    BY LobbyInvParts DEF RestOK, Update
  <2> QED
    BY <1>4, <1>5, <2>1, LobbyInvParts DEF RestOK, bounds
<1> QED
  BY <1>4, <1>6, NextLobbyInv

LEMMA WorldType ==
  ASSUME LobbyInv,
         \/ \E p \in Players : PlayerDeparts(p) \/ PlayerReturns(p)
         \/ ReloadConfig
         \/ UNCHANGED vars
  PROVE  LobbyInv'
<1>1. UNCHANGED <<m_Queue, lobbyPlayer, live>>
  BY DEF PlayerDeparts, PlayerReturns, ReloadConfig, vars
<1>2. MemoryOK'
  BY <1>1, LobbyInvParts DEF MemoryOK
<1>3. MaxDepartures \in Nat /\ MaxReloads \in Nat
  BY ActivityAssumption
<1>4. RestOK'
  <2>1. CASE \E p \in Players : PlayerDeparts(p)
    BY <1>3, <2>1, LobbyInvParts DEF RestOK, PlayerDeparts
  <2>2. CASE \E p \in Players : PlayerReturns(p)
    BY <2>2, LobbyInvParts DEF RestOK, PlayerReturns, bounds
  <2>3. CASE ReloadConfig
    BY <1>3, <2>3, LobbyInvParts DEF RestOK, ReloadConfig
  <2>4. CASE UNCHANGED vars
    BY <2>4, LobbyInvParts DEF RestOK, vars, bounds
  <2> QED
    BY <2>1, <2>2, <2>3, <2>4
<1> QED
  BY <1>2, <1>4, NextLobbyInv

LEMMA StepLobby == LobbyInv /\ [Next]_vars => LobbyInv'
<1> SUFFICES ASSUME LobbyInv, [Next]_vars PROVE LobbyInv'
  OBVIOUS
<1>1. ASSUME NEW p \in Players, PlayerStep(p) PROVE LobbyInv'
  BY <1>1, JoinType, ReadyType, LeaveType, WorldType DEF PlayerStep
<1>2. CASE Update
  BY <1>2, UpdateType
<1>3. CASE ReloadConfig
  BY <1>3, WorldType
<1>4. CASE UNCHANGED vars
  BY <1>4, WorldType
<1> QED
  BY <1>1, <1>2, <1>3, <1>4 DEF Next

(* Type correctness: whatever the memory holds that pointers to deleted     *)
(* players lead to, no lobby grows above its limit, no timer above the      *)
(* waiting time, what is allocated is pointed to, and nobody pays with what *)
(* he does not have.                                                        *)
THEOREM TypeCorrect == Spec => []TypeOK
<1>1. Init => LobbyInv
  BY InitLobby
<1>2. LobbyInv /\ [Next]_vars => LobbyInv'
  BY StepLobby
<1>3. LobbyInv => TypeOK
  BY DEF LobbyInv
<1> QED
  BY <1>1, <1>2, <1>3, PTL DEF Spec

-----------------------------------------------------------------------------
(* The promise.                                                             *)

(* Every lobby but the last is full; every countdown runs; every address is *)
(* in one place of one lobby.                                               *)
FullButLast(queue) == \A i \in DOMAIN queue : i < Len(queue) => ~HasSlot(queue[i])
Running(queue) == \A i \in DOMAIN queue : queue[i].timer > 0
OnePlaceEach(queue) ==
  \A i, j \in DOMAIN queue :
    \A k \in DOMAIN queue[i].players : \A l \in DOMAIN queue[j].players :
      queue[i].players[k] = queue[j].players[l] => i = j /\ k = l

(* Whoever waits has one LobbyPlayer.                                       *)
OneEach == \A h, g \in live : EntityOf(h) = EntityOf(g) => h = g

(* As long as no lobby before the last has lost a player and no update that *)
(* started a lobby was cut short, nothing points to what was deleted and    *)
(* everybody waits in one place.                                            *)
Orderly ==
  /\ FullButLast(m_Queue) /\ Running(m_Queue) /\ OnePlaceEach(m_Queue)
  /\ live = Referenced(m_Queue)
  /\ OneEach
  /\ ~crashed

PromiseInv == LobbyInv /\ (~gap => Orderly)

(* In an orderly queue whoever joins gets the last place of the last lobby. *)
LEMMA JoinPlaces ==
  ASSUME LobbyInv, Orderly, NEW p \in Players, PlayerJoin(p)
  PROVE  /\ FullButLast(m_Queue') /\ Running(m_Queue')
         /\ \E h \in Objects :
              /\ h \notin Referenced(m_Queue)
              /\ lobbyPlayer' = [lobbyPlayer EXCEPT ![h] = [entityID |-> p, ready |-> FALSE]]
              /\ live' = live \cup {h}
              /\ \A i \in DOMAIN m_Queue' : \A k \in DOMAIN m_Queue'[i].players :
                   \/ /\ i \in DOMAIN m_Queue /\ k \in DOMAIN m_Queue[i].players
                      /\ m_Queue'[i].players[k] = m_Queue[i].players[k]
                   \/ /\ i = Len(m_Queue') /\ k = Len(m_Queue'[i].players)
                      /\ m_Queue'[i].players[k] = h
<1> DEFINE n == Len(m_Queue)
           joined(lobby, g) == [lobby EXCEPT !.players = Append(@, g)]
           new(g) == [players |-> <<g>>, timer |-> WaitTime]
<1>1. PICK h \in Objects :
        /\ h \in Referenced(m_Queue) => h \notin live
        /\ lobbyPlayer' = [lobbyPlayer EXCEPT ![h] = [entityID |-> p, ready |-> FALSE]]
        /\ live' = live \cup {h}
        /\ \/ /\ \E i \in DOMAIN m_Queue : HasSlot(m_Queue[i])
              /\ m_Queue' = [i \in DOMAIN m_Queue |->
                               IF HasSlot(m_Queue[i]) THEN joined(m_Queue[i], h) ELSE m_Queue[i]]
           \/ /\ \A i \in DOMAIN m_Queue : ~HasSlot(m_Queue[i])
              /\ m_Queue' = Append(m_Queue, new(h))
  BY JoinFacts
<1>2. h \notin Referenced(m_Queue)
  BY <1>1 DEF Orderly
<1>3. /\ m_Queue \in Seq(Lobby) /\ n \in Nat /\ DOMAIN m_Queue = 1..n
      /\ \A i \in 1..n : /\ m_Queue[i] \in Lobby /\ m_Queue[i].timer \in Int
                         /\ m_Queue[i].timer > 0
                         /\ Len(m_Queue[i].players) \in Nat
                         /\ DOMAIN m_Queue[i].players = 1..Len(m_Queue[i].players)
  BY EveryLobby DEF LobbyInv, Orderly, Running
<1>4. WaitTime \in Nat \ {0}
  BY ActivityAssumption
<1>5. \A i \in 1..n :
        /\ joined(m_Queue[i], h) \in Lobby /\ joined(m_Queue[i], h).timer = m_Queue[i].timer
        /\ Len(joined(m_Queue[i], h).players) = Len(m_Queue[i].players) + 1
        /\ DOMAIN joined(m_Queue[i], h).players = 1..(Len(m_Queue[i].players) + 1)
        /\ \A k \in 1..Len(m_Queue[i].players) :
             joined(m_Queue[i], h).players[k] = m_Queue[i].players[k]
        /\ joined(m_Queue[i], h).players[Len(m_Queue[i].players) + 1] = h
  <2> TAKE i \in 1..n
  <2> DEFINE j == joined(m_Queue[i], h)
  <2>1. /\ j \in Lobby /\ j.timer = m_Queue[i].timer
        /\ Len(j.players) = Len(m_Queue[i].players) + 1
        /\ \A k \in 1..Len(m_Queue[i].players) : j.players[k] = m_Queue[i].players[k]
        /\ j.players[Len(m_Queue[i].players) + 1] = h
    BY <1>3, JoinedLobby
  <2> HIDE DEF j
  <2>2. j.players \in Seq(Objects)
    BY <2>1 DEF Lobby
  <2>3. DOMAIN j.players = 1..Len(j.players)
    BY <2>2, LenProperties
  <2> QED
    BY <2>1, <2>2, <2>3 DEF j
<1>6. new(h) \in Lobby /\ new(h).timer = WaitTime /\ Len(new(h).players) = 1
      /\ DOMAIN new(h).players = {1} /\ new(h).players[1] = h
  BY <1>4 DEF Lobby
<1> HIDE DEF joined, new
<1> DEFINE OldOrNew(i, k) ==
             \/ /\ i \in DOMAIN m_Queue /\ k \in DOMAIN m_Queue[i].players
                /\ m_Queue'[i].players[k] = m_Queue[i].players[k]
             \/ /\ i = Len(m_Queue') /\ k = Len(m_Queue'[i].players)
                /\ m_Queue'[i].players[k] = h
<1>7. CASE /\ \E i \in DOMAIN m_Queue : HasSlot(m_Queue[i])
           /\ m_Queue' = [i \in DOMAIN m_Queue |->
                            IF HasSlot(m_Queue[i]) THEN joined(m_Queue[i], h) ELSE m_Queue[i]]
  <2>1. /\ DOMAIN m_Queue' = 1..n /\ Len(m_Queue') = n
        /\ \A i \in 1..n : m_Queue'[i] = IF HasSlot(m_Queue[i]) THEN joined(m_Queue[i], h)
                                         ELSE m_Queue[i]
    BY <1>3, <1>5, <1>7
  <2>2. \A i \in 1..n : i < n => ~HasSlot(m_Queue[i]) /\ m_Queue'[i] = m_Queue[i]
    BY <1>3, <2>1 DEF Orderly, FullButLast
  <2>3. FullButLast(m_Queue')
    BY <2>1, <2>2 DEF FullButLast
  <2>4. Running(m_Queue')
    BY <1>3, <1>5, <2>1 DEF Running
  <2>5. ASSUME NEW i \in 1..n, NEW k \in DOMAIN m_Queue'[i].players
        PROVE  OldOrNew(i, k)
    <3>1. CASE m_Queue'[i] = m_Queue[i]
      BY <3>1, <1>3
    <3>2. CASE m_Queue'[i] # m_Queue[i]
      <4>1. i = n /\ m_Queue'[i] = joined(m_Queue[i], h)
        <5>1. ~(i < n)
          BY <3>2, <2>2
        <5>2. i \in Int /\ n \in Int /\ i <= n
          BY <1>3
        <5>3. i = n
          BY <5>1, <5>2
        <5>4. m_Queue'[i] = joined(m_Queue[i], h)
          BY <3>2, <2>1
        <5> QED
          BY <5>3, <5>4
      <4>2. /\ Len(m_Queue'[i].players) = Len(m_Queue[i].players) + 1
            /\ k \in 1..(Len(m_Queue[i].players) + 1)
        BY <4>1, <1>5
      <4>3. CASE k \in 1..Len(m_Queue[i].players)
        BY <4>1, <4>3, <1>3, <1>5
      <4>4. CASE k = Len(m_Queue[i].players) + 1
        BY <4>1, <4>2, <4>4, <1>5, <2>1
      <4> QED
        BY <4>2, <4>3, <4>4, <1>3
    <3> QED
      BY <3>1, <3>2
  <2> QED
    BY <1>1, <1>2, <2>1, <2>3, <2>4, <2>5
<1>8. CASE /\ \A i \in DOMAIN m_Queue : ~HasSlot(m_Queue[i])
           /\ m_Queue' = Append(m_Queue, new(h))
  <2>1. /\ DOMAIN m_Queue' = 1..(n + 1) /\ Len(m_Queue') = n + 1
        /\ \A i \in 1..n : m_Queue'[i] = m_Queue[i]
        /\ m_Queue'[n + 1] = new(h)
    BY <1>3, <1>6, <1>8
  <2>2. ASSUME NEW i \in 1..(n + 1), i # n + 1 PROVE i \in 1..n
    BY <1>3, <2>2
  <2>3. FullButLast(m_Queue')
    <3> SUFFICES ASSUME NEW i \in 1..(n + 1), i < n + 1 PROVE ~HasSlot(m_Queue'[i])
      BY <2>1 DEF FullButLast
    <3>1. i \in 1..n
      BY <1>3
    <3> QED
      BY <3>1, <1>3, <1>8, <2>1
  <2>4. Running(m_Queue')
    <3> SUFFICES ASSUME NEW i \in 1..(n + 1) PROVE m_Queue'[i].timer > 0
      BY <2>1 DEF Running
    <3>1. CASE i = n + 1
      BY <3>1, <1>4, <1>6, <2>1
    <3>2. CASE i # n + 1
      BY <3>2, <1>3, <2>1, <2>2
    <3> QED
      BY <3>1, <3>2
  <2>5. ASSUME NEW i \in 1..(n + 1), NEW k \in DOMAIN m_Queue'[i].players
        PROVE  OldOrNew(i, k)
    <3>1. CASE i = n + 1
      BY <3>1, <1>6, <2>1
    <3>2. CASE i # n + 1
      BY <3>2, <1>3, <2>1, <2>2
    <3> QED
      BY <3>1, <3>2
  <2> QED
    BY <1>1, <1>2, <2>1, <2>3, <2>4, <2>5
<1> QED
  BY <1>1, <1>7, <1>8

LEMMA JoinOrderly ==
  ASSUME LobbyInv, Orderly, NEW p \in Players, PlayerJoin(p)
  PROVE  Orderly'
<1>1. PICK h \in Objects :
        /\ h \notin Referenced(m_Queue)
        /\ lobbyPlayer' = [lobbyPlayer EXCEPT ![h] = [entityID |-> p, ready |-> FALSE]]
        /\ live' = live \cup {h}
        /\ \A i \in DOMAIN m_Queue' : \A k \in DOMAIN m_Queue'[i].players :
             \/ /\ i \in DOMAIN m_Queue /\ k \in DOMAIN m_Queue[i].players
                /\ m_Queue'[i].players[k] = m_Queue[i].players[k]
             \/ /\ i = Len(m_Queue') /\ k = Len(m_Queue'[i].players)
                /\ m_Queue'[i].players[k] = h
  BY JoinPlaces
<1>2. OnePlaceEach(m_Queue')
  <2> SUFFICES ASSUME NEW i \in DOMAIN m_Queue', NEW j \in DOMAIN m_Queue',
                      NEW k \in DOMAIN m_Queue'[i].players,
                      NEW l \in DOMAIN m_Queue'[j].players,
                      m_Queue'[i].players[k] = m_Queue'[j].players[l]
               PROVE  i = j /\ k = l
    BY DEF OnePlaceEach
  <2>1. \A a \in DOMAIN m_Queue : \A b \in DOMAIN m_Queue[a].players :
          m_Queue[a].players[b] # h
    BY <1>1, ReferencedPlaces
  <2>2. OnePlaceEach(m_Queue)
    BY DEF Orderly
  <2> QED
    BY <1>1, <2>1, <2>2 DEF OnePlaceEach
<1>3. live' = Referenced(m_Queue')
  <2>1. PICK g \in Objects : /\ lobbyPlayer' = [lobbyPlayer EXCEPT ![g] =
                                                 [entityID |-> p, ready |-> FALSE]]
                             /\ live' = live \cup {g}
                             /\ Referenced(m_Queue') = Referenced(m_Queue) \cup {g}
    BY JoinQueue
  <2> QED
    BY <2>1 DEF Orderly
<1>4. OneEach'
  <2>1. \A g \in live : g \in Objects /\ g # h /\ EntityOf(g) # p
    <3> SUFFICES ASSUME NEW g \in live PROVE g \in Objects /\ g # h /\ EntityOf(g) # p
      OBVIOUS
    <3>1. g \in Referenced(m_Queue) /\ g \in Objects
      BY DEF Orderly, LobbyInv, TypeOK
    <3>2. PICK i \in DOMAIN m_Queue : \E k \in DOMAIN m_Queue[i].players : m_Queue[i].players[k] = g
      BY <3>1, ReferencedPlaces
    <3>3. EntityOf(g) \in Members(m_Queue[i])
      BY <3>2, MembersPlaces
    <3>4. p \notin Members(m_Queue[i])
      BY DEF PlayerJoin, PlayerIsInQueue
    <3> QED
      BY <1>1, <3>1, <3>3, <3>4
  <2>2. lobbyPlayer \in [Objects -> LobbyPlayer]
    BY DEF LobbyInv, TypeOK
  <2>3. lobbyPlayer'[h].entityID = p
        /\ \A g \in live : lobbyPlayer'[g].entityID = lobbyPlayer[g].entityID
    BY <1>1, <2>1, <2>2
  <2> QED
    BY <1>1, <2>1, <2>3 DEF OneEach, EntityOf, Orderly
<1>5. ~crashed'
  BY DEF PlayerJoin, Orderly
<1> QED
  BY <1>2, <1>3, <1>4, <1>5, JoinPlaces DEF Orderly

LEMMA ReadyOrderly ==
  ASSUME LobbyInv, Orderly, NEW p \in Players, NEW bReady \in BOOLEAN, PlayerReady(p, bReady)
  PROVE  Orderly'
<1>1. m_Queue' = m_Queue /\ live' = live /\ crashed' = crashed
  BY DEF PlayerReady
<1>2. \A h \in live : EntityOf(h)' = EntityOf(h)
  <2> SUFFICES ASSUME NEW h \in live PROVE lobbyPlayer'[h].entityID = lobbyPlayer[h].entityID
    BY DEF EntityOf
  <2>1. h \in Objects /\ lobbyPlayer[h] \in LobbyPlayer
    BY DEF LobbyInv, TypeOK
  <2>2. \/ lobbyPlayer'[h] = [lobbyPlayer[h] EXCEPT !.ready = bReady]
        \/ lobbyPlayer'[h] = lobbyPlayer[h]
    BY <2>1 DEF PlayerReady
  <2> QED
    BY <2>1, <2>2 DEF LobbyPlayer
<1>3. OneEach'
  BY <1>1, <1>2 DEF OneEach, Orderly
<1>4. FullButLast(m_Queue') /\ Running(m_Queue') /\ OnePlaceEach(m_Queue')
  BY <1>1 DEF Orderly
<1>5. live' = Referenced(m_Queue')
  BY <1>1 DEF Orderly
<1> QED
  BY <1>1, <1>3, <1>4, <1>5 DEF Orderly

(* When the last lobby loses a player the rest stays in order.              *)
LEMMA LeaveOrderly ==
  ASSUME NEW queue \in Seq(Lobby), NEW id,
         \E i \in DOMAIN queue : id \in Members(queue[i]),
         lobbyPlayer \in [Objects -> LobbyPlayer],
         FullButLast(queue), Running(queue), OnePlaceEach(queue),
         live = Referenced(queue), OneEach,
         Leave(id, queue), LobbyOf(id, queue) = Len(queue)
  PROVE  Orderly'
<1>0. PICK i \in DOMAIN queue :
        \E k \in DOMAIN queue[i].players : \E h \in Objects : Leaves(queue, id, i, k, h)
  BY LeaveFacts
<1>1. PICK k \in DOMAIN queue[i].players, h \in Objects : Leaves(queue, id, i, k, h)
  BY <1>0
<1>2. /\ m_Queue' \in Seq(Lobby) /\ Len(m_Queue') = Len(queue)
      /\ \A j \in DOMAIN queue : /\ m_Queue'[j].timer = queue[j].timer
                                 /\ j # i => m_Queue'[j] = queue[j]
      /\ Len(m_Queue'[i].players) = Len(queue[i].players) - 1
      /\ \A l \in DOMAIN m_Queue'[i].players :
           m_Queue'[i].players[l] = IF l < k THEN queue[i].players[l]
                                    ELSE queue[i].players[l + 1]
  BY <1>1, LeftQueue DEF Leaves
<1>3. /\ DOMAIN queue = DOMAIN m_Queue' /\ DOMAIN queue = 1..Len(queue) /\ Len(queue) \in Nat
      /\ \A j \in DOMAIN queue : Len(queue[j].players) \in Nat
      /\ k \in 1..Len(queue[i].players)
      /\ DOMAIN queue[i].players = 1..Len(queue[i].players)
      /\ DOMAIN m_Queue'[i].players = 1..(Len(queue[i].players) - 1)
  BY <1>2, EveryLobby
<1>4. i = Len(queue)
  BY <1>1 DEF Leaves
<1>5. h = queue[i].players[k] /\ h \in live
  BY <1>1, ReferencedPlaces DEF Leaves
<1>6. FullButLast(m_Queue') /\ Running(m_Queue')
  BY <1>2, <1>3, <1>4 DEF FullButLast, Running
<1> DEFINE was(j, l) == IF j = i /\ ~(l < k) THEN l + 1 ELSE l
<1>7. ASSUME NEW j \in DOMAIN queue, NEW l \in DOMAIN m_Queue'[j].players
      PROVE  /\ was(j, l) \in DOMAIN queue[j].players
             /\ m_Queue'[j].players[l] = queue[j].players[was(j, l)]
             /\ j = i => l \in Int /\ was(j, l) # k
  <2>1. CASE j # i
    BY <2>1, <1>2
  <2>2. CASE j = i
    <3>1. l \in 1..(Len(queue[i].players) - 1) /\ k \in 1..Len(queue[i].players)
      BY <2>2, <1>3
    <3>2. /\ was(i, l) \in 1..Len(queue[i].players)
          /\ was(i, l) # k
      BY <3>1, <1>3
    <3>3. m_Queue'[i].players[l] = queue[i].players[was(i, l)]
      BY <3>1, <1>2, <1>3
    <3> QED
      BY <2>2, <3>1, <3>2, <3>3, <1>3
  <2> QED
    BY <2>1, <2>2
<1>8. OnePlaceEach(m_Queue')
  <2> SUFFICES ASSUME NEW a \in DOMAIN queue, NEW b \in DOMAIN queue,
                      NEW l \in DOMAIN m_Queue'[a].players,
                      NEW m \in DOMAIN m_Queue'[b].players,
                      m_Queue'[a].players[l] = m_Queue'[b].players[m]
               PROVE  a = b /\ l = m
    BY <1>3 DEF OnePlaceEach
  <2>1. a = b /\ was(a, l) = was(b, m)
    <3> HIDE DEF was
    <3> QED
      BY <1>7 DEF OnePlaceEach
  <2>2. CASE a # i
    BY <2>1, <2>2
  <2>3. CASE a = i
    <3>1. l \in Int /\ m \in Int /\ k \in Int
      BY <2>1, <2>3, <1>3, <1>7
    <3> QED
      BY <2>1, <2>3, <3>1
  <2> QED
    BY <2>1, <2>2, <2>3
<1>9. live' = Referenced(m_Queue')
  <2>1. live' \subseteq Referenced(m_Queue')
    BY LeaveLive
  <2>2. ASSUME NEW g \in Referenced(m_Queue') PROVE g \in live'
    <3>0. PICK j \in DOMAIN m_Queue' :
            \E l \in DOMAIN m_Queue'[j].players : m_Queue'[j].players[l] = g
      BY <2>2, ReferencedPlaces
    <3>1. j \in DOMAIN queue /\ \E l \in DOMAIN m_Queue'[j].players : m_Queue'[j].players[l] = g
      BY <3>0, <1>3
    <3>2. PICK l \in DOMAIN m_Queue'[j].players : m_Queue'[j].players[l] = g
      BY <3>1
    <3>3. /\ was(j, l) \in DOMAIN queue[j].players /\ g = queue[j].players[was(j, l)]
          /\ j = i => was(j, l) # k
      BY <3>1, <3>2, <1>7
    <3> HIDE DEF was
    <3>4. g \in live
      BY <3>1, <3>3, ReferencedPlaces
    <3>5. g # h
      BY <3>1, <3>3, <1>5 DEF OnePlaceEach
    <3> QED
      BY <3>4, <3>5, <1>1 DEF Leaves
  <2> QED
    BY <2>1, <2>2
<1>10. OneEach'
  <2>1. \A g \in live' : g \in live /\ g # h /\ g \in Objects
    <3>1. Referenced(queue) \subseteq Objects
      BY ReferencedObjects
    <3> QED
      BY <3>1, <1>1 DEF Leaves
  <2>2. \A g \in live' : lobbyPlayer'[g] = lobbyPlayer[g]
    BY <1>1, <1>9, <2>1 DEF Leaves
  <2> QED
    BY <2>1, <2>2 DEF OneEach, EntityOf
<1>11. ~crashed'
  BY <1>1, <1>5 DEF Leaves
<1> QED
  BY <1>6, <1>8, <1>9, <1>10, <1>11 DEF Orderly

(* What is kept of an orderly queue is an orderly queue.                    *)
LEMMA KeptOrderly ==
  ASSUME NEW queue \in Seq(Lobby), NEW places \in SUBSET (1..Len(queue)),
         \A i \in places : queue[i].timer > 0,
         FullButLast(queue), OnePlaceEach(queue),
         Referenced(queue) = live, OneEach, ~crashed',
         lobbyPlayer \in [Objects -> LobbyPlayer],
         m_Queue' = LobbiesAt(queue, places),
         live' = live \cap Referenced(m_Queue'),
         lobbyPlayer' = Forget(lobbyPlayer, m_Queue')
  PROVE  /\ Orderly'
         /\ \A h \in Referenced(m_Queue') :
              \E i \in places : \E k \in DOMAIN queue[i].players : queue[i].players[k] = h
<1>1. m_Queue' \in Seq(Lobby)
      /\ \E at \in [1..Len(m_Queue') -> places] :
           /\ \A j \in 1..Len(m_Queue') : m_Queue'[j] = queue[at[j]]
           /\ \A j, l \in 1..Len(m_Queue') : j < l => at[j] < at[l]
  BY LobbiesAtFacts
<1> DEFINE n == Len(m_Queue')
<1>2. PICK at \in [1..n -> places] :
        /\ \A j \in 1..n : m_Queue'[j] = queue[at[j]]
        /\ \A j, l \in 1..n : j < l => at[j] < at[l]
  BY <1>1
<1>3. /\ n \in Nat /\ DOMAIN m_Queue' = 1..n /\ Len(queue) \in Nat
      /\ DOMAIN queue = 1..Len(queue)
      /\ \A j \in 1..n : at[j] \in places /\ at[j] \in 1..Len(queue) /\ at[j] \in Int
  <2>1. n \in Nat /\ DOMAIN m_Queue' = 1..n
    BY <1>1, LenProperties
  <2>2. Len(queue) \in Nat /\ DOMAIN queue = 1..Len(queue)
    BY EveryLobby
  <2>3. \A j \in 1..n : at[j] \in places /\ at[j] \in 1..Len(queue)
    OBVIOUS
  <2> QED
    BY <2>1, <2>2, <2>3
<1> HIDE DEF n
<1>4. \A j, l \in 1..n : at[j] = at[l] => j = l
  <2> SUFFICES ASSUME NEW j \in 1..n, NEW l \in 1..n, at[j] = at[l] PROVE j = l
    OBVIOUS
  <2>1. j \in Int /\ l \in Int /\ at[j] \in Int
    BY <1>3
  <2>2. ~(j < l) /\ ~(l < j)
    BY <2>1, <1>2
  <2> QED
    BY <2>1, <2>2
<1>5. FullButLast(m_Queue')
  <2> SUFFICES ASSUME NEW j \in 1..n, j < n PROVE ~HasSlot(m_Queue'[j])
    BY <1>3 DEF FullButLast, n
  <2>1. n \in 1..n /\ at[j] < at[n]
    BY <1>2, <1>3
  <2>2. at[j] < Len(queue)
    BY <2>1, <1>3
  <2> QED
    BY <2>2, <1>2, <1>3 DEF FullButLast
<1>6. Running(m_Queue')
  BY <1>2, <1>3 DEF Running
<1>7. OnePlaceEach(m_Queue')
  <2> SUFFICES ASSUME NEW a \in 1..n, NEW b \in 1..n,
                      NEW k \in DOMAIN m_Queue'[a].players,
                      NEW l \in DOMAIN m_Queue'[b].players,
                      m_Queue'[a].players[k] = m_Queue'[b].players[l]
               PROVE  a = b /\ k = l
    BY <1>3 DEF OnePlaceEach
  <2>1. m_Queue'[a] = queue[at[a]] /\ m_Queue'[b] = queue[at[b]]
    BY <1>2
  <2>2. at[a] = at[b] /\ k = l
    BY <2>1, <1>3 DEF OnePlaceEach
  <2> QED
    BY <2>2, <1>4
<1>8. ASSUME NEW h \in Referenced(m_Queue')
      PROVE  \E i \in places : \E k \in DOMAIN queue[i].players : queue[i].players[k] = h
  <2>0. PICK j \in DOMAIN m_Queue' :
          \E k \in DOMAIN m_Queue'[j].players : m_Queue'[j].players[k] = h
    BY <1>8, ReferencedPlaces
  <2>1. j \in 1..n /\ at[j] \in places /\ m_Queue'[j] = queue[at[j]]
    BY <2>0, <1>2, <1>3
  <2>2. PICK k \in DOMAIN m_Queue'[j].players : m_Queue'[j].players[k] = h
    BY <2>0
  <2>3. k \in DOMAIN queue[at[j]].players /\ queue[at[j]].players[k] = h
    BY <2>1, <2>2
  <2> QED
    BY <2>1, <2>3
<1>9. live' = Referenced(m_Queue')
  <2>1. \A h \in Referenced(m_Queue') : h \in Referenced(queue)
    BY <1>3, <1>8, ReferencedPlaces
  <2> QED
    BY <2>1
<1>10. OneEach'
  <2>1. \A h \in live' : h \in live /\ h \in Referenced(m_Queue') /\ h \in Objects
    BY <1>9, ReferencedObjects
  <2>2. \A h \in live' : lobbyPlayer'[h] = lobbyPlayer[h]
    BY <2>1 DEF Forget
  <2> QED
    BY <2>1, <2>2 DEF OneEach, EntityOf
<1> QED
  BY <1>5, <1>6, <1>7, <1>8, <1>9, <1>10 DEF Orderly

(* An update that ends with the promise unbroken.                           *)
LEMMA UpdateOrderly ==
  ASSUME LobbyInv, Orderly, Update, ~gap, ~gap'
  PROVE  /\ Orderly'
         /\ \A players \in started' :
              /\ Enough(players)
              /\ ToSet(players) \cap Referenced(m_Queue') = {}
         /\ \A p \in Players : held[p] - held'[p] <= Cost
<1> DEFINE n == Len(m_Queue)
           kept(q) == {i \in 1..n : q[i].players # <<>> /\ q[i].timer > 0}
<1>1. PICK queue \in Seq(Lobby), over \in SUBSET (1..n) :
        /\ Len(queue) = n
        /\ \A i \in 1..n :
             /\ queue[i].players = m_Queue[i].players
             /\ \/ queue[i].timer = m_Queue[i].timer
                \/ queue[i].timer = CountDown(m_Queue[i])
             /\ i \in over => queue[i].players # <<>> /\ queue[i].timer <= 0
             /\ i \notin over => queue[i].timer > 0 \/ queue[i].timer = m_Queue[i].timer
        /\ held' = [p \in Players |->
                     held[p] - Cost * TimesPaid(p, Cardinality(Places(p, over)))]
        /\ started' = {queue[i].players : i \in over}
        /\ \/ /\ m_Queue' = LobbiesAt(queue, kept(queue))
              /\ live' = live \cap Referenced(m_Queue')
              /\ lobbyPlayer' = Forget(lobbyPlayer, m_Queue')
              /\ UNCHANGED <<crashed, gap>>
           \/ \E id : /\ \E i \in DOMAIN queue : id \in Members(queue[i])
                      /\ Leave(id, queue)
                      /\ gap' = (gap \/ LobbyOf(id, queue) # n \/ over # {})
  BY UpdateFacts
<1>2. /\ m_Queue \in Seq(Lobby) /\ n \in Nat /\ DOMAIN m_Queue = 1..n /\ DOMAIN queue = 1..n
      /\ \A i \in 1..n : m_Queue[i] \in Lobby /\ m_Queue[i].timer \in Int /\ m_Queue[i].timer > 0
                         /\ queue[i] \in Lobby /\ queue[i].timer \in Int
  <2>1. m_Queue \in Seq(Lobby) /\ Running(m_Queue)
    BY DEF LobbyInv, Orderly
  <2> QED
    BY <1>1, <2>1, EveryLobby DEF Running
<1>3. Referenced(queue) = live
  <2>1. ASSUME NEW h PROVE h \in Referenced(queue) <=> h \in Referenced(m_Queue)
    <3>1. h \in Referenced(queue) => h \in Referenced(m_Queue)
      BY <1>1, <1>2, ReferencedPlaces
    <3>2. h \in Referenced(m_Queue) => h \in Referenced(queue)
      BY <1>1, <1>2, ReferencedPlaces
    <3> QED
      BY <3>1, <3>2
  <2> QED
    BY <2>1 DEF Orderly
<1>4. FullButLast(queue) /\ OnePlaceEach(queue)
  <2>1. FullButLast(m_Queue) /\ OnePlaceEach(m_Queue)
    BY DEF Orderly
  <2>2. FullButLast(queue)
    BY <1>1, <1>2, <2>1 DEF FullButLast, HasSlot
  <2>3. OnePlaceEach(queue)
    BY <1>1, <1>2, <2>1 DEF OnePlaceEach
  <2> QED
    BY <2>2, <2>3
<1>5. ASSUME NEW i \in over
      PROVE  Enough(queue[i].players)
  <2>1. i \in 1..n /\ queue[i].timer <= 0 /\ queue[i].players = m_Queue[i].players
    BY <1>1
  <2>2. CountDown(m_Queue[i]) <= 0
    BY <2>1, <1>1, <1>2
  <2>3. StartDelay \in Int /\ StartDelay > 0
    BY ActivityAssumption
  <2>4. Enough(m_Queue[i].players)
    BY <2>1, <2>2, <2>3, <1>2 DEF CountDown
  <2> QED
    BY <2>1, <2>4
<1>6. ASSUME NEW p \in Players PROVE held[p] - held'[p] <= Cost
  <2> DEFINE P == Places(p, over)
             c == Cardinality(P)
  <2>1. ASSUME NEW x \in P, NEW y \in P PROVE x = y
    <3>1. /\ x[1] \in over /\ y[1] \in over /\ x = <<x[1], x[2]>> /\ y = <<y[1], y[2]>>
          /\ x[2] \in DOMAIN m_Queue[x[1]].players /\ y[2] \in DOMAIN m_Queue[y[1]].players
          /\ EntityOf(m_Queue[x[1]].players[x[2]]) = p
          /\ EntityOf(m_Queue[y[1]].players[y[2]]) = p
      BY DEF Places
    <3>2. x[1] \in DOMAIN m_Queue /\ y[1] \in DOMAIN m_Queue
      BY <3>1, <1>2
    <3>3. /\ m_Queue[x[1]].players[x[2]] \in live /\ m_Queue[y[1]].players[y[2]] \in live
      BY <3>1, <3>2, ReferencedPlaces DEF Orderly
    <3>4. m_Queue[x[1]].players[x[2]] = m_Queue[y[1]].players[y[2]]
      BY <3>1, <3>3 DEF Orderly, OneEach
    <3>5. x[1] = y[1] /\ x[2] = y[2]
      BY <3>1, <3>2, <3>4 DEF Orderly, OnePlaceEach
    <3> QED
      BY <3>1, <3>5
  <2> HIDE DEF P
  <2>2. c \in {0, 1}
    <3>1. CASE P = {}
      BY <3>1, FS_EmptySet
    <3>2. CASE P # {}
      <4>1. PICK x \in P : TRUE
        BY <3>2
      <4>2. P = {x}
        BY <4>1, <2>1
      <4> QED
        BY <4>2, FS_Singleton
    <3> QED
      BY <3>1, <3>2
  <2>3. held \in [Players -> Nat] /\ Cost \in Nat
    BY ActivityAssumption DEF LobbyInv, TypeOK
  <2> DEFINE m == TimesPaid(p, c)
  <2>4. m \in 0..c
    <3>1. c \in Nat
      BY <2>2
    <3> HIDE DEF c
    <3> QED
      BY <2>3, <3>1, TimesPaidFacts
  <2>5. held'[p] = held[p] - Cost * m
    BY <1>1 DEF P
  <2> HIDE DEF m, c
  <2>6. m = 0 \/ m = 1
    BY <2>2, <2>4
  <2>7. held[p] \in Int
    BY <2>3
  <2> QED
    BY <2>3, <2>5, <2>6, <2>7
<1>7. CASE /\ m_Queue' = LobbiesAt(queue, kept(queue))
           /\ live' = live \cap Referenced(m_Queue')
           /\ lobbyPlayer' = Forget(lobbyPlayer, m_Queue')
           /\ UNCHANGED <<crashed, gap>>
  <2>1. /\ kept(queue) \in SUBSET (1..Len(queue))
        /\ \A i \in kept(queue) : i \in 1..n /\ queue[i].timer > 0
    BY <1>1
  <2>2. lobbyPlayer \in [Objects -> LobbyPlayer] /\ ~crashed' /\ OneEach
    BY <1>7 DEF LobbyInv, TypeOK, Orderly
  <2> HIDE DEF kept
  <2>3. /\ Orderly'
        /\ \A h \in Referenced(m_Queue') :
             \E i \in kept(queue) : \E k \in DOMAIN queue[i].players : queue[i].players[k] = h
    BY <1>3, <1>4, <1>7, <2>1, <2>2, KeptOrderly
  <2>4. ASSUME NEW i \in over
        PROVE  ToSet(queue[i].players) \cap Referenced(m_Queue') = {}
    <3> SUFFICES ASSUME NEW h \in ToSet(queue[i].players), h \in Referenced(m_Queue')
                 PROVE  FALSE
      OBVIOUS
    <3>1. PICK k \in DOMAIN queue[i].players : queue[i].players[k] = h
      BY DEF ToSet
    <3>2. PICK j \in kept(queue) : \E l \in DOMAIN queue[j].players : queue[j].players[l] = h
      BY <2>3
    <3>3. i \in DOMAIN queue /\ j \in DOMAIN queue
      BY <1>2, <2>1
    <3>4. i = j
      BY <3>1, <3>2, <3>3, <1>4 DEF OnePlaceEach
    <3>5. queue[i].timer <= 0 /\ queue[i].timer > 0 /\ queue[i].timer \in Int
      BY <3>4, <1>1, <1>2, <2>1
    <3> QED
      BY <3>5
  <2> QED
    BY <1>1, <1>5, <1>6, <2>3, <2>4
<1>8. CASE \E id : /\ \E i \in DOMAIN queue : id \in Members(queue[i])
                   /\ Leave(id, queue)
                   /\ gap' = (gap \/ LobbyOf(id, queue) # n \/ over # {})
  <2>1. PICK id : /\ \E i \in DOMAIN queue : id \in Members(queue[i])
                  /\ Leave(id, queue)
                  /\ gap' = (gap \/ LobbyOf(id, queue) # n \/ over # {})
    BY <1>8
  <2>2. LobbyOf(id, queue) = Len(queue) /\ over = {}
    BY <1>1, <2>1
  <2>3. Running(queue)
    BY <1>1, <1>2, <2>2 DEF Running
  <2>4. lobbyPlayer \in [Objects -> LobbyPlayer] /\ OneEach
    BY DEF LobbyInv, TypeOK, Orderly
  <2>5. Orderly'
    BY <1>3, <1>4, <2>1, <2>2, <2>3, <2>4, LeaveOrderly
  <2>6. started' = {}
    BY <1>1, <2>2
  <2> QED
    BY <1>6, <2>5, <2>6
<1> QED
  BY <1>1, <1>7, <1>8

(* Every step keeps the order or leaves a gap, and keeps the promise.       *)
LEMMA StepPromise ==
  ASSUME PromiseInv, [Next]_vars
  PROVE  /\ PromiseInv'
         /\ \/ UNCHANGED vars
            \/ ~gap' =>
                 /\ \A players \in started' :
                      /\ Enough(players)
                      /\ ToSet(players) \cap Referenced(m_Queue') = {}
                 /\ \A p \in Players : held[p] - held'[p] <= Cost
<1>1. LobbyInv /\ LobbyInv'
  BY StepLobby DEF PromiseInv
<1>2. held \in [Players -> Nat] /\ Cost \in Nat
  BY <1>1, ActivityAssumption DEF LobbyInv, TypeOK
<1> DEFINE Promise == /\ \A players \in started' :
                           /\ Enough(players)
                           /\ ToSet(players) \cap Referenced(m_Queue') = {}
                      /\ \A p \in Players : held[p] - held'[p] <= Cost
<1>3. ASSUME started' = {}, held' = held PROVE Promise
  <2>1. \A p \in Players : held[p] \in Nat /\ held[p] - held[p] = 0
    BY <1>2
  <2> QED
    BY <1>2, <1>3, <2>1
<1>4. ASSUME NEW p \in Players, PlayerJoin(p)
      PROVE  started' = {} /\ held' = held /\ (~gap' => Orderly')
  <2>1. gap' = gap /\ started' = {} /\ held' = held
    BY <1>4 DEF PlayerJoin
  <2> QED
    BY <1>1, <1>4, <2>1, JoinOrderly DEF PromiseInv
<1>5. ASSUME NEW p \in Players, NEW bReady \in BOOLEAN, PlayerReady(p, bReady)
      PROVE  started' = {} /\ held' = held /\ (~gap' => Orderly')
  <2>1. gap' = gap /\ started' = {} /\ held' = held
    BY <1>5 DEF PlayerReady
  <2> QED
    BY <1>1, <1>5, <2>1, ReadyOrderly DEF PromiseInv
<1>6. ASSUME NEW p \in Players, PlayerLeave(p)
      PROVE  started' = {} /\ held' = held /\ (~gap' => Orderly')
  <2>1. /\ started' = {} /\ held' = held
        /\ Leave(p, m_Queue) /\ gap' = (gap \/ LobbyOf(p, m_Queue) # Len(m_Queue))
        /\ \E i \in DOMAIN m_Queue : p \in Members(m_Queue[i])
    BY <1>6 DEF PlayerLeave, PlayerIsInQueue
  <2>2. ASSUME ~gap' PROVE Orderly'
    <3>1. ~gap /\ LobbyOf(p, m_Queue) = Len(m_Queue)
      BY <2>1, <2>2
    <3>2. Orderly
      BY <3>1 DEF PromiseInv
    <3>3. m_Queue \in Seq(Lobby) /\ lobbyPlayer \in [Objects -> LobbyPlayer]
      BY <1>1 DEF LobbyInv, TypeOK
    <3>4. /\ FullButLast(m_Queue) /\ Running(m_Queue) /\ OnePlaceEach(m_Queue)
          /\ live = Referenced(m_Queue) /\ OneEach
      BY <3>2 DEF Orderly
    <3> QED
      BY <2>1, <3>1, <3>3, <3>4, LeaveOrderly
  <2> QED
    BY <2>1, <2>2
<1>7. ASSUME \/ \E p \in Players : PlayerDeparts(p) \/ PlayerReturns(p)
             \/ ReloadConfig
      PROVE  started' = {} /\ held' = held /\ (~gap' => Orderly')
  <2>1. /\ UNCHANGED <<m_Queue, lobbyPlayer, live, crashed, gap>>
        /\ started' = {} /\ held' = held
    BY <1>7 DEF PlayerDeparts, PlayerReturns, ReloadConfig
  <2>2. Orderly => Orderly'
    BY <2>1 DEF Orderly, FullButLast, Running, OnePlaceEach, OneEach, EntityOf,
                HasSlot, Referenced
  <2> QED
    BY <2>1, <2>2 DEF PromiseInv
<1>8. CASE Update
  <2>1. ~gap' => ~gap
    BY <1>1, <1>8 DEF Update
  <2>2. ~gap' => Orderly' /\ Promise
    BY <1>1, <1>8, <2>1, UpdateOrderly DEF PromiseInv
  <2> QED
    BY <1>1, <2>2 DEF PromiseInv
<1>9. CASE UNCHANGED vars
  <2>1. UNCHANGED <<m_Queue, lobbyPlayer, live, crashed, gap>>
    BY <1>9 DEF vars
  <2>2. Orderly => Orderly'
    BY <2>1 DEF Orderly, FullButLast, Running, OnePlaceEach, OneEach, EntityOf,
                HasSlot, Referenced
  <2> QED
    BY <1>1, <1>9, <2>1, <2>2 DEF PromiseInv
<1> HIDE DEF Promise
<1>10. CASE Next /\ ~Update
  <2>1. started' = {} /\ held' = held /\ (~gap' => Orderly')
    BY <1>4, <1>5, <1>6, <1>7, <1>10 DEF Next, PlayerStep
  <2> QED
    BY <1>1, <1>3, <2>1 DEF PromiseInv, Promise
<1> QED
  BY <1>8, <1>9, <1>10

(* Until a lobby before the last loses a player, or an update that started  *)
(* a lobby is cut short: no LobbyPlayer is deleted twice, and the memory of *)
(* no lobby is freed under it.                                              *)
THEOREM NothingDangles == Spec => [](~gap => ~crashed /\ live = Referenced(m_Queue))
<1>1. Init => PromiseInv
  <2> SUFFICES ASSUME Init PROVE PromiseInv
    OBVIOUS
  <2>1. m_Queue = <<>> /\ live = {} /\ ~crashed
    BY DEF Init
  <2>2. Orderly
    BY <2>1 DEF Orderly, FullButLast, Running, OnePlaceEach, OneEach, Referenced
  <2> QED
    BY <2>2, InitLobby DEF PromiseInv
<1>2. PromiseInv /\ [Next]_vars => PromiseInv'
  BY StepPromise
<1>3. PromiseInv => (~gap => ~crashed /\ live = Referenced(m_Queue))
  BY DEF PromiseInv, Orderly
<1> QED
  BY <1>1, <1>2, <1>3, PTL DEF Spec

(* A lobby starts with enough players, none of whom goes on waiting, and    *)
(* nobody pays more than once: until a gap is left in the queue.            *)
THEOREM StartsAsPromisedAlways == Spec => StartsAsPromised
<1>1. Init => PromiseInv
  <2> SUFFICES ASSUME Init PROVE PromiseInv
    OBVIOUS
  <2>1. m_Queue = <<>> /\ live = {} /\ ~crashed
    BY DEF Init
  <2>2. Orderly
    BY <2>1 DEF Orderly, FullButLast, Running, OnePlaceEach, OneEach, Referenced
  <2> QED
    BY <2>2, InitLobby DEF PromiseInv
<1>2. PromiseInv /\ [Next]_vars => PromiseInv'
  BY StepPromise
<1>3. PromiseInv /\ [Next]_vars =>
        [~gap' =>
           /\ \A players \in started' :
                /\ Enough(players)
                /\ ToSet(players) \cap Referenced(m_Queue') = {}
           /\ \A p \in Players : held[p] - held'[p] <= Cost]_vars
  BY StepPromise
<1> QED
  BY <1>1, <1>2, <1>3, PTL DEF Spec, StartsAsPromised
=============================================================================
