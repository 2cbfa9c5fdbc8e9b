------------------------------- MODULE Friends -------------------------------
(***************************************************************************)
(* Friends and best friends: the lists the chat server keeps of the players *)
(* in game (dChatServer/ChatPacketHandler, PlayerContainer), and the table  *)
(* of friendships they are read from and written to (dDatabase).            *)
(*                                                                         *)
(* A player that is looked up and not found is the entry of m_Players with  *)
(* the empty id, which is false as long as its playerID is empty.  A best   *)
(* friend may be asked while offline; HandleFriendRequest then writes the   *)
(* friend's id and name into that shared entry.                             *)
(*                                                                         *)
(* Players arrive after they left (Teams has the other orders), all are     *)
(* civilians, and a client sends commands once it has its list.             *)
(***************************************************************************)
EXTENDS Integers, Sequences, FiniteSets, SequencesExt

CONSTANTS
  Players,
  InitialFriends,  \* the friendships at first: pairs <<player, friend>>
  MaxFriends,      \* max_number_of_friends
  MaxBestFriends,  \* max_number_of_best_friends
  AsksOffline,     \* whether clients ask friends who are offline
  MaxRequests,     \* bound on the requests not yet answered
  MaxLogins        \* bound on the arrivals

LWOOBJID_EMPTY == 0
Keys == Players \cup {LWOOBJID_EMPTY}

ASSUME FriendsAssumption ==
  /\ IsFiniteSet(Players) /\ LWOOBJID_EMPTY \notin Players
  /\ InitialFriends \subseteq Players \X Players
  /\ \A row \in InitialFriends :
       row[1] # row[2] /\ <<row[2], row[1]>> \notin InitialFriends
  /\ {MaxFriends, MaxBestFriends, MaxRequests, MaxLogins} \subseteq Nat
  /\ AsksOffline \in BOOLEAN

VARIABLES
  m_Players,  \* the data of each key; that of a player not in game is NoData
  loaded,     \* the players that have been sent their list
  rows,       \* the table friends
  requests,   \* requests shown to a player: <<requestor, player>>
  logins,     \* the arrivals so far
  asked       \* history: <<p, q>> if p asked q to be its best friend

vars == <<m_Players, loaded, rows, requests, logins, asked>>

FriendData == [friendID: Players, isBestFriend: BOOLEAN]

PlayerData ==
  [playerID: Keys, friends: Seq(FriendData), countOfBestFriends: 0..255]

NoData ==
  [playerID |-> LWOOBJID_EMPTY, friends |-> <<>>, countOfBestFriends |-> 0]

(* best_friend: 1 the player asked, 2 the friend did, 3 both.               *)
Row == [player: Players, friend: Players, best: 0..3]

IsBetween(row, p, q) == {row.player, row.friend} = {p, q}

-----------------------------------------------------------------------------
(* Lookups.  m_Players is ordered by id: the shared entry comes first.      *)

Found(k) == m_Players[k].playerID # LWOOBJID_EMPTY

ById(p) == IF Found(p) THEN p ELSE LWOOBJID_EMPTY

ByName(p) ==
  IF m_Players[LWOOBJID_EMPTY].playerID = p THEN LWOOBJID_EMPTY ELSE ById(p)

FriendIds(data) == {data.friends[k].friendID : k \in DOMAIN data.friends}

HasFriend(k, id) == id \in FriendIds(m_Players[k])

AddEntry(data, id) ==
  [data EXCEPT !.friends = Append(@, [friendID |-> id, isBestFriend |-> FALSE])]

(* Mutant: the flag is not set in the list.                                 *)
CountBest(data, id) ==
  [data EXCEPT !.countOfBestFriends = (@ + 1) % 256]

MarkBest(data, id) ==
  [data EXCEPT
     !.countOfBestFriends = (@ + 1) % 256,
     !.friends = [k \in DOMAIN @ |->
                    IF @[k].friendID = id
                    THEN [@[k] EXCEPT !.isBestFriend = TRUE] ELSE @[k]]]

(* Mutant: the count of best friends is not kept in a byte.                 *)
EraseUncounted(data, id) ==
  IF id \notin FriendIds(data) THEN data
  ELSE LET k == CHOOSE k \in DOMAIN data.friends :
                  /\ data.friends[k].friendID = id
                  /\ \A j \in 1..(k - 1) : data.friends[j].friendID # id
       IN [data EXCEPT !.friends = RemoveAt(@, k),
                       !.countOfBestFriends =
                          IF data.friends[k].isBestFriend THEN @ - 1 ELSE @]

(* The first entry of the friend goes.                                      *)
EraseEntry(data, id) ==
  IF id \notin FriendIds(data) THEN data
  ELSE LET k == CHOOSE k \in DOMAIN data.friends :
                  /\ data.friends[k].friendID = id
                  /\ \A j \in 1..(k - 1) : data.friends[j].friendID # id
       IN [data EXCEPT !.friends = RemoveAt(@, k),
                       !.countOfBestFriends =
                          IF data.friends[k].isBestFriend
                          THEN (@ + 255) % 256 ELSE @]

-----------------------------------------------------------------------------
(* The database: dDatabase/GameDatabase/MySQL/Tables/Friends.cpp.           *)

RowsOf(p) == {row \in rows : p \in {row.player, row.friend}}

FriendOf(row, p) == IF row.player = p THEN row.friend ELSE row.player

(* The order of a query without ORDER BY.                                   *)
GetFriendsList(p) ==
  {list \in [1..Cardinality(RowsOf(p)) -> RowsOf(p)] :
     \A j, k \in DOMAIN list : j # k => list[j] # list[k]}

(* Mutant: the friendship is added whatever the table holds.                *)
AddFriendTwice(p, q) ==
  rows \cup {[player |-> p, friend |-> q, best |-> 0],
             [player |-> q, friend |-> p, best |-> 0]}

AddFriend(p, q) ==
  IF \E row \in rows : row.player = p /\ row.friend = q THEN rows
  ELSE rows \cup {[player |-> p, friend |-> q, best |-> 0]}

(* best_friend with the bit of the player that asks.                        *)
AskedBest(row, p) ==
  CASE p = row.player /\ row.best \in {0, 2} -> row.best + 1
    [] p # row.player /\ row.best \in {0, 1} -> row.best + 2
    [] OTHER -> row.best

-----------------------------------------------------------------------------
Login(p) ==
  /\ ~Found(p)
  /\ logins < MaxLogins
  /\ logins' = logins + 1
  /\ m_Players' = [m_Players EXCEPT ![p] = [NoData EXCEPT !.playerID = p]]
  /\ UNCHANGED <<loaded, rows, requests, asked>>

(* RemovePlayer.  A client that logs a character in, or leaves before it    *)
(* has, is announced as a departure of LWOOBJID_EMPTY, the character it had *)
(* before: the shared entry goes then.                                      *)
Logout(k) ==
  /\ Found(k)
  /\ m_Players' = [m_Players EXCEPT ![k] = NoData]
  /\ loaded' = loaded \ {k}
  /\ UNCHANGED <<rows, requests, logins, asked>>

(* The rows are pushed after what the list already holds.                   *)
HandleFriendlistRequest(p) ==
  /\ Found(p) /\ p \notin loaded
  /\ \E list \in GetFriendsList(p) :
       LET best(row) == row.best = 3
           fds == [k \in DOMAIN list |->
                     [friendID |-> FriendOf(list[k], p),
                      isBestFriend |-> best(list[k])]]
       IN m_Players' = [m_Players EXCEPT
            ![p].friends = @ \o fds,
            ![p].countOfBestFriends =
               (@ + Cardinality({row \in RowsOf(p) : best(row)})) % 256]
  /\ loaded' = loaded \cup {p}
  /\ UNCHANGED <<rows, requests, logins, asked>>

(* Mutant: who is asked is a friend at once.                                *)
FriendAtOnce(p, q) ==
  /\ p \in loaded /\ q # p
  /\ Found(q) /\ ~HasFriend(q, p)
  /\ rows' = AddFriend(p, q)
  /\ m_Players' = [m_Players EXCEPT ![p] = AddEntry(@, q),
                                    ![q] = AddEntry(@, p)]
  /\ UNCHANGED <<loaded, requests, logins, asked>>

(* A friend request that is not for a best friend.                          *)
HandleFriendRequest(p, q) ==
  LET e == ByName(q) IN
  /\ p \in loaded /\ q # p
  /\ Found(e)
  /\ Len(m_Players[e].friends) < MaxFriends
  /\ Len(m_Players[p].friends) < MaxFriends
  /\ Cardinality(requests \cup {<<p, e>>}) <= MaxRequests
  /\ requests' = IF e = LWOOBJID_EMPTY THEN requests
                 ELSE requests \cup {<<p, e>>}
  /\ UNCHANGED <<m_Players, loaded, rows, logins, asked>>

(* Mutant: asking is enough to be best friends.                             *)
SetBestAtOnce(players, p, e, row) ==
  /\ rows' = (rows \ {row}) \cup {[row EXCEPT !.best = 3]}
  /\ m_Players' = [players EXCEPT ![p] = MarkBest(@, players[e].playerID),
                                  ![e] = MarkBest(@, p)]

(* SetBestFriendStatus; the second to ask makes them best friends.          *)
SetBestFriendStatus(players, p, e, row) ==
  LET best == AskedBest(row, p) IN
  /\ rows' = (rows \ {row}) \cup {[row EXCEPT !.best = best]}
  /\ m_Players' = IF best = 3
                  THEN [players EXCEPT ![p] = MarkBest(@, players[e].playerID),
                                       ![e] = MarkBest(@, p)]
                  ELSE players

(* A request for a best friend, who may be offline if it is in the list.    *)
HandleBestFriendRequest(p, q) ==
  LET e       == ByName(q)
      shared  == [m_Players[LWOOBJID_EMPTY] EXCEPT !.playerID = q]
      players == IF ~Found(e) /\ HasFriend(p, q)
                 THEN [m_Players EXCEPT ![LWOOBJID_EMPTY] = AddEntry(shared, p)]
                 ELSE m_Players
      id      == players[e].playerID
      between == {row \in rows : IsBetween(row, p, id)}
      full    == \E k \in {p, e} :
                   players[k].countOfBestFriends >= MaxBestFriends
  IN
  /\ p \in loaded /\ q # p
  /\ Found(q) \/ AsksOffline
  /\ id # LWOOBJID_EMPTY
  /\ asked' = asked \cup {<<p, q>>}
  /\ \/ /\ full \/ \A row \in between : AskedBest(row, p) = row.best
        /\ m_Players' = players
        /\ UNCHANGED rows
     \/ \E row \in between :
          /\ AskedBest(row, p) # row.best
          /\ ~full
          /\ SetBestFriendStatus(players, p, e, row)
  /\ UNCHANGED <<loaded, requests, logins>>

(* The player's answer to a request, by the name of who sent it.            *)
HandleFriendResponse(p, q, accepted) ==
  LET e  == ByName(q)
      id == m_Players[e].playerID
  IN
  /\ <<q, p>> \in requests
  /\ p \in loaded
  /\ requests' = requests \ {<<q, p>>}
  /\ IF accepted /\ Found(e) /\ ~HasFriend(p, id)
     THEN /\ m_Players' = [m_Players EXCEPT ![e] = AddEntry(@, p),
                                            ![p] = AddEntry(@, id)]
          /\ rows' = AddFriend(p, id)
     ELSE UNCHANGED <<m_Players, rows>>
  /\ UNCHANGED <<loaded, logins, asked>>

(* One row of the two is deleted, whichever list the friend was in.         *)
HandleRemoveFriend(p, q) ==
  LET between == {row \in rows : IsBetween(row, p, q)}
      erased  == [m_Players EXCEPT ![p] = EraseEntry(@, q)]
  IN
  /\ p \in loaded
  /\ HasFriend(p, q)
  /\ \/ between = {} /\ UNCHANGED rows
     \/ \E row \in between : rows' = rows \ {row}
  /\ m_Players' = [erased EXCEPT ![ById(q)] = EraseEntry(@, p)]
  /\ asked' = asked \ {<<p, q>>, <<q, p>>}
  /\ UNCHANGED <<loaded, requests, logins>>

-----------------------------------------------------------------------------
Init ==
  /\ m_Players = [k \in Keys |-> NoData]
  /\ loaded = {}
  /\ rows = {[player |-> f[1], friend |-> f[2], best |-> 0] :
               f \in InitialFriends}
  /\ requests = {}
  /\ logins = 0
  /\ asked = {}

Next ==
  \/ \E p \in Players :
       \/ Login(p)
       \/ HandleFriendlistRequest(p)
       \/ \E q \in Players :
            \/ HandleFriendRequest(p, q)
            \/ HandleBestFriendRequest(p, q)
            \/ \E accepted \in BOOLEAN : HandleFriendResponse(p, q, accepted)
            \/ HandleRemoveFriend(p, q)
  \/ \E k \in Keys : Logout(k)

Spec == Init /\ [][Next]_vars

-----------------------------------------------------------------------------
(* Properties.                                                              *)

(* Type invariant: what the chat server keeps of the players and what the   *)
(* table of friends holds have their types.                                 *)
TypeOK ==
  /\ m_Players \in [Keys -> PlayerData]
  /\ loaded \subseteq {p \in Players : Found(p)}
  /\ rows \subseteq Row
  /\ requests \subseteq Players \X Players
  /\ logins \in 0..MaxLogins
  /\ asked \subseteq Players \X Players

(* The table has at most one row for two players, though its key allows one *)
(* in each direction and both players may accept a request of the other     *)
(* while lists come and go: so removing a friend leaves no row behind.      *)
OneRowPerFriendship ==
  \A r1, r2 \in rows :
    IsBetween(r1, r2.player, r2.friend) => r1 = r2 /\ r1.player # r1.friend

(* A list that was sent to its player has everyone who is a friend in the   *)
(* table, however logins, answers and removals of both sides interleave,    *)
(* and knows the best friends.                                              *)
ListsCoverTable ==
  \A p \in loaded : \A row \in RowsOf(p) :
    \E k \in DOMAIN m_Players[p].friends :
      LET fd == m_Players[p].friends[k] IN
      /\ fd.friendID = FriendOf(row, p)
      /\ fd.isBestFriend = (row.best = 3)

(* Best friends, "both_accepted", have each asked the other since they      *)
(* became friends.                                                          *)
BestFriendsByConsent ==
  \A row \in rows : row.best = 3 =>
    {<<row.player, row.friend>>, <<row.friend, row.player>>} \subseteq asked

(* Two players become friends only when one accepts the other's request.    *)
FriendsByConsent ==
  [][\A p, q \in Players :
       ((\E row \in rows' : IsBetween(row, p, q))
          /\ ~\E row \in rows : IsBetween(row, p, q))
         => \E pair \in requests \ requests' : {pair[1], pair[2]} = {p, q}]_vars
=============================================================================
