---------------------------- MODULE Teams_proofs ----------------------------
(***************************************************************************)
(* What is proved of Teams, for every number of players, worlds and teams:  *)
(* its types, the count of players, that the copies of the worlds follow    *)
(* the teams of the chat server, who leads a team and who is in two.        *)
(*                                                                         *)
(* A handler composes operations of PlayerContainer, each of which takes a  *)
(* chat state to a chat state.  What is invariant is said of a chat state   *)
(* in the middle of a handler (Stage), with what the handler has sent so    *)
(* far at the end of each queue.                                            *)
(***************************************************************************)
EXTENDS Teams, FiniteData

-----------------------------------------------------------------------------
(* The count of players.                                                    *)

(* As long as the shared entry was never written, the count is that of the  *)
(* arrivals less the departures of players who were known: it neither comes *)
(* to the end of its range nor below the players there are.                 *)
CountInv ==
  /\ online \subseteq Players
  /\ playerCount \in 0..(CountRange - 1)
  /\ moves \in 0..MaxMoves /\ strays \in Nat
  /\ stray \in Players \cup {LWOOBJID_EMPTY}
  /\ stray # LWOOBJID_EMPTY => strays > 0
  /\ strays = 0 => /\ playerCount >= Cardinality(online)
                   /\ playerCount <= Cardinality(Players) + moves

LEMMA CountNumbers ==
  /\ Cardinality(Players) \in Nat /\ MaxMoves \in Nat /\ CountRange \in Nat
  /\ Cardinality(Players) + MaxMoves < CountRange
BY TeamsAssumption, FS_CardinalityType

LEMMA InitCount == Init => CountInv
BY CountNumbers DEF Init, CountInv

(* A player who arrives is counted, whether or not it is new.               *)
LEMMA InsertCount ==
  ASSUME CountInv, NEW p \in Players, NEW zone, InsertPlayer(p, zone)
  PROVE  CountInv'
<1>1. IsFiniteSet(online)
      BY TeamsAssumption, FS_Subset DEF CountInv
<1>2. /\ Cardinality(online) \in Nat
      /\ Cardinality(online \cup {p}) <= Cardinality(online) + 1
      /\ Cardinality(online \cup {p}) \in Nat
  <2>1. Cardinality(online) \in Nat
        BY <1>1, FS_CardinalityType
  <2>2. CASE p \in online
    <3>1. online \cup {p} = online
          BY <2>2
    <3> QED BY <2>1, <3>1
  <2>3. CASE p \notin online
    <3>1. Cardinality(online \cup {p}) = Cardinality(online) + 1
          BY <1>1, <2>3, FS_AddElement
    <3> QED BY <2>1, <3>1
  <2> QED BY <2>2, <2>3
<1>3. /\ online' = online \cup {p} /\ playerCount' = CountUp /\ moves < MaxMoves
      /\ moves' = moves + 1 /\ stray' = stray /\ strays' = strays
      BY DEF InsertPlayer
<1>4. CASE strays = 0
  <2>1. playerCount' = playerCount + 1
        BY <1>3, <1>4, CountNumbers DEF CountInv, CountUp
  <2> QED BY <1>2, <1>3, <1>4, <2>1, CountNumbers DEF CountInv
<1>5. CASE strays # 0
  <2>1. playerCount' \in 0..(CountRange - 1)
        BY <1>3, CountNumbers DEF CountInv, CountUp
  <2> QED BY <1>3, <1>5, <2>1, CountNumbers DEF CountInv
<1> QED BY <1>4, <1>5

(* A count, once less, is in its range.                                     *)
LEMMA CountDownInRange ==
  ASSUME CountInv
  PROVE  CountDown \in 0..(CountRange - 1)
BY CountNumbers DEF CountInv, CountDown

(* Only a player who is known is counted out, while the shared entry has    *)
(* none.                                                                    *)
LEMMA RemoveCount ==
  ASSUME CountInv, NEW p \in Players, RemovePlayer(p)
  PROVE  CountInv'
<1>1. IsFiniteSet(online)
      BY TeamsAssumption, FS_Subset DEF CountInv
<1>2. /\ Known(p) /\ online' = online \ {p} /\ playerCount' = CountDown
      /\ moves < MaxMoves /\ moves' = moves + 1 /\ stray' = stray /\ strays' = strays
      BY DEF RemovePlayer
<1>3. CASE strays = 0
  <2>1. p \in online
        BY <1>2, <1>3 DEF CountInv, Known, GetPlayerData
  <2>2. /\ Cardinality(online) \in Nat
        /\ Cardinality(online \ {p}) = Cardinality(online) - 1
        BY <1>1, <2>1, FS_CardinalityType, FS_RemoveElement
  <2>3. Cardinality(online) # 0
        BY <1>1, <2>1, FS_EmptySet
  <2>4. playerCount' = playerCount - 1
        BY <1>2, <1>3, <2>2, <2>3 DEF CountInv, CountDown
  <2> QED BY <1>2, <1>3, <2>2, <2>3, <2>4, CountNumbers DEF CountInv
<1>4. CASE strays # 0
  <2>1. playerCount' \in 0..(CountRange - 1)
        BY <1>2, CountDownInRange
  <2> QED BY <1>2, <1>4, <2>1, CountNumbers DEF CountInv
<1> QED BY <1>3, <1>4

(* A departure of nobody is counted out, and takes the shared entry away.   *)
LEMMA NobodyCount ==
  ASSUME CountInv, RemoveNobody
  PROVE  CountInv'
<1>1. /\ strays # 0 /\ playerCount' = CountDown /\ stray' = LWOOBJID_EMPTY
      /\ UNCHANGED <<online, moves, strays>>
      BY DEF RemoveNobody, CountInv
<1>2. playerCount' \in 0..(CountRange - 1)
      BY <1>1, CountDownInRange
<1> QED BY <1>1, <1>2 DEF CountInv

(* A friend who is offline is written into the shared entry.                *)
LEMMA FriendCount ==
  ASSUME CountInv, NEW p \in Players, NEW q \in Players, HandleFriendRequest(p, q)
  PROVE  CountInv'
<1>1. /\ stray' = q /\ strays' = strays + 1
      /\ UNCHANGED <<online, playerCount, moves>>
      BY DEF HandleFriendRequest
<1> QED BY <1>1 DEF CountInv

LEMMA NextCount ==
  ASSUME CountInv, [Next]_vars
  PROVE  CountInv'
<1>1. ASSUME NEW p \in Players, NEW zone \in Zones, InsertPlayer(p, zone)
      PROVE  CountInv'
      BY <1>1, InsertCount
<1>2. ASSUME NEW p \in Players, RemovePlayer(p) PROVE CountInv'
      BY <1>2, RemoveCount
<1>3. ASSUME UNCHANGED players PROVE CountInv'
      BY <1>3 DEF players, CountInv
<1>4. ASSUME NEW members \in Parties, NEW zone \in PartyZones,
             CreateTeamServer(members, zone)
      PROVE  UNCHANGED players
      BY <1>4 DEF CreateTeamServer
<1>5. ASSUME NEW p \in Players, PlayerStep(p) PROVE CountInv'
  <2>1. ASSUME NEW q \in Players, HandleFriendRequest(p, q) PROVE CountInv'
        BY <2>1, FriendCount
  <2>2. UNCHANGED players \/ \E q \in Players : HandleFriendRequest(p, q)
        BY <1>5 DEF PlayerStep, HandleTeamInvite, HandleTeamInviteResponse,
                    HandleTeamLeave, HandleTeamKick, HandleTeamPromote,
                    HandleTeamLootOption, HandleTeamStatusRequest
  <2> QED BY <1>3, <2>1, <2>2
<1>6. ASSUME NEW w \in Worlds, HandleChatPacket(w) \/ WorldStarts(w)
      PROVE  UNCHANGED players
      BY <1>6 DEF HandleChatPacket, WorldStarts
<1>7. UNCHANGED vars => UNCHANGED players
      BY DEF vars
<1> QED BY <1>1, <1>2, <1>3, <1>4, <1>5, <1>6, <1>7, NobodyCount DEF Next

(* The count shown to game masters leaves nobody out, as long as no friend  *)
(* who was offline was asked to be a best friend.                           *)
THEOREM CountCorrect == Spec => []NobodyUncounted
<1>1. CountInv => NobodyUncounted
      BY DEF CountInv, NobodyUncounted
<1> QED BY <1>1, NextCount, InitCount, PTL DEF Spec

-----------------------------------------------------------------------------
(* What a world is sent, and what it makes of it.                           *)

(* The broadcasts about the first c teams.                                  *)
BroadcastTo(c) ==
  [teamID: 1..c, deleteTeam: BOOLEAN, lootFlag: Loot, memberIDs: Seq(Players)]

Copy == [members: Seq(Players), lootOption: Loot]

(* A world's copies and its queue name no team that was not made.           *)
WorldTypes(known, q, c) ==
  /\ PartialMap(known, 1..c, Copy)
  /\ q \in Seq(BroadcastTo(c))

(* Every team has a member, and each once.                                  *)
GoodTeams(ts, c) ==
  /\ c \in Nat
  /\ PartialMap(ts, 1..c, TeamData)
  /\ \A t \in DOMAIN ts : ts[t].memberIDs # <<>> /\ IsInjective(ts[t].memberIDs)

About(q, t) == {i \in DOMAIN q : q[i].teamID = t}

(* Message i is the last one about its team.                                *)
Latest(q, i) == \A j \in About(q, q[i].teamID) : j <= i

(* What a message says of its team is so, up to members the worlds were not *)
(* told of.                                                                 *)
Holds(m, ts) ==
  IF m.deleteTeam THEN m.teamID \notin DOMAIN ts
  ELSE /\ m.teamID \in DOMAIN ts
       /\ IsPrefix(m.memberIDs, ts[m.teamID].memberIDs)
       /\ m.lootFlag = ts[m.teamID].lootFlag

(* No world has been told of a team that it has more than one member.       *)
Alone(known, q, t) ==
  /\ t \notin DOMAIN known
  /\ \A i \in About(q, t) : Len(q[i].memberIDs) <= 1

(* The message says that its team is empty, and the world will not know the *)
(* team when it reads it.                                                   *)
EmptyUnknown(known, q, i) ==
  (~q[i].deleteTeam /\ q[i].memberIDs = <<>>) =>
     /\ q[i].teamID \notin DOMAIN known
     /\ \A j \in About(q, q[i].teamID) : j < i => Len(q[j].memberIDs) <= 1

(* A world that has read its queue q has the teams that it knows right, and *)
(* never knew an empty one.  A team of one has always been of one, but for  *)
(* the team x that is being disbanded.                                      *)
Follows(known, q, ts, x) ==
  /\ \A i \in DOMAIN q : Latest(q, i) => Holds(q[i], ts)
  /\ \A t \in DOMAIN known : About(q, t) = {} =>
       /\ t \in DOMAIN ts
       /\ IsPrefix(known[t].members, ts[t].memberIDs)
       /\ known[t].lootOption = ts[t].lootFlag
  /\ \A t \in DOMAIN known : known[t].members # <<>>
  /\ \A i \in DOMAIN q : EmptyUnknown(known, q, i)
  /\ \A t \in DOMAIN ts \ {x} : Len(ts[t].memberIDs) <= 1 => Alone(known, q, t)

LEMMA QueueTypes ==
  ASSUME NEW c \in Nat, NEW q \in Seq(BroadcastTo(c))
  PROVE  /\ Len(q) \in Nat /\ DOMAIN q = 1..Len(q)
         /\ \A i \in DOMAIN q :
              /\ q[i] \in BroadcastTo(c) /\ q[i].teamID \in 1..c
              /\ q[i].memberIDs \in Seq(Players) /\ Len(q[i].memberIDs) \in Nat
<1>1. Len(q) \in Nat /\ DOMAIN q = 1..Len(q)
  BY LenProperties
<1>2. ASSUME NEW i \in DOMAIN q
      PROVE  /\ q[i] \in BroadcastTo(c) /\ q[i].teamID \in 1..c
             /\ q[i].memberIDs \in Seq(Players) /\ Len(q[i].memberIDs) \in Nat
  <2>1. q[i] \in BroadcastTo(c)
    BY <1>1, <1>2, ElementOfSeq
  <2>2. q[i].teamID \in 1..c /\ q[i].memberIDs \in Seq(Players)
    BY <2>1 DEF BroadcastTo
  <2> QED
    BY <2>1, <2>2, LenProperties
<1> QED
  BY <1>1, <1>2

(* Queue r has one more message than q, at place n and about team t.        *)
OneMore(q, r, n, t) ==
  /\ n = Len(q) + 1 /\ Len(r) = n
  /\ \A i \in 1..Len(q) : r[i] = q[i]
  /\ r[n].teamID = t

LEMMA AboutOneMore ==
  ASSUME NEW c \in Nat, NEW q \in Seq(BroadcastTo(c)), NEW r \in Seq(BroadcastTo(c)),
         NEW n, NEW t, OneMore(q, r, n, t)
  PROVE  /\ n \in Nat /\ n \notin DOMAIN q
         /\ \A i : i \in DOMAIN r <=> i \in DOMAIN q \/ i = n
         /\ \A i \in DOMAIN q : r[i] = q[i] /\ i \in Nat /\ i < n
         /\ About(r, t) = About(q, t) \cup {n}
         /\ \A u : u # t => About(r, u) = About(q, u)
         /\ \A u : About(q, u) \subseteq DOMAIN q
         /\ \A i \in DOMAIN q : Latest(r, i) => q[i].teamID # t /\ Latest(q, i)
         /\ \A i \in DOMAIN q : i \in About(q, q[i].teamID)
<1>1. /\ Len(q) \in Nat /\ DOMAIN q = 1..Len(q)
      /\ n = Len(q) + 1 /\ DOMAIN r = 1..n
      /\ \A i \in 1..Len(q) : r[i] = q[i]
      /\ r[n].teamID = t
  BY LenProperties DEF OneMore
<1>2. /\ DOMAIN r = DOMAIN q \cup {n} /\ n \notin DOMAIN q /\ n \in Nat
      /\ \A i \in DOMAIN q : r[i] = q[i] /\ i \in Nat /\ i < n
  BY <1>1
<1>3. About(r, t) = About(q, t) \cup {n}
  BY <1>1, <1>2 DEF About
<1>4. \A u : u # t => About(r, u) = About(q, u)
  BY <1>1, <1>2 DEF About
<1>5. ASSUME NEW i \in DOMAIN q, Latest(r, i)
      PROVE  q[i].teamID # t /\ Latest(q, i)
  <2>1. \A j \in About(r, q[i].teamID) : j <= i
    BY <1>2, <1>5 DEF Latest
  <2>2. n \notin About(r, q[i].teamID)
    BY <1>2, <2>1
  <2>3. q[i].teamID # t
    BY <1>3, <2>2
  <2> QED
    BY <1>4, <2>1, <2>3 DEF Latest
<1>6. (\A u : About(q, u) \subseteq DOMAIN q) /\ \A i \in DOMAIN q : i \in About(q, q[i].teamID)
  BY DEF About
<1> QED
  BY <1>1, <1>2, <1>3, <1>4, <1>5, <1>6

(* Two maps of teams differ in team t at most.                              *)
SameBut(ts, ts2, t) ==
  \A u : u # t => /\ u \in DOMAIN ts2 <=> u \in DOMAIN ts
                  /\ u \in DOMAIN ts => ts2[u] = ts[u]

(* The worlds are told of a team as it has become.                          *)
LEMMA FollowsTold ==
  ASSUME NEW c \in Nat, NEW known, NEW q, WorldTypes(known, q, c),
         NEW ts, Follows(known, q, ts, 0),
         NEW t \in 1..c, NEW ts2, SameBut(ts, ts2, t), t \in DOMAIN ts2,
         ts2[t].memberIDs \in Seq(Players),
         NEW m \in BroadcastTo(c), m.teamID = t, m.deleteTeam = FALSE,
         m.memberIDs = ts2[t].memberIDs, m.lootFlag = ts2[t].lootFlag,
         NEW x, x \in {0, t},
         m.memberIDs = <<>> => Alone(known, q, t),
         x # t /\ Len(m.memberIDs) <= 1 => Alone(known, q, t)
  PROVE  Follows(known, Append(q, m), ts2, x) /\ WorldTypes(known, Append(q, m), c)
<1> DEFINE n == Len(q) + 1
           r == Append(q, m)
<1>0. /\ q \in Seq(BroadcastTo(c)) /\ r \in Seq(BroadcastTo(c))
      /\ r[n] = m /\ OneMore(q, r, n, t)
  <2>1. q \in Seq(BroadcastTo(c))
    BY DEF WorldTypes
  <2> QED
    BY <2>1, AppendProperties, LenProperties DEF OneMore
<1> HIDE DEF n, r
<1>1. /\ n \in Nat /\ n \notin DOMAIN q
      /\ \A i : i \in DOMAIN r <=> i \in DOMAIN q \/ i = n
      /\ \A i \in DOMAIN q : r[i] = q[i] /\ i \in Nat /\ i < n
      /\ About(r, t) = About(q, t) \cup {n}
      /\ \A u : u # t => About(r, u) = About(q, u)
      /\ \A u : About(q, u) \subseteq DOMAIN q
      /\ \A i \in DOMAIN q : Latest(r, i) => q[i].teamID # t /\ Latest(q, i)
      /\ \A i \in DOMAIN q : i \in About(q, q[i].teamID)
  BY <1>0, AboutOneMore
<1>2. ASSUME NEW i \in DOMAIN r, Latest(r, i) PROVE Holds(r[i], ts2)
  <2>1. CASE i = n
    <3>1. IsPrefix(m.memberIDs, m.memberIDs)
      BY PrefixOrder
    <3> QED
      BY <1>0, <2>1, <3>1 DEF Holds
  <2>2. CASE i \in DOMAIN q
    <3>1. q[i].teamID # t /\ Holds(q[i], ts) /\ r[i] = q[i]
      BY <1>1, <1>2, <2>2 DEF Follows
    <3> QED
      BY <3>1 DEF Holds, SameBut
  <2> QED
    BY <1>1, <2>1, <2>2
<1>3. ASSUME NEW u \in DOMAIN known, About(r, u) = {}
      PROVE  /\ u \in DOMAIN ts2
             /\ IsPrefix(known[u].members, ts2[u].memberIDs)
             /\ known[u].lootOption = ts2[u].lootFlag
  <2>1. u # t /\ About(q, u) = {}
    BY <1>1, <1>3
  <2> QED
    BY <2>1 DEF Follows, SameBut
<1>4. \A u \in DOMAIN known : known[u].members # <<>>
  BY DEF Follows
<1>5. ASSUME NEW i \in DOMAIN r PROVE EmptyUnknown(known, r, i)
  <2>1. CASE i = n
    <3>1. \A j \in About(r, t) : j < n => j \in About(q, t) /\ r[j] = q[j]
      BY <1>1
    <3> QED
      BY <1>0, <2>1, <3>1 DEF EmptyUnknown, Alone
  <2>2. CASE i \in DOMAIN q
    <3>1. EmptyUnknown(known, q, i) /\ r[i] = q[i]
      BY <1>1, <2>2 DEF Follows
    <3>2. \A j \in About(r, q[i].teamID) : j < i => j \in About(q, q[i].teamID) /\ r[j] = q[j]
      BY <1>1, <2>2
    <3> QED
      BY <3>1, <3>2 DEF EmptyUnknown
  <2> QED
    BY <1>1, <2>1, <2>2
<1>6. ASSUME NEW u \in DOMAIN ts2 \ {x}, Len(ts2[u].memberIDs) <= 1
      PROVE  Alone(known, r, u)
  <2>1. CASE u = t
    BY <1>0, <1>1, <1>6, <2>1 DEF Alone
  <2>2. CASE u # t
    <3>2. u \in DOMAIN ts /\ ts2[u] = ts[u]
      BY <2>2 DEF SameBut
    <3>3. CASE u # 0
      <4>1. Alone(known, q, u)
        BY <1>6, <3>2, <3>3 DEF Follows
      <4> QED
        BY <1>1, <2>2, <4>1 DEF Alone
    <3>4. CASE u = 0
      <4>1. u \notin DOMAIN known /\ About(r, u) = {}
        <5>1. \A i \in DOMAIN q : q[i].teamID \in 1..c
          BY QueueTypes DEF WorldTypes
        <5> QED
          BY <1>1, <3>4, <5>1, <2>2 DEF WorldTypes, PartialMap, About
      <4> QED
        BY <4>1 DEF Alone
    <3> QED
      BY <3>3, <3>4
  <2> QED
    BY <2>1, <2>2
<1>7. Follows(known, r, ts2, x)
  BY <1>2, <1>3, <1>4, <1>5, <1>6 DEF Follows
<1>8. WorldTypes(known, r, c)
  BY <1>0 DEF WorldTypes
<1> QED
  BY <1>7, <1>8 DEF r

(* The worlds are told that a team is gone.                                 *)
LEMMA FollowsDisband ==
  ASSUME NEW c \in Nat, NEW known, NEW q, WorldTypes(known, q, c),
         NEW t \in 1..c, NEW ts, Follows(known, q, ts, t),
         NEW ts2, SameBut(ts, ts2, t), t \notin DOMAIN ts2,
         NEW m \in BroadcastTo(c), m.teamID = t, m.deleteTeam = TRUE
  PROVE  Follows(known, Append(q, m), ts2, 0) /\ WorldTypes(known, Append(q, m), c)
<1> DEFINE n == Len(q) + 1
           r == Append(q, m)
<1>0. /\ q \in Seq(BroadcastTo(c)) /\ r \in Seq(BroadcastTo(c))
      /\ r[n] = m /\ OneMore(q, r, n, t)
  <2>1. q \in Seq(BroadcastTo(c))
    BY DEF WorldTypes
  <2> QED
    BY <2>1, AppendProperties, LenProperties DEF OneMore
<1> HIDE DEF n, r
<1>1. /\ n \in Nat /\ n \notin DOMAIN q
      /\ \A i : i \in DOMAIN r <=> i \in DOMAIN q \/ i = n
      /\ \A i \in DOMAIN q : r[i] = q[i] /\ i \in Nat /\ i < n
      /\ About(r, t) = About(q, t) \cup {n}
      /\ \A u : u # t => About(r, u) = About(q, u)
      /\ \A u : About(q, u) \subseteq DOMAIN q
      /\ \A i \in DOMAIN q : Latest(r, i) => q[i].teamID # t /\ Latest(q, i)
      /\ \A i \in DOMAIN q : i \in About(q, q[i].teamID)
  BY <1>0, AboutOneMore
<1>2. ASSUME NEW i \in DOMAIN r, Latest(r, i) PROVE Holds(r[i], ts2)
  <2>1. CASE i = n
    BY <1>0, <2>1 DEF Holds
  <2>2. CASE i \in DOMAIN q
    <3>1. q[i].teamID # t /\ Holds(q[i], ts) /\ r[i] = q[i]
      BY <1>1, <1>2, <2>2 DEF Follows
    <3> QED
      BY <3>1 DEF Holds, SameBut
  <2> QED
    BY <1>1, <2>1, <2>2
<1>3. ASSUME NEW u \in DOMAIN known, About(r, u) = {}
      PROVE  /\ u \in DOMAIN ts2
             /\ IsPrefix(known[u].members, ts2[u].memberIDs)
             /\ known[u].lootOption = ts2[u].lootFlag
  <2>1. u # t /\ About(q, u) = {}
    BY <1>1, <1>3
  <2> QED
    BY <2>1 DEF Follows, SameBut
<1>4. \A u \in DOMAIN known : known[u].members # <<>>
  BY DEF Follows
<1>5. ASSUME NEW i \in DOMAIN r PROVE EmptyUnknown(known, r, i)
  <2>1. CASE i = n
    BY <1>0, <2>1 DEF EmptyUnknown
  <2>2. CASE i \in DOMAIN q
    <3>1. EmptyUnknown(known, q, i) /\ r[i] = q[i]
      BY <1>1, <2>2 DEF Follows
    <3>2. \A j \in About(r, q[i].teamID) : j < i => j \in About(q, q[i].teamID) /\ r[j] = q[j]
      BY <1>1, <2>2
    <3> QED
      BY <3>1, <3>2 DEF EmptyUnknown
  <2> QED
    BY <1>1, <2>1, <2>2
<1>6. ASSUME NEW u \in DOMAIN ts2 \ {0}, Len(ts2[u].memberIDs) <= 1
      PROVE  Alone(known, r, u)
  <2>1. u # t /\ u \in DOMAIN ts /\ ts2[u] = ts[u]
    BY DEF SameBut
  <2>2. Alone(known, q, u)
    BY <1>6, <2>1 DEF Follows
  <2> QED
    BY <1>1, <2>1, <2>2 DEF Alone
<1>7. Follows(known, r, ts2, 0)
  BY <1>2, <1>3, <1>4, <1>5, <1>6 DEF Follows
<1>8. WorldTypes(known, r, c)
  BY <1>0 DEF WorldTypes
<1> QED
  BY <1>7, <1>8 DEF r

(* The worlds are not told of a team that has grown, or of a new one.       *)
LEMMA FollowsQuietly ==
  ASSUME NEW known, NEW q, NEW ts, Follows(known, q, ts, 0),
         NEW t, NEW ts2, SameBut(ts, ts2, t), t \in DOMAIN ts, t \in DOMAIN ts2,
         ts[t].memberIDs \in Seq(Players), ts2[t].memberIDs \in Seq(Players),
         \A i \in DOMAIN q : q[i].memberIDs \in Seq(Players),
         \A u \in DOMAIN known : known[u].members \in Seq(Players),
         IsPrefix(ts[t].memberIDs, ts2[t].memberIDs),
         ts2[t].lootFlag = ts[t].lootFlag
  PROVE  Follows(known, q, ts2, 0)
<1>1. \A u \in DOMAIN ts : u \in DOMAIN ts2 /\ ts2[u].lootFlag = ts[u].lootFlag
  BY DEF SameBut
<1>2. ASSUME NEW u \in DOMAIN ts, NEW s \in Seq(Players), IsPrefix(s, ts[u].memberIDs)
      PROVE  IsPrefix(s, ts2[u].memberIDs)
  <2>1. CASE u = t
    BY <1>2, <2>1, PrefixOrder
  <2>2. CASE u # t
    BY <1>2, <2>2 DEF SameBut
  <2> QED
    BY <2>1, <2>2
<1>3. ASSUME NEW i \in DOMAIN q, Latest(q, i) PROVE Holds(q[i], ts2)
  <2>1. Holds(q[i], ts)
    BY <1>3 DEF Follows
  <2>2. \A u : u \in DOMAIN ts2 <=> u \in DOMAIN ts
    BY DEF SameBut
  <2> QED
    BY <1>1, <1>2, <2>1, <2>2 DEF Holds
<1>4. ASSUME NEW u \in DOMAIN known, About(q, u) = {}
      PROVE  /\ u \in DOMAIN ts2
             /\ IsPrefix(known[u].members, ts2[u].memberIDs)
             /\ known[u].lootOption = ts2[u].lootFlag
  <2>1. /\ u \in DOMAIN ts
        /\ IsPrefix(known[u].members, ts[u].memberIDs)
        /\ known[u].lootOption = ts[u].lootFlag
    BY <1>4 DEF Follows
  <2> QED
    BY <1>1, <1>2, <2>1
<1>5. ASSUME NEW u \in DOMAIN ts2 \ {0}, Len(ts2[u].memberIDs) <= 1
      PROVE  Alone(known, q, u)
  <2>1. u \in DOMAIN ts
    BY DEF SameBut
  <2>2. Len(ts[u].memberIDs) <= 1
    <3>1. CASE u = t
      <4>1. Len(ts[t].memberIDs) \in Nat /\ Len(ts2[t].memberIDs) \in Nat
        BY LenProperties
      <4>2. Len(ts[t].memberIDs) <= Len(ts2[t].memberIDs)
        BY DEF IsPrefix
      <4> QED
        BY <1>5, <3>1, <4>1, <4>2
    <3>2. CASE u # t
      BY <1>5, <2>1, <3>2 DEF SameBut
    <3> QED
      BY <3>1, <3>2
  <2> QED
    BY <2>1, <2>2 DEF Follows
<1> QED
  BY <1>3, <1>4, <1>5 DEF Follows

(* Nothing has been said of a team that is not made yet.                    *)
LEMMA NewIsAlone ==
  ASSUME NEW c \in Nat, NEW known, NEW q, WorldTypes(known, q, c)
  PROVE  /\ About(q, c + 1) = {} /\ c + 1 \notin DOMAIN known
         /\ Alone(known, q, c + 1)
         /\ WorldTypes(known, q, c + 1)
<1>1. \A i \in DOMAIN q : q[i].teamID \in 1..c
  BY QueueTypes DEF WorldTypes
<1>2. About(q, c + 1) = {}
  BY <1>1 DEF About
<1>3. c + 1 \notin DOMAIN known
  BY DEF WorldTypes, PartialMap
<1>4. Alone(known, q, c + 1)
  BY <1>2, <1>3 DEF Alone
<1>5. BroadcastTo(c) \subseteq BroadcastTo(c + 1)
  <2>1. 1..c \subseteq 1..(c + 1)
    OBVIOUS
  <2> QED
    BY <2>1 DEF BroadcastTo
<1>6. q \in Seq(BroadcastTo(c + 1))
  <2>1. q \in Seq(BroadcastTo(c))
    BY DEF WorldTypes
  <2>2. \A S, T : S \subseteq T => \A s \in Seq(S) : s \in Seq(T)
    OBVIOUS
  <2> QED
    BY <1>5, <2>1, <2>2
<1>7. WorldTypes(known, q, c + 1)
  BY <1>6 DEF WorldTypes, PartialMap
<1> QED
  BY <1>2, <1>3, <1>4, <1>7

LEMMA FollowsNew ==
  ASSUME NEW known, NEW q, NEW ts, Follows(known, q, ts, 0),
         NEW t, About(q, t) = {}, t \notin DOMAIN known,
         NEW ts2, SameBut(ts, ts2, t), t \in DOMAIN ts2
  PROVE  Follows(known, q, ts2, 0)
<1>1. ASSUME NEW i \in DOMAIN q, Latest(q, i) PROVE Holds(q[i], ts2)
  <2>1. Holds(q[i], ts) /\ q[i].teamID # t
    BY <1>1 DEF Follows, About
  <2> QED
    BY <2>1 DEF Holds, SameBut
<1>2. \A u \in DOMAIN known : About(q, u) = {} =>
        /\ u \in DOMAIN ts2
        /\ IsPrefix(known[u].members, ts2[u].memberIDs)
        /\ known[u].lootOption = ts2[u].lootFlag
  BY DEF Follows, SameBut
<1>3. ASSUME NEW u \in DOMAIN ts2 \ {0}, Len(ts2[u].memberIDs) <= 1
      PROVE  Alone(known, q, u)
  <2>1. CASE u = t
    BY <2>1 DEF Alone
  <2>2. CASE u # t
    <3>1. u \in DOMAIN ts /\ ts2[u] = ts[u]
      BY <2>2 DEF SameBut
    <3> QED
      BY <1>3, <3>1 DEF Follows
  <2> QED
    BY <2>1, <2>2
<1> QED
  BY <1>1, <1>2, <1>3 DEF Follows

(* A world reads a message.                                                 *)
Reads(known, m) == IF m.deleteTeam THEN DeleteTeam(known, m) ELSE UpdateTeam(known, m)

LEMMA ReadFacts ==
  ASSUME NEW known, NEW m
  PROVE  LET next == Reads(known, m)
             t    == m.teamID
         IN  /\ \A u : u # t => /\ u \in DOMAIN next <=> u \in DOMAIN known
                                /\ u \in DOMAIN known => next[u] = known[u]
             /\ t \in DOMAIN next =>
                  /\ ~m.deleteTeam
                  /\ next[t] = [members |-> m.memberIDs, lootOption |-> m.lootFlag]
                  /\ t \in DOMAIN known \/ ~(Len(m.memberIDs) <= 1)
<1> DEFINE t == m.teamID
           made == WithTeam(known, t, [members |-> m.memberIDs, lootOption |-> m.lootFlag])
<1>1. CASE m.deleteTeam
  BY <1>1 DEF Reads, DeleteTeam, Restrict
<1>2. CASE ~m.deleteTeam
  <2>1. /\ DOMAIN made = {t} \cup DOMAIN known
        /\ made[t] = [members |-> m.memberIDs, lootOption |-> m.lootFlag]
        /\ \A u \in DOMAIN known : u # t => made[u] = known[u]
    BY DEF WithTeam
  <2>2. Reads(known, m) = IF t \notin DOMAIN known /\ Len(m.memberIDs) <= 1 THEN known ELSE made
    BY <1>2 DEF Reads, UpdateTeam
  <2> HIDE DEF made
  <2> QED
    BY <1>2, <2>1, <2>2
<1> QED
  BY <1>1, <1>2

(* Places in what is left of a queue.                                       *)
LEMMA AboutTail ==
  ASSUME NEW c \in Nat, NEW q \in Seq(BroadcastTo(c)), q # <<>>
  PROVE  LET r == Tail(q)
         IN  /\ r \in Seq(BroadcastTo(c)) /\ 1 \in DOMAIN q /\ q[1] = Head(q)
             /\ \A i \in DOMAIN r : i \in Nat /\ i + 1 \in DOMAIN q /\ r[i] = q[i + 1] /\ 1 < i + 1
             /\ \A j \in DOMAIN q : j # 1 => j - 1 \in DOMAIN r /\ j \in Nat
<1> DEFINE r == Tail(q)
<1>1. /\ Head(q) = q[1] /\ r \in Seq(BroadcastTo(c)) /\ Len(r) = Len(q) - 1
      /\ \A i \in 1..Len(r) : r[i] = q[i + 1]
  BY HeadTailProperties
<1>2. Len(q) \in Nat /\ Len(q) # 0 /\ DOMAIN q = 1..Len(q)
  BY LenProperties, EmptySeq
<1>3. DOMAIN r = 1..(Len(q) - 1)
  BY <1>1, LenProperties
<1> HIDE DEF r
<1> QED
  BY <1>1, <1>2, <1>3 DEF r

(* A world that reads a message still follows.                              *)
LEMMA FollowsRead ==
  ASSUME NEW c \in Nat, NEW known, NEW q, WorldTypes(known, q, c), q # <<>>,
         NEW ts, Follows(known, q, ts, 0)
  PROVE  /\ Follows(Reads(known, Head(q)), Tail(q), ts, 0)
         /\ WorldTypes(Reads(known, Head(q)), Tail(q), c)
<1> DEFINE r == Tail(q)
           m == Head(q)
           next == Reads(known, m)
           t == m.teamID
<1>0. q \in Seq(BroadcastTo(c))
  BY DEF WorldTypes
<1>1. /\ r \in Seq(BroadcastTo(c)) /\ 1 \in DOMAIN q /\ q[1] = m
      /\ \A i \in DOMAIN r : i \in Nat /\ i + 1 \in DOMAIN q /\ r[i] = q[i + 1] /\ 1 < i + 1
      /\ \A j \in DOMAIN q : j # 1 => j - 1 \in DOMAIN r /\ j \in Nat
  BY <1>0, AboutTail
<1>2. /\ \A u : u # t => /\ u \in DOMAIN next <=> u \in DOMAIN known
                         /\ u \in DOMAIN known => next[u] = known[u]
      /\ t \in DOMAIN next =>
           /\ ~m.deleteTeam
           /\ next[t] = [members |-> m.memberIDs, lootOption |-> m.lootFlag]
           /\ t \in DOMAIN known \/ ~(Len(m.memberIDs) <= 1)
  BY ReadFacts
<1>3. m \in BroadcastTo(c)
  BY <1>0, <1>1, QueueTypes
<1> HIDE DEF r, m, next
<1>4. ASSUME NEW u, NEW j \in About(r, u)
      PROVE  j + 1 \in About(q, u) /\ r[j] = q[j + 1] /\ j \in Nat
  BY <1>1, <1>4 DEF About
<1>5. ASSUME NEW u, NEW j \in About(q, u), j # 1
      PROVE  j - 1 \in About(r, u) /\ j \in Nat
  <2>1. j \in DOMAIN q /\ q[j].teamID = u
    BY <1>5 DEF About
  <2>2. j - 1 \in DOMAIN r /\ j \in Nat /\ (j - 1) + 1 = j
    BY <1>1, <1>5, <2>1
  <2>3. r[j - 1] = q[j]
    BY <1>1, <2>2
  <2> QED
    BY <2>1, <2>2, <2>3 DEF About
<1>6. ASSUME NEW i \in DOMAIN r, Latest(r, i) PROVE Holds(r[i], ts)
  <2> DEFINE k == i + 1
  <2>1. k \in DOMAIN q /\ r[i] = q[k] /\ i \in Nat /\ 1 < k
    BY <1>1
  <2>2. \A j \in About(q, q[k].teamID) : j <= k
    <3> TAKE j \in About(q, q[k].teamID)
    <3>1. CASE j = 1
      BY <2>1, <3>1
    <3>2. CASE j # 1
      <4>1. j - 1 \in About(r, r[i].teamID) /\ j \in Nat
        BY <1>5, <2>1, <3>2
      <4>2. j - 1 <= i
        BY <1>6, <4>1 DEF Latest
      <4> QED
        BY <2>1, <4>1, <4>2
    <3> QED
      BY <3>1, <3>2
  <2> HIDE DEF k
  <2>3. Holds(q[k], ts)
    BY <2>1, <2>2 DEF Follows, Latest
  <2> QED
    BY <2>1, <2>3
<1>7. ASSUME NEW u \in DOMAIN next, About(r, u) = {}
      PROVE  /\ u \in DOMAIN ts
             /\ IsPrefix(next[u].members, ts[u].memberIDs)
             /\ next[u].lootOption = ts[u].lootFlag
  <2>1. CASE u = t
    <3>1. Latest(q, 1)
      <4>1. \A j \in About(q, t) : j = 1
        BY <1>5, <1>7, <2>1
      <4> QED
        BY <1>1, <4>1 DEF Latest
    <3>2. Holds(m, ts)
      BY <1>1, <3>1 DEF Follows
    <3> QED
      BY <1>2, <1>7, <2>1, <3>2 DEF Holds
  <2>2. CASE u # t
    <3>1. About(q, u) = {}
      <4>1. 1 \notin About(q, u)
        BY <1>1, <2>2 DEF About
      <4> QED
        BY <1>5, <1>7, <4>1
    <3>2. u \in DOMAIN known /\ next[u] = known[u]
      BY <1>2, <1>7, <2>2
    <3> QED
      BY <3>1, <3>2 DEF Follows
  <2> QED
    BY <2>1, <2>2
<1>8. ASSUME NEW u \in DOMAIN next PROVE next[u].members # <<>>
  <2>1. CASE u = t
    <3>1. EmptyUnknown(known, q, 1)
      BY <1>1 DEF Follows
    <3>2. Len(<<>>) <= 1
      OBVIOUS
    <3> QED
      BY <1>1, <1>2, <1>8, <2>1, <3>1, <3>2 DEF EmptyUnknown
  <2>2. CASE u # t
    BY <1>2, <1>8, <2>2 DEF Follows
  <2> QED
    BY <2>1, <2>2
<1>9. ASSUME NEW u, u \notin DOMAIN known, 1 \in About(q, u) => Len(q[1].memberIDs) <= 1
      PROVE  u \notin DOMAIN next
  <2>1. 1 \in About(q, t)
    BY <1>1 DEF About
  <2> QED
    BY <1>1, <1>2, <1>9, <2>1
<1>10. ASSUME NEW i \in DOMAIN r PROVE EmptyUnknown(next, r, i)
  <2> DEFINE k == i + 1
             u == r[i].teamID
  <2>1. k \in DOMAIN q /\ r[i] = q[k] /\ i \in Nat /\ 1 < k
    BY <1>1
  <2> HIDE DEF k
  <2>2. SUFFICES ASSUME ~r[i].deleteTeam, r[i].memberIDs = <<>>
                 PROVE  /\ u \notin DOMAIN next
                        /\ \A j \in About(r, u) : j < i => Len(r[j].memberIDs) <= 1
    BY DEF EmptyUnknown
  <2>3. /\ u \notin DOMAIN known
        /\ \A j \in About(q, u) : j < k => Len(q[j].memberIDs) <= 1
    BY <2>1, <2>2 DEF Follows, EmptyUnknown
  <2>4. u \notin DOMAIN next
    BY <1>9, <2>1, <2>3
  <2>5. ASSUME NEW j \in About(r, u), j < i PROVE Len(r[j].memberIDs) <= 1
    <3>1. j + 1 \in About(q, u) /\ r[j] = q[j + 1] /\ j \in Nat
      BY <1>4
    <3>2. j + 1 < k
      BY <2>1, <2>5, <3>1 DEF k
    <3> QED
      BY <2>3, <3>1, <3>2
  <2> QED
    BY <2>4, <2>5
<1>11. ASSUME NEW u \in DOMAIN ts \ {0}, Len(ts[u].memberIDs) <= 1
       PROVE  Alone(next, r, u)
  <2>1. Alone(known, q, u)
    BY <1>11 DEF Follows
  <2>2. u \notin DOMAIN next
    BY <1>9, <2>1 DEF Alone
  <2>3. \A j \in About(r, u) : Len(r[j].memberIDs) <= 1
    BY <1>4, <2>1 DEF Alone
  <2> QED
    BY <2>2, <2>3 DEF Alone
<1>12. Follows(next, r, ts, 0)
  BY <1>6, <1>7, <1>8, <1>10, <1>11 DEF Follows
<1>13. PartialMap(next, 1..c, Copy)
  <2>1. \A u \in DOMAIN known : u \in 1..c /\ known[u] \in Copy
    BY DEF WorldTypes, PartialMap
  <2>2. t \in 1..c /\ [members |-> m.memberIDs, lootOption |-> m.lootFlag] \in Copy
    BY <1>3 DEF BroadcastTo, Copy
  <2>3. \A u \in DOMAIN next : u \in 1..c /\ next[u] \in Copy
    BY <1>2, <2>1, <2>2
  <2> QED
    BY <2>3 DEF PartialMap
<1>14. WorldTypes(next, r, c)
  BY <1>1, <1>13 DEF WorldTypes
<1> QED
  BY <1>12, <1>14 DEF r, m, next

-----------------------------------------------------------------------------
(* The chat state in the middle of a handler.                               *)

State(s) == s = [teams |-> s.teams, counter |-> s.counter, sent |-> s.sent]

(* What world w will have been sent.                                        *)
Awaited(s, w) == queue[w] \o s.sent

(* What is sent is about teams that were made.                              *)
Lined(s) ==
  /\ s.counter \in Nat
  /\ s.sent \in Seq(BroadcastTo(s.counter))
  /\ \A w \in Worlds :
       /\ queue[w] \in Seq(BroadcastTo(s.counter))
       /\ WorldTypes(copies[w], Awaited(s, w), s.counter)

(* The teams are well formed and every world, when it has read what is sent *)
(* so far, knows them.                                                      *)
Stage(s) ==
  /\ State(s)
  /\ GoodTeams(s.teams, s.counter)
  /\ Lined(s)
  /\ \A w \in Worlds : Follows(copies[w], Awaited(s, w), s.teams, 0)

(* The broadcast of UpdateTeamsOnWorld.                                     *)
Told(ts, t, deleteTeam) ==
  [teamID |-> t, deleteTeam |-> deleteTeam,
   lootFlag |-> IF deleteTeam THEN 0 ELSE ts[t].lootFlag,
   memberIDs |-> IF deleteTeam THEN <<>> ELSE ts[t].memberIDs]

LEMMA UpdateFields ==
  ASSUME NEW s, State(s), NEW t, NEW deleteTeam
  PROVE  UpdateTeamsOnWorld(s, t, deleteTeam)
           = [teams |-> s.teams, counter |-> s.counter,
              sent |-> Append(s.sent, Told(s.teams, t, deleteTeam))]
BY SMTT(20) DEF State, UpdateTeamsOnWorld, Told

LEMMA TeamTypes ==
  ASSUME NEW c, NEW ts, GoodTeams(ts, c), NEW t \in DOMAIN ts
  PROVE  /\ c \in Nat /\ t \in 1..c /\ ts[t] \in TeamData
         /\ ts[t].memberIDs \in Seq(Players) /\ ts[t].memberIDs # <<>>
         /\ Len(ts[t].memberIDs) \in Nat /\ Len(ts[t].memberIDs) # 0
         /\ IsInjective(ts[t].memberIDs)
         /\ ts[t].lootFlag \in Loot /\ ts[t].leaderID \in Players
<1>1. c \in Nat /\ t \in 1..c /\ ts[t] \in TeamData
  BY DEF GoodTeams, PartialMap
<1>2. ts[t].memberIDs \in Seq(Players) /\ ts[t].lootFlag \in Loot /\ ts[t].leaderID \in Players
  BY <1>1 DEF TeamData
<1>3. ts[t].memberIDs # <<>> /\ IsInjective(ts[t].memberIDs)
  BY DEF GoodTeams
<1> QED
  BY <1>1, <1>2, <1>3, LenProperties, EmptySeq

(* More teams may have been made.                                           *)
LEMMA TypesGrow ==
  ASSUME NEW c \in Nat, NEW c2 \in Nat, c <= c2
  PROVE  /\ \A q \in Seq(BroadcastTo(c)) : q \in Seq(BroadcastTo(c2))
         /\ \A known, q : WorldTypes(known, q, c) => WorldTypes(known, q, c2)
<1>1. 1..c \subseteq 1..c2
  OBVIOUS
<1>2. BroadcastTo(c) \subseteq BroadcastTo(c2)
  BY <1>1 DEF BroadcastTo
<1>3. \A q \in Seq(BroadcastTo(c)) : q \in Seq(BroadcastTo(c2))
  <2>1. \A S, T : S \subseteq T => \A s \in Seq(S) : s \in Seq(T)
    OBVIOUS
  <2> QED
    BY <1>2, <2>1
<1> QED
  BY <1>1, <1>3 DEF WorldTypes, PartialMap

(* One more broadcast is at the end of every queue.                         *)
LEMMA AwaitedMore ==
  ASSUME NEW s, Lined(s), NEW c \in Nat, s.counter <= c, NEW m \in BroadcastTo(c)
  PROVE  /\ Append(s.sent, m) \in Seq(BroadcastTo(c))
         /\ \A w \in Worlds :
              /\ queue[w] \in Seq(BroadcastTo(c))
              /\ WorldTypes(copies[w], Awaited(s, w), c)
              /\ queue[w] \o Append(s.sent, m) = Append(Awaited(s, w), m)
<1>1. s.counter \in Nat
  BY DEF Lined
<1>2. s.sent \in Seq(BroadcastTo(c))
  BY <1>1, TypesGrow DEF Lined
<1>3. \A w \in Worlds : queue[w] \in Seq(BroadcastTo(c)) /\ WorldTypes(copies[w], Awaited(s, w), c)
  BY <1>1, TypesGrow DEF Lined
<1>4. Append(s.sent, m) \in Seq(BroadcastTo(c))
  BY <1>2, AppendProperties
<1>5. ASSUME NEW w \in Worlds PROVE queue[w] \o Append(s.sent, m) = Append(Awaited(s, w), m)
  <2> DEFINE q == queue[w]
             t == s.sent
  <2>1. q \in Seq(BroadcastTo(c)) /\ t \in Seq(BroadcastTo(c))
    BY <1>2, <1>3
  <2> HIDE DEF q, t
  <2>2. q \o Append(t, m) = Append(q \o t, m)
    <3>1. Append(t, m) = t \o <<m>> /\ <<m>> \in Seq(BroadcastTo(c))
      BY <2>1, AppendIsConcat
    <3>2. q \o t \in Seq(BroadcastTo(c))
      BY <2>1, ConcatProperties
    <3>3. Append(q \o t, m) = (q \o t) \o <<m>>
      BY <3>2, AppendIsConcat
    <3>4. q \o (t \o <<m>>) = (q \o t) \o <<m>>
      BY <2>1, <3>1, ConcatAssociative
    <3> QED
      BY <3>1, <3>3, <3>4
  <2> QED
    BY <2>2 DEF q, t, Awaited
<1> QED
  BY <1>3, <1>4, <1>5

(* A team is new, or has one member as before, or more.                     *)
WasAlone(s, ts2, t) ==
  Len(ts2[t].memberIDs) <= 1 =>
     t = s.counter + 1 \/ (t \in DOMAIN s.teams /\ Len(s.teams[t].memberIDs) <= 1)

LEMMA AloneInStage ==
  ASSUME NEW s, Stage(s), NEW w \in Worlds, NEW t,
         t = s.counter + 1 \/ (t \in DOMAIN s.teams /\ Len(s.teams[t].memberIDs) <= 1)
  PROVE  Alone(copies[w], Awaited(s, w), t)
<1>1. /\ s.counter \in Nat /\ WorldTypes(copies[w], Awaited(s, w), s.counter)
      /\ Follows(copies[w], Awaited(s, w), s.teams, 0)
  BY DEF Stage, GoodTeams, Lined
<1>2. CASE t = s.counter + 1
  <2> DEFINE q == Awaited(s, w)
             known == copies[w]
             c == s.counter
  <2>1. c \in Nat /\ WorldTypes(known, q, c)
    BY <1>1
  <2> HIDE DEF q, known, c
  <2>2. Alone(known, q, c + 1)
    BY <2>1, NewIsAlone
  <2> QED
    BY <1>2, <2>2 DEF q, known, c
<1>3. CASE t \in DOMAIN s.teams /\ Len(s.teams[t].memberIDs) <= 1
  <2>1. t # 0
    BY <1>3, TeamTypes DEF Stage
  <2> QED
    BY <1>1, <1>3, <2>1 DEF Follows
<1> QED
  BY <1>2, <1>3

(* The worlds are told of a team that is new or has changed.                *)
LEMMA StageTold ==
  ASSUME NEW s, Stage(s), NEW c \in Nat, NEW ts, GoodTeams(ts, c), NEW t \in DOMAIN ts,
         c = s.counter \/ (c = s.counter + 1 /\ t = c),
         SameBut(s.teams, ts, t), WasAlone(s, ts, t)
  PROVE  Stage([teams |-> ts, counter |-> c, sent |-> Append(s.sent, Told(ts, t, FALSE))])
<1> DEFINE m == Told(ts, t, FALSE)
           r == [teams |-> ts, counter |-> c, sent |-> Append(s.sent, m)]
<1>1. /\ t \in 1..c /\ ts[t].memberIDs \in Seq(Players) /\ ts[t].memberIDs # <<>>
      /\ ts[t].lootFlag \in Loot
  BY TeamTypes
<1>2. /\ m \in BroadcastTo(c) /\ m.teamID = t /\ m.deleteTeam = FALSE
      /\ m.memberIDs = ts[t].memberIDs /\ m.lootFlag = ts[t].lootFlag
  BY <1>1 DEF Told, BroadcastTo
<1>3. s.counter \in Nat /\ s.counter <= c
  BY DEF Stage, GoodTeams, Lined
<1> HIDE DEF m
<1>4. /\ State(r) /\ r.sent \in Seq(BroadcastTo(c))
      /\ \A w \in Worlds :
           /\ queue[w] \in Seq(BroadcastTo(c))
           /\ WorldTypes(copies[w], Awaited(s, w), c)
           /\ Awaited(r, w) = Append(Awaited(s, w), m)
  <2>1. Append(s.sent, m) \in Seq(BroadcastTo(c))
        /\ \A w \in Worlds :
             /\ queue[w] \in Seq(BroadcastTo(c))
             /\ WorldTypes(copies[w], Awaited(s, w), c)
             /\ queue[w] \o Append(s.sent, m) = Append(Awaited(s, w), m)
    BY <1>2, <1>3, AwaitedMore DEF Stage
  <2>2. r.sent = Append(s.sent, m) /\ State(r)
    BY DEF State
  <2> QED
    BY <2>1, <2>2 DEF Awaited
<1>5. r.teams = ts /\ r.counter = c
  OBVIOUS
<1> HIDE DEF r
<1>6. ASSUME NEW w \in Worlds
      PROVE  /\ Follows(copies[w], Awaited(r, w), ts, 0)
             /\ WorldTypes(copies[w], Awaited(r, w), c)
  <2> DEFINE q == Awaited(s, w)
             known == copies[w]
             old == s.teams
  <2>1. WorldTypes(known, q, c) /\ Follows(known, q, old, 0) /\ SameBut(old, ts, t)
    BY <1>4 DEF Stage
  <2>2. Len(m.memberIDs) <= 1 => Alone(known, q, t)
    BY <1>2, AloneInStage DEF WasAlone
  <2> HIDE DEF q, known, old
  <2>3. Follows(known, Append(q, m), ts, 0) /\ WorldTypes(known, Append(q, m), c)
    BY <1>1, <1>2, <2>1, <2>2, FollowsTold
  <2> QED
    BY <1>4, <2>3 DEF q, known
<1>7. Stage(r)
  BY <1>4, <1>5, <1>6 DEF Stage, Lined
<1> QED
  BY <1>7 DEF r, m

(* The worlds are told that a team is gone, perhaps after a last word that  *)
(* it has lost a member.                                                    *)
LEMMA StageDisbanded ==
  ASSUME NEW s, Stage(s), NEW t \in DOMAIN s.teams,
         NEW ts, SameBut(s.teams, ts, t), t \notin DOMAIN ts
  PROVE  Stage([teams |-> ts, counter |-> s.counter,
                sent |-> Append(s.sent, Told(s.teams, t, TRUE))])
<1> DEFINE m == Told(s.teams, t, TRUE)
           c == s.counter
           r == [teams |-> ts, counter |-> c, sent |-> Append(s.sent, m)]
<1>1. /\ c \in Nat /\ s.counter <= c /\ t \in 1..c
      /\ s.teams[t].memberIDs \in Seq(Players) /\ s.teams[t].lootFlag \in Loot
  BY TeamTypes DEF Stage
<1>2. m \in BroadcastTo(c) /\ m.teamID = t /\ m.deleteTeam = TRUE
  <2>1. <<>> \in Seq(Players) /\ 0 \in Loot
    BY DEF Loot
  <2> QED
    BY <1>1, <2>1 DEF Told, BroadcastTo
<1> HIDE DEF m, c
<1>3. /\ State(r) /\ r.sent \in Seq(BroadcastTo(c))
      /\ \A w \in Worlds :
           /\ queue[w] \in Seq(BroadcastTo(c))
           /\ WorldTypes(copies[w], Awaited(s, w), c)
           /\ Awaited(r, w) = Append(Awaited(s, w), m)
  <2>1. Append(s.sent, m) \in Seq(BroadcastTo(c))
        /\ \A w \in Worlds :
             /\ queue[w] \in Seq(BroadcastTo(c))
             /\ WorldTypes(copies[w], Awaited(s, w), c)
             /\ queue[w] \o Append(s.sent, m) = Append(Awaited(s, w), m)
    BY <1>1, <1>2, AwaitedMore DEF Stage
  <2>2. r.sent = Append(s.sent, m) /\ State(r)
    BY DEF State
  <2> QED
    BY <2>1, <2>2 DEF Awaited
<1>4. r.teams = ts /\ r.counter = c /\ c = s.counter
  BY DEF c
<1> HIDE DEF r
<1>5. ASSUME NEW w \in Worlds
      PROVE  /\ Follows(copies[w], Awaited(r, w), ts, 0)
             /\ WorldTypes(copies[w], Awaited(r, w), c)
  <2> DEFINE q == Awaited(s, w)
             known == copies[w]
             old == s.teams
  <2>1. WorldTypes(known, q, c) /\ Follows(known, q, old, 0) /\ SameBut(old, ts, t)
    BY <1>3, <1>4 DEF Stage
  <2> HIDE DEF q, known, old
  <2>2. Follows(known, q, old, t)
    <3>1. 0 \notin DOMAIN old
      BY TeamTypes DEF old, Stage
    <3> QED
      BY <2>1, <3>1 DEF Follows
  <2>3. Follows(known, Append(q, m), ts, 0) /\ WorldTypes(known, Append(q, m), c)
    BY <1>1, <1>2, <2>1, <2>2, FollowsDisband
  <2> QED
    BY <1>3, <2>3 DEF q, known
<1>6. GoodTeams(ts, c)
  <2>1. \A u \in DOMAIN ts : u \in DOMAIN s.teams /\ ts[u] = s.teams[u]
    BY DEF SameBut
  <2> QED
    BY <1>4, <2>1 DEF Stage, GoodTeams, PartialMap
<1>7. Stage(r)
  BY <1>1, <1>3, <1>4, <1>5, <1>6 DEF Stage, Lined
<1> QED
  BY <1>7 DEF r, m, c

(* A team that has lost a member and is disbanded at once.                  *)
LEMMA StageUndone ==
  ASSUME NEW s, Stage(s), NEW t \in DOMAIN s.teams,
         NEW mid, SameBut(s.teams, mid, t), t \in DOMAIN mid,
         mid[t].memberIDs \in Seq(Players), mid[t].lootFlag \in Loot,
         mid[t].memberIDs = <<>> => Len(s.teams[t].memberIDs) <= 1,
         NEW ts, SameBut(s.teams, ts, t), t \notin DOMAIN ts
  PROVE  Stage([teams |-> ts, counter |-> s.counter,
                sent |-> Append(Append(s.sent, Told(mid, t, FALSE)), Told(mid, t, TRUE))])
<1> DEFINE m == Told(mid, t, FALSE)
           n == Told(mid, t, TRUE)
           c == s.counter
           v == [teams |-> mid, counter |-> c, sent |-> Append(s.sent, m)]
           r == [teams |-> ts, counter |-> c, sent |-> Append(v.sent, n)]
<1>1. c \in Nat /\ s.counter <= c /\ t \in 1..c /\ t # 0
  BY TeamTypes DEF Stage
<1>2. /\ m \in BroadcastTo(c) /\ m.teamID = t /\ m.deleteTeam = FALSE
      /\ m.memberIDs = mid[t].memberIDs /\ m.lootFlag = mid[t].lootFlag
  BY <1>1 DEF Told, BroadcastTo
<1>3. n \in BroadcastTo(c) /\ n.teamID = t /\ n.deleteTeam = TRUE
  <2>1. <<>> \in Seq(Players) /\ 0 \in Loot
    BY DEF Loot
  <2> QED
    BY <1>1, <2>1 DEF Told, BroadcastTo
<1>4. v.counter = c /\ v.sent = Append(s.sent, m) /\ c = s.counter
  OBVIOUS
<1>5. r.teams = ts /\ r.counter = c /\ r.sent = Append(v.sent, n) /\ State(r)
  BY DEF State
<1> HIDE DEF m, n, c, v, r
<1>6. Lined(s) /\ \A w \in Worlds : Follows(copies[w], Awaited(s, w), s.teams, 0)
  BY DEF Stage
<1>7. /\ Append(s.sent, m) \in Seq(BroadcastTo(c))
      /\ \A w \in Worlds :
           /\ queue[w] \in Seq(BroadcastTo(c))
           /\ WorldTypes(copies[w], Awaited(s, w), c)
           /\ queue[w] \o Append(s.sent, m) = Append(Awaited(s, w), m)
  BY <1>1, <1>2, <1>6, AwaitedMore
<1>8. ASSUME NEW w \in Worlds
      PROVE  /\ Follows(copies[w], Awaited(v, w), mid, t)
             /\ WorldTypes(copies[w], Awaited(v, w), c)
  <2> DEFINE q == Awaited(s, w)
             known == copies[w]
             old == s.teams
  <2>1. WorldTypes(known, q, c) /\ Follows(known, q, old, 0) /\ SameBut(old, mid, t)
    BY <1>6, <1>7
  <2>2. m.memberIDs = <<>> => Alone(known, q, t)
    BY <1>2, AloneInStage
  <2> HIDE DEF q, known, old
  <2>3. Follows(known, Append(q, m), mid, t) /\ WorldTypes(known, Append(q, m), c)
    BY <1>1, <1>2, <2>1, <2>2, FollowsTold
  <2>4. Awaited(v, w) = Append(q, m)
    BY <1>4, <1>7 DEF q, Awaited
  <2> QED
    BY <2>3, <2>4 DEF known
<1>9. Lined(v) /\ v.counter <= c
  BY <1>1, <1>4, <1>7, <1>8 DEF Lined
<1>10. /\ Append(v.sent, n) \in Seq(BroadcastTo(c))
       /\ \A w \in Worlds :
            /\ queue[w] \in Seq(BroadcastTo(c))
            /\ WorldTypes(copies[w], Awaited(v, w), c)
            /\ queue[w] \o Append(v.sent, n) = Append(Awaited(v, w), n)
  BY <1>1, <1>3, <1>9, AwaitedMore
<1>11. ASSUME NEW w \in Worlds
       PROVE  /\ Follows(copies[w], Awaited(r, w), ts, 0)
              /\ WorldTypes(copies[w], Awaited(r, w), c)
  <2> DEFINE q == Awaited(v, w)
             known == copies[w]
  <2>1. WorldTypes(known, q, c) /\ Follows(known, q, mid, t)
    BY <1>8
  <2>2. SameBut(mid, ts, t)
    BY DEF SameBut
  <2> HIDE DEF q, known
  <2>3. Follows(known, Append(q, n), ts, 0) /\ WorldTypes(known, Append(q, n), c)
    BY <1>1, <1>3, <2>1, <2>2, FollowsDisband
  <2>4. Awaited(r, w) = Append(q, n)
    BY <1>5, <1>10 DEF q, Awaited
  <2> QED
    BY <2>3, <2>4 DEF known
<1>12. GoodTeams(ts, c)
  <2>1. \A u \in DOMAIN ts : u \in DOMAIN s.teams /\ ts[u] = s.teams[u]
    BY DEF SameBut
  <2> QED
    BY <1>4, <2>1 DEF Stage, GoodTeams, PartialMap
<1>13. Stage(r)
  BY <1>1, <1>5, <1>10, <1>11, <1>12 DEF Stage, Lined
<1> QED
  BY <1>13 DEF r, v, m, n, c

(* The worlds are not told of a team that has grown or is new.              *)
LEMMA StageQuietly ==
  ASSUME NEW s, Stage(s), NEW c \in Nat, NEW ts, GoodTeams(ts, c), NEW t \in DOMAIN ts,
         SameBut(s.teams, ts, t),
         \/ c = s.counter + 1 /\ t = c
         \/ /\ c = s.counter /\ t \in DOMAIN s.teams
            /\ IsPrefix(s.teams[t].memberIDs, ts[t].memberIDs)
            /\ ts[t].lootFlag = s.teams[t].lootFlag
  PROVE  Stage([teams |-> ts, counter |-> c, sent |-> s.sent])
<1> DEFINE r == [teams |-> ts, counter |-> c, sent |-> s.sent]
<1>1. /\ s.counter \in Nat /\ s.counter <= c /\ Lined(s)
      /\ s.sent \in Seq(BroadcastTo(s.counter))
      /\ \A w \in Worlds :
           /\ queue[w] \in Seq(BroadcastTo(s.counter))
           /\ WorldTypes(copies[w], Awaited(s, w), s.counter)
           /\ Follows(copies[w], Awaited(s, w), s.teams, 0)
  BY DEF Stage, Lined
<1>2. /\ s.sent \in Seq(BroadcastTo(c))
      /\ \A w \in Worlds :
           queue[w] \in Seq(BroadcastTo(c)) /\ WorldTypes(copies[w], Awaited(s, w), c)
  BY <1>1, TypesGrow
<1>3. r.teams = ts /\ r.counter = c /\ r.sent = s.sent /\ State(r)
  BY DEF State
<1> HIDE DEF r
<1>4. ASSUME NEW w \in Worlds PROVE Follows(copies[w], Awaited(s, w), ts, 0)
  <2> DEFINE q == Awaited(s, w)
             known == copies[w]
             old == s.teams
             b == s.counter
  <2>1. /\ WorldTypes(known, q, b) /\ Follows(known, q, old, 0) /\ SameBut(old, ts, t)
        /\ b \in Nat
    BY <1>1
  <2>2. CASE c = s.counter + 1 /\ t = c
    <3>1. t = b + 1
      BY <2>2
    <3> HIDE DEF q, known, old, b
    <3>2. About(q, b + 1) = {} /\ b + 1 \notin DOMAIN known
      BY <2>1, NewIsAlone
    <3>3. About(q, t) = {} /\ t \notin DOMAIN known
      BY <3>1, <3>2
    <3>4. Follows(known, q, ts, 0)
      BY <2>1, <3>3, FollowsNew
    <3> QED
      BY <3>4 DEF known, q
  <2>3. CASE /\ c = s.counter /\ t \in DOMAIN s.teams
             /\ IsPrefix(s.teams[t].memberIDs, ts[t].memberIDs)
             /\ ts[t].lootFlag = s.teams[t].lootFlag
    <3>1. /\ t \in DOMAIN old /\ IsPrefix(old[t].memberIDs, ts[t].memberIDs)
          /\ ts[t].lootFlag = old[t].lootFlag
      BY <2>3
    <3>2. old[t].memberIDs \in Seq(Players) /\ ts[t].memberIDs \in Seq(Players)
      BY <2>3, TeamTypes DEF Stage
    <3> HIDE DEF q, known, old, b
    <3>3. \A i \in DOMAIN q : q[i].memberIDs \in Seq(Players)
      BY <2>1, QueueTypes DEF WorldTypes
    <3>4. \A u \in DOMAIN known : known[u].members \in Seq(Players)
      BY <2>1 DEF WorldTypes, PartialMap, Copy
    <3>5. Follows(known, q, ts, 0)
      BY <2>1, <3>1, <3>2, <3>3, <3>4, FollowsQuietly
    <3> QED
      BY <3>5 DEF known, q
  <2> QED
    BY <2>2, <2>3
<1>5. \A w \in Worlds : Awaited(r, w) = Awaited(s, w)
  BY <1>3 DEF Awaited
<1>6. Stage(r)
  BY <1>2, <1>3, <1>4, <1>5 DEF Stage, Lined
<1> QED
  BY <1>6 DEF r

-----------------------------------------------------------------------------
(* The operations of PlayerContainer.                                       *)

LEMMA MemberAdded ==
  ASSUME NEW ids \in Seq(Players), IsInjective(ids), NEW p \in Players, p \notin ToSet(ids)
  PROVE  LET more == Append(ids, p)
         IN  /\ more \in Seq(Players) /\ more # <<>> /\ IsInjective(more)
             /\ Len(more) = Len(ids) + 1 /\ IsPrefix(ids, more)
             /\ ToSet(more) = ToSet(ids) \cup {p}
<1> DEFINE more == Append(ids, p)
           n == Len(ids) + 1
<1>1. /\ more \in Seq(Players) /\ Len(more) = n /\ more[n] = p /\ n \in Nat /\ n > 0
      /\ \A i \in 1..Len(ids) : more[i] = ids[i]
  BY AppendProperties, LenProperties
<1>2. DOMAIN ids = 1..Len(ids) /\ DOMAIN more = 1..n /\ Len(ids) \in Nat
  BY <1>1, LenProperties
<1>3. IsPrefix(ids, more)
  BY PrefixOfAppend
<1> HIDE DEF more
<1>4. \A i \in DOMAIN more : i = n \/ (i \in DOMAIN ids /\ more[i] = ids[i])
  BY <1>1, <1>2
<1>5. \A i \in DOMAIN ids : i \in DOMAIN more /\ more[i] = ids[i]
  BY <1>1, <1>2
<1>6. ToSet(more) = ToSet(ids) \cup {p}
  <2>1. n \in DOMAIN more
    BY <1>1, <1>2
  <2> HIDE DEF n
  <2> QED
    BY <1>1, <1>4, <1>5, <2>1 DEF ToSet
<1>7. IsInjective(more)
  <2>1. \A i \in DOMAIN ids : ids[i] # p
    BY DEF ToSet
  <2> HIDE DEF n
  <2>2. \A i, j \in DOMAIN more : more[i] = more[j] => i = j
    BY <1>1, <1>4, <2>1 DEF IsInjective
  <2> QED
    BY <2>2 DEF IsInjective
<1>8. more # <<>>
  BY <1>1, EmptySeq
<1> QED
  BY <1>1, <1>3, <1>6, <1>7, <1>8 DEF more

LEMMA MemberLeft ==
  ASSUME NEW ids \in Seq(Players), IsInjective(ids), NEW p, p \in ToSet(ids)
  PROVE  LET left == RemoveFirst(ids, p)
         IN  /\ left \in Seq(Players) /\ IsInjective(left)
             /\ Len(left) = Len(ids) - 1 /\ Len(left) \in Nat
             /\ (left = <<>> => Len(ids) <= 1)
             /\ ToSet(left) = ToSet(ids) \ {p}
             /\ Len(left) > 0 => left[1] \in ToSet(left)
<1> DEFINE left == RemoveFirst(ids, p)
<1>0. Len(ids) \in Nat /\ DOMAIN ids = 1..Len(ids)
  BY LenProperties
<1>1. /\ \E i \in 1..Len(ids) : ids[i] = p
      /\ \A i, j \in 1..Len(ids) : ids[i] = ids[j] => i = j
  BY <1>0 DEF ToSet, IsInjective
<1>2. /\ left \in Seq(Players) /\ Len(left) = Len(ids) - 1
      /\ \A i, j \in 1..(Len(ids) - 1) : left[i] = left[j] => i = j
      /\ \A i \in 1..(Len(ids) - 1) :
           left[i] # p /\ \E j \in 1..Len(ids) : left[i] = ids[j]
      /\ \A j \in 1..Len(ids) : ids[j] # p => \E i \in 1..(Len(ids) - 1) : left[i] = ids[j]
  BY <1>1, RemovedOnce
<1> HIDE DEF left
<1>3. DOMAIN left = 1..(Len(ids) - 1) /\ Len(left) \in Nat
  BY <1>0, <1>2, LenProperties
<1>4. ToSet(left) = ToSet(ids) \ {p}
  <2>1. ASSUME NEW i \in DOMAIN left PROVE left[i] \in ToSet(ids) /\ left[i] # p
    <3>1. PICK j \in 1..Len(ids) : left[i] = ids[j]
      BY <1>2, <1>3
    <3>2. j \in DOMAIN ids /\ left[i] # p
      BY <1>0, <1>2, <1>3
    <3> QED
      BY <3>1, <3>2 DEF ToSet
  <2>2. \A j \in DOMAIN ids : ids[j] # p => ids[j] \in ToSet(left)
    BY <1>0, <1>2, <1>3 DEF ToSet
  <2> QED
    BY <2>1, <2>2 DEF ToSet
<1>5. IsInjective(left)
  BY <1>2, <1>3 DEF IsInjective
<1>6. left = <<>> => Len(ids) <= 1
  <2>1. left = <<>> => Len(left) = 0
    BY <1>2, EmptySeq
  <2>2. Len(left) = Len(ids) - 1 /\ Len(ids) \in Nat
    BY <1>0, <1>2
  <2>3. Len(left) = 0 => Len(ids) <= 1
    <3> DEFINE m == Len(left)
               n == Len(ids)
    <3>1. m = n - 1 /\ n \in Nat
      BY <2>2
    <3> HIDE DEF m, n
    <3>2. m = 0 => n <= 1
      BY <3>1
    <3> QED
      BY <3>2 DEF m, n
  <2> QED
    BY <2>1, <2>3
<1>7. Len(left) > 0 => left[1] \in ToSet(left)
  BY <1>0, <1>2, <1>3 DEF ToSet
<1> QED
  BY <1>2, <1>3, <1>4, <1>5, <1>6, <1>7 DEF left

(* The members of one team change.                                          *)
WithMembers(ts, t, ids) == [ts EXCEPT ![t].memberIDs = ids]

LEMMA MembersChange ==
  ASSUME NEW c, NEW ts, GoodTeams(ts, c), NEW t \in DOMAIN ts, NEW ids \in Seq(Players)
  PROVE  LET new == WithMembers(ts, t, ids)
         IN  /\ SameBut(ts, new, t) /\ t \in DOMAIN new /\ new[t] \in TeamData
             /\ new[t].memberIDs = ids /\ new[t].lootFlag = ts[t].lootFlag
             /\ new[t].lootFlag \in Loot /\ new[t].leaderID = ts[t].leaderID
             /\ ids # <<>> /\ IsInjective(ids) => GoodTeams(new, c)
<1> DEFINE new == WithMembers(ts, t, ids)
<1>1. ts[t] \in TeamData
  BY TeamTypes
<1>2. SameBut(ts, new, t) /\ t \in DOMAIN new /\ new[t] = [ts[t] EXCEPT !.memberIDs = ids]
  BY DEF SameBut, WithMembers
<1> HIDE DEF new
<1>3. /\ new[t] \in TeamData /\ new[t].memberIDs = ids /\ new[t].lootFlag = ts[t].lootFlag
      /\ new[t].lootFlag \in Loot /\ new[t].leaderID = ts[t].leaderID
  BY <1>1, <1>2 DEF TeamData
<1>4. ASSUME ids # <<>>, IsInjective(ids) PROVE GoodTeams(new, c)
  BY <1>2, <1>3, <1>4 DEF GoodTeams, PartialMap, SameBut
<1> QED
  BY <1>2, <1>3, <1>4 DEF new

(* What an operation on team t keeps: the other teams and the number made.  *)
Kept(s, r, t) == Stage(r) /\ r.counter = s.counter /\ SameBut(s.teams, r.teams, t)

(* A member is added, unless the team is full or has it: the worlds are     *)
(* told or not.                                                             *)
LEMMA AddMemberCorrect ==
  ASSUME NEW s, Stage(s), NEW t \in DOMAIN s.teams, NEW p \in Players
  PROVE  LET r == AddMember(s, t, p)
         IN  /\ Kept(s, r, t) /\ t \in DOMAIN r.teams
             /\ r.teams[t].leaderID = s.teams[t].leaderID
             /\ Members(s, t) \subseteq Members(r, t)
             /\ Members(r, t) \subseteq Members(s, t) \cup {p}
<1> DEFINE r == AddMember(s, t, p)
           old == s.teams
           ids == old[t].memberIDs
           new == WithMembers(old, t, Append(ids, p))
           added == [s EXCEPT !.teams[t].memberIDs = Append(@, p)]
<1>1. State(s) /\ GoodTeams(old, s.counter) /\ s.counter \in Nat /\ s.counter = s.counter
  BY DEF Stage, GoodTeams
<1>2. /\ ids \in Seq(Players) /\ ids # <<>> /\ IsInjective(ids) /\ Len(ids) \in Nat
      /\ Len(ids) # 0
  BY <1>1, TeamTypes
<1>3. added = [teams |-> new, counter |-> s.counter, sent |-> s.sent]
  BY <1>1 DEF State, WithMembers
<1>4. r = IF Len(ids) >= MaxMembers \/ p \in Members(s, t) THEN s
          ELSE IF Known(old[t].leaderID) /\ Known(p)
          THEN UpdateTeamsOnWorld(added, t, FALSE) ELSE added
  BY DEF AddMember
<1> HIDE DEF added, r
<1>5. CASE Len(ids) >= MaxMembers \/ p \in Members(s, t)
  <2>1. r = s
    BY <1>4, <1>5
  <2> QED
    BY <2>1 DEF Kept, SameBut, r
<1>6. CASE ~(Len(ids) >= MaxMembers \/ p \in Members(s, t))
  <2> DEFINE more == Append(ids, p)
  <2>1. p \notin ToSet(ids)
    BY <1>6 DEF Members
  <2>2. /\ more \in Seq(Players) /\ more # <<>> /\ IsInjective(more)
        /\ Len(more) = Len(ids) + 1 /\ IsPrefix(ids, more)
        /\ ToSet(more) = ToSet(ids) \cup {p}
    BY <1>2, <2>1, MemberAdded
  <2>3. new = WithMembers(old, t, more)
    OBVIOUS
  <2> HIDE DEF more, new
  <2>4. /\ SameBut(old, new, t) /\ t \in DOMAIN new
        /\ new[t].memberIDs = more /\ new[t].lootFlag = old[t].lootFlag
        /\ new[t].leaderID = old[t].leaderID
        /\ GoodTeams(new, s.counter)
    BY <1>1, <2>2, <2>3, MembersChange
  <2>5. WasAlone(s, new, t)
    BY <1>2, <2>2, <2>4 DEF WasAlone
  <2>6. Stage([teams |-> new, counter |-> s.counter, sent |-> s.sent])
    BY <1>1, <2>2, <2>4, StageQuietly
  <2>7. Stage([teams |-> new, counter |-> s.counter, sent |-> Append(s.sent, Told(new, t, FALSE))])
    BY <1>1, <2>4, <2>5, StageTold
  <2>8. State(added) /\ added.teams = new /\ added.counter = s.counter /\ added.sent = s.sent
    BY <1>3 DEF State
  <2>9. \/ r = [teams |-> new, counter |-> s.counter, sent |-> s.sent]
        \/ r = [teams |-> new, counter |-> s.counter, sent |-> Append(s.sent, Told(new, t, FALSE))]
    BY <1>3, <1>4, <1>6, <2>8, UpdateFields
  <2>10. Stage(r) /\ r.teams = new /\ r.counter = s.counter
    <3>1. CASE r = [teams |-> new, counter |-> s.counter, sent |-> s.sent]
      BY <2>6, <3>1
    <3>2. CASE r = [teams |-> new, counter |-> s.counter,
                    sent |-> Append(s.sent, Told(new, t, FALSE))]
      BY <2>7, <3>2
    <3> QED
      BY <2>9, <3>1, <3>2
  <2>11. Members(r, t) = Members(s, t) \cup {p}
    BY <2>2, <2>4, <2>10 DEF Members
  <2> QED
    BY <2>4, <2>10, <2>11 DEF Kept, r
<1> QED
  BY <1>5, <1>6

LEMMA NewFields ==
  ASSUME NEW s, NEW ts, NEW c, NEW sent, NEW ts2, NEW c2,
         s = [teams |-> ts, counter |-> c, sent |-> sent]
  PROVE  [s EXCEPT !.counter = c2, !.teams = ts2]
           = [teams |-> ts2, counter |-> c2, sent |-> s.sent]
<1> DEFINE one == [s EXCEPT !.counter = c2]
<1>1. one = [teams |-> ts, counter |-> c2, sent |-> sent]
  OBVIOUS
<1>2. [s EXCEPT !.counter = c2, !.teams = ts2] = [one EXCEPT !.teams = ts2]
  OBVIOUS
<1> HIDE DEF one
<1>3. [one EXCEPT !.teams = ts2] = [teams |-> ts2, counter |-> c2, sent |-> sent]
  BY <1>1
<1> QED
  BY <1>2, <1>3

(* What is so when chat state s has become r by a new team of player p.     *)
Made(s, r, p) ==
  LET t == s.counter + 1
  IN  /\ Stage(r) /\ r.counter = t /\ SameBut(s.teams, r.teams, t)
      /\ t \in DOMAIN r.teams /\ t \notin DOMAIN s.teams
      /\ Members(r, t) = {p}

(* A team is made with its leader.                                          *)
LEMMA CreateTeamCorrect ==
  ASSUME NEW s, Stage(s), NEW leader \in Players, NEW local \in BOOLEAN
  PROVE  Made(s, CreateTeam(s, leader, local), leader)
<1> DEFINE r == CreateTeam(s, leader, local)
           t == s.counter + 1
           old == s.teams
           one == WithTeam(old, t, NewTeam(leader, local))
           new == WithMembers(one, t, <<leader>>)
           v == [s EXCEPT !.counter = t, !.teams = WithTeam(@, t, NewTeam(leader, local))]
           added == [v EXCEPT !.teams[t].memberIDs = Append(@, leader)]
<1>1. State(s) /\ GoodTeams(old, s.counter) /\ s.counter \in Nat /\ t \in Nat /\ t = s.counter + 1
  BY DEF Stage, GoodTeams
<1>2. t \notin DOMAIN old
  BY <1>1 DEF GoodTeams, PartialMap
<1>3. v = [teams |-> one, counter |-> t, sent |-> s.sent]
  <2>1. v = [s EXCEPT !.counter = t, !.teams = one]
    OBVIOUS
  <2>2. s = [teams |-> old, counter |-> s.counter, sent |-> s.sent]
    BY <1>1 DEF State
  <2> HIDE DEF t, v, one, old
  <2> QED
    BY <2>1, <2>2, NewFields
<1>4. /\ SameBut(old, one, t) /\ t \in DOMAIN one /\ one[t] = NewTeam(leader, local)
      /\ one[t].memberIDs = <<>> /\ one[t].leaderID = leader
  BY DEF SameBut, WithTeam, NewTeam
<1>5. added = [teams |-> new, counter |-> t, sent |-> s.sent]
  <2>1. Append(<<>>, leader) = <<leader>>
    OBVIOUS
  <2> HIDE DEF v, one
  <2> QED
    BY <1>3, <1>4, <2>1 DEF WithMembers
<1>6. /\ SameBut(old, new, t) /\ t \in DOMAIN new
      /\ new[t] = [NewTeam(leader, local) EXCEPT !.memberIDs = <<leader>>]
  <2> HIDE DEF one
  <2> QED
    BY <1>4 DEF SameBut, WithMembers
<1>7. /\ new[t] \in TeamData /\ new[t].memberIDs = <<leader>> /\ new[t].leaderID = leader
      /\ new[t].memberIDs # <<>> /\ IsInjective(new[t].memberIDs)
  <2> HIDE DEF new
  <2>1. DefaultLoot \in Loot /\ NoZone \in Zone
    BY TeamsAssumption DEF Loot, NoZone, Zone
  <2>2. <<leader>> \in Seq(Players) /\ <<leader>> # <<>> /\ IsInjective(<<leader>>)
    BY DEF IsInjective
  <2> QED
    BY <1>6, <2>1, <2>2 DEF NewTeam, TeamData
<1>8. GoodTeams(new, t)
  <2> HIDE DEF new
  <2>1. \A u \in DOMAIN new : u # t => u \in DOMAIN old /\ new[u] = old[u]
    BY <1>6 DEF SameBut
  <2>2. \A u \in DOMAIN old : u \in 1..t /\ old[u] \in TeamData
                              /\ old[u].memberIDs # <<>> /\ IsInjective(old[u].memberIDs)
    BY <1>1 DEF GoodTeams, PartialMap
  <2>3. t \in 1..t
    BY <1>1
  <2> QED
    BY <1>1, <1>7, <2>1, <2>2, <2>3 DEF GoodTeams, PartialMap
<1>9. r = IF Known(leader) THEN UpdateTeamsOnWorld(added, t, FALSE) ELSE added
  <2>1. v.teams[t] = one[t]
    BY <1>3
  <2>2. ~(Len(<<>>) >= MaxMembers) /\ ToSet(<<>>) = {}
    BY TeamsAssumption DEF ToSet
  <2>3. r = AddMember(v, t, leader)
    BY DEF CreateTeam
  <2> HIDE DEF v, one, r
  <2> QED
    BY <1>4, <2>1, <2>2, <2>3 DEF AddMember, Members
<1> HIDE DEF v, added, one, new, r
<1>10. /\ Stage([teams |-> new, counter |-> t, sent |-> s.sent])
       /\ Stage([teams |-> new, counter |-> t, sent |-> Append(s.sent, Told(new, t, FALSE))])
  <2> HIDE DEF old
  <2>1. WasAlone(s, new, t)
    BY <1>1 DEF WasAlone
  <2>2. t \in DOMAIN new /\ SameBut(s.teams, new, t)
    BY <1>6 DEF old
  <2> HIDE DEF t
  <2> QED
    BY <1>1, <1>8, <2>1, <2>2, StageQuietly, StageTold
<1>11. State(added) /\ added.teams = new /\ added.counter = t /\ added.sent = s.sent
  BY <1>5 DEF State
<1>12. Stage(r) /\ r.teams = new /\ r.counter = t
  <2>1. CASE Known(leader)
    <3>1. r = [teams |-> new, counter |-> t, sent |-> Append(s.sent, Told(new, t, FALSE))]
      <4>1. r = UpdateTeamsOnWorld(added, t, FALSE)
        BY <1>9, <2>1
      <4> QED
        BY <1>11, <4>1, UpdateFields
    <3> QED
      BY <1>10, <3>1
  <2>2. CASE ~Known(leader)
    BY <1>5, <1>9, <1>10, <2>2
  <2> QED
    BY <2>1, <2>2
<1>13. Members(r, t) = {leader}
  BY <1>7, <1>12 DEF Members, ToSet
<1> QED
  BY <1>2, <1>6, <1>7, <1>12, <1>13 DEF r, Made

(* What is left of the teams without team t.                                *)
Without(ts, t) == Restrict(ts, DOMAIN ts \ {t})

LEMMA WithoutTeam ==
  ASSUME NEW ts, NEW t, NEW ts2, SameBut(ts, ts2, t)
  PROVE  SameBut(ts, Without(ts2, t), t) /\ t \notin DOMAIN Without(ts2, t)
BY DEF SameBut, Without, Restrict

LEMMA DisbandFields ==
  ASSUME NEW s, State(s), NEW t
  PROVE  DisbandTeam(s, t)
           = [teams |-> Without(s.teams, t), counter |-> s.counter,
              sent |-> Append(s.sent, Told(s.teams, t, TRUE))]
<1> DEFINE u == UpdateTeamsOnWorld(s, t, TRUE)
           more == Append(s.sent, Told(s.teams, t, TRUE))
<1>1. u = [teams |-> s.teams, counter |-> s.counter, sent |-> more]
  BY UpdateFields
<1>2. DisbandTeam(s, t) = [u EXCEPT !.teams = Without(u.teams, t)]
  BY DEF DisbandTeam, Without
<1> HIDE DEF u, more
<1> QED
  BY <1>1, <1>2 DEF more

LEMMA DisbandTeamCorrect ==
  ASSUME NEW s, Stage(s), NEW t \in DOMAIN s.teams
  PROVE  LET r == DisbandTeam(s, t)
         IN  Kept(s, r, t) /\ t \notin DOMAIN r.teams
<1> DEFINE ts == Without(s.teams, t)
<1>1. SameBut(s.teams, s.teams, t)
  BY DEF SameBut
<1>2. SameBut(s.teams, ts, t) /\ t \notin DOMAIN ts
  BY <1>1, WithoutTeam
<1> HIDE DEF ts
<1>3. Stage([teams |-> ts, counter |-> s.counter,
             sent |-> Append(s.sent, Told(s.teams, t, TRUE))])
  BY <1>2, StageDisbanded
<1>4. DisbandTeam(s, t) = [teams |-> ts, counter |-> s.counter,
                           sent |-> Append(s.sent, Told(s.teams, t, TRUE))]
  BY DisbandFields DEF Stage, ts
<1> QED
  BY <1>2, <1>3, <1>4 DEF Kept

(* Nobody's copy tells who leads.                                           *)
LEMMA PromoteCorrect ==
  ASSUME NEW s, Stage(s), NEW t \in DOMAIN s.teams, NEW p \in Players
  PROVE  LET r == PromoteMember(s, t, p)
         IN  /\ Kept(s, r, t) /\ t \in DOMAIN r.teams
             /\ r.teams[t].leaderID = p
             /\ r.teams[t].memberIDs = s.teams[t].memberIDs
             /\ Members(r, t) = Members(s, t)
<1> DEFINE old == s.teams
           new == [old EXCEPT ![t].leaderID = p]
           r == PromoteMember(s, t, p)
<1>1. State(s) /\ GoodTeams(old, s.counter) /\ s.counter \in Nat
  BY DEF Stage, GoodTeams
<1>2. r = [teams |-> new, counter |-> s.counter, sent |-> s.sent]
  BY <1>1 DEF State, PromoteMember
<1>3. old[t] \in TeamData /\ old[t].memberIDs \in Seq(Players)
  BY <1>1, TeamTypes
<1>4. SameBut(old, new, t) /\ t \in DOMAIN new /\ new[t] = [old[t] EXCEPT !.leaderID = p]
  BY DEF SameBut
<1> HIDE DEF new, r
<1>5. /\ new[t] \in TeamData /\ new[t].leaderID = p
      /\ new[t].memberIDs = old[t].memberIDs /\ new[t].lootFlag = old[t].lootFlag
  BY <1>3, <1>4 DEF TeamData
<1>6. GoodTeams(new, s.counter)
  BY <1>1, <1>4, <1>5 DEF GoodTeams, PartialMap, SameBut
<1>7. IsPrefix(old[t].memberIDs, new[t].memberIDs)
  BY <1>3, <1>5, PrefixOrder
<1>8. Stage([teams |-> new, counter |-> s.counter, sent |-> s.sent])
  BY <1>1, <1>4, <1>5, <1>6, <1>7, StageQuietly
<1>9. Stage(r) /\ r.teams = new /\ r.counter = s.counter
  BY <1>2, <1>8
<1> QED
  BY <1>4, <1>5, <1>9 DEF Kept, Members, r

(* A member leaves: the team is disbanded or has one member less, and if    *)
(* its leader was one of its members, its leader is.                        *)
LEMMA RemoveMemberCorrect ==
  ASSUME NEW s, Stage(s), NEW t \in DOMAIN s.teams, NEW p \in Players
  PROVE  LET r == RemoveMember(s, t, p)
         IN  /\ Kept(s, r, t)
             /\ t \in DOMAIN r.teams =>
                  /\ Members(r, t) = Members(s, t) \ {p}
                  /\ s.teams[t].leaderID \in Members(s, t)
                       => r.teams[t].leaderID \in Members(r, t)
<1> DEFINE r == RemoveMember(s, t, p)
           old == s.teams
           ids == old[t].memberIDs
           left == RemoveFirst(ids, p)
           mid == WithMembers(old, t, left)
           removed == [s EXCEPT !.teams[t].memberIDs = left]
           told == UpdateTeamsOnWorld(removed, t, FALSE)
<1>1. State(s) /\ GoodTeams(old, s.counter) /\ s.counter \in Nat /\ s.counter = s.counter
  BY DEF Stage, GoodTeams
<1>2. /\ ids \in Seq(Players) /\ ids # <<>> /\ IsInjective(ids) /\ Len(ids) \in Nat
      /\ Len(ids) # 0
  BY <1>1, TeamTypes
<1>3. removed = [teams |-> mid, counter |-> s.counter, sent |-> s.sent]
  BY <1>1 DEF State, WithMembers
<1>4. r = IF p \notin Members(s, t) THEN s
          ELSE IF Len(left) <= 1 THEN DisbandTeam(told, t)
          ELSE IF p = told.teams[t].leaderID THEN PromoteMember(told, t, left[1])
          ELSE told
  BY DEF RemoveMember
<1> HIDE DEF removed, r, left, mid
<1>5. CASE p \notin Members(s, t)
  <2>1. r = s
    BY <1>4, <1>5
  <2> QED
    BY <1>5, <2>1 DEF Kept, SameBut, r
<1>6. CASE p \in Members(s, t)
  <2>1. p \in ToSet(ids)
    BY <1>6 DEF Members
  <2>2. /\ left \in Seq(Players) /\ IsInjective(left)
        /\ Len(left) = Len(ids) - 1 /\ Len(left) \in Nat
        /\ (left = <<>> => Len(ids) <= 1)
        /\ ToSet(left) = ToSet(ids) \ {p}
        /\ (Len(left) > 0 => left[1] \in ToSet(left))
    BY <1>2, <2>1, MemberLeft DEF left
  <2>3. /\ SameBut(old, mid, t) /\ t \in DOMAIN mid
        /\ mid[t].memberIDs = left /\ mid[t].lootFlag \in Loot
        /\ mid[t].leaderID = old[t].leaderID
        /\ (left # <<>> => GoodTeams(mid, s.counter))
    BY <1>1, <2>2, MembersChange DEF mid
  <2>4. State(removed) /\ removed.teams = mid /\ removed.counter = s.counter
        /\ removed.sent = s.sent
    BY <1>3 DEF State
  <2>5. told = [teams |-> mid, counter |-> s.counter,
                sent |-> Append(s.sent, Told(mid, t, FALSE))]
    BY <2>4, UpdateFields
  <2> HIDE DEF told
  <2>6. CASE Len(left) <= 1
    <3> DEFINE gone == Without(mid, t)
    <3>1. State(told) /\ told.teams = mid /\ told.counter = s.counter
          /\ told.sent = Append(s.sent, Told(mid, t, FALSE))
      BY <2>5 DEF State
    <3>2. r = DisbandTeam(told, t)
      BY <1>4, <1>6, <2>6
    <3>3. r = [teams |-> gone, counter |-> s.counter,
               sent |-> Append(Append(s.sent, Told(mid, t, FALSE)), Told(mid, t, TRUE))]
      BY <3>1, <3>2, DisbandFields
    <3>4. SameBut(old, gone, t) /\ t \notin DOMAIN gone
      BY <2>3, WithoutTeam
    <3> HIDE DEF gone
    <3>5. Stage([teams |-> gone, counter |-> s.counter,
                 sent |-> Append(Append(s.sent, Told(mid, t, FALSE)), Told(mid, t, TRUE))])
      BY <2>2, <2>3, <3>4, StageUndone
    <3>6. Stage(r) /\ r.counter = s.counter /\ r.teams = gone
      BY <3>3, <3>5
    <3> QED
      BY <3>4, <3>6 DEF Kept, r
  <2>7. CASE ~(Len(left) <= 1)
    <3>1. left # <<>> /\ Len(left) > 0
      BY <2>2, <2>7, EmptySeq
    <3>2. GoodTeams(mid, s.counter) /\ WasAlone(s, mid, t)
      BY <2>3, <2>7, <3>1 DEF WasAlone
    <3>3. Stage([teams |-> mid, counter |-> s.counter,
                 sent |-> Append(s.sent, Told(mid, t, FALSE))])
      BY <1>1, <2>3, <3>2, StageTold
    <3>4. Stage(told) /\ told.teams = mid /\ told.counter = s.counter
      BY <2>5, <3>3
    <3>5. Members(told, t) = Members(s, t) \ {p}
      BY <2>2, <2>3, <3>4 DEF Members
    <3>6. CASE p = told.teams[t].leaderID
      <4> DEFINE promoted == PromoteMember(told, t, left[1])
      <4>1. left[1] \in Members(told, t)
        BY <2>2, <2>3, <3>1, <3>4 DEF Members
      <4>2. left[1] \in Players
        BY <2>2, <3>1, ElementOfSeq
      <4>3. /\ Kept(told, promoted, t) /\ t \in DOMAIN promoted.teams
            /\ promoted.teams[t].leaderID = left[1]
            /\ Members(promoted, t) = Members(told, t)
        BY <2>3, <3>4, <4>2, PromoteCorrect
      <4>4. r = promoted
        BY <1>4, <1>6, <2>7, <3>6
      <4> HIDE DEF promoted
      <4>5. Kept(s, promoted, t)
        BY <2>3, <3>4, <4>3 DEF Kept, SameBut
      <4> QED
        BY <3>5, <4>1, <4>3, <4>4, <4>5 DEF r
    <3>7. CASE p # told.teams[t].leaderID
      <4>1. r = told
        BY <1>4, <1>6, <2>7, <3>7
      <4>2. Kept(s, told, t)
        BY <2>3, <3>4 DEF Kept
      <4>3. told.teams[t].leaderID = old[t].leaderID
        BY <2>3, <3>4
      <4> QED
        BY <2>3, <3>4, <3>5, <3>7, <4>1, <4>2, <4>3 DEF r
    <3> QED
      BY <3>6, <3>7
  <2> QED
    BY <2>6, <2>7
<1> QED
  BY <1>5, <1>6

(* The status of a team is told as it is.                                   *)
LEMMA UpdateCorrect ==
  ASSUME NEW s, Stage(s), NEW t \in DOMAIN s.teams
  PROVE  LET r == UpdateTeamsOnWorld(s, t, FALSE)
         IN  Kept(s, r, t) /\ r.teams = s.teams
<1> DEFINE ts == s.teams
<1>1. State(s) /\ GoodTeams(ts, s.counter) /\ s.counter \in Nat /\ s.counter = s.counter
  BY DEF Stage, GoodTeams
<1>2. SameBut(ts, ts, t) /\ WasAlone(s, ts, t)
  BY DEF SameBut, WasAlone
<1> DEFINE told == [teams |-> ts, counter |-> s.counter, sent |-> Append(s.sent, Told(ts, t, FALSE))]
<1>3. Stage(told)
  <2> HIDE DEF ts
  <2>1. t \in DOMAIN ts /\ SameBut(s.teams, ts, t)
    BY <1>2 DEF ts
  <2> QED
    BY <1>1, <1>2, <2>1, StageTold
<1>4. UpdateTeamsOnWorld(s, t, FALSE) = told
  BY <1>1, UpdateFields
<1>5. told.teams = ts /\ told.counter = s.counter
  OBVIOUS
<1> HIDE DEF told
<1> QED
  BY <1>2, <1>3, <1>4, <1>5 DEF Kept

LEMMA StatusCorrect ==
  ASSUME NEW s, Stage(s), NEW t \in DOMAIN s.teams
  PROVE  LET r == TeamStatusUpdate(s, t)
         IN  Kept(s, r, t) /\ r.teams = s.teams
<1>1. TeamStatusUpdate(s, t) = UpdateTeamsOnWorld(s, t, FALSE) \/ TeamStatusUpdate(s, t) = s
  BY DEF TeamStatusUpdate
<1>2. Kept(s, s, t)
  BY DEF Kept, SameBut
<1> QED
  BY <1>1, <1>2, UpdateCorrect

(* The first team that has the player, if there is one.                     *)
LEMMA GetTeamCorrect ==
  ASSUME NEW s, Stage(s), NEW p
  PROVE  LET t == GetTeam(s, p)
         IN  /\ t = LWOOBJID_EMPTY <=> TeamsOf(s, p) = {}
             /\ t # LWOOBJID_EMPTY => t \in TeamsOf(s, p) /\ t \in DOMAIN s.teams
                                      /\ p \in Members(s, t)
             /\ TeamsOf(s, p) \subseteq DOMAIN s.teams
             /\ DOMAIN s.teams \subseteq 1..s.counter
<1> DEFINE T == TeamsOf(s, p)
<1>1. DOMAIN s.teams \subseteq 1..s.counter /\ s.counter \in Nat
  BY DEF Stage, GoodTeams, PartialMap
<1>2. T \subseteq DOMAIN s.teams /\ \A t \in T : p \in Members(s, t)
  BY DEF TeamsOf
<1>3. T \in SUBSET Nat /\ 0 \notin T
  BY <1>1, <1>2
<1>4. CASE T = {}
  BY <1>1, <1>2, <1>4 DEF GetTeam
<1>5. CASE T # {}
  <2>1. \E t \in T : \A u \in T : t <= u
    <3> HIDE DEF T
    <3> QED
      BY <1>3, <1>5, LeastNatural
  <2>2. GetTeam(s, p) \in T
    BY <1>5, <2>1 DEF GetTeam
  <2> QED
    BY <1>1, <1>2, <1>3, <1>5, <2>2 DEF LWOOBJID_EMPTY
<1> QED
  BY <1>4, <1>5

-----------------------------------------------------------------------------
(* Who is in which team when a handler is done with chat state r, and n is  *)
(* the team that it may have made.                                          *)

(* The player had no team in s, or is no longer in one that it had.         *)
Freed(s, r, p) ==
  \/ TeamsOf(s, p) = {}
  \/ \E t \in TeamsOf(s, p) : t \notin TeamsOf(r, p)

(* If the leader is one of the members, so it is afterwards.                *)
Led(s, r, t) ==
  s.teams[t].leaderID \in Members(s, t) => r.teams[t].leaderID \in Members(r, t)

(* Nobody joins a team but the new one, and nobody the new one in addition  *)
(* to the teams it had.                                                     *)
Orderly(s, r, n) ==
  /\ Stage(r)
  /\ s.counter <= r.counter
  /\ n \notin DOMAIN s.teams
  /\ \A t \in DOMAIN r.teams \ {n} :
       t \in DOMAIN s.teams /\ Members(r, t) \subseteq Members(s, t) /\ Led(s, r, t)
  /\ \A p : n \in TeamsOf(r, p) => Freed(s, r, p)

LEMMA SameTeams ==
  ASSUME NEW s, NEW r, NEW t, SameBut(s.teams, r.teams, t)
  PROVE  /\ \A u : u # t => (u \in DOMAIN r.teams <=> u \in DOMAIN s.teams)
         /\ \A u \in DOMAIN s.teams : u # t =>
              Members(r, u) = Members(s, u) /\ Led(s, r, u) /\ r.teams[u] = s.teams[u]
         /\ \A u, p : u # t => (u \in TeamsOf(r, p) <=> u \in TeamsOf(s, p))
BY DEF SameBut, Members, Led, TeamsOf

LEMMA OrderlyFirst ==
  ASSUME NEW s, Stage(s)
  PROVE  Orderly(s, s, LWOOBJID_EMPTY)
<1>1. DOMAIN s.teams \subseteq 1..s.counter /\ s.counter \in Nat
  BY DEF Stage, GoodTeams, PartialMap
<1>2. LWOOBJID_EMPTY \notin DOMAIN s.teams
  BY <1>1 DEF LWOOBJID_EMPTY
<1> QED
  BY <1>1, <1>2 DEF Orderly, Led, TeamsOf

(* A team other than the new one changes: it is disbanded, or somebody      *)
(* leaves it.                                                               *)
LEMMA OrderlyLeave ==
  ASSUME NEW s0, NEW s, NEW n, Orderly(s0, s, n),
         NEW t \in DOMAIN s.teams, t # n, NEW r, Kept(s, r, t),
         t \in DOMAIN r.teams => Members(r, t) \subseteq Members(s, t) /\ Led(s, r, t)
  PROVE  Orderly(s0, r, n)
<1>1. Stage(r) /\ r.counter = s.counter /\ SameBut(s.teams, r.teams, t)
  BY DEF Kept
<1>2. t \in DOMAIN s0.teams /\ Members(s, t) \subseteq Members(s0, t) /\ Led(s0, s, t)
  BY DEF Orderly
<1>3. ASSUME NEW u \in DOMAIN r.teams \ {n}
      PROVE  u \in DOMAIN s0.teams /\ Members(r, u) \subseteq Members(s0, u) /\ Led(s0, r, u)
  <2>1. CASE u = t
    BY <1>2, <1>3, <2>1 DEF Led
  <2>2. CASE u # t
    <3>1. /\ u \in DOMAIN s.teams \ {n}
          /\ Members(r, u) = Members(s, u) /\ r.teams[u] = s.teams[u]
      BY <1>1, <1>3, <2>2 DEF SameBut, Members
    <3>2. u \in DOMAIN s0.teams /\ Members(s, u) \subseteq Members(s0, u) /\ Led(s0, s, u)
      BY <3>1 DEF Orderly
    <3> QED
      BY <3>1, <3>2 DEF Led
  <2> QED
    BY <2>1, <2>2
<1>4. ASSUME NEW p, n \in TeamsOf(r, p)
      PROVE  Freed(s0, r, p)
  <2>1. n \in TeamsOf(s, p)
    BY <1>1, <1>4, SameTeams
  <2>2. Freed(s0, s, p)
    BY <2>1 DEF Orderly
  <2>3. TeamsOf(r, p) \subseteq TeamsOf(s, p)
    <3>1. ASSUME NEW u \in TeamsOf(r, p), u = t PROVE u \in TeamsOf(s, p)
      BY <3>1 DEF TeamsOf
    <3> QED
      BY <1>1, <3>1, SameTeams
  <2> QED
    BY <2>2, <2>3 DEF Freed
<1> QED
  BY <1>1, <1>3, <1>4 DEF Orderly

(* The new team is made or changes: who joins it has left a team or had     *)
(* none.                                                                    *)
LEMMA OrderlyJoin ==
  ASSUME NEW s0, NEW s, NEW n, n \notin DOMAIN s0.teams,
         s0.counter \in Nat, s.counter \in Nat, s0.counter <= s.counter,
         \A t \in DOMAIN s.teams \ {n} :
           t \in DOMAIN s0.teams /\ Members(s, t) \subseteq Members(s0, t) /\ Led(s0, s, t),
         NEW r, Stage(r), s.counter <= r.counter, SameBut(s.teams, r.teams, n),
         \A p : n \in TeamsOf(r, p) => Freed(s0, s, p)
  PROVE  Orderly(s0, r, n)
<1>1. ASSUME NEW u \in DOMAIN r.teams \ {n}
      PROVE  u \in DOMAIN s0.teams /\ Members(r, u) \subseteq Members(s0, u) /\ Led(s0, r, u)
  <2>1. /\ u \in DOMAIN s.teams \ {n}
        /\ Members(r, u) = Members(s, u) /\ r.teams[u] = s.teams[u]
    BY <1>1 DEF SameBut, Members
  <2> QED
    BY <2>1 DEF Led
<1>2. ASSUME NEW p, n \in TeamsOf(r, p)
      PROVE  Freed(s0, r, p)
  <2>1. Freed(s0, s, p)
    BY <1>2
  <2>2. \A t \in TeamsOf(s0, p) : t # n
    BY DEF TeamsOf
  <2>3. \A t \in TeamsOf(s0, p) : t \in TeamsOf(r, p) <=> t \in TeamsOf(s, p)
    BY <2>2, SameTeams
  <2> QED
    BY <2>1, <2>3 DEF Freed
<1>3. r.counter \in Nat
  BY DEF Stage, GoodTeams
<1>4. s0.counter <= r.counter
  BY <1>3
<1> QED
  BY <1>1, <1>2, <1>4 DEF Orderly

-----------------------------------------------------------------------------
(* The team of an activity: CreateLocalTeam.                                *)

(* The players seen so far are the ones that can be in the new team.        *)
Joining(s, acc, seen) ==
  /\ acc = [s |-> acc.s, team |-> acc.team]
  /\ Orderly(s, acc.s, acc.team)
  /\ IF seen = {} THEN acc.team = LWOOBJID_EMPTY
     ELSE /\ acc.team # LWOOBJID_EMPTY /\ acc.team \in DOMAIN acc.s.teams
          /\ Members(acc.s, acc.team) \subseteq seen

(* The next player has left the first of its teams, if it had any.          *)
LEMMA LeavesFirst ==
  ASSUME NEW s, Stage(s), NEW acc, NEW seen, Joining(s, acc, seen),
         NEW p \in Players, p \notin seen
  PROVE  LET old == GetTeam(acc.s, p)
             r   == IF old = LWOOBJID_EMPTY THEN acc.s ELSE RemoveMember(acc.s, old, p)
         IN  /\ Orderly(s, r, acc.team) /\ Freed(s, r, p)
             /\ seen # {} => /\ acc.team \in DOMAIN r.teams
                             /\ Members(r, acc.team) \subseteq seen
<1> DEFINE a == acc.s
           n == acc.team
           old == GetTeam(a, p)
           gone == RemoveMember(a, old, p)
           r == IF old = LWOOBJID_EMPTY THEN a ELSE gone
<1>1. Orderly(s, a, n) /\ Stage(a)
  BY DEF Joining, Orderly
<1>2. /\ seen # {} => n \in DOMAIN a.teams /\ Members(a, n) \subseteq seen
      /\ seen = {} => n = LWOOBJID_EMPTY
  BY DEF Joining
<1>3. /\ old = LWOOBJID_EMPTY <=> TeamsOf(a, p) = {}
      /\ old # LWOOBJID_EMPTY => old \in TeamsOf(a, p) /\ old \in DOMAIN a.teams
                                 /\ p \in Members(a, old)
  BY <1>1, GetTeamCorrect
<1> HIDE DEF a, n, old, gone
<1>4. CASE old = LWOOBJID_EMPTY
  <2>1. r = a /\ TeamsOf(a, p) = {}
    BY <1>3, <1>4
  <2>2. Freed(s, a, p)
    BY <2>1 DEF Freed
  <2> QED
    BY <1>1, <1>2, <2>1, <2>2 DEF a, n, old, gone
<1>5. CASE old # LWOOBJID_EMPTY
  <2>1. r = gone /\ old \in DOMAIN a.teams /\ p \in Members(a, old)
    BY <1>3, <1>5
  <2>2. old # n
    BY <1>2, <1>5, <2>1
  <2>3. /\ Kept(a, gone, old)
        /\ old \in DOMAIN gone.teams =>
             Members(gone, old) = Members(a, old) \ {p} /\ Led(a, gone, old)
    BY <1>1, <2>1, RemoveMemberCorrect DEF Led, gone
  <2>4. Orderly(s, gone, n)
    BY <1>1, <2>1, <2>2, <2>3, OrderlyLeave
  <2>5. old \in TeamsOf(s, p)
    BY <1>1, <2>1, <2>2 DEF Orderly, TeamsOf
  <2>6. old \notin TeamsOf(gone, p)
    BY <2>3 DEF TeamsOf
  <2>7. Freed(s, gone, p)
    BY <2>5, <2>6 DEF Freed
  <2>8. seen # {} => n \in DOMAIN gone.teams /\ Members(gone, n) \subseteq seen
    <3>1. SameBut(a.teams, gone.teams, old)
      BY <2>3 DEF Kept
    <3> QED
      BY <1>2, <2>2, <3>1 DEF SameBut, Members
  <2> QED
    BY <2>1, <2>4, <2>7, <2>8 DEF a, n, old, gone
<1> QED
  BY <1>4, <1>5

(* A player joins the new team, or is its first member.                     *)
LEMMA JoinCorrect ==
  ASSUME NEW s, Stage(s), NEW acc, NEW seen, Joining(s, acc, seen),
         NEW p \in Players, p \notin seen
  PROVE  Joining(s, JoinLocalTeam(acc, p), seen \cup {p})
<1> DEFINE old == GetTeam(acc.s, p)
           v == IF old = LWOOBJID_EMPTY THEN acc.s ELSE RemoveMember(acc.s, old, p)
           n == acc.team
           next == JoinLocalTeam(acc, p)
<1>1. /\ Orderly(s, v, n) /\ Freed(s, v, p)
      /\ seen # {} => n \in DOMAIN v.teams /\ Members(v, n) \subseteq seen
  BY LeavesFirst
<1>2. next = IF n = LWOOBJID_EMPTY
             THEN [s |-> CreateTeam(v, p, TRUE), team |-> v.counter + 1]
             ELSE [acc EXCEPT !.s = AddMember(v, n, p)]
  BY DEF JoinLocalTeam
<1>3. acc = [s |-> acc.s, team |-> n] /\ (seen = {} <=> n = LWOOBJID_EMPTY)
  BY DEF Joining
<1> HIDE DEF v, n, next
<1>4. /\ Stage(v) /\ s.counter \in Nat /\ v.counter \in Nat /\ s.counter <= v.counter
      /\ DOMAIN s.teams \subseteq 1..s.counter /\ DOMAIN v.teams \subseteq 1..v.counter
  BY <1>1 DEF Orderly, Stage, GoodTeams, PartialMap
<1>5. CASE n = LWOOBJID_EMPTY
  <2> DEFINE t == v.counter + 1
             r == CreateTeam(v, p, TRUE)
  <2>1. /\ Stage(r) /\ r.counter = t /\ SameBut(v.teams, r.teams, t)
        /\ t \in DOMAIN r.teams /\ Members(r, t) = {p}
    <3>1. Made(v, r, p)
      BY <1>4, CreateTeamCorrect
    <3> QED
      BY <3>1 DEF Made
  <2>2. next = [s |-> r, team |-> t] /\ t # LWOOBJID_EMPTY
    BY <1>2, <1>4, <1>5 DEF LWOOBJID_EMPTY
  <2>3. t \notin DOMAIN s.teams /\ v.counter <= t
    BY <1>4
  <2> HIDE DEF t, r
  <2>4. n \notin DOMAIN v.teams
    BY <1>4, <1>5 DEF LWOOBJID_EMPTY
  <2>5. \A u \in DOMAIN v.teams \ {t} :
          u \in DOMAIN s.teams /\ Members(v, u) \subseteq Members(s, u) /\ Led(s, v, u)
    BY <1>1, <2>4 DEF Orderly
  <2>6. \A q : t \in TeamsOf(r, q) => Freed(s, v, q)
    <3>1. \A q : t \in TeamsOf(r, q) => q = p
      BY <2>1 DEF TeamsOf
    <3> QED
      BY <1>1, <3>1
  <2>7. Orderly(s, r, t)
    BY <1>4, <2>1, <2>3, <2>5, <2>6, OrderlyJoin
  <2>8. next.s = r /\ next.team = t /\ next = [s |-> next.s, team |-> next.team]
    BY <2>2
  <2>9. seen \cup {p} # {} /\ {p} \subseteq seen \cup {p}
    OBVIOUS
  <2> QED
    BY <2>1, <2>2, <2>7, <2>8, <2>9 DEF Joining, next
<1>6. CASE n # LWOOBJID_EMPTY
  <2> DEFINE r == AddMember(v, n, p)
  <2>1. n \in DOMAIN v.teams /\ Members(v, n) \subseteq seen
    BY <1>1, <1>3, <1>6
  <2>2. /\ Kept(v, r, n) /\ n \in DOMAIN r.teams
        /\ Members(r, n) \subseteq Members(v, n) \cup {p}
    BY <1>4, <2>1, AddMemberCorrect
  <2> HIDE DEF r
  <2>3. next = [s |-> r, team |-> n]
    BY <1>2, <1>3, <1>6 DEF r
  <2>4. ASSUME NEW q, n \in TeamsOf(r, q) PROVE Freed(s, v, q)
    <3>1. q = p \/ n \in TeamsOf(v, q)
      BY <2>1, <2>2, <2>4 DEF TeamsOf
    <3> QED
      BY <1>1, <3>1 DEF Orderly
  <2>5. Stage(r) /\ r.counter = v.counter /\ SameBut(v.teams, r.teams, n) /\ v.counter <= r.counter
    BY <1>4, <2>2 DEF Kept
  <2>6. /\ n \notin DOMAIN s.teams
        /\ \A u \in DOMAIN v.teams \ {n} :
             u \in DOMAIN s.teams /\ Members(v, u) \subseteq Members(s, u) /\ Led(s, v, u)
    BY <1>1 DEF Orderly
  <2>7. Orderly(s, r, n)
    BY <1>4, <2>4, <2>5, <2>6, OrderlyJoin
  <2>8. next.s = r /\ next.team = n /\ next = [s |-> next.s, team |-> next.team]
    BY <2>3
  <2>9. Members(r, n) \subseteq seen \cup {p} /\ seen \cup {p} # {}
    BY <2>1, <2>2
  <2> QED
    BY <1>6, <2>2, <2>7, <2>8, <2>9 DEF Joining, next
<1> QED
  BY <1>5, <1>6

(* What the fold of CreateLocalTeam iterates, over every set of places.     *)
Start(s) == [s |-> s, team |-> LWOOBJID_EMPTY]

Joined(s, members, it) ==
  it = [S \in SUBSET (DOMAIN members) |->
          IF S = {} THEN Start(s)
          ELSE JoinLocalTeam(it[S \ {Max(S)}], members[Max(S)])]

MadeOf(s, members) == (CHOOSE it : Joined(s, members, it))[DOMAIN members]

LEMMA LocalTeamIterates ==
  ASSUME NEW s, NEW members
  PROVE  CreateLocalTeam(s, members)
           = LET made == MadeOf(s, members)
             IN  [s |-> TeamStatusUpdate([made.s EXCEPT !.teams[made.team].lootFlag = 1],
                                         made.team),
                  team |-> made.team]
BY DEF CreateLocalTeam, FoldLeft, MapThenFoldSet, Joined, MadeOf, Start

(* The library's fold is defined: over sets of so many places by the rule   *)
(* of those with one fewer.                                                 *)
LEMMA JoiningExists ==
  ASSUME NEW s, NEW members, NEW m \in Nat, DOMAIN members = 1..m
  PROVE  \E it : Joined(s, members, it)
<1> DEFINE D == 1..m
           Rule(it, S) == IF S = {} THEN Start(s)
                          ELSE JoinLocalTeam(it[S \ {Max(S)}], members[Max(S)])
           Upto(it, n) == \A S \in SUBSET D : Cardinality(S) <= n => it[S] = Rule(it, S)
           Reached == {n \in Nat : \E it : Upto(it, n)}
<1>0. IsFiniteSet(D) /\ \A S \in SUBSET D : IsFiniteSet(S) /\ Cardinality(S) \in Nat
                          /\ (Cardinality(S) = 0 <=> S = {})
  <2>1. IsFiniteSet(1..m)
    BY FS_Interval
  <2>2. IsFiniteSet(D)
    BY <2>1
  <2> HIDE DEF D
  <2>3. \A S \in SUBSET D : IsFiniteSet(S)
    BY <2>2, FS_Subset
  <2> QED
    BY <2>2, <2>3, FS_CardinalityType, FS_EmptySet
<1>1. \A S \in SUBSET D : S # {} =>
        /\ S \ {Max(S)} \in SUBSET D
        /\ Cardinality(S \ {Max(S)}) = Cardinality(S) - 1
  BY <1>0, MaxIsLast, OneLess
<1>2. 0 \in Reached
  <2> DEFINE none == [S \in SUBSET D |-> Start(s)]
  <2>1. \A S \in SUBSET D : Cardinality(S) <= 0 => none[S] = Rule(none, S)
    BY <1>0
  <2>2. Upto(none, 0)
    BY <2>1
  <2> QED
    BY <2>2
<1>3. ASSUME NEW n \in Nat, n \in Reached
      PROVE  n + 1 \in Reached
  <2>1. PICK it : Upto(it, n)
    BY <1>3
  <2> DEFINE next == [S \in SUBSET D |-> Rule(it, S)]
  <2>2. ASSUME NEW S \in SUBSET D, Cardinality(S) <= n + 1
        PROVE  next[S] = Rule(next, S)
    <3>1. CASE S = {}
      BY <3>1
    <3>2. CASE S # {}
      <4> DEFINE r == S \ {Max(S)}
      <4>1. r \in SUBSET D /\ Cardinality(r) <= n
        BY <1>0, <1>1, <2>2, <3>2
      <4> HIDE DEF r
      <4>2. it[r] = Rule(it, r) /\ next[r] = Rule(it, r)
        BY <2>1, <4>1
      <4>3. next[S] = JoinLocalTeam(it[r], members[Max(S)])
        BY <3>2 DEF r
      <4>4. Rule(next, S) = JoinLocalTeam(next[r], members[Max(S)])
        BY <3>2 DEF r
      <4> HIDE DEF next, Rule
      <4> QED
        BY <4>2, <4>3, <4>4
    <3> QED
      BY <3>1, <3>2
  <2> HIDE DEF next, Rule
  <2>3. Upto(next, n + 1)
    BY <2>2
  <2>4. n + 1 \in Nat /\ \E any : Upto(any, n + 1)
    BY <2>3
  <2> HIDE DEF Upto
  <2> QED
    BY <2>4
<1> HIDE DEF Rule
<1>4. Cardinality(D) \in Reached
  <2> HIDE DEF Reached
  <2> QED
    BY <1>0, <1>2, <1>3, NaturalsOfSet
<1>5. PICK it : Upto(it, Cardinality(D))
  BY <1>4
<1>6. \A S \in SUBSET D : it[S] = Rule(it, S)
  <2>1. \A S \in SUBSET D : Cardinality(S) <= Cardinality(D)
    BY <1>0, FS_Subset
  <2> QED
    BY <1>5, <2>1
<1> DEFINE all == [S \in SUBSET D |-> it[S]]
<1>7. all = [S \in SUBSET D |-> Rule(all, S)]
  <2>1. ASSUME NEW S \in SUBSET D PROVE all[S] = Rule(all, S)
    <3>1. all[S] = Rule(it, S)
      BY <1>6
    <3>2. Rule(it, S) = Rule(all, S)
      <4>1. S # {} => all[S \ {Max(S)}] = it[S \ {Max(S)}]
        BY <1>1
      <4> HIDE DEF all
      <4> QED
        BY <4>1 DEF Rule
    <3> QED
      BY <3>1, <3>2
  <2> HIDE DEF Rule
  <2>2. [S \in SUBSET D |-> Rule(all, S)] = [S \in SUBSET D |-> all[S]]
    <3> HIDE DEF all
    <3> QED
      BY <2>1
  <2> QED
    BY <2>2
<1> HIDE DEF all
<1> QED
  BY <1>7 DEF Joined, Rule

(* The players of a party: each once.                                       *)
LEMMA PartyPlaces ==
  ASSUME NEW members \in Parties
  PROVE  \E m \in Nat : /\ m # 0 /\ DOMAIN members = 1..m
                        /\ \A k \in 1..m : members[k] \in Players
                        /\ \A j, k \in 1..m : members[j] = members[k] => j = k
<1>1. PICK m \in 2..MaxParty : members \in [1..m -> Players]
  BY DEF Parties
<1>2. \A j, k \in DOMAIN members : j # k => members[j] # members[k]
  BY DEF Parties
<1>3. m \in Nat /\ m # 0
  BY <1>1, TeamsAssumption
<1> QED
  BY <1>1, <1>2, <1>3

(* The players of a party leave their first teams and join the new one, in  *)
(* the order of the party.                                                  *)
LEMMA PartyJoins ==
  ASSUME NEW s, Stage(s), NEW members \in Parties
  PROVE  LET made == MadeOf(s, members)
         IN  /\ Orderly(s, made.s, made.team)
             /\ made.team \in DOMAIN made.s.teams
<1> DEFINE it == CHOOSE any : Joined(s, members, any)
           D == DOMAIN members
           Seen(k) == {members[j] : j \in 1..k}
<1>1. PICK m \in Nat : /\ m # 0 /\ D = 1..m
                       /\ \A k \in 1..m : members[k] \in Players
                       /\ \A j, k \in 1..m : members[j] = members[k] => j = k
  BY PartyPlaces
<1> DEFINE Reached == {k \in Nat : k <= m => Joining(s, it[1..k], Seen(k))}
<1>2. Joined(s, members, it)
  <2>1. \E any : Joined(s, members, any)
    BY <1>1, JoiningExists
  <2> QED
    BY <2>1
<1>3. MadeOf(s, members) = it[D]
  BY DEF MadeOf
<1> HIDE DEF it
<1>4. it[{}] = Start(s)
  BY <1>2 DEF Joined
<1>5. \A k \in 1..m : it[1..k] = JoinLocalTeam(it[1..(k - 1)], members[k])
  <2> TAKE k \in 1..m
  <2>1. k \in Nat \ {0} /\ 1..k \in SUBSET D /\ 1..k # {}
    <3>1. k \in Nat \ {0} /\ k <= m
      BY <1>1
    <3>2. \A j \in 1..k : j \in 1..m
      BY <1>1, <3>1
    <3>3. 1 \in 1..k
      BY <3>1
    <3> QED
      BY <1>1, <3>1, <3>2, <3>3
  <2>2. Max(1..k) = k /\ (1..k) \ {k} = 1..(k - 1)
    BY <2>1, MaxIsLast
  <2>3. it[1..k] = JoinLocalTeam(it[(1..k) \ {Max(1..k)}], members[Max(1..k)])
    <3> DEFINE S == 1..k
    <3>1. S \in SUBSET (DOMAIN members) /\ S # {}
      BY <2>1
    <3> HIDE DEF S
    <3>2. it[S] = JoinLocalTeam(it[S \ {Max(S)}], members[Max(S)])
      BY <1>2, <3>1 DEF Joined
    <3> QED
      BY <3>2 DEF S
  <2> QED
    BY <2>2, <2>3
<1>6. 0 \in Reached
  <2>1. 1..0 = {} /\ Seen(0) = {}
    OBVIOUS
  <2>2. it[1..0] = Start(s)
    BY <1>4, <2>1
  <2>3. /\ Start(s) = [s |-> Start(s).s, team |-> Start(s).team]
        /\ Start(s).s = s /\ Start(s).team = LWOOBJID_EMPTY
    BY DEF Start
  <2>4. Joining(s, Start(s), {})
    BY <2>3, OrderlyFirst DEF Joining
  <2> QED
    BY <2>1, <2>2, <2>4
<1>7. ASSUME NEW k \in Nat, k \in Reached
      PROVE  k + 1 \in Reached
  <2> SUFFICES ASSUME k + 1 <= m PROVE Joining(s, it[1..(k + 1)], Seen(k + 1))
    OBVIOUS
  <2> DEFINE acc == it[1..k]
             p == members[k + 1]
             next == it[1..(k + 1)]
             seen == Seen(k)
             more == Seen(k + 1)
  <2>1. k + 1 \in 1..m /\ (k + 1) - 1 = k /\ k <= m
    BY <1>1
  <2>2. Joining(s, acc, seen)
    BY <1>7, <2>1
  <2>3. next = JoinLocalTeam(acc, p)
    BY <1>5, <2>1
  <2>4. p \in Players /\ p \notin seen
    BY <1>1, <2>1
  <2>5. more = seen \cup {p}
    BY <2>1
  <2> HIDE DEF acc, p, next, seen, more
  <2>6. Joining(s, next, more)
    BY <2>2, <2>3, <2>4, <2>5, JoinCorrect
  <2> QED
    BY <2>6 DEF next, more
<1>8. m \in Reached
  <2> HIDE DEF Reached
  <2> QED
    BY <1>1, <1>6, <1>7, NaturalsOfSet
<1>9. Joining(s, it[D], Seen(m))
  BY <1>1, <1>8
<1>10. Seen(m) # {}
  <2>1. 1 \in 1..m
    BY <1>1
  <2>2. members[1] \in Seen(m)
    BY <2>1
  <2> QED
    BY <2>2
<1> HIDE DEF Seen
<1>11. Orderly(s, it[D].s, it[D].team) /\ it[D].team \in DOMAIN it[D].s.teams
  BY <1>9, <1>10 DEF Joining
<1> QED
  BY <1>3, <1>11

-----------------------------------------------------------------------------
(* A team's loot option or zone is changed and the worlds are told.         *)
WithLoot(ts, t, option) == [ts EXCEPT ![t].lootFlag = option]
WithZone(ts, t, zone) == [ts EXCEPT ![t].zoneId = zone]

LEMMA DataChange ==
  ASSUME NEW c, NEW ts, GoodTeams(ts, c), NEW t \in DOMAIN ts,
         NEW option \in Loot, NEW zone \in Zone
  PROVE  /\ GoodTeams(WithLoot(ts, t, option), c) /\ GoodTeams(WithZone(ts, t, zone), c)
         /\ SameBut(ts, WithLoot(ts, t, option), t) /\ SameBut(ts, WithZone(ts, t, zone), t)
         /\ t \in DOMAIN WithLoot(ts, t, option) /\ t \in DOMAIN WithZone(ts, t, zone)
         /\ WithLoot(ts, t, option)[t].memberIDs = ts[t].memberIDs
         /\ WithLoot(ts, t, option)[t].leaderID = ts[t].leaderID
         /\ WithZone(ts, t, zone)[t].memberIDs = ts[t].memberIDs
         /\ WithZone(ts, t, zone)[t].leaderID = ts[t].leaderID
<1> DEFINE a == WithLoot(ts, t, option)
           b == WithZone(ts, t, zone)
<1>1. ts[t] \in TeamData
  BY TeamTypes
<1>2. /\ SameBut(ts, a, t) /\ t \in DOMAIN a /\ a[t] = [ts[t] EXCEPT !.lootFlag = option]
      /\ SameBut(ts, b, t) /\ t \in DOMAIN b /\ b[t] = [ts[t] EXCEPT !.zoneId = zone]
  BY DEF SameBut, WithLoot, WithZone
<1> HIDE DEF a, b
<1>3. /\ a[t] \in TeamData /\ a[t].memberIDs = ts[t].memberIDs /\ a[t].leaderID = ts[t].leaderID
      /\ b[t] \in TeamData /\ b[t].memberIDs = ts[t].memberIDs /\ b[t].leaderID = ts[t].leaderID
  BY <1>1, <1>2 DEF TeamData
<1>4. GoodTeams(a, c)
  BY <1>2, <1>3 DEF GoodTeams, PartialMap, SameBut
<1>5. GoodTeams(b, c)
  BY <1>2, <1>3 DEF GoodTeams, PartialMap, SameBut
<1> QED
  BY <1>2, <1>3, <1>4, <1>5 DEF a, b

(* The last of two broadcasts about the same team is the one that counts.   *)
LEMMA ToldAgain ==
  ASSUME NEW s, Stage(s), NEW t \in DOMAIN s.teams,
         NEW mid, GoodTeams(mid, s.counter), SameBut(s.teams, mid, t), t \in DOMAIN mid,
         mid[t].memberIDs = s.teams[t].memberIDs,
         NEW ts, GoodTeams(ts, s.counter), SameBut(s.teams, ts, t), t \in DOMAIN ts,
         ts[t].memberIDs = s.teams[t].memberIDs
  PROVE  /\ Stage([teams |-> ts, counter |-> s.counter,
                   sent |-> Append(s.sent, Told(ts, t, FALSE))])
         /\ Stage([teams |-> ts, counter |-> s.counter,
                   sent |-> Append(Append(s.sent, Told(mid, t, FALSE)), Told(ts, t, FALSE))])
<1> DEFINE c == s.counter
           v == [teams |-> mid, counter |-> c, sent |-> Append(s.sent, Told(mid, t, FALSE))]
<1>1. c \in Nat /\ c = s.counter
  BY DEF Stage, GoodTeams
<1> HIDE DEF c
<1>2. WasAlone(s, mid, t) /\ WasAlone(s, ts, t)
  BY DEF WasAlone
<1>3. Stage([teams |-> ts, counter |-> c, sent |-> Append(s.sent, Told(ts, t, FALSE))])
  BY <1>1, <1>2, StageTold
<1>4. Stage(v)
  BY <1>1, <1>2, StageTold
<1>5. v.teams = mid /\ v.counter = c /\ v.sent = Append(s.sent, Told(mid, t, FALSE))
  OBVIOUS
<1> HIDE DEF v
<1>6. SameBut(mid, ts, t)
  BY DEF SameBut
<1>7. WasAlone(v, ts, t)
  BY <1>5 DEF WasAlone
<1>8. Stage([teams |-> ts, counter |-> c, sent |-> Append(v.sent, Told(ts, t, FALSE))])
  BY <1>1, <1>4, <1>5, <1>6, <1>7, StageTold
<1> QED
  BY <1>1, <1>3, <1>5, <1>8

(* The end of CreateTeamServer and HandleTeamLootOption: the loot option is *)
(* set, the status told to those who are online, and to the worlds again.   *)
LootTold(s, t, option) == TeamStatusUpdate([s EXCEPT !.teams[t].lootFlag = option], t)

LEMMA LootToldFields ==
  ASSUME NEW s, State(s), NEW t, NEW option
  PROVE  LET ts == WithLoot(s.teams, t, option)
             r == LootTold(s, t, option)
         IN  \/ r = [teams |-> ts, counter |-> s.counter, sent |-> s.sent]
             \/ r = [teams |-> ts, counter |-> s.counter,
                     sent |-> Append(s.sent, Told(ts, t, FALSE))]
<1> DEFINE v == [s EXCEPT !.teams[t].lootFlag = option]
           ts == WithLoot(s.teams, t, option)
<1>1. v = [teams |-> ts, counter |-> s.counter, sent |-> s.sent]
  BY DEF State, WithLoot
<1>2. LootTold(s, t, option) = v \/ LootTold(s, t, option) = UpdateTeamsOnWorld(v, t, FALSE)
  BY DEF LootTold, TeamStatusUpdate
<1> HIDE DEF v, ts
<1>3. State(v) /\ v.teams = ts /\ v.counter = s.counter /\ v.sent = s.sent
  BY <1>1 DEF State
<1>4. UpdateTeamsOnWorld(v, t, FALSE)
        = [teams |-> ts, counter |-> s.counter, sent |-> Append(s.sent, Told(ts, t, FALSE))]
  BY <1>3, UpdateFields
<1> QED
  BY <1>1, <1>2, <1>4 DEF ts

LEMMA LootOptionCorrect ==
  ASSUME NEW s, Stage(s), NEW t \in DOMAIN s.teams, NEW option \in Loot
  PROVE  LET r == UpdateTeamsOnWorld(LootTold(s, t, option), t, FALSE)
         IN  Kept(s, r, t) /\ Members(r, t) = Members(s, t) /\ Led(s, r, t)
<1> DEFINE ts == WithLoot(s.teams, t, option)
           v == LootTold(s, t, option)
           r == UpdateTeamsOnWorld(v, t, FALSE)
<1>1. State(s) /\ GoodTeams(s.teams, s.counter)
  BY DEF Stage
<1>2. /\ GoodTeams(ts, s.counter) /\ SameBut(s.teams, ts, t) /\ t \in DOMAIN ts
      /\ ts[t].memberIDs = s.teams[t].memberIDs /\ ts[t].leaderID = s.teams[t].leaderID
  <2>1. NoZone \in Zone
    BY DEF NoZone, Zone
  <2> QED
    BY <1>1, <2>1, DataChange
<1>3. \/ v = [teams |-> ts, counter |-> s.counter, sent |-> s.sent]
      \/ v = [teams |-> ts, counter |-> s.counter, sent |-> Append(s.sent, Told(ts, t, FALSE))]
  BY <1>1, LootToldFields
<1> HIDE DEF ts, v
<1>4. State(v) /\ v.teams = ts /\ v.counter = s.counter
      /\ (v.sent = s.sent \/ v.sent = Append(s.sent, Told(ts, t, FALSE)))
  <2>1. CASE v = [teams |-> ts, counter |-> s.counter, sent |-> s.sent]
    BY <2>1 DEF State
  <2>2. CASE v = [teams |-> ts, counter |-> s.counter, sent |-> Append(s.sent, Told(ts, t, FALSE))]
    BY <2>2 DEF State
  <2> QED
    BY <1>3, <2>1, <2>2
<1>5. r = [teams |-> ts, counter |-> s.counter, sent |-> Append(v.sent, Told(ts, t, FALSE))]
  BY <1>4, UpdateFields
<1> HIDE DEF r
<1>6. Stage(r) /\ r.teams = ts /\ r.counter = s.counter
  <2> DEFINE once == [teams |-> ts, counter |-> s.counter,
                      sent |-> Append(s.sent, Told(ts, t, FALSE))]
             twice == [teams |-> ts, counter |-> s.counter,
                       sent |-> Append(Append(s.sent, Told(ts, t, FALSE)), Told(ts, t, FALSE))]
  <2>1. r = once \/ r = twice
    BY <1>4, <1>5
  <2>2. Stage(once) /\ Stage(twice)
    BY <1>1, <1>2, ToldAgain
  <2>3. once.teams = ts /\ once.counter = s.counter /\ twice.teams = ts /\ twice.counter = s.counter
    OBVIOUS
  <2> HIDE DEF once, twice
  <2> QED
    BY <2>1, <2>2, <2>3
<1> QED
  BY <1>2, <1>6 DEF Kept, Members, Led, r, v

(* The outcome of CreateTeamServer.                                         *)
PartyTeam(s, members, zone) ==
  LET made == CreateLocalTeam(s, members)
  IN  UpdateTeamsOnWorld([made.s EXCEPT !.teams[made.team].zoneId = zone], made.team, FALSE)

LEMMA PartyTeamCorrect ==
  ASSUME NEW s, Stage(s), NEW members \in Parties, NEW zone \in Zone
  PROVE  \E n : Orderly(s, PartyTeam(s, members, zone), n)
<1> DEFINE made == MadeOf(s, members)
           a == made.s
           n == made.team
           mid == WithLoot(a.teams, n, 1)
           ts == WithZone(mid, n, zone)
           v == LootTold(a, n, 1)
           z == [v EXCEPT !.teams[n].zoneId = zone]
           r == UpdateTeamsOnWorld(z, n, FALSE)
<1>1. Orderly(s, a, n) /\ n \in DOMAIN a.teams
  BY PartyJoins
<1>2. PartyTeam(s, members, zone) = r
  <2> DEFINE local == CreateLocalTeam(s, members)
  <2>1. local = [s |-> v, team |-> n]
    BY LocalTeamIterates DEF LootTold
  <2>2. PartyTeam(s, members, zone)
          = UpdateTeamsOnWorld([local.s EXCEPT !.teams[local.team].zoneId = zone], local.team, FALSE)
    BY DEF PartyTeam
  <2>3. local.s = v /\ local.team = n
    <3> HIDE DEF local, v, n
    <3> QED
      BY <2>1
  <2> HIDE DEF local, v, n
  <2> QED
    BY <2>2, <2>3
<1> HIDE DEF made, a, n
<1>3. Stage(a) /\ State(a) /\ GoodTeams(a.teams, a.counter) /\ a.counter \in Nat
  BY <1>1 DEF Orderly, Stage, GoodTeams
<1>4. 1 \in Loot
  BY DEF Loot
<1>5. /\ GoodTeams(mid, a.counter) /\ SameBut(a.teams, mid, n) /\ n \in DOMAIN mid
      /\ mid[n].memberIDs = a.teams[n].memberIDs /\ mid[n].leaderID = a.teams[n].leaderID
  BY <1>1, <1>3, <1>4, DataChange
<1>6. \/ v = [teams |-> mid, counter |-> a.counter, sent |-> a.sent]
      \/ v = [teams |-> mid, counter |-> a.counter, sent |-> Append(a.sent, Told(mid, n, FALSE))]
  BY <1>3, LootToldFields
<1> HIDE DEF mid, v
<1>7. /\ GoodTeams(ts, a.counter) /\ SameBut(mid, ts, n) /\ n \in DOMAIN ts
      /\ ts[n].memberIDs = mid[n].memberIDs /\ ts[n].leaderID = mid[n].leaderID
  BY <1>4, <1>5, DataChange
<1>8. State(v) /\ v.teams = mid /\ v.counter = a.counter
      /\ (v.sent = a.sent \/ v.sent = Append(a.sent, Told(mid, n, FALSE)))
  <2>1. CASE v = [teams |-> mid, counter |-> a.counter, sent |-> a.sent]
    BY <2>1 DEF State
  <2>2. CASE v = [teams |-> mid, counter |-> a.counter,
                  sent |-> Append(a.sent, Told(mid, n, FALSE))]
    BY <2>2 DEF State
  <2> QED
    BY <1>6, <2>1, <2>2
<1>9. z = [teams |-> ts, counter |-> a.counter, sent |-> v.sent]
  BY <1>8 DEF State, WithZone
<1> HIDE DEF ts, z
<1>10. State(z) /\ z.teams = ts /\ z.counter = a.counter /\ z.sent = v.sent
  BY <1>9 DEF State
<1>11. r = [teams |-> ts, counter |-> a.counter, sent |-> Append(v.sent, Told(ts, n, FALSE))]
  BY <1>10, UpdateFields
<1> HIDE DEF r
<1>12. SameBut(a.teams, ts, n)
  BY <1>5, <1>7 DEF SameBut
<1>13. Stage(r) /\ r.teams = ts /\ r.counter = a.counter
  <2> DEFINE once == [teams |-> ts, counter |-> a.counter,
                      sent |-> Append(a.sent, Told(ts, n, FALSE))]
             twice == [teams |-> ts, counter |-> a.counter,
                       sent |-> Append(Append(a.sent, Told(mid, n, FALSE)), Told(ts, n, FALSE))]
  <2>1. r = once \/ r = twice
    BY <1>8, <1>11
  <2>2. ts[n].memberIDs = a.teams[n].memberIDs
    BY <1>5, <1>7
  <2>3. Stage(once) /\ Stage(twice)
    BY <1>1, <1>3, <1>5, <1>7, <1>12, <2>2, ToldAgain
  <2>4. once.teams = ts /\ once.counter = a.counter /\ twice.teams = ts /\ twice.counter = a.counter
    OBVIOUS
  <2> HIDE DEF once, twice
  <2> QED
    BY <2>1, <2>3, <2>4
<1>14. \A p : n \in TeamsOf(r, p) => Freed(s, a, p)
  <2>1. Members(r, n) = Members(a, n)
    BY <1>5, <1>7, <1>13 DEF Members
  <2>2. \A p : n \in TeamsOf(r, p) => n \in TeamsOf(a, p)
    BY <1>1, <2>1 DEF TeamsOf
  <2> QED
    BY <1>1, <2>2 DEF Orderly
<1>15. /\ n \notin DOMAIN s.teams /\ s.counter \in Nat /\ s.counter <= a.counter
       /\ \A u \in DOMAIN a.teams \ {n} :
            u \in DOMAIN s.teams /\ Members(a, u) \subseteq Members(s, u) /\ Led(s, a, u)
  BY <1>1 DEF Orderly, Stage, GoodTeams
<1>16. SameBut(a.teams, r.teams, n) /\ a.counter <= r.counter
  BY <1>3, <1>12, <1>13
<1>17. Orderly(s, r, n)
  BY <1>3, <1>13, <1>14, <1>15, <1>16, OrderlyJoin
<1> QED
  BY <1>2, <1>17

-----------------------------------------------------------------------------
(* The invariant.                                                           *)

(* The players, as the chat server has them, and the invitations.           *)
PlayersInv ==
  /\ CountInv
  /\ named \subseteq Players
  /\ zoneOf \in [Players -> Zone]
  /\ invites \subseteq Players \X Players

(* The teams and what the worlds know of them.                              *)
TeamsInv ==
  /\ teamCounter <= MaxTeams
  /\ queue = [w \in Worlds |-> queue[w]]
  /\ DOMAIN copies = Worlds
  /\ Stage(Now)

IInv == PlayersInv /\ TeamsInv

LEMMA InitInv == Init => IInv
<1> SUFFICES ASSUME Init PROVE IInv
  OBVIOUS
<1>1. PlayersInv
  <2>1. HomeZone \in Zone
    BY TeamsAssumption DEF Zone
  <2> QED
    BY <2>1, InitCount DEF Init, PlayersInv
<1>2. Now = [teams |-> <<>>, counter |-> 0, sent |-> <<>>] /\ State(Now)
  BY DEF Init, Now, State
<1>3. DOMAIN <<>> = {}
  OBVIOUS
<1>4. GoodTeams(<<>>, 0)
  BY <1>3 DEF GoodTeams, PartialMap
<1>5. <<>> \in Seq(BroadcastTo(0)) /\ <<>> \o <<>> = <<>>
  OBVIOUS
<1>6. \A w \in Worlds : queue[w] = <<>> /\ copies[w] = <<>> /\ Awaited(Now, w) = <<>>
  BY <1>2, <1>5 DEF Init, Awaited
<1>7. Lined(Now)
  BY <1>2, <1>3, <1>5, <1>6 DEF Lined, WorldTypes, PartialMap
<1>8. Follows(<<>>, <<>>, <<>>, 0)
  BY <1>3 DEF Follows
<1>9. Stage(Now)
  BY <1>2, <1>4, <1>6, <1>7, <1>8 DEF Stage
<1>10. teamCounter <= MaxTeams
  BY TeamsAssumption DEF Init
<1> QED
  BY <1>1, <1>9, <1>10 DEF Init, IInv, TeamsInv

LEMMA NowFields == State(Now) /\ Now.teams = teams /\ Now.counter = teamCounter /\ Now.sent = <<>>
BY DEF Now, State

(* The outcome of a handler becomes the chat server's state, and what it    *)
(* sent the end of every queue.                                             *)
LEMMA HandledCorrect ==
  ASSUME TeamsInv, NEW s, Stage(s), Handled(s), copies' = copies
  PROVE  TeamsInv'
<1>1. /\ s.counter <= MaxTeams /\ teams' = s.teams /\ teamCounter' = s.counter
      /\ queue' = [w \in Worlds |-> Awaited(s, w)]
  BY DEF Handled, Awaited
<1>2. Now' = [teams |-> s.teams, counter |-> s.counter, sent |-> <<>>]
  BY <1>1 DEF Now
<1>3. State(Now') /\ (Now').teams = s.teams /\ (Now').counter = s.counter /\ (Now').sent = <<>>
  BY <1>2 DEF State
<1>4. GoodTeams(s.teams, s.counter) /\ s.counter \in Nat /\ Lined(s)
  BY DEF Stage, GoodTeams
<1>5. ASSUME NEW w \in Worlds
      PROVE  /\ queue'[w] = Awaited(s, w) /\ Awaited(s, w) \in Seq(BroadcastTo(s.counter))
             /\ Awaited(s, w) \o <<>> = Awaited(s, w)
             /\ WorldTypes(copies[w], Awaited(s, w), s.counter)
             /\ Follows(copies[w], Awaited(s, w), s.teams, 0)
  <2>1. WorldTypes(copies[w], Awaited(s, w), s.counter)
    BY <1>4 DEF Lined
  <2>2. Awaited(s, w) \in Seq(BroadcastTo(s.counter))
    BY <2>1 DEF WorldTypes
  <2> QED
    BY <1>1, <2>1, <2>2, ConcatEmptySeq DEF Stage
<1>6. <<>> \in Seq(BroadcastTo(s.counter))
  OBVIOUS
<1>7. Lined(Now)'
  BY <1>3, <1>4, <1>5, <1>6 DEF Lined, Awaited
<1>8. Stage(Now)'
  BY <1>3, <1>4, <1>5, <1>7 DEF Stage, Awaited
<1>9. queue' = [w \in Worlds |-> queue'[w]]
  BY <1>1
<1> QED
  BY <1>1, <1>8, <1>9 DEF TeamsInv

-----------------------------------------------------------------------------
(* The steps: what they promise of the leaders and the second teams.        *)

LeaderStep ==
  \A t \in DOMAIN teams \cap DOMAIN teams' :
    (/\ teams[t].leaderID \in Members(Now, t)
     /\ teams[t].leaderID \notin ToSet(teams'[t].memberIDs))
      => teams'[t].leaderID \in ToSet(teams'[t].memberIDs)

SecondStep ==
  \A p \in Players :
    LET before == Cardinality(TeamsOf(Now, p))
        after  == Cardinality(TeamsOf(Now, p)')
    IN (after > 1 /\ after > before)
         => \E q \in Players : <<q, p>> \in invites \ invites'

LEMMA TeamsFinite ==
  ASSUME NEW s, Stage(s), NEW p
  PROVE  IsFiniteSet(TeamsOf(s, p)) /\ Cardinality(TeamsOf(s, p)) \in Nat
<1>1. TeamsOf(s, p) \in SUBSET (1..s.counter) /\ s.counter \in Nat
  BY DEF Stage, GoodTeams, PartialMap, TeamsOf
<1>2. IsFiniteSet(1..s.counter)
  BY <1>1, FS_Interval
<1> QED
  BY <1>1, <1>2, FS_Subset, FS_CardinalityType

(* What the steps promise, of the outcome of a handler.                     *)
LEMMA OutcomeSteps ==
  ASSUME NEW s, teams' = s.teams
  PROVE  /\ (\A t \in DOMAIN teams \cap DOMAIN s.teams : Led(Now, s, t)) => LeaderStep
         /\ \A p : TeamsOf(Now, p)' = TeamsOf(s, p)
<1>1. \A t : Members(Now, t) = ToSet(teams[t].memberIDs)
             /\ Members(s, t) = ToSet(teams'[t].memberIDs)
  BY DEF Now, Members
<1>2. \A p : TeamsOf(Now, p)' = TeamsOf(s, p)
  BY DEF TeamsOf, Members, Now
<1> QED
  BY <1>1, <1>2, NowFields DEF LeaderStep, Led

(* Nobody is in more teams than before, or in more than one.                *)
LEMMA NoMoreTeams ==
  ASSUME NEW s, Stage(s), NEW r, NEW n, Orderly(s, r, n), NEW p
  PROVE  \/ Cardinality(TeamsOf(r, p)) <= 1
         \/ Cardinality(TeamsOf(r, p)) <= Cardinality(TeamsOf(s, p))
<1> DEFINE A == TeamsOf(s, p)
           B == TeamsOf(r, p)
<1>1. Stage(r)
  BY DEF Orderly
<1>2. IsFiniteSet(A) /\ Cardinality(A) \in Nat /\ IsFiniteSet(B) /\ Cardinality(B) \in Nat
  BY <1>1, TeamsFinite
<1>3. B \ {n} \subseteq A
  BY DEF Orderly, TeamsOf
<1>4. n \in B => A = {} \/ \E t \in A : t \notin B
  BY DEF Orderly, Freed
<1>5. n \notin A
  BY DEF Orderly, TeamsOf
<1> HIDE DEF A, B
<1>6. CASE n \notin B
  <2>1. B \in SUBSET A
    BY <1>3, <1>6
  <2>2. Cardinality(B) <= Cardinality(A)
    BY <1>2, <2>1, FS_Subset
  <2> QED
    BY <2>2 DEF A, B
<1>7. CASE n \in B /\ A = {}
  <2>1. B = {n}
    BY <1>3, <1>7
  <2>2. Cardinality(B) = 1
    BY <2>1, FS_Singleton
  <2> QED
    BY <2>2 DEF B
<1>8. CASE n \in B /\ A # {}
  <2>1. PICK t \in A : t \notin B
    BY <1>4, <1>8
  <2> DEFINE C == A \ {t}
             E == B \ {n}
  <2>2. /\ Cardinality(C) = Cardinality(A) - 1 /\ Cardinality(E) = Cardinality(B) - 1
        /\ IsFiniteSet(C)
    BY <1>2, <1>8, OneLess
  <2>3. E \in SUBSET C
    BY <1>3, <2>1
  <2> HIDE DEF C, E
  <2>4. Cardinality(E) <= Cardinality(C)
    BY <2>2, <2>3, FS_Subset
  <2>5. Cardinality(B) <= Cardinality(A)
    BY <1>2, <2>2, <2>4
  <2> QED
    BY <2>5 DEF A, B
<1> QED
  BY <1>6, <1>7, <1>8

LEMMA OrderlySteps ==
  ASSUME TeamsInv, NEW s, NEW n, Orderly(Now, s, n), Handled(s), copies' = copies
  PROVE  TeamsInv' /\ LeaderStep /\ SecondStep
<1>1. Stage(s) /\ Stage(Now) /\ teams' = s.teams
  BY DEF Orderly, TeamsInv, Handled
<1>2. TeamsInv'
  BY <1>1, HandledCorrect
<1>3. LeaderStep
  <2>1. \A t \in DOMAIN teams \cap DOMAIN s.teams : Led(Now, s, t)
    BY NowFields DEF Orderly
  <2> QED
    BY <1>1, <2>1, OutcomeSteps
<1>4. SecondStep
  <2> SUFFICES ASSUME NEW p \in Players,
                      Cardinality(TeamsOf(Now, p)') > 1,
                      Cardinality(TeamsOf(Now, p)') > Cardinality(TeamsOf(Now, p))
               PROVE  FALSE
    BY DEF SecondStep
  <2> DEFINE b == Cardinality(TeamsOf(Now, p))
             a == Cardinality(TeamsOf(s, p))
  <2>1. a > 1 /\ a > b
    BY <1>1, OutcomeSteps
  <2>2. a <= 1 \/ a <= b
    BY <1>1, NoMoreTeams
  <2>3. a \in Nat /\ b \in Nat
    BY <1>1, TeamsFinite
  <2> HIDE DEF a, b
  <2> QED
    BY <2>1, <2>2, <2>3
<1> QED
  BY <1>2, <1>3, <1>4

(* One team changes, and nobody joins it.                                   *)
LEMMA LeavingSteps ==
  ASSUME TeamsInv, NEW s, NEW t \in DOMAIN teams, Kept(Now, s, t),
         t \in DOMAIN s.teams => Members(s, t) \subseteq Members(Now, t) /\ Led(Now, s, t),
         Handled(s), copies' = copies
  PROVE  TeamsInv' /\ LeaderStep /\ SecondStep
<1>1. Stage(Now)
  BY DEF TeamsInv
<1>2. Orderly(Now, Now, LWOOBJID_EMPTY) /\ t \in DOMAIN Now.teams
  BY <1>1, OrderlyFirst, NowFields
<1>3. t # LWOOBJID_EMPTY
  BY <1>2 DEF Orderly
<1>4. Orderly(Now, s, LWOOBJID_EMPTY)
  BY <1>2, <1>3, OrderlyLeave
<1> QED
  BY <1>4, OrderlySteps

(* The player has no team, or this is one of the chat server's teams.       *)
LEMMA TeamNow ==
  ASSUME TeamsInv, NEW p
  PROVE  LET t == GetTeam(Now, p)
         IN  /\ t = LWOOBJID_EMPTY <=> TeamsOf(Now, p) = {}
             /\ t # LWOOBJID_EMPTY => t \in DOMAIN teams
BY GetTeamCorrect, NowFields DEF TeamsInv

LEMMA PartySteps ==
  ASSUME TeamsInv, NEW members \in Parties, NEW zone \in PartyZones,
         CreateTeamServer(members, zone)
  PROVE  TeamsInv' /\ LeaderStep /\ SecondStep
<1> DEFINE s == PartyTeam(Now, members, zone)
<1>1. Handled(s) /\ copies' = copies
  BY DEF CreateTeamServer, PartyTeam
<1>2. zone \in Zone
  BY TeamsAssumption DEF Zone
<1>3. PICK n : Orderly(Now, s, n)
  BY <1>2, PartyTeamCorrect DEF TeamsInv
<1> HIDE DEF s
<1> QED
  BY <1>1, <1>3, OrderlySteps

LEMMA InviteSteps ==
  ASSUME TeamsInv, NEW p \in Players, NEW q \in Players, HandleTeamInvite(p, q)
  PROVE  TeamsInv' /\ LeaderStep /\ SecondStep
<1> DEFINE own == GetTeam(Now, p)
           new == CreateTeam(Now, p, FALSE)
           s == IF own = LWOOBJID_EMPTY THEN new ELSE Now
<1>1. Handled(s) /\ copies' = copies
  BY DEF HandleTeamInvite
<1>2. Stage(Now) /\ Orderly(Now, Now, LWOOBJID_EMPTY)
  BY OrderlyFirst DEF TeamsInv
<1>3. own = LWOOBJID_EMPTY <=> TeamsOf(Now, p) = {}
  BY TeamNow
<1> HIDE DEF own, new
<1>4. CASE own = LWOOBJID_EMPTY
  <2> DEFINE t == Now.counter + 1
             u == Now
  <2>1. /\ Stage(new) /\ new.counter = t /\ SameBut(u.teams, new.teams, t)
        /\ t \notin DOMAIN u.teams /\ Members(new, t) = {p}
    <3>1. Made(Now, new, p)
      BY <1>2, CreateTeamCorrect DEF new
    <3> QED
      BY <3>1 DEF Made
  <2>2. u.counter \in Nat /\ u.counter <= u.counter /\ u.counter <= t
    BY <1>2 DEF Stage, GoodTeams
  <2>3. \A x \in DOMAIN u.teams \ {t} :
          x \in DOMAIN u.teams /\ Members(u, x) \subseteq Members(u, x) /\ Led(u, u, x)
    BY DEF Led
  <2>4. Freed(u, u, p)
    BY <1>3, <1>4 DEF Freed
  <2> HIDE DEF t, u
  <2>5. \A x : t \in TeamsOf(new, x) => Freed(u, u, x)
    <3>1. \A x : t \in TeamsOf(new, x) => x = p
      BY <2>1 DEF TeamsOf
    <3> QED
      BY <2>4, <3>1
  <2>6. Orderly(u, new, t)
    BY <2>1, <2>2, <2>3, <2>5, OrderlyJoin
  <2> QED
    BY <1>1, <1>4, <2>6, OrderlySteps DEF u
<1>5. CASE own # LWOOBJID_EMPTY
  BY <1>1, <1>2, <1>5, OrderlySteps
<1> QED
  BY <1>4, <1>5

(* The only way into a second team: the answer uses up the invitation.      *)
LEMMA AnswerSteps ==
  ASSUME TeamsInv, NEW p \in Players, NEW q \in Players, NEW declined \in BOOLEAN,
         HandleTeamInviteResponse(p, q, declined)
  PROVE  TeamsInv' /\ LeaderStep /\ SecondStep
<1> DEFINE theirs == GetTeam(Now, p)
           t == IF theirs = LWOOBJID_EMPTY THEN GetTeam(Now, q) ELSE theirs
           r == AddMember(Now, t, q)
<1>1. /\ Handled(IF declined \/ t = LWOOBJID_EMPTY THEN Now ELSE r)
      /\ <<p, q>> \in invites \ invites' /\ copies' = copies
  BY DEF HandleTeamInviteResponse
<1>2. Stage(Now) /\ Orderly(Now, Now, LWOOBJID_EMPTY)
  BY OrderlyFirst DEF TeamsInv
<1>3. t # LWOOBJID_EMPTY => t \in DOMAIN teams
  BY TeamNow
<1> HIDE DEF t, r
<1>4. CASE declined \/ t = LWOOBJID_EMPTY
  BY <1>1, <1>2, <1>4, OrderlySteps
<1>5. CASE ~(declined \/ t = LWOOBJID_EMPTY)
  <2>1. /\ Kept(Now, r, t) /\ t \in DOMAIN r.teams
        /\ r.teams[t].leaderID = Now.teams[t].leaderID
        /\ Members(Now, t) \subseteq Members(r, t)
        /\ Members(r, t) \subseteq Members(Now, t) \cup {q}
    BY <1>2, <1>3, <1>5, NowFields, AddMemberCorrect DEF r
  <2>2. Handled(r) /\ Stage(r) /\ SameBut(Now.teams, r.teams, t) /\ teams' = r.teams
    BY <1>1, <1>5, <2>1 DEF Kept, Handled
  <2>3. TeamsInv'
    BY <1>1, <2>2, HandledCorrect
  <2>4. LeaderStep
    <3>1. \A u \in DOMAIN teams \cap DOMAIN r.teams : Led(Now, r, u)
      <4>1. Led(Now, r, t)
        BY <2>1 DEF Led
      <4> QED
        BY <2>2, <4>1, SameTeams, NowFields
    <3> QED
      BY <2>2, <3>1, OutcomeSteps
  <2>5. SecondStep
    <3> SUFFICES ASSUME NEW x \in Players,
                        Cardinality(TeamsOf(Now, x)') > Cardinality(TeamsOf(Now, x))
                 PROVE  \E y \in Players : <<y, x>> \in invites \ invites'
      BY DEF SecondStep
    <3>1. CASE x = q
      BY <1>1, <3>1
    <3>2. CASE x # q
      <4> DEFINE A == TeamsOf(Now, x)
                 B == TeamsOf(r, x)
      <4>1. TeamsOf(Now, x)' = B
        BY <2>2, OutcomeSteps
      <4>2. t \in B => t \in A
        BY <1>3, <1>5, <2>1, <3>2, NowFields DEF TeamsOf
      <4>3. B \in SUBSET A
        BY <2>2, <4>2, SameTeams
      <4>4. IsFiniteSet(A) /\ Cardinality(A) \in Nat /\ Cardinality(B) \in Nat
        BY <1>2, <2>2, TeamsFinite
      <4>5. Cardinality(B) > Cardinality(A)
        BY <4>1
      <4> HIDE DEF A, B
      <4>6. Cardinality(B) <= Cardinality(A)
        BY <4>3, <4>4, FS_Subset
      <4> QED
        BY <4>4, <4>5, <4>6
    <3> QED
      BY <3>1, <3>2
  <2> QED
    BY <2>3, <2>4, <2>5
<1> QED
  BY <1>4, <1>5

LEMMA LeaveSteps ==
  ASSUME TeamsInv, NEW t \in DOMAIN teams, NEW p \in Players,
         Handled(RemoveMember(Now, t, p)), copies' = copies
  PROVE  TeamsInv' /\ LeaderStep /\ SecondStep
<1> DEFINE r == RemoveMember(Now, t, p)
<1>1. Stage(Now) /\ t \in DOMAIN Now.teams
  BY NowFields DEF TeamsInv
<1>2. /\ Kept(Now, r, t)
      /\ t \in DOMAIN r.teams => Members(r, t) = Members(Now, t) \ {p} /\ Led(Now, r, t)
  BY <1>1, RemoveMemberCorrect DEF Led
<1> HIDE DEF r
<1>3. Handled(r)
  BY DEF r
<1> QED
  BY <1>2, <1>3, LeavingSteps

(* The promoted player leads; who is a member does not change.              *)
LEMMA PromoteSteps ==
  ASSUME TeamsInv, NEW t \in DOMAIN teams, NEW p \in Players,
         Handled(PromoteMember(Now, t, p)), copies' = copies
  PROVE  TeamsInv' /\ LeaderStep /\ SecondStep
<1> DEFINE r == PromoteMember(Now, t, p)
<1>1. Stage(Now) /\ t \in DOMAIN Now.teams
  BY NowFields DEF TeamsInv
<1>2. /\ Kept(Now, r, t) /\ t \in DOMAIN r.teams
      /\ r.teams[t].memberIDs = Now.teams[t].memberIDs /\ Members(r, t) = Members(Now, t)
  BY <1>1, PromoteCorrect
<1> HIDE DEF r
<1>3. Handled(r) /\ Stage(r) /\ teams' = r.teams /\ SameBut(Now.teams, r.teams, t)
  BY <1>2 DEF r, Handled, Kept
<1>4. TeamsInv'
  BY <1>3, HandledCorrect
<1>5. \A u \in DOMAIN teams \cap DOMAIN teams' :
        Members(Now, u) = ToSet(teams'[u].memberIDs)
  <2> SUFFICES ASSUME NEW u \in DOMAIN teams \cap DOMAIN teams'
               PROVE  Members(Now, u) = ToSet(teams'[u].memberIDs)
    OBVIOUS
  <2>1. CASE u = t
    BY <1>2, <1>3, <2>1 DEF Members
  <2>2. CASE u # t
    BY <1>3, <2>2, NowFields DEF Members, SameBut
  <2> QED
    BY <2>1, <2>2
<1>6. LeaderStep
  BY <1>5 DEF LeaderStep
<1>7. SecondStep
  <2> SUFFICES ASSUME NEW x \in Players,
                      Cardinality(TeamsOf(Now, x)') > Cardinality(TeamsOf(Now, x))
               PROVE  FALSE
    BY DEF SecondStep
  <2>1. TeamsOf(Now, x)' = TeamsOf(r, x)
    BY <1>3, OutcomeSteps
  <2>2. TeamsOf(r, x) = TeamsOf(Now, x)
    <3>1. \A u : u \in TeamsOf(r, x) <=> u \in TeamsOf(Now, x)
      <4>1. t \in TeamsOf(r, x) <=> t \in TeamsOf(Now, x)
        BY <1>1, <1>2 DEF TeamsOf
      <4>2. \A u : u # t => (u \in TeamsOf(r, x) <=> u \in TeamsOf(Now, x))
        BY <1>3 DEF SameBut, TeamsOf, Members
      <4> QED
        BY <4>1, <4>2
    <3> QED
      BY <3>1 DEF TeamsOf
  <2>3. Cardinality(TeamsOf(Now, x)) \in Nat
    BY <1>1, TeamsFinite
  <2> QED
    BY <2>1, <2>2, <2>3
<1> QED
  BY <1>4, <1>6, <1>7

LEMMA LootSteps ==
  ASSUME TeamsInv, NEW p \in Players, NEW option \in Loot, HandleTeamLootOption(p, option)
  PROVE  TeamsInv' /\ LeaderStep /\ SecondStep
<1> DEFINE t == GetTeam(Now, p)
           r == UpdateTeamsOnWorld(LootTold(Now, t, option), t, FALSE)
<1>1. t # LWOOBJID_EMPTY /\ Handled(r) /\ copies' = copies
  BY DEF HandleTeamLootOption, LootTold
<1>2. t \in DOMAIN teams
  BY <1>1, TeamNow
<1> HIDE DEF t
<1>3. Stage(Now) /\ t \in DOMAIN Now.teams
  BY <1>2, NowFields DEF TeamsInv
<1>4. Kept(Now, r, t) /\ Members(r, t) = Members(Now, t) /\ Led(Now, r, t)
  BY <1>3, LootOptionCorrect
<1> HIDE DEF r
<1> QED
  BY <1>1, <1>2, <1>4, LeavingSteps

LEMMA StatusSteps ==
  ASSUME TeamsInv, NEW p \in Players, HandleTeamStatusRequest(p)
  PROVE  TeamsInv' /\ LeaderStep /\ SecondStep
<1> DEFINE t == GetTeam(Now, p)
           v == TeamStatusUpdate(Now, t)
           r == UpdateTeamsOnWorld(v, t, FALSE)
           d == DisbandTeam(Now, t)
<1>1. /\ t # LWOOBJID_EMPTY /\ copies' = copies
      /\ \/ Handled(RemoveMember(Now, t, p))
         \/ Handled(d)
         \/ Handled(r)
  BY DEF HandleTeamStatusRequest
<1>2. t \in DOMAIN teams
  BY <1>1, TeamNow
<1> HIDE DEF t
<1>3. Stage(Now) /\ t \in DOMAIN Now.teams
  BY <1>2, NowFields DEF TeamsInv
<1>4. CASE Handled(RemoveMember(Now, t, p))
  BY <1>1, <1>2, <1>4, LeaveSteps
<1>5. CASE Handled(d)
  <2>1. Kept(Now, d, t) /\ t \notin DOMAIN d.teams
    BY <1>3, DisbandTeamCorrect
  <2> HIDE DEF d
  <2> QED
    BY <1>1, <1>2, <1>5, <2>1, LeavingSteps
<1>6. CASE Handled(r)
  <2>1. Kept(Now, v, t) /\ v.teams = Now.teams
    BY <1>3, StatusCorrect
  <2> HIDE DEF v
  <2>2. Stage(v) /\ t \in DOMAIN v.teams
    BY <1>3, <2>1 DEF Kept
  <2>3. Kept(v, r, t) /\ r.teams = v.teams
    BY <2>2, UpdateCorrect
  <2> HIDE DEF r
  <2>4. Kept(Now, r, t)
    BY <2>1, <2>3 DEF Kept
  <2>5. Members(r, t) = Members(Now, t) /\ Led(Now, r, t)
    BY <2>1, <2>3 DEF Members, Led
  <2> QED
    BY <1>1, <1>2, <1>6, <2>4, <2>5, LeavingSteps
<1> QED
  BY <1>1, <1>4, <1>5, <1>6

LEMMA QuietSteps ==
  ASSUME TeamsInv, teams' = teams
  PROVE  LeaderStep /\ SecondStep
<1>1. LeaderStep
  BY DEF LeaderStep, Members, Now
<1>2. \A p : TeamsOf(Now, p)' = TeamsOf(Now, p)
  BY DEF TeamsOf, Members, Now
<1>3. \A p : Cardinality(TeamsOf(Now, p)) \in Nat
  BY TeamsFinite DEF TeamsInv
<1>4. SecondStep
  <2> SUFFICES ASSUME NEW p \in Players,
                      Cardinality(TeamsOf(Now, p)') > Cardinality(TeamsOf(Now, p))
               PROVE  FALSE
    BY DEF SecondStep
  <2>1. Cardinality(TeamsOf(Now, p)') = Cardinality(TeamsOf(Now, p))
    BY <1>2
  <2> QED
    BY <1>3, <2>1
<1> QED
  BY <1>1, <1>4

(* The chat server's players come and go without its teams.                 *)
LEMMA SameTeamsInv ==
  ASSUME TeamsInv, UNCHANGED <<teams, teamCounter, queue, copies>>
  PROVE  TeamsInv'
BY DEF TeamsInv, Stage, Now, State, Lined, Awaited

(* Who is found is a player, by name or in the shared entry.                *)
LEMMA FoundByName ==
  ASSUME IInv, NEW q \in Players
  PROVE  FindByName(q) # LWOOBJID_EMPTY => FindByName(q) \in Players
BY DEF IInv, PlayersInv, CountInv, FindByName

LEMMA PlayerSteps ==
  ASSUME IInv, NEW p \in Players, PlayerStep(p)
  PROVE  TeamsInv' /\ LeaderStep /\ SecondStep
<1> USE DEF IInv
<1>1. ASSUME NEW q \in Players, HandleTeamInvite(p, q)
      PROVE  TeamsInv' /\ LeaderStep /\ SecondStep
  BY <1>1, InviteSteps
<1>2. ASSUME NEW q \in Players, NEW declined \in BOOLEAN, HandleTeamInviteResponse(q, p, declined)
      PROVE  TeamsInv' /\ LeaderStep /\ SecondStep
  BY <1>2, AnswerSteps
<1>3. CASE HandleTeamLeave(p)
  BY <1>3, TeamNow, LeaveSteps DEF HandleTeamLeave
<1>4. ASSUME NEW q \in Players, HandleTeamKick(p, q)
      PROVE  TeamsInv' /\ LeaderStep /\ SecondStep
  <2> DEFINE kicked == IF FindByName(q) # LWOOBJID_EMPTY THEN FindByName(q) ELSE q
  <2>1. kicked \in Players
    BY FoundByName
  <2> QED
    BY <1>4, <2>1, TeamNow, LeaveSteps DEF HandleTeamKick
<1>5. ASSUME NEW q \in Players, HandleTeamPromote(p, q)
      PROVE  TeamsInv' /\ LeaderStep /\ SecondStep
  <2>1. FindByName(q) \in Players
    BY <1>5, FoundByName DEF HandleTeamPromote
  <2> QED
    BY <1>5, <2>1, TeamNow, PromoteSteps DEF HandleTeamPromote
<1>6. ASSUME NEW option \in Loot, HandleTeamLootOption(p, option)
      PROVE  TeamsInv' /\ LeaderStep /\ SecondStep
  BY <1>6, LootSteps
<1>7. CASE HandleTeamStatusRequest(p)
  BY <1>7, StatusSteps
<1>8. ASSUME NEW q \in Players, HandleFriendRequest(p, q)
      PROVE  TeamsInv' /\ LeaderStep /\ SecondStep
  <2>1. UNCHANGED <<teams, teamCounter, queue, copies>>
    BY <1>8 DEF HandleFriendRequest, chat
  <2> QED
    BY <2>1, SameTeamsInv, QuietSteps
<1> QED
  BY <1>1, <1>2, <1>3, <1>4, <1>5, <1>6, <1>7, <1>8 DEF PlayerStep

(* A world reads what is next in its queue.                                 *)
LEMMA ReadInv ==
  ASSUME TeamsInv, NEW w \in Worlds, HandleChatPacket(w)
  PROVE  TeamsInv'
<1> DEFINE q == queue[w]
           m == Head(q)
           c == teamCounter
<1>1. /\ q # <<>> /\ teams' = teams /\ teamCounter' = c
      /\ copies' = [copies EXCEPT ![w] = Reads(copies[w], m)]
      /\ queue' = [queue EXCEPT ![w] = Tail(q)]
  BY DEF HandleChatPacket, Reads
<1>2. /\ Stage(Now) /\ GoodTeams(teams, c) /\ c \in Nat /\ Lined(Now)
      /\ queue = [v \in Worlds |-> queue[v]] /\ DOMAIN copies = Worlds
  BY NowFields DEF TeamsInv, Stage, GoodTeams
<1>3. \A v \in Worlds :
        /\ queue[v] \in Seq(BroadcastTo(c)) /\ Awaited(Now, v) = queue[v]
        /\ WorldTypes(copies[v], queue[v], c) /\ Follows(copies[v], queue[v], teams, 0)
  <2> TAKE v \in Worlds
  <2>1. queue[v] \in Seq(BroadcastTo(c))
    BY <1>2, NowFields DEF Lined
  <2>2. Awaited(Now, v) = queue[v]
    BY <2>1, NowFields, ConcatEmptySeq DEF Awaited
  <2> QED
    BY <1>2, <2>1, <2>2, NowFields DEF Lined, Stage
<1>4. /\ Follows(Reads(copies[w], m), Tail(q), teams, 0)
      /\ WorldTypes(Reads(copies[w], m), Tail(q), c)
  BY <1>1, <1>2, <1>3, FollowsRead
<1> HIDE DEF q, m, c
<1>5. /\ \A v \in Worlds : queue'[v] = IF v = w THEN Tail(q) ELSE queue[v]
      /\ \A v \in Worlds : copies'[v] = IF v = w THEN Reads(copies[w], m) ELSE copies[v]
      /\ queue' = [v \in Worlds |-> queue'[v]] /\ DOMAIN copies' = Worlds
  BY <1>1, <1>2
<1>6. \A v \in Worlds :
        /\ queue'[v] \in Seq(BroadcastTo(c)) /\ queue'[v] \o <<>> = queue'[v]
        /\ WorldTypes(copies'[v], queue'[v], c) /\ Follows(copies'[v], queue'[v], teams, 0)
  <2> TAKE v \in Worlds
  <2>1. WorldTypes(copies'[v], queue'[v], c) /\ Follows(copies'[v], queue'[v], teams, 0)
    BY <1>3, <1>4, <1>5
  <2>2. queue'[v] \in Seq(BroadcastTo(c))
    BY <2>1 DEF WorldTypes
  <2> QED
    BY <2>1, <2>2, ConcatEmptySeq
<1>7. /\ State(Now)' /\ (Now').teams = teams /\ (Now').counter = c /\ (Now').sent = <<>>
  BY <1>1 DEF Now, State, c
<1>8. <<>> \in Seq(BroadcastTo(c))
  OBVIOUS
<1>9. Lined(Now)'
  BY <1>2, <1>6, <1>7, <1>8 DEF Lined, Awaited
<1>10. Stage(Now)'
  BY <1>2, <1>6, <1>7, <1>9 DEF Stage, Awaited
<1>11. teamCounter' <= MaxTeams
  BY <1>1 DEF TeamsInv, c
<1> QED
  BY <1>5, <1>10, <1>11 DEF TeamsInv

(* A world that starts knows nothing and is behind with nothing.            *)
LEMMA StartInv ==
  ASSUME TeamsInv, NEW w \in Worlds, WorldStarts(w)
  PROVE  TeamsInv'
<1> DEFINE c == teamCounter
<1>1. /\ teams' = teams /\ teamCounter' = c
      /\ copies' = [copies EXCEPT ![w] = <<>>]
      /\ queue' = [queue EXCEPT ![w] = <<>>]
  BY DEF WorldStarts
<1>2. /\ Stage(Now) /\ GoodTeams(teams, c) /\ c \in Nat /\ Lined(Now)
      /\ queue = [v \in Worlds |-> queue[v]] /\ DOMAIN copies = Worlds
  BY NowFields DEF TeamsInv, Stage, GoodTeams
<1>3. \A v \in Worlds :
        /\ queue[v] \in Seq(BroadcastTo(c)) /\ queue[v] \o <<>> = queue[v]
        /\ WorldTypes(copies[v], queue[v], c) /\ Follows(copies[v], queue[v], teams, 0)
  <2> TAKE v \in Worlds
  <2>1. queue[v] \in Seq(BroadcastTo(c))
    BY <1>2, NowFields DEF Lined
  <2>2. Awaited(Now, v) = queue[v] /\ queue[v] \o <<>> = queue[v]
    BY <2>1, NowFields, ConcatEmptySeq DEF Awaited
  <2> QED
    BY <1>2, <2>1, <2>2, NowFields DEF Lined, Stage
<1> HIDE DEF c
<1>4. /\ <<>> \in Seq(BroadcastTo(c)) /\ <<>> \o <<>> = <<>> /\ DOMAIN <<>> = {}
      /\ WorldTypes(<<>>, <<>>, c) /\ Follows(<<>>, <<>>, teams, 0)
  <2>1. <<>> \in Seq(BroadcastTo(c)) /\ <<>> \o <<>> = <<>> /\ DOMAIN <<>> = {}
    OBVIOUS
  <2>2. WorldTypes(<<>>, <<>>, c)
    BY <2>1 DEF WorldTypes, PartialMap
  <2>3. Follows(<<>>, <<>>, teams, 0)
    BY <2>1 DEF Follows, Alone, About
  <2> QED
    BY <2>1, <2>2, <2>3
<1>5. /\ \A v \in Worlds : queue'[v] = IF v = w THEN <<>> ELSE queue[v]
      /\ \A v \in Worlds : copies'[v] = IF v = w THEN <<>> ELSE copies[v]
      /\ queue' = [v \in Worlds |-> queue'[v]] /\ DOMAIN copies' = Worlds
  BY <1>1, <1>2
<1>6. \A v \in Worlds :
        /\ queue'[v] \in Seq(BroadcastTo(c)) /\ queue'[v] \o <<>> = queue'[v]
        /\ WorldTypes(copies'[v], queue'[v], c) /\ Follows(copies'[v], queue'[v], teams, 0)
  BY <1>3, <1>4, <1>5
<1>7. /\ State(Now)' /\ (Now').teams = teams /\ (Now').counter = c /\ (Now').sent = <<>>
  BY <1>1 DEF Now, State, c
<1>8. Lined(Now)'
  BY <1>2, <1>4, <1>6, <1>7 DEF Lined, Awaited
<1>9. Stage(Now)'
  BY <1>2, <1>6, <1>7, <1>8 DEF Stage, Awaited
<1>10. teamCounter' <= MaxTeams
  BY <1>1 DEF TeamsInv, c
<1> QED
  BY <1>5, <1>9, <1>10 DEF TeamsInv

-----------------------------------------------------------------------------
(* The theorems.                                                            *)

LEMMA NextTeams ==
  ASSUME IInv, [Next]_vars
  PROVE  TeamsInv' /\ LeaderStep /\ SecondStep
<1> USE DEF IInv
<1>1. ASSUME NEW p \in Players, NEW zone \in Zones, InsertPlayer(p, zone)
      PROVE  UNCHANGED <<teams, teamCounter, queue, copies>>
  BY <1>1 DEF InsertPlayer, chat
<1>2. ASSUME NEW p \in Players, RemovePlayer(p)
      PROVE  UNCHANGED <<teams, teamCounter, queue, copies>>
  BY <1>2 DEF RemovePlayer, chat
<1>3. CASE UNCHANGED <<teams, teamCounter, queue, copies>>
  BY <1>3, SameTeamsInv, QuietSteps
<1>4. ASSUME NEW members \in Parties, NEW zone \in PartyZones, CreateTeamServer(members, zone)
      PROVE  TeamsInv' /\ LeaderStep /\ SecondStep
  BY <1>4, PartySteps
<1>5. ASSUME NEW p \in Players, PlayerStep(p)
      PROVE  TeamsInv' /\ LeaderStep /\ SecondStep
  BY <1>5, PlayerSteps
<1>6. ASSUME NEW w \in Worlds, HandleChatPacket(w)
      PROVE  TeamsInv' /\ LeaderStep /\ SecondStep
  <2>1. teams' = teams
    BY <1>6 DEF HandleChatPacket
  <2> QED
    BY <1>6, <2>1, ReadInv, QuietSteps
<1>7. ASSUME NEW w \in Worlds, WorldStarts(w)
      PROVE  TeamsInv' /\ LeaderStep /\ SecondStep
  <2>1. teams' = teams
    BY <1>7 DEF WorldStarts
  <2> QED
    BY <1>7, <2>1, StartInv, QuietSteps
<1>8. UNCHANGED vars => UNCHANGED <<teams, teamCounter, queue, copies>>
  BY DEF vars, chat
<1>9. RemoveNobody => UNCHANGED <<teams, teamCounter, queue, copies>>
  BY DEF RemoveNobody, chat
<1> QED
  BY <1>1, <1>2, <1>3, <1>4, <1>5, <1>6, <1>7, <1>8, <1>9 DEF Next

(* Who is known, where and by which name, and who was invited by whom.      *)
LEMMA NextPlayers ==
  ASSUME PlayersInv, [Next]_vars
  PROVE  PlayersInv'
<1>1. CountInv' /\ CountInv
  BY NextCount DEF PlayersInv
<1>2. ASSUME UNCHANGED <<named, zoneOf>>, invites' \subseteq Players \X Players
      PROVE  PlayersInv'
  BY <1>1, <1>2 DEF PlayersInv
<1>3. invites \subseteq Players \X Players
  BY DEF PlayersInv
<1>4. ASSUME NEW p \in Players, NEW zone \in Zones, InsertPlayer(p, zone)
      PROVE  PlayersInv'
  <2>1. zone \in Zone
    BY TeamsAssumption DEF Zone
  <2>2. /\ named' \subseteq named \cup {p} /\ zoneOf' = [zoneOf EXCEPT ![p] = zone]
        /\ invites' = invites
    BY <1>4 DEF InsertPlayer
  <2> QED
    BY <1>1, <2>1, <2>2 DEF PlayersInv
<1>5. ASSUME NEW p \in Players, RemovePlayer(p)
      PROVE  PlayersInv'
  <2>1. NoZone \in Zone
    BY DEF NoZone, Zone
  <2>2. /\ named' = named /\ zoneOf' = [zoneOf EXCEPT ![p] = NoZone]
        /\ invites' = invites
    BY <1>5 DEF RemovePlayer
  <2> QED
    BY <1>1, <2>1, <2>2 DEF PlayersInv
<1>6. CASE UNCHANGED <<named, zoneOf, invites>>
  BY <1>2, <1>3, <1>6
<1>7. RemoveNobody => UNCHANGED <<named, zoneOf, invites>>
  BY DEF RemoveNobody
<1>8. ASSUME NEW members \in Parties, NEW zone \in PartyZones, CreateTeamServer(members, zone)
      PROVE  UNCHANGED <<named, zoneOf, invites>>
  BY <1>8 DEF CreateTeamServer, players
<1>9. ASSUME NEW p \in Players, PlayerStep(p)
      PROVE  PlayersInv'
  <2>1. ASSUME NEW q \in Players, HandleTeamInvite(p, q)
        PROVE  PlayersInv'
    <3>1. /\ UNCHANGED <<named, zoneOf>>
          /\ invites' = invites \cup {<<GetPlayerData(p), q>>} \/ invites' = invites
      BY <2>1 DEF HandleTeamInvite, players
    <3>2. GetPlayerData(p) \in Players
      BY <1>1, <2>1 DEF HandleTeamInvite, Known, GetPlayerData, CountInv
    <3> QED
      BY <1>2, <1>3, <3>1, <3>2
  <2>2. ASSUME NEW q \in Players, NEW declined \in BOOLEAN,
               HandleTeamInviteResponse(q, p, declined)
        PROVE  PlayersInv'
    <3>1. UNCHANGED <<named, zoneOf>> /\ invites' = invites \ {<<q, p>>}
      BY <2>2 DEF HandleTeamInviteResponse, players
    <3> QED
      BY <1>2, <1>3, <3>1
  <2>3. ASSUME NEW q \in Players,
               \/ HandleTeamKick(p, q) \/ HandleTeamPromote(p, q)
               \/ HandleFriendRequest(p, q)
        PROVE  UNCHANGED <<named, zoneOf, invites>>
    BY <2>3 DEF HandleTeamKick, HandleTeamPromote, HandleFriendRequest, players
  <2>4. ASSUME NEW option \in Loot, HandleTeamLootOption(p, option)
        PROVE  UNCHANGED <<named, zoneOf, invites>>
    BY <2>4 DEF HandleTeamLootOption, players
  <2>5. HandleTeamLeave(p) \/ HandleTeamStatusRequest(p)
          => UNCHANGED <<named, zoneOf, invites>>
    BY DEF HandleTeamLeave, HandleTeamStatusRequest, players
  <2> QED
    BY <1>6, <1>9, <2>1, <2>2, <2>3, <2>4, <2>5 DEF PlayerStep
<1>10. ASSUME NEW w \in Worlds, HandleChatPacket(w) \/ WorldStarts(w)
       PROVE  UNCHANGED <<named, zoneOf, invites>>
  BY <1>10 DEF HandleChatPacket, WorldStarts, players
<1>11. UNCHANGED vars => UNCHANGED <<named, zoneOf, invites>>
  BY DEF vars, players
<1> QED
  BY <1>4, <1>5, <1>6, <1>7, <1>8, <1>9, <1>10, <1>11 DEF Next

(* The invariant the theorems below rest on: at the end of every packet the *)
(* chat state is one of the middle of a packet with nothing sent yet.       *)
THEOREM InvAlways == Spec => []IInv
<1>1. IInv /\ [Next]_vars => IInv'
  BY NextTeams, NextPlayers DEF IInv
<1> QED
  BY <1>1, InitInv, PTL DEF Spec

LEMMA InvType == IInv => TypeOK
<1> SUFFICES ASSUME IInv PROVE TypeOK
  OBVIOUS
<1> DEFINE c == teamCounter
<1>1. /\ GoodTeams(teams, c) /\ c \in Nat /\ c <= MaxTeams /\ Lined(Now)
      /\ queue = [w \in Worlds |-> queue[w]]
  BY NowFields DEF IInv, TeamsInv, Stage, GoodTeams
<1>2. MaxTeams \in Nat /\ 1..c \subseteq TeamIds /\ c \in 0..MaxTeams
  BY <1>1, TeamsAssumption DEF TeamIds
<1> HIDE DEF c
<1>3. ASSUME NEW w \in Worlds
      PROVE  /\ queue[w] \in Seq(Broadcast)
             /\ PartialMap(copies[w], TeamIds, [members: Seq(Players), lootOption: Loot])
  <2>1. /\ queue[w] \in Seq(BroadcastTo(c)) /\ WorldTypes(copies[w], Awaited(Now, w), c)
    BY <1>1, NowFields DEF Lined, c
  <2>2. BroadcastTo(c) \subseteq Broadcast
    BY <1>2 DEF BroadcastTo, Broadcast
  <2>3. queue[w] \in Seq(Broadcast)
    BY <2>1, <2>2
  <2>4. PartialMap(copies[w], 1..c, Copy)
    BY <2>1 DEF WorldTypes
  <2> QED
    BY <1>2, <2>3, <2>4 DEF PartialMap, Copy
<1>4. queue \in [Worlds -> Seq(Broadcast)]
  BY <1>1, <1>3
<1>5. /\ PartialMap(teams, 1..c, TeamData)
      /\ \A t \in DOMAIN teams : teams[t].memberIDs # <<>> /\ IsInjective(teams[t].memberIDs)
  BY <1>1 DEF GoodTeams
<1>6. /\ online \subseteq Players /\ playerCount \in 0..(CountRange - 1)
      /\ stray \in Players \cup {LWOOBJID_EMPTY} /\ strays \in Nat
      /\ named \subseteq Players /\ zoneOf \in [Players -> Zone] /\ moves \in Nat
      /\ invites \subseteq Players \X Players
  BY CountNumbers DEF IInv, PlayersInv, CountInv
<1> QED
  BY <1>2, <1>3, <1>4, <1>5, <1>6 DEF TypeOK, c

(* Types: whatever the order of the worlds' notices and of the players'     *)
(* commands, every team has a member, and each once.                        *)
THEOREM TypeCorrect == Spec => []TypeOK
BY InvAlways, InvType, PTL

(* A world that has read all it was sent knows no team that was disbanded,  *)
(* and of the others the members up to those it was not told of.            *)
THEOREM CopiesCorrect == Spec => []CopiesFollow
<1>1. IInv => CopiesFollow
  <2> SUFFICES ASSUME IInv, NEW w \in Worlds, queue[w] = <<>>,
                      NEW t \in DOMAIN copies[w]
               PROVE  /\ t \in DOMAIN teams
                      /\ IsPrefix(copies[w][t].members, teams[t].memberIDs)
                      /\ copies[w][t].lootOption = teams[t].lootFlag
    BY DEF CopiesFollow
  <2>1. Awaited(Now, w) = <<>>
    <3>1. <<>> \o <<>> = <<>>
      OBVIOUS
    <3> QED
      BY <3>1, NowFields DEF Awaited
  <2>2. Follows(copies[w], <<>>, teams, 0)
    BY <2>1, NowFields DEF IInv, TeamsInv, Stage
  <2>3. About(<<>>, t) = {}
    BY DEF About
  <2> QED
    BY <2>2, <2>3 DEF Follows
<1> QED
  BY <1>1, InvAlways, PTL

(* A world always finds an owner for the loot of a team that it knows: an   *)
(* empty team is only ever told of before it is disbanded, and to worlds    *)
(* that do not know it.                                                     *)
THEOREM LootOwnerCorrect == Spec => []LootOwnerExists
<1>1. IInv => LootOwnerExists
  BY DEF IInv, TeamsInv, Stage, Follows, LootOwnerExists
<1> QED
  BY <1>1, InvAlways, PTL

(* A leader who leaves is followed by one who stays: by RemoveMember, and   *)
(* nothing else takes a leader out of a team.                               *)
THEOREM LeadershipCorrect == Spec => LeadershipPassesOn
<1>1. IInv /\ [Next]_vars => LeaderStep
  BY NextTeams
<1>2. Spec => [][LeaderStep]_vars
  BY <1>1, InvAlways, PTL DEF Spec
<1> QED
  BY <1>2 DEF LeadershipPassesOn, LeaderStep

(* Nobody comes to be in a second team but by an answer: the team of an     *)
(* activity takes each of its players out of a team they had.               *)
THEOREM SecondTeamCorrect == Spec => SecondTeamByInviteOnly
<1>1. IInv /\ [Next]_vars => SecondStep
  BY NextTeams
<1>2. Spec => [][SecondStep]_vars
  BY <1>1, InvAlways, PTL DEF Spec
<1> QED
  BY <1>2 DEF SecondTeamByInviteOnly, SecondStep
=============================================================================
