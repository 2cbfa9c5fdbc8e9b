-------------------------------- MODULE Teams --------------------------------
(***************************************************************************)
(* The players and teams of the chat server (dChatServer/PlayerContainer),  *)
(* the packets that change them, and the copies of the teams that the       *)
(* worlds keep from the chat server's broadcasts (dGame/TeamManager).       *)
(*                                                                         *)
(* Worlds announce the arrival and departure of players RELIABLE but not    *)
(* ordered, on links of their own, so the chat server meets them in any     *)
(* order.  What it sends to the worlds is ordered.  A player's invitations  *)
(* and commands reach the chat server whether or not it still knows the     *)
(* player.                                                                  *)
(*                                                                         *)
(* A player that is not found is looked up as the entry of LWOOBJID_EMPTY   *)
(* in m_Players, which all such lookups share: it counts as no player until *)
(* a best-friend request writes a friend who is offline into it.            *)
(***************************************************************************)
EXTENDS Integers, Sequences, FiniteSets, SequencesExt

CONSTANTS
  Players,
  Worlds,
  Zones,          \* the zones players are in: records [map, clone]
  PartyZones,     \* the zones of activities
  MaxMembers,     \* members of a full team: 4 in the code
  DefaultLoot,    \* default_team_loot of the configuration, 0 or 1
  MaxTeams,       \* bound on the teams ever made
  HomeZone,       \* where the players are at first
  MaxMoves,       \* bound on the arrivals and departures after that
  MaxStrays,      \* bound on the players written into the shared entry
  MaxInvites,     \* bound on the invitations not yet answered
  MaxParty,       \* bound on the players of one activity
  CountRange,     \* the values of m_PlayerCount: 2^32 in the code
  MaxBacklog      \* the broadcasts a world may be behind by

LWOOBJID_EMPTY == 0
LWOMAPID_INVALID == -1
LWOCLONEID_INVALID == -1
TeamIds == 1..MaxTeams

ASSUME TeamsAssumption ==
  /\ IsFiniteSet(Players) /\ LWOOBJID_EMPTY \notin Players
  /\ Zones \cup PartyZones \subseteq [map: Nat, clone: Nat]
  /\ HomeZone \in Zones
  /\ MaxMembers \in Nat \ {0, 1}
  /\ DefaultLoot \in {0, 1}
  /\ {MaxTeams, MaxMoves, MaxStrays, MaxInvites, MaxParty, MaxBacklog} \subseteq Nat
  /\ CountRange \in Nat /\ Cardinality(Players) + MaxMoves < CountRange

VARIABLES
  online,       \* m_Players: the players the chat server knows to be in game
  zoneOf,       \* their zones
  named,        \* the players that their name finds (m_Names, playerName)
  playerCount,  \* m_PlayerCount
  stray,        \* the playerID of m_Players[LWOOBJID_EMPTY]
  strays,       \* how often a player was written there
  teams,        \* mTeams, by team id; ids grow, as their order in mTeams
  teamCounter,  \* m_TeamIDCounter
  invites,      \* invitations shown to a player: <<inviter, player>>
  queue,        \* what is on its way to each world
  copies,       \* m_Teams of each world
  moves         \* the arrivals and departures so far

players == <<online, zoneOf, named, playerCount, stray, strays, moves>>
chat == <<teams, teamCounter, queue>>
vars == <<players, chat, invites, copies>>

Zone   == [map: Nat \cup {LWOMAPID_INVALID}, clone: Nat \cup {LWOCLONEID_INVALID}]
NoZone == [map |-> LWOMAPID_INVALID, clone |-> LWOCLONEID_INVALID]
Loot   == {0, 1}

TeamData ==
  [leaderID: Players, memberIDs: Seq(Players), lootFlag: Loot,
   local: BOOLEAN, zoneId: Zone]

NewTeam(leader, local) ==
  [leaderID |-> leader, memberIDs |-> <<>>, lootFlag |-> DefaultLoot,
   local |-> local, zoneId |-> NoZone]

(* The broadcast of TEAM_GET_STATUS.                                        *)
Broadcast ==
  [teamID: TeamIds, deleteTeam: BOOLEAN, lootFlag: Loot,
   memberIDs: Seq(Players)]

(* A map of teams with one more, or another one by the same id.             *)
WithTeam(map, t, team) ==
  [u \in DOMAIN map \cup {t} |-> IF u = t THEN team ELSE map[u]]

-----------------------------------------------------------------------------
(* PlayerContainer's lookups: the id of the entry found, which is           *)
(* LWOOBJID_EMPTY when there is no player in it.                            *)

GetPlayerData(p) == IF p \in online THEN p ELSE stray

FindByName(p) == IF p \in online \cap named THEN p ELSE stray

Known(p) == GetPlayerData(p) # LWOOBJID_EMPTY

-----------------------------------------------------------------------------
(* PlayerContainer's operations on a chat state s: the teams, the counter,  *)
(* and what has been sent to the worlds while handling a packet.            *)

Now == [teams |-> teams, counter |-> teamCounter, sent |-> <<>>]

Members(s, t) == ToSet(s.teams[t].memberIDs)

TeamsOf(s, p) == {t \in DOMAIN s.teams : p \in Members(s, t)}

(* The first team in mTeams that has the player.                            *)
GetTeam(s, p) ==
  IF TeamsOf(s, p) = {} THEN LWOOBJID_EMPTY
  ELSE CHOOSE t \in TeamsOf(s, p) : \A u \in TeamsOf(s, p) : t <= u

UpdateTeamsOnWorld(s, t, deleteTeam) ==
  [s EXCEPT !.sent = Append(@,
     [teamID |-> t, deleteTeam |-> deleteTeam,
      lootFlag |-> IF deleteTeam THEN 0 ELSE s.teams[t].lootFlag,
      memberIDs |-> IF deleteTeam THEN <<>> ELSE s.teams[t].memberIDs])]

(* Mutant: a member may be added again.                                     *)
AddMemberTwice(s, t, p) ==
  LET team  == s.teams[t]
      added == [s EXCEPT !.teams[t].memberIDs = Append(@, p)]
  IN
  IF Len(team.memberIDs) >= MaxMembers THEN s
  ELSE IF Known(team.leaderID) /\ Known(p)
  THEN UpdateTeamsOnWorld(added, t, FALSE)
  ELSE added

(* The worlds are not told while the leader or the new member is not known. *)
AddMember(s, t, p) ==
  LET team  == s.teams[t]
      added == [s EXCEPT !.teams[t].memberIDs = Append(@, p)]
  IN
  IF Len(team.memberIDs) >= MaxMembers \/ p \in Members(s, t) THEN s
  ELSE IF Known(team.leaderID) /\ Known(p)
  THEN UpdateTeamsOnWorld(added, t, FALSE)
  ELSE added

CreateTeam(s, leader, local) ==
  LET t == s.counter + 1 IN
  AddMember([s EXCEPT !.counter = t,
                      !.teams = WithTeam(@, t, NewTeam(leader, local))],
            t, leader)

(* Mutant: the worlds keep the team.                                        *)
DisbandTeamQuietly(s, t) ==
  [s EXCEPT !.teams = Restrict(@, DOMAIN @ \ {t})]

DisbandTeam(s, t) ==
  [UpdateTeamsOnWorld(s, t, TRUE) EXCEPT
     !.teams = Restrict(@, DOMAIN @ \ {t})]

PromoteMember(s, t, p) == [s EXCEPT !.teams[t].leaderID = p]

(* Mutant: a team of two does without its leader.                           *)
RemoveMemberOnly(s, t, p) ==
  LET left == RemoveFirst(s.teams[t].memberIDs, p)
      told == UpdateTeamsOnWorld([s EXCEPT !.teams[t].memberIDs = left],
                                 t, FALSE)
  IN
  IF p \notin Members(s, t) THEN s
  ELSE IF Len(left) <= 1 THEN DisbandTeam(told, t)
  ELSE told

(* A team of one is disbanded; a leader who leaves is followed by the       *)
(* oldest member.                                                           *)
RemoveMember(s, t, p) ==
  LET left == RemoveFirst(s.teams[t].memberIDs, p)
      told == UpdateTeamsOnWorld([s EXCEPT !.teams[t].memberIDs = left],
                                 t, FALSE)
  IN
  IF p \notin Members(s, t) THEN s
  ELSE IF Len(left) <= 1 THEN DisbandTeam(told, t)
  ELSE IF p = told.teams[t].leaderID THEN PromoteMember(told, t, left[1])
  ELSE told

TeamStatusUpdate(s, t) ==
  IF Known(s.teams[t].leaderID) THEN UpdateTeamsOnWorld(s, t, FALSE) ELSE s

(* Mutant: the members stay in the teams they had.                          *)
JoinKeepingOthers(acc, p) ==
  IF acc.team = LWOOBJID_EMPTY
  THEN [s |-> CreateTeam(acc.s, p, TRUE), team |-> acc.s.counter + 1]
  ELSE [acc EXCEPT !.s = AddMember(@, acc.team, p)]

(* One iteration of CreateLocalTeam.                                        *)
JoinLocalTeam(acc, p) ==
  LET old == GetTeam(acc.s, p)
      s   == IF old = LWOOBJID_EMPTY THEN acc.s
             ELSE RemoveMember(acc.s, old, p)
  IN
  IF acc.team = LWOOBJID_EMPTY
  THEN [s |-> CreateTeam(s, p, TRUE), team |-> s.counter + 1]
  ELSE [acc EXCEPT !.s = AddMember(s, acc.team, p)]

CreateLocalTeam(s, members) ==
  LET made == FoldLeft(JoinLocalTeam,
                       [s |-> s, team |-> LWOOBJID_EMPTY], members)
  IN [s |-> TeamStatusUpdate([made.s EXCEPT !.teams[made.team].lootFlag = 1],
                             made.team),
      team |-> made.team]

(* A packet has been handled with outcome s.                                *)
Handled(s) ==
  /\ \A w \in Worlds : Len(queue[w]) < MaxBacklog
  /\ s.counter <= MaxTeams
  /\ teams' = s.teams
  /\ teamCounter' = s.counter
  /\ queue' = [w \in Worlds |-> queue[w] \o s.sent]

-----------------------------------------------------------------------------
(* What the worlds tell the chat server of their players.                   *)

(* m_PlayerCount++ and m_PlayerCount--.                                     *)
CountUp == IF playerCount = CountRange - 1 THEN 0 ELSE playerCount + 1
CountDown == IF playerCount = 0 THEN CountRange - 1 ELSE playerCount - 1

(* InsertPlayer appends the name to what playerName holds: a player that is *)
(* still known is called by twice its name from then on.                    *)
InsertPlayer(p, zone) ==
  /\ moves < MaxMoves
  /\ moves' = moves + 1
  /\ playerCount' = CountUp
  /\ named' = IF p \in online THEN named \ {p} ELSE named \cup {p}
  /\ online' = online \cup {p}
  /\ zoneOf' = [zoneOf EXCEPT ![p] = zone]
  /\ UNCHANGED <<stray, strays, chat, invites, copies>>

(* Mutant: a player who is gone is counted out again.                       *)
RemovePlayerAlways(p) ==
  /\ moves' = moves
  /\ playerCount' = CountDown
  /\ online' = online \ {p}
  /\ zoneOf' = [zoneOf EXCEPT ![p] = NoZone]
  /\ UNCHANGED <<named, stray, strays, chat, invites, copies>>

(* The player's team keeps it.  One that is not there is counted out too    *)
(* while the shared entry has a player.                                     *)
RemovePlayer(p) ==
  /\ moves < MaxMoves
  /\ moves' = moves + 1
  /\ Known(p)
  /\ playerCount' = CountDown
  /\ online' = online \ {p}
  /\ zoneOf' = [zoneOf EXCEPT ![p] = NoZone]
  /\ UNCHANGED <<named, stray, strays, chat, invites, copies>>

(* A client that logs a character in, or leaves before it has, is announced *)
(* as a departure of LWOOBJID_EMPTY, the character it had before: the       *)
(* shared entry goes, counted out if there is a player in it.               *)
RemoveNobody ==
  /\ stray # LWOOBJID_EMPTY
  /\ playerCount' = CountDown
  /\ stray' = LWOOBJID_EMPTY
  /\ UNCHANGED <<online, zoneOf, named, strays, moves, chat, invites, copies>>

(* A best-friend request to a friend who is not found: the friend is        *)
(* written into the entry that the lookup returned.                         *)
HandleFriendRequest(p, q) ==
  /\ p \in online /\ q # p
  /\ FindByName(q) = LWOOBJID_EMPTY
  /\ stray' = q
  /\ strays < MaxStrays
  /\ strays' = strays + 1
  /\ UNCHANGED <<online, zoneOf, named, playerCount, moves, chat, invites, copies>>

(* The start of an activity for a party of players, in the world it leaves. *)
CreateTeamServer(members, zone) ==
  LET made == CreateLocalTeam(Now, members)
      s    == [made.s EXCEPT !.teams[made.team].zoneId = zone]
  IN
  /\ Handled(UpdateTeamsOnWorld(s, made.team, FALSE))
  /\ UNCHANGED <<players, invites, copies>>

-----------------------------------------------------------------------------
(* The commands of a player: ChatPacketHandler::HandleTeam...               *)

(* The inviter gets a team of its own before anything is checked.  The      *)
(* shared entry has no address: an invitation to the player in it is lost.  *)
HandleTeamInvite(p, q) ==
  LET own == GetTeam(Now, p)
      s   == IF own = LWOOBJID_EMPTY THEN CreateTeam(Now, p, FALSE) ELSE Now
      t   == GetTeam(s, p)
  IN
  /\ Known(p)
  /\ Handled(s)
  /\ invites' = IF /\ q \in online \cap named /\ stray # q
                   /\ GetTeam(s, q) = LWOOBJID_EMPTY
                   /\ Len(s.teams[t].memberIDs) <= MaxMembers - 1
                THEN invites \cup {<<GetPlayerData(p), q>>} ELSE invites
  /\ Cardinality(invites') <= MaxInvites
  /\ UNCHANGED <<players, copies>>

(* An answer that comes when the inviter has no team adds the player to its *)
(* own; one that comes when the player has a team adds it to another.       *)
HandleTeamInviteResponse(p, q, declined) ==
  LET theirs == GetTeam(Now, p)
      t      == IF theirs = LWOOBJID_EMPTY THEN GetTeam(Now, q) ELSE theirs
  IN
  /\ <<p, q>> \in invites
  /\ invites' = invites \ {<<p, q>>}
  /\ Handled(IF declined \/ t = LWOOBJID_EMPTY THEN Now
             ELSE AddMember(Now, t, q))
  /\ UNCHANGED <<players, copies>>

HandleTeamLeave(p) ==
  LET t == GetTeam(Now, p) IN
  /\ t # LWOOBJID_EMPTY
  /\ Handled(RemoveMember(Now, t, p))
  /\ UNCHANGED <<players, invites, copies>>

(* The player is found by its name, or as the one in the shared entry, or   *)
(* by the names of all who were ever there (m_Names).                       *)
HandleTeamKick(p, q) ==
  LET t      == GetTeam(Now, p)
      kicked == IF FindByName(q) # LWOOBJID_EMPTY THEN FindByName(q) ELSE q
  IN
  /\ FindByName(q) # LWOOBJID_EMPTY \/ q \in named
  /\ t # LWOOBJID_EMPTY
  /\ teams[t].leaderID = p
  /\ kicked # p
  /\ Handled(RemoveMember(Now, t, kicked))
  /\ UNCHANGED <<players, invites, copies>>

(* Nobody asks whether the new leader is a member.                          *)
HandleTeamPromote(p, q) ==
  LET t        == GetTeam(Now, p)
      promoted == FindByName(q)
  IN
  /\ promoted # LWOOBJID_EMPTY
  /\ t # LWOOBJID_EMPTY
  /\ teams[t].leaderID = p
  /\ Handled(PromoteMember(Now, t, promoted))
  /\ UNCHANGED <<players, invites, copies>>

HandleTeamLootOption(p, option) ==
  LET t   == GetTeam(Now, p)
      set == [Now EXCEPT !.teams[t].lootFlag = option]
  IN
  /\ t # LWOOBJID_EMPTY
  /\ teams[t].leaderID = p
  /\ Handled(UpdateTeamsOnWorld(TeamStatusUpdate(set, t), t, FALSE))
  /\ UNCHANGED <<players, invites, copies>>

(* Sent by a player's client when it has loaded a world: it leaves the team *)
(* of an activity it is no longer in, and a team of its own.                *)
HandleTeamStatusRequest(p) ==
  LET t    == GetTeam(Now, p)
      team == teams[t]
      away == /\ team.local
              /\ zoneOf[p].map # team.zoneId.map
              /\ zoneOf[p].clone # team.zoneId.clone
  IN
  /\ t # LWOOBJID_EMPTY
  /\ Known(p)
  /\ Handled(IF away THEN RemoveMember(Now, t, p)
             ELSE IF Len(team.memberIDs) <= 1 /\ ~team.local
             THEN DisbandTeam(Now, t)
             ELSE UpdateTeamsOnWorld(TeamStatusUpdate(Now, t), t, FALSE))
  /\ UNCHANGED <<players, invites, copies>>

-----------------------------------------------------------------------------
(* The worlds' copies: TeamManager.                                         *)

(* Mutant: a team of one is copied like any other.                          *)
UpdateAnyTeam(known, m) ==
  WithTeam(known, m.teamID, [members |-> m.memberIDs, lootOption |-> m.lootFlag])

(* A team that is not known is not made for a single member.                *)
UpdateTeam(known, m) ==
  IF m.teamID \notin DOMAIN known /\ Len(m.memberIDs) <= 1 THEN known
  ELSE WithTeam(known, m.teamID,
                [members |-> m.memberIDs, lootOption |-> m.lootFlag])

DeleteTeam(known, m) == Restrict(known, DOMAIN known \ {m.teamID})

HandleChatPacket(w) ==
  /\ queue[w] # <<>>
  /\ LET m == Head(queue[w]) IN
     copies' = [copies EXCEPT ![w] =
                  IF m.deleteTeam THEN DeleteTeam(@, m) ELSE UpdateTeam(@, m)]
  /\ queue' = [queue EXCEPT ![w] = Tail(@)]
  /\ UNCHANGED <<players, teams, teamCounter, invites>>

(* A world that starts anew knows no team until it is told of one.          *)
WorldStarts(w) ==
  /\ queue' = [queue EXCEPT ![w] = <<>>]
  /\ copies' = [copies EXCEPT ![w] = <<>>]
  /\ UNCHANGED <<players, teams, teamCounter, invites>>

-----------------------------------------------------------------------------
(* Every player has arrived.                                                *)
Init ==
  /\ online = Players /\ named = Players
  /\ zoneOf = [p \in Players |-> HomeZone]
  /\ playerCount = Cardinality(Players)
  /\ stray = LWOOBJID_EMPTY /\ strays = 0
  /\ moves = 0
  /\ teams = <<>>
  /\ teamCounter = 0
  /\ invites = {}
  /\ queue = [w \in Worlds |-> <<>>]
  /\ copies = [w \in Worlds |-> <<>>]

(* The parties of an activity: one player makes no team.                    *)
Parties ==
  {m \in UNION {[1..n -> Players] : n \in 2..MaxParty} :
     \A j, k \in DOMAIN m : j # k => m[j] # m[k]}

PlayerStep(p) ==
  \/ \E q \in Players : HandleFriendRequest(p, q)
  \/ \E q \in Players : HandleTeamInvite(p, q)
  \/ \E q \in Players, declined \in BOOLEAN :
       HandleTeamInviteResponse(q, p, declined)
  \/ HandleTeamLeave(p)
  \/ \E q \in Players : HandleTeamKick(p, q)
  \/ \E q \in Players : HandleTeamPromote(p, q)
  \/ \E option \in Loot : HandleTeamLootOption(p, option)
  \/ HandleTeamStatusRequest(p)

Next ==
  \/ \E p \in Players, zone \in Zones : InsertPlayer(p, zone)
  \/ \E p \in Players : RemovePlayer(p)
  \/ RemoveNobody
  \/ \E members \in Parties, zone \in PartyZones : CreateTeamServer(members, zone)
  \/ \E p \in Players : PlayerStep(p)
  \/ \E w \in Worlds : HandleChatPacket(w)
  \/ \E w \in Worlds : WorldStarts(w)

Spec == Init /\ [][Next]_vars

-----------------------------------------------------------------------------
(* Properties.                                                              *)

(* A partial function from a subset of S to T.                              *)
PartialMap(f, S, T) ==
  /\ DOMAIN f \subseteq S
  /\ \A x \in DOMAIN f : f[x] \in T

(* Type invariant: the chat server's players and teams, the broadcasts and  *)
(* the worlds' copies have their types; every team has a member, and each   *)
(* of its members once, after any sequence of joins, departures and         *)
(* disbandings, also within one packet that moves several players.          *)
TypeOK ==
  /\ online \subseteq Players
  /\ named \subseteq Players
  /\ zoneOf \in [Players -> Zone]
  /\ playerCount \in 0..(CountRange - 1)
  /\ stray \in Players \cup {LWOOBJID_EMPTY}
  /\ strays \in Nat
  /\ teamCounter \in 0..MaxTeams
  /\ PartialMap(teams, 1..teamCounter, TeamData)
  /\ \A t \in DOMAIN teams :
       LET m == teams[t].memberIDs IN m # <<>> /\ IsInjective(m)
  /\ invites \subseteq Players \X Players
  /\ queue \in [Worlds -> Seq(Broadcast)]
  /\ \A w \in Worlds :
       PartialMap(copies[w], TeamIds,
                  [members: Seq(Players), lootOption: Loot])
  /\ moves \in Nat

(* Once a world has read everything it was sent, it has no team that was    *)
(* disbanded, and of every team it knows the right loot option and the      *)
(* right members, but for those added last while the leader or they         *)
(* themselves were not known (AddMember returns before UpdateTeamsOnWorld). *)
CopiesFollow ==
  \A w \in Worlds : queue[w] = <<>> =>
    \A t \in DOMAIN copies[w] :
      /\ t \in DOMAIN teams
      /\ IsPrefix(copies[w][t].members, teams[t].memberIDs)
      /\ copies[w][t].lootOption = teams[t].lootFlag

(* GetNextLootOwner indexes the members of a world's copy without asking    *)
(* whether there are any: there are, however late the broadcasts.           *)
LootOwnerExists ==
  \A w \in Worlds : \A t \in DOMAIN copies[w] : copies[w][t].members # <<>>

(* The count shown to game masters is never less than the players known,    *)
(* whatever the order of the worlds' notices (it is more once a player was  *)
(* inserted twice), as long as nobody has asked a friend who is offline to  *)
(* be a best friend: from then on RemovePlayer takes the shared entry for a *)
(* player, and counts out departures of nobody.                             *)
NobodyUncounted == strays > 0 \/ playerCount >= Cardinality(online)

(* A player comes to be in more teams than before, and more than one, only  *)
(* by answering an invitation shown while it had none: not through the      *)
(* team of an activity.                                                     *)
SecondTeamByInviteOnly ==
  [][\A p \in Players :
       LET before == Cardinality(TeamsOf(Now, p))
           after  == Cardinality(TeamsOf(Now, p)')
       IN (after > 1 /\ after > before)
            => \E q \in Players : <<q, p>> \in invites \ invites']_vars

(* When the leader of a team leaves it, whatever the way, a member of those *)
(* who stay leads it.                                                       *)
LeadershipPassesOn ==
  [][\A t \in DOMAIN teams \cap DOMAIN teams' :
       (/\ teams[t].leaderID \in Members(Now, t)
        /\ teams[t].leaderID \notin ToSet(teams'[t].memberIDs))
         => teams'[t].leaderID \in ToSet(teams'[t].memberIDs)]_vars
=============================================================================
