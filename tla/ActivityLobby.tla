---------------------------- MODULE ActivityLobby ----------------------------
(***************************************************************************)
(* The lobbies of an activity that is played in another zone                *)
(* (dGame/dComponents/ActivityComponent): players who wait, the countdown   *)
(* of each lobby, and the start of an instance.                             *)
(*                                                                         *)
(* A LobbyPlayer is an object that lobbies point to.  The code may put the  *)
(* same one into several lobbies and deletes it when its player leaves one  *)
(* of them; the others then point to freed memory, which is left as it was, *)
(* or holds something else, or becomes the next LobbyPlayer.  Deleting it   *)
(* again ends the process.  Time is counted in updates.                     *)
(***************************************************************************)
EXTENDS Integers, Sequences, FiniteSets, SequencesExt

CONSTANTS
  Players,
  Nobody,         \* what is read as an id where no LobbyPlayer is any more
  Objects,        \* the addresses of LobbyPlayers
  MinTeamSize, MaxTeamSize, MinTeams, MaxTeams,   \* of the activity
  WaitTime,       \* waitTime and startDelay, in updates
  StartDelay,
  Cost,           \* optionalCostCount
  InitialHeld,    \* what each player has of the lot that is paid with
  MaxLeaves,      \* bound on the times players leave a lobby by themselves
  MaxDepartures,  \* bound on the times players leave the world
  MaxReloads      \* bound on the reloads of the configuration

ASSUME ActivityAssumption ==
  /\ Nobody \notin Players
  /\ IsFiniteSet(Players) /\ IsFiniteSet(Objects)
  /\ {MinTeamSize, MaxTeamSize, MinTeams, MaxTeams} \subseteq Nat \ {0}
  /\ WaitTime \in Nat \ {0} /\ StartDelay \in 1..WaitTime
  /\ {Cost, MaxLeaves, MaxDepartures, MaxReloads} \subseteq Nat
  /\ InitialHeld \in [Players -> Nat]

VARIABLES
  present,      \* the players whose entity is in the world
  held,         \* what each player has of the lot that is paid with
  solo,         \* solo_racing is configured
  m_Queue,      \* the lobbies: LobbyPlayers and timer
  lobbyPlayer,  \* what is in memory at each address
  live,         \* the addresses that are allocated and pointed to
  crashed,      \* a LobbyPlayer was deleted twice
  frame,        \* history: the parity of the updates so far
  started,      \* history: the players of the lobbies the last update started
  gap,          \* history: a lobby before the last has lost a player, or
                \*   an update that had started a lobby was cut short
  leaves, departures, reloads

bounds == <<leaves, departures, reloads>>
vars == <<present, held, solo, m_Queue, lobbyPlayer, live, crashed,
          frame, started, gap, bounds>>

(* minTeamSize and minTeams of a race, as ReloadConfig leaves them.         *)
minTeamSize == IF solo THEN 1 ELSE MinTeamSize
minTeams    == IF solo THEN 1 ELSE MinTeams

LobbyPlayer == [entityID: Players \cup {Nobody}, ready: BOOLEAN]

EntityOf(h) == lobbyPlayer[h].entityID
Members(lobby) == {EntityOf(h) : h \in ToSet(lobby.players)}
Referenced(queue) == UNION {ToSet(queue[i].players) : i \in DOMAIN queue}

(* How many fit in a lobby.                                                 *)
TeamLimit == IF MaxTeamSize = 1 THEN MaxTeams ELSE MaxTeamSize

(* Mutant: one player more than fits.                                       *)
HasSlotForOneMore(lobby) ==
  LET n == Len(lobby.players)
  IN n <= MaxTeamSize \/ (MaxTeamSize = 1 /\ n < MaxTeams)

HasSlot(lobby) ==
  LET n == Len(lobby.players)
  IN n < MaxTeamSize \/ (MaxTeamSize = 1 /\ n < MaxTeams)

Enough(players) ==
  Len(players) >= (IF MaxTeamSize = 1 THEN minTeams ELSE minTeamSize)

PlayerIsInQueue(p) == \E i \in DOMAIN m_Queue : p \in Members(m_Queue[i])

-----------------------------------------------------------------------------
(* What a client asks for.                                                  *)

(* PlayerJoinLobby: every lobby with a slot gets the new LobbyPlayer, and   *)
(* if there is none a new lobby does.  The object is put where nothing      *)
(* points to, or where a lobby still points to what was deleted.            *)
PlayerJoin(p) ==
  /\ p \in present
  /\ ~PlayerIsInQueue(p)
  /\ \E h \in (Referenced(m_Queue) \ live) \cup
              (IF Objects = Referenced(m_Queue) THEN {}
               ELSE {CHOOSE h \in Objects : h \notin Referenced(m_Queue)}) :
       LET open    == {i \in DOMAIN m_Queue : HasSlot(m_Queue[i])}
           joined  == [i \in DOMAIN m_Queue |->
                        IF i \in open
                        THEN [m_Queue[i] EXCEPT !.players = Append(@, h)]
                        ELSE m_Queue[i]]
       IN
       /\ m_Queue' = IF open # {} THEN joined
                     ELSE Append(m_Queue, [players |-> <<h>>, timer |-> WaitTime])
       /\ lobbyPlayer' = [lobbyPlayer EXCEPT ![h] = [entityID |-> p, ready |-> FALSE]]
       /\ live' = live \cup {h}
  /\ started' = {}
  /\ UNCHANGED <<frame, present, held, solo, crashed, gap, bounds>>

(* PlayerReady, of the match request: every LobbyPlayer of the player.      *)
PlayerReady(p, bReady) ==
  /\ p \in present
  /\ PlayerIsInQueue(p)
  /\ lobbyPlayer' =
       [h \in Objects |-> IF h \in Referenced(m_Queue) /\ EntityOf(h) = p
                          THEN [lobbyPlayer[h] EXCEPT !.ready = bReady]
                          ELSE lobbyPlayer[h]]
  /\ started' = {}
  /\ UNCHANGED <<frame, present, held, solo, m_Queue, live, crashed, gap, bounds>>

(* Memory that nothing points to is as good as empty.                       *)
NoPlayer == [entityID |-> Nobody, ready |-> FALSE]
Forget(memory, queue) ==
  [h \in Objects |-> IF h \in Referenced(queue) THEN memory[h] ELSE NoPlayer]

(* The first lobby that has a LobbyPlayer with the id.                      *)
LobbyOf(id, queue) ==
  CHOOSE i \in DOMAIN queue :
    id \in Members(queue[i]) /\ \A j \in 1..(i - 1) : id \notin Members(queue[j])

(* PlayerLeave in the given queue: the first LobbyPlayer with that id is    *)
(* deleted and taken out of that lobby only.                                *)
Leave(id, queue) ==
  LET i == LobbyOf(id, queue)
      players == queue[i].players
      k == CHOOSE k \in DOMAIN players :
             /\ EntityOf(players[k]) = id
             /\ \A j \in 1..(k - 1) : EntityOf(players[j]) # id
      h == players[k]
      left == [queue EXCEPT ![i].players = RemoveAt(@, k)]
  IN
  /\ m_Queue' = left
  /\ crashed' = (h \notin live)
  /\ live' = live \ {h}
  /\ \E freed \in {lobbyPlayer[h]} \cup [entityID: {Nobody}, ready: BOOLEAN] :
       lobbyPlayer' = Forget([lobbyPlayer EXCEPT ![h] = freed], left)

(* "LobbyExit" of the message box.                                          *)
PlayerLeave(p) ==
  /\ p \in present
  /\ PlayerIsInQueue(p)
  /\ leaves < MaxLeaves
  /\ leaves' = leaves + 1
  /\ Leave(p, m_Queue)
  /\ gap' = (gap \/ LobbyOf(p, m_Queue) # Len(m_Queue))
  /\ started' = {}
  /\ UNCHANGED <<frame, present, held, solo, departures, reloads>>

-----------------------------------------------------------------------------
(* Update.                                                                  *)

IsHere(h) == EntityOf(h) \in present

(* Mutant: the countdown runs with whoever is there.                        *)
CountDownAlways(lobby) ==
  LET timer == lobby.timer - 1
      ready == \A h \in ToSet(lobby.players) : lobbyPlayer[h].ready
  IN IF ready /\ timer > StartDelay THEN StartDelay ELSE timer

(* Mutant: players who are all ready start over.                            *)
CountDownAgain(lobby) ==
  LET timer == IF Enough(lobby.players) THEN lobby.timer - 1 ELSE lobby.timer
      ready == \A h \in ToSet(lobby.players) : lobbyPlayer[h].ready
  IN IF ready THEN StartDelay ELSE timer

(* The countdown runs while there are enough players; once everyone is      *)
(* ready it jumps to the start delay, with enough players or without.       *)
CountDown(lobby) ==
  LET timer == IF Enough(lobby.players) THEN lobby.timer - 1 ELSE lobby.timer
      ready == \A h \in ToSet(lobby.players) : lobbyPlayer[h].ready
  IN IF ready /\ timer > StartDelay THEN StartDelay ELSE timer

(* LoadPlayersIntoInstance: the places that a player has in these lobbies.  *)
Places(p, lobbies) ==
  {at \in lobbies \X (1..TeamLimit) :
     /\ at[2] \in DOMAIN m_Queue[at[1]].players
     /\ EntityOf(m_Queue[at[1]].players[at[2]]) = p}

(* How often TakeCost takes the cost when it is asked n times.              *)
TimesPaid(p, n) ==
  CHOOSE m \in 0..n :
    m * Cost <= held[p] /\ (m = n \/ (m + 1) * Cost > held[p])

(* Who the first of these players is that is not in the world any more.     *)
FirstAway(players) ==
  EntityOf(players[CHOOSE k \in DOMAIN players :
                     /\ ~IsHere(players[k])
                     /\ \A j \in 1..(k - 1) : IsHere(players[j])])

(* The lobbies at these places, in their order.                             *)
LobbiesAt(queue, places) ==
  LET rank(i) == Cardinality({k \in places : k <= i})
  IN [j \in 1..Cardinality(places) |-> queue[CHOOSE i \in places : rank(i) = j]]

(* The lobbies are ticked in their order.  At the first player who is not   *)
(* in the world any more that player leaves and the update returns, so what *)
(* has started in it stays in the queue; otherwise the lobbies that are     *)
(* empty or have started are removed.  Each place in a lobby that starts is *)
(* paid for, by the players who can.                                        *)
Update ==
  LET n     == Len(m_Queue)
      away  == {i \in 1..n : \E h \in ToSet(m_Queue[i].players) : ~IsHere(h)}
      first == CHOOSE i \in away \cup {n + 1} : \A j \in away : i <= j
      queue == [i \in 1..n |->
                 IF i < first /\ m_Queue[i].players # <<>>
                 THEN [m_Queue[i] EXCEPT !.timer = CountDown(m_Queue[i])]
                 ELSE m_Queue[i]]
      over  == {i \in 1..(first - 1) : queue[i].players # <<>> /\ queue[i].timer <= 0}
  IN
  /\ \/ /\ away = {}
        /\ m_Queue' = LobbiesAt(queue, {i \in 1..n : queue[i].players # <<>>
                                                     /\ queue[i].timer > 0})
        /\ live' = live \cap Referenced(m_Queue')
        /\ lobbyPlayer' = Forget(lobbyPlayer, m_Queue')
        /\ UNCHANGED <<crashed, gap>>
     \/ /\ away # {}
        /\ LET id == FirstAway(queue[first].players)
           IN /\ Leave(id, queue)
              /\ gap' = (gap \/ LobbyOf(id, queue) # n \/ over # {})
  /\ held' = [p \in Players |-> held[p] - Cost * TimesPaid(p, Cardinality(Places(p, over)))]
  /\ frame' = ~frame
  /\ started' = {queue[i].players : i \in over}
  /\ UNCHANGED <<present, solo, bounds>>

-----------------------------------------------------------------------------
(* What happens around the activity.                                        *)

(* The entity of a player is gone, because of the transfer or otherwise;    *)
(* nothing tells the activity.                                              *)
PlayerDeparts(p) ==
  /\ p \in present /\ departures < MaxDepartures
  /\ present' = present \ {p}
  /\ departures' = departures + 1
  /\ started' = {}
  /\ UNCHANGED <<frame, held, solo, m_Queue, lobbyPlayer, live, crashed, gap, leaves, reloads>>

PlayerReturns(p) ==
  /\ p \notin present
  /\ present' = present \cup {p}
  /\ started' = {}
  /\ UNCHANGED <<frame, held, solo, m_Queue, lobbyPlayer, live, crashed, gap, bounds>>

(* ReloadConfig, of the slash command, after solo_racing was changed.       *)
ReloadConfig ==
  /\ reloads < MaxReloads
  /\ solo' = ~solo
  /\ reloads' = reloads + 1
  /\ started' = {}
  /\ UNCHANGED <<frame, present, held, m_Queue, lobbyPlayer, live, crashed, gap,
                 leaves, departures>>

Init ==
  /\ present = Players
  /\ held = InitialHeld
  /\ solo = FALSE
  /\ m_Queue = <<>>
  /\ lobbyPlayer = [h \in Objects |-> NoPlayer]
  /\ live = {} /\ crashed = FALSE
  /\ frame = FALSE /\ started = {} /\ gap = FALSE
  /\ leaves = 0 /\ departures = 0 /\ reloads = 0

PlayerStep(p) ==
  \/ PlayerJoin(p)
  \/ \E bReady \in BOOLEAN : PlayerReady(p, bReady)
  \/ PlayerLeave(p)
  \/ PlayerDeparts(p)
  \/ PlayerReturns(p)

Next ==
  /\ ~crashed
  /\ \/ \E p \in Players : PlayerStep(p)
     \/ Update
     \/ ReloadConfig

Spec == Init /\ [][Next]_vars

(* The entity manager updates the component in every frame.  Update is the  *)
(* one step that changes frame, and can be taken unless the process ended.  *)
FairSpec == Spec /\ WF_frame(~crashed /\ frame' = ~frame)

-----------------------------------------------------------------------------
(* Properties.                                                              *)

(* Type invariant.  No lobby has more players than fit, whatever is in the  *)
(* memory its pointers lead to.                                             *)
TypeOK ==
  /\ present \subseteq Players
  /\ held \in [Players -> Nat] /\ \A p \in Players : held[p] <= InitialHeld[p]
  /\ solo \in BOOLEAN /\ crashed \in BOOLEAN /\ gap \in BOOLEAN /\ frame \in BOOLEAN
  /\ \A i \in DOMAIN m_Queue :
       /\ m_Queue[i].timer <= WaitTime
       /\ Len(m_Queue[i].players) <= TeamLimit
  /\ lobbyPlayer \in [Objects -> LobbyPlayer]
  /\ live \subseteq Referenced(m_Queue) /\ Referenced(m_Queue) \subseteq Objects
  /\ leaves \in 0..MaxLeaves
  /\ departures \in 0..MaxDepartures /\ reloads \in 0..MaxReloads

(* A lobby starts with enough players, though its timer may have jumped     *)
(* with too few and stopped; once, since none of its players goes on        *)
(* waiting, in it or in another; and nobody pays twice.  This is so until a *)
(* lobby before the last loses a player, which leaves two with a slot, or   *)
(* an update that has started a lobby is cut short.                         *)
StartsAsPromised ==
  [][~gap' =>
       /\ \A players \in started' :
            /\ Enough(players)
            /\ ToSet(players) \cap Referenced(m_Queue') = {}
       /\ \A p \in Players : held[p] - held'[p] <= Cost]_vars

(* Whoever waits with enough others is not kept waiting for ever, however   *)
(* players get ready, or not, and whatever became of the memory.            *)
LobbiesStart ==
  \A p \in Players :
    []<>~(\E i \in DOMAIN m_Queue : p \in Members(m_Queue[i]) /\ Enough(m_Queue[i].players))
      \/ <>crashed
=============================================================================
