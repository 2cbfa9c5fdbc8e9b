------------------------------- MODULE Spawner -------------------------------
(***************************************************************************)
(* A spawner (dZoneManager/Spawner): it fills its nodes with entities, and  *)
(* for each that dies waits a while and spawns another.  The scripts of a   *)
(* world start, stop, reset and retune it at any time, also from the        *)
(* callback of a death.                                                     *)
(*                                                                         *)
(* The object is a record; an operation maps it to another, or to the set   *)
(* of those it may become, since a node is chosen at random.  Time passes   *)
(* in ticks, one in each Update.  The loops of the code are recursive       *)
(* functions of the number of rounds.  An object id is never used twice in  *)
(* the code; here an id is free again once nothing knows it.                *)
(***************************************************************************)
EXTENDS Integers, Sequences, FiniteSets, SequencesExt

CONSTANTS
  NodeMax,      \* nodeMax of each node, in the order of the nodes
  RespawnTime,  \* respawnTime, in ticks
  Amounts,      \* the numbers to maintain that data and scripts set
  Limits,       \* the values of maxToSpawn, -1 for none
  MaxDeaths,    \* bound on the entities that die
  MaxCommands   \* bound on the calls made by scripts

Unlimited == -1

ASSUME SpawnerAssumption ==
  /\ NodeMax \in Seq(Nat \ {0}) /\ NodeMax # <<>>
  /\ RespawnTime \in Nat
  /\ Amounts \subseteq Nat \ {0}
  /\ Limits \subseteq Nat \cup {Unlimited}
  /\ MaxDeaths \in Nat /\ MaxCommands \in Nat

Nodes == 1..Len(NodeMax)
Ids   == Nat \ {0}

VARIABLES
  spawner,   \* the Spawner
  goal,      \* history: the entities it is to come back to
  crowded,   \* history: DestroyAllEntities has met a node of three or more
  deaths,    \* the deaths so far
  commands   \* the calls so far

vars == <<spawner, goal, crowded, deaths, commands>>

Smaller(m, n) == IF m < n THEN m ELSE n

(* The room in the first k nodes.                                           *)
Room[k \in 0..Len(NodeMax)] == IF k = 0 THEN 0 ELSE Room[k - 1] + NodeMax[k]

Capacity == Room[Len(NodeMax)]

-----------------------------------------------------------------------------
(* Spawn.                                                                   *)

Count(s) == Cardinality(DOMAIN s.entities)

FreeNodes(s) == {n \in Nodes : Len(s.nodes[n]) < NodeMax[n]}

Exhausted(s) == s.maxToSpawn # Unlimited /\ s.amountSpawned >= s.maxToSpawn

NewId(s) ==
  LET used == s.alive \cup DOMAIN s.entities
  IN  CHOOSE id \in 1..(Cardinality(used) + 1) : id \notin used

WithEntity(entities, id, n) ==
  [i \in DOMAIN entities \cup {id} |-> IF i = id THEN n ELSE entities[i]]

SpawnAt(s, n) ==
  LET id == NewId(s) IN
  [s EXCEPT !.amountSpawned = @ + 1,
            !.entities = WithEntity(@, id, n),
            !.nodes[n] = Append(@, id),
            !.alive = @ \cup {id},
            !.needsUpdate = @ /\ Count(s) + 1 # s.amountMaintained]

Spawn(s) ==
  IF Count(s) >= s.amountMaintained \/ FreeNodes(s) = {} \/ Exhausted(s)
  THEN {s}
  ELSE {SpawnAt(s, n) : n \in FreeNodes(s)}

SpawnTimes(s, calls) ==
  LET outcomes[k \in 0..calls] ==
        IF k = 0 THEN {s} ELSE UNION {Spawn(r) : r \in outcomes[k - 1]}
  IN  outcomes[calls]

-----------------------------------------------------------------------------
(* Update.                                                                  *)

(* amountMaintained - m_AmountSpawned is unsigned: when more were spawned,  *)
(* it is some 2^32 calls, of which Capacity may find room.                  *)
Start(s) ==
  LET toSpawn == IF s.amountSpawned <= s.amountMaintained
                 THEN s.amountMaintained - s.amountSpawned ELSE Capacity
  IN {[r EXCEPT !.start = FALSE, !.waitTimes = <<>>] :
        r \in SpawnTimes(s, toSpawn)}

(* Mutant: a time that has elapsed is not erased.                           *)
ElapseAndKeep(s) ==
  LET times == [k \in DOMAIN s.waitTimes |-> s.waitTimes[k] + 1]
      due   == Cardinality({k \in DOMAIN times : times[k] >= RespawnTime})
  IN {[r EXCEPT !.waitTimes = times] : r \in SpawnTimes(s, due)}

(* What the loop over the waiting times has kept and how many were due: one *)
(* that has elapsed is erased within the loop, which then skips the next.   *)
Pass(a, time) ==
  IF a.skip THEN [a EXCEPT !.kept = Append(@, time), !.skip = FALSE]
  ELSE IF time + 1 < RespawnTime THEN [a EXCEPT !.kept = Append(@, time + 1)]
  ELSE [a EXCEPT !.due = @ + 1, !.skip = TRUE]

Passes(times) ==
  LET pass[k \in 0..Len(times)] ==
        IF k = 0 THEN [kept |-> <<>>, due |-> 0, skip |-> FALSE]
        ELSE Pass(pass[k - 1], times[k])
  IN  pass[Len(times)]

(* Spawn does not look at the waiting times.                                *)
Elapse(s) ==
  LET passes == Passes(s.waitTimes)
  IN  {[r EXCEPT !.waitTimes = passes.kept] : r \in SpawnTimes(s, passes.due)}

Update ==
  /\ spawner.active
  /\ \/ /\ spawner.start
        /\ spawner' \in Start(spawner)
        /\ goal' = Smaller(Count(spawner'),
                            Smaller(spawner.amountMaintained, Capacity))
     \/ /\ ~spawner.start
        /\ spawner.needsUpdate /\ ~spawner.spawnsOnSmash
        /\ spawner' \in Elapse(spawner)
        /\ UNCHANGED goal
  /\ UNCHANGED <<crowded, deaths, commands>>

-----------------------------------------------------------------------------
(* Deaths.                                                                  *)

(* Mutant: Update is not asked for.                                         *)
NotifyQuietly(s, id) ==
  LET n == s.entities[id] IN
  IF id \notin DOMAIN s.entities THEN s
  ELSE [s EXCEPT !.waitTimes = Append(@, 0),
                 !.nodes[n] = RemoveFirst(@, id),
                 !.entities = Restrict(@, DOMAIN @ \ {id})]

(* Mutant: the node is not told.                                            *)
NotifySpawnerOnly(s, id) ==
  [s EXCEPT !.needsUpdate = TRUE, !.waitTimes = Append(@, 0),
            !.entities = Restrict(@, DOMAIN @ \ {id})]

(* Mutant: what died while the spawner was off is not waited for.           *)
NotifyIfActive(s, id) ==
  LET n == s.entities[id] IN
  IF id \notin DOMAIN s.entities THEN s
  ELSE [s EXCEPT !.needsUpdate = TRUE,
                 !.waitTimes = IF s.active THEN Append(@, 0) ELSE @,
                 !.nodes[n] = RemoveFirst(@, id),
                 !.entities = Restrict(@, DOMAIN @ \ {id})]

(* A node lists an id once, so the loop over its list erases one place.      *)
NotifyOfEntityDeath(s, id) ==
  LET awaited == [s EXCEPT !.needsUpdate = TRUE,
                           !.waitTimes = Append(@, 0)]
      n == s.entities[id]
  IN
  IF id \notin DOMAIN s.entities THEN awaited
  ELSE [awaited EXCEPT !.nodes[n] = RemoveFirst(@, id),
                       !.entities = Restrict(@, DOMAIN @ \ {id})]

Kill(s, id) == [NotifyOfEntityDeath(s, id) EXCEPT !.alive = @ \ {id}]

(* The loop walks the vector its body erases from: the elements shift, and  *)
(* the places beyond the new end still hold the last one.                   *)
Walk(list) ==
  [k \in DOMAIN list |-> list[Smaller(2 * k - 1, Len(list))]]

KillAll(s, list) ==
  LET after[k \in 0..Len(list)] ==
        IF k = 0 THEN s ELSE Kill(after[k - 1], list[k])
  IN  after[Len(list)]

EmptyNode(s, n) == [KillAll(s, Walk(s.nodes[n])) EXCEPT !.nodes[n] = <<>>]

(* A script that retunes the spawner at one of these deaths does what one   *)
(* that had retuned it just before does.                                    *)
DestroyAllEntities(s) ==
  LET after[n \in 0..Len(NodeMax)] ==
        IF n = 0 THEN s ELSE EmptyNode(after[n - 1], n)
  IN  after[Len(NodeMax)]

-----------------------------------------------------------------------------
(* What the scripts of a world call.                                        *)

Activate(s) ==
  [s EXCEPT !.active = TRUE, !.needsUpdate = TRUE,
            !.waitTimes = [k \in DOMAIN @ |-> 0]]

Deactivate(s) == [s EXCEPT !.active = FALSE]

SoftReset(s) ==
  [s EXCEPT !.start = TRUE, !.amountSpawned = 0, !.needsUpdate = TRUE]

Reset(s) == SoftReset([DestroyAllEntities(s) EXCEPT !.entities = <<>>])

SetRespawnTime(s) ==
  [s EXCEPT !.waitTimes = [k \in DOMAIN @ |-> 0],
            !.start = TRUE, !.needsUpdate = TRUE]

SetNumToMaintain(s, amount) == [s EXCEPT !.amountMaintained = amount]

(* BaseRandomServer: of its spawners only Named_Enemies is soft-reset.      *)
SetSpawnerNetwork(s, amount, named) ==
  LET tuned == SetNumToMaintain(SetRespawnTime(s), amount)
  IN Activate(IF named THEN SoftReset(tuned) ELSE tuned)

(* BaseWavesServer.                                                         *)
SpawnNow(s, amount) ==
  Activate(Reset([SetNumToMaintain(s, amount) EXCEPT !.maxToSpawn = amount]))

Lowered(amount) == goal' = Smaller(goal, amount)

(* An entity dies; a script that watches the spawner may first retune it.   *)
EntityDies(id) ==
  /\ deaths < MaxDeaths
  /\ deaths' = deaths + 1
  /\ \/ spawner' = Kill(spawner, id) /\ UNCHANGED goal
     \/ \E amount \in Amounts, named \in BOOLEAN :
          /\ spawner' = Kill(SetSpawnerNetwork(spawner, amount, named), id)
          /\ Lowered(amount)
  /\ UNCHANGED <<crowded, commands>>

Crowd == crowded' = (crowded \/ \E n \in Nodes : Len(spawner.nodes[n]) > 2)

Command ==
  /\ commands < MaxCommands
  /\ commands' = commands + 1
  /\ UNCHANGED deaths
  /\ \/ /\ spawner' \in Spawn(spawner) \cup
             {Activate(spawner), Deactivate(spawner), SoftReset(spawner)}
        /\ UNCHANGED <<goal, crowded>>
     \/ \E n \in Nodes :
          spawner' = SpawnAt(spawner, n) /\ UNCHANGED <<goal, crowded>>
     \/ /\ spawner' \in {Reset(spawner), DestroyAllEntities(spawner)}
        /\ Crowd
        /\ UNCHANGED goal
     \/ \E amount \in Amounts :
          /\ \/ /\ spawner' = SetNumToMaintain(spawner, amount)
                /\ UNCHANGED crowded
             \/ /\ \E named \in BOOLEAN :
                     spawner' = SetSpawnerNetwork(spawner, amount, named)
                /\ UNCHANGED crowded
             \/ spawner' = SpawnNow(spawner, amount) /\ Crowd
          /\ Lowered(amount)

-----------------------------------------------------------------------------
(* Waiting times for what the nodes hold when there is one in each.         *)
Init ==
  \E amount \in Amounts, limit \in Limits,
     active, start, onSmash \in BOOLEAN :
    LET timerCount == Smaller(amount, Len(NodeMax)) IN
    /\ spawner = [active |-> active, start |-> start, needsUpdate |-> TRUE,
                  spawnsOnSmash |-> onSmash, amountMaintained |-> amount,
                  maxToSpawn |-> limit, amountSpawned |-> 0,
                  waitTimes |-> [k \in 1..timerCount |-> RespawnTime],
                  entities |-> <<>>, nodes |-> [n \in Nodes |-> <<>>],
                  alive |-> {}]
    /\ goal = timerCount
    /\ crowded = FALSE
    /\ deaths = 0 /\ commands = 0

Next == Update \/ (\E id \in spawner.alive : EntityDies(id)) \/ Command

Spec == Init /\ [][Next]_vars

FairSpec == Spec /\ WF_vars(Update)

-----------------------------------------------------------------------------
(* Properties.                                                              *)

(* Type invariant: the spawner's fields have their types; a waiting time    *)
(* ends with the respawn time (SetRespawnTime lets all start again).        *)
TypeOK ==
  /\ {spawner.active, spawner.start, spawner.needsUpdate,
      spawner.spawnsOnSmash, crowded} \subseteq BOOLEAN
  /\ {spawner.amountMaintained, spawner.amountSpawned, goal} \subseteq Nat
  /\ spawner.maxToSpawn \in Nat \cup {Unlimited}
  /\ spawner.waitTimes \in Seq(0..RespawnTime)
  /\ DOMAIN spawner.entities \cup spawner.alive \subseteq Ids
  /\ \A id \in DOMAIN spawner.entities : spawner.entities[id] \in Nodes
  /\ spawner.nodes \in [Nodes -> Seq(Ids)]
  /\ deaths \in 0..MaxDeaths /\ commands \in 0..MaxCommands

(* The map of entities, the lists of the nodes and the entities that live   *)
(* agree through deaths, resets and refused spawns, as long as no node was  *)
(* destroyed while it held three or more: none is forgotten, so none stays  *)
(* behind a reset, and no node is thought full or free that is not.         *)
NodesAgree ==
  ~crowded =>
    /\ spawner.alive = DOMAIN spawner.entities
    /\ \A n \in Nodes :
         /\ ToSet(spawner.nodes[n]) =
              {id \in spawner.alive : spawner.entities[id] = n}
         /\ IsInjective(spawner.nodes[n])

(* Every entity that a started spawner is missing has its waiting time,     *)
(* whatever calls refused to spawn in the meantime, unless the spawner has  *)
(* spawned its maximum or is about to start anew.                           *)
MissingAreAwaited ==
  \/ spawner.start
  \/ Exhausted(spawner)
  \/ Count(spawner) + Len(spawner.waitTimes) >= goal

(* When deaths and scripts leave it alone, an active spawner comes back to  *)
(* the number of entities that its last start reached.                      *)
Replenished ==
  <>[](\/ ~spawner.active \/ spawner.spawnsOnSmash \/ Exhausted(spawner)
       \/ Count(spawner) >= goal)
=============================================================================
