--------------------------- MODULE Spawner_proofs ---------------------------
(***************************************************************************)
(* The safety properties of a spawner, for any number of nodes, of any      *)
(* size, and any calls.  What is invariant is said of a spawner, the record *)
(* s, so that it can be carried through the loops of the code.              *)
(***************************************************************************)
EXTENDS Spawner, FiniteData

Entities == UNION {[D -> Nodes] : D \in SUBSET Ids}

State ==
  [active: BOOLEAN, start: BOOLEAN, needsUpdate: BOOLEAN, spawnsOnSmash: BOOLEAN,
   amountMaintained: Nat, maxToSpawn: Nat \cup {Unlimited}, amountSpawned: Nat,
   waitTimes: Seq(0..RespawnTime), entities: Entities,
   nodes: [Nodes -> Seq(Ids)], alive: SUBSET Ids]

(* What a node lists are entities of that node, each listed once.           *)
Listed(s) ==
  \A n \in Nodes : \A k \in 1..Len(s.nodes[n]) :
    /\ s.nodes[n][k] \in DOMAIN s.entities
    /\ s.entities[s.nodes[n][k]] = n
    /\ \A j \in 1..Len(s.nodes[n]) : s.nodes[n][j] = s.nodes[n][k] => j = k

Proper ==
  {s \in State : /\ IsFiniteSet(s.alive)
                 /\ DOMAIN s.entities \subseteq s.alive
                 /\ Listed(s)}

(* Every living entity is one of the spawner's and is listed by its node.   *)
Agree(s) ==
  /\ s.alive \subseteq DOMAIN s.entities
  /\ \A id \in DOMAIN s.entities :
       \E k \in 1..Len(s.nodes[s.entities[id]]) : s.nodes[s.entities[id]][k] = id

-----------------------------------------------------------------------------
(* Numbers.                                                                 *)

LEMMA Constants ==
  /\ Len(NodeMax) \in Nat \ {0} /\ \A n \in Nodes : NodeMax[n] \in Nat \ {0}
  /\ RespawnTime \in Nat /\ MaxDeaths \in Nat /\ MaxCommands \in Nat
  /\ \A amount \in Amounts : amount \in Nat \ {0}
  /\ \A limit \in Limits : limit \in Nat \cup {Unlimited}
  /\ Unlimited = -1
<1>1. Len(NodeMax) \in Nat /\ Len(NodeMax) # 0
  BY SpawnerAssumption, EmptySeq, LenProperties
<1>2. \A n \in Nodes : NodeMax[n] \in Nat \ {0}
  BY SpawnerAssumption, ElementOfSeq DEF Nodes
<1> QED
  BY <1>1, <1>2, SpawnerAssumption DEF Unlimited

LEMMA SmallerIsLeast ==
  ASSUME NEW m \in Nat, NEW n \in Nat
  PROVE  /\ Smaller(m, n) \in Nat /\ Smaller(m, n) <= m /\ Smaller(m, n) <= n
         /\ Smaller(m, n) \in {m, n}
BY DEF Smaller

(* The room grows by each node.                                             *)
LEMMA RoomGrows ==
  /\ Room[0] = 0
  /\ \A k \in Nodes : Room[k] = Room[k - 1] + NodeMax[k]
  /\ \A k \in 0..Len(NodeMax) : Room[k] \in Nat
<1> DEFINE n == Len(NodeMax)
           step == [x \in (1..n) \X Nat |-> x[2] + NodeMax[x[1]]]
           Rule(f) == [k \in 0..n |-> IF k = 0 THEN 0 ELSE f[k - 1] + NodeMax[k]]
<1>0. n \in Nat /\ \A k \in 1..n : NodeMax[k] \in Nat
  BY Constants DEF Nodes
<1>1. Rounds(step, n, Nat)
  BY <1>0 DEF Rounds
<1>2. PICK f : LoopOf(f, 0, step, n, Nat)
  <2> HIDE DEF step, n
  <2> QED
    BY <1>0, <1>1, LoopExists
<1>3. f = Rule(f)
  <2>1. ASSUME NEW k \in 0..n, k # 0 PROVE f[k] = f[k - 1] + NodeMax[k]
    <3>1. k \in 1..n /\ k - 1 \in 0..n /\ k \in Nat
      BY <1>0, <2>1
    <3>2. f[k - 1] \in Nat /\ f[k] = step[<<k, f[k - 1]>>]
      <4> HIDE DEF step, n
      <4> QED
        BY <1>2, <3>1 DEF LoopOf
    <3> QED
      BY <3>1, <3>2
  <2>2. \A k \in 0..n : f[k] = IF k = 0 THEN 0 ELSE f[k - 1] + NodeMax[k]
    BY <1>2, <2>1 DEF LoopOf
  <2>3. f = [k \in 0..n |-> f[k]]
    BY <1>2 DEF LoopOf
  <2> HIDE DEF n, step
  <2> QED
    BY <2>2, <2>3
<1>4. Room = Rule(Room)
  <2>1. Room = CHOOSE g : g = Rule(g)
    BY DEF Room
  <2> HIDE DEF Rule
  <2> QED
    BY <1>3, <2>1
<1>5. Room[0] = 0 /\ \A k \in 1..n : Room[k] = Room[k - 1] + NodeMax[k]
  <2>1. \A k \in 0..n : Room[k] = IF k = 0 THEN 0 ELSE Room[k - 1] + NodeMax[k]
    BY <1>4
  <2> QED
    BY <1>0, <2>1
<1>6. \A k \in 0..n : Room[k] \in Nat
  <2> DEFINE Reached == {k \in Nat : k <= n => Room[k] \in Nat}
  <2>1. 0 \in Reached
    BY <1>5
  <2>2. \A k \in Nat : k \in Reached => k + 1 \in Reached
    <3> SUFFICES ASSUME NEW k \in Nat, k \in Reached, k + 1 <= n
                 PROVE  Room[k + 1] \in Nat
      OBVIOUS
    <3>1. k + 1 \in 1..n /\ Room[k] \in Nat /\ (k + 1) - 1 = k
      BY <1>0
    <3>2. Room[k + 1] = Room[(k + 1) - 1] + NodeMax[k + 1]
      BY <1>5, <3>1
    <3>3. NodeMax[k + 1] \in Nat
      BY <1>0, <3>1
    <3> QED
      BY <3>1, <3>2, <3>3
  <2> HIDE DEF Reached
  <2>3. Nat \subseteq Reached
    BY <2>1, <2>2, NaturalsOfSet
  <2> QED
    BY <1>0, <2>3 DEF Reached
<1> QED
  BY <1>5, <1>6 DEF Nodes

-----------------------------------------------------------------------------
(* Entities.                                                                *)

LEMMA EntitiesFacts ==
  ASSUME NEW e
  PROVE  e \in Entities <=> /\ e = [i \in DOMAIN e |-> e[i]]
                            /\ DOMAIN e \subseteq Ids
                            /\ \A i \in DOMAIN e : e[i] \in Nodes
<1>1. ASSUME e \in Entities
      PROVE  /\ e = [i \in DOMAIN e |-> e[i]] /\ DOMAIN e \subseteq Ids
             /\ \A i \in DOMAIN e : e[i] \in Nodes
  <2>1. PICK D \in SUBSET Ids : e \in [D -> Nodes]
    BY <1>1 DEF Entities
  <2> QED
    BY <2>1
<1>2. ASSUME e = [i \in DOMAIN e |-> e[i]], DOMAIN e \subseteq Ids,
             \A i \in DOMAIN e : e[i] \in Nodes
      PROVE  e \in Entities
  <2> DEFINE D == DOMAIN e
  <2>1. D \in SUBSET Ids /\ e \in [D -> Nodes]
    BY <1>2
  <2> QED
    BY <2>1 DEF Entities
<1> QED
  BY <1>1, <1>2

IsWith(w, e, id, n) ==
  /\ w \in Entities
  /\ DOMAIN w = DOMAIN e \cup {id}
  /\ w[id] = n
  /\ \A i \in DOMAIN e : i # id => w[i] = e[i]

LEMMA WithEntityFacts ==
  ASSUME NEW e \in Entities, NEW id \in Ids, NEW n \in Nodes
  PROVE  IsWith(WithEntity(e, id, n), e, id, n)
<1> DEFINE w == WithEntity(e, id, n)
<1>1. /\ DOMAIN w = DOMAIN e \cup {id} /\ w = [i \in DOMAIN w |-> w[i]]
      /\ w[id] = n /\ \A i \in DOMAIN e : i # id => w[i] = e[i]
  BY DEF WithEntity
<1>2. DOMAIN e \subseteq Ids /\ \A i \in DOMAIN e : e[i] \in Nodes
  BY EntitiesFacts
<1> HIDE DEF w
<1>3. DOMAIN w \subseteq Ids /\ \A i \in DOMAIN w : w[i] \in Nodes
  BY <1>1, <1>2
<1>4. w \in Entities
  BY <1>1, <1>3, EntitiesFacts
<1>5. IsWith(w, e, id, n)
  BY <1>1, <1>4 DEF IsWith
<1> QED
  BY <1>5 DEF w

LEMMA RestrictFacts ==
  ASSUME NEW e \in Entities, NEW id
  PROVE  /\ Restrict(e, DOMAIN e \ {id}) \in Entities
         /\ DOMAIN Restrict(e, DOMAIN e \ {id}) = DOMAIN e \ {id}
         /\ \A i \in DOMAIN e \ {id} : Restrict(e, DOMAIN e \ {id})[i] = e[i]
<1> DEFINE w == Restrict(e, DOMAIN e \ {id})
<1>1. /\ DOMAIN w = DOMAIN e \ {id} /\ w = [i \in DOMAIN w |-> w[i]]
      /\ \A i \in DOMAIN e \ {id} : w[i] = e[i]
  BY DEF Restrict
<1>2. DOMAIN e \subseteq Ids /\ \A i \in DOMAIN e : e[i] \in Nodes
  BY EntitiesFacts
<1> HIDE DEF w
<1>3. DOMAIN w \subseteq Ids /\ \A i \in DOMAIN w : w[i] \in Nodes
  BY <1>1, <1>2
<1>4. w \in Entities
  BY <1>1, <1>3, EntitiesFacts
<1> QED
  BY <1>1, <1>4 DEF w

(* The parts of a spawner.                                                  *)
LEMMA ProperParts ==
  ASSUME NEW s \in Proper
  PROVE  /\ s \in State /\ IsFiniteSet(s.alive) /\ IsFiniteSet(DOMAIN s.entities)
         /\ DOMAIN s.entities \subseteq s.alive /\ s.alive \subseteq Ids
         /\ s.entities \in Entities /\ Listed(s)
         /\ \A i \in DOMAIN s.entities : s.entities[i] \in Nodes
         /\ Count(s) \in Nat
         /\ s.nodes \in [Nodes -> Seq(Ids)]
         /\ \A n \in Nodes : Len(s.nodes[n]) \in Nat
         /\ Len(s.waitTimes) \in Nat
         /\ s.amountMaintained \in Nat /\ s.amountSpawned \in Nat
         /\ s.maxToSpawn \in Nat \cup {Unlimited}
<1>1. /\ s \in State /\ IsFiniteSet(s.alive) /\ DOMAIN s.entities \subseteq s.alive /\ Listed(s)
  BY DEF Proper
<1>2. /\ s.entities \in Entities /\ s.nodes \in [Nodes -> Seq(Ids)]
      /\ s.waitTimes \in Seq(0..RespawnTime) /\ s.alive \subseteq Ids
      /\ s.amountMaintained \in Nat /\ s.amountSpawned \in Nat
      /\ s.maxToSpawn \in Nat \cup {Unlimited}
  BY <1>1 DEF State
<1>3. IsFiniteSet(DOMAIN s.entities)
  BY <1>1, FS_Subset
<1>4. Count(s) \in Nat
  BY <1>3, FS_CardinalityType DEF Count
<1>5. Len(s.waitTimes) \in Nat /\ \A n \in Nodes : Len(s.nodes[n]) \in Nat
  BY <1>2, LenProperties
<1>6. \A i \in DOMAIN s.entities : s.entities[i] \in Nodes
  BY <1>2, EntitiesFacts
<1> QED
  BY <1>1, <1>2, <1>3, <1>4, <1>5, <1>6

-----------------------------------------------------------------------------
(* Spawn.                                                                   *)

(* There is an id that nothing knows.                                       *)
LEMMA NewIdFree ==
  ASSUME NEW s \in Proper
  PROVE  NewId(s) \in Ids /\ NewId(s) \notin s.alive
<1> DEFINE used == s.alive \cup DOMAIN s.entities
           c == Cardinality(used)
<1>1. used = s.alive /\ IsFiniteSet(used) /\ c \in Nat
  BY ProperParts, FS_CardinalityType
<1>2. \E id \in 1..(c + 1) : id \notin used
  <2> SUFFICES ASSUME 1..(c + 1) \subseteq used PROVE FALSE
    OBVIOUS
  <2> HIDE DEF used
  <2>1. Cardinality(1..(c + 1)) <= c
    BY <1>1, FS_Subset
  <2>2. Cardinality(1..(c + 1)) = c + 1
    BY <1>1, FS_Interval
  <2> QED
    BY <1>1, <2>1, <2>2
<1>3. NewId(s) = CHOOSE id \in 1..(c + 1) : id \notin used
  BY DEF NewId
<1> HIDE DEF c, used
<1>4. NewId(s) \in 1..(c + 1) /\ NewId(s) \notin used
  BY <1>2, <1>3
<1> QED
  BY <1>1, <1>4 DEF Ids

(* What spawning leaves as it is, and what it adds to.                      *)
Extends(s, r) ==
  /\ r \in Proper
  /\ r.start = s.start
  /\ r.amountMaintained = s.amountMaintained
  /\ r.maxToSpawn = s.maxToSpawn
  /\ r.waitTimes = s.waitTimes
  /\ r.amountSpawned >= s.amountSpawned
  /\ Count(r) >= Count(s)
  /\ Agree(s) => Agree(r)

LEMMA SpawnAtExtends ==
  ASSUME NEW s \in Proper, NEW n \in Nodes
  PROVE  Extends(s, SpawnAt(s, n)) /\ Count(SpawnAt(s, n)) = Count(s) + 1
<1> DEFINE r == SpawnAt(s, n)
           id == NewId(s)
<1>0. /\ s \in State /\ IsFiniteSet(s.alive) /\ IsFiniteSet(DOMAIN s.entities)
      /\ DOMAIN s.entities \subseteq s.alive /\ s.entities \in Entities /\ Listed(s)
      /\ \A i \in DOMAIN s.entities : s.entities[i] \in Nodes
      /\ Count(s) \in Nat /\ s.amountSpawned \in Nat
      /\ s.nodes \in [Nodes -> Seq(Ids)] /\ s.alive \subseteq Ids
      /\ \A m \in Nodes : Len(s.nodes[m]) \in Nat
  BY ProperParts
<1>1. id \in Ids /\ id \notin s.alive /\ id \notin DOMAIN s.entities
  BY <1>0, NewIdFree
<1> HIDE DEF id
<1>2. r = [s EXCEPT !.amountSpawned = s.amountSpawned + 1,
                    !.entities = WithEntity(s.entities, id, n),
                    !.nodes = [s.nodes EXCEPT ![n] = Append(s.nodes[n], id)],
                    !.alive = s.alive \cup {id},
                    !.needsUpdate = s.needsUpdate /\ Count(s) + 1 # s.amountMaintained]
  BY DEF SpawnAt, id, r
<1>3. /\ r.start = s.start /\ r.amountMaintained = s.amountMaintained
      /\ r.maxToSpawn = s.maxToSpawn /\ r.waitTimes = s.waitTimes
      /\ r.amountSpawned = s.amountSpawned + 1
      /\ r.entities = WithEntity(s.entities, id, n)
      /\ r.nodes = [s.nodes EXCEPT ![n] = Append(s.nodes[n], id)]
      /\ r.alive = s.alive \cup {id}
  BY <1>0, <1>2 DEF State
<1>4. /\ r.entities \in Entities /\ DOMAIN r.entities = DOMAIN s.entities \cup {id}
      /\ r.entities[id] = n
      /\ \A i \in DOMAIN s.entities : r.entities[i] = s.entities[i]
  <2> DEFINE e == s.entities
             w == WithEntity(e, id, n)
  <2>1. e \in Entities /\ id \in Ids /\ id \notin DOMAIN e /\ r.entities = w
    BY <1>0, <1>1, <1>3
  <2> HIDE DEF e, r
  <2>2. IsWith(w, e, id, n)
    BY <2>1, WithEntityFacts
  <2> HIDE DEF w
  <2>3. \A i \in DOMAIN e : r.entities[i] = e[i]
    BY <2>1, <2>2 DEF IsWith
  <2> QED
    BY <2>1, <2>2, <2>3 DEF e, IsWith
<1>5. /\ Append(s.nodes[n], id) \in Seq(Ids)
      /\ Len(Append(s.nodes[n], id)) = Len(s.nodes[n]) + 1
      /\ \A k \in 1..Len(s.nodes[n]) : Append(s.nodes[n], id)[k] = s.nodes[n][k]
      /\ Append(s.nodes[n], id)[Len(s.nodes[n]) + 1] = id
  BY <1>0, <1>1, AppendProperties
<1>6. r.nodes \in [Nodes -> Seq(Ids)]
  BY <1>0, <1>3, <1>5
<1>7. r \in State
  <2>1. s.amountSpawned + 1 \in Nat /\ s.alive \cup {id} \in SUBSET Ids
    BY <1>0, <1>1
  <2> HIDE DEF r
  <2> QED
    BY <1>0, <1>2, <1>3, <1>4, <1>6, <2>1 DEF State
<1> HIDE DEF r
<1>8. Listed(r)
  <2> SUFFICES ASSUME NEW m \in Nodes, NEW k \in 1..Len(r.nodes[m])
               PROVE  /\ r.nodes[m][k] \in DOMAIN r.entities
                      /\ r.entities[r.nodes[m][k]] = m
                      /\ \A j \in 1..Len(r.nodes[m]) :
                           r.nodes[m][j] = r.nodes[m][k] => j = k
    BY DEF Listed
  <2>1. /\ \A j \in 1..Len(s.nodes[m]) :
             /\ s.nodes[m][j] \in DOMAIN s.entities
             /\ s.entities[s.nodes[m][j]] = m
             /\ s.nodes[m][j] # id
        /\ \A i, j \in 1..Len(s.nodes[m]) : s.nodes[m][j] = s.nodes[m][i] => j = i
    BY <1>0, <1>1 DEF Listed
  <2>2. CASE m # n
    <3>1. r.nodes[m] = s.nodes[m]
      BY <1>0, <1>3, <2>2
    <3> QED
      BY <1>4, <2>1, <3>1
  <2>3. CASE m = n
    <3>1. r.nodes[m] = Append(s.nodes[n], id)
      BY <1>0, <1>3, <2>3
    <3>2. \A j \in 1..Len(r.nodes[m]) :
            \/ j \in 1..Len(s.nodes[m]) /\ r.nodes[m][j] = s.nodes[m][j]
            \/ j = Len(s.nodes[m]) + 1 /\ r.nodes[m][j] = id
      BY <1>0, <1>5, <2>3, <3>1
    <3>3. /\ r.nodes[m][k] \in DOMAIN r.entities
          /\ r.entities[r.nodes[m][k]] = m
      <4>1. CASE k \in 1..Len(s.nodes[m]) /\ r.nodes[m][k] = s.nodes[m][k]
        BY <1>4, <2>1, <4>1
      <4>2. CASE r.nodes[m][k] = id
        BY <1>4, <2>3, <4>2
      <4> QED
        BY <3>2, <4>1, <4>2
    <3>4. ASSUME NEW j \in 1..Len(r.nodes[m]), r.nodes[m][j] = r.nodes[m][k]
          PROVE  j = k
      <4>1. CASE k \in 1..Len(s.nodes[m]) /\ r.nodes[m][k] = s.nodes[m][k]
        BY <2>1, <3>2, <3>4, <4>1
      <4>2. CASE k = Len(s.nodes[m]) + 1 /\ r.nodes[m][k] = id
        BY <2>1, <3>2, <3>4, <4>2
      <4> QED
        BY <3>2, <4>1, <4>2
    <3> QED
      BY <3>3, <3>4
  <2> QED
    BY <2>2, <2>3
<1>9. IsFiniteSet(r.alive) /\ DOMAIN r.entities \subseteq r.alive
  <2>1. IsFiniteSet(s.alive \cup {id})
    BY <1>0, FS_AddElement
  <2> QED
    BY <1>0, <1>3, <1>4, <2>1
<1>10. r \in Proper
  BY <1>7, <1>8, <1>9 DEF Proper
<1>11. Count(r) = Count(s) + 1
  BY <1>0, <1>1, <1>4, FS_AddElement DEF Count
<1>12. ASSUME Agree(s) PROVE Agree(r)
  <2>1. r.alive \subseteq DOMAIN r.entities
    BY <1>3, <1>4, <1>12 DEF Agree
  <2>2. ASSUME NEW i \in DOMAIN r.entities
        PROVE  \E k \in 1..Len(r.nodes[r.entities[i]]) : r.nodes[r.entities[i]][k] = i
    <3>1. CASE i = id
      <4>1. r.entities[i] = n /\ r.nodes[n] = Append(s.nodes[n], id)
        BY <1>0, <1>3, <1>4, <3>1
      <4>2. Len(s.nodes[n]) + 1 \in 1..Len(r.nodes[n])
        BY <1>0, <1>5, <4>1
      <4> QED
        BY <1>5, <3>1, <4>1, <4>2
    <3>2. CASE i # id
      <4> DEFINE m == s.entities[i]
      <4>1. i \in DOMAIN s.entities /\ r.entities[i] = m /\ m \in Nodes
        BY <1>0, <1>4, <3>2
      <4> HIDE DEF m
      <4>2. PICK k \in 1..Len(s.nodes[m]) : s.nodes[m][k] = i
        BY <1>12, <4>1 DEF Agree, m
      <4>3. k \in 1..Len(r.nodes[m]) /\ r.nodes[m][k] = s.nodes[m][k]
        <5>1. CASE m = n
          BY <1>0, <1>3, <1>5, <4>1, <4>2, <5>1
        <5>2. CASE m # n
          BY <1>0, <1>3, <4>1, <4>2, <5>2
        <5> QED
          BY <5>1, <5>2
      <4> QED
        BY <4>1, <4>2, <4>3
    <3> QED
      BY <3>1, <3>2
  <2> QED
    BY <2>1, <2>2 DEF Agree
<1> QED
  BY <1>0, <1>3, <1>10, <1>11, <1>12 DEF Extends, r

(* When no node has room, there are as many entities as the nodes hold.     *)
LEMMA FullNodesHold ==
  ASSUME NEW s \in Proper, FreeNodes(s) = {}
  PROVE  Count(s) >= Capacity
<1> DEFINE N == Len(NodeMax)
           Upto(k) == {id \in DOMAIN s.entities : s.entities[id] \in 1..k}
           Reached == {k \in Nat : k <= N => Cardinality(Upto(k)) >= Room[k]}
<1>0. /\ N \in Nat /\ Nodes = 1..N /\ IsFiniteSet(DOMAIN s.entities) /\ Listed(s)
      /\ \A n \in Nodes : NodeMax[n] \in Nat /\ Len(s.nodes[n]) \in Nat
      /\ Room[0] = 0 /\ \A k \in 0..N : Room[k] \in Nat
      /\ \A k \in Nodes : Room[k] = Room[k - 1] + NodeMax[k]
  BY ProperParts, Constants, RoomGrows DEF Nodes
<1>1. \A k \in Nat : IsFiniteSet(Upto(k)) /\ Cardinality(Upto(k)) \in Nat
  <2> TAKE k \in Nat
  <2>1. Upto(k) \in SUBSET DOMAIN s.entities
    OBVIOUS
  <2> HIDE DEF Upto
  <2> QED
    BY <1>0, <2>1, FS_Subset, FS_CardinalityType
<1>2. 0 \in Reached
  <2>1. Cardinality(Upto(0)) >= Room[0]
    <3> HIDE DEF Upto
    <3> QED
      BY <1>0, <1>1
  <2> QED
    BY <2>1
<1>3. ASSUME NEW k \in Nat, k \in Reached, k + 1 <= N
      PROVE  Cardinality(Upto(k + 1)) >= Room[k + 1]
  <2> DEFINE n == k + 1
             Owned == {id \in DOMAIN s.entities : s.entities[id] = n}
             L == Len(s.nodes[n])
  <2>0. n \in Nodes /\ Room[n] = Room[k] + NodeMax[n] /\ Room[k] \in Nat
        /\ Cardinality(Upto(k)) >= Room[k]
    <3>1. n \in Nodes /\ k <= N /\ k \in 0..N /\ n - 1 = k
      BY <1>0, <1>3
    <3>2. Room[n] = Room[n - 1] + NodeMax[n]
      BY <1>0, <3>1
    <3> QED
      BY <1>0, <1>3, <3>1, <3>2
  <2>1. L \in Nat /\ L >= NodeMax[n] /\ NodeMax[n] \in Nat
    <3>1. L \in Nat /\ NodeMax[n] \in Nat
      BY <1>0, <2>0
    <3>2. ~(Len(s.nodes[n]) < NodeMax[n])
      BY <2>0 DEF FreeNodes
    <3> HIDE DEF n
    <3> QED
      BY <3>1, <3>2
  <2>2. IsFiniteSet(Owned) /\ Cardinality(Owned) \in Nat
    <3>1. Owned \in SUBSET DOMAIN s.entities
      OBVIOUS
    <3> HIDE DEF Owned
    <3> QED
      BY <1>0, <3>1, FS_Subset, FS_CardinalityType
  <2>3. L <= Cardinality(Owned)
    <3> SUFFICES ASSUME Cardinality(Owned) < L PROVE FALSE
      BY <2>1, <2>2
    <3> DEFINE f == [j \in 1..L |-> s.nodes[n][j]]
    <3>1. f \in [1..L -> Owned]
      BY <1>0, <2>0 DEF Listed
    <3>2. IsFiniteSet(1..L) /\ Cardinality(1..L) = L
      <4> HIDE DEF L
      <4> QED
        BY <2>1, FS_Interval
    <3>3. \A i, j \in 1..L : f[i] = f[j] => i = j
      BY <1>0, <2>0 DEF Listed
    <3> DEFINE D == 1..L
    <3>4. /\ IsFiniteSet(D) /\ f \in [D -> Owned]
          /\ IsFiniteSet(Owned) /\ Cardinality(Owned) < Cardinality(D)
      BY <2>2, <3>1, <3>2
    <3> HIDE DEF f, D, Owned
    <3>5. \E i, j \in D : i # j /\ f[i] = f[j]
      BY <3>4, FS_PigeonHole
    <3> QED
      BY <3>3, <3>5 DEF D
  <2>4. Upto(n) = Upto(k) \cup Owned /\ Upto(k) \cap Owned = {}
    BY <1>3
  <2> DEFINE A == Upto(k)
             U == Upto(n)
  <2>5. /\ IsFiniteSet(A) /\ Cardinality(A) \in Nat /\ Cardinality(U) \in Nat
        /\ U = A \cup Owned /\ A \cap Owned = {} /\ Cardinality(A) >= Room[k]
    BY <1>1, <2>0, <2>4
  <2> HIDE DEF Owned, L, A, U
  <2>6. Cardinality(U) = Cardinality(A) + Cardinality(Owned)
    <3>1. /\ Cardinality(A \cup Owned)
               = Cardinality(A) + Cardinality(Owned) - Cardinality(A \cap Owned)
      BY <2>2, <2>5, FS_Union
    <3>2. Cardinality(A \cap Owned) = 0
      BY <2>5, FS_EmptySet
    <3> QED
      BY <2>2, <2>5, <3>1, <3>2
  <2>7. Cardinality(U) >= Room[n]
    BY <2>0, <2>1, <2>2, <2>3, <2>5, <2>6
  <2> QED
    BY <2>7 DEF U
<1>4. N \in Reached
  <2>1. ASSUME NEW k \in Nat, k \in Reached PROVE k + 1 \in Reached
    <3> HIDE DEF Upto
    <3> QED
      BY <1>3, <2>1
  <2> HIDE DEF Reached
  <2> QED
    BY <1>0, <1>2, <2>1, NaturalsOfSet
<1>5. Cardinality(Upto(N)) >= Room[N]
  BY <1>0, <1>4
<1>6. Upto(N) = DOMAIN s.entities
  <2>1. \A id \in DOMAIN s.entities : s.entities[id] \in 1..N
    BY <1>0, ProperParts
  <2> QED
    BY <2>1
<1> QED
  BY <1>5, <1>6 DEF Count, Capacity

LEMMA SpawnExtends ==
  ASSUME NEW s \in Proper, NEW r \in Spawn(s)
  PROVE  /\ Extends(s, r)
         /\ \/ Count(r) = Count(s) + 1
            \/ r = s /\ Exhausted(s)
            \/ r = s /\ Count(s) >= s.amountMaintained
            \/ r = s /\ Count(s) >= Capacity
<1>1. CASE Count(s) >= s.amountMaintained \/ FreeNodes(s) = {} \/ Exhausted(s)
  <2>1. r = s
    BY <1>1 DEF Spawn
  <2>2. FreeNodes(s) = {} => Count(s) >= Capacity
    BY FullNodesHold
  <2>3. Extends(s, s)
    BY ProperParts DEF Extends
  <2> QED
    BY <1>1, <2>1, <2>2, <2>3
<1>2. CASE ~(Count(s) >= s.amountMaintained \/ FreeNodes(s) = {} \/ Exhausted(s))
  <2>1. PICK n \in FreeNodes(s) : r = SpawnAt(s, n)
    BY <1>2 DEF Spawn
  <2>2. n \in Nodes
    BY DEF FreeNodes
  <2> QED
    BY <2>1, <2>2, SpawnAtExtends
<1> QED
  BY <1>1, <1>2

LEMMA ExtendsOn ==
  ASSUME NEW s \in Proper, NEW r, NEW t, Extends(s, r), Extends(r, t)
  PROVE  Extends(s, t)
<1>1. r \in Proper /\ t \in Proper
  BY DEF Extends
<1>2. /\ Count(s) \in Nat /\ Count(r) \in Nat /\ Count(t) \in Nat
      /\ s.amountSpawned \in Nat /\ r.amountSpawned \in Nat /\ t.amountSpawned \in Nat
  BY <1>1, ProperParts
<1> QED
  BY <1>2 DEF Extends

(* So many calls find room for as many entities, or meet a limit.           *)
Reaches(s, r, calls) ==
  /\ Extends(s, r)
  /\ \/ Count(r) >= Count(s) + calls
     \/ Exhausted(r)
     \/ Count(r) >= s.amountMaintained
     \/ Count(r) >= Capacity

LEMMA ReachesOnce ==
  ASSUME NEW s \in Proper, NEW k \in Nat, NEW r, Reaches(s, r, k), NEW t \in Spawn(r)
  PROVE  Reaches(s, t, k + 1)
<1>1. r \in Proper /\ Extends(s, r)
  BY DEF Reaches, Extends
<1>2. /\ Extends(r, t)
      /\ \/ Count(t) = Count(r) + 1
         \/ t = r /\ Exhausted(r)
         \/ t = r /\ Count(r) >= r.amountMaintained
         \/ t = r /\ Count(r) >= Capacity
  BY <1>1, SpawnExtends
<1>3. Extends(s, t) /\ t \in Proper
  BY <1>1, <1>2, ExtendsOn DEF Extends
<1>4. /\ Count(s) \in Nat /\ Count(r) \in Nat /\ Count(t) \in Nat
      /\ r.amountSpawned \in Nat /\ t.amountSpawned \in Nat
      /\ r.maxToSpawn \in Nat \cup {Unlimited} /\ s.amountMaintained \in Nat
      /\ Capacity \in Nat
  <2>1. Capacity \in Nat
    BY RoomGrows, Constants DEF Capacity
  <2> QED
    BY <1>1, <1>3, <2>1, ProperParts
<1>5. /\ r.amountMaintained = s.amountMaintained /\ t.maxToSpawn = r.maxToSpawn
      /\ Count(t) >= Count(r) /\ t.amountSpawned >= r.amountSpawned
  BY <1>1, <1>2 DEF Extends
<1>6. Exhausted(r) => Exhausted(t)
  BY <1>4, <1>5, Constants DEF Exhausted
<1>7. \/ Count(t) >= Count(s) + (k + 1)
      \/ Exhausted(t)
      \/ Count(t) >= s.amountMaintained
      \/ Count(t) >= Capacity
  <2>1. CASE Count(r) >= Count(s) + k
    BY <1>2, <1>4, <1>5, <1>6, <2>1
  <2>2. CASE Exhausted(r) \/ Count(r) >= s.amountMaintained \/ Count(r) >= Capacity
    BY <1>4, <1>5, <1>6, <2>2
  <2> QED
    BY <2>1, <2>2 DEF Reaches
<1> QED
  BY <1>3, <1>7 DEF Reaches

Outcomes(s, calls, f) ==
  f = [k \in 0..calls |-> IF k = 0 THEN {s} ELSE UNION {Spawn(r) : r \in f[k - 1]}]

LEMMA SpawnTimesIterates ==
  ASSUME NEW s, NEW calls
  PROVE  SpawnTimes(s, calls) = (CHOOSE f : Outcomes(s, calls, f))[calls]
BY DEF SpawnTimes, Outcomes

LEMMA OutcomesExist ==
  ASSUME NEW s \in Proper, NEW calls \in Nat
  PROVE  \E f : Outcomes(s, calls, f)
<1> DEFINE once(R) == UNION {Spawn(r) : r \in R}
           step == [x \in (1..calls) \X (SUBSET Proper) |-> once(x[2])]
           none == {s}
<1>1. \A R \in SUBSET Proper : once(R) \in SUBSET Proper
  BY SpawnExtends DEF Extends
<1>2. none \in SUBSET Proper
  OBVIOUS
<1>3. Rounds(step, calls, SUBSET Proper)
  <2> HIDE DEF once
  <2>1. step \in [(1..calls) \X (SUBSET Proper) -> SUBSET Proper]
    BY <1>1
  <2> QED
    BY <2>1 DEF Rounds
<1>4. PICK f : LoopOf(f, none, step, calls, SUBSET Proper)
  <2> HIDE DEF step, none
  <2> QED
    BY <1>2, <1>3, LoopExists
<1>5. ASSUME NEW k \in 0..calls, k # 0 PROVE f[k] = once(f[k - 1])
  <2>1. k \in 1..calls /\ k - 1 \in 0..calls
    BY <1>5
  <2>2. f[k - 1] \in SUBSET Proper /\ f[k] = step[<<k, f[k - 1]>>]
    <3> HIDE DEF step, none, once
    <3> QED
      BY <1>4, <2>1 DEF LoopOf
  <2> HIDE DEF once
  <2> QED
    BY <2>1, <2>2
<1>6. f = [k \in 0..calls |-> IF k = 0 THEN {s} ELSE once(f[k - 1])]
  <2>1. f = [k \in 0..calls |-> f[k]] /\ f[0] = {s}
    BY <1>4 DEF LoopOf
  <2> HIDE DEF step, once
  <2> QED
    BY <1>5, <2>1
<1> HIDE DEF step
<1> QED
  BY <1>6 DEF Outcomes

LEMMA SpawnTimesReaches ==
  ASSUME NEW s \in Proper, NEW calls \in Nat, NEW r \in SpawnTimes(s, calls)
  PROVE  Reaches(s, r, calls)
<1> DEFINE f == CHOOSE any : Outcomes(s, calls, any)
           Reached == {k \in Nat : k <= calls => \A t \in f[k] : Reaches(s, t, k)}
<1>1. Outcomes(s, calls, f)
  BY OutcomesExist
<1>2. r \in f[calls]
  BY SpawnTimesIterates
<1> HIDE DEF f
<1>3. \A k \in 0..calls :
        f[k] = IF k = 0 THEN {s} ELSE UNION {Spawn(t) : t \in f[k - 1]}
  BY <1>1 DEF Outcomes
<1>4. 0 \in Reached
  <2>1. Reaches(s, s, 0)
    BY ProperParts DEF Reaches, Extends
  <2>2. 0 \in 0..calls
    OBVIOUS
  <2>3. f[0] = IF 0 = 0 THEN {s} ELSE UNION {Spawn(t) : t \in f[0 - 1]}
    BY <1>3, <2>2, Zenon
  <2> QED
    BY <2>1, <2>3
<1>5. ASSUME NEW k \in Nat, k \in Reached PROVE k + 1 \in Reached
  <2> SUFFICES ASSUME k + 1 <= calls, NEW t \in f[k + 1]
               PROVE  Reaches(s, t, k + 1)
    OBVIOUS
  <2>1. k + 1 \in 0..calls /\ k + 1 # 0 /\ (k + 1) - 1 = k
    OBVIOUS
  <2>2. f[k + 1] = UNION {Spawn(v) : v \in f[k]}
    BY <1>3, <2>1
  <2>3. PICK v \in f[k] : t \in Spawn(v)
    BY <2>2
  <2>4. Reaches(s, v, k)
    BY <1>5, <2>3
  <2> QED
    BY <2>3, <2>4, ReachesOnce
<1>6. calls \in Reached
  <2> HIDE DEF Reached
  <2> QED
    BY <1>4, <1>5, NaturalsOfSet
<1> QED
  BY <1>2, <1>6

-----------------------------------------------------------------------------
(* Update.                                                                  *)

PassState == [kept: Seq(0..RespawnTime), due: Nat, skip: BOOLEAN]

LEMMA PassKeeps ==
  ASSUME NEW a \in PassState, NEW time \in 0..RespawnTime
  PROVE  /\ Pass(a, time) \in PassState
         /\ Len(Pass(a, time).kept) + Pass(a, time).due = Len(a.kept) + a.due + 1
<1> DEFINE p == Pass(a, time)
<1>0. /\ a = [kept |-> a.kept, due |-> a.due, skip |-> a.skip]
      /\ a.kept \in Seq(0..RespawnTime)
      /\ a.due \in Nat /\ a.skip \in BOOLEAN /\ RespawnTime \in Nat
  BY Constants DEF PassState
<1>1. Len(a.kept) \in Nat
  BY <1>0, LenProperties
<1>2. ASSUME NEW t \in 0..RespawnTime, NEW skip \in BOOLEAN,
             p = [kept |-> Append(a.kept, t), due |-> a.due, skip |-> skip]
      PROVE  p \in PassState /\ Len(p.kept) + p.due = Len(a.kept) + a.due + 1
  <2>1. /\ Append(a.kept, t) \in Seq(0..RespawnTime)
        /\ Len(Append(a.kept, t)) = Len(a.kept) + 1
    BY <1>0, AppendProperties
  <2> DEFINE longer == Append(a.kept, t)
  <2> HIDE DEF p, longer
  <2>2. p.kept = longer /\ p.due = a.due /\ p \in PassState
    BY <1>0, <1>2, <2>1 DEF PassState, longer
  <2>3. Len(longer) = Len(a.kept) + 1
    BY <2>1 DEF longer
  <2> QED
    BY <1>0, <1>1, <2>2, <2>3
<1>3. CASE a.skip
  <2>1. p = [kept |-> Append(a.kept, time), due |-> a.due, skip |-> FALSE]
    BY <1>0, <1>3 DEF Pass
  <2> HIDE DEF p
  <2> QED
    BY <1>2, <2>1 DEF p
<1>4. CASE ~a.skip /\ time + 1 < RespawnTime
  <2>1. p = [kept |-> Append(a.kept, time + 1), due |-> a.due, skip |-> a.skip]
    BY <1>0, <1>4 DEF Pass
  <2>2. time + 1 \in 0..RespawnTime
    BY <1>0, <1>4
  <2> HIDE DEF p
  <2>3. p \in PassState /\ Len(p.kept) + p.due = Len(a.kept) + a.due + 1
    BY <1>0, <1>2, <2>1, <2>2
  <2> QED
    BY <2>3 DEF p
<1>5. CASE ~a.skip /\ ~(time + 1 < RespawnTime)
  <2>1. p = [kept |-> a.kept, due |-> a.due + 1, skip |-> TRUE]
    BY <1>0, <1>5 DEF Pass
  <2> HIDE DEF p
  <2>2. p.kept = a.kept /\ p.due = a.due + 1 /\ p \in PassState
    BY <1>0, <2>1 DEF PassState
  <2>3. Len(p.kept) + p.due = Len(a.kept) + a.due + 1
    BY <1>0, <1>1, <2>2
  <2> QED
    BY <2>2, <2>3 DEF p
<1> QED
  BY <1>3, <1>4, <1>5

PassedBy(times, f) ==
  f = [k \in 0..Len(times) |->
         IF k = 0 THEN [kept |-> <<>>, due |-> 0, skip |-> FALSE]
         ELSE Pass(f[k - 1], times[k])]

LEMMA PassesIterate ==
  ASSUME NEW times
  PROVE  Passes(times) = (CHOOSE f : PassedBy(times, f))[Len(times)]
BY DEF Passes, PassedBy

LEMMA PassedExists ==
  ASSUME NEW times \in Seq(0..RespawnTime)
  PROVE  \E f : PassedBy(times, f)
<1> DEFINE n == Len(times)
           step == [x \in (1..n) \X PassState |-> Pass(x[2], times[x[1]])]
           none == [kept |-> <<>>, due |-> 0, skip |-> FALSE]
<1>0. n \in Nat /\ \A k \in 1..n : times[k] \in 0..RespawnTime
  BY LenProperties, ElementOfSeq
<1>1. none \in PassState
  BY DEF PassState
<1>2. Rounds(step, n, PassState)
  <2>1. \A x \in (1..n) \X PassState : Pass(x[2], times[x[1]]) \in PassState
    BY <1>0, PassKeeps
  <2> HIDE DEF n
  <2> QED
    BY <2>1 DEF Rounds
<1>3. PICK f : LoopOf(f, none, step, n, PassState)
  <2> HIDE DEF step, none, n
  <2> QED
    BY <1>0, <1>1, <1>2, LoopExists
<1>4. ASSUME NEW k \in 0..n, k # 0 PROVE f[k] = Pass(f[k - 1], times[k])
  <2>1. k \in 1..n /\ k - 1 \in 0..n
    BY <1>0, <1>4
  <2>2. f[k - 1] \in PassState /\ f[k] = step[<<k, f[k - 1]>>]
    <3> HIDE DEF step, none, n
    <3> QED
      BY <1>3, <2>1 DEF LoopOf
  <2> HIDE DEF n
  <2> QED
    BY <2>1, <2>2
<1>5. f = [k \in 0..n |-> IF k = 0 THEN none ELSE Pass(f[k - 1], times[k])]
  <2>1. f = [k \in 0..n |-> f[k]] /\ f[0] = none
    BY <1>3 DEF LoopOf
  <2> HIDE DEF step, n, none
  <2> QED
    BY <1>4, <2>1
<1> HIDE DEF step
<1> QED
  BY <1>5 DEF PassedBy

(* Every waiting time is kept or due.                                       *)
LEMMA PassesKeep ==
  ASSUME NEW times \in Seq(0..RespawnTime)
  PROVE  /\ Passes(times) \in PassState
         /\ Len(Passes(times).kept) + Passes(times).due = Len(times)
<1> DEFINE n == Len(times)
           f == CHOOSE any : PassedBy(times, any)
           Fine(k) == f[k] \in PassState /\ Len(f[k].kept) + f[k].due = k
           Reached == {k \in Nat : k <= n => Fine(k)}
<1>0. n \in Nat /\ \A k \in 1..n : times[k] \in 0..RespawnTime
  BY LenProperties, ElementOfSeq
<1>1. PassedBy(times, f)
  BY PassedExists
<1>2. Passes(times) = f[n]
  BY PassesIterate
<1> HIDE DEF f
<1>3. \A k \in 0..n :
        f[k] = IF k = 0 THEN [kept |-> <<>>, due |-> 0, skip |-> FALSE]
               ELSE Pass(f[k - 1], times[k])
  BY <1>1 DEF PassedBy
<1> HIDE DEF n
<1>4. 0 \in Reached
  <2>1. f[0] = [kept |-> <<>>, due |-> 0, skip |-> FALSE]
    BY <1>0, <1>3
  <2>2. Fine(0)
    BY <2>1 DEF PassState
  <2> QED
    BY <2>2
<1>5. ASSUME NEW k \in Nat, k \in Reached PROVE k + 1 \in Reached
  <2> SUFFICES ASSUME k + 1 <= n PROVE Fine(k + 1)
    OBVIOUS
  <2>1. k + 1 \in 1..n /\ k + 1 \in 0..n /\ (k + 1) - 1 = k /\ Fine(k)
    BY <1>0, <1>5
  <2>2. f[k + 1] = Pass(f[k], times[k + 1])
    BY <1>3, <2>1
  <2>3. times[k + 1] \in 0..RespawnTime
    BY <1>0, <2>1
  <2>4. /\ f[k + 1] \in PassState
        /\ Len(f[k + 1].kept) + f[k + 1].due = Len(f[k].kept) + f[k].due + 1
    BY <2>1, <2>2, <2>3, PassKeeps
  <2> QED
    BY <2>1, <2>4
<1>6. n \in Reached
  <2> HIDE DEF Reached
  <2> QED
    BY <1>0, <1>4, <1>5, NaturalsOfSet
<1> QED
  BY <1>0, <1>2, <1>6 DEF n

(* Only its clock and settings differ.                                      *)
SameEntities(s, r) ==
  r \in State /\ r.entities = s.entities /\ r.nodes = s.nodes /\ r.alive = s.alive

LEMMA SameEntitiesKeep ==
  ASSUME NEW s \in Proper, NEW r, SameEntities(s, r)
  PROVE  r \in Proper /\ Count(r) = Count(s) /\ (Agree(s) <=> Agree(r))
<1>1. r \in Proper
  BY DEF SameEntities, Proper, Listed
<1> QED
  BY <1>1 DEF SameEntities, Count, Agree

(* What the run checks, of a spawner s that is to come back to g entities.  *)
Modest(s, g) == g \in Nat /\ g <= s.amountMaintained /\ g <= Capacity

Awaited(s, g) ==
  s.start \/ Exhausted(s) \/ Count(s) + Len(s.waitTimes) >= g

LEMMA StartKeeps ==
  ASSUME NEW s \in Proper, NEW r \in Start(s)
  PROVE  /\ r \in Proper /\ (Agree(s) => Agree(r))
         /\ r.amountMaintained = s.amountMaintained
<1> DEFINE toSpawn == IF s.amountSpawned <= s.amountMaintained
                      THEN s.amountMaintained - s.amountSpawned ELSE Capacity
<1>1. toSpawn \in Nat
  BY ProperParts, RoomGrows, Constants DEF Capacity
<1>2. PICK t \in SpawnTimes(s, toSpawn) :
        r = [t EXCEPT !.start = FALSE, !.waitTimes = <<>>]
  BY DEF Start
<1>3. Extends(s, t)
  <2> HIDE DEF toSpawn
  <2> QED
    BY <1>1, <1>2, SpawnTimesReaches DEF Reaches
<1>4. t \in Proper /\ t \in State /\ (Agree(s) => Agree(t))
      /\ t.amountMaintained = s.amountMaintained
  BY <1>3, ProperParts DEF Extends
<1>5. SameEntities(t, r) /\ r.amountMaintained = t.amountMaintained
  <2> DEFINE none == <<>>
  <2>1. none \in Seq(0..RespawnTime)
    OBVIOUS
  <2>2. r = [t EXCEPT !.start = FALSE, !.waitTimes = none]
    BY <1>2
  <2> HIDE DEF none
  <2> QED
    BY <1>4, <2>1, <2>2 DEF State, SameEntities
<1> QED
  BY <1>4, <1>5, SameEntitiesKeep

LEMMA ElapseKeeps ==
  ASSUME NEW s \in Proper, NEW r \in Elapse(s)
  PROVE  /\ r \in Proper /\ (Agree(s) => Agree(r))
         /\ r.amountMaintained = s.amountMaintained
         /\ \A g : Modest(s, g) /\ ~s.start /\ Awaited(s, g) => Awaited(r, g)
<1> DEFINE passes == Passes(s.waitTimes)
           due == passes.due
           kept == passes.kept
<1>0. /\ s.waitTimes \in Seq(0..RespawnTime) /\ Len(s.waitTimes) \in Nat
      /\ Count(s) \in Nat /\ s.amountMaintained \in Nat /\ s.amountSpawned \in Nat
      /\ s.maxToSpawn \in Nat \cup {Unlimited} /\ Capacity \in Nat
  BY ProperParts, RoomGrows, Constants DEF Capacity, State
<1>1. /\ due \in Nat /\ kept \in Seq(0..RespawnTime)
      /\ Len(kept) + due = Len(s.waitTimes)
  <2>1. passes \in PassState /\ Len(passes.kept) + passes.due = Len(s.waitTimes)
    BY <1>0, PassesKeep
  <2> QED
    BY <2>1 DEF PassState
<1>2. PICK t \in SpawnTimes(s, due) : r = [t EXCEPT !.waitTimes = kept]
  BY DEF Elapse
<1> HIDE DEF due, kept
<1>3. Reaches(s, t, due)
  BY <1>1, <1>2, SpawnTimesReaches
<1>4. /\ t \in Proper /\ t \in State /\ (Agree(s) => Agree(t))
      /\ t.amountMaintained = s.amountMaintained
      /\ t.maxToSpawn = s.maxToSpawn /\ t.amountSpawned >= s.amountSpawned
      /\ Count(t) >= Count(s)
  BY <1>3, ProperParts DEF Reaches, Extends
<1>5. /\ SameEntities(t, r) /\ r.amountMaintained = t.amountMaintained
      /\ r.waitTimes = kept /\ r.maxToSpawn = t.maxToSpawn
      /\ r.amountSpawned = t.amountSpawned
  BY <1>1, <1>2, <1>4 DEF State, SameEntities
<1>6. r \in Proper /\ Count(r) = Count(t) /\ (Agree(t) <=> Agree(r))
  BY <1>4, <1>5, SameEntitiesKeep
<1>7. ASSUME NEW g, Modest(s, g), ~s.start, Awaited(s, g) PROVE Awaited(r, g)
  <2>0. /\ Count(t) \in Nat /\ t.amountSpawned \in Nat /\ Len(kept) \in Nat
        /\ g \in Nat /\ g <= s.amountMaintained /\ g <= Capacity
    BY <1>1, <1>4, <1>7, ProperParts, LenProperties DEF Modest
  <2>1. Exhausted(t) => Exhausted(r)
    BY <1>5 DEF Exhausted
  <2>2. CASE Exhausted(s)
    <3>1. Exhausted(t)
      BY <1>0, <1>4, <2>0, <2>2, Constants DEF Exhausted
    <3> QED
      BY <2>1, <3>1 DEF Awaited
  <2>3. CASE Count(s) + Len(s.waitTimes) >= g
    <3>1. CASE Count(t) >= Count(s) + due
      <4>1. Count(t) + Len(kept) >= g
        BY <1>0, <1>1, <2>0, <2>3, <3>1
      <4> QED
        BY <1>5, <1>6, <4>1 DEF Awaited
    <3>2. CASE Exhausted(t)
      BY <2>1, <3>2 DEF Awaited
    <3>3. CASE Count(t) >= s.amountMaintained \/ Count(t) >= Capacity
      <4>1. Count(t) + Len(kept) >= g
        BY <1>0, <2>0, <3>3
      <4> QED
        BY <1>5, <1>6, <4>1 DEF Awaited
    <3> QED
      BY <1>3, <3>1, <3>2, <3>3 DEF Reaches
  <2> QED
    BY <1>7, <2>2, <2>3 DEF Awaited
<1> QED
  BY <1>4, <1>5, <1>6, <1>7

-----------------------------------------------------------------------------
(* Deaths.                                                                  *)

(* What deaths leave as it is, and that each is waited for.                 *)
Outlives(s, r) ==
  /\ r \in Proper
  /\ r.start = s.start
  /\ r.amountMaintained = s.amountMaintained
  /\ r.maxToSpawn = s.maxToSpawn
  /\ r.amountSpawned = s.amountSpawned
  /\ Count(r) + Len(r.waitTimes) >= Count(s) + Len(s.waitTimes)
  /\ DOMAIN r.entities \subseteq DOMAIN s.entities
  /\ \A i \in DOMAIN r.entities : r.entities[i] = s.entities[i]

LEMMA OutlivesOn ==
  ASSUME NEW s \in Proper, NEW r, NEW t, Outlives(s, r), Outlives(r, t)
  PROVE  Outlives(s, t)
<1>1. r \in Proper /\ t \in Proper
  BY DEF Outlives
<1>2. /\ Count(s) \in Nat /\ Count(r) \in Nat /\ Count(t) \in Nat
      /\ Len(s.waitTimes) \in Nat /\ Len(r.waitTimes) \in Nat /\ Len(t.waitTimes) \in Nat
  BY <1>1, ProperParts
<1>3. Count(t) + Len(t.waitTimes) >= Count(s) + Len(s.waitTimes)
  <2> DEFINE waits(v) == Len(v.waitTimes)
             kept(v) == Count(v) + waits(v)
  <2>1. kept(s) \in Nat /\ kept(r) \in Nat /\ kept(t) \in Nat
    <3>1. waits(s) \in Nat /\ waits(r) \in Nat /\ waits(t) \in Nat
      BY <1>2
    <3> HIDE DEF waits
    <3> QED
      BY <1>2, <3>1
  <2>2. kept(r) >= kept(s) /\ kept(t) >= kept(r)
    BY DEF Outlives
  <2>3. kept(t) >= kept(s)
    <3> HIDE DEF kept
    <3> QED
      BY <2>1, <2>2
  <2> QED
    BY <2>3
<1> QED
  BY <1>1, <1>3 DEF Outlives

LEMMA OutlivesSelf ==
  ASSUME NEW s \in Proper
  PROVE  Outlives(s, s)
BY ProperParts DEF Outlives

LEMMA OutlivesAwaits ==
  ASSUME NEW s \in Proper, NEW r, Outlives(s, r), NEW g \in Nat, Awaited(s, g)
  PROVE  Awaited(r, g)
<1>1. r \in Proper
  BY DEF Outlives
<1>2. /\ Count(s) \in Nat /\ Count(r) \in Nat
      /\ Len(s.waitTimes) \in Nat /\ Len(r.waitTimes) \in Nat
  BY <1>1, ProperParts
<1> QED
  BY <1>2 DEF Outlives, Awaited, Exhausted

LEMMA KillKeeps ==
  ASSUME NEW s \in Proper, NEW id \in Ids
  PROVE  /\ Outlives(s, Kill(s, id))
         /\ Agree(s) => Agree(Kill(s, id))
         /\ id \notin DOMAIN Kill(s, id).entities
         /\ \A m \in Nodes : id \notin DOMAIN s.entities \/ s.entities[id] # m =>
              Kill(s, id).nodes[m] = s.nodes[m]
<1> DEFINE r == Kill(s, id)
           times == Append(s.waitTimes, 0)
           living == s.alive \ {id}
<1>0. /\ s \in State /\ IsFiniteSet(s.alive) /\ IsFiniteSet(DOMAIN s.entities)
      /\ DOMAIN s.entities \subseteq s.alive /\ s.entities \in Entities /\ Listed(s)
      /\ \A i \in DOMAIN s.entities : s.entities[i] \in Nodes
      /\ Count(s) \in Nat /\ Len(s.waitTimes) \in Nat
      /\ s.nodes \in [Nodes -> Seq(Ids)] /\ s.alive \subseteq Ids
      /\ \A m \in Nodes : Len(s.nodes[m]) \in Nat
  BY ProperParts
<1>1. times \in Seq(0..RespawnTime) /\ Len(times) = Len(s.waitTimes) + 1
  <2>1. s.waitTimes \in Seq(0..RespawnTime) /\ 0 \in 0..RespawnTime
    BY <1>0, Constants DEF State
  <2> QED
    BY <2>1, AppendProperties
<1>2. IsFiniteSet(living) /\ living \in SUBSET Ids
  BY <1>0, FS_Subset
<1> HIDE DEF times, living
<1>3. CASE id \notin DOMAIN s.entities
  <2>1. r = [s EXCEPT !.needsUpdate = TRUE, !.waitTimes = times, !.alive = living]
    BY <1>0, <1>3 DEF Kill, NotifyOfEntityDeath, State, times, living
  <2> HIDE DEF r
  <2>2. /\ r \in State /\ r.entities = s.entities /\ r.nodes = s.nodes
        /\ r.alive = living /\ r.waitTimes = times /\ r.start = s.start
        /\ r.amountMaintained = s.amountMaintained /\ r.maxToSpawn = s.maxToSpawn
        /\ r.amountSpawned = s.amountSpawned
    BY <1>0, <1>1, <1>2, <2>1 DEF State
  <2>3. DOMAIN r.entities \subseteq r.alive
    BY <1>0, <1>3, <2>2 DEF living
  <2>4. r \in Proper
    <3>1. Listed(r)
      BY <1>0, <2>2 DEF Listed
    <3> QED
      BY <1>2, <2>2, <2>3, <3>1 DEF Proper
  <2>5. Count(r) + Len(r.waitTimes) >= Count(s) + Len(s.waitTimes)
    BY <1>0, <1>1, <2>2 DEF Count
  <2>6. Agree(s) => Agree(r)
    BY <2>2 DEF Agree, living
  <2>7. Outlives(s, r)
    BY <2>2, <2>4, <2>5 DEF Outlives
  <2> QED
    BY <1>3, <2>2, <2>6, <2>7 DEF r
<1>4. CASE id \in DOMAIN s.entities
  <2> DEFINE n == s.entities[id]
             left == RemoveFirst(s.nodes[n], id)
             others == Restrict(s.entities, DOMAIN s.entities \ {id})
  <2>0. n \in Nodes /\ s.nodes[n] \in Seq(Ids)
    BY <1>0, <1>4
  <2>1. /\ others \in Entities /\ DOMAIN others = DOMAIN s.entities \ {id}
        /\ \A i \in DOMAIN s.entities \ {id} : others[i] = s.entities[i]
    BY <1>0, RestrictFacts
  <2>2. /\ left \in Seq(Ids)
        /\ \A i, j \in 1..Len(left) : left[i] = left[j] => i = j
        /\ \A i \in 1..Len(left) :
             left[i] # id /\ \E j \in 1..Len(s.nodes[n]) : left[i] = s.nodes[n][j]
        /\ \A j \in 1..Len(s.nodes[n]) : s.nodes[n][j] # id =>
             \E i \in 1..Len(left) : left[i] = s.nodes[n][j]
    <3>1. \A i, j \in 1..Len(s.nodes[n]) : s.nodes[n][i] = s.nodes[n][j] => i = j
      BY <1>0, <2>0 DEF Listed
    <3>2. CASE \E i \in 1..Len(s.nodes[n]) : s.nodes[n][i] = id
      <4> DEFINE list == s.nodes[n]
      <4>1. list \in Seq(Ids) /\ \E i \in 1..Len(list) : list[i] = id
        BY <2>0, <3>2
      <4>2. \A i, j \in 1..Len(list) : list[i] = list[j] => i = j
        BY <3>1
      <4> HIDE DEF list, n
      <4>3. /\ RemoveFirst(list, id) \in Seq(Ids)
            /\ Len(RemoveFirst(list, id)) = Len(list) - 1
            /\ \A i, j \in 1..(Len(list) - 1) :
                 RemoveFirst(list, id)[i] = RemoveFirst(list, id)[j] => i = j
            /\ \A i \in 1..(Len(list) - 1) :
                 /\ RemoveFirst(list, id)[i] # id
                 /\ \E j \in 1..Len(list) : RemoveFirst(list, id)[i] = list[j]
            /\ \A j \in 1..Len(list) : list[j] # id =>
                 \E i \in 1..(Len(list) - 1) : RemoveFirst(list, id)[i] = list[j]
        BY <4>1, <4>2, RemovedOnce
      <4> QED
        BY <4>3 DEF list
    <3>3. CASE ~\E i \in 1..Len(s.nodes[n]) : s.nodes[n][i] = id
      <4>1. left = s.nodes[n]
        BY <3>3 DEF RemoveFirst
      <4> HIDE DEF left
      <4> QED
        BY <2>0, <3>1, <3>3, <4>1
    <3> QED
      BY <3>2, <3>3
  <2>3. r = [s EXCEPT !.needsUpdate = TRUE, !.waitTimes = times, !.alive = living,
                      !.nodes = [s.nodes EXCEPT ![n] = left], !.entities = others]
    <3>1. NotifyOfEntityDeath(s, id)
            = [s EXCEPT !.needsUpdate = TRUE, !.waitTimes = times,
                        !.nodes = [s.nodes EXCEPT ![n] = left], !.entities = others]
      BY <1>0, <1>4 DEF NotifyOfEntityDeath, State, times
    <3> HIDE DEF left, others, n
    <3> QED
      BY <1>0, <3>1 DEF Kill, State, living
  <2> HIDE DEF r, left, others, n
  <2>4. /\ r.entities = others /\ r.nodes = [s.nodes EXCEPT ![n] = left]
        /\ r.alive = living /\ r.waitTimes = times /\ r.start = s.start
        /\ r.amountMaintained = s.amountMaintained /\ r.maxToSpawn = s.maxToSpawn
        /\ r.amountSpawned = s.amountSpawned
    BY <1>0, <2>3 DEF State
  <2>5. r.nodes \in [Nodes -> Seq(Ids)] /\ r.nodes[n] = left
        /\ \A m \in Nodes : m # n => r.nodes[m] = s.nodes[m]
    BY <1>0, <2>0, <2>2, <2>4
  <2>6. r \in State
    BY <1>0, <1>1, <1>2, <2>1, <2>3, <2>4, <2>5 DEF State
  <2>7. DOMAIN r.entities \subseteq r.alive
    BY <1>0, <2>1, <2>4 DEF living
  <2>8. Listed(r)
    <3> SUFFICES ASSUME NEW m \in Nodes, NEW k \in 1..Len(r.nodes[m])
                 PROVE  /\ r.nodes[m][k] \in DOMAIN r.entities
                        /\ r.entities[r.nodes[m][k]] = m
                        /\ \A j \in 1..Len(r.nodes[m]) :
                             r.nodes[m][j] = r.nodes[m][k] => j = k
      BY DEF Listed
    <3>1. CASE m = n
      <4>0. k \in 1..Len(left)
        BY <2>5, <3>1
      <4>1. PICK j \in 1..Len(s.nodes[n]) : left[k] = s.nodes[n][j]
        BY <2>2, <4>0
      <4>2. left[k] # id /\ left[k] \in DOMAIN s.entities /\ s.entities[left[k]] = n
        <5>1. s.nodes[n][j] \in DOMAIN s.entities /\ s.entities[s.nodes[n][j]] = n
          BY <1>0, <2>0 DEF Listed
        <5> QED
          BY <2>2, <4>0, <4>1, <5>1
      <4>3. r.nodes[m][k] = left[k] /\ others[left[k]] = n /\ left[k] \in DOMAIN others
        BY <2>1, <2>5, <3>1, <4>2
      <4> QED
        BY <2>2, <2>4, <2>5, <3>1, <4>3
    <3>2. CASE m # n
      <4>1. /\ s.nodes[m][k] \in DOMAIN s.entities /\ s.entities[s.nodes[m][k]] = m
            /\ \A j \in 1..Len(s.nodes[m]) : s.nodes[m][j] = s.nodes[m][k] => j = k
            /\ r.nodes[m] = s.nodes[m]
        BY <1>0, <2>5, <3>2 DEF Listed
      <4>2. s.nodes[m][k] # id
        BY <3>2, <4>1 DEF n
      <4>3. s.nodes[m][k] \in DOMAIN others /\ others[s.nodes[m][k]] = m
        BY <2>1, <4>1, <4>2
      <4> QED
        BY <2>4, <4>1, <4>3
    <3> QED
      BY <3>1, <3>2
  <2>9. r \in Proper
    BY <1>2, <2>4, <2>6, <2>7, <2>8 DEF Proper
  <2>10. Count(r) = Count(s) - 1
    <3>1. Cardinality(DOMAIN s.entities \ {id}) = Cardinality(DOMAIN s.entities) - 1
      BY <1>0, <1>4, FS_RemoveElement
    <3> QED
      BY <2>1, <2>4, <3>1 DEF Count
  <2>11. Count(r) + Len(r.waitTimes) >= Count(s) + Len(s.waitTimes)
    BY <1>0, <1>1, <2>4, <2>10
  <2>12. Outlives(s, r)
    BY <2>1, <2>4, <2>9, <2>11 DEF Outlives
  <2>13. ASSUME Agree(s) PROVE Agree(r)
    <3>1. r.alive \subseteq DOMAIN r.entities
      BY <2>1, <2>4, <2>13 DEF Agree, living
    <3>2. ASSUME NEW i \in DOMAIN r.entities
          PROVE  \E k \in 1..Len(r.nodes[r.entities[i]]) : r.nodes[r.entities[i]][k] = i
      <4> DEFINE m == s.entities[i]
      <4>1. i \in DOMAIN s.entities /\ i # id /\ r.entities[i] = m /\ m \in Nodes
        BY <1>0, <2>1, <2>4
      <4>2. PICK j \in 1..Len(s.nodes[m]) : s.nodes[m][j] = i
        BY <2>13, <4>1 DEF Agree
      <4> HIDE DEF m
      <4>3. \E k \in 1..Len(r.nodes[m]) : r.nodes[m][k] = i
        <5>1. CASE m = n
          BY <2>2, <2>5, <4>1, <4>2, <5>1
        <5>2. CASE m # n
          BY <2>5, <4>1, <4>2, <5>2
        <5> QED
          BY <5>1, <5>2
      <4> QED
        BY <4>1, <4>3
    <3> QED
      BY <3>1, <3>2 DEF Agree
  <2>14. id \notin DOMAIN r.entities
    BY <2>1, <2>4
  <2>15. \A m \in Nodes : id \notin DOMAIN s.entities \/ s.entities[id] # m =>
           r.nodes[m] = s.nodes[m]
    BY <1>4, <2>5 DEF n
  <2> QED
    BY <2>12, <2>13, <2>14, <2>15 DEF r
<1> QED
  BY <1>3, <1>4

KilledBy(s, list, f) ==
  f = [k \in 0..Len(list) |-> IF k = 0 THEN s ELSE Kill(f[k - 1], list[k])]

LEMMA KillAllIterates ==
  ASSUME NEW s, NEW list
  PROVE  KillAll(s, list) = (CHOOSE f : KilledBy(s, list, f))[Len(list)]
BY DEF KillAll, KilledBy

LEMMA KilledExists ==
  ASSUME NEW s \in Proper, NEW list \in Seq(Ids)
  PROVE  \E f : KilledBy(s, list, f)
<1> DEFINE n == Len(list)
           step == [x \in (1..n) \X Proper |-> Kill(x[2], list[x[1]])]
<1>0. n \in Nat /\ \A k \in 1..n : list[k] \in Ids
  BY LenProperties, ElementOfSeq
<1>1. Rounds(step, n, Proper)
  <2>1. \A x \in (1..n) \X Proper : Kill(x[2], list[x[1]]) \in Proper
    BY <1>0, KillKeeps DEF Outlives
  <2> HIDE DEF n
  <2> QED
    BY <2>1 DEF Rounds
<1>2. PICK f : LoopOf(f, s, step, n, Proper)
  <2> HIDE DEF step, n
  <2> QED
    BY <1>0, <1>1, LoopExists
<1>3. ASSUME NEW k \in 0..n, k # 0 PROVE f[k] = Kill(f[k - 1], list[k])
  <2>1. k \in 1..n /\ k - 1 \in 0..n
    BY <1>0, <1>3
  <2>2. f[k - 1] \in Proper /\ f[k] = step[<<k, f[k - 1]>>]
    <3> HIDE DEF step, n
    <3> QED
      BY <1>2, <2>1 DEF LoopOf
  <2> HIDE DEF n
  <2> QED
    BY <2>1, <2>2
<1>4. f = [k \in 0..n |-> IF k = 0 THEN s ELSE Kill(f[k - 1], list[k])]
  <2>1. f = [k \in 0..n |-> f[k]] /\ f[0] = s
    BY <1>2 DEF LoopOf
  <2> HIDE DEF step, n
  <2> QED
    BY <1>3, <2>1
<1> HIDE DEF step
<1> QED
  BY <1>4 DEF KilledBy

(* The entities of a list, all of one node if of any, are killed.           *)
LEMMA KillAllKeeps ==
  ASSUME NEW s \in Proper, NEW n \in Nodes, NEW list \in Seq(Ids),
         \A k \in 1..Len(list) : list[k] \in DOMAIN s.entities => s.entities[list[k]] = n
  PROVE  /\ Outlives(s, KillAll(s, list))
         /\ Agree(s) => Agree(KillAll(s, list))
         /\ \A m \in Nodes : m # n => KillAll(s, list).nodes[m] = s.nodes[m]
         /\ \A k \in 1..Len(list) : list[k] \notin DOMAIN KillAll(s, list).entities
<1> DEFINE len == Len(list)
           f == CHOOSE any : KilledBy(s, list, any)
           Fine(r, k) ==
             /\ Outlives(s, r)
             /\ Agree(s) => Agree(r)
             /\ \A m \in Nodes : m # n => r.nodes[m] = s.nodes[m]
             /\ \A j \in 1..k : list[j] \notin DOMAIN r.entities
           Reached == {k \in Nat : k <= len => Fine(f[k], k)}
<1>0. len \in Nat /\ \A k \in 1..len : list[k] \in Ids
  BY LenProperties, ElementOfSeq
<1>1. KilledBy(s, list, f)
  BY KilledExists
<1>2. KillAll(s, list) = f[len]
  BY KillAllIterates
<1> HIDE DEF f
<1>3. \A k \in 0..len : f[k] = IF k = 0 THEN s ELSE Kill(f[k - 1], list[k])
  BY <1>1 DEF KilledBy
<1>4. 0 \in Reached
  <2>1. f[0] = s
    BY <1>0, <1>3
  <2>2. Fine(s, 0)
    BY OutlivesSelf
  <2> QED
    BY <2>1, <2>2
<1>5. ASSUME NEW k \in Nat, k \in Reached PROVE k + 1 \in Reached
  <2> SUFFICES ASSUME k + 1 <= len PROVE Fine(f[k + 1], k + 1)
    OBVIOUS
  <2> DEFINE r == f[k]
             id == list[k + 1]
             t == Kill(r, id)
  <2>1. k + 1 \in 1..len /\ k + 1 \in 0..len /\ (k + 1) - 1 = k /\ k + 1 # 0
    BY <1>0
  <2>2. Fine(r, k) /\ r \in Proper /\ id \in Ids /\ f[k + 1] = t
    BY <1>0, <1>3, <1>5, <2>1 DEF Outlives
  <2>3. id \in DOMAIN r.entities => r.entities[id] = n
    BY <2>1, <2>2 DEF Outlives
  <2> HIDE DEF r, id, t
  <2>4. /\ Outlives(r, t) /\ (Agree(r) => Agree(t)) /\ id \notin DOMAIN t.entities
        /\ \A m \in Nodes : id \notin DOMAIN r.entities \/ r.entities[id] # m =>
             t.nodes[m] = r.nodes[m]
    BY <2>2, KillKeeps DEF t
  <2>5. Outlives(s, t)
    BY <2>2, <2>4, OutlivesOn
  <2>6. \A m \in Nodes : m # n => t.nodes[m] = s.nodes[m]
    BY <2>2, <2>3, <2>4
  <2>7. \A j \in 1..(k + 1) : list[j] \notin DOMAIN t.entities
    <3> TAKE j \in 1..(k + 1)
    <3>1. CASE j = k + 1
      BY <2>4, <3>1 DEF id
    <3>2. CASE j # k + 1
      <4>1. j \in 1..k
        BY <3>2
      <4> QED
        BY <2>2, <2>4, <4>1 DEF Outlives
    <3> QED
      BY <3>1, <3>2
  <2> QED
    BY <2>2, <2>4, <2>5, <2>6, <2>7
<1>6. len \in Reached
  <2> HIDE DEF Reached
  <2> QED
    BY <1>0, <1>4, <1>5, NaturalsOfSet
<1>7. Fine(f[len], len)
  BY <1>0, <1>6
<1> QED
  BY <1>2, <1>7

(* The loop walks over entities of the node, and over all if they are two   *)
(* or fewer.                                                                *)
LEMMA WalkFacts ==
  ASSUME NEW S, NEW list \in Seq(S)
  PROVE  /\ Walk(list) \in Seq(S) /\ Len(Walk(list)) = Len(list)
         /\ \A k \in 1..Len(list) : \E j \in 1..Len(list) : Walk(list)[k] = list[j]
         /\ Len(list) <= 2 =>
              \A j \in 1..Len(list) : \E k \in 1..Len(list) : Walk(list)[k] = list[j]
<1> DEFINE len == Len(list)
           at(k) == Smaller(2 * k - 1, len)
<1>0. len \in Nat /\ DOMAIN list = 1..len /\ \A k \in 1..len : list[k] \in S
  BY LenProperties, ElementOfSeq
<1>1. \A k \in 1..len : at(k) \in 1..len
  BY <1>0 DEF Smaller
<1>2. ASSUME len <= 2, NEW k \in 1..len PROVE at(k) = k
  <2>1. k = 1 \/ (k = 2 /\ len = 2)
    BY <1>0, <1>2
  <2>2. CASE k = 1
    BY <1>0, <1>2, <2>2 DEF Smaller
  <2>3. CASE k = 2 /\ len = 2
    BY <2>3 DEF Smaller
  <2> QED
    BY <2>1, <2>2, <2>3
<1>3. Walk(list) = [k \in 1..len |-> list[at(k)]]
  BY <1>0 DEF Walk
<1> HIDE DEF at, len
<1>4. Walk(list) \in [1..len -> S]
  BY <1>0, <1>1, <1>3
<1>5. Walk(list) \in Seq(S) /\ Len(Walk(list)) = len
  <2>1. Walk(list) \in Seq(S)
    BY <1>0, <1>4, SeqDef
  <2>2. DOMAIN Walk(list) = 1..len
    BY <1>4
  <2> QED
    BY <1>0, <2>1, <2>2, LenProperties
<1>6. \A k \in 1..len : Walk(list)[k] = list[at(k)]
  BY <1>3
<1>7. \A k \in 1..len : \E j \in 1..len : Walk(list)[k] = list[j]
  BY <1>1, <1>6
<1>8. len <= 2 => \A j \in 1..len : \E k \in 1..len : Walk(list)[k] = list[j]
  BY <1>2, <1>6
<1> QED
  BY <1>5, <1>7, <1>8 DEF len

LEMMA EmptyNodeKeeps ==
  ASSUME NEW s \in Proper, NEW n \in Nodes
  PROVE  /\ Outlives(s, EmptyNode(s, n))
         /\ EmptyNode(s, n).nodes[n] = <<>>
         /\ \A m \in Nodes : m # n => EmptyNode(s, n).nodes[m] = s.nodes[m]
         /\ Agree(s) /\ Len(s.nodes[n]) <= 2 => Agree(EmptyNode(s, n))
<1> DEFINE list == s.nodes[n]
           walk == Walk(list)
           t == KillAll(s, walk)
           r == EmptyNode(s, n)
           none == <<>>
<1>0. /\ list \in Seq(Ids) /\ Len(list) \in Nat
      /\ \A k \in 1..Len(list) : list[k] \in DOMAIN s.entities /\ s.entities[list[k]] = n
  BY ProperParts DEF Listed
<1>1. /\ walk \in Seq(Ids) /\ Len(walk) = Len(list)
      /\ \A k \in 1..Len(list) : \E j \in 1..Len(list) : walk[k] = list[j]
      /\ Len(list) <= 2 => \A j \in 1..Len(list) : \E k \in 1..Len(list) : walk[k] = list[j]
  <2> HIDE DEF list
  <2> QED
    BY <1>0, WalkFacts
<1>2. \A k \in 1..Len(walk) : walk[k] \in DOMAIN s.entities => s.entities[walk[k]] = n
  <2> HIDE DEF list, walk
  <2> QED
    BY <1>0, <1>1
<1> HIDE DEF walk
<1>3. /\ Outlives(s, t) /\ (Agree(s) => Agree(t))
      /\ \A m \in Nodes : m # n => t.nodes[m] = s.nodes[m]
      /\ \A k \in 1..Len(walk) : walk[k] \notin DOMAIN t.entities
  BY <1>1, <1>2, KillAllKeeps
<1>4. r = [t EXCEPT !.nodes = [t.nodes EXCEPT ![n] = none]]
  BY DEF EmptyNode, walk
<1> HIDE DEF t, r
<1>5. t \in Proper /\ t \in State /\ t.nodes \in [Nodes -> Seq(Ids)] /\ Listed(t)
  BY <1>3, ProperParts DEF Outlives
<1>6. none \in Seq(Ids) /\ Len(none) = 0
  OBVIOUS
<1> HIDE DEF none
<1>7. /\ r.nodes = [t.nodes EXCEPT ![n] = none] /\ r.entities = t.entities
      /\ r.alive = t.alive /\ r.waitTimes = t.waitTimes /\ r.start = t.start
      /\ r.amountMaintained = t.amountMaintained /\ r.maxToSpawn = t.maxToSpawn
      /\ r.amountSpawned = t.amountSpawned /\ r \in State
  <2>1. [t.nodes EXCEPT ![n] = none] \in [Nodes -> Seq(Ids)]
    BY <1>5, <1>6
  <2> QED
    BY <1>4, <1>5, <2>1 DEF State
<1>8. r.nodes[n] = none /\ \A m \in Nodes : m # n => r.nodes[m] = t.nodes[m]
  BY <1>5, <1>7
<1>9. Listed(r)
  <2> SUFFICES ASSUME NEW m \in Nodes, NEW k \in 1..Len(r.nodes[m])
               PROVE  /\ r.nodes[m][k] \in DOMAIN r.entities
                      /\ r.entities[r.nodes[m][k]] = m
                      /\ \A j \in 1..Len(r.nodes[m]) :
                           r.nodes[m][j] = r.nodes[m][k] => j = k
    BY DEF Listed
  <2>1. m # n
    BY <1>6, <1>8
  <2> QED
    BY <1>5, <1>7, <1>8, <2>1 DEF Listed
<1>10. r \in Proper
  BY <1>5, <1>7, <1>9 DEF Proper
<1>11. Outlives(t, r)
  BY <1>5, <1>7, <1>10, OutlivesSelf DEF Outlives, Count
<1>12. ASSUME Agree(s), Len(list) <= 2 PROVE Agree(r)
  <2>1. Agree(t)
    BY <1>3, <1>12
  <2>2. ASSUME NEW i \in DOMAIN t.entities PROVE t.entities[i] # n
    <3> SUFFICES ASSUME t.entities[i] = n PROVE FALSE
      OBVIOUS
    <3>1. i \in DOMAIN s.entities /\ s.entities[i] = n
      BY <1>3, <2>2 DEF Outlives
    <3>2. PICK j \in 1..Len(list) : list[j] = i
      BY <1>12, <3>1 DEF Agree
    <3> HIDE DEF list
    <3>3. PICK k \in 1..Len(list) : walk[k] = list[j]
      BY <1>1, <1>12
    <3> QED
      BY <1>1, <1>3, <2>2, <3>2, <3>3
  <2>3. ASSUME NEW i \in DOMAIN r.entities
        PROVE  \E k \in 1..Len(r.nodes[r.entities[i]]) : r.nodes[r.entities[i]][k] = i
    <3>1. /\ i \in DOMAIN t.entities /\ r.entities[i] = t.entities[i]
          /\ t.entities[i] # n /\ t.entities[i] \in Nodes
      BY <1>5, <1>7, <2>2, ProperParts
    <3> QED
      BY <1>8, <2>1, <3>1 DEF Agree
  <2> QED
    BY <1>7, <2>1, <2>3 DEF Agree
<1>13. Outlives(s, r)
  BY <1>3, <1>11, OutlivesOn
<1>14. \A m \in Nodes : m # n => r.nodes[m] = s.nodes[m]
  BY <1>3, <1>8
<1> QED
  BY <1>8, <1>12, <1>13, <1>14 DEF r, none

DestroyedBy(s, f) ==
  f = [n \in 0..Len(NodeMax) |-> IF n = 0 THEN s ELSE EmptyNode(f[n - 1], n)]

LEMMA DestroyIterates ==
  ASSUME NEW s
  PROVE  DestroyAllEntities(s) = (CHOOSE f : DestroyedBy(s, f))[Len(NodeMax)]
BY DEF DestroyAllEntities, DestroyedBy

LEMMA DestroyedExists ==
  ASSUME NEW s \in Proper
  PROVE  \E f : DestroyedBy(s, f)
<1> DEFINE n == Len(NodeMax)
           step == [x \in (1..n) \X Proper |-> EmptyNode(x[2], x[1])]
<1>0. n \in Nat
  BY Constants
<1>1. Rounds(step, n, Proper)
  <2>1. \A x \in (1..n) \X Proper : EmptyNode(x[2], x[1]) \in Proper
    BY EmptyNodeKeeps DEF Outlives, Nodes
  <2> HIDE DEF n
  <2> QED
    BY <2>1 DEF Rounds
<1>2. PICK f : LoopOf(f, s, step, n, Proper)
  <2> HIDE DEF step, n
  <2> QED
    BY <1>0, <1>1, LoopExists
<1>3. ASSUME NEW k \in 0..n, k # 0 PROVE f[k] = EmptyNode(f[k - 1], k)
  <2>1. k \in 1..n /\ k - 1 \in 0..n
    BY <1>0, <1>3
  <2>2. f[k - 1] \in Proper /\ f[k] = step[<<k, f[k - 1]>>]
    <3> HIDE DEF step, n
    <3> QED
      BY <1>2, <2>1 DEF LoopOf
  <2> HIDE DEF n
  <2> QED
    BY <2>1, <2>2
<1>4. f = [k \in 0..n |-> IF k = 0 THEN s ELSE EmptyNode(f[k - 1], k)]
  <2>1. f = [k \in 0..n |-> f[k]] /\ f[0] = s
    BY <1>2 DEF LoopOf
  <2> HIDE DEF step, n
  <2> QED
    BY <1>3, <2>1
<1> HIDE DEF step
<1> QED
  BY <1>4 DEF DestroyedBy

(* No node of three or more: the walk over a node meets all it holds.       *)
Sparse(s) == \A n \in Nodes : Len(s.nodes[n]) <= 2

LEMMA DestroyAllKeeps ==
  ASSUME NEW s \in Proper
  PROVE  /\ Outlives(s, DestroyAllEntities(s))
         /\ \A n \in Nodes : DestroyAllEntities(s).nodes[n] = <<>>
         /\ Agree(s) /\ Sparse(s) => Agree(DestroyAllEntities(s))
<1> DEFINE len == Len(NodeMax)
           f == CHOOSE any : DestroyedBy(s, any)
           Fine(r, k) ==
             /\ Outlives(s, r)
             /\ \A m \in 1..k : r.nodes[m] = <<>>
             /\ \A m \in Nodes : m > k => r.nodes[m] = s.nodes[m]
             /\ Agree(s) /\ Sparse(s) => Agree(r)
           Reached == {k \in Nat : k <= len => Fine(f[k], k)}
<1>0. len \in Nat /\ Nodes = 1..len
  BY Constants DEF Nodes
<1>1. DestroyedBy(s, f)
  BY DestroyedExists
<1>2. DestroyAllEntities(s) = f[len]
  BY DestroyIterates
<1> HIDE DEF f
<1>3. \A k \in 0..len : f[k] = IF k = 0 THEN s ELSE EmptyNode(f[k - 1], k)
  BY <1>1 DEF DestroyedBy
<1>4. 0 \in Reached
  <2>1. f[0] = s
    BY <1>0, <1>3
  <2>2. Fine(s, 0)
    BY OutlivesSelf
  <2> QED
    BY <2>1, <2>2
<1>5. ASSUME NEW k \in Nat, k \in Reached PROVE k + 1 \in Reached
  <2> SUFFICES ASSUME k + 1 <= len PROVE Fine(f[k + 1], k + 1)
    OBVIOUS
  <2> DEFINE r == f[k]
             n == k + 1
             t == EmptyNode(r, n)
  <2>1. n \in 1..len /\ n \in 0..len /\ n - 1 = k /\ n # 0 /\ n > k
    BY <1>0
  <2>2. Fine(r, k) /\ r \in Proper /\ n \in Nodes /\ f[n] = t
    BY <1>0, <1>3, <1>5, <2>1 DEF Outlives
  <2> HIDE DEF r, t
  <2>3. /\ Outlives(r, t) /\ t.nodes[n] = <<>>
        /\ \A m \in Nodes : m # n => t.nodes[m] = r.nodes[m]
        /\ Agree(r) /\ Len(r.nodes[n]) <= 2 => Agree(t)
    <3> HIDE DEF n
    <3> QED
      BY <2>2, EmptyNodeKeeps DEF t
  <2>4. Outlives(s, t)
    BY <2>2, <2>3, OutlivesOn
  <2>5. \A m \in 1..n : t.nodes[m] = <<>>
    <3> TAKE m \in 1..n
    <3>1. CASE m = n
      BY <2>3, <3>1
    <3>2. CASE m # n
      <4>1. m \in 1..k /\ m \in Nodes
        BY <1>0, <2>1, <3>2
      <4> HIDE DEF n
      <4> QED
        BY <2>2, <2>3, <3>2, <4>1
    <3> QED
      BY <3>1, <3>2
  <2>6. \A m \in Nodes : m > n => t.nodes[m] = s.nodes[m]
    BY <1>0, <2>2, <2>3
  <2>7. Agree(s) /\ Sparse(s) => Agree(t)
    BY <2>1, <2>2, <2>3 DEF Sparse
  <2> QED
    BY <2>2, <2>4, <2>5, <2>6, <2>7
<1>6. len \in Reached
  <2> HIDE DEF Reached
  <2> QED
    BY <1>0, <1>4, <1>5, NaturalsOfSet
<1>7. Fine(f[len], len)
  BY <1>0, <1>6
<1> QED
  BY <1>0, <1>2, <1>7

-----------------------------------------------------------------------------
(* What the scripts of a world call.                                        *)

(* The nodes agree as before, and what was awaited is.                      *)
Keeps(s, r) ==
  /\ r \in Proper
  /\ Agree(s) => Agree(r)
  /\ \A g \in Nat : Awaited(s, g) => Awaited(r, g)

LEMMA KeepsOn ==
  ASSUME NEW s, NEW r, NEW t, Keeps(s, r), Keeps(r, t)
  PROVE  Keeps(s, t)
BY DEF Keeps

LEMMA ExtendsKeeps ==
  ASSUME NEW s \in Proper, NEW r, Extends(s, r)
  PROVE  Keeps(s, r) /\ r.amountMaintained = s.amountMaintained
<1>1. r \in Proper
  BY DEF Extends
<1>2. /\ Count(s) \in Nat /\ Count(r) \in Nat /\ Len(s.waitTimes) \in Nat
      /\ s.amountSpawned \in Nat /\ r.amountSpawned \in Nat
      /\ s.maxToSpawn \in Nat \cup {Unlimited} /\ Unlimited = -1
  BY <1>1, ProperParts, Constants
<1>3. /\ r.start = s.start /\ r.maxToSpawn = s.maxToSpawn
      /\ r.waitTimes = s.waitTimes /\ r.amountSpawned >= s.amountSpawned
      /\ Count(r) >= Count(s)
  BY DEF Extends
<1>4. Exhausted(s) => Exhausted(r)
  BY <1>2, <1>3 DEF Exhausted
<1>5. ASSUME NEW g \in Nat, Awaited(s, g) PROVE Awaited(r, g)
  BY <1>2, <1>3, <1>4, <1>5 DEF Awaited
<1> QED
  BY <1>1, <1>5 DEF Keeps, Extends

LEMMA OutlivesKeeps ==
  ASSUME NEW s \in Proper, NEW r, Outlives(s, r), Agree(s) => Agree(r)
  PROVE  Keeps(s, r) /\ r.amountMaintained = s.amountMaintained
BY OutlivesAwaits DEF Keeps, Outlives

(* A start is due, or nothing that is awaited has changed.                  *)
Retuned(s, r) ==
  /\ SameEntities(s, r)
  /\ \/ r.start
     \/ /\ r.start = s.start /\ r.maxToSpawn = s.maxToSpawn
        /\ r.amountSpawned = s.amountSpawned
        /\ Len(r.waitTimes) = Len(s.waitTimes)

LEMMA RetunedKeeps ==
  ASSUME NEW s \in Proper, NEW r, Retuned(s, r)
  PROVE  Keeps(s, r)
<1>1. r \in Proper /\ Count(r) = Count(s) /\ (Agree(s) => Agree(r))
  BY SameEntitiesKeep DEF Retuned
<1>2. ASSUME NEW g \in Nat, Awaited(s, g) PROVE Awaited(r, g)
  BY <1>1, <1>2 DEF Awaited, Retuned, Exhausted
<1> QED
  BY <1>1, <1>2 DEF Keeps

LEMMA StartedOver ==
  ASSUME NEW s \in Proper
  PROVE  /\ [k \in DOMAIN s.waitTimes |-> 0] \in Seq(0..RespawnTime)
         /\ Len([k \in DOMAIN s.waitTimes |-> 0]) = Len(s.waitTimes)
<1> DEFINE n == Len(s.waitTimes)
           zeros == [k \in 1..n |-> 0]
<1>1. n \in Nat /\ DOMAIN s.waitTimes = 1..n /\ 0 \in 0..RespawnTime
  BY ProperParts, LenProperties, Constants DEF State
<1> HIDE DEF n
<1>2. zeros \in Seq(0..RespawnTime)
  BY <1>1, SeqDef
<1>3. DOMAIN zeros = 1..n
  OBVIOUS
<1> HIDE DEF zeros
<1>4. Len(zeros) = n
  BY <1>1, <1>2, <1>3, LenProperties
<1> QED
  BY <1>1, <1>2, <1>4 DEF zeros, n

LEMMA CallsKeep ==
  ASSUME NEW s \in Proper
  PROVE  /\ Keeps(s, Activate(s)) /\ Keeps(s, Deactivate(s))
         /\ Keeps(s, SoftReset(s)) /\ Keeps(s, SetRespawnTime(s))
         /\ Activate(s).amountMaintained = s.amountMaintained
         /\ Deactivate(s).amountMaintained = s.amountMaintained
         /\ SoftReset(s).amountMaintained = s.amountMaintained
         /\ SetRespawnTime(s).amountMaintained = s.amountMaintained
<1> DEFINE zeros == [k \in DOMAIN s.waitTimes |-> 0]
<1>1. s \in State
  BY ProperParts
<1>2. zeros \in Seq(0..RespawnTime) /\ Len(zeros) = Len(s.waitTimes)
  BY StartedOver
<1>3. Retuned(s, Activate(s)) /\ Activate(s).amountMaintained = s.amountMaintained
  <2>1. Activate(s) = [s EXCEPT !.active = TRUE, !.needsUpdate = TRUE, !.waitTimes = zeros]
    BY <1>1 DEF Activate, State
  <2> HIDE DEF zeros
  <2> QED
    BY <1>1, <1>2, <2>1 DEF Retuned, SameEntities, State
<1>4. Retuned(s, Deactivate(s)) /\ Deactivate(s).amountMaintained = s.amountMaintained
  BY <1>1 DEF Deactivate, Retuned, SameEntities, State
<1>5. Retuned(s, SoftReset(s)) /\ SoftReset(s).amountMaintained = s.amountMaintained
  BY <1>1 DEF SoftReset, Retuned, SameEntities, State
<1>6. Retuned(s, SetRespawnTime(s))
      /\ SetRespawnTime(s).amountMaintained = s.amountMaintained
  <2>1. SetRespawnTime(s) = [s EXCEPT !.waitTimes = zeros, !.start = TRUE, !.needsUpdate = TRUE]
    BY <1>1 DEF SetRespawnTime, State
  <2> HIDE DEF zeros
  <2> QED
    BY <1>1, <1>2, <2>1 DEF Retuned, SameEntities, State
<1> QED
  BY <1>3, <1>4, <1>5, <1>6, RetunedKeeps

LEMMA SetNumToMaintainKeeps ==
  ASSUME NEW s \in Proper, NEW amount \in Nat
  PROVE  /\ Keeps(s, SetNumToMaintain(s, amount))
         /\ SetNumToMaintain(s, amount).amountMaintained = amount
<1>1. s \in State
  BY ProperParts
<1>2. Retuned(s, SetNumToMaintain(s, amount))
  BY <1>1 DEF SetNumToMaintain, Retuned, SameEntities, State
<1> QED
  BY <1>1, <1>2, RetunedKeeps DEF SetNumToMaintain, State

LEMMA SetSpawnerNetworkKeeps ==
  ASSUME NEW s \in Proper, NEW amount \in Nat, NEW named \in BOOLEAN
  PROVE  /\ Keeps(s, SetSpawnerNetwork(s, amount, named))
         /\ SetSpawnerNetwork(s, amount, named).amountMaintained = amount
<1> DEFINE timed == SetRespawnTime(s)
           tuned == SetNumToMaintain(timed, amount)
           ready == IF named THEN SoftReset(tuned) ELSE tuned
<1>1. Keeps(s, timed) /\ timed \in Proper
  BY CallsKeep DEF Keeps
<1> HIDE DEF timed
<1>2. Keeps(timed, tuned) /\ tuned \in Proper /\ tuned.amountMaintained = amount
  BY <1>1, SetNumToMaintainKeeps DEF Keeps
<1> HIDE DEF tuned
<1>3. Keeps(s, tuned)
  BY <1>1, <1>2, KeepsOn
<1>4. Keeps(s, ready) /\ ready \in Proper /\ ready.amountMaintained = amount
  <2>1. CASE named
    <3>1. ready = SoftReset(tuned)
      BY <2>1
    <3>2. /\ Keeps(tuned, SoftReset(tuned)) /\ SoftReset(tuned) \in Proper
          /\ SoftReset(tuned).amountMaintained = amount
      BY <1>2, CallsKeep DEF Keeps
    <3> QED
      BY <1>3, <3>1, <3>2, KeepsOn
  <2>2. CASE ~named
    BY <1>2, <1>3, <2>2
  <2> QED
    BY <2>1, <2>2
<1> HIDE DEF ready
<1>5. /\ Keeps(ready, Activate(ready))
      /\ Activate(ready).amountMaintained = amount
  BY <1>4, CallsKeep
<1>6. Keeps(s, Activate(ready))
  BY <1>4, <1>5, KeepsOn
<1>7. SetSpawnerNetwork(s, amount, named) = Activate(ready)
  BY DEF SetSpawnerNetwork, ready, tuned, timed
<1> QED
  BY <1>5, <1>6, <1>7

(* Reset forgets what DestroyAllEntities has left, and starts anew.         *)
LEMMA ResetKeeps ==
  ASSUME NEW s \in Proper
  PROVE  /\ Reset(s) \in Proper /\ Reset(s).start
         /\ Reset(s).amountMaintained = s.amountMaintained
         /\ Agree(s) /\ Sparse(s) => Agree(Reset(s))
<1> DEFINE t == DestroyAllEntities(s)
           none == <<>>
           r == [t EXCEPT !.entities = none]
<1>1. /\ Outlives(s, t) /\ \A n \in Nodes : t.nodes[n] = none
      /\ Agree(s) /\ Sparse(s) => Agree(t)
  BY DestroyAllKeeps
<1>2. t \in Proper /\ t.amountMaintained = s.amountMaintained
  BY <1>1 DEF Outlives
<1>3. /\ t \in State /\ t.entities \in Entities /\ IsFiniteSet(t.alive)
      /\ \A i \in DOMAIN t.entities : t.entities[i] \in Nodes
  BY <1>2, ProperParts
<1> HIDE DEF t
<1>4. none \in Entities /\ DOMAIN none = {} /\ Len(none) = 0
  <2>1. DOMAIN none = {} /\ none = [i \in DOMAIN none |-> none[i]] /\ Len(none) = 0
    OBVIOUS
  <2> HIDE DEF none
  <2> QED
    BY <2>1, EntitiesFacts
<1> HIDE DEF none
<1>5. /\ r \in State /\ r.entities = none /\ r.nodes = t.nodes /\ r.alive = t.alive
      /\ r.amountMaintained = t.amountMaintained
  BY <1>3, <1>4 DEF State
<1>6. r \in Proper
  <2>1. Listed(r)
    BY <1>1, <1>4, <1>5 DEF Listed
  <2> QED
    BY <1>3, <1>4, <1>5, <2>1 DEF Proper
<1>7. Agree(t) => Agree(r)
  <2> SUFFICES ASSUME Agree(t) PROVE t.alive = {}
    BY <1>4, <1>5 DEF Agree
  <2>1. DOMAIN t.entities = {}
    <3> SUFFICES ASSUME NEW i \in DOMAIN t.entities PROVE FALSE
      OBVIOUS
    <3>1. \E k \in 1..Len(t.nodes[t.entities[i]]) : t.nodes[t.entities[i]][k] = i
      BY DEF Agree
    <3> QED
      BY <1>1, <1>3, <1>4, <3>1
  <2> QED
    BY <2>1 DEF Agree
<1> HIDE DEF r
<1>8. /\ Keeps(r, SoftReset(r)) /\ SoftReset(r).amountMaintained = r.amountMaintained
      /\ SoftReset(r).start
  <2>1. r \in State
    BY <1>5
  <2>2. SoftReset(r).start
    BY <2>1 DEF SoftReset, State
  <2> QED
    BY <1>6, <2>2, CallsKeep
<1>9. Reset(s) = SoftReset(r)
  BY DEF Reset, r, t, none
<1> QED
  BY <1>1, <1>2, <1>5, <1>7, <1>8, <1>9 DEF Keeps

LEMMA SpawnNowKeeps ==
  ASSUME NEW s \in Proper, NEW amount \in Nat
  PROVE  /\ SpawnNow(s, amount) \in Proper /\ SpawnNow(s, amount).start
         /\ SpawnNow(s, amount).amountMaintained = amount
         /\ Agree(s) /\ Sparse(s) => Agree(SpawnNow(s, amount))
<1> DEFINE tuned == [SetNumToMaintain(s, amount) EXCEPT !.maxToSpawn = amount]
           r == Reset(tuned)
<1>1. s \in State
  BY ProperParts
<1>2. /\ SameEntities(s, tuned) /\ tuned.amountMaintained = amount
  BY <1>1 DEF SetNumToMaintain, SameEntities, State
<1>3. tuned \in Proper /\ (Agree(s) <=> Agree(tuned)) /\ (Sparse(s) <=> Sparse(tuned))
  BY <1>2, SameEntitiesKeep DEF SameEntities, Sparse
<1> HIDE DEF tuned
<1>4. /\ r \in Proper /\ r.start /\ r.amountMaintained = amount
      /\ Agree(tuned) /\ Sparse(tuned) => Agree(r)
  BY <1>2, <1>3, ResetKeeps
<1> HIDE DEF r
<1>5. Keeps(r, Activate(r)) /\ Activate(r).amountMaintained = amount
  BY <1>4, CallsKeep
<1>6. Activate(r).start
  <2>1. r \in State
    BY <1>4, ProperParts
  <2> QED
    BY <1>4, <2>1 DEF Activate, State
<1>7. SpawnNow(s, amount) = Activate(r)
  BY DEF SpawnNow, r, tuned
<1> QED
  BY <1>3, <1>4, <1>5, <1>6, <1>7 DEF Keeps

-----------------------------------------------------------------------------
(* The invariant: nothing is awaited in vain, and the nodes agree unless    *)
(* one of three or more was destroyed.                                      *)

Inv(s, g, c) ==
  /\ s \in Proper
  /\ c \in BOOLEAN
  /\ ~c => Agree(s)
  /\ Modest(s, g)
  /\ Awaited(s, g)

IInv ==
  /\ Inv(spawner, goal, crowded)
  /\ deaths \in 0..MaxDeaths /\ commands \in 0..MaxCommands

LEMMA KeepsInv ==
  ASSUME NEW s, NEW g, NEW c, Inv(s, g, c), NEW r, Keeps(s, r),
         r.amountMaintained = s.amountMaintained
  PROVE  Inv(r, g, c)
BY DEF Inv, Keeps, Modest

(* The goal is lowered with the number to maintain.                         *)
LEMMA LoweredInv ==
  ASSUME NEW s, NEW g, NEW c, Inv(s, g, c), NEW amount \in Nat,
         NEW r \in Proper, r.amountMaintained = amount,
         NEW d \in BOOLEAN, ~d => Agree(r), Awaited(r, g)
  PROVE  Inv(r, Smaller(g, amount), d)
<1> DEFINE h == Smaller(g, amount)
<1>1. g \in Nat /\ g <= Capacity /\ Capacity \in Nat
  BY RoomGrows, Constants DEF Inv, Modest, Capacity
<1>2. h \in Nat /\ h <= g /\ h <= amount
  BY <1>1, SmallerIsLeast
<1> HIDE DEF h
<1>3. Modest(r, h)
  BY <1>1, <1>2 DEF Modest
<1>4. Awaited(r, h)
  <2>1. Count(r) \in Nat /\ Len(r.waitTimes) \in Nat
    BY ProperParts
  <2> QED
    BY <1>1, <1>2, <2>1 DEF Awaited
<1> QED
  BY <1>3, <1>4 DEF Inv, h

(* A node has room for one at least.                                        *)
LEMMA RoomForEach == Len(NodeMax) <= Capacity
<1> DEFINE len == Len(NodeMax)
           Reached == {k \in Nat : k <= len => k <= Room[k]}
<1>0. len \in Nat /\ Nodes = 1..len
  BY Constants DEF Nodes
<1>1. 0 \in Reached
  BY RoomGrows
<1>2. ASSUME NEW k \in Nat, k \in Reached PROVE k + 1 \in Reached
  <2> SUFFICES ASSUME k + 1 <= len PROVE k + 1 <= Room[k + 1]
    OBVIOUS
  <2>1. k + 1 \in Nodes /\ k \in 0..len /\ (k + 1) - 1 = k /\ k <= Room[k]
    BY <1>0, <1>2
  <2>2. NodeMax[k + 1] \in Nat \ {0} /\ Room[k] \in Nat
        /\ Room[k + 1] = Room[k] + NodeMax[k + 1]
    BY <2>1, Constants, RoomGrows
  <2> HIDE DEF len
  <2> QED
    BY <2>1, <2>2
<1>3. len \in Reached
  <2> HIDE DEF Reached
  <2> QED
    BY <1>0, <1>1, <1>2, NaturalsOfSet
<1> QED
  BY <1>0, <1>3 DEF Capacity

LEMMA Start0 == Init => IInv
<1> SUFFICES ASSUME Init PROVE IInv
  OBVIOUS
<1>1. PICK amount \in Amounts, limit \in Limits, active \in BOOLEAN,
           start \in BOOLEAN, onSmash \in BOOLEAN :
        /\ spawner = [active |-> active, start |-> start, needsUpdate |-> TRUE,
                      spawnsOnSmash |-> onSmash, amountMaintained |-> amount,
                      maxToSpawn |-> limit, amountSpawned |-> 0,
                      waitTimes |-> [k \in 1..Smaller(amount, Len(NodeMax)) |-> RespawnTime],
                      entities |-> <<>>, nodes |-> [n \in Nodes |-> <<>>],
                      alive |-> {}]
        /\ goal = Smaller(amount, Len(NodeMax))
        /\ crowded = FALSE
        /\ deaths = 0 /\ commands = 0
  BY Zenon DEF Init
<1>2. /\ crowded \in BOOLEAN
      /\ deaths \in 0..MaxDeaths /\ commands \in 0..MaxCommands
  <2>1. crowded = FALSE /\ deaths = 0 /\ commands = 0
    BY <1>1, Zenon
  <2>2. crowded \in BOOLEAN
    BY <2>1, Zenon
  <2>3. 0 \in 0..MaxDeaths /\ 0 \in 0..MaxCommands
    BY Constants
  <2> QED
    BY <2>1, <2>2, <2>3, Zenon
<1> DEFINE n == Smaller(amount, Len(NodeMax))
           times == [k \in 1..n |-> RespawnTime]
           none == <<>>
           empty == [m \in Nodes |-> none]
<1>3. /\ n \in Nat /\ n <= amount /\ n <= Len(NodeMax)
      /\ amount \in Nat /\ limit \in Nat \cup {Unlimited} /\ Len(NodeMax) \in Nat
  BY Constants, SmallerIsLeast
<1>4. n <= Capacity
  BY <1>3, RoomForEach, RoomGrows, Constants DEF Capacity
<1>5. /\ none \in Entities /\ DOMAIN none = {} /\ none \in Seq(Ids) /\ Len(none) = 0
  <2>1. DOMAIN none = {} /\ none = [i \in DOMAIN none |-> none[i]] /\ Len(none) = 0
        /\ none \in Seq(Ids)
    OBVIOUS
  <2> HIDE DEF none
  <2> QED
    BY <2>1, EntitiesFacts
<1>6. /\ spawner = [active |-> active, start |-> start, needsUpdate |-> TRUE,
                    spawnsOnSmash |-> onSmash, amountMaintained |-> amount,
                    maxToSpawn |-> limit, amountSpawned |-> 0, waitTimes |-> times,
                    entities |-> none, nodes |-> empty, alive |-> {}]
      /\ goal = n
  BY <1>1
<1> HIDE DEF n
<1>7. times \in Seq(0..RespawnTime) /\ Len(times) = n
  <2>1. RespawnTime \in 0..RespawnTime
    BY Constants
  <2>2. times \in Seq(0..RespawnTime)
    BY <1>3, <2>1, SeqDef
  <2>3. DOMAIN times = 1..n
    OBVIOUS
  <2> HIDE DEF times
  <2> QED
    BY <1>3, <2>2, <2>3, LenProperties
<1> HIDE DEF none, times
<1>8. empty \in [Nodes -> Seq(Ids)] /\ \A m \in Nodes : empty[m] = none
  BY <1>5
<1> HIDE DEF empty
<1>9. /\ spawner \in State /\ spawner.alive = {} /\ spawner.entities = none
      /\ spawner.nodes = empty /\ spawner.waitTimes = times
      /\ spawner.amountMaintained = amount
  BY <1>3, <1>5, <1>6, <1>7, <1>8 DEF State
<1>10. spawner \in Proper /\ Agree(spawner)
  <2>1. Listed(spawner)
    BY <1>5, <1>8, <1>9 DEF Listed
  <2>2. IsFiniteSet({})
    BY FS_EmptySet
  <2> QED
    BY <1>5, <1>9, <2>1, <2>2 DEF Proper, Agree
<1>11. Modest(spawner, goal)
  BY <1>3, <1>4, <1>6, <1>9 DEF Modest
<1>12. Awaited(spawner, goal)
  <2>1. Count(spawner) \in Nat
    BY <1>10, ProperParts
  <2> QED
    BY <1>3, <1>6, <1>7, <1>9, <2>1 DEF Awaited
<1> QED
  BY <1>2, <1>10, <1>11, <1>12 DEF IInv, Inv

LEMMA UpdateStep == IInv /\ Update => IInv'
<1> SUFFICES ASSUME IInv, Update PROVE IInv'
  OBVIOUS
<1>0. /\ spawner \in Proper /\ crowded \in BOOLEAN /\ (~crowded => Agree(spawner))
      /\ Modest(spawner, goal) /\ Awaited(spawner, goal)
      /\ crowded' = crowded /\ deaths' = deaths /\ commands' = commands
  BY DEF IInv, Inv, Update
<1>1. ASSUME spawner' \in Start(spawner),
             goal' = Smaller(Count(spawner'),
                             Smaller(spawner.amountMaintained, Capacity))
      PROVE  Inv(spawner', goal', crowded')
  <2>1. /\ spawner' \in Proper /\ (Agree(spawner) => Agree(spawner'))
        /\ spawner'.amountMaintained = spawner.amountMaintained
    BY <1>0, <1>1, StartKeeps
  <2>2. /\ Count(spawner') \in Nat /\ Len(spawner'.waitTimes) \in Nat
        /\ spawner.amountMaintained \in Nat /\ Capacity \in Nat
    BY <1>0, <2>1, ProperParts, RoomGrows, Constants DEF Capacity
  <2> DEFINE most == Smaller(spawner.amountMaintained, Capacity)
  <2>3. most \in Nat /\ most <= spawner.amountMaintained /\ most <= Capacity
    BY <2>2, SmallerIsLeast
  <2> HIDE DEF most
  <2>4. goal' \in Nat /\ goal' <= Count(spawner') /\ goal' <= most
    BY <1>1, <2>2, <2>3, SmallerIsLeast DEF most
  <2>5. Modest(spawner', goal') /\ Awaited(spawner', goal')
    BY <2>1, <2>2, <2>3, <2>4 DEF Modest, Awaited
  <2> QED
    BY <1>0, <2>1, <2>5 DEF Inv
<1>2. ASSUME ~spawner.start, spawner' \in Elapse(spawner), goal' = goal
      PROVE  Inv(spawner', goal', crowded')
  <2>1. /\ spawner' \in Proper /\ (Agree(spawner) => Agree(spawner'))
        /\ spawner'.amountMaintained = spawner.amountMaintained
        /\ Awaited(spawner', goal)
    BY <1>0, <1>2, ElapseKeeps
  <2> QED
    BY <1>0, <1>2, <2>1 DEF Inv, Modest
<1>3. Inv(spawner', goal', crowded')
  BY <1>1, <1>2 DEF Update
<1> QED
  BY <1>0, <1>3 DEF IInv

LEMMA DeathStep ==
  ASSUME IInv, NEW id \in spawner.alive, EntityDies(id)
  PROVE  IInv'
<1>0. /\ spawner \in Proper /\ crowded \in BOOLEAN /\ (~crowded => Agree(spawner))
      /\ Inv(spawner, goal, crowded) /\ goal \in Nat
      /\ crowded' = crowded /\ commands' = commands /\ deaths' = deaths + 1
      /\ deaths < MaxDeaths
  BY DEF IInv, Inv, EntityDies, Modest
<1>1. id \in Ids
  BY <1>0, ProperParts
<1>2. \A s \in Proper :
        /\ Keeps(s, Kill(s, id))
        /\ Kill(s, id).amountMaintained = s.amountMaintained
  BY <1>1, KillKeeps, OutlivesKeeps
<1>3. ASSUME spawner' = Kill(spawner, id), goal' = goal
      PROVE  Inv(spawner', goal', crowded')
  BY <1>0, <1>2, <1>3, KeepsInv
<1>4. ASSUME NEW amount \in Amounts, NEW named \in BOOLEAN,
             spawner' = Kill(SetSpawnerNetwork(spawner, amount, named), id),
             Lowered(amount)
      PROVE  Inv(spawner', goal', crowded')
  <2> DEFINE t == SetSpawnerNetwork(spawner, amount, named)
  <2>1. amount \in Nat
    BY Constants
  <2>2. Keeps(spawner, t) /\ t \in Proper /\ t.amountMaintained = amount
    BY <1>0, <2>1, SetSpawnerNetworkKeeps DEF Keeps
  <2>3. spawner' = Kill(t, id)
    BY <1>4
  <2> HIDE DEF t
  <2>4. Keeps(t, spawner') /\ spawner'.amountMaintained = amount
    BY <1>2, <2>2, <2>3
  <2>5. Keeps(spawner, spawner')
    BY <2>2, <2>4, KeepsOn
  <2>6. /\ spawner' \in Proper /\ (Agree(spawner) => Agree(spawner'))
        /\ Awaited(spawner', goal)
    BY <1>0, <2>5 DEF Keeps, Inv
  <2>7. goal' = Smaller(goal, amount)
    BY <1>4 DEF Lowered
  <2>8. Inv(spawner', Smaller(goal, amount), crowded)
    BY <1>0, <2>1, <2>4, <2>6, LoweredInv
  <2> QED
    BY <1>0, <2>7, <2>8
<1>5. Inv(spawner', goal', crowded')
  BY <1>3, <1>4 DEF EntityDies
<1>6. deaths' \in 0..MaxDeaths
  BY <1>0, Constants DEF IInv
<1> QED
  BY <1>0, <1>5, <1>6 DEF IInv

LEMMA CommandStep == IInv /\ Command => IInv'
<1> SUFFICES ASSUME IInv, Command PROVE IInv'
  OBVIOUS
<1>0. /\ spawner \in Proper /\ crowded \in BOOLEAN /\ (~crowded => Agree(spawner))
      /\ Inv(spawner, goal, crowded) /\ goal \in Nat
      /\ deaths' = deaths /\ commands' = commands + 1 /\ commands < MaxCommands
  BY DEF IInv, Inv, Command, Modest
<1>1. \A amount \in Amounts : amount \in Nat
  BY Constants
<1>2. ASSUME spawner' \in Spawn(spawner) \cup
               {Activate(spawner), Deactivate(spawner), SoftReset(spawner)},
             UNCHANGED <<goal, crowded>>
      PROVE  Inv(spawner', goal', crowded')
  <2>1. Keeps(spawner, spawner')
        /\ spawner'.amountMaintained = spawner.amountMaintained
    <3>1. CASE spawner' \in Spawn(spawner)
      BY <1>0, <3>1, SpawnExtends, ExtendsKeeps
    <3>2. CASE spawner' \in {Activate(spawner), Deactivate(spawner), SoftReset(spawner)}
      BY <1>0, <3>2, CallsKeep
    <3> QED
      BY <1>2, <3>1, <3>2
  <2> QED
    BY <1>0, <1>2, <2>1, KeepsInv
<1>3. ASSUME NEW n \in Nodes, spawner' = SpawnAt(spawner, n), UNCHANGED <<goal, crowded>>
      PROVE  Inv(spawner', goal', crowded')
  <2>1. Keeps(spawner, spawner')
        /\ spawner'.amountMaintained = spawner.amountMaintained
    BY <1>0, <1>3, SpawnAtExtends, ExtendsKeeps
  <2> QED
    BY <1>0, <1>3, <2>1, KeepsInv
<1>4. ASSUME Crowd
      PROVE  crowded' \in BOOLEAN /\ (~crowded' => Agree(spawner) /\ Sparse(spawner))
  <2>1. crowded' \in BOOLEAN
    BY <1>4 DEF Crowd
  <2>2. ASSUME ~crowded' PROVE Agree(spawner) /\ Sparse(spawner)
    <3>1. ~crowded /\ \A n \in Nodes : ~(Len(spawner.nodes[n]) > 2)
      BY <1>4, <2>2 DEF Crowd
    <3>2. \A n \in Nodes : Len(spawner.nodes[n]) \in Nat
      BY <1>0, ProperParts
    <3> QED
      BY <1>0, <3>1, <3>2 DEF Sparse
  <2> QED
    BY <2>1, <2>2
<1>5. ASSUME spawner' \in {Reset(spawner), DestroyAllEntities(spawner)}, Crowd,
             UNCHANGED goal
      PROVE  Inv(spawner', goal', crowded')
  <2>1. /\ spawner' \in Proper
        /\ spawner'.amountMaintained = spawner.amountMaintained
        /\ Agree(spawner) /\ Sparse(spawner) => Agree(spawner')
        /\ Awaited(spawner', goal)
    <3>1. CASE spawner' = Reset(spawner)
      BY <1>0, <3>1, ResetKeeps DEF Awaited
    <3>2. CASE spawner' = DestroyAllEntities(spawner)
      <4>1. Outlives(spawner, spawner')
            /\ (Agree(spawner) /\ Sparse(spawner) => Agree(spawner'))
        BY <1>0, <3>2, DestroyAllKeeps
      <4>2. Awaited(spawner, goal)
        BY <1>0 DEF Inv
      <4> QED
        BY <1>0, <4>1, <4>2, OutlivesAwaits DEF Outlives
    <3> QED
      BY <1>5, <3>1, <3>2
  <2> QED
    BY <1>0, <1>4, <1>5, <2>1 DEF Inv, Modest
<1>6. ASSUME NEW amount \in Amounts, Lowered(amount),
             \/ /\ \/ spawner' = SetNumToMaintain(spawner, amount)
                   \/ \E named \in BOOLEAN :
                        spawner' = SetSpawnerNetwork(spawner, amount, named)
                /\ UNCHANGED crowded
             \/ spawner' = SpawnNow(spawner, amount) /\ Crowd
      PROVE  Inv(spawner', goal', crowded')
  <2>1. /\ spawner' \in Proper /\ spawner'.amountMaintained = amount
        /\ crowded' \in BOOLEAN /\ (~crowded' => Agree(spawner'))
        /\ Awaited(spawner', goal)
    <3>1. CASE spawner' = SpawnNow(spawner, amount) /\ Crowd
      BY <1>0, <1>1, <1>4, <3>1, SpawnNowKeeps DEF Awaited
    <3>2. ASSUME \/ spawner' = SetNumToMaintain(spawner, amount)
                 \/ \E named \in BOOLEAN :
                      spawner' = SetSpawnerNetwork(spawner, amount, named),
                 UNCHANGED crowded
          PROVE  /\ spawner' \in Proper /\ spawner'.amountMaintained = amount
                 /\ crowded' \in BOOLEAN /\ (~crowded' => Agree(spawner'))
                 /\ Awaited(spawner', goal)
      <4>1. Keeps(spawner, spawner') /\ spawner'.amountMaintained = amount
        BY <1>0, <1>1, <3>2, SetNumToMaintainKeeps, SetSpawnerNetworkKeeps
      <4> QED
        BY <1>0, <3>2, <4>1 DEF Keeps, Inv
    <3> QED
      BY <1>6, <3>1, <3>2
  <2>2. Inv(spawner', Smaller(goal, amount), crowded')
    BY <1>0, <1>1, <2>1, LoweredInv
  <2> QED
    BY <1>6, <2>2 DEF Lowered
<1>7. Inv(spawner', goal', crowded')
  BY <1>2, <1>3, <1>5, <1>6 DEF Command
<1>8. commands' \in 0..MaxCommands
  BY <1>0, Constants DEF IInv
<1> QED
  BY <1>0, <1>7, <1>8 DEF IInv

LEMMA Invariance == Spec => []IInv
<1>1. IInv /\ UNCHANGED vars => IInv'
  BY DEF IInv, vars
<1>2. IInv /\ [Next]_vars => IInv'
  BY <1>1, UpdateStep, DeathStep, CommandStep DEF Next
<1> QED
  BY <1>2, Start0, PTL DEF Spec

-----------------------------------------------------------------------------
(* A spawner's fields have their types, whatever is called on it and in     *)
(* whatever order (Spawner.h:51-85).                                        *)
THEOREM TypeCorrect == Spec => []TypeOK
<1>1. IInv => TypeOK
  <2> SUFFICES ASSUME IInv PROVE TypeOK
    OBVIOUS
  <2>1. /\ spawner \in Proper /\ crowded \in BOOLEAN /\ goal \in Nat
    BY DEF IInv, Inv, Modest
  <2>2. /\ spawner \in State /\ DOMAIN spawner.entities \subseteq Ids
        /\ \A id \in DOMAIN spawner.entities : spawner.entities[id] \in Nodes
    BY <2>1, ProperParts
  <2> QED
    BY <2>1, <2>2 DEF TypeOK, IInv, State
<1> QED
  BY <1>1, Invariance, PTL

(* The map of entities, the lists of the nodes and the entities that live   *)
(* agree, until a node that holds three or more is destroyed                *)
(* (Spawner.cpp:79-115, 125-142, 207-235).                                  *)
THEOREM NodesCorrect == Spec => []NodesAgree
<1>1. IInv => NodesAgree
  <2> SUFFICES ASSUME IInv, ~crowded
               PROVE  /\ spawner.alive = DOMAIN spawner.entities
                      /\ \A n \in Nodes :
                           /\ ToSet(spawner.nodes[n]) =
                                {id \in spawner.alive : spawner.entities[id] = n}
                           /\ IsInjective(spawner.nodes[n])
    BY DEF NodesAgree
  <2>1. spawner \in Proper /\ Agree(spawner)
    BY DEF IInv, Inv
  <2>2. spawner.alive = DOMAIN spawner.entities
    BY <2>1, ProperParts DEF Agree
  <2>3. ASSUME NEW n \in Nodes
        PROVE  /\ ToSet(spawner.nodes[n]) =
                    {id \in spawner.alive : spawner.entities[id] = n}
               /\ IsInjective(spawner.nodes[n])
    <3> DEFINE list == spawner.nodes[n]
    <3>1. DOMAIN list = 1..Len(list)
      BY <2>1, ProperParts, LenProperties
    <3>2. \A k \in 1..Len(list) :
            /\ list[k] \in DOMAIN spawner.entities /\ spawner.entities[list[k]] = n
            /\ \A j \in 1..Len(list) : list[j] = list[k] => j = k
      BY <2>1, ProperParts DEF Listed
    <3>3. \A id \in DOMAIN spawner.entities : spawner.entities[id] = n =>
            \E k \in 1..Len(list) : list[k] = id
      BY <2>1 DEF Agree
    <3> HIDE DEF list
    <3>4. ToSet(list) = {list[k] : k \in 1..Len(list)}
      BY <3>1 DEF ToSet
    <3>5. ToSet(list) = {id \in spawner.alive : spawner.entities[id] = n}
      BY <2>2, <3>2, <3>3, <3>4
    <3>6. IsInjective(list)
      BY <3>1, <3>2 DEF IsInjective
    <3> QED
      BY <3>5, <3>6 DEF list
  <2> QED
    BY <2>2, <2>3
<1> QED
  BY <1>1, Invariance, PTL

(* What a started spawner is missing is waited for, or its maximum has been *)
(* spawned (Spawner.cpp:165-196, 207-235): no call loses a waiting time.    *)
THEOREM MissingCorrect == Spec => []MissingAreAwaited
<1>1. IInv => MissingAreAwaited
  BY DEF IInv, Inv, Awaited, MissingAreAwaited
<1> QED
  BY <1>1, Invariance, PTL
=============================================================================
