------------------------ MODULE PersistentIds_proofs ------------------------
(***************************************************************************)
(* Persistent ids, for any worlds, names and bounds: the state stays well  *)
(* typed, no id is used twice, the saved row covers every id that left the *)
(* master, names are unique, and every run of the detailed specification   *)
(* is one of UniqueIds.                                                    *)
(***************************************************************************)
EXTENDS PersistentIds, TLAPS

(* The memory and the row of the master at each point of its handler.      *)
MasterInv ==
  /\ \A r, s \in handling : r = s
  /\ master \in {"up", "down"} => handling = {}
  /\ master \in {"up", "answering"} => CurrentPersistentID = lastObjectId
  /\ master = "saving" => CurrentPersistentID = lastObjectId + 1

(* Ids that left the master: each is in one answer or in one use, and the  *)
(* one that is saved but not sent is above them all.                       *)
IdsInv ==
  /\ TrackerCoversIds
  /\ master = "answering" => /\ \A u \in uses : u.id < lastObjectId
                             /\ \A m \in toWorld : m.objID < lastObjectId
  /\ \A m, k \in toWorld : m.objID = k.objID => m = k
  /\ \A m \in toWorld, u \in uses : m.objID # u.id
  /\ IdsUsedOnce

(* A request that was answered is not outstanding, and no later one of its *)
(* process has its number.                                                 *)
RequestInv ==
  /\ \A w \in Worlds : w \notin running => Requests[w] = {}
  /\ \A w \in Worlds : \A r \in Requests[w] : r.requestID <= CurrentRequestID[w]
  /\ \A w \in Worlds : \A r, s \in Requests[w] : r.requestID = s.requestID => r = s
  /\ \A u \in uses : u.by.life <= life[u.by.world]
  /\ \A u \in uses :
       u.by.world \in running /\ u.by.life = life[u.by.world]
         => /\ u.by.requestID <= CurrentRequestID[u.by.world]
            /\ ~Outstanding(u.by.world, u.by.requestID)

IInv == TypeOK /\ MasterInv /\ IdsInv /\ RequestInv /\ NamesUnique

(* Nothing has been asked, given or kept yet.                              *)
LEMMA InitIInv == Init => IInv
BY DEF Init, IInv, TypeOK, MasterInv, IdsInv, TrackerCoversIds, IdsUsedOnce,
       RequestInv, NamesUnique, Asker, Response, PersistentIDRequest, Rename

-----------------------------------------------------------------------------
(* The steps of the master: the requests of the worlds stay as they are.   *)
LEMMA MasterIInv == IInv /\ MasterStep => IInv'
<1> SUFFICES ASSUME IInv, MasterStep PROVE IInv'
    OBVIOUS
<1> USE DEF IInv, masterVars, worldVars
<1>1. CASE Initialize
  <2>1. TypeOK'
        BY <1>1 DEF Initialize, TypeOK
  <2>2. lastObjectId <= lastObjectId' /\ master' # "answering"
        BY <1>1 DEF Initialize, TypeOK
  <2>3. MasterInv'
        BY <1>1 DEF Initialize, MasterInv
  <2>4. IdsInv'
        BY <1>1, <2>2 DEF Initialize, IdsInv, TrackerCoversIds, IdsUsedOnce, TypeOK,
                          Response
  <2>5. RequestInv' /\ NamesUnique'
        BY <1>1 DEF Initialize, RequestInv, Outstanding, NamesUnique
  <2> QED BY <2>1, <2>3, <2>4, <2>5
<1>2. CASE GeneratePersistentID
  <2>1. TypeOK'
        BY <1>2 DEF GeneratePersistentID, TypeOK
  <2>2. MasterInv'
        BY <1>2 DEF GeneratePersistentID, MasterInv
  <2>3. IdsInv'
        BY <1>2 DEF GeneratePersistentID, IdsInv, TrackerCoversIds, IdsUsedOnce
  <2>4. RequestInv' /\ NamesUnique'
        BY <1>2 DEF GeneratePersistentID, RequestInv, Outstanding, NamesUnique
  <2> QED BY <2>1, <2>2, <2>3, <2>4
<1>3. CASE SaveToDatabase
  <2>1. TypeOK'
        BY <1>3 DEF SaveToDatabase, TypeOK
  <2>2. lastObjectId' = lastObjectId + 1
        BY <1>3 DEF SaveToDatabase, MasterInv
  <2>3. MasterInv'
        BY <1>3 DEF SaveToDatabase, MasterInv
  <2>4. IdsInv'
        BY <1>3, <2>2 DEF SaveToDatabase, IdsInv, TrackerCoversIds, IdsUsedOnce, TypeOK,
                          Response
  <2>5. RequestInv' /\ NamesUnique'
        BY <1>3 DEF SaveToDatabase, RequestInv, Outstanding, NamesUnique
  <2> QED BY <2>1, <2>3, <2>4, <2>5
<1>4. CASE SendPersistentIDResponse
  <2>1. TypeOK'
        BY <1>4 DEF SendPersistentIDResponse, TypeOK, Asker, Response
  <2>2. MasterInv'
        BY <1>4 DEF SendPersistentIDResponse, MasterInv
  <2>3. CurrentPersistentID = lastObjectId
        BY <1>4 DEF SendPersistentIDResponse, MasterInv
  <2>4. \A m \in toWorld' :
          \/ m \in toWorld
          \/ /\ m.objID = lastObjectId
             /\ \E r \in handling : m = [world |-> r.world, requestID |-> r.requestID,
                                         objID |-> CurrentPersistentID]
        BY <1>4, <2>3 DEF SendPersistentIDResponse
  <2>5. TrackerCoversIds' /\ IdsUsedOnce' /\ master' # "answering"
        BY <1>4, <2>4 DEF SendPersistentIDResponse, IdsInv, TrackerCoversIds,
                          IdsUsedOnce, TypeOK
  <2>6. /\ \A u \in uses : u.id < lastObjectId
        /\ \A m \in toWorld : m.objID < lastObjectId
        BY <1>4 DEF SendPersistentIDResponse, IdsInv
  <2>7. ASSUME NEW m \in toWorld', NEW k \in toWorld', m.objID = k.objID
        PROVE  m = k
    <3>1. CASE m \in toWorld /\ k \in toWorld
          BY <2>7, <3>1 DEF IdsInv
    <3>2. CASE m \notin toWorld /\ k \notin toWorld
          BY <2>4, <3>2 DEF MasterInv
    <3>3. CASE m \in toWorld /\ k \notin toWorld
          BY <2>4, <2>6, <2>7, <3>3 DEF TypeOK
    <3>4. CASE m \notin toWorld /\ k \in toWorld
          BY <2>4, <2>6, <2>7, <3>4 DEF TypeOK
    <3> QED BY <3>1, <3>2, <3>3, <3>4
  <2>8. ASSUME NEW m \in toWorld', NEW u \in uses'
        PROVE  m.objID # u.id
    <3>1. u \in uses
          BY <1>4 DEF SendPersistentIDResponse
    <3>2. CASE m \in toWorld
          BY <3>1, <3>2 DEF IdsInv
    <3>3. CASE m \notin toWorld
          BY <2>4, <2>6, <3>1, <3>3 DEF TypeOK
    <3> QED BY <3>2, <3>3
  <2>9. IdsInv'
        BY <2>5, <2>7, <2>8 DEF IdsInv
  <2>10. RequestInv' /\ NamesUnique'
        BY <1>4 DEF SendPersistentIDResponse, RequestInv, Outstanding, NamesUnique
  <2> QED BY <2>1, <2>2, <2>9, <2>10
<1>5. CASE CrashMaster
  <2>1. TypeOK'
        BY <1>5 DEF CrashMaster, TypeOK
  <2>2. MasterInv' /\ IdsInv'
        BY <1>5 DEF CrashMaster, MasterInv, IdsInv, TrackerCoversIds, IdsUsedOnce
  <2>3. RequestInv' /\ NamesUnique'
        BY <1>5 DEF CrashMaster, RequestInv, Outstanding, NamesUnique
  <2> QED BY <2>1, <2>2, <2>3
<1>6. CASE ShutdownSequence
  <2>1. TypeOK'
        BY <1>6 DEF ShutdownSequence, TypeOK
  <2>2. lastObjectId' = lastObjectId
        BY <1>6 DEF ShutdownSequence, MasterInv
  <2>3. MasterInv' /\ IdsInv'
        BY <1>6, <2>2 DEF ShutdownSequence, MasterInv, IdsInv, TrackerCoversIds,
                          IdsUsedOnce
  <2>4. RequestInv' /\ NamesUnique'
        BY <1>6 DEF ShutdownSequence, RequestInv, Outstanding, NamesUnique
  <2> QED BY <2>1, <2>3, <2>4
<1> QED BY <1>1, <1>2, <1>3, <1>4, <1>5, <1>6 DEF MasterStep

-----------------------------------------------------------------------------
(* A step that leaves the uses, and what the master knows, alone, and takes*)
(* no answer into flight, keeps the ids apart.                             *)
LEMMA IdsUntouched ==
  ASSUME IdsInv, UNCHANGED <<master, lastObjectId, uses>>,
         toWorld' \subseteq toWorld,
         \A c \in charinfo' : \E d \in charinfo : c.id = d.id
  PROVE  IdsInv'
<1>1. TrackerCoversIds' /\ IdsUsedOnce'
      BY DEF IdsInv, TrackerCoversIds, IdsUsedOnce
<1> QED BY <1>1 DEF IdsInv

(* A callback turns the id of one answer into the id of one use.           *)
LEMMA IdsRecorded ==
  ASSUME TypeOK, IdsInv, NEW w \in Worlds, NEW m \in toWorld,
         UNCHANGED masterVars, Record(w, m), toWorld' = toWorld \ {m},
         \A c \in charinfo' : c \in charinfo \/ c.id = m.objID
  PROVE  IdsInv'
<1> DEFINE new == [id |-> m.objID,
                   by |-> [world |-> w, life |-> life[w], requestID |-> m.requestID]]
<1>1. uses' = uses \cup {new} /\ new.id = m.objID
      BY DEF Record
<1>2. TrackerCoversIds'
      BY <1>1 DEF IdsInv, TrackerCoversIds, masterVars
<1>3. \A u \in uses : u.id # new.id
      BY <1>1 DEF IdsInv
<1>4. IdsUsedOnce'
      BY <1>1, <1>3 DEF IdsInv, IdsUsedOnce
<1>5. \A k \in toWorld' : k \in toWorld /\ k.objID # m.objID
      BY DEF IdsInv
<1>6. \A k \in toWorld', u \in uses' : k.objID # u.id
      BY <1>1, <1>5 DEF IdsInv
<1>7. \A k, l \in toWorld' : k.objID = l.objID => k = l
      BY <1>5 DEF IdsInv
<1>8. master' = "answering" => /\ \A u \in uses' : u.id < lastObjectId'
                               /\ \A k \in toWorld' : k.objID < lastObjectId'
      BY <1>1, <1>5 DEF IdsInv, masterVars
<1> QED BY <1>2, <1>4, <1>6, <1>7, <1>8 DEF IdsInv

(* The callback of an outstanding request, which is erased.                *)
LEMMA RequestErased ==
  ASSUME TypeOK, RequestInv, NEW w \in running, NEW m \in toWorld,
         NEW r \in Requests[w], r.requestID = m.requestID, Record(w, m),
         Requests' = [Requests EXCEPT ![w] = @ \ {r}],
         UNCHANGED <<running, CurrentRequestID, life>>
  PROVE  RequestInv'
<1> USE DEF TypeOK, RequestInv
<1> DEFINE new == [id |-> m.objID,
                   by |-> [world |-> w, life |-> life[w], requestID |-> m.requestID]]
<1>1. w \in Worlds
      OBVIOUS
<1>2. \A v \in Worlds : Requests'[v] \subseteq Requests[v]
      BY <1>1
<1>3. \A s \in Requests'[w] : s.requestID # m.requestID
      BY <1>1
<1>4. uses' = uses \cup {new}
      BY DEF Record
<1>5. \A u \in uses' : u.by.life <= life'[u.by.world]
      BY <1>1, <1>4
<1>6. ASSUME NEW u \in uses', u.by.world \in running', u.by.life = life'[u.by.world]
      PROVE  /\ u.by.requestID <= CurrentRequestID'[u.by.world]
             /\ ~Outstanding(u.by.world, u.by.requestID)'
  <2>1. CASE u \in uses
    <3>1. u.by.requestID <= CurrentRequestID[u.by.world]
          BY <1>6, <2>1
    <3>2. ~Outstanding(u.by.world, u.by.requestID)
          BY <1>6, <2>1
    <3>3. u.by.world \in Worlds
          BY <2>1 DEF Asker
    <3> QED BY <1>2, <3>1, <3>2, <3>3 DEF Outstanding
  <2>2. CASE u = new
    <3>1. m.requestID <= CurrentRequestID[w]
          BY <1>1
    <3>2. ~Outstanding(w, m.requestID)'
          BY <1>3 DEF Outstanding
    <3> QED BY <2>2, <3>1, <3>2
  <2> QED BY <1>4, <2>1, <2>2
<1>7. \A v \in Worlds : v \notin running' => Requests'[v] = {}
      BY <1>2
<1>8. \A v \in Worlds : \A s \in Requests'[v] : s.requestID <= CurrentRequestID'[v]
      BY <1>2
<1>9. \A v \in Worlds : \A s, t \in Requests'[v] : s.requestID = t.requestID => s = t
      BY <1>2
<1> QED BY <1>5, <1>6, <1>7, <1>8, <1>9

(* A world process ends, with a last use of its own or with none.          *)
LEMMA RequestsOfStopped ==
  ASSUME TypeOK, RequestInv, NEW w \in Worlds,
         \A u \in uses' : u \in uses \/ (u.by.world = w /\ u.by.life = life[w]),
         EndProcess(w)
  PROVE  RequestInv'
<1> USE DEF TypeOK, RequestInv, EndProcess
<1>1. w \in Worlds
      OBVIOUS
<1>2. \A v \in Worlds : v # w => /\ Requests'[v] = Requests[v]
                                /\ CurrentRequestID'[v] = CurrentRequestID[v]
      OBVIOUS
<1>3. Requests'[w] = {}
      BY <1>1
<1>4. /\ \A v \in Worlds : v \notin running' => Requests'[v] = {}
      /\ \A v \in Worlds : \A r \in Requests'[v] : r.requestID <= CurrentRequestID'[v]
      /\ \A v \in Worlds : \A r, s \in Requests'[v] : r.requestID = s.requestID => r = s
      BY <1>2, <1>3
<1>5. \A u \in uses' : u.by.life <= life'[u.by.world]
      BY <1>1
<1>6. ASSUME NEW u \in uses', u.by.world \in running', u.by.life = life'[u.by.world]
      PROVE  /\ u.by.requestID <= CurrentRequestID'[u.by.world]
             /\ ~Outstanding(u.by.world, u.by.requestID)'
  <2>1. u \in uses /\ u.by.world # w
        BY <1>6
  <2>2. u.by.world \in Worlds
        BY <2>1 DEF Asker
  <2> QED BY <1>2, <1>6, <2>1, <2>2 DEF Outstanding
<1> QED BY <1>4, <1>5, <1>6

-----------------------------------------------------------------------------
(* A request takes the next number of its world.                           *)
LEMMA RequestIInv ==
  ASSUME IInv, NEW w \in Worlds, NEW use \in Names \cup {NoName},
         RequestPersistentID(w, use)
  PROVE  IInv'
<1> USE DEF IInv, RequestPersistentID, BetweenPackets, masterVars
<1> DEFINE id == CurrentRequestID[w] + 1
           new == [requestID |-> id, use |-> use]
<1>1. id \in Nat /\ new \in PersistentIDRequest
      BY DEF TypeOK, PersistentIDRequest
<1>2. [world |-> w, life |-> life[w], requestID |-> id] \in Asker
      BY <1>1 DEF TypeOK, Asker
<1>3. TypeOK'
      BY <1>1, <1>2 DEF TypeOK
<1>4. MasterInv'
      BY DEF MasterInv
<1>5. IdsInv' /\ NamesUnique'
      BY IdsUntouched DEF NamesUnique
<1>6. RequestInv'
  <2> USE DEF TypeOK, RequestInv
  <2>1. \A v \in Worlds : v # w => /\ Requests'[v] = Requests[v]
                                  /\ CurrentRequestID'[v] = CurrentRequestID[v]
        OBVIOUS
  <2>2. Requests'[w] = Requests[w] \cup {new} /\ CurrentRequestID'[w] = id
        OBVIOUS
  <2>3. \A r \in Requests[w] : r.requestID < id /\ r.requestID \in Nat
        BY DEF PersistentIDRequest
  <2>4. \A v \in Worlds : v \notin running' => Requests'[v] = {}
        BY <2>1
  <2>5. \A v \in Worlds : \A r \in Requests'[v] : r.requestID <= CurrentRequestID'[v]
        BY <1>1, <2>1, <2>2, <2>3
  <2>6. \A v \in Worlds : \A r, s \in Requests'[v] : r.requestID = s.requestID => r = s
        BY <1>1, <2>1, <2>2, <2>3
  <2>7. ASSUME NEW u \in uses', u.by.world \in running', u.by.life = life'[u.by.world]
        PROVE  /\ u.by.requestID <= CurrentRequestID'[u.by.world]
               /\ ~Outstanding(u.by.world, u.by.requestID)'
    <3>1. /\ u.by.requestID <= CurrentRequestID[u.by.world]
          /\ ~Outstanding(u.by.world, u.by.requestID)
          BY <2>7
    <3>2. u.by.world \in Worlds /\ u.by.requestID \in Nat
          BY <2>7 DEF Asker
    <3>3. CASE u.by.world # w
          BY <2>1, <3>1, <3>2, <3>3 DEF Outstanding
    <3>4. CASE u.by.world = w
      <4>1. u.by.requestID < id
            BY <3>1, <3>2, <3>4
      <4>2. \A r \in Requests'[w] : r \in Requests[w] \/ r.requestID = id
            BY <2>2
      <4>3. \A r \in Requests'[w] : r.requestID # u.by.requestID
            BY <3>1, <3>2, <3>4, <4>1, <4>2 DEF Outstanding
      <4>4. u.by.requestID <= CurrentRequestID'[w]
            BY <1>1, <2>2, <3>2, <4>1
      <4> QED BY <3>4, <4>3, <4>4 DEF Outstanding
    <3> QED BY <3>3, <3>4
  <2> QED BY <2>4, <2>5, <2>6, <2>7
<1> QED BY <1>3, <1>4, <1>5, <1>6

(* An answer is dropped, or its callback runs once.                        *)
LEMMA ResponseIInv ==
  ASSUME IInv, NEW w \in Worlds, HandleRequestPersistentIDResponse(w)
  PROVE  IInv'
<1> USE DEF IInv
<1>1. PICK m \in toWorld :
        /\ w \in running
        /\ m.world = w
        /\ \/ DropResponse(w, m)
           \/ UseObjectID(w, m)
           \/ InsertNewCharacter(w, m)
           \/ InsertTakenName(w, m)
      BY DEF HandleRequestPersistentIDResponse, BetweenPackets
<1>2. m \in Response
      BY DEF TypeOK
<1>3. [id |-> m.objID, by |-> [world |-> w, life |-> life[w], requestID |-> m.requestID]]
        \in [id : Nat, by : Asker]
      BY <1>2 DEF TypeOK, Response, Asker
<1>4. CASE DropResponse(w, m)
  <2> USE <1>4 DEF DropResponse, worldVars, masterVars
  <2>1. TypeOK'
        BY DEF TypeOK
  <2>2. MasterInv' /\ NamesUnique'
        BY DEF MasterInv, NamesUnique
  <2>3. IdsInv'
        BY IdsUntouched
  <2>4. RequestInv'
        BY DEF RequestInv, Outstanding
  <2> QED BY <2>1, <2>2, <2>3, <2>4
<1>5. CASE UseObjectID(w, m)
  <2> USE <1>5 DEF UseObjectID
  <2>1. TypeOK'
        BY <1>3 DEF TypeOK, Record, masterVars
  <2>2. MasterInv' /\ NamesUnique'
        BY DEF MasterInv, NamesUnique, masterVars
  <2>3. IdsInv'
        BY IdsRecorded
  <2>4. RequestInv'
        BY <1>1, RequestErased
  <2> QED BY <2>1, <2>2, <2>3, <2>4
<1>6. CASE InsertNewCharacter(w, m)
  <2> USE <1>6 DEF InsertNewCharacter
  <2>1. PICK r \in Requests[w] :
          /\ r.requestID = m.requestID
          /\ r.use # NoName
          /\ CharacterWithId(m.objID) \/ NameIsFree(r.use, m.objID)
          /\ charinfo' = IF CharacterWithId(m.objID) THEN charinfo
                         ELSE charinfo \cup {[id |-> m.objID, name |-> r.use]}
          /\ Requests' = [Requests EXCEPT ![w] = @ \ {r}]
        OBVIOUS
  <2>2. r.use \in Names
        BY <2>1 DEF TypeOK, PersistentIDRequest
  <2>3. charinfo' \subseteq [id : Nat, name : Names]
        BY <1>2, <2>1, <2>2 DEF TypeOK, Response
  <2>4. TypeOK'
        BY <1>3, <2>1, <2>3 DEF TypeOK, Record, masterVars
  <2>5. MasterInv'
        BY DEF MasterInv, masterVars
  <2>6. NamesUnique'
        BY <2>1 DEF NamesUnique, NameIsFree, CharacterWithId
  <2>7. IdsInv'
        BY <2>1, IdsRecorded
  <2>8. RequestInv'
        BY <1>1, <2>1, RequestErased
  <2> QED BY <2>4, <2>5, <2>6, <2>7, <2>8
<1>7. CASE InsertTakenName(w, m)
  <2> USE <1>7 DEF InsertTakenName
  <2>1. TypeOK'
        BY <1>3 DEF TypeOK, Record, EndProcess, masterVars
  <2>2. MasterInv' /\ NamesUnique'
        BY DEF MasterInv, NamesUnique, masterVars
  <2>3. IdsInv'
        BY IdsRecorded
  <2>4. \A u \in uses' : u \in uses \/ (u.by.world = w /\ u.by.life = life[w])
    <3> DEFINE new == [id |-> m.objID, by |-> [world |-> w, life |-> life[w],
                                               requestID |-> m.requestID]]
    <3>1. uses' = uses \cup {new}
          BY DEF Record
    <3>2. new.by.world = w /\ new.by.life = life[w]
          OBVIOUS
    <3> HIDE DEF new
    <3> QED BY <3>1, <3>2
  <2>5. RequestInv'
        BY <1>1, <2>4, RequestsOfStopped
  <2> QED BY <2>1, <2>2, <2>3, <2>5
<1> QED BY <1>1, <1>4, <1>5, <1>6, <1>7

(* A name is written where no other row has it, or the world ends.         *)
LEMMA RenameIInv ==
  ASSUME IInv, NEW w \in Worlds, SetCharacterName(w)
  PROVE  IInv'
<1> USE DEF IInv, masterVars
<1>1. PICK r \in renaming[w] :
        \/ /\ CharacterWithId(r.id) => NameIsFree(r.name, r.id)
           /\ charinfo' = {IF c.id = r.id THEN r ELSE c : c \in charinfo}
           /\ renaming' = [renaming EXCEPT ![w] = {}]
           /\ UNCHANGED <<running, Requests, CurrentRequestID, life>>
        \/ /\ CharacterWithId(r.id) /\ ~NameIsFree(r.name, r.id)
           /\ EndProcess(w)
           /\ UNCHANGED charinfo
      BY DEF SetCharacterName
<1>2. UNCHANGED <<masterVars, toMaster, toWorld, uses, requests, faults>>
      BY DEF SetCharacterName
<1>3. r \in [id : Nat, name : Names]
      BY DEF TypeOK, Rename
<1>4. CASE /\ CharacterWithId(r.id) => NameIsFree(r.name, r.id)
           /\ charinfo' = {IF c.id = r.id THEN r ELSE c : c \in charinfo}
           /\ renaming' = [renaming EXCEPT ![w] = {}]
           /\ UNCHANGED <<running, Requests, CurrentRequestID, life>>
  <2> USE <1>2, <1>4
  <2>1. TypeOK'
        BY <1>3 DEF TypeOK
  <2>2. MasterInv' /\ RequestInv'
        BY DEF MasterInv, RequestInv, Outstanding
  <2>3. \A c \in charinfo' : \E d \in charinfo : c.id = d.id
        OBVIOUS
  <2>4. IdsInv'
        BY <2>3, IdsUntouched
  <2>5. ASSUME NEW c \in charinfo', NEW d \in charinfo', c.name = d.name
        PROVE  c = d
    <3>1. /\ c = r \/ (c \in charinfo /\ c.id # r.id)
          /\ d = r \/ (d \in charinfo /\ d.id # r.id)
          OBVIOUS
    <3>2. (c = r \/ d = r) => CharacterWithId(r.id)
          BY <3>1 DEF CharacterWithId
    <3> QED BY <2>5, <3>1, <3>2 DEF NamesUnique, NameIsFree
  <2> QED BY <2>1, <2>2, <2>4, <2>5 DEF NamesUnique
<1>5. CASE EndProcess(w) /\ UNCHANGED charinfo
  <2> USE <1>2, <1>5
  <2>1. TypeOK'
        BY DEF TypeOK, EndProcess
  <2>2. MasterInv' /\ NamesUnique'
        BY DEF MasterInv, NamesUnique
  <2>3. IdsInv'
        BY IdsUntouched
  <2>4. RequestInv'
        BY RequestsOfStopped
  <2> QED BY <2>1, <2>2, <2>3, <2>4
<1> QED BY <1>1, <1>4, <1>5

(* The steps of a world.                                                   *)
LEMMA WorldIInv ==
  ASSUME IInv, NEW w \in Worlds, WorldStep(w)
  PROVE  IInv'
<1> USE DEF IInv
<1>1. CASE \E n \in Names : CreateCharacter(w, n)
      BY <1>1, RequestIInv DEF CreateCharacter
<1>2. CASE RequestObjectID(w)
      BY <1>2, RequestIInv DEF RequestObjectID
<1>3. CASE HandleRequestPersistentIDResponse(w)
      BY <1>3, ResponseIInv
<1>4. ASSUME NEW c \in charinfo, NEW n \in Names, RenameCharacter(w, c, n)
      PROVE  IInv'
  <2> USE <1>4 DEF RenameCharacter, masterVars
  <2>1. [id |-> c.id, name |-> n] \in Rename
        BY DEF TypeOK, Rename
  <2>2. TypeOK'
        BY <2>1 DEF TypeOK
  <2>3. MasterInv' /\ RequestInv' /\ NamesUnique'
        BY DEF MasterInv, RequestInv, Outstanding, NamesUnique
  <2>4. IdsInv'
        BY IdsUntouched
  <2> QED BY <2>2, <2>3, <2>4
<1>5. ASSUME NEW c \in charinfo, DeleteCharacter(w, c)
      PROVE  IInv'
  <2> USE <1>5 DEF DeleteCharacter, BetweenPackets, masterVars, worldVars
  <2>1. TypeOK' /\ MasterInv' /\ NamesUnique'
        BY DEF TypeOK, MasterInv, NamesUnique
  <2>2. RequestInv'
        BY DEF RequestInv, Outstanding
  <2>3. IdsInv'
        BY IdsUntouched
  <2> QED BY <2>1, <2>2, <2>3
<1>6. CASE StartWorld(w)
  <2> USE <1>6 DEF StartWorld, masterVars
  <2>1. TypeOK'
        BY DEF TypeOK
  <2>2. MasterInv' /\ NamesUnique'
        BY DEF MasterInv, NamesUnique
  <2>3. IdsInv'
        BY IdsUntouched
  <2>4. \A u \in uses : u.by.world \in Worlds /\ u.by.life \in Nat /\ u.by.life <= life[u.by.world]
        BY DEF TypeOK, RequestInv, Asker
  <2>5. life'[w] = life[w] + 1 /\ \A v \in Worlds : v # w => life'[v] = life[v]
        BY DEF TypeOK
  <2>6. \A u \in uses : u.by.world = w => u.by.life < life'[w]
        BY <2>4, <2>5 DEF TypeOK
  <2>7. \A u \in uses' : u.by.life <= life'[u.by.world]
    <3>1. ASSUME NEW u \in uses PROVE u.by.life <= life'[u.by.world]
      <4>1. CASE u.by.world = w
            BY <2>1, <2>4, <2>6, <4>1 DEF TypeOK
      <4>2. CASE u.by.world # w
            BY <2>4, <2>5, <4>2
      <4> QED BY <4>1, <4>2
    <3> QED BY <3>1
  <2>8. ASSUME NEW u \in uses', u.by.world \in running', u.by.life = life'[u.by.world]
        PROVE  /\ u.by.requestID <= CurrentRequestID'[u.by.world]
               /\ ~Outstanding(u.by.world, u.by.requestID)'
    <3>1. u.by.world # w
          BY <2>4, <2>6, <2>8
    <3> QED BY <2>4, <2>5, <2>8, <3>1 DEF RequestInv, Outstanding
  <2>9. RequestInv'
        BY <2>7, <2>8 DEF RequestInv
  <2> QED BY <2>1, <2>2, <2>3, <2>9
<1>7. CASE StopWorld(w)
  <2> USE <1>7 DEF StopWorld, masterVars
  <2>1. TypeOK'
        BY DEF TypeOK, EndProcess
  <2>2. MasterInv' /\ NamesUnique'
        BY DEF MasterInv, NamesUnique
  <2>3. IdsInv'
        BY IdsUntouched
  <2>4. w \in running /\ uses' = uses
        OBVIOUS
  <2>5. RequestInv'
        BY <2>4, RequestsOfStopped
  <2> QED BY <2>1, <2>2, <2>3, <2>5
<1>8. CASE LoseLink(w)
  <2> USE <1>8 DEF LoseLink, masterVars, worldVars
  <2>1. toMaster' \subseteq toMaster
        OBVIOUS
  <2>2. TypeOK'
        BY <2>1 DEF TypeOK
  <2>3. MasterInv' /\ NamesUnique'
        BY DEF MasterInv, NamesUnique
  <2>4. IdsInv'
        BY IdsUntouched
  <2>5. RequestInv'
        BY DEF RequestInv, Outstanding
  <2> QED BY <2>2, <2>3, <2>4, <2>5
<1>9. CASE SetCharacterName(w)
      BY <1>9, RenameIInv
<1> QED BY <1>1, <1>2, <1>3, <1>4, <1>5, <1>6, <1>7, <1>8, <1>9 DEF WorldStep

-----------------------------------------------------------------------------
(* The invariant the theorems below follow from, over master and worlds.   *)
THEOREM Invariance == Spec => []IInv
<1>1. Init => IInv
      BY InitIInv
<1>2. IInv /\ [Next]_vars => IInv'
  <2> SUFFICES ASSUME IInv, [Next]_vars PROVE IInv'
      OBVIOUS
  <2>1. CASE MasterStep
        BY <2>1, MasterIInv
  <2>2. CASE \E w \in Worlds : WorldStep(w)
        BY <2>2, WorldIInv
  <2>3. CASE UNCHANGED vars
        BY <2>3 DEF vars, masterVars, worldVars, IInv, TypeOK, MasterInv, IdsInv,
                    TrackerCoversIds, IdsUsedOnce, RequestInv, Outstanding, NamesUnique
  <2> QED BY <2>1, <2>2, <2>3 DEF Next
<1> QED BY <1>1, <1>2, PTL DEF Spec

(* The state is well typed whatever the worlds, the names and the bounds.  *)
THEOREM TypeCorrect == Spec => []TypeOK
<1>1. IInv => TypeOK
      BY DEF IInv
<1> QED BY <1>1, Invariance, PTL

(* No persistent id is given twice, through crashes of the master between  *)
(* any two steps of its handler (PersistentIDManager.cpp:35-41).           *)
THEOREM NoIdUsedTwice == Spec => []IdsUsedOnce
<1>1. IInv => IdsUsedOnce
      BY DEF IInv, IdsInv
<1> QED BY <1>1, Invariance, PTL

(* The saved row covers every id in the database and on its way there.     *)
THEOREM TrackerNeverBehind == Spec => []TrackerCoversIds
<1>1. IInv => TrackerCoversIds
      BY DEF IInv, IdsInv
<1> QED BY <1>1, Invariance, PTL

(* No two characters share a name, however creations and renames interleave*)
(* (UserManager.cpp:310-387).                                              *)
THEOREM NoNameTwice == Spec => []NamesUnique
<1>1. IInv => NamesUnique
      BY DEF IInv
<1> QED BY <1>1, Invariance, PTL

-----------------------------------------------------------------------------
(* A callback is a use that the abstract specification allows.             *)
LEMMA CallbackIsUse ==
  ASSUME IInv, NEW w \in running, NEW m \in toWorld, Record(w, m),
         NEW r \in Requests[w], r.requestID = m.requestID
  PROVE  Ids!Next
<1> DEFINE new == [id |-> m.objID,
                   by |-> [world |-> w, life |-> life[w], requestID |-> m.requestID]]
<1>1. uses' = uses \cup {new}
      BY DEF Record
<1>2. /\ new.id = m.objID /\ new.by.world = w /\ new.by.life = life[w]
      /\ new.by.requestID = m.requestID
      OBVIOUS
<1> HIDE DEF new
<1>3. \A v \in uses : v.id # new.id
      BY <1>2 DEF IInv, IdsInv
<1>4. \A v \in uses : v.by # new.by
  <2> SUFFICES ASSUME NEW v \in uses, v.by = new.by PROVE FALSE
      OBVIOUS
  <2>1. ~Outstanding(w, m.requestID)
        BY <1>2 DEF IInv, RequestInv
  <2> QED BY <2>1 DEF Outstanding
<1> QED BY <1>1, <1>3, <1>4 DEF Ids!Next, Ids!Use

(* Every run of the master and the worlds is a run of UniqueIds.           *)
THEOREM Implementation == Spec => ImplementsUniqueIds
<1>1. Init => Ids!Init
      BY DEF Init, Ids!Init
<1>2. IInv /\ [Next]_vars => [Ids!Next]_uses
  <2> SUFFICES ASSUME IInv, [Next]_vars, uses' # uses PROVE Ids!Next
      OBVIOUS
  <2>1. ~MasterStep /\ ~UNCHANGED vars
        BY DEF vars, MasterStep, Initialize, GeneratePersistentID, SaveToDatabase,
               SendPersistentIDResponse, CrashMaster, ShutdownSequence
  <2>2. PICK w \in Worlds : WorldStep(w)
        BY <2>1 DEF Next
  <2>3. HandleRequestPersistentIDResponse(w)
        BY <2>2 DEF WorldStep, CreateCharacter, RequestObjectID, RequestPersistentID,
                    RenameCharacter, SetCharacterName, DeleteCharacter, StartWorld, StopWorld,
                    LoseLink
  <2>4. PICK m \in toWorld :
          /\ w \in running
          /\ \/ DropResponse(w, m)
             \/ UseObjectID(w, m)
             \/ InsertNewCharacter(w, m)
             \/ InsertTakenName(w, m)
        BY <2>3 DEF HandleRequestPersistentIDResponse, BetweenPackets
  <2>5. /\ Record(w, m)
        /\ \E r \in Requests[w] : r.requestID = m.requestID
        BY <2>4 DEF DropResponse, UseObjectID, InsertNewCharacter, InsertTakenName
  <2> QED BY <2>4, <2>5, CallbackIsUse
<1> QED BY <1>1, <1>2, Invariance, PTL DEF Spec, ImplementsUniqueIds, Ids!Spec
=============================================================================
