--------------------------- MODULE PersistentIds ---------------------------
(***************************************************************************)
(* Persistent object ids.  The master gives out the ids of everything that *)
(* the database keeps: characters, property models, built items, behaviors.*)
(* It holds the highest id in memory and saves it, on every request, in    *)
(* the one row of object_id_tracker (PersistentIDManager.cpp).  A world    *)
(* asks by packet, keeps the callback under a request number, and runs it  *)
(* when the answer comes (ObjectIDManager.cpp).  The callback that matters *)
(* most inserts a new character, under a name that was looked up when the  *)
(* request was made (UserManager.cpp).                                     *)
(*                                                                         *)
(* Packets are sets of records: the links are reliable and ordered, but    *)
(* neither handler depends on the order.  An answer names the world by its *)
(* address only, so that it may reach a later process of the same address. *)
(***************************************************************************)
EXTENDS Integers

CONSTANTS
  Worlds,         \* addresses of world servers
  Names,          \* names of characters
  NoName,         \* stands for a use of an id other than a new character
  MaxRequests,    \* requests of all world processes
  MaxFaults       \* stops of processes and losses of links

ASSUME NoNameAssumption == NoName \notin Names
ASSUME BoundsAssumption == MaxRequests \in Nat /\ MaxFaults \in Nat

VARIABLES
  master,               \* "down", "up", "saving" or "answering": the last two
                        \* are inside the handler of a request
  handling,             \* the requests inside the handler, one at most
  CurrentPersistentID,  \* the highest id, in the memory of the master
  lastObjectId,         \* the saved row of object_id_tracker, 0 if there is none
  charinfo,             \* the characters in the database
  running,              \* the worlds that run
  Requests,             \* outstanding requests of a world, with their callbacks
  CurrentRequestID,     \* the number of the last request of a world
  renaming,             \* the rename that a world is inside the handler of:
                        \* the name was looked up and is not yet written
  toMaster,             \* REQUEST_PERSISTENT_ID under way
  toWorld,              \* REQUEST_PERSISTENT_ID_RESPONSE under way
  life,                 \* history: which process of its address a world is
  uses,                 \* history: which request was given which id
  requests,             \* bound: the requests so far
  faults                \* bound: the faults so far

masterVars == <<master, handling, CurrentPersistentID, lastObjectId>>
worldVars == <<running, Requests, CurrentRequestID, renaming, life>>
vars == <<masterVars, charinfo, worldVars, toMaster, toWorld, uses, requests,
          faults>>

(* Who asked: history only, no packet carries the process.                 *)
Asker == [world : Worlds, life : Nat, requestID : Nat]
Response == [world : Worlds, requestID : Nat, objID : Nat]
PersistentIDRequest == [requestID : Nat, use : Names \cup {NoName}]
Rename == [id : Nat, name : Names]

(* Type invariant: what the master, the worlds and the database keep, and   *)
(* the packets between them, have their types.                              *)
TypeOK ==
  /\ master \in {"down", "up", "saving", "answering"}
  /\ handling \subseteq Asker
  /\ CurrentPersistentID \in Nat /\ lastObjectId \in Nat
  /\ charinfo \subseteq [id : Nat, name : Names]
  /\ running \subseteq Worlds
  /\ Requests \in [Worlds -> SUBSET PersistentIDRequest]
  /\ CurrentRequestID \in [Worlds -> Nat]
  /\ renaming \in [Worlds -> SUBSET Rename]
  /\ toMaster \subseteq Asker
  /\ toWorld \subseteq Response
  /\ life \in [Worlds -> Nat]
  /\ uses \subseteq [id : Nat, by : Asker]
  /\ requests \in Nat /\ faults \in Nat

-----------------------------------------------------------------------------
(* Lookups in the table of characters, by name and by id.                  *)
CharacterNamed(n) == \E c \in charinfo : c.name = n
CharacterWithId(id) == \E c \in charinfo : c.id = id

(* Mutant: the table of characters has no key on names.                    *)
NameIsAlwaysFree(n, id) == n \in Names

(* The key that migrations/dlu/1_unique_charinfo_names.sql puts on names:  *)
(* no row of another id has the name.                                      *)
NameIsFree(n, id) == \A c \in charinfo : c.name = n => c.id = id

(* A world handles one packet after the other.                             *)
BetweenPackets(w) == w \in running /\ renaming[w] = {}

(* A world process ends, and its memory with it.                           *)
EndProcess(w) ==
  /\ running' = running \ {w}
  /\ Requests' = [Requests EXCEPT ![w] = {}]
  /\ CurrentRequestID' = [CurrentRequestID EXCEPT ![w] = 0]
  /\ renaming' = [renaming EXCEPT ![w] = {}]
  /\ life' = life

-----------------------------------------------------------------------------
Init ==
  /\ master = "down" /\ handling = {}
  /\ CurrentPersistentID = 1 /\ lastObjectId = 0
  /\ charinfo = {}
  /\ running = {}
  /\ Requests = [w \in Worlds |-> {}]
  /\ CurrentRequestID = [w \in Worlds |-> 0]
  /\ renaming = [w \in Worlds |-> {}]
  /\ toMaster = {} /\ toWorld = {}
  /\ life = [w \in Worlds |-> 0]
  /\ uses = {}
  /\ requests = 0 /\ faults = 0

(* Mutant: a master that starts always writes the default row.             *)
InitializeAtDefault ==
  /\ master = "down"
  /\ master' = "up"
  /\ lastObjectId' = 1
  /\ CurrentPersistentID' = 1
  /\ UNCHANGED <<handling, charinfo, worldVars, toMaster, toWorld, uses, requests,
                 faults>>

(* The master starts: the saved id, or 1 in a new row.                     *)
Initialize ==
  /\ master = "down"
  /\ master' = "up"
  /\ lastObjectId' = IF lastObjectId = 0 THEN 1 ELSE lastObjectId
  /\ CurrentPersistentID' = lastObjectId'
  /\ UNCHANGED <<handling, charinfo, worldVars, toMaster, toWorld, uses, requests, faults>>

(* Mutant: the id is answered without having been saved.                   *)
GenerateUnsaved ==
  /\ master = "up"
  /\ \E r \in toMaster :
       /\ toMaster' = toMaster \ {r}
       /\ handling' = {r}
  /\ CurrentPersistentID' = CurrentPersistentID + 1
  /\ master' = "answering"
  /\ UNCHANGED <<lastObjectId, charinfo, worldVars, toWorld, uses, requests, faults>>

(* The handler of a request, in the three steps between which the master   *)
(* may stop: the id is taken in memory, saved, and sent.                   *)
GeneratePersistentID ==
  /\ master = "up"
  /\ \E r \in toMaster :
       /\ toMaster' = toMaster \ {r}
       /\ handling' = {r}
  /\ CurrentPersistentID' = CurrentPersistentID + 1
  /\ master' = "saving"
  /\ UNCHANGED <<lastObjectId, charinfo, worldVars, toWorld, uses, requests, faults>>

SaveToDatabase ==
  /\ master = "saving"
  /\ lastObjectId' = CurrentPersistentID
  /\ master' = "answering"
  /\ UNCHANGED <<handling, CurrentPersistentID, charinfo, worldVars, toMaster,
                 toWorld, uses, requests, faults>>

SendPersistentIDResponse ==
  /\ master = "answering"
  /\ toWorld' = toWorld \cup
       {[world |-> r.world, requestID |-> r.requestID, objID |-> CurrentPersistentID]
          : r \in handling}
  /\ handling' = {}
  /\ master' = "up"
  /\ UNCHANGED <<CurrentPersistentID, lastObjectId, charinfo, worldVars,
                 toMaster, uses, requests, faults>>

-----------------------------------------------------------------------------
(* A world keeps the callback and sends; without a master to send to, the  *)
(* packet is lost and the callback stays.                                  *)
RequestPersistentID(w, use) ==
  LET id == CurrentRequestID[w] + 1 IN
  /\ BetweenPackets(w)
  /\ requests < MaxRequests /\ requests' = requests + 1
  /\ CurrentRequestID' = [CurrentRequestID EXCEPT ![w] = id]
  /\ Requests' = [Requests EXCEPT ![w] = @ \cup {[requestID |-> id, use |-> use]}]
  /\ toMaster' = IF master = "down" THEN toMaster
                 ELSE toMaster \cup {[world |-> w, life |-> life[w], requestID |-> id]}
  /\ UNCHANGED <<masterVars, charinfo, running, renaming, life, toWorld, uses, faults>>

(* A player creates a character under a name that nobody has.              *)
CreateCharacter(w, name) ==
  /\ ~CharacterNamed(name)
  /\ RequestPersistentID(w, name)

(* The other callers: a model saved or placed, a modular build, a behavior.*)
RequestObjectID(w) == RequestPersistentID(w, NoName)

(* The history of ids takes note of every callback.                        *)
Record(w, m) ==
  uses' = uses \cup {[id |-> m.objID,
                      by |-> [world |-> w, life |-> life[w], requestID |-> m.requestID]]}

(* Mutant: only the last request is taken to be outstanding.               *)
DropAllButLast(w, m) ==
  /\ m.requestID # CurrentRequestID[w]
  /\ toWorld' = toWorld \ {m}
  /\ UNCHANGED <<masterVars, charinfo, worldVars, toMaster, uses, requests, faults>>

(* An answer to a number that is not outstanding (any more) is dropped.    *)
DropResponse(w, m) ==
  /\ \A r \in Requests[w] : r.requestID # m.requestID
  /\ toWorld' = toWorld \ {m}
  /\ UNCHANGED <<masterVars, charinfo, worldVars, toMaster, uses, requests, faults>>

(* Mutant: the request stays outstanding after its callback.               *)
UseAndKeep(w, m) ==
  /\ \E r \in Requests[w] :
       /\ r.requestID = m.requestID
       /\ r.use = NoName
  /\ Record(w, m)
  /\ toWorld' = toWorld \ {m}
  /\ UNCHANGED <<masterVars, charinfo, worldVars, toMaster, requests, faults>>

(* The callback of a use other than a new character only uses the id.      *)
UseObjectID(w, m) ==
  /\ \E r \in Requests[w] :
       /\ r.requestID = m.requestID
       /\ r.use = NoName
       /\ Requests' = [Requests EXCEPT ![w] = @ \ {r}]
  /\ Record(w, m)
  /\ toWorld' = toWorld \ {m}
  /\ UNCHANGED <<masterVars, charinfo, running, CurrentRequestID, renaming, life,
                 toMaster, requests, faults>>

(* Mutant: a row is inserted for every use of an id.                       *)
InsertForEveryUse(w, m) ==
  /\ \E r \in Requests[w] :
       /\ r.requestID = m.requestID
       /\ charinfo' = charinfo \cup {[id |-> m.objID, name |-> r.use]}
       /\ Requests' = [Requests EXCEPT ![w] = @ \ {r}]
  /\ Record(w, m)
  /\ toWorld' = toWorld \ {m}
  /\ UNCHANGED <<masterVars, running, CurrentRequestID, renaming, life, toMaster,
                 requests, faults>>

(* The callback of a new character, whose id and name must not be in use.  *)
InsertNewCharacter(w, m) ==
  /\ \E r \in Requests[w] :
       /\ r.requestID = m.requestID
       /\ r.use # NoName
       /\ CharacterWithId(m.objID) \/ NameIsFree(r.use, m.objID)
       /\ charinfo' = IF CharacterWithId(m.objID) THEN charinfo
                      ELSE charinfo \cup {[id |-> m.objID, name |-> r.use]}
       /\ Requests' = [Requests EXCEPT ![w] = @ \ {r}]
  /\ Record(w, m)
  /\ toWorld' = toWorld \ {m}
  /\ UNCHANGED <<masterVars, running, CurrentRequestID, renaming, life, toMaster,
                 requests, faults>>

(* The name was taken since it was looked up: the database refuses the row,*)
(* nothing catches the exception, and the world process ends.              *)
InsertTakenName(w, m) ==
  /\ \E r \in Requests[w] :
       /\ r.requestID = m.requestID
       /\ r.use # NoName
       /\ ~CharacterWithId(m.objID) /\ ~NameIsFree(r.use, m.objID)
  /\ Record(w, m)
  /\ EndProcess(w)
  /\ toWorld' = toWorld \ {m}
  /\ UNCHANGED <<masterVars, charinfo, toMaster, requests, faults>>

HandleRequestPersistentIDResponse(w) ==
  /\ BetweenPackets(w)
  /\ \E m \in toWorld :
       /\ m.world = w
       /\ \/ DropResponse(w, m)
          \/ UseObjectID(w, m)
          \/ InsertNewCharacter(w, m)
          \/ InsertTakenName(w, m)

(* A rename to a name approved in advance looks the name up first, and     *)
(* the other worlds do not wait for it to be written.                      *)
RenameCharacter(w, c, name) ==
  /\ BetweenPackets(w)
  /\ ~CharacterNamed(name)
  /\ renaming' = [renaming EXCEPT ![w] = {[id |-> c.id, name |-> name]}]
  /\ UNCHANGED <<masterVars, charinfo, running, Requests, CurrentRequestID, life,
                 toMaster, toWorld, uses, requests, faults>>

(* The row of that id, if it is still there, gets the name; unless another *)
(* row has got it since: then the exception ends the world.                *)
SetCharacterName(w) ==
  /\ \E r \in renaming[w] :
       \/ /\ CharacterWithId(r.id) => NameIsFree(r.name, r.id)
          /\ charinfo' = {IF c.id = r.id THEN r ELSE c : c \in charinfo}
          /\ renaming' = [renaming EXCEPT ![w] = {}]
          /\ UNCHANGED <<running, Requests, CurrentRequestID, life>>
       \/ /\ CharacterWithId(r.id) /\ ~NameIsFree(r.name, r.id)
          /\ EndProcess(w)
          /\ UNCHANGED charinfo
  /\ UNCHANGED <<masterVars, toMaster, toWorld, uses, requests, faults>>

DeleteCharacter(w, c) ==
  /\ BetweenPackets(w)
  /\ charinfo' = charinfo \ {c}
  /\ UNCHANGED <<masterVars, worldVars, toMaster, toWorld, uses, requests, faults>>

-----------------------------------------------------------------------------
(* Processes start and stop, and links are lost with what they carry.      *)
StartWorld(w) ==
  /\ master # "down"
  /\ w \notin running
  /\ running' = running \cup {w}
  /\ life' = [life EXCEPT ![w] = @ + 1]
  /\ UNCHANGED <<masterVars, charinfo, Requests, CurrentRequestID, renaming,
                 toMaster, toWorld, uses, requests, faults>>

(* What the master has received of a world outlives the world.             *)
StopWorld(w) ==
  /\ faults < MaxFaults /\ faults' = faults + 1
  /\ w \in running
  /\ EndProcess(w)
  /\ toWorld' = {m \in toWorld : m.world # w}
  /\ UNCHANGED <<masterVars, charinfo, toMaster, uses, requests>>

(* A crash, at any point of the handler; an exception of the database that *)
(* nothing catches ends the master as well.                                *)
CrashMaster ==
  /\ faults < MaxFaults /\ faults' = faults + 1
  /\ master # "down"
  /\ master' = "down"
  /\ handling' = {}
  /\ toMaster' = {}
  /\ CurrentPersistentID' = 1
  /\ UNCHANGED <<lastObjectId, charinfo, worldVars, toWorld, uses, requests>>

(* An orderly shutdown, between two packets, saves once more.              *)
ShutdownSequence ==
  /\ faults < MaxFaults /\ faults' = faults + 1
  /\ master = "up"
  /\ lastObjectId' = CurrentPersistentID
  /\ master' = "down"
  /\ toMaster' = {}
  /\ CurrentPersistentID' = 1
  /\ UNCHANGED <<handling, charinfo, worldVars, toWorld, uses, requests>>

LoseLink(w) ==
  /\ faults < MaxFaults /\ faults' = faults + 1
  /\ \E kept \in SUBSET {r \in toMaster : r.world = w} :
       toMaster' = {r \in toMaster : r.world # w} \cup kept
  /\ toWorld' = {m \in toWorld : m.world # w}
  /\ UNCHANGED <<masterVars, charinfo, worldVars, uses, requests>>

-----------------------------------------------------------------------------
WorldStep(w) ==
  \/ \E n \in Names : CreateCharacter(w, n)
  \/ RequestObjectID(w)
  \/ HandleRequestPersistentIDResponse(w)
  \/ \E c \in charinfo, n \in Names : RenameCharacter(w, c, n)
  \/ SetCharacterName(w)
  \/ \E c \in charinfo : DeleteCharacter(w, c)
  \/ StartWorld(w)
  \/ StopWorld(w)
  \/ LoseLink(w)

MasterStep ==
  \/ Initialize
  \/ GeneratePersistentID
  \/ SaveToDatabase
  \/ SendPersistentIDResponse
  \/ CrashMaster
  \/ ShutdownSequence

Next == MasterStep \/ \E w \in Worlds : WorldStep(w)

(* The main loops of the master and of the worlds handle what has arrived, *)
(* a world's also when renames keep coming in between.                     *)
Fairness ==
  /\ WF_vars(GeneratePersistentID)
  /\ WF_vars(SaveToDatabase)
  /\ WF_vars(SendPersistentIDResponse)
  /\ \A w \in Worlds : SF_vars(HandleRequestPersistentIDResponse(w))
  /\ \A w \in Worlds : WF_vars(SetCharacterName(w))

Spec == Init /\ [][Next]_vars

FairSpec == Spec /\ Fairness

-----------------------------------------------------------------------------
(* No persistent id is ever given to two uses, through every crash of the  *)
(* master between taking an id and saving it: two objects under one id     *)
(* would overwrite each other's rows (PersistentIDManager.cpp:36-38).      *)
IdsUsedOnce == \A u, v \in uses : u.id = v.id => u = v

(* Every id that the database keeps, or that is on its way to be kept, is  *)
(* covered by the saved row, so that a restarted master starts above it:   *)
(* this is why the id is saved before the answer is sent                   *)
(* (PersistentIDManager.cpp:38 before MasterServer.cpp:484).               *)
TrackerCoversIds ==
  /\ \A c \in charinfo : c.id <= lastObjectId
  /\ \A u \in uses : u.id <= lastObjectId
  /\ \A m \in toWorld : m.objID <= lastObjectId

(* Two characters never have one name, although a name is looked up when   *)
(* the id is requested and taken when it arrives (UserManager.cpp:310-387):*)
(* it is the key of the table that sees to it.                             *)
NamesUnique == \A c, d \in charinfo : c.name = d.name => c = d

(* A request is given at most one id and shares it with no other, also     *)
(* when an answer reaches a later world at the same address.               *)
Ids == INSTANCE UniqueIds
ImplementsUniqueIds == Ids!Spec

(* The callback of a request that has reached the master runs, unless a    *)
(* process stops or a link is lost meanwhile: nothing is ever retried      *)
(* (ObjectIDManager.cpp:25), so nothing may be dropped on the way.         *)
Outstanding(w, id) == \E r \in Requests[w] : r.requestID = id

AtMaster(w, id) ==
  [world |-> w, life |-> life[w], requestID |-> id] \in toMaster \cup handling

RequestsAnswered ==
  \A w \in Worlds, id \in 1 .. MaxRequests, f \in 0 .. MaxFaults :
    AtMaster(w, id) /\ faults = f ~> ~Outstanding(w, id) \/ faults > f
=============================================================================
