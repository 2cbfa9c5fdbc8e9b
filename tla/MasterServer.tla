---------------------------- MODULE MasterServer ----------------------------
(***************************************************************************)
(* The master server of the emulator, the world server processes it        *)
(* starts, and the servers that ask it for zone transfers.                  *)
(*                                                                         *)
(* The master keeps one Instance object per world process                   *)
(* (dMasterServer/InstanceManager), handles one packet per frame            *)
(* (dMasterServer/MasterServer.cpp) and is single threaded.  What is        *)
(* concurrent is everything around it: world processes that start, become   *)
(* ready, fall idle, stop, crash or lose their connection, and the messages *)
(* under way between them and the master.                                  *)
(*                                                                         *)
(* An Instance object is named by its handle, the number of Instance        *)
(* objects created before it plus one.  m_Instances is only appended to and *)
(* erased from, so its order is the order of the handles and "the first     *)
(* element such that" is the least handle such that.  The process started  *)
(* for an Instance is named by the same number.                            *)
(***************************************************************************)
EXTENDS Integers, Sequences, FiniteSets, SequencesExt

CONSTANTS
  Requesters,          \* the servers that ask for transfers: auth, and worlds
  MaxRequestId,        \* bound on currentRequestID of each requester
  Zones,               \* the <<map, clone>> pairs players are sent to
  Passwords,           \* the passwords of private zones
  NoPassword,          \* the empty password of an Instance that is not private
  SoftCap,             \* population_soft_cap of each map
  BasePort,            \* world_port_start: m_LastPort, which never changes
  MaxInstances,        \* bound on the number of Instance objects ever created
  MaxWorldCrashes,     \* bound on world processes that die without a word
  MaxConnectionLosses, \* bound on connections lost while both ends live
  MaxMasterRestarts,   \* bound on crashes of the master, each with a restart
  MaxTimeouts,         \* bound on affirmations that time out
  MaxIdleWorlds,       \* bound on worlds that stop for want of players
  MaxCommands,         \* bound on slash commands that start worlds
  ReusedMemory,        \* may a new Instance get the memory of a deleted one?
  SignalsMaster        \* may the master be told to stop?

Requests   == Requesters \X (1..MaxRequestId)   \* PendingInstanceRequest
Handles    == 1..MaxInstances
NoHandle   == 0                                 \* nullptr
NoAddr     == 0                                 \* an address of nobody
Maps       == {z[1] : z \in Zones}
Clones     == {z[2] : z \in Zones} \cup {0}
CharSelect == 0                                 \* the character select map
InvalidInstanceId == 65535                      \* LWOINSTANCEID_INVALID
InstanceIds == 0..InvalidInstanceId             \* LWOINSTANCEID is a uint16_t
MaxCapAddedBack == 12
MaxCapPrivate   == 999
PortsPerInstance == 3

ASSUME ConstantsAssumption ==
  /\ MaxRequestId \in Nat
  /\ MaxInstances \in Nat
  /\ BasePort \in Nat \ {0}
  /\ Zones \subseteq Nat \X Nat /\ Zones # {}
  /\ SoftCap \in [Maps -> Nat \ {0}]
  /\ NoPassword \notin Passwords \cup Zones
  /\ Passwords \cap Zones = {}
  /\ MaxWorldCrashes \in Nat
  /\ MaxConnectionLosses \in Nat
  /\ MaxMasterRestarts \in Nat
  /\ MaxTimeouts \in Nat
  /\ MaxIdleWorlds \in Nat
  /\ MaxCommands \in Nat
  /\ ReusedMemory \in BOOLEAN
  /\ SignalsMaster \in BOOLEAN

VARIABLES
  master,           \* "running", "signalled", "stopping" or "down"
  m_Instances,      \* the handles of the live Instance objects
  inst,             \* the fields of each Instance object
  nextHandle,       \* the handle of the next Instance object
  m_LastInstanceID, \* the instance id given last
  nullInstance,     \* has a null Instance been dereferenced?
  world,            \* the world processes
  toMaster,         \* what each world process sent the master, in order
  toWorld,          \* what the master sent each world process, in order
  transfers,        \* transfer requests on their way to the master
  responses,        \* transfer responses on their way to a requester
  status,           \* each request: its life at the requester and its player
  target,           \* where each request wants to go: a zone or a password
  answer,           \* what the callback of each request was called with
  location,         \* the world process the player of a request is in
  ghosts,           \* history: the players each world process announced and
                    \* will never take back
  bounds            \* how much of each bounded kind may still happen

masterVars  == <<m_Instances, inst, nextHandle, m_LastInstanceID>>
requestVars == <<status, target, answer, location, ghosts>>
vars == <<master, masterVars, nullInstance, world, toMaster, toWorld,
          transfers, responses, requestVars, bounds>>

-----------------------------------------------------------------------------
(* The data the variables hold.                                            *)

Instance ==
  [map: Maps, clone: Clones, id: InstanceIds, port: Nat, softCap: Nat,
   password: Passwords \cup {NoPassword}, ready: BOOLEAN,
   isShuttingDown: BOOLEAN, timedOut: BOOLEAN, clients: Nat, addr: Nat,
   pendingRequests: Seq(Requests), pendingAffirmations: Seq(Requests)]

(* A world process: "starting" until it has bound its port and reached the *)
(* master, "up" in its main loop, "gone" when it has ended.  linked is      *)
(* mMasterConnectionActive, ready the local of its main loop that lets it   *)
(* send WORLD_READY once, signalled is lastSignal # 0.                      *)
WorldProcess ==
  [state: {"none", "starting", "up", "gone"}, linked: BOOLEAN, ready: BOOLEAN,
   signalled: BOOLEAN, map: Maps, clone: Clones, id: InstanceIds, port: Nat]

ToMasterMessage ==
  [type: {"SERVER_INFO", "WORLD_READY", "AFFIRM_TRANSFER_RESPONSE",
          "PLAYER_ADDED", "PLAYER_REMOVED", "SHUTDOWN_RESPONSE",
          "DISCONNECTED"},
   requestID: Nat]

ToWorldMessage ==
  [type: {"AFFIRM_TRANSFER_REQUEST", "SHUTDOWN"}, requestID: Nat]

Msg(type)             == [type |-> type, requestID |-> 0]
AffirmRequest(id)     == [type |-> "AFFIRM_TRANSFER_REQUEST", requestID |-> id]
AffirmResponse(id)    == [type |-> "AFFIRM_TRANSFER_RESPONSE", requestID |-> id]

(* What is left of what is bounded.                                         *)
Bounds == [crashes: Nat, losses: Nat, restarts: Nat, timeouts: Nat, idle: Nat,
           commands: Nat]

(* What REQUEST_ZONE_TRANSFER_RESPONSE says of the instance to go to.       *)
Answer == [map: Maps, clone: Clones, id: InstanceIds, port: Nat]

Response(q, i) ==
  [req |-> q, answer |-> [map |-> i.map, clone |-> i.clone,
                          id |-> i.id, port |-> i.port]]

NoAnswer == [map |-> 0, clone |-> 0, id |-> InvalidInstanceId, port |-> 0]

-----------------------------------------------------------------------------
(* InstanceManager's reading operations.                                   *)

ShouldShutdown == master # "running"

(* SetIsShuttingDown(true) of the instance manager and                      *)
(* shutdownSequenceStarted = true are consecutive statements.               *)
m_IsShuttingDown == master \in {"stopping", "down"}

IsPrivate(h) == inst[h].password # NoPassword

IsInstanceFull(h) == inst[h].softCap <= inst[h].clients

(* Mutant: an instance that shuts down is still found.                      *)
JoinableWhileShuttingDown(h, z) ==
  /\ inst[h].map = z[1]
  /\ inst[h].clone = z[2]
  /\ ~IsInstanceFull(h)
  /\ ~IsPrivate(h)

Joinable(h, z) ==
  /\ inst[h].map = z[1]
  /\ inst[h].clone = z[2]
  /\ ~IsInstanceFull(h)
  /\ ~IsPrivate(h)
  /\ ~inst[h].isShuttingDown

(* The first of a set of handles, or NoHandle.                              *)
First(S) == IF S = {} THEN NoHandle ELSE Min(S)

(* FindInstance(mapID, instanceID).                                         *)
FindInstanceById(map, id) ==
  First({h \in m_Instances : /\ inst[h].map = map
                             /\ inst[h].id = id
                             /\ ~IsPrivate(h)
                             /\ ~inst[h].isShuttingDown})

FindPrivateInstance(pw) ==
  First({h \in m_Instances : IsPrivate(h) /\ inst[h].password = pw})

GetInstanceBySysAddr(a) == First({h \in m_Instances : inst[h].addr = a})

(* Mutant: the ports of instances that are loading are overlooked.          *)
IsPortInUseByReady(p) ==
  \E h \in m_Instances : inst[h].port = p /\ inst[h].ready

IsPortInUse(p) == \E h \in m_Instances : inst[h].port = p

(* GetFreePort walks the sorted used ports while the k-th of them (counted  *)
(* from 0) is BasePort + 3k.  The k-th element of the sorted list is p when *)
(* at most k of its elements are below p and more than k are at most p.     *)
PortOf(k) == BasePort + PortsPerInstance * k

Below(p)  == Cardinality({h \in m_Instances : inst[h].port < p})
UpTo(p)   == Cardinality({h \in m_Instances : inst[h].port <= p})
IsKth(k, p) == Below(p) <= k /\ k < UpTo(p)

(* Mutant: as many ports up as there are instances.                         *)
GetFreePortByCount == PortOf(Cardinality(m_Instances))

GetFreePort ==
  PortOf(CHOOSE k \in 0..Cardinality(m_Instances) :
           /\ ~IsKth(k, PortOf(k))
           /\ \A j \in 0..(k - 1) : IsKth(j, PortOf(j)))

(* GetInstance(map, false, clone): the first joinable Instance other than   *)
(* the ones in X; a new one when there is none; nullptr while shutting down.*)
GetInstance(X, z) ==
  LET found == {h \in m_Instances \ X : Joinable(h, z)} IN
  IF found # {} THEN Min(found)
  ELSE IF m_IsShuttingDown THEN NoHandle ELSE nextHandle

-----------------------------------------------------------------------------
(* InstanceManager's writing operations.  A handler is a conjunction of     *)
(* them, one per group of variables.                                        *)

(* m_SysAddr of a new Instance is not initialised: with the memory of a     *)
(* deleted Instance comes its address.                                      *)
UninitialisedAddrs ==
  {NoAddr} \cup
  IF ReusedMemory
  THEN {inst[h].addr : h \in (1..(nextHandle - 1)) \ m_Instances}
  ELSE {}

(* Mutant: the instance id is wider than LWOINSTANCEID.                     *)
NextInstanceIdUnwrapped == m_LastInstanceID + 1

NextInstanceId == (m_LastInstanceID + 1) % (InvalidInstanceId + 1)

NewInstance(map, clone, id, port, cap, pw, addr) ==
  [map |-> map, clone |-> clone, id |-> id, port |-> port, softCap |-> cap,
   password |-> pw, ready |-> FALSE, isShuttingDown |-> FALSE,
   timedOut |-> FALSE, clients |-> 0, addr |-> addr,
   pendingRequests |-> <<>>, pendingAffirmations |-> <<>>]

StartedWorld(map, clone, id, port) ==
  [state |-> "starting", linked |-> FALSE, ready |-> FALSE,
   signalled |-> FALSE, map |-> map, clone |-> clone, id |-> id, port |-> port]

(* What GetInstance and CreatePrivateInstance write when they return h: if  *)
(* h is new, the counters and the process StartWorldServer starts.          *)
StartIfNew(h, z) ==
  IF h = nextHandle
  THEN /\ nextHandle' = nextHandle + 1
       /\ m_LastInstanceID' = NextInstanceId
       /\ world' = [world EXCEPT ![h] =
                      StartedWorld(z[1], z[2], NextInstanceId, GetFreePort)]
  ELSE UNCHANGED <<nextHandle, m_LastInstanceID, world>>

(* The Instance objects f after h was returned: if h is new, its fields.    *)
WithInstance(f, h, z, cap, pw, a) ==
  IF h = nextHandle
  THEN [f EXCEPT ![h] =
          NewInstance(z[1], z[2], NextInstanceId, GetFreePort, cap, pw, a)]
  ELSE f

SoftCapOf(map) == IF map = CharSelect THEN 999 ELSE SoftCap[map]

(* Mutant: requests wait in pendingRequests whatever the readiness.         *)
EnqueuedPending(f, h, reqs) == [f EXCEPT ![h].pendingRequests = @ \o reqs]

(* Hand requests to h: pending until it is ready (push to its               *)
(* pendingRequests), else awaiting its affirmation (RequestAffirmation).    *)
Enqueued(f, h, reqs) ==
  IF f[h].ready
  THEN [f EXCEPT ![h].pendingAffirmations = @ \o reqs]
  ELSE [f EXCEPT ![h].pendingRequests = @ \o reqs]

(* dServer::Send of messages to an address.                                 *)
SentTo(chan, a, msgs) ==
  [w \in Handles |-> IF world[w].linked /\ world[w].port = a
                     THEN chan[w] \o msgs
                     ELSE chan[w]]

(* Mutant: the requests redirected together are announced as one.           *)
AffirmRequestsFirst(reqs) == <<AffirmRequest(reqs[1][2])>>

AffirmRequests(reqs) == [i \in DOMAIN reqs |-> AffirmRequest(reqs[i][2])]

AffirmationsSent(chan, h, reqs) ==
  IF inst[h].ready
  THEN SentTo(chan, inst[h].addr, AffirmRequests(reqs))
  ELSE chan

(* GetInstance for zone z, then the requests handed to what it returned: a  *)
(* request just received, or RedirectPendingRequests, every iteration of    *)
(* whose loop finds the same instance.  X are the handles GetInstance skips *)
(* (shut down, or about to be erased), erased the ones RemoveInstance       *)
(* erases; f and chan are inst and toWorld as the caller left them.         *)
Dispatch(X, erased, z, reqs, f, chan) ==
  LET h == GetInstance(X, z) IN
  /\ h \in Handles \cup {NoHandle}
  /\ nullInstance' = (nullInstance \/ h = NoHandle)
  /\ StartIfNew(h, z)
  /\ IF h = NoHandle
     THEN /\ m_Instances' = m_Instances \ erased
          /\ inst' = f
          /\ toWorld' = chan
     ELSE /\ m_Instances' = (m_Instances \ erased) \cup {h}
          /\ \E a \in UninitialisedAddrs :
               inst' = Enqueued(
                 WithInstance(f, h, z, SoftCapOf(z[1]), NoPassword, a), h, reqs)
          /\ toWorld' = AffirmationsSent(chan, h, reqs)

(* Mutant: nothing is redirected.                                           *)
RemoveInstanceOnly(h) ==
  /\ m_Instances' = m_Instances \ {h}
  /\ UNCHANGED <<inst, nextHandle, m_LastInstanceID, nullInstance, world,
                 toWorld>>

(* Mutant: requests are redirected while the master stops, too.             *)
RemoveInstanceRedirecting(h) ==
  IF inst[h].pendingAffirmations = <<>>
  THEN RemoveInstanceOnly(h)
  ELSE Dispatch({h}, {h}, <<inst[h].map, inst[h].clone>>,
                inst[h].pendingAffirmations, inst, toWorld)

(* RemoveInstance: nothing is redirected once the master is to stop, and    *)
(* what waits in pendingRequests goes with the Instance.                    *)
RemoveInstance(h) ==
  IF ShouldShutdown \/ inst[h].pendingAffirmations = <<>>
  THEN /\ m_Instances' = m_Instances \ {h}
       /\ UNCHANGED <<inst, nextHandle, m_LastInstanceID, nullInstance,
                      world, toWorld>>
  ELSE Dispatch({h}, {h}, <<inst[h].map, inst[h].clone>>,
                inst[h].pendingAffirmations, inst, toWorld)

-----------------------------------------------------------------------------
(* HandlePacket: packets from requesters and from slash commands.           *)

Serving == master # "down"

HandleRequestZoneTransfer(t) ==
  /\ Serving
  /\ t.target \in Zones
  /\ transfers' = transfers \ {t}
  /\ IF m_IsShuttingDown
     THEN UNCHANGED <<masterVars, nullInstance, world, toWorld>>
     ELSE Dispatch({}, {}, t.target, <<t.req>>, inst, toWorld)
  /\ UNCHANGED <<master, toMaster, responses, requestVars, bounds>>

HandleRequestPrivateZone(t) ==
  /\ Serving
  /\ t.target \in Passwords
  /\ transfers' = transfers \ {t}
  /\ LET h == FindPrivateInstance(t.target) IN
     responses' = responses \cup
       IF h = NoHandle THEN {} ELSE {Response(t.req, inst[h])}
  /\ UNCHANGED <<master, masterVars, nullInstance, world, toMaster, toWorld,
                 requestVars, bounds>>

HandlePrepZone(map) ==
  LET z == <<map, 0>>
      h == GetInstance({}, z)
  IN
  /\ bounds.commands > 0
  /\ bounds' = [bounds EXCEPT !.commands = @ - 1]
  /\ Serving
  /\ ~m_IsShuttingDown
  /\ h \in Handles
  /\ m_Instances' = m_Instances \cup {h}
  /\ StartIfNew(h, z)
  /\ \E a \in UninitialisedAddrs :
       inst' = WithInstance(inst, h, z, SoftCapOf(map), NoPassword, a)
  /\ UNCHANGED <<master, nullInstance, toMaster, toWorld, transfers, responses,
                 requestVars>>

HandleCreatePrivateZone(z, pw) ==
  LET h == nextHandle IN
  /\ bounds.commands > 0
  /\ bounds' = [bounds EXCEPT !.commands = @ - 1]
  /\ Serving
  /\ FindPrivateInstance(pw) = NoHandle
  /\ ~m_IsShuttingDown
  /\ h \in Handles
  /\ m_Instances' = m_Instances \cup {h}
  /\ StartIfNew(h, z)
  /\ \E a \in UninitialisedAddrs :
       inst' = WithInstance(inst, h, z, MaxCapPrivate, pw, a)
  /\ UNCHANGED <<master, nullInstance, toMaster, toWorld, transfers, responses,
                 requestVars>>

-----------------------------------------------------------------------------
(* HandlePacket: packets from world processes.                              *)

Receive(w, type) ==
  /\ Serving
  /\ toMaster[w] # <<>>
  /\ Head(toMaster[w]).type = type
  /\ toMaster' = [toMaster EXCEPT ![w] = Tail(@)]
  /\ UNCHANGED <<master, transfers, requestVars, bounds>>

(* A world whose port is free is added back, as clone 0 and not ready; the  *)
(* process of an Instance tells the master its address.                     *)
HandleServerInfo(w) ==
  LET h == FindInstanceById(world[w].map, world[w].id) IN
  /\ Receive(w, "SERVER_INFO")
  /\ IF IsPortInUse(world[w].port)
     THEN /\ inst' = IF h = NoHandle THEN inst
                     ELSE [inst EXCEPT ![h].addr = world[w].port]
          /\ UNCHANGED <<m_Instances, nextHandle>>
     ELSE /\ nextHandle \in Handles
          /\ nextHandle' = nextHandle + 1
          /\ m_Instances' = m_Instances \cup {nextHandle}
          /\ inst' = [inst EXCEPT ![nextHandle] =
               NewInstance(world[w].map, 0, world[w].id, world[w].port,
                           MaxCapAddedBack, NoPassword, world[w].port)]
  /\ UNCHANGED <<m_LastInstanceID, nullInstance, world, toWorld, responses>>

(* ReadyInstance answers everything that was pending.                       *)
HandleWorldReady(w) ==
  LET h == FindInstanceById(world[w].map, world[w].id) IN
  /\ Receive(w, "WORLD_READY")
  /\ IF h = NoHandle
     THEN UNCHANGED <<inst, responses>>
     ELSE /\ inst' = [inst EXCEPT ![h].ready = TRUE,
                                  ![h].pendingRequests = <<>>]
          /\ responses' = responses \cup
               {Response(q, inst[h]) : q \in ToSet(inst[h].pendingRequests)}
  /\ UNCHANGED <<m_Instances, nextHandle, m_LastInstanceID, nullInstance,
                 world, toWorld>>

(* AffirmTransfer answers the first request with this id and forgets it.    *)
HandleAffirmTransferResponse(w) ==
  LET h  == GetInstanceBySysAddr(world[w].port)
      id == Head(toMaster[w]).requestID
      pending == inst[h].pendingAffirmations
      matches == {i \in DOMAIN pending : pending[i][2] = id}
      rest == RemoveAt(pending, Min(matches))
  IN
  /\ Receive(w, "AFFIRM_TRANSFER_RESPONSE")
  /\ IF h = NoHandle \/ matches = {}
     THEN UNCHANGED <<inst, responses>>
     ELSE /\ inst' = [inst EXCEPT
                        ![h].pendingAffirmations = rest,
                        ![h].timedOut = @ /\ rest # <<>>]
          /\ responses' = responses \cup
               {Response(pending[Min(matches)], inst[h])}
  /\ UNCHANGED <<m_Instances, nextHandle, m_LastInstanceID, nullInstance,
                 world, toWorld>>

(* Mutant: a player above the soft cap is not counted.                      *)
HandlePlayerAddedUnlessFull(w) ==
  LET h == FindInstanceById(world[w].map, world[w].id) IN
  /\ Receive(w, "PLAYER_ADDED")
  /\ inst' = IF h = NoHandle THEN inst
             ELSE IF IsInstanceFull(h) THEN inst
             ELSE [inst EXCEPT ![h].clients = @ + 1]
  /\ UNCHANGED <<m_Instances, nextHandle, m_LastInstanceID, nullInstance,
                 world, toWorld, responses>>

HandlePlayerAdded(w) ==
  LET h == FindInstanceById(world[w].map, world[w].id) IN
  /\ Receive(w, "PLAYER_ADDED")
  /\ inst' = IF h = NoHandle THEN inst
             ELSE [inst EXCEPT ![h].clients = @ + 1]
  /\ UNCHANGED <<m_Instances, nextHandle, m_LastInstanceID, nullInstance,
                 world, toWorld, responses>>

HandlePlayerRemoved(w) ==
  LET h == FindInstanceById(world[w].map, world[w].id) IN
  /\ Receive(w, "PLAYER_REMOVED")
  /\ inst' = IF h = NoHandle THEN inst
             ELSE [inst EXCEPT ![h].clients = IF @ = 0 THEN 0 ELSE @ - 1]
  /\ UNCHANGED <<m_Instances, nextHandle, m_LastInstanceID, nullInstance,
                 world, toWorld, responses>>

HandleShutdownResponse(w) ==
  LET h == GetInstanceBySysAddr(world[w].port) IN
  /\ Receive(w, "SHUTDOWN_RESPONSE")
  /\ inst' = IF h = NoHandle THEN inst
             ELSE [inst EXCEPT ![h].isShuttingDown = TRUE]
  /\ UNCHANGED <<m_Instances, nextHandle, m_LastInstanceID, nullInstance,
                 world, toWorld, responses>>

(* ID_DISCONNECTION_NOTIFICATION and ID_CONNECTION_LOST of a world.         *)
HandleDisconnected(w) ==
  LET h == GetInstanceBySysAddr(world[w].port) IN
  /\ Receive(w, "DISCONNECTED")
  /\ IF h = NoHandle
     THEN UNCHANGED <<masterVars, nullInstance, world, toWorld>>
     ELSE RemoveInstance(h)
  /\ UNCHANGED responses

HandleWorldPacket(w) ==
  \/ HandleServerInfo(w)
  \/ HandleWorldReady(w)
  \/ HandleAffirmTransferResponse(w)
  \/ HandlePlayerAdded(w)
  \/ HandlePlayerRemoved(w)
  \/ HandleShutdownResponse(w)
  \/ HandleDisconnected(w)

-----------------------------------------------------------------------------
(* The frame of the main loop, and the end of the master.                   *)

(* Affirmations were awaited for instanceReadyTimeout (30 seconds): the     *)
(* world is told to stop and its transfers go elsewhere.  They stay in      *)
(* pendingAffirmations, so a late answer or RemoveInstance finds them again.*)
AffirmationTimeout(h) ==
  LET f == [inst EXCEPT ![h].isShuttingDown = TRUE, ![h].timedOut = TRUE] IN
  /\ bounds.timeouts > 0
  /\ bounds' = [bounds EXCEPT !.timeouts = @ - 1]
  /\ master \in {"running", "signalled"}
  /\ h \in m_Instances
  /\ inst[h].pendingAffirmations # <<>>
  /\ ~inst[h].timedOut
  /\ Dispatch({h}, {}, <<inst[h].map, inst[h].clone>>,
              inst[h].pendingAffirmations, f,
              SentTo(toWorld, inst[h].addr, <<Msg("SHUTDOWN")>>))
  /\ UNCHANGED <<master, toMaster, transfers, responses, requestVars>>

(* lastSignal is set: by a signal, or 10 minutes after SHUTDOWN_UNIVERSE.   *)
(* The frame under way is finished before the main loop ends.               *)
OnSignal ==
  /\ SignalsMaster
  /\ master = "running"
  /\ master' = "signalled"
  /\ UNCHANGED <<masterVars, nullInstance, world, toMaster, toWorld, transfers,
                 responses, requestVars, bounds>>

(* ShutdownSequence up to its loop: SHUTDOWN is broadcast, what is not ready*)
(* is removed, the rest is marked.                                          *)
ShutdownSequence ==
  /\ master = "signalled"
  /\ master' = "stopping"
  /\ toWorld' = [w \in Handles |-> IF world[w].linked
                                   THEN Append(toWorld[w], Msg("SHUTDOWN"))
                                   ELSE toWorld[w]]
  /\ m_Instances' = {h \in m_Instances : inst[h].ready}
  /\ inst' = [h \in Handles |-> IF h \in m_Instances /\ inst[h].ready
                                THEN [inst[h] EXCEPT !.isShuttingDown = TRUE]
                                ELSE inst[h]]
  /\ UNCHANGED <<nextHandle, m_LastInstanceID, nullInstance, world, toMaster,
                 transfers, responses, requestVars, bounds>>

Unlinked == [w \in Handles |-> [world[w] EXCEPT !.linked = FALSE]]
NoMessages == [w \in Handles |-> <<>>]

(* FinalizeShutdown, once every instance is gone or 60 seconds are over.    *)
FinalizeShutdown ==
  /\ master = "stopping"
  /\ master' = "down"
  /\ m_Instances' = {}
  /\ world' = Unlinked
  /\ toMaster' = NoMessages
  /\ toWorld' = NoMessages
  /\ transfers' = {}
  /\ UNCHANGED <<inst, nextHandle, m_LastInstanceID, nullInstance, responses,
                 requestVars, bounds>>

(* Any member of Zones fills the fields nothing reads.                      *)
AnyZone == CHOOSE z \in Zones : TRUE
Blank == NewInstance(AnyZone[1], AnyZone[2], InvalidInstanceId, 0, 0,
                     NoPassword, NoAddr)
NoWorld == [StartedWorld(AnyZone[1], AnyZone[2], InvalidInstanceId, 0)
              EXCEPT !.state = "none"]

(* The master crashes and is started again, with nothing in its memory.     *)
MasterRestarts ==
  /\ bounds.restarts > 0
  /\ master = "running"
  /\ bounds' = [bounds EXCEPT !.restarts = @ - 1]
  /\ m_Instances' = {}
  /\ inst' = [h \in Handles |-> Blank]
  /\ m_LastInstanceID' = InvalidInstanceId
  /\ world' = Unlinked
  /\ toMaster' = NoMessages
  /\ toWorld' = NoMessages
  /\ transfers' = {}
  /\ UNCHANGED <<master, nextHandle, nullInstance, responses, requestVars>>

-----------------------------------------------------------------------------
(* The world processes.                                                     *)

ToMaster(w, msgs) ==
  toMaster' = IF world[w].linked
              THEN [toMaster EXCEPT ![w] = @ \o msgs]
              ELSE toMaster

PortBoundByAnother(w) ==
  \E v \in Handles \ {w} :
    world[v].state = "up" /\ world[v].port = world[w].port

(* dServer's constructor binds the port; the main loop connects and sends   *)
(* SERVER_INFO once the connection is accepted.                             *)
WorldStarts(w) ==
  /\ world[w].state = "starting"
  /\ Serving
  /\ ~PortBoundByAnother(w)
  /\ world' = [world EXCEPT ![w].state = "up", ![w].linked = TRUE]
  /\ toMaster' = [toMaster EXCEPT ![w] = Append(@, Msg("SERVER_INFO"))]
  /\ UNCHANGED <<master, masterVars, nullInstance, toWorld, transfers,
                 responses, requestVars, bounds>>

(* Its port is taken, or there is no master: it ends after 5 seconds.       *)
WorldFailsToStart(w) ==
  /\ world[w].state = "starting"
  /\ PortBoundByAnother(w) \/ ~Serving
  /\ world' = [world EXCEPT ![w].state = "gone"]
  /\ UNCHANGED <<master, masterVars, nullInstance, toMaster, toWorld,
                 transfers, responses, requestVars, bounds>>

WorldReconnects(w) ==
  /\ world[w].state = "up"
  /\ ~world[w].linked
  /\ ~world[w].signalled
  /\ Serving
  /\ world' = [world EXCEPT ![w].linked = TRUE]
  /\ toMaster' = [toMaster EXCEPT ![w] = Append(@, Msg("SERVER_INFO"))]
  /\ UNCHANGED <<master, masterVars, nullInstance, toWorld, transfers,
                 responses, requestVars, bounds>>

(* 200 frames with a master: WORLD_READY, once in the life of the process.  *)
WorldBecomesReady(w) ==
  /\ world[w].state = "up"
  /\ world[w].linked
  /\ ~world[w].ready
  /\ world' = [world EXCEPT ![w].ready = TRUE]
  /\ toMaster' = [toMaster EXCEPT ![w] = Append(@, Msg("WORLD_READY"))]
  /\ UNCHANGED <<master, masterVars, nullInstance, toWorld, transfers,
                 responses, requestVars, bounds>>

(* The world reads one packet from the master per frame; the frame in which *)
(* it is signalled is its last.                                             *)
WorldReads(w, type) ==
  /\ world[w].state = "up"
  /\ ~world[w].signalled
  /\ toWorld[w] # <<>>
  /\ Head(toWorld[w]).type = type
  /\ toWorld' = [toWorld EXCEPT ![w] = Tail(@)]
  /\ UNCHANGED <<master, masterVars, nullInstance, transfers, responses,
                 requestVars, bounds>>

WorldAffirms(w) ==
  /\ WorldReads(w, "AFFIRM_TRANSFER_REQUEST")
  /\ ToMaster(w, <<AffirmResponse(Head(toWorld[w]).requestID)>>)
  /\ UNCHANGED world

WorldReceivesShutdown(w) ==
  /\ WorldReads(w, "SHUTDOWN")
  /\ world' = [world EXCEPT ![w].signalled = TRUE]
  /\ UNCHANGED toMaster

SignalsItself(w) ==
  /\ world[w].state = "up"
  /\ ~world[w].signalled
  /\ world' = [world EXCEPT ![w].signalled = TRUE]
  /\ UNCHANGED <<master, masterVars, nullInstance, toMaster, toWorld,
                 transfers, responses, requestVars>>

(* Nobody in the world for emptyShutdownTime: 30 minutes, 5 in a clone.  A  *)
(* world is ready long before.                                              *)
WorldFallsIdle(w) ==
  /\ bounds.idle > 0
  /\ bounds' = [bounds EXCEPT !.idle = @ - 1]
  /\ world[w].ready
  /\ world[w].map # CharSelect
  /\ \A q \in Requests : location[q] # w
  /\ SignalsItself(w)

(* Mutant: a world that is not ready does not miss its master.              *)
WorldMissesMasterOnceReady(w) ==
  /\ ~world[w].linked
  /\ world[w].ready
  /\ SignalsItself(w)
  /\ UNCHANGED bounds

(* No connection to the master for 5 seconds.                               *)
WorldMissesMaster(w) ==
  /\ ~world[w].linked
  /\ SignalsItself(w)
  /\ UNCHANGED bounds

Gone(w) ==
  /\ world' = [world EXCEPT ![w].state = "gone", ![w].linked = FALSE]
  /\ toWorld' = [toWorld EXCEPT ![w] = <<>>]
  /\ status' = [q \in Requests |->
                  IF location[q] = w THEN "left" ELSE status[q]]
  /\ location' = [q \in Requests |->
                    IF location[q] = w THEN 0 ELSE location[q]]
  /\ UNCHANGED <<target, answer, ghosts>>

(* WorldShutdownProcess: players are disconnected, the master is told, and  *)
(* the process ends, which closes its connection.                           *)
WorldExits(w) ==
  /\ world[w].state = "up"
  /\ world[w].signalled
  /\ Gone(w)
  /\ ToMaster(w, <<Msg("SHUTDOWN_RESPONSE"), Msg("DISCONNECTED")>>)
  /\ UNCHANGED <<master, masterVars, nullInstance, transfers, responses,
                 bounds>>

(* A connection is cut: some prefix of what was sent arrives, then the      *)
(* master notices.                                                          *)
CutOff(w) ==
  \E n \in 0..Len(toMaster[w]) :
    toMaster' = [toMaster EXCEPT ![w] =
                   Append(SubSeq(@, 1, n), Msg("DISCONNECTED"))]

WorldCrashes(w) ==
  /\ bounds.crashes > 0
  /\ bounds' = [bounds EXCEPT !.crashes = @ - 1]
  /\ world[w].state \in {"starting", "up"}
  /\ Gone(w)
  /\ IF world[w].linked THEN CutOff(w) ELSE UNCHANGED toMaster
  /\ UNCHANGED <<master, masterVars, nullInstance, transfers, responses>>

ConnectionLost(w) ==
  /\ bounds.losses > 0
  /\ bounds' = [bounds EXCEPT !.losses = @ - 1]
  /\ world[w].linked
  /\ world' = [world EXCEPT ![w].linked = FALSE]
  /\ toWorld' = [toWorld EXCEPT ![w] = <<>>]
  /\ CutOff(w)
  /\ UNCHANGED <<master, masterVars, nullInstance, transfers, responses,
                 requestVars>>

WorldProcessStep(w) ==
  \/ WorldStarts(w)
  \/ WorldFailsToStart(w)
  \/ WorldReconnects(w)
  \/ WorldBecomesReady(w)
  \/ WorldAffirms(w)
  \/ WorldReceivesShutdown(w)
  \/ WorldMissesMaster(w)
  \/ WorldExits(w)

-----------------------------------------------------------------------------
(* The requesters (dNet/ZoneInstanceManager) and the players they send.     *)

(* currentRequestID only grows, and a request is put on the list before it  *)
(* is sent.  Without a master the message is lost.                          *)
RequestTransfer(q, t) ==
  /\ status[q] = "idle"
  /\ \A i \in 1..(q[2] - 1) : status[<<q[1], i>>] # "idle"
  /\ status' = [status EXCEPT ![q] = "waiting"]
  /\ target' = [target EXCEPT ![q] = t]
  /\ transfers' = IF Serving THEN transfers \cup {[req |-> q, target |-> t]}
                  ELSE transfers
  /\ UNCHANGED <<master, masterVars, nullInstance, world, toMaster, toWorld,
                 responses, answer, location, ghosts, bounds>>

(* Mutant: a response is taken whether or not the request waits for it.     *)
HandleTransferResponseTwice(m) ==
  /\ responses' = responses \ {m}
  /\ status' = [status EXCEPT ![m.req] = "answered"]
  /\ answer' = [answer EXCEPT ![m.req] = m.answer]
  /\ UNCHANGED <<master, masterVars, nullInstance, world, toMaster, toWorld,
                 transfers, target, location, ghosts, bounds>>

(* The callback is called and the request forgotten; a response to a        *)
(* request that is not on the list is ignored.                              *)
HandleTransferResponse(m) ==
  /\ responses' = responses \ {m}
  /\ IF status[m.req] = "waiting"
     THEN /\ status' = [status EXCEPT ![m.req] = "answered"]
          /\ answer' = [answer EXCEPT ![m.req] = m.answer]
     ELSE UNCHANGED <<status, answer>>
  /\ UNCHANGED <<master, masterVars, nullInstance, world, toMaster, toWorld,
                 transfers, target, location, ghosts, bounds>>

(* The player follows the answer and its session key is confirmed.  A       *)
(* client that has disconnected by then had no user yet when it did: it is  *)
(* announced like any other, and its departure is not.                      *)
PlayerJoins(q, w, connected) ==
  /\ status[q] = "answered"
  /\ world[w].state = "up"
  /\ world[w].linked
  /\ ~world[w].signalled
  /\ world[w].port = answer[q].port
  /\ IF connected
     THEN /\ status' = [status EXCEPT ![q] = "playing"]
          /\ location' = [location EXCEPT ![q] = w]
          /\ UNCHANGED ghosts
     ELSE /\ status' = [status EXCEPT ![q] = "left"]
          /\ ghosts' = [ghosts EXCEPT ![w] = @ + 1]
          /\ UNCHANGED location
  /\ ToMaster(w, <<Msg("PLAYER_ADDED")>>)
  /\ UNCHANGED <<master, masterVars, nullInstance, world, toWorld, transfers,
                 responses, target, answer, bounds>>

(* The player disconnects.  A user without a last used character, which may *)
(* be deleted in any world, goes without PLAYER_REMOVED.                    *)
PlayerLeaves(q, hasCharacter) ==
  /\ status[q] = "playing"
  /\ status' = [status EXCEPT ![q] = "left"]
  /\ location' = [location EXCEPT ![q] = 0]
  /\ IF hasCharacter
     THEN /\ ToMaster(location[q], <<Msg("PLAYER_REMOVED")>>)
          /\ UNCHANGED ghosts
     ELSE /\ ghosts' = [ghosts EXCEPT ![location[q]] = @ + 1]
          /\ UNCHANGED toMaster
  /\ UNCHANGED <<master, masterVars, nullInstance, world, toWorld, transfers,
                 responses, target, answer, bounds>>

-----------------------------------------------------------------------------
Init ==
  /\ master = "running"
  /\ m_Instances = {}
  /\ inst = [h \in Handles |-> Blank]
  /\ nextHandle = 1
  /\ m_LastInstanceID = InvalidInstanceId
  /\ nullInstance = FALSE
  /\ world = [w \in Handles |-> NoWorld]
  /\ toMaster = NoMessages
  /\ toWorld = NoMessages
  /\ transfers = {}
  /\ responses = {}
  /\ status = [q \in Requests |-> "idle"]
  /\ target = [q \in Requests |-> NoPassword]
  /\ answer = [q \in Requests |-> NoAnswer]
  /\ location = [q \in Requests |-> 0]
  /\ ghosts = [w \in Handles |-> 0]
  /\ bounds = [crashes |-> MaxWorldCrashes, losses |-> MaxConnectionLosses,
               restarts |-> MaxMasterRestarts, timeouts |-> MaxTimeouts,
               idle |-> MaxIdleWorlds, commands |-> MaxCommands]

MasterStep ==
  \/ \E t \in transfers : \/ HandleRequestZoneTransfer(t)
                          \/ HandleRequestPrivateZone(t)
  \/ \E w \in Handles : HandleWorldPacket(w)
  \/ ShutdownSequence
  \/ FinalizeShutdown

TimerStep ==
  \E h \in Handles : AffirmationTimeout(h) \/ WorldFallsIdle(h)

CommandStep ==
  \/ \E map \in Maps : HandlePrepZone(map)
  \/ \E z \in Zones, pw \in Passwords : HandleCreatePrivateZone(z, pw)
  \/ OnSignal

RequesterStep ==
  \/ \E q \in Requests, t \in Zones \cup Passwords : RequestTransfer(q, t)
  \/ \E m \in responses : HandleTransferResponse(m)

PlayerStep ==
  \/ \E q \in Requests, w \in Handles, c \in BOOLEAN : PlayerJoins(q, w, c)
  \/ \E q \in Requests, c \in BOOLEAN : PlayerLeaves(q, c)

FaultStep ==
  \/ \E w \in Handles : WorldCrashes(w) \/ ConnectionLost(w)
  \/ MasterRestarts

Next ==
  \/ MasterStep
  \/ TimerStep
  \/ CommandStep
  \/ \E w \in Handles : WorldProcessStep(w)
  \/ RequesterStep
  \/ PlayerStep
  \/ FaultStep

Spec == Init /\ [][Next]_vars

-----------------------------------------------------------------------------
(* The master, every world process and every requester go on with their     *)
(* loops: each handles a packet per frame, over reliable, ordered links.    *)
(* Nothing is assumed of commands, players, timers, idle worlds and faults. *)
Fairness ==
  /\ WF_vars(MasterStep)
  /\ \A w \in Handles : WF_vars(WorldProcessStep(w))
  /\ WF_vars(\E m \in responses : HandleTransferResponse(m))

FairSpec == Spec /\ Fairness

-----------------------------------------------------------------------------
(* Properties.                                                              *)

MasterTypes ==
  /\ master \in {"running", "signalled", "stopping", "down"}
  /\ m_Instances \subseteq Handles \cap (1..(nextHandle - 1))
  /\ inst \in [Handles -> Instance]
  /\ nextHandle \in 1..(MaxInstances + 1)
  /\ m_LastInstanceID \in InstanceIds
  /\ nullInstance \in BOOLEAN

ProcessTypes ==
  /\ world \in [Handles -> WorldProcess]
  /\ toMaster \in [Handles -> Seq(ToMasterMessage)]
  /\ toWorld \in [Handles -> Seq(ToWorldMessage)]
  /\ bounds \in Bounds

RequestTypes ==
  /\ transfers \subseteq [req: Requests, target: Zones \cup Passwords]
  /\ responses \subseteq [req: Requests, answer: Answer]
  /\ status \in [Requests -> {"idle", "waiting", "answered", "playing", "left"}]
  /\ target \in [Requests -> Zones \cup Passwords \cup {NoPassword}]
  /\ answer \in [Requests -> Answer \cup {NoAnswer}]
  /\ location \in [Requests -> {0} \cup Handles]
  /\ ghosts \in [Handles -> Nat]

(* Type invariant: what the master, the processes and the requesters keep   *)
(* has its type, instance ids stay within their 16 bits, and a live         *)
(* Instance has been created.                                               *)
TypeOK == MasterTypes /\ ProcessTypes /\ RequestTypes

(* A request never waits in the wrong list: for readiness at an instance    *)
(* that is ready (nobody would answer it: ReadyInstance runs once), or for  *)
(* an affirmation from one that is not.                                     *)
PendingMatchesReadiness ==
  \A h \in m_Instances :
    /\ inst[h].ready => inst[h].pendingRequests = <<>>
    /\ ~inst[h].ready => inst[h].pendingAffirmations = <<>>

(* GetFreePort and the SERVER_INFO handler between them never let two       *)
(* Instance objects have the same port, worlds of an earlier master that    *)
(* come back included.                                                      *)
DistinctPorts ==
  \A g, h \in m_Instances : g # h => inst[g].port # inst[h].port

(* The nullptr GetInstance returns while shutting down never reaches        *)
(* RequestAffirmation, which dereferences it: the guards on                 *)
(* shutdownSequenceStarted and ShouldShutdown exclude every such call.      *)
NoNullInstance == ~nullInstance

(* An instance that shuts down gets no more requests and no more players.   *)
NoNewWorkWhenShuttingDown ==
  [][\A h \in m_Instances \cap m_Instances' :
       inst[h].isShuttingDown =>
         /\ Len(inst'[h].pendingRequests) <= Len(inst[h].pendingRequests)
         /\ Len(inst'[h].pendingAffirmations) <=
              Len(inst[h].pendingAffirmations)
         /\ inst'[h].clients = inst[h].clients]_vars

(* While one master runs, a map and an instance id name one Instance: the   *)
(* packets of a world reach its own.                                        *)
InstanceKeysUnique ==
  \A g, h \in m_Instances :
    inst[g].map = inst[h].map /\ inst[g].id = inst[h].id => g = h

InFlight(chan, type) == Cardinality({i \in DOMAIN chan : chan[i].type = type})

(* The client count GetInstance compares with the soft cap is what the      *)
(* world has and the players it announced without ever taking them back,    *)
(* allowing for the messages under way: no other player is lost or counted  *)
(* twice.                                                                   *)
ClientsCounted ==
  \A h \in m_Instances :
    LET counted == inst[h].clients + InFlight(toMaster[h], "PLAYER_ADDED")
        present == Cardinality({q \in Requests : location[q] = h})
                   + InFlight(toMaster[h], "PLAYER_REMOVED")
    IN (world[h].linked /\ ~IsPrivate(h) /\ ~inst[h].isShuttingDown) =>
         counted = present + ghosts[h]

Count(S(_), n) == Cardinality({i \in 1..n : S(i)})

(* Every awaited affirmation is on its way to the world or back, one for    *)
(* one, redirected duplicates and equal ids of two requesters included: no  *)
(* request waits for an answer that was never asked for, and no answer is   *)
(* for a request that is not there.                                         *)
AffirmationsUnderWay ==
  \A h \in m_Instances, id \in 1..MaxRequestId :
    world[h].linked =>
      Count(LAMBDA i : inst[h].pendingAffirmations[i][2] = id,
            Len(inst[h].pendingAffirmations))
      = Count(LAMBDA i : toWorld[h][i] = AffirmRequest(id), Len(toWorld[h]))
        + Count(LAMBDA i : toMaster[h][i] = AffirmResponse(id),
                Len(toMaster[h]))

(* Without faults a request for a public zone is never lost: while its      *)
(* requester waits, it is on its way to the master, in a list of a live     *)
(* Instance, or answered.                                                   *)
NoRequestLost ==
  \A q \in Requests :
    status[q] = "waiting" /\ target[q] \in Zones =>
      \/ \E t \in transfers : t.req = q
      \/ \E m \in responses : m.req = q
      \/ \E h \in m_Instances :
           q \in ToSet(inst[h].pendingRequests) \cup
                 ToSet(inst[h].pendingAffirmations)

(* Without faults every transfer to a public zone is answered in the end,   *)
(* unless the master is told to stop.                                       *)
EveryTransferAnswered ==
  \A q \in Requests :
    status[q] = "waiting" /\ target[q] \in Zones
      ~> status[q] # "waiting" \/ ShouldShutdown

(* Once the master stops, every world process ends, also those that were    *)
(* still starting when SHUTDOWN was broadcast.                              *)
ShutdownReachesWorlds ==
  (master = "stopping") ~>
    (\A w \in Handles : world[w].state \in {"none", "gone"})

(* "We'll just delete it as we'll start a new one anyway if needed": when a *)
(* world disconnects, the Instance it was started for goes.                 *)
DisconnectDeletesInstance ==
  [][\A w \in Handles :
       HandleDisconnected(w) /\ w \in m_Instances => w \notin m_Instances']_vars

(* SERVER_INFO "allows us to add World servers back if master crashed": a   *)
(* world that said it is ready, and has nothing more to say, is ready in    *)
(* the eyes of the master it is connected to.                               *)
ReadyWorldsAreReady ==
  \A w \in Handles, h \in m_Instances :
    (/\ world[w].linked
     /\ world[w].ready
     /\ toMaster[w] = <<>>
     /\ inst[h].port = world[w].port
     /\ ~IsPrivate(h)
     /\ ~inst[h].isShuttingDown) => inst[h].ready

(* The promise of ZoneTransfer: every callback is called at most once, with *)
(* a world process of the zone asked for that has finished loading.  It is  *)
(* made of public zones; a private zone is answered before it is ready.     *)
Key(p) == [map |-> p.map, clone |-> p.clone, id |-> p.id, port |-> p.port]

Promise == INSTANCE ZoneTransfer WITH
  Targets  <- Zones \cup Passwords,
  Answers  <- Answer,
  Unset    <- NoPassword,
  status   <- [q \in Requests |-> IF status[q] \in {"playing", "left"}
                                  THEN "answered" ELSE status[q]],
  loaded   <- {Key(world[w]) : w \in {v \in Handles : world[v].ready}}

TransfersKeepPromise == Promise!Spec
=============================================================================
