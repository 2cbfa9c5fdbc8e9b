------------------------ MODULE MasterServer_proofs ------------------------
(***************************************************************************)
(* Theorems about MasterServer, for every value of its constants: the state *)
(* stays well typed, and what the Instance objects of the master keep to.   *)
(* Evolution says what one step may do to an Instance, NamesEvolve which    *)
(* names it may give; the safety properties about Instances follow.  The    *)
(* second half is about transfers while nothing fails (NothingFails).       *)
(***************************************************************************)
EXTENDS MasterServer, FiniteSetTheorems, SequenceTheorems,
        WellFoundedInduction, FiniteData, TLAPS

-----------------------------------------------------------------------------
(* Least elements of sets of natural numbers.                               *)

LEMMA MinOfNats ==
  ASSUME NEW S \in SUBSET Nat, S # {}
  PROVE  /\ Min(S) \in S
         /\ \A y \in S : Min(S) <= y
PROOF
<1> DEFINE R == OpToRel(<, Nat)
<1>1. PICK x \in S : \A y \in S : ~(<<y, x>> \in R)
  <2>1. IsWellFoundedOn(R, Nat)
    BY NatLessThanWellFounded
  <2> HIDE DEF R
  <2> QED
    BY <2>1, WFMin
<1>2. \A y \in S : <<y, x>> \in R <=> y < x
  BY DEF OpToRel
<1>3. ASSUME NEW y \in S PROVE x <= y
  <2> HIDE DEF R
  <2>1. x \in Nat /\ y \in Nat
    OBVIOUS
  <2>2. ~(y < x)
    BY <1>1, <1>2
  <2> QED
    BY <2>1, <2>2
<1> QED
  BY <1>3 DEF Min

(* First(S) is nobody or the least handle of S.                             *)
LEMMA FirstOfHandles ==
  ASSUME NEW S \in SUBSET Handles, MaxInstances \in Nat
  PROVE  \/ First(S) = NoHandle
         \/ First(S) \in S
PROOF
<1>1. S \in SUBSET Nat
  BY DEF Handles
<1> QED
  BY <1>1, MinOfNats DEF First
-----------------------------------------------------------------------------
(* GetFreePort.                                                             *)

(* The ports that may ever be given to an Instance.                         *)
Grid == {PortOf(k) : k \in 0..MaxInstances}

(* What the lemmas about ports need to know of a state.                     *)
PortsKnown ==
  /\ MaxInstances \in Nat
  /\ BasePort \in Nat
  /\ m_Instances \in SUBSET Handles
  /\ \A h \in m_Instances : inst[h].port \in Nat

(* The counts of used ports are natural numbers, and count what they say.   *)
LEMMA PortCounts ==
  ASSUME PortsKnown
  PROVE  /\ IsFiniteSet(m_Instances)
         /\ Cardinality(m_Instances) \in 0..MaxInstances
         /\ \A p : /\ Below(p) \in Nat
                   /\ UpTo(p) \in Nat
                   /\ UpTo(p) <= Cardinality(m_Instances)
PROOF
<1>1. /\ IsFiniteSet(Handles)
      /\ Cardinality(Handles) = MaxInstances
  BY FS_Interval DEF Handles, PortsKnown
<1>2. /\ IsFiniteSet(m_Instances)
      /\ Cardinality(m_Instances) <= MaxInstances
  BY <1>1, FS_Subset DEF PortsKnown
<1>3. Cardinality(m_Instances) \in Nat
  BY <1>2, FS_CardinalityType
<1>4. ASSUME NEW p
      PROVE  /\ Below(p) \in Nat
             /\ UpTo(p) \in Nat
             /\ UpTo(p) <= Cardinality(m_Instances)
  <2> DEFINE B == {h \in m_Instances : inst[h].port < p}
             U == {h \in m_Instances : inst[h].port <= p}
  <2>1. B \in SUBSET m_Instances /\ U \in SUBSET m_Instances
    OBVIOUS
  <2> HIDE DEF B, U
  <2>2. /\ IsFiniteSet(B) /\ IsFiniteSet(U)
        /\ Cardinality(U) <= Cardinality(m_Instances)
    BY <1>2, <2>1, FS_Subset
  <2>3. Cardinality(B) \in Nat /\ Cardinality(U) \in Nat
    BY <2>2, FS_CardinalityType
  <2> QED
    BY <2>2, <2>3 DEF Below, UpTo, B, U
<1> QED
  BY <1>2, <1>3, <1>4 DEF PortsKnown

(* The walk of GetFreePort ends at some k: all ports before PortOf(k) are   *)
(* the used ports in their order, PortOf(k) is not the next one.            *)
LEMMA FreePortFound ==
  ASSUME PortsKnown
  PROVE  \E k \in 0..MaxInstances :
           /\ GetFreePort = PortOf(k)
           /\ ~IsKth(k, PortOf(k))
           /\ \A j \in 0..(k - 1) : IsKth(j, PortOf(j))
PROOF
<1> DEFINE n == Cardinality(m_Instances)
           Stops(k) == /\ ~IsKth(k, PortOf(k))
                       /\ \A j \in 0..(k - 1) : IsKth(j, PortOf(j))
           Bad == {k \in 0..n : ~IsKth(k, PortOf(k))}
<1>1. /\ n \in 0..MaxInstances
      /\ UpTo(PortOf(n)) \in Nat
      /\ UpTo(PortOf(n)) <= n
      /\ MaxInstances \in Nat
  BY PortCounts DEF PortsKnown
<1> HIDE DEF n
<1>2. n \in Bad
  BY <1>1 DEF IsKth
<1>3. Bad \in SUBSET Nat
  BY <1>1
<1>4. /\ Min(Bad) \in Bad
      /\ \A y \in Bad : Min(Bad) <= y
  <2> HIDE DEF Bad
  <2> QED
    BY <1>2, <1>3, MinOfNats
<1>5. \E k \in 0..n : Stops(k)
  <2>1. Min(Bad) \in 0..n /\ ~IsKth(Min(Bad), PortOf(Min(Bad)))
    BY <1>4
  <2>2. ASSUME NEW j \in 0..(Min(Bad) - 1)
        PROVE  IsKth(j, PortOf(j))
    <3>1. j \in 0..n /\ ~(Min(Bad) <= j)
      BY <1>1, <2>1
    <3> QED
      BY <1>4, <3>1
  <2> QED
    BY <2>1, <2>2
<1> DEFINE found == CHOOSE k \in 0..n : Stops(k)
<1>6. found \in 0..n /\ Stops(found)
  <2> HIDE DEF Stops
  <2> QED
    BY <1>5
<1>7. GetFreePort = PortOf(found)
  BY DEF GetFreePort, n
<1> HIDE DEF found
<1> QED
  BY <1>1, <1>6, <1>7

(* Type of a free port.                                                     *)
LEMMA FreePortType ==
  ASSUME PortsKnown
  PROVE  GetFreePort \in Nat /\ GetFreePort \in Grid
PROOF
<1>1. PICK k \in 0..MaxInstances : GetFreePort = PortOf(k)
  BY FreePortFound
<1>2. PortOf(k) \in Nat
  BY DEF PortOf, PortsPerInstance, PortsKnown
<1> QED
  BY <1>1, <1>2 DEF Grid

(* A port with an instance is counted by UpTo and not by Below.             *)
LEMMA UsedPortCounts ==
  ASSUME PortsKnown, NEW g \in m_Instances
  PROVE  Below(inst[g].port) < UpTo(inst[g].port)
PROOF
<1> DEFINE B == {h \in m_Instances : inst[h].port < inst[g].port}
           U == {h \in m_Instances : inst[h].port <= inst[g].port}
<1>1. /\ B \in SUBSET m_Instances
      /\ U \in SUBSET m_Instances
      /\ B \cup {g} \in SUBSET U
      /\ g \notin B
  BY DEF PortsKnown
<1> HIDE DEF B, U
<1>2. IsFiniteSet(B) /\ IsFiniteSet(U)
  BY <1>1, PortCounts, FS_Subset
<1>3. Cardinality(B \cup {g}) = Cardinality(B) + 1
  BY <1>1, <1>2, FS_AddElement
<1>4. Cardinality(B \cup {g}) <= Cardinality(U)
  BY <1>1, <1>2, FS_Subset
<1>5. Cardinality(B) \in Nat /\ Cardinality(U) \in Nat
  BY <1>2, FS_CardinalityType
<1>6. Cardinality(B) < Cardinality(U)
  BY <1>3, <1>4, <1>5
<1> QED
  BY <1>6 DEF Below, UpTo, B, U

(* When the instances have distinct ports of the grid, at most k of them    *)
(* are below the k-th port.                                                 *)
LEMMA BelowAtMost ==
  ASSUME PortsKnown, DistinctPorts,
         \A h \in m_Instances : inst[h].port \in Grid,
         NEW k \in 0..MaxInstances
  PROVE  Below(PortOf(k)) <= k
PROOF
<1> DEFINE B == {h \in m_Instances : inst[h].port < PortOf(k)}
           T == 0..(k - 1)
           f == [h \in B |-> CHOOSE i \in T : inst[h].port = PortOf(i)]
<1>1. ASSUME NEW h \in B
      PROVE  f[h] \in T /\ inst[h].port = PortOf(f[h])
  <2>1. PICK i \in 0..MaxInstances : inst[h].port = PortOf(i)
    BY DEF Grid
  <2>2. i \in T
    BY <2>1 DEF PortOf, PortsPerInstance, PortsKnown
  <2> QED
    BY <2>1, <2>2
<1>2. f \in Injection(B, T)
  <2>1. f \in [B -> T]
    BY <1>1
  <2>2. ASSUME NEW g \in B, NEW h \in B, f[g] = f[h]
        PROVE  g = h
    BY <1>1, <2>2 DEF DistinctPorts
  <2> HIDE DEF f
  <2> QED
    BY <2>1, <2>2 DEF Injection, IsInjective
<1>3. IsFiniteSet(T) /\ Cardinality(T) = k
  BY FS_Interval DEF PortsKnown
<1> HIDE DEF B, T, f
<1>4. Cardinality(B) <= k
  BY <1>2, <1>3, FS_Injection
<1> QED
  BY <1>4 DEF B, Below

(* GetFreePort returns a port no instance uses.                             *)
LEMMA FreePortUnused ==
  ASSUME PortsKnown, DistinctPorts,
         \A h \in m_Instances : inst[h].port \in Grid
  PROVE  ~IsPortInUse(GetFreePort)
PROOF
<1>1. PICK k \in 0..MaxInstances :
        /\ GetFreePort = PortOf(k)
        /\ ~IsKth(k, PortOf(k))
        /\ \A j \in 0..(k - 1) : IsKth(j, PortOf(j))
  BY FreePortFound
<1> SUFFICES ASSUME IsPortInUse(GetFreePort) PROVE FALSE
  OBVIOUS
<1>2. PICK g \in m_Instances : inst[g].port = PortOf(k)
  BY <1>1 DEF IsPortInUse
<1>3. Below(PortOf(k)) < UpTo(PortOf(k))
  BY <1>2, UsedPortCounts
<1>4. Below(PortOf(k)) <= k
  BY BelowAtMost
<1>5. k <= Below(PortOf(k))
  <2>1. CASE k = 0
    BY <2>1, PortCounts
  <2>2. CASE k # 0
    <3>1. k - 1 \in 0..(k - 1)
      BY <2>2 DEF PortsKnown
    <3>2. k - 1 < UpTo(PortOf(k - 1))
      BY <1>1, <3>1 DEF IsKth
    <3>3. UpTo(PortOf(k - 1)) <= Below(PortOf(k))
      <4> DEFINE U == {h \in m_Instances : inst[h].port <= PortOf(k - 1)}
                 B == {h \in m_Instances : inst[h].port < PortOf(k)}
      <4>1. U \in SUBSET B /\ B \in SUBSET m_Instances
        BY DEF PortOf, PortsPerInstance, PortsKnown
      <4> HIDE DEF U, B
      <4>2. Cardinality(U) <= Cardinality(B)
        BY <4>1, PortCounts, FS_Subset
      <4> QED
        BY <4>2 DEF U, B, UpTo, Below
    <3> QED
      BY <3>2, <3>3, PortCounts DEF PortsKnown
  <2> QED
    BY <2>1, <2>2
<1>6. IsKth(k, PortOf(k))
  BY <1>3, <1>4, <1>5, PortCounts DEF IsKth, PortsKnown
<1> QED
  BY <1>1, <1>6

-----------------------------------------------------------------------------
(* Types of the data the operations build.                                  *)

LEMMA NewInstanceType ==
  ASSUME NEW map \in Maps, NEW clone \in Clones, NEW id \in InstanceIds,
         NEW port \in Nat, NEW cap \in Nat,
         NEW pw \in Passwords \cup {NoPassword}, NEW addr \in Nat
  PROVE  NewInstance(map, clone, id, port, cap, pw, addr) \in Instance
PROOF
<1>1. <<>> \in Seq(Requests)
  OBVIOUS
<1> QED
  BY <1>1 DEF NewInstance, Instance

LEMMA StartedWorldType ==
  ASSUME NEW map \in Maps, NEW clone \in Clones, NEW id \in InstanceIds,
         NEW port \in Nat
  PROVE  StartedWorld(map, clone, id, port) \in WorldProcess
BY DEF StartedWorld, WorldProcess

LEMMA ZoneParts ==
  /\ AnyZone \in Zones
  /\ \A z \in Zones : z[1] \in Maps /\ z[2] \in Clones
  /\ 0 \in Clones
PROOF
<1>1. AnyZone \in Zones
  BY ConstantsAssumption DEF AnyZone
<1> QED
  BY <1>1 DEF Maps, Clones

LEMMA InvalidIdType ==
  InvalidInstanceId \in Nat /\ InvalidInstanceId \in InstanceIds
BY DEF InvalidInstanceId, InstanceIds

LEMMA BlankType == Blank \in Instance /\ NoWorld \in WorldProcess
PROOF
<1>1. AnyZone[1] \in Maps /\ AnyZone[2] \in Clones
  BY ZoneParts
<1>2. InvalidInstanceId \in InstanceIds
  BY InvalidIdType
<1>3. Blank \in Instance
  BY <1>1, <1>2, NewInstanceType DEF Blank, NoAddr
<1>4. StartedWorld(AnyZone[1], AnyZone[2], InvalidInstanceId, 0)
        \in WorldProcess
  BY <1>1, <1>2, StartedWorldType
<1>5. NoWorld \in WorldProcess
  BY <1>4 DEF NoWorld, WorldProcess
<1> QED
  BY <1>3, <1>5

LEMMA Remainder == \A a \in Int, b \in Nat : b # 0 => a % b \in 0..(b - 1)
OBVIOUS

LEMMA NextInstanceIdType ==
  ASSUME m_LastInstanceID \in InstanceIds
  PROVE  NextInstanceId \in InstanceIds
PROOF
<1> DEFINE a == m_LastInstanceID + 1
           b == InvalidInstanceId + 1
<1>1. a \in Int /\ b \in Nat /\ b # 0 /\ b - 1 = InvalidInstanceId
  BY InvalidIdType DEF InstanceIds
<1>2. NextInstanceId = a % b
  BY DEF NextInstanceId
<1> HIDE DEF a, b
<1>3. a % b \in 0..(b - 1)
  BY <1>1, Remainder
<1> QED
  BY <1>1, <1>2, <1>3 DEF InstanceIds

LEMMA SoftCapType ==
  ASSUME NEW map \in Maps
  PROVE  SoftCapOf(map) \in Nat
BY ConstantsAssumption DEF SoftCapOf

LEMMA MessageTypes ==
  /\ \A t \in {"SERVER_INFO", "WORLD_READY", "PLAYER_ADDED", "PLAYER_REMOVED",
               "SHUTDOWN_RESPONSE", "DISCONNECTED"} :
       Msg(t) \in ToMasterMessage
  /\ Msg("SHUTDOWN") \in ToWorldMessage
  /\ \A id \in Nat : /\ AffirmRequest(id) \in ToWorldMessage
                     /\ AffirmResponse(id) \in ToMasterMessage
BY DEF Msg, AffirmRequest, AffirmResponse, ToMasterMessage, ToWorldMessage

LEMMA RequestParts ==
  \A q \in Requests : q[1] \in Requesters /\ q[2] \in 1..MaxRequestId
BY DEF Requests

LEMMA AffirmRequestsType ==
  ASSUME NEW reqs \in Seq(Requests)
  PROVE  AffirmRequests(reqs) \in Seq(ToWorldMessage)
PROOF
<1>1. \A i \in 1..Len(reqs) : AffirmRequest(reqs[i][2]) \in ToWorldMessage
  BY RequestParts, MessageTypes, ConstantsAssumption
<1> QED
  BY <1>1 DEF AffirmRequests

(* RemoveAt removes one element.                                            *)
LEMMA RemoveAtProperties ==
  ASSUME NEW S, NEW s \in Seq(S), NEW i \in 1..Len(s)
  PROVE  /\ RemoveAt(s, i) \in Seq(S)
         /\ Len(RemoveAt(s, i)) = Len(s) - 1
PROOF
<1> DEFINE before == SubSeq(s, 1, i - 1)
           after == SubSeq(s, i + 1, Len(s))
<1>1. before \in Seq(S) /\ Len(before) = i - 1
  OBVIOUS
<1>2. after \in Seq(S) /\ Len(after) = Len(s) - i
  OBVIOUS
<1>3. RemoveAt(s, i) = before \o after
  BY DEF RemoveAt
<1>4. Len(s) \in Nat /\ i \in Nat
  OBVIOUS
<1> HIDE DEF before, after
<1>5. /\ before \o after \in Seq(S)
      /\ Len(before \o after) = Len(before) + Len(after)
  BY <1>1, <1>2, ConcatProperties
<1>6. (i - 1) + (Len(s) - i) = Len(s) - 1
  BY <1>4
<1> QED
  BY <1>1, <1>2, <1>3, <1>5, <1>6

LEMMA ResponseType ==
  ASSUME NEW q \in Requests, NEW i \in Instance
  PROVE  Response(q, i) \in [req: Requests, answer: Answer]
BY DEF Response, Answer, Instance

-----------------------------------------------------------------------------
(* GetInstance and Dispatch.                                                *)

LEMMA HandleFacts ==
  ASSUME MasterTypes
  PROVE  /\ MaxInstances \in Nat
         /\ nextHandle \in Nat /\ 0 < nextHandle
         /\ nextHandle <= MaxInstances + 1
         /\ m_Instances \in SUBSET Handles
         /\ \A h \in Handles : h \in Nat /\ h # NoHandle
         /\ \A h \in m_Instances : h < nextHandle
         /\ nextHandle \notin m_Instances
         /\ \A h \in Handles : inst[h] \in Instance
BY ConstantsAssumption DEF MasterTypes, Handles, NoHandle

LEMMA TypePorts == ASSUME MasterTypes PROVE PortsKnown
PROOF
<1>1. \A h \in Handles : inst[h].port \in Nat
  BY HandleFacts DEF Instance
<1>2. BasePort \in Nat
  BY ConstantsAssumption
<1> QED
  BY <1>1, <1>2, HandleFacts DEF PortsKnown

(* What GetInstance returns: a joinable instance, nobody while the master   *)
(* shuts down, or else a new one.                                           *)
LEMMA GetInstanceResult ==
  ASSUME m_Instances \in SUBSET Handles, MaxInstances \in Nat, NEW X, NEW z
  PROVE  \/ /\ GetInstance(X, z) \in m_Instances \ X
            /\ Joinable(GetInstance(X, z), z)
         \/ m_IsShuttingDown /\ GetInstance(X, z) = NoHandle
         \/ ~m_IsShuttingDown /\ GetInstance(X, z) = nextHandle
PROOF
<1> DEFINE found == {h \in m_Instances \ X : Joinable(h, z)}
<1>1. CASE found # {}
  <2>1. found \in SUBSET Nat
    <3>1. found \in SUBSET m_Instances
      OBVIOUS
    <3> HIDE DEF found
    <3> QED
      BY <3>1 DEF Handles
  <2>2. Min(found) \in found
    <3> HIDE DEF found
    <3> QED
      BY <1>1, <2>1, MinOfNats
  <2> QED
    BY <1>1, <2>2 DEF GetInstance
<1>2. CASE found = {}
  BY <1>2 DEF GetInstance
<1> QED
  BY <1>1, <1>2

LEMMA StartIfNewType ==
  ASSUME MasterTypes, ProcessTypes, NEW h \in Handles \cup {NoHandle}, NEW z,
         z[1] \in Maps, z[2] \in Clones, StartIfNew(h, z)
  PROVE  /\ nextHandle' \in 1..(MaxInstances + 1)
         /\ nextHandle <= nextHandle'
         /\ h = nextHandle => h < nextHandle'
         /\ m_LastInstanceID' \in InstanceIds
         /\ world' \in [Handles -> WorldProcess]
PROOF
<1>1. CASE h = nextHandle
  <2>1. NextInstanceId \in InstanceIds
    BY NextInstanceIdType DEF MasterTypes
  <2>2. StartedWorld(z[1], z[2], NextInstanceId, GetFreePort) \in WorldProcess
    BY <2>1, TypePorts, FreePortType, StartedWorldType
  <2>3. h \in 1..MaxInstances
    BY <1>1, HandleFacts DEF Handles, NoHandle
  <2>4. /\ nextHandle' = nextHandle + 1
        /\ m_LastInstanceID' = NextInstanceId
        /\ world' = [world EXCEPT ![h] =
               StartedWorld(z[1], z[2], NextInstanceId, GetFreePort)]
    BY <1>1 DEF StartIfNew
  <2>5. world' \in [Handles -> WorldProcess]
    BY <2>2, <2>4 DEF ProcessTypes
  <2> QED
    BY <1>1, <2>1, <2>3, <2>4, <2>5, HandleFacts
<1>2. CASE h # nextHandle
  BY <1>2, HandleFacts DEF StartIfNew, MasterTypes, ProcessTypes
<1> QED
  BY <1>1, <1>2

LEMMA WithInstanceType ==
  ASSUME MasterTypes, NEW f \in [Handles -> Instance], NEW h \in Handles, NEW z,
         z[1] \in Maps, z[2] \in Clones, NEW cap \in Nat,
         NEW pw \in Passwords \cup {NoPassword}, NEW a \in UninitialisedAddrs
  PROVE  WithInstance(f, h, z, cap, pw, a) \in [Handles -> Instance]
PROOF
<1>1. a \in Nat
  <2>1. \A g \in 1..(nextHandle - 1) : g \in Handles
    BY HandleFacts DEF Handles
  <2>2. \A g \in Handles : inst[g].addr \in Nat
    BY HandleFacts DEF Instance
  <2> QED
    BY <2>1, <2>2 DEF UninitialisedAddrs, NoAddr
<1>2. NextInstanceId \in InstanceIds
  BY NextInstanceIdType DEF MasterTypes
<1>3. GetFreePort \in Nat
  BY TypePorts, FreePortType
<1>4. NewInstance(z[1], z[2], NextInstanceId, GetFreePort, cap, pw, a)
        \in Instance
  BY <1>1, <1>2, <1>3, NewInstanceType
<1> QED
  BY <1>4 DEF WithInstance

LEMMA EnqueuedType ==
  ASSUME NEW f \in [Handles -> Instance], NEW h \in Handles,
         NEW reqs \in Seq(Requests)
  PROVE  Enqueued(f, h, reqs) \in [Handles -> Instance]
PROOF
<1>1. f[h] \in Instance
  OBVIOUS
<1>2. /\ f[h].pendingAffirmations \o reqs \in Seq(Requests)
      /\ f[h].pendingRequests \o reqs \in Seq(Requests)
  BY <1>1, ConcatProperties DEF Instance
<1>3. /\ [f[h] EXCEPT !.pendingAffirmations = @ \o reqs] \in Instance
      /\ [f[h] EXCEPT !.pendingRequests = @ \o reqs] \in Instance
  BY <1>1, <1>2 DEF Instance
<1> QED
  BY <1>3 DEF Enqueued

LEMMA SentToType ==
  ASSUME NEW chan \in [Handles -> Seq(ToWorldMessage)], NEW a,
         NEW msgs \in Seq(ToWorldMessage)
  PROVE  SentTo(chan, a, msgs) \in [Handles -> Seq(ToWorldMessage)]
PROOF
<1>1. \A w \in Handles : chan[w] \o msgs \in Seq(ToWorldMessage)
  BY ConcatProperties
<1> QED
  BY <1>1 DEF SentTo

LEMMA DispatchType ==
  ASSUME MasterTypes, ProcessTypes, NEW X, NEW erased, NEW z, z[1] \in Maps, z[2] \in Clones,
         NEW reqs \in Seq(Requests), NEW f \in [Handles -> Instance],
         NEW chan \in [Handles -> Seq(ToWorldMessage)],
         Dispatch(X, erased, z, reqs, f, chan)
  PROVE  /\ m_Instances' \subseteq Handles \cap (1..(nextHandle' - 1))
         /\ inst' \in [Handles -> Instance]
         /\ nextHandle' \in 1..(MaxInstances + 1)
         /\ m_LastInstanceID' \in InstanceIds
         /\ nullInstance' \in BOOLEAN
         /\ world' \in [Handles -> WorldProcess]
         /\ toWorld' \in [Handles -> Seq(ToWorldMessage)]
PROOF
<1> DEFINE h == GetInstance(X, z)
<1>1. h \in Handles \cup {NoHandle} /\ StartIfNew(h, z)
  BY DEF Dispatch
<1>2. /\ nextHandle' \in 1..(MaxInstances + 1)
      /\ nextHandle <= nextHandle'
      /\ h = nextHandle => h < nextHandle'
      /\ m_LastInstanceID' \in InstanceIds
      /\ world' \in [Handles -> WorldProcess]
  <2> HIDE DEF h
  <2> QED
    BY <1>1, StartIfNewType
<1>3. h \in m_Instances \/ h = nextHandle \/ h = NoHandle
  BY GetInstanceResult, HandleFacts
<1>4. nullInstance' \in BOOLEAN
  BY DEF Dispatch, MasterTypes
<1>5. CASE h = NoHandle
  <2>1. /\ m_Instances' = m_Instances \ erased
        /\ inst' = f
        /\ toWorld' = chan
    BY <1>5 DEF Dispatch
  <2> HIDE DEF h
  <2> QED
    <3>1. \A g \in m_Instances : /\ g \in Handles /\ g \in Nat
                                 /\ 0 < g /\ g < nextHandle'
      BY <1>2, HandleFacts DEF Handles
    <3>2. m_Instances' \subseteq Handles \cap (1..(nextHandle' - 1))
      BY <1>2, <2>1, <3>1, HandleFacts
    <3> QED
      BY <1>2, <1>4, <2>1, <3>2
<1>6. CASE h # NoHandle
  <2>1. /\ m_Instances' = (m_Instances \ erased) \cup {h}
        /\ toWorld' = AffirmationsSent(chan, h, reqs)
    BY <1>6 DEF Dispatch
  <2>2. PICK a \in UninitialisedAddrs :
          inst' = Enqueued(
            WithInstance(f, h, z, SoftCapOf(z[1]), NoPassword, a), h, reqs)
    BY <1>6 DEF Dispatch
  <2>3. h \in Handles
    BY <1>1, <1>6
  <2> HIDE DEF h
  <2>4. inst' \in [Handles -> Instance]
    <3>1. WithInstance(f, h, z, SoftCapOf(z[1]), NoPassword, a)
            \in [Handles -> Instance]
      BY <2>3, SoftCapType, WithInstanceType
    <3> QED
      BY <2>2, <2>3, <3>1, EnqueuedType
  <2>5. toWorld' \in [Handles -> Seq(ToWorldMessage)]
    BY <2>1, AffirmRequestsType, SentToType DEF AffirmationsSent
  <2>6. m_Instances' \subseteq Handles \cap (1..(nextHandle' - 1))
    <3>1. \A g \in m_Instances \cup {h} : g \in Nat /\ 0 < g /\ g < nextHandle'
      BY <1>2, <1>3, <1>6, <2>3, HandleFacts DEF Handles
    <3> QED
      BY <1>2, <2>1, <2>3, <3>1, HandleFacts
  <2> QED
    BY <1>2, <1>4, <2>4, <2>5, <2>6
<1> QED
  BY <1>5, <1>6

-----------------------------------------------------------------------------
(* Finding instances, and packets.                                          *)

LEMMA FoundById ==
  ASSUME MasterTypes, NEW map, NEW id,
         FindInstanceById(map, id) # NoHandle
  PROVE  /\ FindInstanceById(map, id) \in m_Instances
         /\ ~inst[FindInstanceById(map, id)].isShuttingDown
PROOF
<1> DEFINE S == {h \in m_Instances : /\ inst[h].map = map
                                     /\ inst[h].id = id
                                     /\ ~IsPrivate(h)
                                     /\ ~inst[h].isShuttingDown}
<1>1. S \in SUBSET Handles /\ S \in SUBSET m_Instances
  BY HandleFacts
<1>2. FindInstanceById(map, id) = First(S)
  BY DEF FindInstanceById
<1>3. \A h \in S : ~inst[h].isShuttingDown
  OBVIOUS
<1> HIDE DEF S
<1> QED
  BY <1>1, <1>2, <1>3, FirstOfHandles, HandleFacts

LEMMA FoundPrivate ==
  ASSUME MasterTypes, NEW pw, FindPrivateInstance(pw) # NoHandle
  PROVE  FindPrivateInstance(pw) \in m_Instances
PROOF
<1> DEFINE S == {h \in m_Instances : IsPrivate(h) /\ inst[h].password = pw}
<1>1. S \in SUBSET Handles /\ S \in SUBSET m_Instances
  BY HandleFacts
<1>2. FindPrivateInstance(pw) = First(S)
  BY DEF FindPrivateInstance
<1> HIDE DEF S
<1> QED
  BY <1>1, <1>2, FirstOfHandles, HandleFacts

LEMMA FoundBySysAddr ==
  ASSUME MasterTypes, NEW a, GetInstanceBySysAddr(a) # NoHandle
  PROVE  GetInstanceBySysAddr(a) \in m_Instances
PROOF
<1> DEFINE S == {h \in m_Instances : inst[h].addr = a}
<1>1. S \in SUBSET Handles /\ S \in SUBSET m_Instances
  BY HandleFacts
<1>2. GetInstanceBySysAddr(a) = First(S)
  BY DEF GetInstanceBySysAddr
<1> HIDE DEF S
<1> QED
  BY <1>1, <1>2, FirstOfHandles, HandleFacts

LEMMA ReceiveType ==
  ASSUME ProcessTypes, NEW w \in Handles, NEW type, Receive(w, type)
  PROVE  /\ toMaster' \in [Handles -> Seq(ToMasterMessage)]
         /\ Head(toMaster[w]) \in ToMasterMessage
         /\ UNCHANGED <<master, transfers, requestVars, bounds>>
PROOF
<1>1. toMaster[w] \in Seq(ToMasterMessage) /\ toMaster[w] # <<>>
  BY DEF ProcessTypes, Receive
<1>2. /\ Tail(toMaster[w]) \in Seq(ToMasterMessage)
      /\ Head(toMaster[w]) \in ToMasterMessage
  BY <1>1
<1> QED
  BY <1>2 DEF ProcessTypes, Receive

LEMMA ToMasterType ==
  ASSUME ProcessTypes, NEW w \in Handles, NEW msgs \in Seq(ToMasterMessage),
         ToMaster(w, msgs)
  PROVE  toMaster' \in [Handles -> Seq(ToMasterMessage)]
PROOF
<1>1. toMaster[w] \o msgs \in Seq(ToMasterMessage)
  BY ConcatProperties DEF ProcessTypes
<1> QED
  BY <1>1 DEF ToMaster, ProcessTypes

LEMMA CutOffType ==
  ASSUME ProcessTypes, NEW w \in Handles, CutOff(w)
  PROVE  toMaster' \in [Handles -> Seq(ToMasterMessage)]
PROOF
<1>1. PICK n \in 0..Len(toMaster[w]) :
        toMaster' = [toMaster EXCEPT ![w] =
                       Append(SubSeq(@, 1, n), Msg("DISCONNECTED"))]
  BY DEF CutOff
<1>2. toMaster[w] \in Seq(ToMasterMessage)
  BY DEF ProcessTypes
<1>3. SubSeq(toMaster[w], 1, n) \in Seq(ToMasterMessage)
  BY <1>2
<1>4. Append(SubSeq(toMaster[w], 1, n), Msg("DISCONNECTED"))
        \in Seq(ToMasterMessage)
  BY <1>3, MessageTypes, AppendProperties
<1> QED
  BY <1>1, <1>4 DEF ProcessTypes

LEMMA RemoveInstanceType ==
  ASSUME MasterTypes, ProcessTypes, NEW h \in m_Instances, RemoveInstance(h)
  PROVE  /\ m_Instances' \subseteq Handles \cap (1..(nextHandle' - 1))
         /\ inst' \in [Handles -> Instance]
         /\ nextHandle' \in 1..(MaxInstances + 1)
         /\ m_LastInstanceID' \in InstanceIds
         /\ nullInstance' \in BOOLEAN
         /\ world' \in [Handles -> WorldProcess]
         /\ toWorld' \in [Handles -> Seq(ToWorldMessage)]
PROOF
<1>1. CASE ShouldShutdown \/ inst[h].pendingAffirmations = <<>>
  BY <1>1 DEF RemoveInstance, MasterTypes, ProcessTypes
<1>2. CASE ~(ShouldShutdown \/ inst[h].pendingAffirmations = <<>>)
  <2> DEFINE z == <<inst[h].map, inst[h].clone>>
  <2>1. Dispatch({h}, {h}, z, inst[h].pendingAffirmations, inst, toWorld)
    BY <1>2 DEF RemoveInstance
  <2>2. /\ z[1] \in Maps /\ z[2] \in Clones
        /\ inst[h].pendingAffirmations \in Seq(Requests)
    BY HandleFacts DEF Instance
  <2>3. /\ inst \in [Handles -> Instance]
        /\ toWorld \in [Handles -> Seq(ToWorldMessage)]
    BY DEF MasterTypes, ProcessTypes
  <2> HIDE DEF z
  <2> QED
    BY <2>1, <2>2, <2>3, DispatchType
<1> QED
  BY <1>1, <1>2

-----------------------------------------------------------------------------
(* Type correctness: the steps of the master.                               *)

LEMMA TransferType ==
  ASSUME TypeOK, NEW t \in transfers,
         HandleRequestZoneTransfer(t) \/ HandleRequestPrivateZone(t)
  PROVE  TypeOK'
PROOF
<1>1. t.req \in Requests /\ t.target \in Zones \cup Passwords
  BY DEF TypeOK, RequestTypes
<1>2. MasterTypes /\ ProcessTypes /\ RequestTypes
  BY DEF TypeOK
<1>3. CASE HandleRequestZoneTransfer(t)
  <2>1. RequestTypes'
    BY <1>2, <1>3 DEF HandleRequestZoneTransfer, RequestTypes, requestVars
  <2>2. CASE m_IsShuttingDown
    BY <1>2, <1>3, <2>1, <2>2
       DEF HandleRequestZoneTransfer, TypeOK, MasterTypes, ProcessTypes,
           masterVars
  <2>3. CASE ~m_IsShuttingDown
    <3>1. Dispatch({}, {}, t.target, <<t.req>>, inst, toWorld)
      BY <1>3, <2>3 DEF HandleRequestZoneTransfer
    <3>2. /\ t.target[1] \in Maps /\ t.target[2] \in Clones
          /\ <<t.req>> \in Seq(Requests)
      BY <1>1, <1>3, ZoneParts DEF HandleRequestZoneTransfer
    <3>3. /\ inst \in [Handles -> Instance]
          /\ toWorld \in [Handles -> Seq(ToWorldMessage)]
      BY <1>2 DEF MasterTypes, ProcessTypes
    <3>4. /\ m_Instances' \subseteq Handles \cap (1..(nextHandle' - 1))
          /\ inst' \in [Handles -> Instance]
          /\ nextHandle' \in 1..(MaxInstances + 1)
          /\ m_LastInstanceID' \in InstanceIds
          /\ nullInstance' \in BOOLEAN
          /\ world' \in [Handles -> WorldProcess]
          /\ toWorld' \in [Handles -> Seq(ToWorldMessage)]
      BY <1>2, <3>1, <3>2, <3>3, DispatchType
    <3>5. UNCHANGED <<master, toMaster, bounds>>
      BY <1>3 DEF HandleRequestZoneTransfer
    <3> QED
      BY <1>2, <2>1, <3>4, <3>5 DEF TypeOK, MasterTypes, ProcessTypes
  <2> QED
    BY <2>2, <2>3
<1>4. CASE HandleRequestPrivateZone(t)
  <2> DEFINE h == FindPrivateInstance(t.target)
  <2>1. h # NoHandle => Response(t.req, inst[h])
                          \in [req: Requests, answer: Answer]
    <3> SUFFICES ASSUME h # NoHandle
                 PROVE  Response(t.req, inst[h])
                          \in [req: Requests, answer: Answer]
      OBVIOUS
    <3>1. h \in Handles
      BY <1>2, FoundPrivate, HandleFacts
    <3>2. inst[h] \in Instance
      BY <1>2, <3>1, HandleFacts
    <3> QED
      BY <1>1, <3>2, ResponseType
  <2>2. responses' \subseteq [req: Requests, answer: Answer]
    BY <1>2, <1>4, <2>1 DEF HandleRequestPrivateZone, RequestTypes
  <2>3. RequestTypes'
    BY <1>2, <1>4, <2>2
       DEF HandleRequestPrivateZone, RequestTypes, requestVars
  <2> QED
    BY <1>2, <1>4, <2>3
       DEF HandleRequestPrivateZone, TypeOK, MasterTypes, ProcessTypes,
           masterVars
<1> QED
  BY <1>3, <1>4

(* New values of the fields of an Instance.                                 *)
LEMMA FieldTypes ==
  ASSUME NEW i \in Instance
  PROVE  /\ i.clients \in Nat
         /\ \A n \in Nat : [i EXCEPT !.clients = n] \in Instance
         /\ [i EXCEPT !.ready = TRUE, !.pendingRequests = <<>>] \in Instance
PROOF
<1>1. <<>> \in Seq(Requests)
  OBVIOUS
<1> QED
  BY <1>1 DEF Instance

(* A handler that changes the fields of one Instance keeps the types.       *)
LEMMA HandlerKeepsTypes ==
  ASSUME TypeOK, NEW w \in Handles, NEW type, Receive(w, type),
         inst' \in [Handles -> Instance],
         responses' \subseteq [req: Requests, answer: Answer],
         UNCHANGED <<m_Instances, nextHandle, m_LastInstanceID, nullInstance,
                     world, toWorld>>
  PROVE  TypeOK'
PROOF
<1>1. /\ toMaster' \in [Handles -> Seq(ToMasterMessage)]
      /\ UNCHANGED <<master, transfers, requestVars, bounds>>
  BY ReceiveType DEF TypeOK
<1>2. MasterTypes'
  BY <1>1 DEF TypeOK, MasterTypes
<1>3. ProcessTypes'
  BY <1>1 DEF TypeOK, ProcessTypes
<1>4. RequestTypes'
  BY <1>1 DEF TypeOK, RequestTypes, requestVars
<1> QED
  BY <1>2, <1>3, <1>4 DEF TypeOK

LEMMA WorldPacketType ==
  ASSUME TypeOK, NEW w \in Handles, HandleWorldPacket(w)
  PROVE  TypeOK'
PROOF
<1> DEFINE byId == FindInstanceById(world[w].map, world[w].id)
           byAddr == GetInstanceBySysAddr(world[w].port)
<1>1. MasterTypes /\ ProcessTypes /\ RequestTypes
  BY DEF TypeOK
<1>2. /\ inst \in [Handles -> Instance]
      /\ responses \subseteq [req: Requests, answer: Answer]
      /\ world[w] \in WorldProcess
  BY <1>1 DEF MasterTypes, ProcessTypes, RequestTypes
<1>3. byId # NoHandle => byId \in Handles /\ inst[byId] \in Instance
  BY <1>1, FoundById, HandleFacts
<1>4. byAddr # NoHandle => byAddr \in Handles /\ byAddr \in m_Instances
                           /\ inst[byAddr] \in Instance
  BY <1>1, FoundBySysAddr, HandleFacts
<1> HIDE DEF byId, byAddr
<1>5. CASE HandleServerInfo(w)
  <2>1. Receive(w, "SERVER_INFO")
    BY <1>5 DEF HandleServerInfo
  <2>2. UNCHANGED <<m_LastInstanceID, nullInstance, world, toWorld, responses>>
    BY <1>5 DEF HandleServerInfo
  <2>3. CASE IsPortInUse(world[w].port)
    <3>1. /\ inst' = IF byId = NoHandle THEN inst
                     ELSE [inst EXCEPT ![byId].addr = world[w].port]
          /\ UNCHANGED <<m_Instances, nextHandle>>
      BY <1>5, <2>3 DEF HandleServerInfo, byId
    <3>2. world[w].port \in Nat
      BY <1>2 DEF WorldProcess
    <3>3. inst' \in [Handles -> Instance]
      BY <1>2, <1>3, <3>1, <3>2 DEF Instance
    <3> QED
      BY <1>2, <2>1, <2>2, <3>1, <3>3, HandlerKeepsTypes
  <2>4. CASE ~IsPortInUse(world[w].port)
    <3> DEFINE new == NewInstance(world[w].map, 0, world[w].id, world[w].port,
                                  MaxCapAddedBack, NoPassword, world[w].port)
    <3>1. /\ nextHandle \in Handles
          /\ nextHandle' = nextHandle + 1
          /\ m_Instances' = m_Instances \cup {nextHandle}
          /\ inst' = [inst EXCEPT ![nextHandle] = new]
      BY <1>5, <2>4 DEF HandleServerInfo
    <3>2. new \in Instance
      <4>1. /\ world[w].map \in Maps /\ world[w].id \in InstanceIds
            /\ world[w].port \in Nat
        BY <1>2 DEF WorldProcess
      <4>2. MaxCapAddedBack \in Nat /\ 0 \in Clones
        BY ZoneParts DEF MaxCapAddedBack
      <4> QED
        BY <4>1, <4>2, NewInstanceType
    <3> HIDE DEF new
    <3>3. inst' \in [Handles -> Instance]
      BY <1>2, <3>1, <3>2
    <3>4. m_Instances' \subseteq Handles \cap (1..(nextHandle' - 1))
      <4>1. \A h \in m_Instances \cup {nextHandle} :
              /\ h \in Handles /\ h \in Nat
              /\ 0 < h /\ h < nextHandle + 1
        BY <1>1, <3>1, HandleFacts DEF Handles
      <4> QED
        BY <1>1, <3>1, <4>1, HandleFacts
    <3>5. nextHandle' \in 1..(MaxInstances + 1)
      BY <1>1, <3>1, HandleFacts DEF Handles
    <3>6. /\ toMaster' \in [Handles -> Seq(ToMasterMessage)]
          /\ UNCHANGED <<master, transfers, requestVars, bounds>>
      BY <1>1, <2>1, ReceiveType
    <3>7. MasterTypes'
      BY <1>1, <2>2, <3>3, <3>4, <3>5, <3>6 DEF MasterTypes
    <3>8. ProcessTypes' /\ RequestTypes'
      BY <1>1, <2>2, <3>6 DEF ProcessTypes, RequestTypes, requestVars
    <3> QED
      BY <3>7, <3>8 DEF TypeOK
  <2> QED
    BY <2>3, <2>4
<1>6. CASE HandleWorldReady(w)
  <2>1. /\ Receive(w, "WORLD_READY")
        /\ UNCHANGED <<m_Instances, nextHandle, m_LastInstanceID, nullInstance,
                       world, toWorld>>
    BY <1>6 DEF HandleWorldReady
  <2>2. CASE byId = NoHandle
    <3>1. UNCHANGED <<inst, responses>>
      BY <1>6, <2>2 DEF HandleWorldReady, byId
    <3> QED
      BY <1>2, <2>1, <3>1, HandlerKeepsTypes
  <2>3. CASE byId # NoHandle
    <3>1. /\ inst' = [inst EXCEPT ![byId].ready = TRUE,
                                  ![byId].pendingRequests = <<>>]
          /\ responses' = responses \cup
               {Response(q, inst[byId]) :
                  q \in ToSet(inst[byId].pendingRequests)}
      BY <1>6, <2>3 DEF HandleWorldReady, byId
    <3>2. inst' \in [Handles -> Instance]
      <4> DEFINE i == [inst[byId] EXCEPT !.ready = TRUE,
                                         !.pendingRequests = <<>>]
      <4>1. i \in Instance
        BY <1>3, <2>3, FieldTypes
      <4>2. inst' = [inst EXCEPT ![byId] = i]
        BY <1>2, <3>1
      <4> HIDE DEF i
      <4> QED
        BY <1>2, <4>1, <4>2
    <3>3. inst[byId].pendingRequests \in Seq(Requests)
      BY <1>3, <2>3 DEF Instance
    <3>4. \A q \in ToSet(inst[byId].pendingRequests) :
            Response(q, inst[byId]) \in [req: Requests, answer: Answer]
      <4>1. \A q \in ToSet(inst[byId].pendingRequests) : q \in Requests
        BY <3>3 DEF ToSet
      <4> QED
        BY <1>3, <2>3, <4>1, ResponseType
    <3>5. responses' \subseteq [req: Requests, answer: Answer]
      BY <1>2, <3>1, <3>4
    <3> QED
      BY <2>1, <3>2, <3>5, HandlerKeepsTypes
  <2> QED
    BY <2>2, <2>3
<1>7. CASE HandleAffirmTransferResponse(w)
  <2> DEFINE pending == inst[byAddr].pendingAffirmations
             id == Head(toMaster[w]).requestID
             matches == {i \in DOMAIN pending : pending[i][2] = id}
             rest == RemoveAt(pending, Min(matches))
  <2>1. /\ Receive(w, "AFFIRM_TRANSFER_RESPONSE")
        /\ UNCHANGED <<m_Instances, nextHandle, m_LastInstanceID, nullInstance,
                       world, toWorld>>
    BY <1>7 DEF HandleAffirmTransferResponse
  <2>2. CASE byAddr = NoHandle \/ matches = {}
    <3>1. UNCHANGED <<inst, responses>>
      BY <1>7, <2>2 DEF HandleAffirmTransferResponse, byAddr
    <3> QED
      BY <1>2, <2>1, <3>1, HandlerKeepsTypes
  <2>3. CASE ~(byAddr = NoHandle \/ matches = {})
    <3>1. /\ inst' = [inst EXCEPT
                        ![byAddr].pendingAffirmations = rest,
                        ![byAddr].timedOut = @ /\ rest # <<>>]
          /\ responses' = responses \cup
               {Response(pending[Min(matches)], inst[byAddr])}
      BY <1>7, <2>3 DEF HandleAffirmTransferResponse, byAddr
    <3>2. pending \in Seq(Requests)
      BY <1>4, <2>3 DEF Instance
    <3>3. Min(matches) \in 1..Len(pending)
      <4>1. matches \in SUBSET Nat /\ matches \in SUBSET (1..Len(pending))
        BY <3>2
      <4> HIDE DEF matches
      <4> QED
        BY <2>3, <4>1, MinOfNats
    <3> HIDE DEF matches
    <3>4. rest \in Seq(Requests) /\ pending[Min(matches)] \in Requests
      BY <3>2, <3>3, RemoveAtProperties
    <3> HIDE DEF rest, pending
    <3>5. inst' \in [Handles -> Instance]
      BY <1>2, <1>4, <2>3, <3>1, <3>4 DEF Instance
    <3>6. responses' \subseteq [req: Requests, answer: Answer]
      BY <1>2, <1>4, <2>3, <3>1, <3>4, ResponseType
    <3> QED
      BY <2>1, <3>5, <3>6, HandlerKeepsTypes
  <2> QED
    BY <2>2, <2>3
<1>8. CASE HandlePlayerAdded(w)
  <2>1. /\ Receive(w, "PLAYER_ADDED")
        /\ inst' = IF byId = NoHandle THEN inst
                   ELSE [inst EXCEPT ![byId].clients = @ + 1]
        /\ UNCHANGED <<m_Instances, nextHandle, m_LastInstanceID, nullInstance,
                       world, toWorld, responses>>
    BY <1>8 DEF HandlePlayerAdded, byId
  <2>2. inst' \in [Handles -> Instance]
    <3> DEFINE n == inst[byId].clients + 1
               i == [inst[byId] EXCEPT !.clients = n]
    <3>1. CASE byId # NoHandle
      <4>1. inst[byId].clients \in Nat
        BY <1>3, <3>1, FieldTypes
      <4>2. n \in Nat
        BY <4>1
      <4>3. i \in Instance
        <5> HIDE DEF n
        <5> QED
          BY <1>3, <3>1, <4>2, FieldTypes
      <4>4. inst' = [inst EXCEPT ![byId] = i]
        BY <1>2, <2>1, <3>1
      <4> HIDE DEF i
      <4> QED
        BY <1>2, <4>3, <4>4
    <3> QED
      BY <1>2, <2>1, <3>1
  <2> QED
    BY <1>2, <2>1, <2>2, HandlerKeepsTypes
<1>9. CASE HandlePlayerRemoved(w)
  <2>1. /\ Receive(w, "PLAYER_REMOVED")
        /\ inst' = IF byId = NoHandle THEN inst
                   ELSE [inst EXCEPT ![byId].clients =
                           IF @ = 0 THEN 0 ELSE @ - 1]
        /\ UNCHANGED <<m_Instances, nextHandle, m_LastInstanceID, nullInstance,
                       world, toWorld, responses>>
    BY <1>9 DEF HandlePlayerRemoved, byId
  <2>2. inst' \in [Handles -> Instance]
    <3> DEFINE n == IF inst[byId].clients = 0 THEN 0
                    ELSE inst[byId].clients - 1
               i == [inst[byId] EXCEPT !.clients = n]
    <3>1. CASE byId # NoHandle
      <4>1. inst[byId].clients \in Nat
        BY <1>3, <3>1, FieldTypes
      <4>2. n \in Nat
        BY <4>1
      <4>3. i \in Instance
        <5> HIDE DEF n
        <5> QED
          BY <1>3, <3>1, <4>2, FieldTypes
      <4>4. inst' = [inst EXCEPT ![byId] = i]
        BY <1>2, <2>1, <3>1
      <4> HIDE DEF i
      <4> QED
        BY <1>2, <4>3, <4>4
    <3> QED
      BY <1>2, <2>1, <3>1
  <2> QED
    BY <1>2, <2>1, <2>2, HandlerKeepsTypes
<1>10. CASE HandleShutdownResponse(w)
  <2>1. /\ Receive(w, "SHUTDOWN_RESPONSE")
        /\ inst' = IF byAddr = NoHandle THEN inst
                   ELSE [inst EXCEPT ![byAddr].isShuttingDown = TRUE]
        /\ UNCHANGED <<m_Instances, nextHandle, m_LastInstanceID, nullInstance,
                       world, toWorld, responses>>
    BY <1>10 DEF HandleShutdownResponse, byAddr
  <2>2. inst' \in [Handles -> Instance]
    BY <1>2, <1>4, <2>1 DEF Instance
  <2> QED
    BY <1>2, <2>1, <2>2, HandlerKeepsTypes
<1>11. CASE HandleDisconnected(w)
  <2>1. Receive(w, "DISCONNECTED") /\ UNCHANGED responses
    BY <1>11 DEF HandleDisconnected
  <2>2. CASE byAddr = NoHandle
    <3>1. UNCHANGED <<masterVars, nullInstance, world, toWorld>>
      BY <1>11, <2>2 DEF HandleDisconnected, byAddr
    <3> QED
      BY <1>2, <2>1, <3>1, HandlerKeepsTypes DEF masterVars
  <2>3. CASE byAddr # NoHandle
    <3>1. RemoveInstance(byAddr)
      BY <1>11, <2>3 DEF HandleDisconnected, byAddr
    <3>2. /\ m_Instances' \subseteq Handles \cap (1..(nextHandle' - 1))
          /\ inst' \in [Handles -> Instance]
          /\ nextHandle' \in 1..(MaxInstances + 1)
          /\ m_LastInstanceID' \in InstanceIds
          /\ nullInstance' \in BOOLEAN
          /\ world' \in [Handles -> WorldProcess]
          /\ toWorld' \in [Handles -> Seq(ToWorldMessage)]
      BY <1>1, <1>4, <2>3, <3>1, RemoveInstanceType
    <3>3. /\ toMaster' \in [Handles -> Seq(ToMasterMessage)]
          /\ UNCHANGED <<master, transfers, requestVars, bounds>>
      BY <1>1, <2>1, ReceiveType
    <3>4. MasterTypes' /\ ProcessTypes'
      BY <1>1, <3>2, <3>3 DEF MasterTypes, ProcessTypes
    <3>5. RequestTypes'
      BY <1>1, <2>1, <3>3 DEF RequestTypes, requestVars
    <3> QED
      BY <3>4, <3>5 DEF TypeOK
  <2> QED
    BY <2>2, <2>3
<1> QED
  BY <1>5, <1>6, <1>7, <1>8, <1>9, <1>10, <1>11 DEF HandleWorldPacket

(* Spending what is bounded keeps it a natural number.                      *)
LEMMA BoundSpent ==
  ASSUME ProcessTypes
  PROVE  /\ bounds.crashes > 0 =>
              [bounds EXCEPT !.crashes = @ - 1] \in Bounds
         /\ bounds.losses > 0 =>
              [bounds EXCEPT !.losses = @ - 1] \in Bounds
         /\ bounds.restarts > 0 =>
              [bounds EXCEPT !.restarts = @ - 1] \in Bounds
         /\ bounds.timeouts > 0 =>
              [bounds EXCEPT !.timeouts = @ - 1] \in Bounds
         /\ bounds.idle > 0 =>
              [bounds EXCEPT !.idle = @ - 1] \in Bounds
         /\ bounds.commands > 0 =>
              [bounds EXCEPT !.commands = @ - 1] \in Bounds
PROOF
<1>1. bounds \in Bounds
  BY DEF ProcessTypes
<1>2. \A n \in Nat : n > 0 => n - 1 \in Nat
  OBVIOUS
<1>3. \A n \in Nat : /\ [bounds EXCEPT !.crashes = n] \in Bounds
                     /\ [bounds EXCEPT !.losses = n] \in Bounds
                     /\ [bounds EXCEPT !.restarts = n] \in Bounds
                     /\ [bounds EXCEPT !.timeouts = n] \in Bounds
                     /\ [bounds EXCEPT !.idle = n] \in Bounds
                     /\ [bounds EXCEPT !.commands = n] \in Bounds
  BY <1>1 DEF Bounds
<1>4. /\ bounds.crashes \in Nat /\ bounds.losses \in Nat
      /\ bounds.restarts \in Nat /\ bounds.timeouts \in Nat
      /\ bounds.idle \in Nat /\ bounds.commands \in Nat
  BY <1>1 DEF Bounds
<1> QED
  BY <1>2, <1>3, <1>4

LEMMA NoMessagesType ==
  /\ NoMessages \in [Handles -> Seq(ToMasterMessage)]
  /\ NoMessages \in [Handles -> Seq(ToWorldMessage)]
BY DEF NoMessages

LEMMA UnlinkedType ==
  ASSUME ProcessTypes
  PROVE  Unlinked \in [Handles -> WorldProcess]
PROOF
<1>1. ASSUME NEW w \in Handles
      PROVE  [world[w] EXCEPT !.linked = FALSE] \in WorldProcess
  BY DEF ProcessTypes, WorldProcess
<1> QED
  BY <1>1 DEF Unlinked

LEMMA ShutdownType ==
  ASSUME TypeOK, ShutdownSequence \/ FinalizeShutdown \/ OnSignal
  PROVE  TypeOK'
PROOF
<1>1. MasterTypes /\ ProcessTypes /\ RequestTypes
  BY DEF TypeOK
<1>2. CASE ShutdownSequence
  <2>1. inst' \in [Handles -> Instance]
    <3>1. \A h \in Handles : /\ inst[h] \in Instance
                             /\ [inst[h] EXCEPT !.isShuttingDown = TRUE]
                                  \in Instance
      BY <1>1, HandleFacts DEF Instance
    <3> QED
      BY <1>2, <3>1 DEF ShutdownSequence
  <2>2. m_Instances' \subseteq Handles \cap (1..(nextHandle - 1))
    BY <1>1, <1>2 DEF ShutdownSequence, MasterTypes
  <2>3. MasterTypes'
    BY <1>1, <1>2, <2>1, <2>2 DEF ShutdownSequence, MasterTypes
  <2>4. toWorld' \in [Handles -> Seq(ToWorldMessage)]
    <3>1. \A w \in Handles :
            /\ toWorld[w] \in Seq(ToWorldMessage)
            /\ Append(toWorld[w], Msg("SHUTDOWN")) \in Seq(ToWorldMessage)
      BY <1>1, MessageTypes, AppendProperties DEF ProcessTypes
    <3> QED
      BY <1>2, <3>1 DEF ShutdownSequence
  <2>5. ProcessTypes' /\ RequestTypes'
    BY <1>1, <1>2, <2>4
       DEF ShutdownSequence, ProcessTypes, RequestTypes, requestVars
  <2> QED
    BY <2>3, <2>5 DEF TypeOK
<1>3. CASE FinalizeShutdown
  <2>1. MasterTypes'
    BY <1>1, <1>3 DEF FinalizeShutdown, MasterTypes
  <2>2. /\ world' \in [Handles -> WorldProcess]
        /\ toMaster' \in [Handles -> Seq(ToMasterMessage)]
        /\ toWorld' \in [Handles -> Seq(ToWorldMessage)]
    BY <1>1, <1>3, NoMessagesType, UnlinkedType DEF FinalizeShutdown
  <2>3. ProcessTypes' /\ RequestTypes'
    BY <1>1, <1>3, <2>2
       DEF FinalizeShutdown, ProcessTypes, RequestTypes, requestVars
  <2> QED
    BY <2>1, <2>3 DEF TypeOK
<1>4. CASE OnSignal
  BY <1>1, <1>4
     DEF OnSignal, TypeOK, MasterTypes, ProcessTypes, RequestTypes,
         masterVars, requestVars
<1> QED
  BY <1>2, <1>3, <1>4

LEMMA TimeoutType ==
  ASSUME TypeOK, NEW h \in Handles, AffirmationTimeout(h)
  PROVE  TypeOK'
PROOF
<1> DEFINE f == [inst EXCEPT ![h].isShuttingDown = TRUE, ![h].timedOut = TRUE]
           chan == SentTo(toWorld, inst[h].addr, <<Msg("SHUTDOWN")>>)
           z == <<inst[h].map, inst[h].clone>>
<1>1. MasterTypes /\ ProcessTypes /\ RequestTypes
  BY DEF TypeOK
<1>2. Dispatch({h}, {}, z, inst[h].pendingAffirmations, f, chan)
  BY DEF AffirmationTimeout
<1>3. inst[h] \in Instance
  BY <1>1, HandleFacts
<1>4. f \in [Handles -> Instance]
  <2>1. [inst[h] EXCEPT !.isShuttingDown = TRUE, !.timedOut = TRUE]
          \in Instance
    BY <1>3 DEF Instance
  <2> QED
    BY <1>1, <2>1 DEF MasterTypes
<1>5. chan \in [Handles -> Seq(ToWorldMessage)]
  <2>1. <<Msg("SHUTDOWN")>> \in Seq(ToWorldMessage)
    BY MessageTypes
  <2> QED
    BY <1>1, <2>1, SentToType DEF ProcessTypes
<1>6. /\ z[1] \in Maps /\ z[2] \in Clones
      /\ inst[h].pendingAffirmations \in Seq(Requests)
  BY <1>3 DEF Instance
<1> HIDE DEF f, chan, z
<1>7. /\ m_Instances' \subseteq Handles \cap (1..(nextHandle' - 1))
      /\ inst' \in [Handles -> Instance]
      /\ nextHandle' \in 1..(MaxInstances + 1)
      /\ m_LastInstanceID' \in InstanceIds
      /\ nullInstance' \in BOOLEAN
      /\ world' \in [Handles -> WorldProcess]
      /\ toWorld' \in [Handles -> Seq(ToWorldMessage)]
  BY <1>1, <1>2, <1>4, <1>5, <1>6, DispatchType
<1>8. /\ bounds.timeouts > 0
      /\ bounds' = [bounds EXCEPT !.timeouts = @ - 1]
      /\ UNCHANGED <<master, toMaster, transfers, responses, requestVars>>
  BY DEF AffirmationTimeout
<1>9. bounds' \in Bounds
  BY <1>1, <1>8, BoundSpent
<1>10. MasterTypes'
  BY <1>1, <1>7, <1>8 DEF MasterTypes
<1>11. ProcessTypes'
  BY <1>1, <1>7, <1>8, <1>9 DEF ProcessTypes
<1>12. RequestTypes'
  BY <1>1, <1>8 DEF RequestTypes, requestVars
<1> QED
  BY <1>10, <1>11, <1>12 DEF TypeOK

(* An instance for zone z that GetInstance or CreatePrivateInstance returns.*)
LEMMA CommandType ==
  ASSUME TypeOK, NEW z, z[1] \in Maps, z[2] \in Clones, NEW h \in Handles,
         h \in m_Instances \/ h = nextHandle,
         NEW cap \in Nat, NEW pw \in Passwords \cup {NoPassword},
         NEW a \in UninitialisedAddrs,
         bounds.commands > 0,
         bounds' = [bounds EXCEPT !.commands = @ - 1],
         m_Instances' = m_Instances \cup {h},
         StartIfNew(h, z),
         inst' = WithInstance(inst, h, z, cap, pw, a),
         UNCHANGED <<master, nullInstance, toMaster, toWorld, transfers,
                     responses, requestVars>>
  PROVE  TypeOK'
PROOF
<1>1. MasterTypes /\ ProcessTypes /\ RequestTypes
  BY DEF TypeOK
<1>2. /\ nextHandle' \in 1..(MaxInstances + 1)
      /\ nextHandle <= nextHandle'
      /\ h = nextHandle => h < nextHandle'
      /\ m_LastInstanceID' \in InstanceIds
      /\ world' \in [Handles -> WorldProcess]
  BY <1>1, StartIfNewType
<1>3. inst' \in [Handles -> Instance]
  <2>1. inst \in [Handles -> Instance]
    BY <1>1 DEF MasterTypes
  <2> QED
    BY <1>1, <2>1, WithInstanceType
<1>4. m_Instances' \subseteq Handles \cap (1..(nextHandle' - 1))
  <2>1. \A g \in m_Instances \cup {h} : /\ g \in Handles /\ g \in Nat
                                        /\ 0 < g /\ g < nextHandle'
    BY <1>1, <1>2, HandleFacts DEF Handles
  <2> QED
    BY <1>2, <2>1
<1>5. bounds' \in Bounds
  BY <1>1, BoundSpent
<1>6. MasterTypes'
  BY <1>1, <1>2, <1>3, <1>4 DEF MasterTypes
<1>7. ProcessTypes' /\ RequestTypes'
  BY <1>1, <1>2, <1>5 DEF ProcessTypes, RequestTypes, requestVars
<1> QED
  BY <1>6, <1>7 DEF TypeOK

LEMMA PrepZoneType ==
  ASSUME TypeOK, NEW map \in Maps, HandlePrepZone(map)
  PROVE  TypeOK'
PROOF
<1> DEFINE z == <<map, 0>>
           h == GetInstance({}, z)
<1>1. MasterTypes
  BY DEF TypeOK
<1>2. /\ bounds.commands > 0
      /\ bounds' = [bounds EXCEPT !.commands = @ - 1]
      /\ h \in Handles
      /\ m_Instances' = m_Instances \cup {h}
      /\ StartIfNew(h, z)
      /\ UNCHANGED <<master, nullInstance, toMaster, toWorld, transfers,
                     responses, requestVars>>
  BY DEF HandlePrepZone
<1>3. PICK a \in UninitialisedAddrs :
        inst' = WithInstance(inst, h, z, SoftCapOf(map), NoPassword, a)
  BY DEF HandlePrepZone
<1>4. h \in m_Instances \/ h = nextHandle
  BY <1>1, <1>2, GetInstanceResult, HandleFacts
<1>5. z[1] \in Maps /\ z[2] \in Clones
  BY ZoneParts
<1> HIDE DEF h, z
<1> QED
  BY <1>2, <1>3, <1>4, <1>5, SoftCapType, CommandType

LEMMA CreatePrivateType ==
  ASSUME TypeOK, NEW z \in Zones, NEW pw \in Passwords,
         HandleCreatePrivateZone(z, pw)
  PROVE  TypeOK'
PROOF
<1>1. /\ bounds.commands > 0
      /\ bounds' = [bounds EXCEPT !.commands = @ - 1]
      /\ nextHandle \in Handles
      /\ m_Instances' = m_Instances \cup {nextHandle}
      /\ StartIfNew(nextHandle, z)
      /\ UNCHANGED <<master, nullInstance, toMaster, toWorld, transfers,
                     responses, requestVars>>
  BY DEF HandleCreatePrivateZone
<1>2. PICK a \in UninitialisedAddrs :
        inst' = WithInstance(inst, nextHandle, z, MaxCapPrivate, pw, a)
  BY DEF HandleCreatePrivateZone
<1>3. z[1] \in Maps /\ z[2] \in Clones /\ MaxCapPrivate \in Nat
  BY ZoneParts DEF MaxCapPrivate
<1> QED
  BY <1>1, <1>2, <1>3, CommandType

-----------------------------------------------------------------------------
(* Type correctness: world processes, requesters, players and faults.       *)

LEMMA WorldFields ==
  ASSUME ProcessTypes, NEW w \in Handles
  PROVE  /\ [world EXCEPT ![w].state = "up", ![w].linked = TRUE]
              \in [Handles -> WorldProcess]
         /\ [world EXCEPT ![w].state = "gone"] \in [Handles -> WorldProcess]
         /\ [world EXCEPT ![w].linked = TRUE] \in [Handles -> WorldProcess]
         /\ [world EXCEPT ![w].linked = FALSE] \in [Handles -> WorldProcess]
         /\ [world EXCEPT ![w].ready = TRUE] \in [Handles -> WorldProcess]
         /\ [world EXCEPT ![w].signalled = TRUE] \in [Handles -> WorldProcess]
         /\ [world EXCEPT ![w].state = "gone", ![w].linked = FALSE]
              \in [Handles -> WorldProcess]
PROOF
<1>1. /\ world \in [Handles -> WorldProcess]
      /\ world[w] \in WorldProcess
  BY DEF ProcessTypes
<1>2. /\ [world[w] EXCEPT !.state = "up", !.linked = TRUE] \in WorldProcess
      /\ [world[w] EXCEPT !.state = "gone"] \in WorldProcess
      /\ [world[w] EXCEPT !.linked = TRUE] \in WorldProcess
      /\ [world[w] EXCEPT !.linked = FALSE] \in WorldProcess
      /\ [world[w] EXCEPT !.ready = TRUE] \in WorldProcess
      /\ [world[w] EXCEPT !.signalled = TRUE] \in WorldProcess
      /\ [world[w] EXCEPT !.state = "gone", !.linked = FALSE] \in WorldProcess
  BY <1>1 DEF WorldProcess
<1> QED
  BY <1>1, <1>2

LEMMA SendToMasterType ==
  ASSUME ProcessTypes, NEW w \in Handles,
         NEW t \in {"SERVER_INFO", "WORLD_READY", "PLAYER_ADDED",
                    "PLAYER_REMOVED", "SHUTDOWN_RESPONSE", "DISCONNECTED"}
  PROVE  [toMaster EXCEPT ![w] = Append(@, Msg(t))]
           \in [Handles -> Seq(ToMasterMessage)]
PROOF
<1>1. Append(toMaster[w], Msg(t)) \in Seq(ToMasterMessage)
  BY MessageTypes, AppendProperties DEF ProcessTypes
<1> QED
  BY <1>1 DEF ProcessTypes

(* What Gone(w) does to the requests.                                       *)
LEMMA GoneType ==
  ASSUME TypeOK, NEW w \in Handles, Gone(w)
  PROVE  /\ world' \in [Handles -> WorldProcess]
         /\ toWorld' \in [Handles -> Seq(ToWorldMessage)]
         /\ status' \in [Requests ->
                           {"idle", "waiting", "answered", "playing", "left"}]
         /\ location' \in [Requests -> {0} \cup Handles]
         /\ UNCHANGED <<target, answer>>
PROOF
<1>1. /\ world' = [world EXCEPT ![w].state = "gone", ![w].linked = FALSE]
      /\ toWorld' = [toWorld EXCEPT ![w] = <<>>]
      /\ status' = [q \in Requests |->
                      IF location[q] = w THEN "left" ELSE status[q]]
      /\ location' = [q \in Requests |->
                        IF location[q] = w THEN 0 ELSE location[q]]
      /\ UNCHANGED <<target, answer>>
  BY DEF Gone
<1>2. world' \in [Handles -> WorldProcess]
  BY <1>1, WorldFields DEF TypeOK
<1>3. toWorld' \in [Handles -> Seq(ToWorldMessage)]
  <2>1. <<>> \in Seq(ToWorldMessage)
    OBVIOUS
  <2> QED
    BY <1>1, <2>1 DEF TypeOK, ProcessTypes
<1> QED
  BY <1>1, <1>2, <1>3 DEF TypeOK, RequestTypes

(* A step of a world process that changes no request.                       *)
LEMMA WorldKeepsTypes ==
  ASSUME TypeOK,
         world' \in [Handles -> WorldProcess],
         toMaster' \in [Handles -> Seq(ToMasterMessage)],
         toWorld' \in [Handles -> Seq(ToWorldMessage)],
         bounds' \in Bounds,
         UNCHANGED <<master, masterVars, nullInstance, transfers, responses,
                     requestVars>>
  PROVE  TypeOK'
PROOF
<1>1. MasterTypes'
  BY DEF TypeOK, MasterTypes, masterVars
<1>2. ProcessTypes' /\ RequestTypes'
  BY DEF TypeOK, ProcessTypes, RequestTypes, requestVars
<1> QED
  BY <1>1, <1>2 DEF TypeOK

LEMMA WorldStepType ==
  ASSUME TypeOK, NEW w \in Handles, WorldProcessStep(w) \/ WorldFallsIdle(w)
  PROVE  TypeOK'
PROOF
<1>1. /\ ProcessTypes
      /\ world \in [Handles -> WorldProcess]
      /\ toMaster \in [Handles -> Seq(ToMasterMessage)]
      /\ toWorld \in [Handles -> Seq(ToWorldMessage)]
      /\ bounds \in Bounds
  BY DEF TypeOK, ProcessTypes
<1>2. CASE WorldStarts(w)
  <2>1. /\ world' \in [Handles -> WorldProcess]
        /\ toMaster' \in [Handles -> Seq(ToMasterMessage)]
    BY <1>1, <1>2, WorldFields, SendToMasterType DEF WorldStarts
  <2> QED
    BY <1>1, <1>2, <2>1, WorldKeepsTypes DEF WorldStarts
<1>3. CASE WorldFailsToStart(w)
  <2>1. world' \in [Handles -> WorldProcess]
    BY <1>1, <1>3, WorldFields DEF WorldFailsToStart
  <2> QED
    BY <1>1, <1>3, <2>1, WorldKeepsTypes DEF WorldFailsToStart
<1>4. CASE WorldReconnects(w)
  <2>1. /\ world' \in [Handles -> WorldProcess]
        /\ toMaster' \in [Handles -> Seq(ToMasterMessage)]
    BY <1>1, <1>4, WorldFields, SendToMasterType DEF WorldReconnects
  <2> QED
    BY <1>1, <1>4, <2>1, WorldKeepsTypes DEF WorldReconnects
<1>5. CASE WorldBecomesReady(w)
  <2>1. /\ world' \in [Handles -> WorldProcess]
        /\ toMaster' \in [Handles -> Seq(ToMasterMessage)]
    BY <1>1, <1>5, WorldFields, SendToMasterType DEF WorldBecomesReady
  <2> QED
    BY <1>1, <1>5, <2>1, WorldKeepsTypes DEF WorldBecomesReady
<1>6. ASSUME NEW type, WorldReads(w, type)
      PROVE  /\ toWorld' \in [Handles -> Seq(ToWorldMessage)]
             /\ Head(toWorld[w]) \in ToWorldMessage
             /\ UNCHANGED <<master, masterVars, nullInstance, transfers,
                            responses, requestVars, bounds>>
  <2>1. toWorld[w] \in Seq(ToWorldMessage) /\ toWorld[w] # <<>>
    BY <1>1, <1>6 DEF WorldReads
  <2>2. /\ Tail(toWorld[w]) \in Seq(ToWorldMessage)
        /\ Head(toWorld[w]) \in ToWorldMessage
    BY <2>1
  <2> QED
    BY <1>1, <1>6, <2>2 DEF WorldReads
<1>7. CASE WorldAffirms(w)
  <2>1. WorldReads(w, "AFFIRM_TRANSFER_REQUEST") /\ UNCHANGED world
    BY <1>7 DEF WorldAffirms
  <2>2. <<AffirmResponse(Head(toWorld[w]).requestID)>> \in Seq(ToMasterMessage)
    <3>1. Head(toWorld[w]).requestID \in Nat
      BY <1>6, <2>1 DEF ToWorldMessage
    <3> QED
      BY <3>1, MessageTypes
  <2>3. toMaster' \in [Handles -> Seq(ToMasterMessage)]
    BY <1>1, <1>7, <2>2, ToMasterType DEF WorldAffirms
  <2> QED
    BY <1>1, <1>6, <2>1, <2>3, WorldKeepsTypes
<1>8. CASE WorldReceivesShutdown(w)
  <2>1. /\ WorldReads(w, "SHUTDOWN")
        /\ UNCHANGED toMaster
        /\ world' \in [Handles -> WorldProcess]
    BY <1>1, <1>8, WorldFields DEF WorldReceivesShutdown
  <2> QED
    BY <1>1, <1>6, <2>1, WorldKeepsTypes
<1>9. CASE WorldMissesMaster(w) \/ WorldFallsIdle(w)
  <2>1. SignalsItself(w)
    BY <1>9 DEF WorldMissesMaster, WorldFallsIdle
  <2>2. world' \in [Handles -> WorldProcess]
    BY <1>1, <2>1, WorldFields DEF SignalsItself
  <2>3. bounds' \in Bounds
    BY <1>1, <1>9, BoundSpent DEF WorldMissesMaster, WorldFallsIdle
  <2> QED
    BY <1>1, <2>1, <2>2, <2>3, WorldKeepsTypes DEF SignalsItself
<1>10. CASE WorldExits(w)
  <2>1. /\ Gone(w)
        /\ ToMaster(w, <<Msg("SHUTDOWN_RESPONSE"), Msg("DISCONNECTED")>>)
        /\ UNCHANGED <<master, masterVars, nullInstance, transfers, responses,
                       bounds>>
    BY <1>10 DEF WorldExits
  <2>2. <<Msg("SHUTDOWN_RESPONSE"), Msg("DISCONNECTED")>>
          \in Seq(ToMasterMessage)
    BY MessageTypes
  <2>3. toMaster' \in [Handles -> Seq(ToMasterMessage)]
    BY <1>1, <2>1, <2>2, ToMasterType
  <2>4. MasterTypes'
    BY <2>1 DEF TypeOK, MasterTypes, masterVars
  <2>5. ProcessTypes'
    BY <1>1, <2>1, <2>3, GoneType DEF ProcessTypes
  <2>6. RequestTypes'
    BY <2>1, GoneType DEF TypeOK, RequestTypes, Gone
  <2> QED
    BY <2>4, <2>5, <2>6 DEF TypeOK
<1> QED
  BY <1>2, <1>3, <1>4, <1>5, <1>7, <1>8, <1>9, <1>10 DEF WorldProcessStep

LEMMA RequesterType ==
  ASSUME TypeOK, RequesterStep
  PROVE  TypeOK'
PROOF
<1>1. MasterTypes /\ ProcessTypes /\ RequestTypes
  BY DEF TypeOK
<1>2. ASSUME NEW q \in Requests, NEW t \in Zones \cup Passwords,
             RequestTransfer(q, t)
      PROVE  TypeOK'
  <2>1. MasterTypes' /\ ProcessTypes'
    BY <1>1, <1>2 DEF RequestTransfer, MasterTypes, ProcessTypes, masterVars
  <2>2. RequestTypes'
    <3>1. [req |-> q, target |-> t] \in [req: Requests,
                                         target: Zones \cup Passwords]
      OBVIOUS
    <3> QED
      BY <1>1, <1>2, <3>1 DEF RequestTransfer, RequestTypes
  <2> QED
    BY <2>1, <2>2 DEF TypeOK
<1>3. ASSUME NEW m \in responses, HandleTransferResponse(m)
      PROVE  TypeOK'
  <2>1. MasterTypes' /\ ProcessTypes'
    BY <1>1, <1>3
       DEF HandleTransferResponse, MasterTypes, ProcessTypes, masterVars
  <2>2. m.req \in Requests /\ m.answer \in Answer
    BY <1>1 DEF RequestTypes
  <2>3. RequestTypes'
    BY <1>1, <1>3, <2>2 DEF HandleTransferResponse, RequestTypes
  <2> QED
    BY <2>1, <2>3 DEF TypeOK
<1> QED
  BY <1>2, <1>3 DEF RequesterStep

LEMMA PlayerType ==
  ASSUME TypeOK, PlayerStep
  PROVE  TypeOK'
PROOF
<1>1. MasterTypes /\ ProcessTypes /\ RequestTypes
  BY DEF TypeOK
<1>2. ASSUME NEW q \in Requests, NEW w \in Handles, NEW c \in BOOLEAN,
             PlayerJoins(q, w, c)
      PROVE  TypeOK'
  <2>1. <<Msg("PLAYER_ADDED")>> \in Seq(ToMasterMessage)
    BY MessageTypes
  <2>2. toMaster' \in [Handles -> Seq(ToMasterMessage)]
    BY <1>1, <1>2, <2>1, ToMasterType DEF PlayerJoins
  <2>3. MasterTypes' /\ ProcessTypes'
    BY <1>1, <1>2, <2>2 DEF PlayerJoins, MasterTypes, ProcessTypes, masterVars
  <2>4. RequestTypes'
    <3>1. CASE c
      BY <1>1, <1>2, <3>1 DEF PlayerJoins, RequestTypes
    <3>2. CASE ~c
      BY <1>1, <1>2, <3>2 DEF PlayerJoins, RequestTypes
    <3> QED
      BY <3>1, <3>2
  <2> QED
    BY <2>3, <2>4 DEF TypeOK
<1>3. ASSUME NEW q \in Requests, NEW c \in BOOLEAN, PlayerLeaves(q, c)
      PROVE  TypeOK'
  <2>1. toMaster' \in [Handles -> Seq(ToMasterMessage)]
    <3>1. CASE c
      <4>1. ToMaster(location[q], <<Msg("PLAYER_REMOVED")>>)
        BY <1>3, <3>1 DEF PlayerLeaves
      <4>2. <<Msg("PLAYER_REMOVED")>> \in Seq(ToMasterMessage)
        BY MessageTypes
      <4>3. CASE location[q] \in Handles
        BY <1>1, <4>1, <4>2, <4>3, ToMasterType
      <4>4. CASE location[q] \notin Handles
        BY <1>1, <4>1, <4>4 DEF ToMaster, ProcessTypes
      <4> QED
        BY <4>3, <4>4
    <3>2. CASE ~c
      BY <1>1, <1>3, <3>2 DEF PlayerLeaves, ProcessTypes
    <3> QED
      BY <3>1, <3>2
  <2>2. MasterTypes' /\ ProcessTypes'
    BY <1>1, <1>3, <2>1 DEF PlayerLeaves, MasterTypes, ProcessTypes, masterVars
  <2>3. RequestTypes'
    <3>1. ghosts' \in [Handles -> Nat]
      <4>1. CASE c
        BY <1>1, <1>3, <4>1 DEF PlayerLeaves, RequestTypes
      <4>2. CASE ~c
        <5>1. ghosts' = [ghosts EXCEPT ![location[q]] = @ + 1]
          BY <1>3, <4>2 DEF PlayerLeaves
        <5>2. ghosts \in [Handles -> Nat]
          BY <1>1 DEF RequestTypes
        <5>3. CASE location[q] \in Handles
          BY <5>1, <5>2, <5>3
        <5>4. CASE location[q] \notin Handles
          BY <5>1, <5>2, <5>4
        <5> QED
          BY <5>3, <5>4
      <4> QED
        BY <4>1, <4>2
    <3> QED
      BY <1>1, <1>3, <3>1 DEF PlayerLeaves, RequestTypes
  <2> QED
    BY <2>2, <2>3 DEF TypeOK
<1> QED
  BY <1>2, <1>3 DEF PlayerStep

LEMMA FaultType ==
  ASSUME TypeOK, FaultStep
  PROVE  TypeOK'
PROOF
<1>1. MasterTypes /\ ProcessTypes /\ RequestTypes
  BY DEF TypeOK
<1>2. ASSUME NEW w \in Handles, WorldCrashes(w)
      PROVE  TypeOK'
  <2>1. /\ Gone(w)
        /\ IF world[w].linked THEN CutOff(w) ELSE UNCHANGED toMaster
        /\ UNCHANGED <<master, masterVars, nullInstance, transfers, responses>>
    BY <1>2 DEF WorldCrashes
  <2>2. toMaster' \in [Handles -> Seq(ToMasterMessage)]
    BY <1>1, <2>1, CutOffType DEF ProcessTypes
  <2>3. bounds' \in Bounds
    BY <1>1, <1>2, BoundSpent DEF WorldCrashes
  <2>4. MasterTypes'
    BY <1>1, <2>1 DEF MasterTypes, masterVars
  <2>5. ProcessTypes'
    BY <2>1, <2>2, <2>3, GoneType DEF ProcessTypes
  <2>6. RequestTypes'
    BY <1>1, <2>1, GoneType DEF RequestTypes, Gone
  <2> QED
    BY <2>4, <2>5, <2>6 DEF TypeOK
<1>3. ASSUME NEW w \in Handles, ConnectionLost(w)
      PROVE  TypeOK'
  <2>1. /\ world' \in [Handles -> WorldProcess]
        /\ toMaster' \in [Handles -> Seq(ToMasterMessage)]
        /\ bounds' \in Bounds
    BY <1>1, <1>3, WorldFields, CutOffType, BoundSpent DEF ConnectionLost
  <2>2. toWorld' \in [Handles -> Seq(ToWorldMessage)]
    <3>1. <<>> \in Seq(ToWorldMessage)
      OBVIOUS
    <3> QED
      BY <1>1, <1>3, <3>1 DEF ConnectionLost, ProcessTypes
  <2> QED
    BY <1>3, <2>1, <2>2, WorldKeepsTypes DEF ConnectionLost
<1>4. CASE MasterRestarts
  <2>1. MasterTypes'
    BY <1>1, <1>4, BlankType, InvalidIdType DEF MasterRestarts, MasterTypes
  <2>2. /\ world' \in [Handles -> WorldProcess]
        /\ toMaster' \in [Handles -> Seq(ToMasterMessage)]
        /\ toWorld' \in [Handles -> Seq(ToWorldMessage)]
    BY <1>1, <1>4, NoMessagesType, UnlinkedType DEF MasterRestarts
  <2>3. bounds' \in Bounds
    BY <1>1, <1>4, BoundSpent DEF MasterRestarts
  <2>4. ProcessTypes'
    BY <2>2, <2>3 DEF ProcessTypes
  <2>5. RequestTypes'
    BY <1>1, <1>4 DEF MasterRestarts, RequestTypes, requestVars
  <2> QED
    BY <2>1, <2>4, <2>5 DEF TypeOK
<1> QED
  BY <1>2, <1>3, <1>4 DEF FaultStep

LEMMA TypeInit == Init => TypeOK
PROOF
<1> SUFFICES ASSUME Init PROVE TypeOK
  OBVIOUS
<1>1. MasterTypes
  <2>1. nextHandle \in 1..(MaxInstances + 1)
    BY ConstantsAssumption DEF Init
  <2>2. inst \in [Handles -> Instance]
    BY BlankType DEF Init
  <2>3. m_LastInstanceID \in InstanceIds
    BY InvalidIdType DEF Init
  <2> QED
    BY <2>1, <2>2, <2>3 DEF Init, MasterTypes
<1>2. ProcessTypes
  <2>1. world \in [Handles -> WorldProcess]
    BY BlankType DEF Init
  <2>2. /\ toMaster \in [Handles -> Seq(ToMasterMessage)]
        /\ toWorld \in [Handles -> Seq(ToWorldMessage)]
    BY NoMessagesType DEF Init
  <2>3. bounds \in Bounds
    BY ConstantsAssumption DEF Init, Bounds
  <2> QED
    BY <2>1, <2>2, <2>3 DEF ProcessTypes
<1>3. RequestTypes
  BY DEF Init, RequestTypes
<1> QED
  BY <1>1, <1>2, <1>3 DEF TypeOK

LEMMA TypeNext == TypeOK /\ [Next]_vars => TypeOK'
PROOF
<1> SUFFICES ASSUME TypeOK, [Next]_vars PROVE TypeOK'
  OBVIOUS
<1>1. CASE MasterStep
  BY <1>1, TransferType, WorldPacketType, ShutdownType DEF MasterStep
<1>2. CASE TimerStep
  BY <1>2, TimeoutType, WorldStepType DEF TimerStep
<1>3. CASE CommandStep
  BY <1>3, PrepZoneType, CreatePrivateType, ShutdownType DEF CommandStep
<1>4. ASSUME NEW w \in Handles, WorldProcessStep(w) PROVE TypeOK'
  BY <1>4, WorldStepType
<1>5. CASE RequesterStep
  BY <1>5, RequesterType
<1>6. CASE PlayerStep
  BY <1>6, PlayerType
<1>7. CASE FaultStep
  BY <1>7, FaultType
<1>8. CASE UNCHANGED vars
  BY <1>8 DEF vars, TypeOK, MasterTypes, ProcessTypes, RequestTypes,
              masterVars, requestVars
<1> QED
  BY <1>1, <1>2, <1>3, <1>4, <1>5, <1>6, <1>7, <1>8 DEF Next

(* Everything the master, the world processes and the requesters keep has   *)
(* its type in every reachable state, whatever the constants are: no        *)
(* instance id leaves its 16 bits, no client count goes below zero, and no  *)
(* lookup yields an Instance that was never created.                        *)
THEOREM TypeCorrect == Spec => []TypeOK
PROOF
<1> QED
  BY TypeInit, TypeNext, PTL DEF Spec

-----------------------------------------------------------------------------
(* What a step may do to the Instance h.                                    *)

Rested(h) ==
  /\ inst'[h].ready = inst[h].ready
  /\ inst'[h].pendingRequests = inst[h].pendingRequests
  /\ inst'[h].pendingAffirmations = inst[h].pendingAffirmations
  /\ inst[h].isShuttingDown => inst'[h].clients = inst[h].clients

BecameReady(h) ==
  /\ ~inst[h].isShuttingDown
  /\ inst'[h].ready
  /\ inst'[h].pendingRequests = <<>>
  /\ inst'[h].pendingAffirmations = inst[h].pendingAffirmations

WasAnswered(h) ==
  /\ inst'[h].ready = inst[h].ready
  /\ inst'[h].pendingRequests = inst[h].pendingRequests
  /\ inst[h].pendingAffirmations # <<>>
  /\ Len(inst'[h].pendingAffirmations) = Len(inst[h].pendingAffirmations) - 1
  /\ inst'[h].clients = inst[h].clients

WasHanded(h) ==
  /\ ~inst[h].isShuttingDown
  /\ inst'[h].ready = inst[h].ready
  /\ inst[h].ready => inst'[h].pendingRequests = inst[h].pendingRequests
  /\ ~inst[h].ready =>
       inst'[h].pendingAffirmations = inst[h].pendingAffirmations

Kept(h) ==
  /\ inst'[h].port = inst[h].port
  /\ Rested(h) \/ BecameReady(h) \/ WasAnswered(h) \/ WasHanded(h)

(* A new Instance has a free port, or the unused one of a world that wrote. *)
Created(h) ==
  /\ ~inst'[h].ready
  /\ inst'[h].pendingAffirmations = <<>>
  /\ \/ inst'[h].port = GetFreePort
     \/ /\ ~IsPortInUse(inst'[h].port)
        /\ \E w \in Handles : toMaster[w] # <<>>
                              /\ inst'[h].port = world[w].port

Evolves ==
  \A h \in m_Instances' :
    \/ h \in m_Instances /\ Kept(h)
    \/ h \notin m_Instances /\ h = nextHandle /\ Created(h)

LEMMA UnchangedEvolves ==
  ASSUME m_Instances' \subseteq m_Instances,
         \A h \in m_Instances' : inst'[h] = inst[h]
  PROVE  Evolves
BY DEF Evolves, Kept, Rested

(* What GetInstance returns takes what it is handed; the rest rests.        *)
LEMMA DispatchEvolves ==
  ASSUME MasterTypes, NEW X, NEW erased, NEW z, NEW reqs, NEW chan,
         NEW f \in [Handles -> Instance],
         \A h \in m_Instances :
           /\ f[h].port = inst[h].port
           /\ f[h].ready = inst[h].ready
           /\ f[h].clients = inst[h].clients
           /\ f[h].pendingRequests = inst[h].pendingRequests
           /\ f[h].pendingAffirmations = inst[h].pendingAffirmations,
         Dispatch(X, erased, z, reqs, f, chan)
  PROVE  Evolves
PROOF
<1> DEFINE h == GetInstance(X, z)
<1>1. \/ h \in m_Instances /\ ~inst[h].isShuttingDown
      \/ h = nextHandle
      \/ h = NoHandle
  BY GetInstanceResult, HandleFacts DEF Joinable
<1>2. CASE h = NoHandle
  <2>1. m_Instances' = m_Instances \ erased /\ inst' = f
    BY <1>2 DEF Dispatch
  <2> QED
    BY <2>1 DEF Evolves, Kept, Rested
<1>3. CASE h # NoHandle
  <2>1. m_Instances' = (m_Instances \ erased) \cup {h} /\ h \in Handles
    BY <1>3 DEF Dispatch
  <2>2. PICK a \in UninitialisedAddrs :
          inst' = Enqueued(
            WithInstance(f, h, z, SoftCapOf(z[1]), NoPassword, a), h, reqs)
    BY <1>3 DEF Dispatch
  <2> DEFINE i == WithInstance(f, h, z, SoftCapOf(z[1]), NoPassword, a)
  <2>3. \A g \in m_Instances : g \in Handles /\ g # nextHandle
    BY HandleFacts
  <2>4. /\ DOMAIN i = Handles
        /\ \A g \in m_Instances : i[g] = f[g]
        /\ h = nextHandle => /\ ~i[h].ready
                             /\ i[h].pendingAffirmations = <<>>
                             /\ i[h].port = GetFreePort
    <3> HIDE DEF h
    <3> QED
      BY <2>1, <2>3 DEF WithInstance, NewInstance
  <2>5. inst' = IF i[h].ready
                THEN [i EXCEPT ![h].pendingAffirmations = @ \o reqs]
                ELSE [i EXCEPT ![h].pendingRequests = @ \o reqs]
    BY <2>2 DEF Enqueued
  <2> HIDE DEF h, i
  <2>6. ASSUME NEW g \in m_Instances, g # h PROVE Kept(g)
    <3>1. inst'[g] = f[g]
      BY <2>3, <2>4, <2>5, <2>6
    <3> QED
      BY <3>1 DEF Kept, Rested
  <2>7. CASE h \in m_Instances /\ ~inst[h].isShuttingDown
    <3>1. /\ inst'[h].port = f[h].port
          /\ inst'[h].ready = f[h].ready
          /\ f[h].ready => inst'[h].pendingRequests = f[h].pendingRequests
          /\ ~f[h].ready =>
               inst'[h].pendingAffirmations = f[h].pendingAffirmations
      BY <2>1, <2>4, <2>5, <2>7
    <3>2. Kept(h)
      BY <2>7, <3>1 DEF Kept, WasHanded
    <3> QED
      BY <2>1, <2>6, <2>7, <3>2 DEF Evolves
  <2>8. CASE h = nextHandle
    <3>1. h \notin m_Instances
      BY <2>8, HandleFacts
    <3>2. /\ ~inst'[h].ready
          /\ inst'[h].pendingAffirmations = <<>>
          /\ inst'[h].port = GetFreePort
      BY <2>1, <2>4, <2>5, <2>8
    <3>3. Created(h)
      BY <3>2 DEF Created
    <3> QED
      BY <2>1, <2>6, <2>8, <3>1, <3>3 DEF Evolves
  <2> QED
    BY <1>1, <1>3, <2>7, <2>8
<1> QED
  BY <1>2, <1>3

LEMMA RemoveInstanceEvolves ==
  ASSUME MasterTypes, NEW h \in m_Instances, RemoveInstance(h)
  PROVE  Evolves
PROOF
<1>1. CASE ShouldShutdown \/ inst[h].pendingAffirmations = <<>>
  BY <1>1, UnchangedEvolves DEF RemoveInstance
<1>2. CASE ~(ShouldShutdown \/ inst[h].pendingAffirmations = <<>>)
  <2> DEFINE z == <<inst[h].map, inst[h].clone>>
  <2>1. Dispatch({h}, {h}, z, inst[h].pendingAffirmations, inst, toWorld)
    BY <1>2 DEF RemoveInstance
  <2>2. inst \in [Handles -> Instance]
    BY DEF MasterTypes
  <2> HIDE DEF z
  <2> QED
    BY <2>1, <2>2, DispatchEvolves
<1> QED
  BY <1>1, <1>2

-----------------------------------------------------------------------------
(* Every step of the master.                                                *)

LEMMA TransferEvolves ==
  ASSUME MasterTypes, NEW t \in transfers,
         HandleRequestZoneTransfer(t) \/ HandleRequestPrivateZone(t)
  PROVE  Evolves
PROOF
<1>1. CASE HandleRequestZoneTransfer(t)
  <2>1. CASE m_IsShuttingDown
    BY <1>1, <2>1, UnchangedEvolves DEF HandleRequestZoneTransfer, masterVars
  <2>2. CASE ~m_IsShuttingDown
    <3>1. Dispatch({}, {}, t.target, <<t.req>>, inst, toWorld)
      BY <1>1, <2>2 DEF HandleRequestZoneTransfer
    <3>2. inst \in [Handles -> Instance]
      BY DEF MasterTypes
    <3> QED
      BY <3>1, <3>2, DispatchEvolves
  <2> QED
    BY <2>1, <2>2
<1>2. CASE HandleRequestPrivateZone(t)
  BY <1>2, UnchangedEvolves DEF HandleRequestPrivateZone, masterVars
<1> QED
  BY <1>1, <1>2

LEMMA WorldPacketEvolves ==
  ASSUME MasterTypes, ProcessTypes, NEW w \in Handles, HandleWorldPacket(w)
  PROVE  Evolves
PROOF
<1> DEFINE byId == FindInstanceById(world[w].map, world[w].id)
           byAddr == GetInstanceBySysAddr(world[w].port)
<1>1. byId # NoHandle => byId \in m_Instances /\ ~inst[byId].isShuttingDown
  BY FoundById
<1>2. byAddr # NoHandle => byAddr \in m_Instances
  BY FoundBySysAddr
<1>3. /\ inst \in [Handles -> Instance]
      /\ \A g \in m_Instances : g \in Handles /\ g # nextHandle
  BY HandleFacts DEF MasterTypes
<1> HIDE DEF byId, byAddr
<1>4. CASE HandleServerInfo(w)
  <2>1. CASE IsPortInUse(world[w].port)
    <3>1. /\ inst' = IF byId = NoHandle THEN inst
                     ELSE [inst EXCEPT ![byId].addr = world[w].port]
          /\ UNCHANGED m_Instances
      BY <1>4, <2>1 DEF HandleServerInfo, byId
    <3> QED
      BY <1>3, <3>1 DEF Evolves, Kept, Rested
  <2>2. CASE ~IsPortInUse(world[w].port)
    <3> DEFINE new == NewInstance(world[w].map, 0, world[w].id, world[w].port,
                                  MaxCapAddedBack, NoPassword, world[w].port)
    <3>1. /\ nextHandle \in Handles
          /\ m_Instances' = m_Instances \cup {nextHandle}
          /\ inst' = [inst EXCEPT ![nextHandle] = new]
          /\ toMaster[w] # <<>>
      BY <1>4, <2>2 DEF HandleServerInfo, Receive
    <3>2. /\ ~new.ready
          /\ new.pendingAffirmations = <<>>
          /\ new.port = world[w].port
      BY DEF NewInstance
    <3> HIDE DEF new
    <3>3. Created(nextHandle)
      BY <1>3, <2>2, <3>1, <3>2 DEF Created
    <3>4. \A g \in m_Instances : Kept(g)
      BY <1>3, <3>1 DEF Kept, Rested
    <3> QED
      BY <1>3, <3>1, <3>3, <3>4 DEF Evolves
  <2> QED
    BY <2>1, <2>2
<1>5. CASE HandleWorldReady(w)
  <2>1. /\ UNCHANGED m_Instances
        /\ \/ inst' = inst
           \/ /\ byId # NoHandle
              /\ inst' = [inst EXCEPT ![byId].ready = TRUE,
                                      ![byId].pendingRequests = <<>>]
    BY <1>5 DEF HandleWorldReady, byId
  <2>2. CASE inst' = inst
    BY <2>1, <2>2, UnchangedEvolves
  <2>3. CASE inst' # inst
    <3>1. /\ byId # NoHandle
          /\ inst' = [inst EXCEPT ![byId].ready = TRUE,
                                  ![byId].pendingRequests = <<>>]
      BY <2>1, <2>3
    <3>2. /\ inst'[byId].ready
          /\ inst'[byId].pendingRequests = <<>>
          /\ inst'[byId].pendingAffirmations = inst[byId].pendingAffirmations
          /\ inst'[byId].port = inst[byId].port
          /\ \A g \in m_Instances \ {byId} : inst'[g] = inst[g]
      BY <1>1, <1>3, <3>1
    <3>3. Kept(byId)
      BY <1>1, <3>1, <3>2 DEF Kept, BecameReady
    <3>4. \A g \in m_Instances \ {byId} : Kept(g)
      BY <3>2 DEF Kept, Rested
    <3> QED
      BY <2>1, <3>3, <3>4 DEF Evolves
  <2> QED
    BY <2>2, <2>3
<1>6. CASE HandleAffirmTransferResponse(w)
  <2> DEFINE pending == inst[byAddr].pendingAffirmations
             id == Head(toMaster[w]).requestID
             matches == {i \in DOMAIN pending : pending[i][2] = id}
             rest == RemoveAt(pending, Min(matches))
  <2>1. UNCHANGED m_Instances
    BY <1>6 DEF HandleAffirmTransferResponse
  <2>2. CASE byAddr = NoHandle \/ matches = {}
    <3>1. inst' = inst
      BY <1>6, <2>2 DEF HandleAffirmTransferResponse, byAddr
    <3> QED
      BY <2>1, <3>1, UnchangedEvolves
  <2>3. CASE ~(byAddr = NoHandle \/ matches = {})
    <3>1. inst' = [inst EXCEPT ![byAddr].pendingAffirmations = rest,
                               ![byAddr].timedOut = @ /\ rest # <<>>]
      BY <1>6, <2>3 DEF HandleAffirmTransferResponse, byAddr
    <3>2. pending \in Seq(Requests)
      BY <1>2, <1>3, <2>3 DEF Instance
    <3>3. Min(matches) \in 1..Len(pending)
      <4>1. matches \in SUBSET (1..Len(pending)) /\ matches # {}
        BY <2>3, <3>2
      <4>2. matches \in SUBSET Nat
        <5> HIDE DEF matches, pending
        <5> QED
          BY <4>1
      <4> HIDE DEF matches
      <4> QED
        BY <4>1, <4>2, MinOfNats
    <3>4. Len(rest) = Len(pending) - 1 /\ pending # <<>>
      <4> HIDE DEF pending, matches
      <4> QED
        BY <3>2, <3>3, RemoveAtProperties
    <3> HIDE DEF rest
    <3>5. /\ inst'[byAddr].pendingAffirmations = rest
          /\ inst'[byAddr].ready = inst[byAddr].ready
          /\ inst'[byAddr].port = inst[byAddr].port
          /\ inst'[byAddr].clients = inst[byAddr].clients
          /\ inst'[byAddr].pendingRequests = inst[byAddr].pendingRequests
          /\ \A g \in m_Instances \ {byAddr} : inst'[g] = inst[g]
      BY <1>2, <1>3, <2>3, <3>1
    <3>6. Kept(byAddr)
      BY <3>4, <3>5 DEF Kept, WasAnswered
    <3>7. \A g \in m_Instances \ {byAddr} : Kept(g)
      BY <3>5 DEF Kept, Rested
    <3> QED
      BY <2>1, <3>6, <3>7 DEF Evolves
  <2> QED
    BY <2>2, <2>3
<1>7. CASE HandlePlayerAdded(w) \/ HandlePlayerRemoved(w)
  <2>1. /\ UNCHANGED m_Instances
        /\ \/ inst' = inst
           \/ byId # NoHandle /\ \E n : inst' = [inst EXCEPT ![byId].clients = n]
    BY <1>7 DEF HandlePlayerAdded, HandlePlayerRemoved, byId
  <2>2. CASE inst' = inst
    BY <2>1, <2>2, UnchangedEvolves
  <2>3. CASE inst' # inst
    <3>1. PICK n : byId # NoHandle /\ inst' = [inst EXCEPT ![byId].clients = n]
      BY <2>1, <2>3
    <3>2. /\ inst'[byId].port = inst[byId].port
          /\ inst'[byId].ready = inst[byId].ready
          /\ inst'[byId].pendingRequests = inst[byId].pendingRequests
          /\ inst'[byId].pendingAffirmations = inst[byId].pendingAffirmations
          /\ \A g \in m_Instances \ {byId} : inst'[g] = inst[g]
      BY <1>1, <1>3, <3>1
    <3>3. \A g \in m_Instances : Kept(g)
      BY <1>1, <3>1, <3>2 DEF Kept, Rested
    <3> QED
      BY <2>1, <3>3 DEF Evolves
  <2> QED
    BY <2>2, <2>3
<1>8. CASE HandleShutdownResponse(w)
  <2>1. /\ UNCHANGED m_Instances
        /\ \/ inst' = inst
           \/ /\ byAddr # NoHandle
              /\ inst' = [inst EXCEPT ![byAddr].isShuttingDown = TRUE]
    BY <1>8 DEF HandleShutdownResponse, byAddr
  <2>2. CASE inst' = inst
    BY <2>1, <2>2, UnchangedEvolves
  <2>3. CASE inst' # inst
    <3>1. /\ byAddr # NoHandle
          /\ inst' = [inst EXCEPT ![byAddr].isShuttingDown = TRUE]
      BY <2>1, <2>3
    <3>2. /\ inst'[byAddr].port = inst[byAddr].port
          /\ inst'[byAddr].ready = inst[byAddr].ready
          /\ inst'[byAddr].clients = inst[byAddr].clients
          /\ inst'[byAddr].pendingRequests = inst[byAddr].pendingRequests
          /\ inst'[byAddr].pendingAffirmations
               = inst[byAddr].pendingAffirmations
          /\ \A g \in m_Instances \ {byAddr} : inst'[g] = inst[g]
      BY <1>2, <1>3, <3>1
    <3>3. \A g \in m_Instances : Kept(g)
      BY <3>2 DEF Kept, Rested
    <3> QED
      BY <2>1, <3>3 DEF Evolves
  <2> QED
    BY <2>2, <2>3
<1>9. CASE HandleDisconnected(w)
  <2>1. CASE byAddr = NoHandle
    BY <1>9, <2>1, UnchangedEvolves DEF HandleDisconnected, byAddr, masterVars
  <2>2. CASE byAddr # NoHandle
    <3>1. RemoveInstance(byAddr)
      BY <1>9, <2>2 DEF HandleDisconnected, byAddr
    <3> QED
      BY <1>2, <2>2, <3>1, RemoveInstanceEvolves
  <2> QED
    BY <2>1, <2>2
<1> QED
  BY <1>4, <1>5, <1>6, <1>7, <1>8, <1>9 DEF HandleWorldPacket

LEMMA ShutdownEvolves ==
  ASSUME MasterTypes, ShutdownSequence \/ FinalizeShutdown \/ OnSignal
  PROVE  Evolves
PROOF
<1>1. CASE ShutdownSequence
  <2>1. ASSUME NEW h \in m_Instances PROVE Kept(h)
    <3>1. h \in Handles /\ inst[h] \in Instance
      BY HandleFacts
    <3>2. \/ inst'[h] = inst[h]
          \/ inst'[h] = [inst[h] EXCEPT !.isShuttingDown = TRUE]
      BY <1>1, <3>1 DEF ShutdownSequence
    <3>3. /\ inst'[h].port = inst[h].port
          /\ inst'[h].ready = inst[h].ready
          /\ inst'[h].clients = inst[h].clients
          /\ inst'[h].pendingRequests = inst[h].pendingRequests
          /\ inst'[h].pendingAffirmations = inst[h].pendingAffirmations
      BY <3>1, <3>2 DEF Instance
    <3> QED
      BY <3>3 DEF Kept, Rested
  <2>2. m_Instances' \subseteq m_Instances
    BY <1>1 DEF ShutdownSequence
  <2> QED
    BY <2>1, <2>2 DEF Evolves
<1>2. CASE FinalizeShutdown
  BY <1>2 DEF FinalizeShutdown, Evolves
<1>3. CASE OnSignal
  BY <1>3, UnchangedEvolves DEF OnSignal, masterVars
<1> QED
  BY <1>1, <1>2, <1>3

LEMMA TimeoutEvolves ==
  ASSUME MasterTypes, NEW h \in Handles, AffirmationTimeout(h)
  PROVE  Evolves
PROOF
<1> DEFINE f == [inst EXCEPT ![h].isShuttingDown = TRUE, ![h].timedOut = TRUE]
           z == <<inst[h].map, inst[h].clone>>
           chan == SentTo(toWorld, inst[h].addr, <<Msg("SHUTDOWN")>>)
<1>1. Dispatch({h}, {}, z, inst[h].pendingAffirmations, f, chan)
  BY DEF AffirmationTimeout
<1>2. inst \in [Handles -> Instance]
  BY DEF MasterTypes
<1>3. f[h] \in Instance
      /\ f[h].port = inst[h].port
      /\ f[h].ready = inst[h].ready
      /\ f[h].clients = inst[h].clients
      /\ f[h].pendingRequests = inst[h].pendingRequests
      /\ f[h].pendingAffirmations = inst[h].pendingAffirmations
  <2>1. inst[h] \in Instance
    BY <1>2
  <2>2. f[h] = [inst[h] EXCEPT !.isShuttingDown = TRUE, !.timedOut = TRUE]
    BY <1>2
  <2> HIDE DEF f
  <2> QED
    BY <2>1, <2>2 DEF Instance
<1>4. \A g \in Handles \ {h} : f[g] = inst[g]
  BY <1>2
<1>5. f \in [Handles -> Instance]
  BY <1>2, <1>3, <1>4
<1>6. m_Instances \subseteq Handles
  BY HandleFacts
<1> HIDE DEF f, z, chan
<1> QED
  BY <1>1, <1>3, <1>4, <1>5, <1>6, DispatchEvolves

(* A slash command makes GetInstance or CreatePrivateInstance return h.     *)
LEMMA CommandEvolves ==
  ASSUME MasterTypes, NEW z, NEW h \in Handles, NEW cap, NEW pw, NEW a,
         h \in m_Instances \/ h = nextHandle,
         m_Instances' = m_Instances \cup {h},
         inst' = WithInstance(inst, h, z, cap, pw, a)
  PROVE  Evolves
PROOF
<1> DEFINE new == NewInstance(z[1], z[2], NextInstanceId, GetFreePort,
                              cap, pw, a)
<1>1. /\ inst \in [Handles -> Instance]
      /\ \A g \in m_Instances : g \in Handles /\ g # nextHandle
  BY HandleFacts DEF MasterTypes
<1>2. CASE h # nextHandle
  <2>1. inst' = inst /\ m_Instances' = m_Instances
    BY <1>2 DEF WithInstance
  <2> QED
    BY <2>1, UnchangedEvolves
<1>3. CASE h = nextHandle
  <2>1. inst' = [inst EXCEPT ![h] = new]
    BY <1>3 DEF WithInstance
  <2>2. /\ ~new.ready
        /\ new.pendingAffirmations = <<>>
        /\ new.port = GetFreePort
    BY DEF NewInstance
  <2> HIDE DEF new
  <2>3. Created(h)
    BY <1>1, <2>1, <2>2 DEF Created
  <2>4. \A g \in m_Instances : Kept(g)
    BY <1>1, <1>3, <2>1 DEF Kept, Rested
  <2> QED
    BY <1>1, <1>3, <2>3, <2>4 DEF Evolves
<1> QED
  BY <1>2, <1>3

LEMMA PrepZoneEvolves ==
  ASSUME MasterTypes, NEW map \in Maps, HandlePrepZone(map)
  PROVE  Evolves
PROOF
<1> DEFINE z == <<map, 0>>
           h == GetInstance({}, z)
<1>1. /\ h \in Handles
      /\ m_Instances' = m_Instances \cup {h}
  BY DEF HandlePrepZone
<1>2. PICK a \in UninitialisedAddrs :
        inst' = WithInstance(inst, h, z, SoftCapOf(map), NoPassword, a)
  BY DEF HandlePrepZone
<1>3. h \in m_Instances \/ h = nextHandle
  BY <1>1, GetInstanceResult, HandleFacts
<1> HIDE DEF h, z
<1> QED
  BY <1>1, <1>2, <1>3, CommandEvolves

LEMMA CreatePrivateEvolves ==
  ASSUME MasterTypes, NEW z \in Zones, NEW pw \in Passwords,
         HandleCreatePrivateZone(z, pw)
  PROVE  Evolves
PROOF
<1>1. /\ nextHandle \in Handles
      /\ m_Instances' = m_Instances \cup {nextHandle}
  BY DEF HandleCreatePrivateZone
<1>2. PICK a \in UninitialisedAddrs :
        inst' = WithInstance(inst, nextHandle, z, MaxCapPrivate, pw, a)
  BY DEF HandleCreatePrivateZone
<1> QED
  BY <1>1, <1>2, CommandEvolves

(* The steps of everybody else leave the master alone; a restart leaves it  *)
(* with no Instance.                                                        *)
LEMMA OthersEvolve ==
  ASSUME \/ \E w \in Handles : WorldProcessStep(w) \/ WorldFallsIdle(w)
         \/ RequesterStep
         \/ PlayerStep
         \/ FaultStep
         \/ UNCHANGED vars
  PROVE  Evolves
PROOF
<1>1. CASE \E w \in Handles : WorldProcessStep(w) \/ WorldFallsIdle(w)
  <2>1. UNCHANGED <<m_Instances, inst>>
    BY <1>1 DEF WorldProcessStep, WorldFallsIdle, WorldStarts,
       WorldFailsToStart, WorldReconnects, WorldBecomesReady, WorldAffirms,
       WorldReceivesShutdown, WorldMissesMaster, WorldExits, WorldReads,
       SignalsItself, masterVars
  <2> QED
    BY <2>1, UnchangedEvolves
<1>2. CASE RequesterStep
  BY <1>2, UnchangedEvolves
     DEF RequesterStep, RequestTransfer, HandleTransferResponse, masterVars
<1>3. CASE PlayerStep
  BY <1>3, UnchangedEvolves DEF PlayerStep, PlayerJoins, PlayerLeaves, masterVars
<1>4. CASE FaultStep
  <2>1. CASE MasterRestarts
    BY <2>1 DEF MasterRestarts, Evolves
  <2>2. CASE \E w \in Handles : WorldCrashes(w) \/ ConnectionLost(w)
    BY <2>2, UnchangedEvolves DEF WorldCrashes, ConnectionLost, masterVars
  <2> QED
    BY <1>4, <2>1, <2>2 DEF FaultStep
<1>5. CASE UNCHANGED vars
  BY <1>5, UnchangedEvolves DEF vars, masterVars
<1> QED
  BY <1>1, <1>2, <1>3, <1>4, <1>5

LEMMA Evolution ==
  ASSUME TypeOK, [Next]_vars
  PROVE  Evolves
PROOF
<1>1. MasterTypes /\ ProcessTypes
  BY DEF TypeOK
<1>2. CASE MasterStep
  BY <1>1, <1>2, TransferEvolves, WorldPacketEvolves, ShutdownEvolves
     DEF MasterStep
<1>3. CASE TimerStep
  BY <1>1, <1>3, TimeoutEvolves, OthersEvolve DEF TimerStep
<1>4. CASE CommandStep
  BY <1>1, <1>4, PrepZoneEvolves, CreatePrivateEvolves, ShutdownEvolves
     DEF CommandStep
<1> QED
  BY <1>2, <1>3, <1>4, OthersEvolve DEF Next

-----------------------------------------------------------------------------
(* Theorems.                                                                *)

LEMMA PendingNext ==
  TypeOK /\ PendingMatchesReadiness /\ [Next]_vars => PendingMatchesReadiness'
PROOF
<1> SUFFICES ASSUME TypeOK, PendingMatchesReadiness, [Next]_vars,
                    NEW h \in m_Instances'
             PROVE  /\ inst'[h].ready => inst'[h].pendingRequests = <<>>
                    /\ ~inst'[h].ready => inst'[h].pendingAffirmations = <<>>
  BY DEF PendingMatchesReadiness
<1>1. TypeOK' /\ Evolves
  BY TypeNext, Evolution
<1>2. CASE h \in m_Instances
  <2>1. Rested(h) \/ BecameReady(h) \/ WasAnswered(h) \/ WasHanded(h)
    BY <1>1, <1>2 DEF Evolves, Kept
  <2>2. /\ inst[h].ready => inst[h].pendingRequests = <<>>
        /\ ~inst[h].ready => inst[h].pendingAffirmations = <<>>
    BY <1>2 DEF PendingMatchesReadiness
  <2> QED
    BY <2>1, <2>2 DEF Rested, BecameReady, WasAnswered, WasHanded
<1>3. CASE h \notin m_Instances
  BY <1>1, <1>3 DEF Evolves, Created
<1> QED
  BY <1>2, <1>3

(* No request waits in a list that nothing will ever empty, crashes of      *)
(* worlds, lost connections and restarts of the master included.            *)
THEOREM PendingCorrect == Spec => []PendingMatchesReadiness
PROOF
<1>1. Init => PendingMatchesReadiness
  BY DEF Init, PendingMatchesReadiness
<1> QED
  BY <1>1, TypeCorrect, PendingNext, PTL DEF Spec

(* An instance that shuts down is given nothing more to do.                 *)
THEOREM NoNewWorkCorrect == Spec => NoNewWorkWhenShuttingDown
PROOF
<1>1. ASSUME TypeOK, [Next]_vars,
             NEW h \in m_Instances \cap m_Instances', inst[h].isShuttingDown
      PROVE  /\ Len(inst'[h].pendingRequests) <= Len(inst[h].pendingRequests)
             /\ Len(inst'[h].pendingAffirmations) <=
                  Len(inst[h].pendingAffirmations)
             /\ inst'[h].clients = inst[h].clients
  <2>1. Rested(h) \/ WasAnswered(h)
    BY <1>1, Evolution DEF Evolves, Kept, BecameReady, WasHanded
  <2>2. /\ Len(inst[h].pendingRequests) \in Nat
        /\ Len(inst[h].pendingAffirmations) \in Nat
    <3>1. inst[h] \in Instance
      BY <1>1, HandleFacts DEF TypeOK
    <3> QED
      BY <3>1 DEF Instance
  <2> QED
    BY <1>1, <2>1, <2>2 DEF Rested, WasAnswered
<1>2. TypeOK /\ [Next]_vars =>
        [\A h \in m_Instances \cap m_Instances' :
           inst[h].isShuttingDown =>
             /\ Len(inst'[h].pendingRequests) <= Len(inst[h].pendingRequests)
             /\ Len(inst'[h].pendingAffirmations) <=
                  Len(inst[h].pendingAffirmations)
             /\ inst'[h].clients = inst[h].clients]_vars
  BY <1>1
<1> QED
  BY <1>2, TypeCorrect, PTL DEF Spec, NoNewWorkWhenShuttingDown


-----------------------------------------------------------------------------
(* No null Instance is dereferenced.                                        *)

LEMMA DispatchFindsInstance ==
  ASSUME MasterTypes, ~m_IsShuttingDown, NEW X, NEW erased, NEW z, NEW reqs,
         NEW f, NEW chan, Dispatch(X, erased, z, reqs, f, chan)
  PROVE  nullInstance' = nullInstance
PROOF
<1>1. GetInstance(X, z) # NoHandle
  BY GetInstanceResult, HandleFacts DEF NoHandle
<1> QED
  BY <1>1 DEF Dispatch, MasterTypes

LEMMA NullInstanceNext ==
  ASSUME TypeOK, [Next]_vars
  PROVE  nullInstance' = nullInstance
PROOF
<1>1. MasterTypes
  BY DEF TypeOK
<1>2. ASSUME NEW t \in transfers, HandleRequestZoneTransfer(t)
      PROVE  nullInstance' = nullInstance
  BY <1>1, <1>2, DispatchFindsInstance DEF HandleRequestZoneTransfer
<1>3. ASSUME NEW w \in Handles, HandleDisconnected(w)
      PROVE  nullInstance' = nullInstance
  <2> DEFINE h == GetInstanceBySysAddr(world[w].port)
  <2>1. UNCHANGED nullInstance \/ RemoveInstance(h)
    BY <1>3 DEF HandleDisconnected
  <2>2. ASSUME RemoveInstance(h) PROVE nullInstance' = nullInstance
    <3> HIDE DEF h
    <3>1. ~ShouldShutdown => ~m_IsShuttingDown
      BY DEF ShouldShutdown, m_IsShuttingDown
    <3> QED
      BY <1>1, <2>2, <3>1, DispatchFindsInstance DEF RemoveInstance
  <2> QED
    BY <2>1, <2>2
<1>4. ASSUME NEW h \in Handles, AffirmationTimeout(h)
      PROVE  nullInstance' = nullInstance
  <2>1. ~m_IsShuttingDown
    BY <1>4 DEF AffirmationTimeout, m_IsShuttingDown
  <2> QED
    BY <1>1, <1>4, <2>1, DispatchFindsInstance DEF AffirmationTimeout
<1>5. CASE MasterStep
  <2>1. ASSUME NEW w \in Handles, HandleWorldPacket(w)
        PROVE  nullInstance' = nullInstance
    BY <1>3, <2>1
       DEF HandleWorldPacket, HandleServerInfo, HandleWorldReady,
           HandleAffirmTransferResponse, HandlePlayerAdded,
           HandlePlayerRemoved, HandleShutdownResponse
  <2>2. ASSUME NEW t \in transfers, HandleRequestPrivateZone(t)
        PROVE  nullInstance' = nullInstance
    BY <2>2 DEF HandleRequestPrivateZone
  <2>3. ASSUME ShutdownSequence \/ FinalizeShutdown
        PROVE  nullInstance' = nullInstance
    BY <2>3 DEF ShutdownSequence, FinalizeShutdown
  <2> QED
    BY <1>2, <1>5, <2>1, <2>2, <2>3 DEF MasterStep
<1>6. CASE CommandStep
  BY <1>6 DEF CommandStep, HandlePrepZone, HandleCreatePrivateZone, OnSignal
<1>7. ASSUME NEW w \in Handles, WorldProcessStep(w) \/ WorldFallsIdle(w)
      PROVE  nullInstance' = nullInstance
  BY <1>7 DEF WorldProcessStep, WorldFallsIdle, WorldStarts,
     WorldFailsToStart, WorldReconnects, WorldBecomesReady, WorldAffirms,
     WorldReceivesShutdown, WorldMissesMaster, WorldExits, WorldReads,
     SignalsItself
<1>8. CASE RequesterStep \/ PlayerStep
  BY <1>8 DEF RequesterStep, RequestTransfer, HandleTransferResponse,
     PlayerStep, PlayerJoins, PlayerLeaves
<1>9. CASE FaultStep
  BY <1>9 DEF FaultStep, WorldCrashes, ConnectionLost, MasterRestarts
<1>10. CASE TimerStep
  BY <1>4, <1>7, <1>10 DEF TimerStep
<1>11. CASE UNCHANGED vars
  BY <1>11 DEF vars
<1> QED
  BY <1>5, <1>6, <1>7, <1>8, <1>9, <1>10, <1>11 DEF Next

(* GetInstance is never asked for a new Instance once the master stops, so  *)
(* none of its callers meets the nullptr it would return.                   *)
THEOREM NoNullCorrect == Spec => []NoNullInstance
PROOF
<1>1. Init => NoNullInstance
  BY DEF Init, NoNullInstance
<1>2. TypeOK /\ NoNullInstance /\ [Next]_vars => NoNullInstance'
  BY NullInstanceNext DEF NoNullInstance
<1> QED
  BY <1>1, <1>2, TypeCorrect, PTL DEF Spec

-----------------------------------------------------------------------------
(* Ports.                                                                   *)

(* The processes from which a SERVER_INFO may come.                         *)
Started(w) ==
  world[w].state # "none" \/ world[w].linked \/ toMaster[w] # <<>>

WorldsEvolve ==
  \A w \in Handles :
    \/ world'[w].port = GetFreePort /\ world'[w].state # "none"
    \/ world'[w].port = world[w].port /\ (Started(w)' => Started(w))

LEMMA StartIfNewWorlds ==
  ASSUME ProcessTypes, NEW h, NEW z, StartIfNew(h, z),
         \A w \in Handles : toMaster'[w] # <<>> => toMaster[w] # <<>>
  PROVE  WorldsEvolve
PROOF
<1>1. world \in [Handles -> WorldProcess]
  BY DEF ProcessTypes
<1>2. CASE h = nextHandle
  <2> DEFINE new == StartedWorld(z[1], z[2], NextInstanceId, GetFreePort)
  <2>1. world' = [world EXCEPT ![h] = new]
    BY <1>2 DEF StartIfNew
  <2>2. new.port = GetFreePort /\ new.state # "none"
    BY DEF StartedWorld
  <2> HIDE DEF new
  <2> QED
    BY <1>1, <2>1, <2>2 DEF WorldsEvolve, Started
<1>3. CASE h # nextHandle
  BY <1>3 DEF StartIfNew, WorldsEvolve, Started
<1> QED
  BY <1>2, <1>3

LEMMA QuietWorlds ==
  ASSUME UNCHANGED world,
         \A w \in Handles : toMaster'[w] # <<>> => toMaster[w] # <<>>
  PROVE  WorldsEvolve
BY DEF WorldsEvolve, Started

(* A step in which at most one process changes, and that one is started.    *)
LEMMA OneWorld ==
  ASSUME NEW w, Started(w), world'[w].port = world[w].port,
         \A v \in Handles \ {w} : /\ world'[v] = world[v]
                                  /\ toMaster'[v] = toMaster[v]
  PROVE  WorldsEvolve
BY DEF WorldsEvolve, Started


LEMMA MasterStepWorlds ==
  ASSUME TypeOK, MasterStep
  PROVE  WorldsEvolve
PROOF
<1>1. MasterTypes /\ ProcessTypes
  BY DEF TypeOK
<1>2. \A X, erased, z, reqs, f, chan :
        Dispatch(X, erased, z, reqs, f, chan) =>
          \E h : StartIfNew(h, z)
  BY DEF Dispatch
<1>3. ASSUME NEW t \in transfers, HandleRequestZoneTransfer(t)
      PROVE  WorldsEvolve
  <2>1. UNCHANGED toMaster
        /\ (UNCHANGED world \/ \E h : StartIfNew(h, t.target))
    BY <1>2, <1>3 DEF HandleRequestZoneTransfer
  <2> QED
    BY <1>1, <2>1, StartIfNewWorlds, QuietWorlds
<1>4. ASSUME NEW t \in transfers, HandleRequestPrivateZone(t)
      PROVE  WorldsEvolve
  BY <1>4, QuietWorlds DEF HandleRequestPrivateZone
<1>5. ASSUME NEW w \in Handles, HandleWorldPacket(w)
      PROVE  WorldsEvolve
  <2>1. \E type : Receive(w, type)
    BY <1>5 DEF HandleWorldPacket, HandleServerInfo, HandleWorldReady,
       HandleAffirmTransferResponse, HandlePlayerAdded, HandlePlayerRemoved,
       HandleShutdownResponse, HandleDisconnected
  <2>2. /\ toMaster[w] # <<>>
        /\ toMaster' = [toMaster EXCEPT ![w] = Tail(@)]
    BY <2>1 DEF Receive
  <2>3. \A v \in Handles : toMaster'[v] # <<>> => toMaster[v] # <<>>
    BY <1>1, <2>2 DEF ProcessTypes
  <2>4. UNCHANGED world \/ \E h, z : StartIfNew(h, z)
    <3>1. CASE HandleDisconnected(w)
      BY <1>2, <3>1 DEF HandleDisconnected, RemoveInstance
    <3>2. CASE ~HandleDisconnected(w)
      BY <1>5, <3>2 DEF HandleWorldPacket, HandleServerInfo, HandleWorldReady,
         HandleAffirmTransferResponse, HandlePlayerAdded, HandlePlayerRemoved,
         HandleShutdownResponse
    <3> QED
      BY <3>1, <3>2
  <2> QED
    BY <1>1, <2>3, <2>4, StartIfNewWorlds, QuietWorlds
<1>6. CASE ShutdownSequence
  BY <1>6, QuietWorlds DEF ShutdownSequence
<1>7. CASE FinalizeShutdown
  <2>1. \A v \in Handles : /\ world'[v].port = world[v].port
                           /\ world'[v].state = world[v].state
                           /\ ~world'[v].linked
                           /\ toMaster'[v] = <<>>
    <3>1. \A v \in Handles : world[v] \in WorldProcess
      BY <1>1 DEF ProcessTypes
    <3> QED
      BY <1>7, <3>1 DEF FinalizeShutdown, Unlinked, NoMessages, WorldProcess
  <2> QED
    BY <2>1 DEF WorldsEvolve, Started
<1> QED
  BY <1>3, <1>4, <1>5, <1>6, <1>7 DEF MasterStep

LEMMA WorldStepWorlds ==
  ASSUME TypeOK, NEW w \in Handles, WorldProcessStep(w) \/ WorldFallsIdle(w)
  PROVE  WorldsEvolve
PROOF
<1>1. /\ world \in [Handles -> WorldProcess]
      /\ toMaster \in [Handles -> Seq(ToMasterMessage)]
  BY DEF TypeOK, ProcessTypes
<1>2. CASE WorldStarts(w)
  BY <1>1, <1>2, OneWorld DEF WorldStarts, Started, WorldProcess
<1>3. CASE WorldFailsToStart(w)
  BY <1>1, <1>3, OneWorld DEF WorldFailsToStart, Started, WorldProcess
<1>4. CASE WorldReconnects(w)
  BY <1>1, <1>4, OneWorld DEF WorldReconnects, Started, WorldProcess
<1>5. CASE WorldBecomesReady(w)
  BY <1>1, <1>5, OneWorld DEF WorldBecomesReady, Started, WorldProcess
<1>6. CASE WorldAffirms(w)
  BY <1>1, <1>6, OneWorld DEF WorldAffirms, WorldReads, ToMaster, Started
<1>7. CASE WorldReceivesShutdown(w)
  BY <1>1, <1>7, OneWorld
     DEF WorldReceivesShutdown, WorldReads, Started, WorldProcess
<1>8. CASE WorldMissesMaster(w) \/ WorldFallsIdle(w)
  BY <1>1, <1>8, OneWorld
     DEF WorldMissesMaster, WorldFallsIdle, SignalsItself, Started, WorldProcess
<1>9. CASE WorldExits(w)
  BY <1>1, <1>9, OneWorld DEF WorldExits, Gone, ToMaster, Started, WorldProcess
<1> QED
  BY <1>2, <1>3, <1>4, <1>5, <1>6, <1>7, <1>8, <1>9 DEF WorldProcessStep

LEMMA OtherStepWorlds ==
  ASSUME TypeOK,
         \/ CommandStep
         \/ \E h \in Handles : AffirmationTimeout(h)
         \/ RequesterStep
         \/ PlayerStep
         \/ FaultStep
         \/ UNCHANGED vars
  PROVE  WorldsEvolve
PROOF
<1>1. /\ world \in [Handles -> WorldProcess]
      /\ toMaster \in [Handles -> Seq(ToMasterMessage)]
      /\ location \in [Requests -> {0} \cup Handles]
      /\ ProcessTypes
  BY DEF TypeOK, ProcessTypes, RequestTypes
<1>2. CASE CommandStep
  <2>1. UNCHANGED toMaster /\ (UNCHANGED world \/ \E h, z : StartIfNew(h, z))
    BY <1>2
       DEF CommandStep, HandlePrepZone, HandleCreatePrivateZone, OnSignal
  <2> QED
    BY <1>1, <2>1, StartIfNewWorlds, QuietWorlds
<1>3. CASE \E h \in Handles : AffirmationTimeout(h)
  <2>1. UNCHANGED toMaster /\ \E h, z : StartIfNew(h, z)
    BY <1>3 DEF AffirmationTimeout, Dispatch
  <2> QED
    BY <1>1, <2>1, StartIfNewWorlds
<1>4. CASE RequesterStep \/ UNCHANGED vars
  BY <1>4, QuietWorlds
     DEF RequesterStep, RequestTransfer, HandleTransferResponse, vars
<1>5. ASSUME NEW q \in Requests, NEW w \in Handles, NEW c, PlayerJoins(q, w, c)
      PROVE  WorldsEvolve
  BY <1>1, <1>5, OneWorld DEF PlayerJoins, ToMaster, Started
<1>6. ASSUME NEW q \in Requests, NEW c, PlayerLeaves(q, c)
      PROVE  WorldsEvolve
  <2>1. CASE UNCHANGED <<world, toMaster>>
    BY <2>1, QuietWorlds
  <2>2. CASE ~UNCHANGED <<world, toMaster>>
    <3> DEFINE w == location[q]
    <3>1. /\ UNCHANGED world
          /\ world[w].linked
          /\ toMaster' = [toMaster EXCEPT ![w] = @ \o <<Msg("PLAYER_REMOVED")>>]
      BY <1>6, <2>2 DEF PlayerLeaves, ToMaster
    <3>2. Started(w)
      BY <3>1 DEF Started
    <3> HIDE DEF w
    <3> QED
      BY <1>1, <3>1, <3>2, OneWorld
  <2> QED
    BY <2>1, <2>2
<1>7. ASSUME NEW w \in Handles, WorldCrashes(w) \/ ConnectionLost(w)
      PROVE  WorldsEvolve
  <2>1. Started(w)
    BY <1>7 DEF WorldCrashes, ConnectionLost, Started
  <2>2. \A v \in Handles \ {w} : /\ world'[v] = world[v]
                                 /\ toMaster'[v] = toMaster[v]
    BY <1>1, <1>7 DEF WorldCrashes, ConnectionLost, Gone, CutOff
  <2>3. world'[w].port = world[w].port
    BY <1>1, <1>7 DEF WorldCrashes, ConnectionLost, Gone, WorldProcess
  <2> QED
    BY <2>1, <2>2, <2>3, OneWorld
<1>8. CASE MasterRestarts
  <2>1. \A v \in Handles : /\ world'[v].port = world[v].port
                           /\ world'[v].state = world[v].state
                           /\ ~world'[v].linked
                           /\ toMaster'[v] = <<>>
    <3>1. \A v \in Handles : world[v] \in WorldProcess
      BY <1>1
    <3> QED
      BY <1>8, <3>1 DEF MasterRestarts, Unlinked, NoMessages, WorldProcess
  <2> QED
    BY <2>1 DEF WorldsEvolve, Started
<1> QED
  BY <1>2, <1>3, <1>4, <1>5, <1>6, <1>7, <1>8 DEF PlayerStep, FaultStep

(* Ports are distinct and on the grid GetFreePort walks: an Instance off it *)
(* would make GetFreePort stop at a port that is in use.                    *)
PortsOnGrid ==
  /\ \A h \in m_Instances : inst[h].port \in Grid
  /\ \A w \in Handles : Started(w) => world[w].port \in Grid

LEMMA PortsNext ==
  ASSUME TypeOK, PortsOnGrid, DistinctPorts, [Next]_vars
  PROVE  PortsOnGrid' /\ DistinctPorts'
PROOF
<1>1. Evolves
  BY Evolution
<1>2. WorldsEvolve
  BY MasterStepWorlds, WorldStepWorlds, OtherStepWorlds DEF Next, TimerStep
<1>3. PortsKnown
  BY TypePorts DEF TypeOK
<1>4. GetFreePort \in Grid /\ ~IsPortInUse(GetFreePort)
  BY <1>3, FreePortType, FreePortUnused DEF PortsOnGrid
<1>5. \A h \in m_Instances' \ m_Instances :
        inst'[h].port \in Grid /\ ~IsPortInUse(inst'[h].port)
  BY <1>1, <1>4 DEF Evolves, Created, PortsOnGrid, Started
<1>6. \A h \in m_Instances' \cap m_Instances : inst'[h].port = inst[h].port
  BY <1>1 DEF Evolves, Kept
<1>7. DistinctPorts'
  <2> SUFFICES ASSUME NEW g \in m_Instances', NEW h \in m_Instances', g # h
               PROVE  inst'[g].port # inst'[h].port
    BY DEF DistinctPorts
  <2>1. g \in m_Instances \/ h \in m_Instances
    BY <1>1 DEF Evolves
  <2> QED
    BY <1>5, <1>6, <2>1 DEF DistinctPorts, IsPortInUse
<1>8. PortsOnGrid'
  <2>1. \A h \in m_Instances' : inst'[h].port \in Grid
    BY <1>5, <1>6 DEF PortsOnGrid
  <2>2. \A w \in Handles : Started(w)' => world'[w].port \in Grid
    BY <1>2, <1>4 DEF WorldsEvolve, PortsOnGrid
  <2> QED
    BY <2>1, <2>2 DEF PortsOnGrid, Grid, PortOf
<1> QED
  BY <1>7, <1>8

(* Two Instance objects never have the same port, whatever crashes, loses   *)
(* its connection or comes back to a master that was restarted.             *)
THEOREM PortsCorrect == Spec => []DistinctPorts
PROOF
<1>1. Init => PortsOnGrid /\ DistinctPorts
  <2> SUFFICES ASSUME Init PROVE PortsOnGrid /\ DistinctPorts
    OBVIOUS
  <2>1. \A w \in Handles : ~Started(w)
    BY DEF Init, Started, NoWorld, StartedWorld, NoMessages
  <2> QED
    BY <2>1 DEF Init, PortsOnGrid, DistinctPorts
<1>2. TypeOK /\ (PortsOnGrid /\ DistinctPorts) /\ [Next]_vars =>
        (PortsOnGrid /\ DistinctPorts)'
  BY PortsNext
<1> QED
  BY <1>1, <1>2, TypeCorrect, PTL DEF Spec

-----------------------------------------------------------------------------
(* Names.                                                                   *)

SameName(i, j) == i.map = j.map /\ i.id = j.id /\ i.port = j.port

Exists(w) == world[w].state # "none"

(* No process is started: a new Instance is that of a world that wrote.     *)
NoneStarted ==
  /\ nextHandle <= nextHandle'
  /\ m_LastInstanceID' = m_LastInstanceID
  /\ \A w \in Handles : /\ SameName(world'[w], world[w])
                        /\ Exists(w)' <=> Exists(w)
  /\ \A h \in m_Instances' :
       \/ h \in m_Instances /\ SameName(inst'[h], inst[h])
       \/ \E w \in Handles : toMaster[w] # <<>> /\ SameName(inst'[h], world[w])

(* A process is started for a new Instance, with the next id.               *)
OneStarted ==
  /\ nextHandle \in Handles
  /\ nextHandle' = nextHandle + 1
  /\ m_LastInstanceID' = NextInstanceId
  /\ world'[nextHandle].state # "none"
  /\ world'[nextHandle].id = NextInstanceId
  /\ \A w \in Handles \ {nextHandle} : world'[w] = world[w]
  /\ \A h \in m_Instances' :
       \/ h \in m_Instances /\ SameName(inst'[h], inst[h])
       \/ h = nextHandle /\ SameName(inst'[h], world'[h])

LEMMA KeepsNames ==
  ASSUME TypeOK, UNCHANGED <<nextHandle, m_LastInstanceID>>,
         m_Instances' \subseteq m_Instances,
         \A w \in Handles : SameName(world'[w], world[w])
                            /\ (Exists(w)' <=> Exists(w)),
         \A h \in m_Instances' : SameName(inst'[h], inst[h])
  PROVE  NoneStarted
BY DEF NoneStarted, TypeOK, MasterTypes

(* Every way to get an Instance: one that is there, or a new one.           *)
LEMMA StartNames ==
  ASSUME TypeOK, NEW h \in Handles, NEW z, NEW cap, NEW pw, NEW a,
         NEW f \in [Handles -> Instance], NEW g, NEW reqs,
         h \in m_Instances \/ h = nextHandle,
         \A k \in m_Instances : SameName(f[k], inst[k]),
         m_Instances' \subseteq m_Instances \cup {h},
         \A k \in Handles : SameName(inst'[k], WithInstance(f, h, z, cap, pw, a)[k]),
         StartIfNew(h, z)
  PROVE  NoneStarted \/ OneStarted
<1>1. \A k \in m_Instances : k \in Handles /\ k # nextHandle
  BY HandleFacts DEF TypeOK
<1>2. CASE h = nextHandle
  <2> DEFINE new == StartedWorld(z[1], z[2], NextInstanceId, GetFreePort)
             i == NewInstance(z[1], z[2], NextInstanceId, GetFreePort, cap, pw, a)
  <2>1. /\ nextHandle' = nextHandle + 1
        /\ m_LastInstanceID' = NextInstanceId
        /\ world' = [world EXCEPT ![h] = new]
    BY <1>2 DEF StartIfNew
  <2>2. WithInstance(f, h, z, cap, pw, a) = [f EXCEPT ![h] = i]
    BY <1>2 DEF WithInstance
  <2>3. /\ new.state = "starting" /\ new.id = NextInstanceId
        /\ SameName(i, new)
    BY DEF StartedWorld, NewInstance, SameName
  <2> HIDE DEF new, i
  <2>4. world \in [Handles -> WorldProcess]
    BY DEF TypeOK, ProcessTypes
  <2>5. /\ world'[h] = new
        /\ \A w \in Handles \ {h} : world'[w] = world[w]
    BY <2>1, <2>4
  <2>6. SameName(inst'[h], i)
    BY <2>2
  <2>7. \A k \in m_Instances : SameName(inst'[k], inst[k])
    <3>1. \A k \in m_Instances : SameName(inst'[k], f[k])
      BY <1>1, <1>2, <2>2
    <3> QED
      BY <3>1 DEF SameName
  <2>8. SameName(inst'[h], world'[h])
    BY <2>3, <2>5, <2>6 DEF SameName
  <2> QED
    BY <1>2, <2>1, <2>3, <2>5, <2>7, <2>8 DEF OneStarted, Exists
<1>3. CASE h # nextHandle
  <2>1. UNCHANGED <<nextHandle, m_LastInstanceID, world>>
    BY <1>3 DEF StartIfNew
  <2>2. WithInstance(f, h, z, cap, pw, a) = f
    BY <1>3 DEF WithInstance
  <2>3. \A k \in m_Instances : SameName(inst'[k], inst[k])
    <3>1. \A k \in m_Instances : SameName(inst'[k], f[k])
      BY <1>1, <2>2
    <3> QED
      BY <3>1 DEF SameName
  <2> QED
    BY <1>3, <2>1, <2>3, KeepsNames DEF SameName, Exists
<1> QED
  BY <1>2, <1>3

LEMMA DispatchNames ==
  ASSUME TypeOK, NEW X, NEW erased, NEW z, NEW reqs, NEW chan,
         NEW f \in [Handles -> Instance],
         \A h \in m_Instances : SameName(f[h], inst[h]),
         z[1] \in Maps, z[2] \in Clones,
         Dispatch(X, erased, z, reqs, f, chan)
  PROVE  NoneStarted \/ OneStarted
<1> DEFINE h == GetInstance(X, z)
<1>1. \/ h \in m_Instances
      \/ h = nextHandle
      \/ h = NoHandle
  BY GetInstanceResult, HandleFacts DEF TypeOK
<1>2. /\ h \in Handles \cup {NoHandle} /\ StartIfNew(h, z)
      /\ h = NoHandle => m_Instances' \subseteq m_Instances /\ inst' = f
      /\ h # NoHandle =>
           /\ m_Instances' \subseteq m_Instances \cup {h}
           /\ \E a \in UninitialisedAddrs :
               inst' = Enqueued(
                 WithInstance(f, h, z, SoftCapOf(z[1]), NoPassword, a), h, reqs)
  BY DEF Dispatch
<1> HIDE DEF h
<1>3. CASE h = NoHandle
  <2>1. h # nextHandle
    BY <1>3, HandleFacts DEF TypeOK, NoHandle
  <2> QED
    BY <1>2, <1>3, <2>1, KeepsNames DEF StartIfNew, SameName, Exists
<1>4. CASE h # NoHandle
  <2>1. h \in Handles
    BY <1>2, <1>4
  <2>2. PICK a \in UninitialisedAddrs :
          inst' = Enqueued(
            WithInstance(f, h, z, SoftCapOf(z[1]), NoPassword, a), h, reqs)
    BY <1>2, <1>4
  <2> DEFINE i == WithInstance(f, h, z, SoftCapOf(z[1]), NoPassword, a)
  <2>3. i \in [Handles -> Instance]
    <3>1. SoftCapOf(z[1]) \in Nat
      BY SoftCapType
    <3> QED
      BY <2>1, <3>1, WithInstanceType DEF TypeOK
  <2> HIDE DEF i
  <2>4. ASSUME NEW k \in Handles PROVE SameName(inst'[k], i[k])
    <3>1. i[k] \in Instance
      BY <2>3
    <3>2. \/ inst'[k] = i[k]
          \/ inst'[k] = [i[k] EXCEPT !.pendingAffirmations = @ \o reqs]
          \/ inst'[k] = [i[k] EXCEPT !.pendingRequests = @ \o reqs]
      BY <2>2, <2>3 DEF i, Enqueued
    <3> QED
      BY <3>1, <3>2 DEF SameName, Instance
  <2> QED
    BY <1>1, <1>2, <1>4, <2>1, <2>4, StartNames DEF i
<1> QED
  BY <1>3, <1>4

LEMMA TransferNames ==
  ASSUME TypeOK, NEW t \in transfers,
         HandleRequestZoneTransfer(t) \/ HandleRequestPrivateZone(t)
  PROVE  NoneStarted \/ OneStarted
<1>1. CASE HandleRequestZoneTransfer(t)
  <2>1. CASE m_IsShuttingDown
    BY <1>1, <2>1, KeepsNames DEF HandleRequestZoneTransfer, masterVars, SameName, Exists
  <2>2. CASE ~m_IsShuttingDown
    <3>1. Dispatch({}, {}, t.target, <<t.req>>, inst, toWorld) /\ t.target \in Zones
      BY <1>1, <2>2 DEF HandleRequestZoneTransfer
    <3>2. inst \in [Handles -> Instance]
      BY DEF TypeOK, MasterTypes
    <3> QED
      BY <3>1, <3>2, ZoneParts, DispatchNames DEF SameName
  <2> QED
    BY <2>1, <2>2
<1>2. CASE HandleRequestPrivateZone(t)
  BY <1>2, KeepsNames DEF HandleRequestPrivateZone, masterVars, SameName, Exists
<1> QED
  BY <1>1, <1>2

LEMMA RemoveInstanceNames ==
  ASSUME TypeOK, NEW h \in m_Instances, RemoveInstance(h)
  PROVE  NoneStarted \/ OneStarted
<1>1. CASE ShouldShutdown \/ inst[h].pendingAffirmations = <<>>
  BY <1>1, KeepsNames DEF RemoveInstance, SameName, Exists
<1>2. CASE ~(ShouldShutdown \/ inst[h].pendingAffirmations = <<>>)
  <2> DEFINE z == <<inst[h].map, inst[h].clone>>
  <2>1. Dispatch({h}, {h}, z, inst[h].pendingAffirmations, inst, toWorld)
    BY <1>2 DEF RemoveInstance
  <2>2. inst \in [Handles -> Instance] /\ inst[h] \in Instance
    BY HandleFacts DEF TypeOK, MasterTypes
  <2>3. z[1] \in Maps /\ z[2] \in Clones
    BY <2>2 DEF Instance
  <2> HIDE DEF z
  <2> QED
    BY <2>1, <2>2, <2>3, DispatchNames DEF SameName
<1> QED
  BY <1>1, <1>2

(* The handlers that set a field of an Instance leave its name alone.       *)
LEMMA FieldNames ==
  ASSUME TypeOK, UNCHANGED <<m_Instances, nextHandle, m_LastInstanceID, world>>,
         NEW h \in m_Instances,
         \/ inst' = inst
         \/ \E r, p : inst' = [inst EXCEPT ![h].ready = r, ![h].pendingRequests = p]
         \/ \E p, o : inst' = [inst EXCEPT ![h].pendingAffirmations = p,
                                           ![h].timedOut = o]
         \/ \E n : inst' = [inst EXCEPT ![h].clients = n]
         \/ \E a : inst' = [inst EXCEPT ![h].addr = a]
         \/ inst' = [inst EXCEPT ![h].isShuttingDown = TRUE]
  PROVE  NoneStarted
<1>1. ASSUME NEW k \in m_Instances PROVE SameName(inst'[k], inst[k])
  <2>1. k \in Handles /\ inst[k] \in Instance /\ inst \in [Handles -> Instance]
    BY HandleFacts DEF TypeOK, MasterTypes
  <2>2. CASE inst' = inst
    BY <2>2 DEF SameName
  <2>3. CASE \E r, p : inst' = [inst EXCEPT ![h].ready = r,
                                            ![h].pendingRequests = p]
    <3>1. PICK r, p : inst' = [inst EXCEPT ![h].ready = r,
                                           ![h].pendingRequests = p]
      BY <2>3
    <3> QED
      BY <2>1, <3>1 DEF SameName, Instance
  <2>4. CASE \E p, o : inst' = [inst EXCEPT ![h].pendingAffirmations = p,
                                            ![h].timedOut = o]
    <3>1. PICK p, o : inst' = [inst EXCEPT ![h].pendingAffirmations = p,
                                           ![h].timedOut = o]
      BY <2>4
    <3> QED
      BY <2>1, <3>1 DEF SameName, Instance
  <2>5. CASE \E n : inst' = [inst EXCEPT ![h].clients = n]
    <3>1. PICK n : inst' = [inst EXCEPT ![h].clients = n]
      BY <2>5
    <3> QED
      BY <2>1, <3>1 DEF SameName, Instance
  <2>6. CASE \E a : inst' = [inst EXCEPT ![h].addr = a]
    <3>1. PICK a : inst' = [inst EXCEPT ![h].addr = a]
      BY <2>6
    <3> QED
      BY <2>1, <3>1 DEF SameName, Instance
  <2>7. CASE inst' = [inst EXCEPT ![h].isShuttingDown = TRUE]
    BY <2>1, <2>7 DEF SameName, Instance
  <2> QED
    BY <2>2, <2>3, <2>4, <2>5, <2>6, <2>7
<1> QED
  BY <1>1, KeepsNames DEF SameName, Exists

LEMMA WorldPacketNames ==
  ASSUME TypeOK, NEW w \in Handles, HandleWorldPacket(w)
  PROVE  NoneStarted \/ OneStarted
<1> DEFINE byId == FindInstanceById(world[w].map, world[w].id)
           byAddr == GetInstanceBySysAddr(world[w].port)
<1>1. byId # NoHandle => byId \in m_Instances
  BY FoundById DEF TypeOK
<1>2. byAddr # NoHandle => byAddr \in m_Instances
  BY FoundBySysAddr DEF TypeOK
<1>3. /\ inst \in [Handles -> Instance]
      /\ \A g \in m_Instances : g \in Handles /\ g # nextHandle
      /\ nextHandle \in Nat
  BY HandleFacts DEF TypeOK, MasterTypes
<1>0. m_Instances' = m_Instances /\ inst' = inst
      /\ UNCHANGED <<nextHandle, m_LastInstanceID, world>> => NoneStarted
  BY KeepsNames DEF SameName, Exists
<1> HIDE DEF byId, byAddr
<1>4. CASE HandleServerInfo(w)
  <2>0. UNCHANGED <<m_LastInstanceID, world>> /\ toMaster[w] # <<>>
    BY <1>4 DEF HandleServerInfo, Receive
  <2>1. CASE IsPortInUse(world[w].port)
    <3>1. /\ inst' = IF byId = NoHandle THEN inst
                     ELSE [inst EXCEPT ![byId].addr = world[w].port]
          /\ UNCHANGED <<m_Instances, nextHandle>>
      BY <1>4, <2>1 DEF HandleServerInfo, byId
    <3>2. CASE byId = NoHandle
      BY <3>1, <3>2, <1>0, <2>0
    <3>3. CASE byId # NoHandle
      BY <3>1, <3>3, <1>1, <2>0, FieldNames
    <3> QED
      BY <3>2, <3>3
  <2>2. CASE ~IsPortInUse(world[w].port)
    <3> DEFINE new == NewInstance(world[w].map, 0, world[w].id, world[w].port,
                                  MaxCapAddedBack, NoPassword, world[w].port)
    <3>1. /\ nextHandle \in Handles
          /\ nextHandle' = nextHandle + 1
          /\ m_Instances' = m_Instances \cup {nextHandle}
          /\ inst' = [inst EXCEPT ![nextHandle] = new]
      BY <1>4, <2>2 DEF HandleServerInfo
    <3>2. SameName(new, world[w])
      BY DEF NewInstance, SameName
    <3> HIDE DEF new
    <3>3. \A k \in m_Instances : inst'[k] = inst[k]
      BY <1>3, <3>1
    <3>4. inst'[nextHandle] = new
      BY <1>3, <3>1
    <3> QED
      <4>1. \A v \in Handles : SameName(world'[v], world[v])
                               /\ (Exists(v)' <=> Exists(v))
        BY <2>0 DEF SameName, Exists
      <4>2. \A k \in m_Instances : SameName(inst'[k], inst[k])
        BY <3>3 DEF SameName
      <4>3. nextHandle <= nextHandle'
        BY <1>3, <3>1
      <4> QED
        BY <2>0, <3>1, <3>2, <3>4, <4>1, <4>2, <4>3 DEF NoneStarted
  <2> QED
    BY <2>1, <2>2
<1>5. CASE HandleWorldReady(w)
  <2>1. /\ UNCHANGED <<m_Instances, nextHandle, m_LastInstanceID, world>>
        /\ \/ inst' = inst
           \/ /\ byId # NoHandle
              /\ inst' = [inst EXCEPT ![byId].ready = TRUE,
                                      ![byId].pendingRequests = <<>>]
    BY <1>5 DEF HandleWorldReady, byId
  <2> QED
    BY <1>0, <1>1, <2>1, FieldNames
<1>6. CASE HandleAffirmTransferResponse(w)
  <2>1. /\ UNCHANGED <<m_Instances, nextHandle, m_LastInstanceID, world>>
        /\ \/ inst' = inst
           \/ /\ byAddr # NoHandle
              /\ \E p, o : inst' = [inst EXCEPT ![byAddr].pendingAffirmations = p,
                                                ![byAddr].timedOut = o]
    <3> DEFINE pending == inst[byAddr].pendingAffirmations
               id == Head(toMaster[w]).requestID
               matches == {i \in DOMAIN pending : pending[i][2] = id}
               rest == RemoveAt(pending, Min(matches))
    <3>1. \/ inst' = inst
          \/ /\ byAddr # NoHandle
             /\ inst' = [inst EXCEPT ![byAddr].pendingAffirmations = rest,
                                     ![byAddr].timedOut = @ /\ rest # <<>>]
      BY <1>6 DEF HandleAffirmTransferResponse, byAddr
    <3> HIDE DEF rest
    <3>2. \/ inst' = inst
          \/ /\ byAddr # NoHandle
             /\ inst' = [inst EXCEPT
                           ![byAddr].pendingAffirmations = rest,
                           ![byAddr].timedOut = (inst[byAddr].timedOut /\ rest # <<>>)]
      BY <3>1, <1>2, <1>3
    <3> QED
      BY <3>2, <1>6 DEF HandleAffirmTransferResponse
  <2> QED
    BY <1>0, <1>2, <2>1, FieldNames
<1>7. CASE HandlePlayerAdded(w) \/ HandlePlayerRemoved(w)
  <2>1. /\ UNCHANGED <<m_Instances, nextHandle, m_LastInstanceID, world>>
        /\ \/ inst' = inst
           \/ byId # NoHandle /\ \E n : inst' = [inst EXCEPT ![byId].clients = n]
    BY <1>7 DEF HandlePlayerAdded, HandlePlayerRemoved, byId
  <2> QED
    BY <1>0, <1>1, <2>1, FieldNames
<1>8. CASE HandleShutdownResponse(w)
  <2>1. /\ UNCHANGED <<m_Instances, nextHandle, m_LastInstanceID, world>>
        /\ \/ inst' = inst
           \/ /\ byAddr # NoHandle
              /\ inst' = [inst EXCEPT ![byAddr].isShuttingDown = TRUE]
    BY <1>8 DEF HandleShutdownResponse, byAddr
  <2> QED
    BY <1>0, <1>2, <2>1, FieldNames
<1>9. CASE HandleDisconnected(w)
  <2>1. CASE byAddr = NoHandle
    BY <1>9, <2>1, <1>0 DEF HandleDisconnected, byAddr, masterVars
  <2>2. CASE byAddr # NoHandle
    <3>1. RemoveInstance(byAddr)
      BY <1>9, <2>2 DEF HandleDisconnected, byAddr
    <3> QED
      BY <1>2, <2>2, <3>1, RemoveInstanceNames
  <2> QED
    BY <2>1, <2>2
<1> QED
  BY <1>4, <1>5, <1>6, <1>7, <1>8, <1>9 DEF HandleWorldPacket

LEMMA ShutdownNames ==
  ASSUME TypeOK, ShutdownSequence \/ FinalizeShutdown \/ OnSignal
  PROVE  NoneStarted
<1>1. CASE ShutdownSequence
  <2>1. \A h \in m_Instances : SameName(inst'[h], inst[h])
    <3> TAKE h \in m_Instances
    <3>1. h \in Handles /\ inst[h] \in Instance
      BY HandleFacts DEF TypeOK
    <3>2. \/ inst'[h] = inst[h]
          \/ inst'[h] = [inst[h] EXCEPT !.isShuttingDown = TRUE]
      BY <1>1, <3>1 DEF ShutdownSequence
    <3> QED
      BY <3>1, <3>2 DEF Instance, SameName
  <2>2. m_Instances' \subseteq m_Instances
    BY <1>1 DEF ShutdownSequence
  <2> QED
    BY <1>1, <2>1, <2>2, KeepsNames DEF ShutdownSequence, SameName, Exists
<1>2. CASE FinalizeShutdown
  <2>1. \A v \in Handles : /\ SameName(world'[v], world[v])
                           /\ world'[v].state = world[v].state
    <3>1. \A v \in Handles : world[v] \in WorldProcess
      BY DEF TypeOK, ProcessTypes
    <3> QED
      BY <1>2, <3>1 DEF FinalizeShutdown, Unlinked, WorldProcess, SameName
  <2> QED
    BY <1>2, <2>1, KeepsNames DEF FinalizeShutdown, Exists
<1>3. CASE OnSignal
  BY <1>3, KeepsNames DEF OnSignal, masterVars, SameName, Exists
<1> QED
  BY <1>1, <1>2, <1>3

LEMMA TimeoutNames ==
  ASSUME TypeOK, NEW h \in Handles, AffirmationTimeout(h)
  PROVE  NoneStarted \/ OneStarted
<1> DEFINE f == [inst EXCEPT ![h].isShuttingDown = TRUE, ![h].timedOut = TRUE]
           z == <<inst[h].map, inst[h].clone>>
           chan == SentTo(toWorld, inst[h].addr, <<Msg("SHUTDOWN")>>)
<1>1. Dispatch({h}, {}, z, inst[h].pendingAffirmations, f, chan)
  BY DEF AffirmationTimeout
<1>2. inst \in [Handles -> Instance]
  BY DEF TypeOK, MasterTypes
<1>3. f[h] \in Instance /\ SameName(f[h], inst[h])
  <2>1. inst[h] \in Instance
    BY <1>2
  <2>2. f[h] = [inst[h] EXCEPT !.isShuttingDown = TRUE, !.timedOut = TRUE]
    BY <1>2
  <2> HIDE DEF f
  <2> QED
    BY <2>1, <2>2 DEF Instance, SameName
<1>4. \A g \in Handles \ {h} : f[g] = inst[g]
  BY <1>2
<1>5. f \in [Handles -> Instance]
  BY <1>2, <1>3, <1>4
<1>6. m_Instances \subseteq Handles
  BY HandleFacts DEF TypeOK
<1>7. z[1] \in Maps /\ z[2] \in Clones
  BY <1>2 DEF Instance
<1>8. \A g \in m_Instances : SameName(f[g], inst[g])
  BY <1>3, <1>4, <1>6 DEF SameName
<1> HIDE DEF f, z, chan
<1> QED
  BY <1>1, <1>5, <1>7, <1>8, DispatchNames

LEMMA CommandNames ==
  ASSUME TypeOK, NEW z, NEW h \in Handles, NEW cap, NEW pw, NEW a,
         h \in m_Instances \/ h = nextHandle,
         m_Instances' = m_Instances \cup {h},
         StartIfNew(h, z),
         inst' = WithInstance(inst, h, z, cap, pw, a)
  PROVE  NoneStarted \/ OneStarted
<1>1. inst \in [Handles -> Instance]
  BY DEF TypeOK, MasterTypes
<1>2. \A k \in Handles :
        SameName(inst'[k], WithInstance(inst, h, z, cap, pw, a)[k])
  BY DEF SameName
<1>3. \A k \in m_Instances : SameName(inst[k], inst[k])
  BY DEF SameName
<1>4. m_Instances' \subseteq m_Instances \cup {h}
  OBVIOUS
<1> QED
  BY <1>1, <1>2, <1>3, <1>4, StartNames

LEMMA CommandStepNames ==
  ASSUME TypeOK, CommandStep
  PROVE  NoneStarted \/ OneStarted
<1>1. ASSUME NEW map \in Maps, HandlePrepZone(map)
      PROVE  NoneStarted \/ OneStarted
  <2> DEFINE z == <<map, 0>>
             h == GetInstance({}, z)
  <2>1. /\ h \in Handles
        /\ m_Instances' = m_Instances \cup {h}
        /\ StartIfNew(h, z)
    BY <1>1 DEF HandlePrepZone
  <2>2. PICK a \in UninitialisedAddrs :
          inst' = WithInstance(inst, h, z, SoftCapOf(map), NoPassword, a)
    BY <1>1 DEF HandlePrepZone
  <2>3. h \in m_Instances \/ h = nextHandle
    BY <2>1, GetInstanceResult, HandleFacts DEF TypeOK
  <2> HIDE DEF h, z
  <2> QED
    BY <2>1, <2>2, <2>3, CommandNames
<1>2. ASSUME NEW z \in Zones, NEW pw \in Passwords, HandleCreatePrivateZone(z, pw)
      PROVE  NoneStarted \/ OneStarted
  <2>1. /\ nextHandle \in Handles
        /\ m_Instances' = m_Instances \cup {nextHandle}
        /\ StartIfNew(nextHandle, z)
    BY <1>2 DEF HandleCreatePrivateZone
  <2>2. PICK a \in UninitialisedAddrs :
          inst' = WithInstance(inst, nextHandle, z, MaxCapPrivate, pw, a)
    BY <1>2 DEF HandleCreatePrivateZone
  <2> QED
    BY <2>1, <2>2, CommandNames
<1> QED
  BY <1>1, <1>2, ShutdownNames DEF CommandStep

LEMMA OtherNames ==
  ASSUME TypeOK,
         \/ \E w \in Handles : WorldProcessStep(w) \/ WorldFallsIdle(w)
         \/ RequesterStep
         \/ PlayerStep
         \/ \E w \in Handles : WorldCrashes(w) \/ ConnectionLost(w)
         \/ UNCHANGED vars
  PROVE  NoneStarted
<1>0. /\ world \in [Handles -> WorldProcess]
      /\ \A w \in Handles : world[w] \in WorldProcess
  BY DEF TypeOK, ProcessTypes
<1>1. ASSUME NEW w \in Handles, WorldProcessStep(w) \/ WorldFallsIdle(w)
      PROVE  NoneStarted
  <2>1. UNCHANGED <<m_Instances, inst, nextHandle, m_LastInstanceID>>
    BY <1>1 DEF WorldProcessStep, WorldFallsIdle, WorldStarts,
       WorldFailsToStart, WorldReconnects, WorldBecomesReady, WorldAffirms,
       WorldReceivesShutdown, WorldMissesMaster, WorldExits, WorldReads,
       SignalsItself, masterVars
  <2>2. \A v \in Handles : SameName(world'[v], world[v])
                           /\ (Exists(v)' <=> Exists(v))
    <3>1. CASE WorldStarts(w) \/ WorldFailsToStart(w)
      <4>1. /\ world[w].state = "starting"
            /\ world'[w].state # "none" /\ SameName(world'[w], world[w])
            /\ \A v \in Handles \ {w} : world'[v] = world[v]
        <5>1. CASE WorldStarts(w)
          BY <1>0, <5>1 DEF WorldStarts, SameName, WorldProcess
        <5>2. CASE WorldFailsToStart(w)
          BY <1>0, <5>2 DEF WorldFailsToStart, SameName, WorldProcess
        <5> QED
          BY <3>1, <5>1, <5>2
      <4> QED
        BY <4>1 DEF SameName, Exists
    <3>2. CASE WorldReconnects(w) \/ WorldBecomesReady(w)
      <4>1. /\ world'[w].state = world[w].state /\ SameName(world'[w], world[w])
            /\ \A v \in Handles \ {w} : world'[v] = world[v]
        <5>1. CASE WorldReconnects(w)
          BY <1>0, <5>1 DEF WorldReconnects, SameName, WorldProcess
        <5>2. CASE WorldBecomesReady(w)
          BY <1>0, <5>2 DEF WorldBecomesReady, SameName, WorldProcess
        <5> QED
          BY <3>2, <5>1, <5>2
      <4> QED
        BY <4>1 DEF SameName, Exists
    <3>3. CASE WorldAffirms(w)
      BY <3>3 DEF WorldAffirms, SameName, Exists
    <3>4. CASE WorldReceivesShutdown(w)
      BY <1>0, <3>4
         DEF WorldReceivesShutdown, SameName, Exists, WorldProcess
    <3>5. CASE WorldMissesMaster(w) \/ WorldFallsIdle(w)
      BY <1>0, <3>5 DEF WorldMissesMaster, WorldFallsIdle, SignalsItself,
                        SameName, Exists, WorldProcess
    <3>6. CASE WorldExits(w)
      BY <1>0, <3>6 DEF WorldExits, Gone, SameName, Exists, WorldProcess
    <3> QED
      BY <1>1, <3>1, <3>2, <3>3, <3>4, <3>5, <3>6 DEF WorldProcessStep
  <2> QED
    BY <2>1, <2>2, KeepsNames DEF SameName, Exists
<1>2. CASE RequesterStep
  BY <1>2, KeepsNames DEF RequesterStep, RequestTransfer,
     HandleTransferResponse, masterVars, SameName, Exists
<1>3. CASE PlayerStep
  BY <1>3, KeepsNames
     DEF PlayerStep, PlayerJoins, PlayerLeaves, masterVars, SameName, Exists
<1>4. ASSUME NEW w \in Handles, WorldCrashes(w) \/ ConnectionLost(w)
      PROVE  NoneStarted
  <2>1. UNCHANGED <<m_Instances, inst, nextHandle, m_LastInstanceID>>
    BY <1>4 DEF WorldCrashes, ConnectionLost, masterVars
  <2>2. \A v \in Handles : SameName(world'[v], world[v])
                           /\ (Exists(v)' <=> Exists(v))
    <3>1. /\ \/ world'[w].state = world[w].state
             \/ world[w].state # "none" /\ world'[w].state # "none"
          /\ SameName(world'[w], world[w])
          /\ \A v \in Handles \ {w} : world'[v] = world[v]
      <4>1. CASE WorldCrashes(w)
        BY <1>0, <4>1 DEF WorldCrashes, Gone, SameName, WorldProcess
      <4>2. CASE ConnectionLost(w)
        BY <1>0, <4>2 DEF ConnectionLost, SameName, WorldProcess
      <4> QED
        BY <1>4, <4>1, <4>2
    <3> QED
      BY <3>1 DEF SameName, Exists
  <2> QED
    BY <2>1, <2>2, KeepsNames DEF SameName, Exists
<1>5. CASE UNCHANGED vars
  BY <1>5, KeepsNames DEF vars, masterVars, SameName, Exists
<1> QED
  BY <1>1, <1>2, <1>3, <1>4, <1>5

(* Unless the master is restarted, a step starts one world process or none. *)
LEMMA NamesEvolve ==
  ASSUME TypeOK, [Next]_vars, bounds.restarts = 0
  PROVE  (NoneStarted \/ OneStarted) /\ bounds'.restarts = 0
<1>1. ~MasterRestarts
  BY DEF MasterRestarts
<1>2. bounds \in Bounds
  BY DEF TypeOK, ProcessTypes
<1>3. CASE MasterStep
  <2>1. UNCHANGED bounds
    BY <1>3 DEF MasterStep, HandleRequestZoneTransfer, HandleRequestPrivateZone,
       HandleWorldPacket, HandleServerInfo, HandleWorldReady,
       HandleAffirmTransferResponse, HandlePlayerAdded, HandlePlayerRemoved,
       HandleShutdownResponse, HandleDisconnected, Receive, ShutdownSequence,
       FinalizeShutdown
  <2> QED
    BY <1>3, <2>1, TransferNames, WorldPacketNames, ShutdownNames DEF MasterStep
<1>4. CASE TimerStep
  <2>1. bounds'.restarts = bounds.restarts
    BY <1>2, <1>4 DEF TimerStep, AffirmationTimeout, WorldFallsIdle, Bounds
  <2> QED
    BY <1>4, <2>1, TimeoutNames, OtherNames DEF TimerStep
<1>5. CASE CommandStep
  <2>1. bounds'.restarts = bounds.restarts
    BY <1>2, <1>5
       DEF CommandStep, HandlePrepZone, HandleCreatePrivateZone, OnSignal, Bounds
  <2> QED
    BY <1>5, <2>1, CommandStepNames
<1>6. CASE \E w \in Handles : WorldProcessStep(w)
  <2>1. UNCHANGED bounds
    BY <1>6 DEF WorldProcessStep, WorldStarts, WorldFailsToStart,
       WorldReconnects, WorldBecomesReady, WorldAffirms, WorldReceivesShutdown,
       WorldMissesMaster, WorldExits, WorldReads
  <2> QED
    BY <1>6, <2>1, OtherNames
<1>7. CASE RequesterStep \/ PlayerStep \/ UNCHANGED vars
  <2>1. UNCHANGED bounds
    BY <1>7 DEF RequesterStep, RequestTransfer, HandleTransferResponse,
       PlayerStep, PlayerJoins, PlayerLeaves, vars
  <2> QED
    BY <1>7, <2>1, OtherNames
<1>8. CASE \E w \in Handles : WorldCrashes(w) \/ ConnectionLost(w)
  <2>1. bounds'.restarts = bounds.restarts
    BY <1>2, <1>8 DEF WorldCrashes, ConnectionLost, Bounds
  <2> QED
    BY <1>8, <2>1, OtherNames
<1> QED
  BY <1>1, <1>3, <1>4, <1>5, <1>6, <1>7, <1>8 DEF Next, FaultStep

(* The ids the master gave so far, one for each process it started: below   *)
(* the one it gives next, which has not come round.                         *)
KeysKnown ==
  /\ bounds.restarts = 0
  /\ NextInstanceId < nextHandle
  /\ \A w \in Handles :
       Exists(w) => /\ w < nextHandle
                    /\ world[w].id < NextInstanceId
  /\ \A v, w \in Handles :
       Exists(v) /\ Exists(w) /\ world[v].id = world[w].id => v = w
  /\ \A w \in Handles : Started(w) => Exists(w)
  /\ \A h \in m_Instances :
       \E w \in Handles : Exists(w) /\ SameName(inst[h], world[w])

LEMMA SmallRemainder == \A n \in Nat : n + 1 <= 65535 => (n + 1) % 65536 = n + 1
OBVIOUS

LEMMA KeysNext ==
  ASSUME TypeOK, KeysKnown, [Next]_vars, MaxInstances <= InvalidInstanceId
  PROVE  KeysKnown'
<1>1. (NoneStarted \/ OneStarted) /\ bounds'.restarts = 0
  BY NamesEvolve DEF KeysKnown
<1>2. WorldsEvolve /\ TypeOK'
  BY MasterStepWorlds, WorldStepWorlds, OtherStepWorlds, TypeNext
     DEF Next, TimerStep
<1>3. /\ nextHandle \in Nat /\ nextHandle' \in Nat
      /\ \A w \in Handles : world[w].id \in Nat /\ world'[w].id \in Nat
      /\ MaxInstances \in Nat
  <2>1. \A w \in Handles : world[w] \in WorldProcess /\ world'[w] \in WorldProcess
    BY <1>2 DEF TypeOK, ProcessTypes
  <2> QED
    BY <1>2, <2>1, HandleFacts DEF TypeOK, MasterTypes, WorldProcess, InstanceIds
<1>4. NextInstanceId \in Nat /\ m_LastInstanceID \in Nat
  BY NextInstanceIdType DEF TypeOK, MasterTypes, InstanceIds
<1>5. CASE NoneStarted
  <2>1. NextInstanceId' = NextInstanceId
    BY <1>5 DEF NoneStarted, NextInstanceId
  <2>2. \A w \in Handles : (Exists(w)' <=> Exists(w)) /\ SameName(world'[w], world[w])
    BY <1>5 DEF NoneStarted
  <2>3. nextHandle <= nextHandle'
    BY <1>5 DEF NoneStarted
  <2>4. \A w \in Handles :
          Exists(w)' => /\ w < nextHandle'
                        /\ world'[w].id < NextInstanceId'
    <3> TAKE w \in Handles
    <3>1. w \in Nat
      BY DEF Handles
    <3> QED
      BY <1>3, <2>1, <2>2, <2>3, <3>1 DEF KeysKnown, SameName
  <2>5. \A w \in Handles : Started(w)' => Exists(w)'
    BY <1>2, <2>2 DEF KeysKnown, WorldsEvolve, Exists
  <2>6. \A h \in m_Instances' :
          \E w \in Handles : Exists(w)' /\ SameName(inst'[h], world'[w])
    <3> TAKE h \in m_Instances'
    <3>1. CASE h \in m_Instances /\ SameName(inst'[h], inst[h])
      <4>1. PICK w \in Handles : Exists(w) /\ SameName(inst[h], world[w])
        BY <3>1 DEF KeysKnown
      <4> QED
        BY <2>2, <3>1, <4>1 DEF SameName
    <3>2. CASE \E w \in Handles : toMaster[w] # <<>> /\ SameName(inst'[h], world[w])
      <4>1. PICK w \in Handles : toMaster[w] # <<>> /\ SameName(inst'[h], world[w])
        BY <3>2
      <4>2. Exists(w)
        BY <4>1 DEF KeysKnown, Started
      <4> QED
        BY <2>2, <4>1, <4>2 DEF SameName
    <3> QED
      BY <1>5, <3>1, <3>2 DEF NoneStarted
  <2>7. NextInstanceId' < nextHandle'
    BY <1>3, <1>4, <2>1, <2>3 DEF KeysKnown
  <2>8. \A v, w \in Handles :
          Exists(v)' /\ Exists(w)' /\ world'[v].id = world'[w].id => v = w
    BY <2>2 DEF KeysKnown, SameName
  <2> QED
    BY <1>1, <2>4, <2>5, <2>6, <2>7, <2>8 DEF KeysKnown
<1>6. CASE OneStarted
  <2> DEFINE n == nextHandle
  <2>1. /\ n \in Handles /\ nextHandle' = n + 1
        /\ m_LastInstanceID' = NextInstanceId
        /\ world'[n].state # "none" /\ world'[n].id = NextInstanceId
        /\ \A w \in Handles \ {n} : world'[w] = world[w]
    BY <1>6 DEF OneStarted
  <2>2. NextInstanceId' = NextInstanceId + 1
    <3>1. NextInstanceId < n /\ n \in 1..MaxInstances
      BY <2>1 DEF KeysKnown, Handles
    <3>2. NextInstanceId + 1 <= 65535
      <4>1. MaxInstances <= 65535
        BY DEF InvalidInstanceId
      <4> QED
        BY <1>3, <1>4, <3>1, <4>1
    <3>3. (NextInstanceId + 1) % 65536 = NextInstanceId + 1
      BY <1>4, <3>2, SmallRemainder
    <3>4. NextInstanceId' = (NextInstanceId + 1) % 65536
      BY <2>1 DEF NextInstanceId, InvalidInstanceId
    <3> QED
      BY <3>3, <3>4
  <2>3. \A w \in Handles \ {n} : Exists(w)' <=> Exists(w)
    BY <2>1 DEF Exists
  <2>4. \A w \in Handles :
          Exists(w)' => /\ w < nextHandle'
                        /\ world'[w].id < NextInstanceId'
    <3> TAKE w \in Handles
    <3>1. w \in Nat
      BY DEF Handles
    <3>2. CASE w = n
      BY <1>3, <1>4, <2>1, <2>2, <3>2
    <3>3. CASE w # n
      <4>1. Exists(w)' => w < nextHandle /\ world[w].id < NextInstanceId
        BY <2>3, <3>3 DEF KeysKnown
      <4> QED
        BY <1>3, <1>4, <2>1, <2>2, <3>1, <3>3, <4>1
    <3> QED
      BY <3>2, <3>3
  <2>5. \A w \in Handles : Started(w)' => Exists(w)'
    BY <1>2, <2>1, <2>3 DEF KeysKnown, WorldsEvolve, Exists
  <2>6. \A h \in m_Instances' :
          \E w \in Handles : Exists(w)' /\ SameName(inst'[h], world'[w])
    <3> TAKE h \in m_Instances'
    <3>1. CASE h \in m_Instances /\ SameName(inst'[h], inst[h])
      <4>1. PICK w \in Handles : Exists(w) /\ SameName(inst[h], world[w])
        BY <3>1 DEF KeysKnown
      <4>2. w # n
        <5>1. w < nextHandle /\ w \in Nat
          BY <4>1 DEF KeysKnown, Handles
        <5> QED
          BY <5>1, <1>3
      <4> QED
        BY <2>1, <2>3, <3>1, <4>1, <4>2 DEF SameName
    <3>2. CASE h = nextHandle /\ SameName(inst'[h], world'[h])
      BY <2>1, <3>2 DEF Exists
    <3> QED
      BY <1>6, <3>1, <3>2 DEF OneStarted
  <2>7. NextInstanceId' < nextHandle'
    BY <1>3, <1>4, <2>1, <2>2 DEF KeysKnown
  <2>8. \A v, w \in Handles :
          Exists(v)' /\ Exists(w)' /\ world'[v].id = world'[w].id => v = w
    <3>1. \A w \in Handles \ {n} : Exists(w)' => world'[w].id # world'[n].id
      <4> TAKE w \in Handles \ {n}
      <4>1. Exists(w)' => world[w].id < NextInstanceId
        BY <2>3 DEF KeysKnown
      <4> QED
        BY <1>3, <1>4, <2>1, <4>1
    <3>2. \A v, w \in Handles \ {n} :
            Exists(v)' /\ Exists(w)' /\ world'[v].id = world'[w].id => v = w
      BY <2>1, <2>3 DEF KeysKnown
    <3> QED
      BY <3>1, <3>2
  <2> QED
    BY <1>1, <2>4, <2>5, <2>6, <2>7, <2>8 DEF KeysKnown
<1> QED
  BY <1>1, <1>5, <1>6

LEMMA KeysInit ==
  ASSUME Init, MaxMasterRestarts = 0
  PROVE  KeysKnown
<1>1. NextInstanceId = 0
  <2>1. NextInstanceId = (65535 + 1) % 65536
    BY DEF Init, NextInstanceId, InvalidInstanceId
  <2> QED
    BY <2>1
<1>2. \A w \in Handles : ~Started(w) /\ ~Exists(w)
  BY DEF Init, Started, Exists, NoWorld, StartedWorld, NoMessages
<1> QED
  BY <1>1, <1>2 DEF Init, KeysKnown

(* While one master runs and has not given all its 16 bit ids, a map and an *)
(* id name one Instance: ids are not reused, so two Instances of one name   *)
(* are of one process, and an Instance is added back for a process only     *)
(* when its port is free, that is when it has no Instance.                  *)
THEOREM KeysCorrect ==
  ASSUME MaxMasterRestarts = 0, MaxInstances <= InvalidInstanceId
  PROVE  Spec => []InstanceKeysUnique
<1>1. Init => KeysKnown
  BY KeysInit
<1>2. TypeOK /\ KeysKnown /\ [Next]_vars => KeysKnown'
  BY KeysNext
<1>3. KeysKnown /\ DistinctPorts => InstanceKeysUnique
  <2> SUFFICES ASSUME KeysKnown, DistinctPorts,
                      NEW g \in m_Instances, NEW h \in m_Instances,
                      inst[g].map = inst[h].map, inst[g].id = inst[h].id
               PROVE  g = h
    BY DEF InstanceKeysUnique
  <2>1. PICK v \in Handles : Exists(v) /\ SameName(inst[g], world[v])
    BY DEF KeysKnown
  <2>2. PICK w \in Handles : Exists(w) /\ SameName(inst[h], world[w])
    BY DEF KeysKnown
  <2>3. v = w
    BY <2>1, <2>2 DEF KeysKnown, SameName
  <2> QED
    BY <2>1, <2>2, <2>3 DEF SameName, DistinctPorts
<1> QED
  BY <1>1, <1>2, <1>3, TypeCorrect, PortsCorrect, PTL DEF Spec

-----------------------------------------------------------------------------
(***************************************************************************)
(* What becomes of transfer requests, affirmations and players while no     *)
(* process crashes, no connection is lost and the master is not told to     *)
(* stop.  A world process and the Instance it was started for have the same *)
(* number then; the invariant is about the two, and the messages between    *)
(* them.                                                                    *)
(***************************************************************************)

(* The circumstances: nothing fails, the master runs, a new Instance has no *)
(* address, and the 16 bit ids have not come round.                         *)
NothingFails ==
  /\ MaxWorldCrashes = 0
  /\ MaxConnectionLosses = 0
  /\ MaxMasterRestarts = 0
  /\ ReusedMemory = FALSE
  /\ SignalsMaster = FALSE
  /\ MaxInstances <= InvalidInstanceId

Calm ==
  /\ master = "running"
  /\ bounds.crashes = 0 /\ bounds.losses = 0 /\ bounds.restarts = 0

Mentions(m, type) == \E i \in DOMAIN m : m[i].type = type

(* The handle w: its process and its Instance go by the same name, and the  *)
(* Instance is there until the last message of the process was handled.     *)
Paired(w) ==
  /\ Exists(w) <=> w < nextHandle
  /\ w \in m_Instances =>
       /\ inst[w].map = world[w].map
       /\ inst[w].clone = world[w].clone
       /\ inst[w].id = world[w].id
       /\ inst[w].port = world[w].port
  /\ w < nextHandle /\ w \notin m_Instances =>
       world[w].state = "gone" /\ toMaster[w] = <<>>
  /\ ~(w < nextHandle) => ~inst[w].ready

(* The life of the process p, which sends m and is sent c.                  *)
Lively(p, m, c) ==
  /\ p.state \in {"none", "starting"} => ~p.ready /\ m = <<>>
  /\ p.linked <=> p.state = "up"
  /\ p.state # "up" => c = <<>>
  /\ p.signalled => p.ready
  /\ p.state = "gone" => p.signalled
  /\ Mentions(c, "SHUTDOWN") => p.ready

(* The order of its messages: it introduces itself first, becomes ready     *)
(* once, and takes its leave last.                                          *)
Ordered(m, p) ==
  /\ \A i \in DOMAIN m : m[i].type = "SERVER_INFO" => i = 1
  /\ \A i \in DOMAIN m : m[i].type = "WORLD_READY" =>
       /\ p.ready
       /\ \A j \in DOMAIN m : m[j].type = "WORLD_READY" => i = j
       /\ \A j \in DOMAIN m : m[j].type = "SHUTDOWN_RESPONSE" => i < j
  /\ \A i \in DOMAIN m : m[i].type = "SHUTDOWN_RESPONSE" => p.state = "gone"
  /\ \A i \in DOMAIN m : m[i].type = "DISCONNECTED" =>
       i = Len(m) /\ p.state = "gone"

Introduced(p, m) == p.state \in {"up", "gone"} /\ ~Mentions(m, "SERVER_INFO")

Private(i) == i.password # NoPassword

(* What the master knows of p in its Instance i: of a private one nothing.  *)
Known(i, p, m) ==
  /\ Private(i) => /\ i.addr = NoAddr /\ ~i.ready /\ ~i.isShuttingDown
                   /\ i.pendingRequests = <<>>
  /\ ~Private(i) => /\ i.addr = IF Introduced(p, m) THEN i.port ELSE NoAddr
                    /\ i.ready <=> p.ready /\ ~Mentions(m, "WORLD_READY")
                    /\ i.isShuttingDown => i.ready
                    /\ i.ready => Introduced(p, m)

Fit(w) ==
  /\ Paired(w)
  /\ Lively(world[w], toMaster[w], toWorld[w])
  /\ Ordered(toMaster[w], world[w])
  /\ w \in m_Instances => Known(inst[w], world[w], toMaster[w])

PlayersIn(w) == {q \in Requests : location[q] = w}

Playing ==
  \A q \in Requests :
    /\ status[q] = "playing" <=> location[q] # 0
    /\ location[q] # 0 => world[location[q]].state = "up"

(* The players a world has announced and not taken back.                    *)
Reckoned(w) == Cardinality(PlayersIn(w)) + ghosts[w]

(* The queue of those who said they were coming and those who said they     *)
(* went, which never counts below 0, and its balance.                       *)
Added   == {m \in ToMasterMessage : m.type = "PLAYER_ADDED"}
Removed == {m \in ToMasterMessage : m.type = "PLAYER_REMOVED"}

Balanced(i, m, n) ==
  /\ \A k \in 0..Len(m) :
       Occurrences(SubSeq(m, 1, k), Removed)
         <= i.clients + Occurrences(SubSeq(m, 1, k), Added)
  /\ n + Occurrences(m, Removed) = i.clients + Occurrences(m, Added)

Numbered(id) == {q \in Requests : q[2] = id}

(* Every affirmation i awaits is asked for in c or given in m.              *)
Awaited(i, m, c) ==
  \A id \in 1..MaxRequestId :
    Occurrences(i.pendingAffirmations, Numbered(id))
      = Occurrences(c, {AffirmRequest(id)})
        + Occurrences(m, {AffirmResponse(id)})

Attended(w) ==
  w \in m_Instances /\ world[w].state # "gone" =>
    /\ Awaited(inst[w], toMaster[w], toWorld[w])
    /\ ~Private(inst[w]) /\ ~inst[w].isShuttingDown =>
         Balanced(inst[w], toMaster[w], Reckoned(w))

Queued(i) == ToSet(i.pendingRequests) \cup ToSet(i.pendingAffirmations)

Loaded == {Key(world[w]) : w \in {v \in Handles : world[v].ready}}

(* Requests are where their players wanted to go, and are answered so.      *)
Asked ==
  /\ \A t \in transfers : t.target = target[t.req] /\ status[t.req] # "idle"
  /\ \A h \in m_Instances : \A q \in Queued(inst[h]) :
       target[q] = <<inst[h].map, inst[h].clone>> /\ status[q] # "idle"
  /\ \A m \in responses :
       /\ status[m.req] # "idle"
       /\ target[m.req] \in Zones =>
            /\ <<m.answer.map, m.answer.clone>> = target[m.req]
            /\ m.answer \in Loaded

(* What is true of the master whatever happens.                             *)
Sound ==
  /\ TypeOK
  /\ PendingMatchesReadiness
  /\ DistinctPorts
  /\ PortsOnGrid
  /\ InstanceKeysUnique

Together ==
  /\ Calm
  /\ \A w \in Handles : Fit(w)
  /\ Playing
  /\ \A w \in Handles : IsFiniteSet(PlayersIn(w))
  /\ \A w \in Handles : world[w].state = "none" => ghosts[w] = 0

-----------------------------------------------------------------------------
(* Messages that come and go.                                               *)

LEMMA TailMessages ==
  ASSUME NEW S, NEW m \in Seq(S), m # <<>>
  PROVE  /\ Tail(m) \in Seq(S) /\ Len(m) \in Nat /\ 1 <= Len(m)
         /\ Len(Tail(m)) = Len(m) - 1
         /\ DOMAIN m = 1..Len(m) /\ DOMAIN Tail(m) = 1..(Len(m) - 1)
         /\ \A i \in DOMAIN Tail(m) : i + 1 \in DOMAIN m /\ Tail(m)[i] = m[i + 1]
         /\ Head(m) = m[1]
         /\ \A i \in DOMAIN m : i = 1 \/ i - 1 \in DOMAIN Tail(m)
<1>1. Tail(m) \in Seq(S) /\ Len(Tail(m)) = Len(m) - 1
      /\ \A i \in 1..Len(Tail(m)) : Tail(m)[i] = m[i + 1]
  BY HeadTailProperties
<1>2. Len(m) \in Nat /\ Len(m) # 0 /\ DOMAIN m = 1..Len(m)
  BY LenProperties, EmptySeq
<1>3. DOMAIN Tail(m) = 1..(Len(m) - 1)
  BY <1>1, LenProperties
<1>4. Head(m) = m[1]
  BY <1>2
<1>5. \A i \in 1..(Len(m) - 1) : i + 1 \in 1..Len(m)
  BY <1>2
<1>6. \A i \in 1..Len(m) : i = 1 \/ i - 1 \in 1..(Len(m) - 1)
  BY <1>2
<1> QED
  BY <1>1, <1>2, <1>3, <1>4, <1>5, <1>6

LEMMA AppendMessages ==
  ASSUME NEW S, NEW m \in Seq(S), NEW e \in S
  PROVE  /\ Append(m, e) \in Seq(S) /\ Len(m) \in Nat
         /\ Len(Append(m, e)) = Len(m) + 1
         /\ DOMAIN m = 1..Len(m) /\ DOMAIN Append(m, e) = 1..(Len(m) + 1)
         /\ \A i \in DOMAIN m : i \in DOMAIN Append(m, e) /\ Append(m, e)[i] = m[i]
         /\ Append(m, e)[Len(m) + 1] = e
         /\ \A i \in DOMAIN Append(m, e) : i \in DOMAIN m \/ i = Len(m) + 1
<1>1. /\ Append(m, e) \in Seq(S) /\ Len(Append(m, e)) = Len(m) + 1
      /\ \A i \in 1..Len(m) : Append(m, e)[i] = m[i]
      /\ Append(m, e)[Len(m) + 1] = e
  BY AppendProperties
<1>2. Len(m) \in Nat /\ DOMAIN m = 1..Len(m)
  BY LenProperties
<1>3. DOMAIN Append(m, e) = 1..(Len(m) + 1)
  BY <1>1, LenProperties
<1>4. \A i \in 1..Len(m) : i \in 1..(Len(m) + 1)
  BY <1>2
<1>5. \A i \in 1..(Len(m) + 1) : i \in 1..Len(m) \/ i = Len(m) + 1
  BY <1>2
<1> QED
  BY <1>1, <1>2, <1>3, <1>4, <1>5

LEMMA MentionsTail ==
  ASSUME NEW S, NEW m \in Seq(S), m # <<>>, NEW type
  PROVE  Mentions(m, type) <=> Mentions(Tail(m), type) \/ Head(m).type = type
<1>1. ASSUME Mentions(m, type), Head(m).type # type PROVE Mentions(Tail(m), type)
  <2>1. PICK i \in DOMAIN m : m[i].type = type
    BY <1>1 DEF Mentions
  <2>2. i # 1 /\ i - 1 \in DOMAIN Tail(m)
    BY <1>1, <2>1, TailMessages
  <2>3. Tail(m)[i - 1] = m[(i - 1) + 1] /\ i \in Int
    BY <2>1, <2>2, TailMessages
  <2>4. (i - 1) + 1 = i
    BY <2>3
  <2> QED
    BY <2>1, <2>2, <2>3, <2>4 DEF Mentions
<1>2. ASSUME Mentions(Tail(m), type) PROVE Mentions(m, type)
  BY <1>2, TailMessages DEF Mentions
<1>3. 1 \in DOMAIN m /\ Head(m) = m[1]
  BY TailMessages
<1> QED
  BY <1>1, <1>2, <1>3 DEF Mentions

LEMMA MentionsAppend ==
  ASSUME NEW S, NEW m \in Seq(S), NEW e \in S, NEW type
  PROVE  Mentions(Append(m, e), type) <=> Mentions(m, type) \/ e.type = type
<1>1. Len(m) + 1 \in DOMAIN Append(m, e)
  BY AppendMessages
<1> QED
  BY <1>1, AppendMessages DEF Mentions

LEMMA MentionsNone == \A type : ~Mentions(<<>>, type)
BY DEF Mentions

LEMMA MentionsConcat ==
  ASSUME NEW S, NEW m \in Seq(S), NEW n \in Seq(S), NEW type
  PROVE  Mentions(m \o n, type) => Mentions(m, type) \/ Mentions(n, type)
<1> SUFFICES ASSUME NEW i \in DOMAIN (m \o n), (m \o n)[i].type = type
             PROVE  Mentions(m, type) \/ Mentions(n, type)
  BY DEF Mentions
<1>1. /\ Len(m) \in Nat /\ Len(n) \in Nat
      /\ DOMAIN m = 1..Len(m) /\ DOMAIN n = 1..Len(n)
  BY LenProperties
<1>2. /\ i \in 1..(Len(m) + Len(n))
      /\ (m \o n)[i] = IF i <= Len(m) THEN m[i] ELSE n[i - Len(m)]
  BY ConcatProperties, LenProperties
<1>3. CASE i <= Len(m)
  BY <1>1, <1>2, <1>3 DEF Mentions
<1>4. CASE ~(i <= Len(m))
  <2>1. i - Len(m) \in 1..Len(n)
    BY <1>1, <1>2, <1>4
  <2> QED
    BY <1>1, <1>2, <1>4, <2>1 DEF Mentions
<1> QED
  BY <1>3, <1>4

(* A message that was read leaves the others in their order.                *)
LEMMA OrderedTail ==
  ASSUME NEW m \in Seq(ToMasterMessage), m # <<>>, NEW p, Ordered(m, p)
  PROVE  /\ Ordered(Tail(m), p)
         /\ ~Mentions(Tail(m), "SERVER_INFO")
         /\ Head(m).type = "WORLD_READY" => p.ready /\ ~Mentions(Tail(m), "WORLD_READY")
         /\ Head(m).type = "SHUTDOWN_RESPONSE" =>
              p.state = "gone" /\ ~Mentions(m, "WORLD_READY")
         /\ Head(m).type = "DISCONNECTED" => p.state = "gone" /\ Tail(m) = <<>>
<1> DEFINE t == Tail(m)
<1>1. /\ Len(m) \in Nat /\ 1 <= Len(m) /\ Len(t) = Len(m) - 1 /\ t \in Seq(ToMasterMessage)
      /\ DOMAIN m = 1..Len(m) /\ DOMAIN t = 1..(Len(m) - 1)
      /\ \A i \in DOMAIN t : i + 1 \in DOMAIN m /\ t[i] = m[i + 1]
      /\ Head(m) = m[1]
  BY TailMessages
<1> HIDE DEF t
<1>2. \A i \in DOMAIN t : i \in Int /\ i + 1 # 1
  BY <1>1
<1>3. 1 \in DOMAIN m
  BY <1>1
<1>4. \A i \in DOMAIN t : t[i].type # "SERVER_INFO"
  BY <1>1, <1>2 DEF Ordered
<1>5. \A i \in DOMAIN t : t[i].type = "WORLD_READY" =>
        /\ p.ready
        /\ \A j \in DOMAIN t : t[j].type = "WORLD_READY" => i = j
        /\ \A j \in DOMAIN t : t[j].type = "SHUTDOWN_RESPONSE" => i < j
  <2> SUFFICES ASSUME NEW i \in DOMAIN t, t[i].type = "WORLD_READY"
               PROVE  /\ p.ready
                      /\ \A j \in DOMAIN t : t[j].type = "WORLD_READY" => i = j
                      /\ \A j \in DOMAIN t : t[j].type = "SHUTDOWN_RESPONSE" => i < j
    OBVIOUS
  <2>1. i + 1 \in DOMAIN m /\ m[i + 1].type = "WORLD_READY"
    BY <1>1
  <2>2. ASSUME NEW j \in DOMAIN t, t[j].type = "WORLD_READY" PROVE i = j
    <3>1. i + 1 = j + 1
      BY <1>1, <2>1, <2>2 DEF Ordered
    <3> QED
      BY <1>2, <3>1
  <2>3. ASSUME NEW j \in DOMAIN t, t[j].type = "SHUTDOWN_RESPONSE" PROVE i < j
    <3>1. i + 1 < j + 1
      BY <1>1, <2>1, <2>3 DEF Ordered
    <3> QED
      BY <1>2, <3>1
  <2> QED
    BY <2>1, <2>2, <2>3 DEF Ordered
<1>6. \A i \in DOMAIN t : t[i].type = "SHUTDOWN_RESPONSE" => p.state = "gone"
  BY <1>1 DEF Ordered
<1>7. \A i \in DOMAIN t : t[i].type = "DISCONNECTED" => i = Len(t) /\ p.state = "gone"
  <2> TAKE i \in DOMAIN t
  <2>1. t[i].type = "DISCONNECTED" => i + 1 = Len(m) /\ p.state = "gone"
    BY <1>1 DEF Ordered
  <2> QED
    BY <1>1, <1>2, <2>1
<1>8. Ordered(t, p)
  BY <1>4, <1>5, <1>6, <1>7 DEF Ordered
<1>9. Head(m).type = "WORLD_READY" => p.ready /\ ~Mentions(t, "WORLD_READY")
  <2> HAVE Head(m).type = "WORLD_READY"
  <2>1. \A j \in DOMAIN m : m[j].type = "WORLD_READY" => j = 1
    BY <1>1, <1>3 DEF Ordered
  <2>2. p.ready
    BY <1>1, <1>3 DEF Ordered
  <2> QED
    BY <1>1, <1>2, <2>1, <2>2 DEF Mentions
<1>10. Head(m).type = "SHUTDOWN_RESPONSE" =>
         p.state = "gone" /\ ~Mentions(m, "WORLD_READY")
  <2> HAVE Head(m).type = "SHUTDOWN_RESPONSE"
  <2>1. \A j \in DOMAIN m : m[j].type = "WORLD_READY" => j < 1
    BY <1>1, <1>3 DEF Ordered
  <2>2. \A j \in DOMAIN m : ~(j < 1)
    BY <1>1
  <2> QED
    BY <1>1, <1>3, <2>1, <2>2 DEF Mentions, Ordered
<1>11. Head(m).type = "DISCONNECTED" => p.state = "gone" /\ t = <<>>
  <2> HAVE Head(m).type = "DISCONNECTED"
  <2>1. 1 = Len(m) /\ p.state = "gone"
    BY <1>1, <1>3 DEF Ordered
  <2>2. Len(t) = 0
    BY <1>1, <2>1
  <2> QED
    BY <1>1, <2>1, <2>2, EmptySeq
<1> QED
  BY <1>4, <1>8, <1>9, <1>10, <1>11 DEF t, Mentions

(* A message that a world may send, by what it is.                          *)
LEMMA OrderedAppend ==
  ASSUME NEW m \in Seq(ToMasterMessage), NEW e \in ToMasterMessage, NEW p, NEW q,
         Ordered(m, p),
         p.ready => q.ready,
         ~Mentions(m, "DISCONNECTED"),
         Mentions(m, "SHUTDOWN_RESPONSE") => q.state = "gone",
         e.type = "SERVER_INFO" => m = <<>>,
         e.type = "WORLD_READY" =>
           /\ q.ready /\ ~Mentions(m, "WORLD_READY")
           /\ ~Mentions(m, "SHUTDOWN_RESPONSE"),
         e.type \in {"SHUTDOWN_RESPONSE", "DISCONNECTED"} => q.state = "gone"
  PROVE  Ordered(Append(m, e), q)
<1> DEFINE a == Append(m, e)
           n == Len(m) + 1
<1>1. /\ Len(m) \in Nat /\ Len(a) = n
      /\ DOMAIN m = 1..Len(m) /\ DOMAIN a = 1..n
      /\ \A i \in DOMAIN m : i \in DOMAIN a /\ a[i] = m[i]
      /\ a[n] = e
      /\ \A i \in DOMAIN a : i \in DOMAIN m \/ i = n
  BY AppendMessages
<1>2. \A i \in DOMAIN m : i \in Int /\ i < n
  BY <1>1
<1>3. m = <<>> => n = 1
  BY EmptySeq
<1> HIDE DEF a, n
<1>4. \A i \in DOMAIN a : a[i].type = "SERVER_INFO" => i = 1
  BY <1>1, <1>3 DEF Ordered
<1>5. ASSUME NEW i \in DOMAIN a, a[i].type = "WORLD_READY"
      PROVE  /\ q.ready
             /\ \A j \in DOMAIN a : a[j].type = "WORLD_READY" => i = j
             /\ \A j \in DOMAIN a : a[j].type = "SHUTDOWN_RESPONSE" => i < j
  BY <1>1, <1>2, <1>5 DEF Ordered, Mentions
<1>6. \A i \in DOMAIN a : a[i].type = "SHUTDOWN_RESPONSE" => q.state = "gone"
  BY <1>1 DEF Mentions
<1>7. \A i \in DOMAIN a : a[i].type = "DISCONNECTED" => i = Len(a) /\ q.state = "gone"
  BY <1>1 DEF Mentions
<1> QED
  BY <1>4, <1>5, <1>6, <1>7 DEF Ordered, a

-----------------------------------------------------------------------------
(* A world process and its Instance.                                        *)

LEMMA Parts ==
  ASSUME Sound
  PROVE  /\ MasterTypes /\ ProcessTypes /\ RequestTypes
         /\ inst \in [Handles -> Instance]
         /\ world \in [Handles -> WorldProcess]
         /\ toMaster \in [Handles -> Seq(ToMasterMessage)]
         /\ toWorld \in [Handles -> Seq(ToWorldMessage)]
         /\ m_Instances \subseteq Handles
         /\ nextHandle \in Nat /\ nextHandle \notin m_Instances
         /\ \A w \in Handles : w \in Nat /\ w # 0
BY HandleFacts DEF Sound, TypeOK, MasterTypes, ProcessTypes, Handles

LEMMA FirstOfOne ==
  ASSUME NEW w \in Handles
  PROVE  First({w}) = w
<1>1. {w} \in SUBSET Nat /\ {w} # {}
  BY DEF Handles
<1>2. Min({w}) \in {w}
  BY <1>1, MinOfNats
<1> QED
  BY <1>2 DEF First

LEMMA PortsPositive ==
  ASSUME Sound, NEW h \in m_Instances
  PROVE  inst[h].port \in Nat /\ inst[h].port # NoAddr
<1>1. inst[h].port \in Grid /\ inst[h] \in Instance
  BY Parts DEF Sound, PortsOnGrid
<1>2. PICK k \in Nat : inst[h].port = PortOf(k)
  BY <1>1 DEF Grid
<1>3. BasePort \in Nat \ {0}
  BY ConstantsAssumption
<1>4. BasePort + 3 * k # 0
  BY <1>3
<1> QED
  BY <1>1, <1>2, <1>4 DEF PortOf, PortsPerInstance, NoAddr, Instance

(* Who says something has an Instance.                                      *)
LEMMA SpeakerLives ==
  ASSUME Sound, Together, NEW w \in Handles, toMaster[w] # <<>>
  PROVE  /\ w \in m_Instances
         /\ world[w].state \in {"up", "gone"}
<1>1. Fit(w)
  BY DEF Together
<1>2. world[w].state \notin {"none", "starting"}
  BY <1>1 DEF Fit, Lively
<1>3. world[w].state \in {"none", "starting", "up", "gone"}
  BY Parts DEF WorldProcess
<1>4. w < nextHandle
  BY <1>1, <1>2 DEF Fit, Paired, Exists
<1> QED
  BY <1>1, <1>2, <1>3, <1>4 DEF Fit, Paired

(* The master finds the Instance of a world by its map and id, unless it is *)
(* private or shuts down.                                                   *)
LEMMA OwnById ==
  ASSUME Sound, Together, NEW w \in m_Instances
  PROVE  FindInstanceById(world[w].map, world[w].id)
           = IF IsPrivate(w) \/ inst[w].isShuttingDown THEN NoHandle ELSE w
<1>1. w \in Handles
  BY Parts
<1>2. world[w].map = inst[w].map /\ world[w].id = inst[w].id
  BY <1>1 DEF Together, Fit, Paired
<1> DEFINE S == {h \in m_Instances : /\ inst[h].map = world[w].map
                                     /\ inst[h].id = world[w].id
                                     /\ ~IsPrivate(h)
                                     /\ ~inst[h].isShuttingDown}
<1>3. S \subseteq {w}
  BY <1>2 DEF Sound, InstanceKeysUnique
<1>4. w \in S <=> ~(IsPrivate(w) \/ inst[w].isShuttingDown)
  BY <1>2
<1>5. FindInstanceById(world[w].map, world[w].id) = First(S)
  BY DEF FindInstanceById
<1> HIDE DEF S
<1>6. CASE IsPrivate(w) \/ inst[w].isShuttingDown
  <2>1. S = {}
    BY <1>3, <1>4, <1>6
  <2> QED
    BY <1>5, <1>6, <2>1 DEF First
<1>7. CASE ~(IsPrivate(w) \/ inst[w].isShuttingDown)
  <2>1. S = {w}
    BY <1>3, <1>4, <1>7
  <2> QED
    BY <1>1, <1>5, <1>7, <2>1, FirstOfOne
<1> QED
  BY <1>6, <1>7

(* It finds it by its address once it was introduced, unless it is private. *)
LEMMA OwnByAddr ==
  ASSUME Sound, Together, NEW w \in m_Instances
  PROVE  GetInstanceBySysAddr(world[w].port)
           = IF IsPrivate(w) \/ ~Introduced(world[w], toMaster[w])
             THEN NoHandle ELSE w
<1>1. w \in Handles
  BY Parts
<1>2. \A h \in m_Instances : h \in Handles /\ Known(inst[h], world[h], toMaster[h])
  BY Parts DEF Together, Fit
<1>3. world[w].port = inst[w].port /\ inst[w].port # NoAddr
  BY <1>1, PortsPositive DEF Together, Fit, Paired
<1> DEFINE S == {h \in m_Instances : inst[h].addr = world[w].port}
<1>4. \A h \in m_Instances :
        inst[h].addr = IF Private(inst[h]) \/ ~Introduced(world[h], toMaster[h])
                       THEN NoAddr ELSE inst[h].port
  BY <1>2 DEF Known
<1>5. S \subseteq {w}
  BY <1>3, <1>4 DEF Sound, DistinctPorts
<1>6. w \in S <=> ~(IsPrivate(w) \/ ~Introduced(world[w], toMaster[w]))
  BY <1>3, <1>4 DEF IsPrivate, Private
<1>7. GetInstanceBySysAddr(world[w].port) = First(S)
  BY DEF GetInstanceBySysAddr
<1> HIDE DEF S
<1>8. CASE IsPrivate(w) \/ ~Introduced(world[w], toMaster[w])
  <2>1. S = {}
    BY <1>5, <1>6, <1>8
  <2> QED
    BY <1>7, <1>8, <2>1 DEF First
<1>9. CASE ~(IsPrivate(w) \/ ~Introduced(world[w], toMaster[w]))
  <2>1. S = {w}
    BY <1>5, <1>6, <1>9
  <2> QED
    BY <1>1, <1>7, <1>9, <2>1, FirstOfOne
<1> QED
  BY <1>8, <1>9

(* What is sent to the address of a ready Instance reaches its process and  *)
(* no other.                                                                *)
LEMMA SentToOwn ==
  ASSUME Sound, Together, NEW h \in m_Instances, inst[h].ready,
         NEW chan \in [Handles -> Seq(ToWorldMessage)],
         NEW msgs \in Seq(ToWorldMessage)
  PROVE  /\ SentTo(chan, inst[h].addr, msgs) \in [Handles -> Seq(ToWorldMessage)]
         /\ \A w \in Handles :
              SentTo(chan, inst[h].addr, msgs)[w]
                = IF w = h /\ world[w].state = "up" THEN chan[w] \o msgs ELSE chan[w]
<1>1. h \in Handles /\ Fit(h)
  BY Parts DEF Together
<1>2. inst[h].addr = inst[h].port /\ inst[h].port = world[h].port
  BY <1>1 DEF Fit, Known, Paired
<1>3. ASSUME NEW w \in Handles, world[w].linked, world[w].port = inst[h].addr
      PROVE  w = h
  <2>1. Fit(w) /\ world[w].state = "up"
    BY <1>3 DEF Together, Fit, Lively
  <2>2. w \in m_Instances
    BY <2>1 DEF Fit, Paired, Exists
  <2>3. inst[w].port = world[w].port
    BY <2>1, <2>2 DEF Fit, Paired
  <2> QED
    BY <1>2, <1>3, <2>2, <2>3 DEF Sound, DistinctPorts
<1>4. \A w \in Handles : world[w].linked <=> world[w].state = "up"
  BY DEF Together, Fit, Lively
<1>5. \A w \in Handles :
        (world[w].linked /\ world[w].port = inst[h].addr)
          <=> (w = h /\ world[w].state = "up")
  BY <1>1, <1>2, <1>3, <1>4
<1>6. \A w \in Handles :
        SentTo(chan, inst[h].addr, msgs)[w]
          = IF w = h /\ world[w].state = "up" THEN chan[w] \o msgs ELSE chan[w]
  BY <1>5 DEF SentTo
<1> QED
  BY <1>6, SentToType

-----------------------------------------------------------------------------
(* What the master's operations do while nothing fails.                     *)

(* The process and the Instance at h are new.                               *)
PairStarted(h, z, cap, pw, reqs) ==
  /\ h = nextHandle
  /\ nextHandle' = nextHandle + 1
  /\ world'[h] = StartedWorld(z[1], z[2], NextInstanceId, GetFreePort)
  /\ inst'[h] = [NewInstance(z[1], z[2], NextInstanceId, GetFreePort, cap, pw,
                             NoAddr) EXCEPT !.pendingRequests = reqs]

(* Requests that h, which is there, is handed: i and c are its Instance and *)
(* what was sent to its process before.                                     *)
Handed(h, reqs, i, c) ==
  /\ nextHandle' = nextHandle
  /\ world'[h] = world[h]
  /\ inst[h].ready =>
       /\ inst'[h] = [i EXCEPT !.pendingAffirmations = @ \o reqs]
       /\ toWorld'[h] = IF world[h].state = "up" THEN c \o AffirmRequests(reqs)
                        ELSE c
  /\ ~inst[h].ready =>
       /\ inst'[h] = [i EXCEPT !.pendingRequests = @ \o reqs]
       /\ toWorld'[h] = c

Dispatched(h, X, erased, z, reqs, f, chan) ==
  /\ m_Instances' = (m_Instances \ erased) \cup {h}
  /\ \A g \in Handles \ {h} :
       inst'[g] = f[g] /\ world'[g] = world[g] /\ toWorld'[g] = chan[g]
  /\ \/ h \in m_Instances \ X /\ Joinable(h, z) /\ Handed(h, reqs, f[h], chan[h])
     \/ /\ PairStarted(h, z, SoftCapOf(z[1]), NoPassword, reqs)
        /\ toWorld'[h] = chan[h]

LEMMA NoStaleAddress ==
  ASSUME NothingFails, NEW a \in UninitialisedAddrs
  PROVE  a = NoAddr
BY DEF NothingFails, UninitialisedAddrs

LEMMA NewPair ==
  ASSUME Sound, Together, NothingFails,
         NEW z, NEW cap, NEW pw, NEW a \in UninitialisedAddrs,
         NEW f \in [Handles -> Instance], nextHandle \in Handles,
         StartIfNew(nextHandle, z),
         NEW i, i = WithInstance(f, nextHandle, z, cap, pw, a)
  PROVE  /\ nextHandle' = nextHandle + 1
         /\ world'[nextHandle] = StartedWorld(z[1], z[2], NextInstanceId, GetFreePort)
         /\ \A g \in Handles \ {nextHandle} : world'[g] = world[g] /\ i[g] = f[g]
         /\ DOMAIN i = Handles
         /\ i[nextHandle] = NewInstance(z[1], z[2], NextInstanceId, GetFreePort, cap, pw, NoAddr)
<1> DEFINE new == StartedWorld(z[1], z[2], NextInstanceId, GetFreePort)
           newi == NewInstance(z[1], z[2], NextInstanceId, GetFreePort, cap, pw, a)
<1>1. nextHandle' = nextHandle + 1 /\ world' = [world EXCEPT ![nextHandle] = new]
  BY DEF StartIfNew
<1>2. WithInstance(f, nextHandle, z, cap, pw, a) = [f EXCEPT ![nextHandle] = newi]
  BY DEF WithInstance
<1>3. world \in [Handles -> WorldProcess]
  BY Parts
<1>4. a = NoAddr
  BY NoStaleAddress
<1> HIDE DEF new, newi
<1>5. \A g \in Handles \ {nextHandle} : world'[g] = world[g]
  BY <1>1, <1>3
<1>6. world'[nextHandle] = new
  BY <1>1, <1>3
<1> QED
  BY <1>1, <1>2, <1>4, <1>5, <1>6 DEF new, newi

LEMMA DispatchEffect ==
  ASSUME Sound, Together, NothingFails, NEW X, NEW erased, NEW z,
         NEW reqs \in Seq(Requests), NEW f \in [Handles -> Instance],
         NEW chan \in [Handles -> Seq(ToWorldMessage)],
         \A h \in m_Instances : f[h].ready = inst[h].ready,
         Dispatch(X, erased, z, reqs, f, chan)
  PROVE  \E h \in Handles : Dispatched(h, X, erased, z, reqs, f, chan)
<1> DEFINE h == GetInstance(X, z)
<1>1. ~m_IsShuttingDown
  BY DEF Together, Calm, m_IsShuttingDown
<1>2. \/ h \in m_Instances \ X /\ Joinable(h, z)
      \/ h = nextHandle
  BY <1>1, GetInstanceResult, HandleFacts, Parts
<1>3. /\ h \in Handles \cup {NoHandle}
      /\ StartIfNew(h, z)
  BY DEF Dispatch
<1>4. h \in Handles /\ h # NoHandle
  BY <1>2, <1>3, Parts DEF NoHandle, Sound, TypeOK, MasterTypes
<1>5. PICK a \in UninitialisedAddrs :
        /\ m_Instances' = (m_Instances \ erased) \cup {h}
        /\ inst' = Enqueued(
             WithInstance(f, h, z, SoftCapOf(z[1]), NoPassword, a), h, reqs)
        /\ toWorld' = AffirmationsSent(chan, h, reqs)
  BY <1>4 DEF Dispatch
<1> HIDE DEF h
<1> DEFINE i == WithInstance(f, h, z, SoftCapOf(z[1]), NoPassword, a)
<1>6. inst' = IF i[h].ready
              THEN [i EXCEPT ![h].pendingAffirmations = @ \o reqs]
              ELSE [i EXCEPT ![h].pendingRequests = @ \o reqs]
  BY <1>5 DEF Enqueued
<1>7. /\ inst[h].ready => toWorld' = SentTo(chan, inst[h].addr, AffirmRequests(reqs))
      /\ ~inst[h].ready => toWorld' = chan
  BY <1>5 DEF AffirmationsSent
<1> HIDE DEF i
<1>8. CASE h = nextHandle
  <2>1. ~inst[h].ready
    <3>1. Paired(h) /\ ~(h < nextHandle)
      BY <1>4, <1>8, Parts DEF Together, Fit
    <3> QED
      BY <3>1 DEF Paired
  <2> DEFINE newi == NewInstance(z[1], z[2], NextInstanceId, GetFreePort,
                                 SoftCapOf(z[1]), NoPassword, NoAddr)
  <2>2. /\ nextHandle' = nextHandle + 1
        /\ world'[h] = StartedWorld(z[1], z[2], NextInstanceId, GetFreePort)
        /\ \A g \in Handles \ {h} : world'[g] = world[g] /\ i[g] = f[g]
        /\ DOMAIN i = Handles
        /\ i[h] = newi
    <3> DEFINE j == WithInstance(f, nextHandle, z, SoftCapOf(z[1]), NoPassword, a)
    <3>1. StartIfNew(nextHandle, z) /\ nextHandle \in Handles /\ i = j
      BY <1>3, <1>4, <1>8 DEF i
    <3>0. j = WithInstance(f, nextHandle, z, SoftCapOf(z[1]), NoPassword, a)
      OBVIOUS
    <3>3. a \in UninitialisedAddrs /\ f \in [Handles -> Instance]
      OBVIOUS
    <3> HIDE DEF j
    <3>4. nextHandle' = nextHandle + 1
      BY <3>0, <3>1, <3>3, NewPair
    <3>5. world'[nextHandle] = StartedWorld(z[1], z[2], NextInstanceId, GetFreePort)
      BY <3>0, <3>1, <3>3, NewPair
    <3>6. ASSUME NEW g \in Handles \ {nextHandle}
          PROVE  world'[g] = world[g] /\ j[g] = f[g]
      <4>1. world'[g] = world[g]
        BY <3>1, Parts DEF StartIfNew
      <4>2. j[g] = f[g]
        BY <3>0, <3>3 DEF WithInstance
      <4> QED
        BY <4>1, <4>2
    <3>7. DOMAIN j = Handles
      BY <3>0, <3>1, <3>3, NewPair
    <3>8. j[nextHandle] = newi
      BY <3>0, <3>1, <3>3, NewPair
    <3> QED
      BY <1>8, <3>1, <3>4, <3>5, <3>6, <3>7, <3>8
  <2>3. ~newi.ready /\ [newi EXCEPT !.pendingRequests = @ \o reqs]
                         = [newi EXCEPT !.pendingRequests = reqs]
    <3>1. newi.pendingRequests = <<>> /\ ~newi.ready
      BY DEF NewInstance
    <3>2. <<>> \o reqs = reqs
      BY ConcatEmptySeq
    <3> HIDE DEF newi
    <3> QED
      BY <3>1, <3>2
  <2> HIDE DEF newi
  <2>4. /\ inst'[h] = [newi EXCEPT !.pendingRequests = @ \o reqs]
        /\ \A g \in Handles \ {h} : inst'[g] = f[g]
    BY <1>4, <1>6, <2>2, <2>3
  <2>5. PairStarted(h, z, SoftCapOf(z[1]), NoPassword, reqs)
    BY <1>8, <2>2, <2>3, <2>4 DEF PairStarted, newi
  <2> QED
    BY <1>4, <1>5, <1>7, <2>1, <2>2, <2>4, <2>5 DEF Dispatched
<1>9. CASE h # nextHandle
  <2>1. h \in m_Instances \ X /\ Joinable(h, z)
    BY <1>2, <1>9
  <2>2. UNCHANGED <<nextHandle, world>> /\ i = f
    BY <1>3, <1>9 DEF StartIfNew, WithInstance, i
  <2>3. AffirmRequests(reqs) \in Seq(ToWorldMessage)
    BY AffirmRequestsType
  <2>4. f[h].ready = inst[h].ready
    BY <2>1
  <2>5. \A g \in Handles \ {h} : inst'[g] = f[g]
    BY <1>6, <2>2
  <2>6. CASE inst[h].ready
    <3>1. \A w \in Handles :
            toWorld'[w] = IF w = h /\ world[w].state = "up"
                          THEN chan[w] \o AffirmRequests(reqs) ELSE chan[w]
      <4>1. h \in m_Instances
        BY <2>1
      <4>2. toWorld' = SentTo(chan, inst[h].addr, AffirmRequests(reqs))
        BY <1>7, <2>6
      <4>3. \A w \in Handles :
              SentTo(chan, inst[h].addr, AffirmRequests(reqs))[w]
                = IF w = h /\ world[w].state = "up"
                  THEN chan[w] \o AffirmRequests(reqs) ELSE chan[w]
        BY <2>3, <2>6, <4>1, SentToOwn
      <4> QED
        BY <4>2, <4>3
    <3>2. inst'[h] = [f[h] EXCEPT !.pendingAffirmations = @ \o reqs]
      BY <1>4, <1>6, <2>2, <2>4, <2>6
    <3>3. Handed(h, reqs, f[h], chan[h])
      BY <1>4, <2>2, <2>6, <3>1, <3>2 DEF Handed
    <3> QED
      BY <1>4, <1>5, <2>1, <2>2, <2>5, <3>1, <3>3 DEF Dispatched
  <2>7. CASE ~inst[h].ready
    <3>1. inst'[h] = [f[h] EXCEPT !.pendingRequests = @ \o reqs]
      BY <1>4, <1>6, <2>2, <2>4, <2>7
    <3>2. Handed(h, reqs, f[h], chan[h])
      BY <1>4, <1>7, <2>2, <2>7, <3>1 DEF Handed
    <3> QED
      BY <1>4, <1>5, <1>7, <2>1, <2>2, <2>5, <2>7, <3>2 DEF Dispatched
  <2> QED
    BY <2>6, <2>7
<1> QED
  BY <1>8, <1>9

-----------------------------------------------------------------------------
(* What a step is to the handle w: its process, its Instance, the messages  *)
(* between them and the players in the world.                               *)

Stays(w) ==
  /\ (w < nextHandle)' <=> w < nextHandle
  /\ (w \in m_Instances)' <=> w \in m_Instances

SameSent(w) == toMaster'[w] = toMaster[w] /\ toWorld'[w] = toWorld[w]

Untouched(w) ==
  /\ Stays(w)
  /\ world'[w] = world[w]
  /\ inst'[w] = inst[w]
  /\ SameSent(w)
  /\ PlayersIn(w)' = PlayersIn(w) /\ ghosts'[w] = ghosts[w]

Begun(w) ==
  /\ w \in m_Instances'
  /\ \E z \in Maps \X Clones, cap \in Nat, pw \in Passwords \cup {NoPassword},
        reqs \in Seq(Requests) :
       /\ PairStarted(w, z, cap, pw, reqs)
       /\ pw # NoPassword => reqs = <<>>
  /\ SameSent(w)
  /\ PlayersIn(w)' = PlayersIn(w) /\ ghosts'[w] = ghosts[w]

GivenMore(w) ==
  /\ w \in m_Instances \cap m_Instances'
  /\ ~Private(inst[w]) /\ ~inst[w].isShuttingDown
  /\ \E reqs \in Seq(Requests) : Handed(w, reqs, inst[w], toWorld[w])
  /\ toMaster'[w] = toMaster[w]
  /\ PlayersIn(w)' = PlayersIn(w) /\ ghosts'[w] = ghosts[w]

TimedOut(w) ==
  /\ w \in m_Instances /\ Stays(w)
  /\ inst[w].ready
  /\ inst'[w] = [inst[w] EXCEPT !.isShuttingDown = TRUE, !.timedOut = TRUE]
  /\ world'[w] = world[w]
  /\ toMaster'[w] = toMaster[w]
  /\ toWorld'[w] = IF world[w].state = "up"
                   THEN toWorld[w] \o <<Msg("SHUTDOWN")>> ELSE toWorld[w]
  /\ PlayersIn(w)' = PlayersIn(w) /\ ghosts'[w] = ghosts[w]

(* A message of type is handled, which changes i, the Instance, to j.       *)
HandledAs(w, type, i, j) ==
  \/ type = "SERVER_INFO" /\ j = [i EXCEPT !.addr = world[w].port]
  \/ type = "WORLD_READY" /\ j = [i EXCEPT !.ready = TRUE, !.pendingRequests = <<>>]
  \/ /\ type = "AFFIRM_TRANSFER_RESPONSE"
     /\ LET id == Head(toMaster[w]).requestID
            matches == {k \in DOMAIN i.pendingAffirmations :
                          i.pendingAffirmations[k][2] = id}
            rest == RemoveAt(i.pendingAffirmations, Min(matches))
        IN IF matches = {} THEN j = i
           ELSE j = [i EXCEPT !.pendingAffirmations = rest,
                              !.timedOut = @ /\ rest # <<>>]
  \/ /\ type = "PLAYER_ADDED"
     /\ j = IF i.isShuttingDown THEN i ELSE [i EXCEPT !.clients = @ + 1]
  \/ /\ type = "PLAYER_REMOVED"
     /\ j = IF i.isShuttingDown THEN i
            ELSE [i EXCEPT !.clients = IF @ = 0 THEN 0 ELSE @ - 1]
  \/ type = "SHUTDOWN_RESPONSE" /\ j = [i EXCEPT !.isShuttingDown = TRUE]
  \/ type = "DISCONNECTED" /\ j = i

Heard(w) ==
  /\ w \in m_Instances
  /\ (w < nextHandle)' <=> w < nextHandle
  /\ toMaster[w] # <<>>
  /\ toMaster'[w] = Tail(toMaster[w])
  /\ world'[w] = world[w] /\ toWorld'[w] = toWorld[w]
  /\ PlayersIn(w)' = PlayersIn(w) /\ ghosts'[w] = ghosts[w]
  /\ IF Private(inst[w]) THEN inst'[w] = inst[w]
     ELSE HandledAs(w, Head(toMaster[w]).type, inst[w], inst'[w])
  /\ (w \in m_Instances)' <=>
       (Private(inst[w]) \/ Head(toMaster[w]).type # "DISCONNECTED")

(* What the process does.                                                   *)
Starts(w) ==
  /\ Stays(w) /\ inst'[w] = inst[w] /\ toWorld'[w] = toWorld[w]
  /\ PlayersIn(w)' = PlayersIn(w) /\ ghosts'[w] = ghosts[w]
  /\ world[w].state = "starting"
  /\ world'[w] = [world[w] EXCEPT !.state = "up", !.linked = TRUE]
  /\ toMaster'[w] = Append(toMaster[w], Msg("SERVER_INFO"))

BecomesReady(w) ==
  /\ Stays(w) /\ inst'[w] = inst[w] /\ toWorld'[w] = toWorld[w]
  /\ PlayersIn(w)' = PlayersIn(w) /\ ghosts'[w] = ghosts[w]
  /\ world[w].state = "up" /\ ~world[w].ready
  /\ world'[w] = [world[w] EXCEPT !.ready = TRUE]
  /\ toMaster'[w] = Append(toMaster[w], Msg("WORLD_READY"))

Affirms(w) ==
  /\ Stays(w) /\ inst'[w] = inst[w] /\ world'[w] = world[w]
  /\ PlayersIn(w)' = PlayersIn(w) /\ ghosts'[w] = ghosts[w]
  /\ world[w].state = "up"
  /\ toWorld[w] # <<>> /\ Head(toWorld[w]).type = "AFFIRM_TRANSFER_REQUEST"
  /\ toWorld'[w] = Tail(toWorld[w])
  /\ toMaster'[w] = Append(toMaster[w], AffirmResponse(Head(toWorld[w]).requestID))

Signalled(w) ==
  /\ Stays(w) /\ inst'[w] = inst[w] /\ toMaster'[w] = toMaster[w]
  /\ PlayersIn(w)' = PlayersIn(w) /\ ghosts'[w] = ghosts[w]
  /\ world[w].state = "up" /\ world[w].ready
  /\ world'[w] = [world[w] EXCEPT !.signalled = TRUE]
  /\ \/ toWorld'[w] = toWorld[w]
     \/ /\ toWorld[w] # <<>> /\ Head(toWorld[w]).type = "SHUTDOWN"
        /\ toWorld'[w] = Tail(toWorld[w])

Exits(w) ==
  /\ Stays(w) /\ inst'[w] = inst[w]
  /\ PlayersIn(w)' = {} /\ ghosts'[w] = ghosts[w]
  /\ world[w].state = "up" /\ world[w].signalled
  /\ world'[w] = [world[w] EXCEPT !.state = "gone", !.linked = FALSE]
  /\ toWorld'[w] = <<>>
  /\ toMaster'[w] = Append(Append(toMaster[w], Msg("SHUTDOWN_RESPONSE")),
                           Msg("DISCONNECTED"))

Joined(w) ==
  /\ Stays(w) /\ inst'[w] = inst[w] /\ world'[w] = world[w]
  /\ toWorld'[w] = toWorld[w]
  /\ world[w].state = "up"
  /\ \/ \E q \in Requests : /\ q \notin PlayersIn(w)
                            /\ PlayersIn(w)' = PlayersIn(w) \cup {q}
                            /\ ghosts'[w] = ghosts[w]
     \/ PlayersIn(w)' = PlayersIn(w) /\ ghosts'[w] = ghosts[w] + 1
  /\ toMaster'[w] = Append(toMaster[w], Msg("PLAYER_ADDED"))

Left(w) ==
  /\ Stays(w) /\ inst'[w] = inst[w] /\ world'[w] = world[w]
  /\ toWorld'[w] = toWorld[w]
  /\ world[w].state = "up"
  /\ \E q \in Requests : q \in PlayersIn(w) /\ PlayersIn(w)' = PlayersIn(w) \ {q}
  /\ \/ /\ toMaster'[w] = Append(toMaster[w], Msg("PLAYER_REMOVED"))
        /\ ghosts'[w] = ghosts[w]
     \/ toMaster'[w] = toMaster[w] /\ ghosts'[w] = ghosts[w] + 1

MasterEffect(w) == Untouched(w) \/ Begun(w) \/ GivenMore(w) \/ TimedOut(w) \/ Heard(w)

WorldEffect(w) ==
  \/ Untouched(w) \/ Starts(w) \/ BecomesReady(w) \/ Affirms(w) \/ Signalled(w)
  \/ Exits(w) \/ Joined(w) \/ Left(w)

Effect(w) == MasterEffect(w) \/ WorldEffect(w)

-----------------------------------------------------------------------------
(* Every such step keeps a process and its Instance together.               *)

LEMMA NoShutdownAsked ==
  ASSUME NEW reqs \in Seq(Requests)
  PROVE  ~Mentions(AffirmRequests(reqs), "SHUTDOWN")
BY DEF Mentions, AffirmRequests, AffirmRequest

(* A step that leaves the process, and of its Instance what Fit reads.      *)
LEMMA FitFrame ==
  ASSUME NEW w \in Handles, Fit(w), Stays(w), world'[w] = world[w],
         toMaster'[w] = toMaster[w],
         inst'[w].map = inst[w].map, inst'[w].clone = inst[w].clone,
         inst'[w].id = inst[w].id, inst'[w].port = inst[w].port,
         inst'[w].password = inst[w].password, inst'[w].addr = inst[w].addr,
         inst'[w].ready = inst[w].ready,
         inst'[w].isShuttingDown => inst[w].isShuttingDown \/ inst[w].ready,
         Private(inst[w]) => inst'[w].pendingRequests = inst[w].pendingRequests,
         world[w].state # "up" => toWorld'[w] = toWorld[w],
         Mentions(toWorld'[w], "SHUTDOWN") =>
           Mentions(toWorld[w], "SHUTDOWN") \/ world[w].ready
  PROVE  Fit(w)'
<1>1. Paired(w)'
  BY DEF Fit, Paired, Exists, Stays
<1>2. Lively(world'[w], toMaster'[w], toWorld'[w])
  BY DEF Fit, Lively
<1>3. w \in m_Instances' => Known(inst'[w], world'[w], toMaster'[w])
  BY DEF Fit, Known, Stays, Private, Introduced
<1> QED
  BY <1>1, <1>2, <1>3 DEF Fit

LEMMA FitBegun ==
  ASSUME Sound, NEW w \in Handles, Fit(w), Begun(w)
  PROVE  Fit(w)'
<1>1. PICK z \in Maps \X Clones, cap \in Nat, pw \in Passwords \cup {NoPassword},
           reqs \in Seq(Requests) :
        PairStarted(w, z, cap, pw, reqs) /\ (pw # NoPassword => reqs = <<>>)
  BY DEF Begun
<1>2. w = nextHandle /\ nextHandle \in Nat /\ nextHandle' = nextHandle + 1
  BY <1>1, Parts DEF PairStarted
<1>3. /\ world'[w].state = "starting" /\ ~world'[w].linked /\ ~world'[w].ready
      /\ ~world'[w].signalled
      /\ inst'[w].map = world'[w].map /\ inst'[w].clone = world'[w].clone
      /\ inst'[w].id = world'[w].id /\ inst'[w].port = world'[w].port
      /\ inst'[w].addr = NoAddr /\ ~inst'[w].ready /\ ~inst'[w].isShuttingDown
      /\ inst'[w].pendingRequests = reqs /\ inst'[w].password = pw
  BY <1>1 DEF PairStarted, StartedWorld, NewInstance
<1>4. ~Exists(w)
  BY <1>2 DEF Fit, Paired
<1>5. toMaster[w] = <<>> /\ toWorld[w] = <<>>
  BY <1>4 DEF Fit, Lively, Exists
<1>6. toMaster'[w] = <<>> /\ toWorld'[w] = <<>>
  BY <1>5 DEF Begun, SameSent
<1>7. Paired(w)'
  <2>1. w < nextHandle' /\ w \in m_Instances'
    BY <1>2 DEF Begun
  <2> QED
    BY <1>3, <2>1 DEF Paired, Exists, Handles
<1>8. Lively(world'[w], toMaster'[w], toWorld'[w])
  BY <1>3, <1>6, MentionsNone DEF Lively
<1>9. Ordered(toMaster'[w], world'[w])
  BY <1>6 DEF Ordered
<1>10. Known(inst'[w], world'[w], toMaster'[w])
  BY <1>1, <1>3, <1>6, MentionsNone DEF Known, Private, Introduced
<1> QED
  BY <1>7, <1>8, <1>9, <1>10 DEF Fit

LEMMA FitMaster ==
  ASSUME Sound, NEW w \in Handles, Fit(w),
         Untouched(w) \/ GivenMore(w) \/ TimedOut(w)
  PROVE  Fit(w)'
<1>0. inst[w] \in Instance /\ toWorld[w] \in Seq(ToWorldMessage)
  BY Parts
<1>1. CASE Untouched(w)
  BY <1>1, FitFrame DEF Untouched, SameSent
<1>2. CASE GivenMore(w)
  <2>1. PICK reqs \in Seq(Requests) : Handed(w, reqs, inst[w], toWorld[w])
    BY <1>2 DEF GivenMore
  <2>2. /\ world'[w] = world[w] /\ toMaster'[w] = toMaster[w] /\ Stays(w)
        /\ ~Private(inst[w])
    BY <1>2, <2>1 DEF GivenMore, Handed, Stays
  <2>3. CASE inst[w].ready
    <3>1. inst'[w] = [inst[w] EXCEPT !.pendingAffirmations = @ \o reqs]
      BY <2>1, <2>3 DEF Handed
    <3>2. toWorld'[w] = IF world[w].state = "up"
                        THEN toWorld[w] \o AffirmRequests(reqs) ELSE toWorld[w]
      BY <2>1, <2>3 DEF Handed
    <3>3. Mentions(toWorld'[w], "SHUTDOWN") => Mentions(toWorld[w], "SHUTDOWN")
      <4>1. AffirmRequests(reqs) \in Seq(ToWorldMessage)
        BY AffirmRequestsType
      <4> QED
        BY <1>0, <3>2, <4>1, NoShutdownAsked, MentionsConcat
    <3>4. /\ inst'[w].map = inst[w].map /\ inst'[w].clone = inst[w].clone
          /\ inst'[w].id = inst[w].id /\ inst'[w].port = inst[w].port
          /\ inst'[w].password = inst[w].password /\ inst'[w].addr = inst[w].addr
          /\ inst'[w].ready = inst[w].ready
          /\ inst'[w].isShuttingDown = inst[w].isShuttingDown
          /\ inst'[w].pendingRequests = inst[w].pendingRequests
      BY <1>0, <3>1 DEF Instance
    <3> QED
      BY <2>2, <3>2, <3>3, <3>4, FitFrame
  <2>4. CASE ~inst[w].ready
    <3>1. inst'[w] = [inst[w] EXCEPT !.pendingRequests = @ \o reqs]
          /\ toWorld'[w] = toWorld[w]
      BY <2>1, <2>4 DEF Handed
    <3>2. /\ inst'[w].map = inst[w].map /\ inst'[w].clone = inst[w].clone
          /\ inst'[w].id = inst[w].id /\ inst'[w].port = inst[w].port
          /\ inst'[w].password = inst[w].password /\ inst'[w].addr = inst[w].addr
          /\ inst'[w].ready = inst[w].ready
          /\ inst'[w].isShuttingDown = inst[w].isShuttingDown
      BY <1>0, <3>1 DEF Instance
    <3> QED
      BY <2>2, <3>1, <3>2, FitFrame
  <2> QED
    BY <2>3, <2>4
<1>3. CASE TimedOut(w)
  <2>1. /\ world'[w] = world[w] /\ toMaster'[w] = toMaster[w] /\ Stays(w)
        /\ inst[w].ready /\ w \in m_Instances
        /\ inst'[w] = [inst[w] EXCEPT !.isShuttingDown = TRUE, !.timedOut = TRUE]
        /\ world[w].state # "up" => toWorld'[w] = toWorld[w]
    BY <1>3 DEF TimedOut
  <2>2. world[w].ready
    BY <2>1 DEF Fit, Known
  <2>3. /\ inst'[w].map = inst[w].map /\ inst'[w].clone = inst[w].clone
        /\ inst'[w].id = inst[w].id /\ inst'[w].port = inst[w].port
        /\ inst'[w].password = inst[w].password /\ inst'[w].addr = inst[w].addr
        /\ inst'[w].ready = inst[w].ready
        /\ inst'[w].pendingRequests = inst[w].pendingRequests
    <3>1. inst'[w] = [inst[w] EXCEPT !.isShuttingDown = TRUE, !.timedOut = TRUE]
      BY <2>1
    <3> QED
      BY <1>0, <3>1 DEF Instance
  <2> QED
    BY <2>1, <2>2, <2>3, FitFrame
<1> QED
  BY <1>1, <1>2, <1>3

(* A message is handled.                                                    *)
LEMMA FitHeard ==
  ASSUME Sound, NEW w \in Handles, Fit(w), Heard(w)
  PROVE  Fit(w)'
<1> DEFINE m == toMaster[w]
           p == world[w]
           type == Head(m).type
           i == inst[w]
           j == inst'[w]
<1>1. m \in Seq(ToMasterMessage) /\ m # <<>> /\ i \in Instance /\ w \in m_Instances
  BY Parts DEF Heard
<1>2. toMaster'[w] = Tail(m) /\ world'[w] = p /\ toWorld'[w] = toWorld[w]
  BY DEF Heard
<1>3. /\ Ordered(Tail(m), p)
      /\ ~Mentions(Tail(m), "SERVER_INFO")
      /\ type = "WORLD_READY" => p.ready /\ ~Mentions(Tail(m), "WORLD_READY")
      /\ type = "SHUTDOWN_RESPONSE" => p.state = "gone" /\ ~Mentions(m, "WORLD_READY")
      /\ type = "DISCONNECTED" => p.state = "gone" /\ Tail(m) = <<>>
  BY <1>1, OrderedTail DEF Fit
<1>4. /\ Mentions(m, "WORLD_READY") <=>
           Mentions(Tail(m), "WORLD_READY") \/ type = "WORLD_READY"
      /\ Mentions(m, "SERVER_INFO") <=>
           Mentions(Tail(m), "SERVER_INFO") \/ type = "SERVER_INFO"
  BY <1>1, MentionsTail
<1>5. p.state \in {"up", "gone"}
  <2>1. p.state \in {"none", "starting", "up", "gone"}
    BY Parts DEF WorldProcess
  <2> QED
    BY <1>1, <2>1 DEF Fit, Lively
<1>6. /\ Private(i) => j = i /\ w \in m_Instances'
      /\ ~Private(i) => HandledAs(w, type, i, j)
      /\ ~Private(i) => (w \in m_Instances' <=> type # "DISCONNECTED")
      /\ (w < nextHandle)' <=> w < nextHandle
  BY DEF Heard
<1>7. type = "AFFIRM_TRANSFER_RESPONSE" \/ type = "PLAYER_ADDED" \/
      type = "PLAYER_REMOVED" \/ type = "DISCONNECTED" \/ Private(i) =>
        j.addr = i.addr /\ j.ready = i.ready /\ j.isShuttingDown = i.isShuttingDown
  <2>1. CASE Private(i)
    BY <1>6, <2>1
  <2>2. CASE ~Private(i)
    BY <1>1, <1>6, <2>2, ZenonT(40) DEF HandledAs, Instance
  <2> QED
    BY <2>1, <2>2
<1>8. /\ type = "SERVER_INFO" /\ ~Private(i) => j = [i EXCEPT !.addr = p.port]
      /\ type = "WORLD_READY" /\ ~Private(i) =>
           j = [i EXCEPT !.ready = TRUE, !.pendingRequests = <<>>]
      /\ type = "SHUTDOWN_RESPONSE" /\ ~Private(i) =>
           j = [i EXCEPT !.isShuttingDown = TRUE]
  BY <1>6 DEF HandledAs
<1>9. /\ j.map = i.map /\ j.clone = i.clone /\ j.id = i.id /\ j.port = i.port
      /\ j.password = i.password
  <2>1. CASE Private(i)
    BY <1>6, <2>1
  <2>2. CASE ~Private(i)
    BY <1>1, <1>6, <2>2, ZenonT(40) DEF HandledAs, Instance
  <2> QED
    BY <2>1, <2>2
<1>10. type \in {"SERVER_INFO", "WORLD_READY", "AFFIRM_TRANSFER_RESPONSE",
                 "PLAYER_ADDED", "PLAYER_REMOVED", "SHUTDOWN_RESPONSE",
                 "DISCONNECTED"}
  <2>1. Head(m) \in ToMasterMessage
    BY <1>1
  <2> QED
    BY <2>1 DEF ToMasterMessage
<1> HIDE DEF m, p, i, j, type
<1>11. Paired(w)'
  <2>1. w \notin m_Instances' => p.state = "gone" /\ Tail(m) = <<>>
    BY <1>3, <1>6
  <2>2. ~(w < nextHandle') => ~j.ready
    <3>1. w < nextHandle
      <4>1. Paired(w) /\ Exists(w)
        BY <1>5 DEF Fit, Exists, p
      <4> QED
        BY <4>1 DEF Paired
    <3> QED
      BY <1>6, <3>1
  <2>3. Exists(w)' <=> w < nextHandle'
    BY <1>2, <1>6 DEF Fit, Paired, Exists, p
  <2>4. /\ i.map = p.map /\ i.clone = p.clone /\ i.id = p.id /\ i.port = p.port
    BY <1>1 DEF Fit, Paired, p, i
  <2> QED
    BY <1>2, <1>9, <2>1, <2>2, <2>3, <2>4 DEF Paired, p, j
<1>12. Lively(world'[w], toMaster'[w], toWorld'[w])
  <2>1. Lively(p, m, toWorld[w])
    BY DEF Fit, p, m
  <2> QED
    BY <1>2, <1>5, <2>1 DEF Lively
<1>13. Known(i, p, m)
  BY <1>1 DEF Fit, i, p, m
<1>14. ASSUME w \in m_Instances' PROVE Known(j, p, Tail(m))
  <2>1. Private(j) <=> Private(i)
    BY <1>9 DEF Private
  <2>2. CASE Private(i)
    BY <1>6, <1>13, <2>1, <2>2 DEF Known
  <2>3. CASE ~Private(i)
    <3>1. Introduced(p, Tail(m))
      BY <1>3, <1>5 DEF Introduced
    <3>2. i.port = p.port
      BY <1>1 DEF Fit, Paired, i, p
    <3>3. CASE type = "SERVER_INFO"
      <4>1. j.addr = j.port /\ j.ready = i.ready /\ j.isShuttingDown = i.isShuttingDown
        BY <1>1, <1>8, <1>9, <2>3, <3>2, <3>3 DEF Instance
      <4>2. Mentions(Tail(m), "WORLD_READY") <=> Mentions(m, "WORLD_READY")
        BY <1>4, <3>3
      <4> QED
        BY <1>13, <2>1, <2>3, <3>1, <4>1, <4>2 DEF Known
    <3>4. CASE type # "SERVER_INFO"
      <4>1. Introduced(p, m)
        BY <1>3, <1>4, <1>5, <3>4 DEF Introduced
      <4>2. i.addr = i.port
        BY <1>13, <2>3, <4>1 DEF Known
      <4>3. CASE type = "WORLD_READY"
        <5>1. j.addr = i.addr /\ j.ready = TRUE /\ j.isShuttingDown = i.isShuttingDown
          BY <1>1, <1>8, <2>3, <4>3 DEF Instance
        <5> QED
          BY <1>3, <1>9, <2>1, <2>3, <3>1, <4>2, <4>3, <5>1 DEF Known
      <4>4. CASE type = "SHUTDOWN_RESPONSE"
        <5>1. j.addr = i.addr /\ j.ready = i.ready /\ j.isShuttingDown = TRUE
          BY <1>1, <1>8, <2>3, <4>4 DEF Instance
        <5>2. ~Mentions(Tail(m), "WORLD_READY") /\ ~Mentions(m, "WORLD_READY")
          BY <1>3, <1>4, <4>4
        <5>3. p.ready
          BY <1>3, <4>4 DEF Fit, Lively, p
        <5>4. i.ready
          BY <1>13, <2>3, <5>2, <5>3 DEF Known
        <5> QED
          BY <1>9, <2>1, <2>3, <3>1, <4>2, <5>1, <5>2, <5>3, <5>4 DEF Known
      <4>5. CASE type \notin {"WORLD_READY", "SHUTDOWN_RESPONSE"}
        <5>1. j.addr = i.addr /\ j.ready = i.ready /\ j.isShuttingDown = i.isShuttingDown
          BY <1>7, <1>10, <3>4, <4>5
        <5>2. Mentions(Tail(m), "WORLD_READY") <=> Mentions(m, "WORLD_READY")
          BY <1>4, <4>5
        <5> QED
          BY <1>9, <1>13, <2>1, <2>3, <3>1, <4>2, <5>1, <5>2 DEF Known
      <4> QED
        BY <4>3, <4>4, <4>5
    <3> QED
      BY <3>3, <3>4
  <2> QED
    BY <2>2, <2>3
<1> QED
  BY <1>2, <1>3, <1>11, <1>12, <1>14 DEF Fit, j

(* Pairing is untouched by what a process does.                             *)
LEMMA PairedWorld ==
  ASSUME NEW w \in Handles, Paired(w), Stays(w), inst'[w] = inst[w],
         world[w].state \in {"starting", "up"},
         world'[w].state # "none",
         world'[w].map = world[w].map, world'[w].clone = world[w].clone,
         world'[w].id = world[w].id, world'[w].port = world[w].port
  PROVE  Paired(w)' /\ w \in m_Instances
BY DEF Paired, Exists, Stays

LEMMA SentTypes ==
  ASSUME Sound, NEW w \in Handles
  PROVE  /\ world[w] \in WorldProcess
         /\ toMaster[w] \in Seq(ToMasterMessage)
         /\ toWorld[w] \in Seq(ToWorldMessage)
         /\ \A type \in {"SERVER_INFO", "WORLD_READY", "PLAYER_ADDED",
                         "PLAYER_REMOVED", "SHUTDOWN_RESPONSE", "DISCONNECTED"} :
              Msg(type) \in ToMasterMessage /\ Msg(type).type = type
         /\ \A id \in Nat : /\ AffirmResponse(id) \in ToMasterMessage
                            /\ AffirmResponse(id).type = "AFFIRM_TRANSFER_RESPONSE"
<1>1. /\ world[w] \in WorldProcess
      /\ toMaster[w] \in Seq(ToMasterMessage)
      /\ toWorld[w] \in Seq(ToWorldMessage)
  BY Parts
<1> QED
  BY <1>1 DEF Msg, AffirmResponse, ToMasterMessage

(* What a live process sends later keeps the order, and says nothing of     *)
(* introductions.                                                           *)
LEMMA SaysMore ==
  ASSUME Sound, NEW w \in Handles, Fit(w), NEW q,
         NEW e \in ToMasterMessage,
         world[w].state = "up", world[w].ready => q.ready,
         e.type \in {"WORLD_READY", "AFFIRM_TRANSFER_RESPONSE", "PLAYER_ADDED",
                     "PLAYER_REMOVED", "SHUTDOWN_RESPONSE"},
         e.type = "WORLD_READY" => ~world[w].ready /\ q.ready,
         e.type = "SHUTDOWN_RESPONSE" => q.state = "gone"
  PROVE  /\ Ordered(Append(toMaster[w], e), q)
         /\ ~Mentions(toMaster[w], "SHUTDOWN_RESPONSE")
         /\ ~Mentions(Append(toMaster[w], e), "DISCONNECTED")
         /\ Mentions(Append(toMaster[w], e), "SERVER_INFO")
              <=> Mentions(toMaster[w], "SERVER_INFO")
         /\ Mentions(Append(toMaster[w], e), "WORLD_READY")
              <=> Mentions(toMaster[w], "WORLD_READY") \/ e.type = "WORLD_READY"
<1>1. toMaster[w] \in Seq(ToMasterMessage)
  BY SentTypes
<1>2. Ordered(toMaster[w], world[w])
  BY DEF Fit
<1>3. /\ ~Mentions(toMaster[w], "SHUTDOWN_RESPONSE")
      /\ ~Mentions(toMaster[w], "DISCONNECTED")
      /\ ~world[w].ready => ~Mentions(toMaster[w], "WORLD_READY")
  BY <1>2 DEF Ordered, Mentions
<1>4. Ordered(Append(toMaster[w], e), q)
  BY <1>1, <1>2, <1>3, OrderedAppend
<1> QED
  BY <1>1, <1>3, <1>4, MentionsAppend

LEMMA FitSpeaks ==
  ASSUME Sound, NEW w \in Handles, Fit(w), Stays(w), inst'[w] = inst[w],
         world'[w] = world[w], world[w].state = "up",
         NEW e \in ToMasterMessage,
         e.type \in {"AFFIRM_TRANSFER_RESPONSE", "PLAYER_ADDED", "PLAYER_REMOVED"},
         toMaster'[w] = Append(toMaster[w], e),
         Mentions(toWorld'[w], "SHUTDOWN") => Mentions(toWorld[w], "SHUTDOWN")
  PROVE  Fit(w)'
<1>1. /\ Ordered(toMaster'[w], world'[w])
      /\ Mentions(toMaster'[w], "SERVER_INFO") <=> Mentions(toMaster[w], "SERVER_INFO")
      /\ Mentions(toMaster'[w], "WORLD_READY") <=> Mentions(toMaster[w], "WORLD_READY")
  BY SaysMore
<1>2. Paired(w)' /\ w \in m_Instances
  BY PairedWorld DEF Fit
<1>3. Lively(world'[w], toMaster'[w], toWorld'[w])
  BY DEF Fit, Lively
<1>4. Known(inst'[w], world'[w], toMaster'[w])
  BY <1>1, <1>2 DEF Fit, Known, Introduced
<1> QED
  BY <1>1, <1>2, <1>3, <1>4 DEF Fit

LEMMA FitStarts ==
  ASSUME Sound, NEW w \in Handles, Fit(w), Starts(w)
  PROVE  Fit(w)'
<1> DEFINE e == Msg("SERVER_INFO")
<1>1. /\ world[w] \in WorldProcess /\ e \in ToMasterMessage /\ e.type = "SERVER_INFO"
      /\ toMaster[w] \in Seq(ToMasterMessage)
  BY SentTypes
<1>2. world'[w] = [world[w] EXCEPT !.state = "up", !.linked = TRUE]
      /\ world[w].state = "starting"
  BY DEF Starts
<1>3. /\ world'[w].state = "up" /\ world'[w].linked /\ world'[w].ready = world[w].ready
      /\ world'[w].signalled = world[w].signalled
      /\ world'[w].map = world[w].map /\ world'[w].clone = world[w].clone
      /\ world'[w].id = world[w].id /\ world'[w].port = world[w].port
  BY <1>1, <1>2 DEF WorldProcess
<1>4. toMaster[w] = <<>> /\ ~world[w].ready /\ toWorld[w] = <<>> /\ ~world[w].signalled
  BY <1>2 DEF Fit, Lively
<1>5. toMaster'[w] = Append(toMaster[w], e) /\ toWorld'[w] = <<>>
  BY <1>4 DEF Starts
<1> HIDE DEF e
<1>6. Ordered(toMaster'[w], world'[w])
  <2>1. Ordered(toMaster[w], world[w])
    BY DEF Fit
  <2> QED
    <3>1. \A type : ~Mentions(toMaster[w], type)
      BY <1>4, MentionsNone
    <3>2. Ordered(Append(toMaster[w], e), world'[w])
      BY <1>1, <1>4, <2>1, <3>1, OrderedAppend
    <3> QED
      BY <1>5, <3>2
<1>7. Paired(w)' /\ w \in m_Instances
  BY <1>2, <1>3, PairedWorld DEF Fit, Starts
<1>8. Lively(world'[w], toMaster'[w], toWorld'[w])
  BY <1>3, <1>4, <1>5, MentionsNone DEF Lively
<1>9. /\ Mentions(toMaster'[w], "SERVER_INFO")
      /\ ~Mentions(toMaster'[w], "WORLD_READY")
  <2>1. \A type : ~Mentions(toMaster[w], type)
    BY <1>4, MentionsNone
  <2>2. /\ Mentions(Append(toMaster[w], e), "SERVER_INFO")
        /\ ~Mentions(Append(toMaster[w], e), "WORLD_READY")
    BY <1>1, <2>1, MentionsAppend
  <2> QED
    BY <1>5, <2>2
<1>10. Known(inst'[w], world'[w], toMaster'[w])
  <2>1. Known(inst[w], world[w], toMaster[w]) /\ inst'[w] = inst[w]
    BY <1>7 DEF Fit, Starts
  <2>2. ~Introduced(world[w], toMaster[w]) /\ ~Introduced(world'[w], toMaster'[w])
    BY <1>2, <1>9 DEF Introduced
  <2> QED
    BY <1>3, <1>4, <1>9, <2>1, <2>2 DEF Known
<1> QED
  BY <1>6, <1>7, <1>8, <1>10 DEF Fit

LEMMA FitBecomesReady ==
  ASSUME Sound, NEW w \in Handles, Fit(w), BecomesReady(w)
  PROVE  Fit(w)'
<1> DEFINE e == Msg("WORLD_READY")
<1>1. /\ world[w] \in WorldProcess /\ e \in ToMasterMessage /\ e.type = "WORLD_READY"
  BY SentTypes
<1>2. world'[w] = [world[w] EXCEPT !.ready = TRUE] /\ world[w].state = "up"
      /\ ~world[w].ready
  BY DEF BecomesReady
<1>3. /\ world'[w].state = "up" /\ world'[w].linked = world[w].linked /\ world'[w].ready
      /\ world'[w].signalled = world[w].signalled
      /\ world'[w].map = world[w].map /\ world'[w].clone = world[w].clone
      /\ world'[w].id = world[w].id /\ world'[w].port = world[w].port
  BY <1>1, <1>2 DEF WorldProcess
<1>4. toMaster'[w] = Append(toMaster[w], e) /\ toWorld'[w] = toWorld[w]
  BY DEF BecomesReady
<1> HIDE DEF e
<1>5. /\ Ordered(toMaster'[w], world'[w])
      /\ Mentions(toMaster'[w], "SERVER_INFO") <=> Mentions(toMaster[w], "SERVER_INFO")
      /\ Mentions(toMaster'[w], "WORLD_READY")
  <2>1. /\ Ordered(Append(toMaster[w], e), world'[w])
        /\ Mentions(Append(toMaster[w], e), "SERVER_INFO")
             <=> Mentions(toMaster[w], "SERVER_INFO")
        /\ Mentions(Append(toMaster[w], e), "WORLD_READY")
             <=> Mentions(toMaster[w], "WORLD_READY") \/ e.type = "WORLD_READY"
    BY <1>1, <1>2, <1>3, SaysMore
  <2> QED
    BY <1>1, <1>4, <2>1
<1>6. Paired(w)' /\ w \in m_Instances
  BY <1>2, <1>3, PairedWorld DEF Fit, BecomesReady
<1>7. Lively(world'[w], toMaster'[w], toWorld'[w])
  BY <1>2, <1>3, <1>4 DEF Fit, Lively
<1>8. Known(inst'[w], world'[w], toMaster'[w])
  <2>1. Known(inst[w], world[w], toMaster[w]) /\ inst'[w] = inst[w]
    BY <1>6 DEF Fit, BecomesReady
  <2>2. Introduced(world[w], toMaster[w]) <=> Introduced(world'[w], toMaster'[w])
    BY <1>2, <1>3, <1>5 DEF Introduced
  <2> QED
    BY <1>2, <1>3, <1>5, <2>1, <2>2 DEF Known
<1> QED
  BY <1>5, <1>6, <1>7, <1>8 DEF Fit

LEMMA FitSignalled ==
  ASSUME Sound, NEW w \in Handles, Fit(w), Signalled(w)
  PROVE  Fit(w)'
<1>1. world[w] \in WorldProcess /\ toWorld[w] \in Seq(ToWorldMessage)
  BY SentTypes
<1>2. world'[w] = [world[w] EXCEPT !.signalled = TRUE] /\ world[w].state = "up"
      /\ world[w].ready
  BY DEF Signalled
<1>3. /\ world'[w].state = "up" /\ world'[w].linked = world[w].linked /\ world'[w].ready
      /\ world'[w].signalled
      /\ world'[w].map = world[w].map /\ world'[w].clone = world[w].clone
      /\ world'[w].id = world[w].id /\ world'[w].port = world[w].port
  BY <1>1, <1>2 DEF WorldProcess
<1>4. toMaster'[w] = toMaster[w]
  BY DEF Signalled
<1>5. Ordered(toMaster'[w], world'[w])
  BY <1>2, <1>3, <1>4 DEF Fit, Ordered
<1>6. Paired(w)' /\ w \in m_Instances
  BY <1>2, <1>3, PairedWorld DEF Fit, Signalled
<1>7. Lively(world'[w], toMaster'[w], toWorld'[w])
  BY <1>2, <1>3, <1>4 DEF Fit, Lively
<1>8. Known(inst'[w], world'[w], toMaster'[w])
  BY <1>2, <1>3, <1>4, <1>6 DEF Fit, Known, Introduced, Signalled
<1> QED
  BY <1>5, <1>6, <1>7, <1>8 DEF Fit

LEMMA FitExits ==
  ASSUME Sound, NEW w \in Handles, Fit(w), Exits(w)
  PROVE  Fit(w)'
<1> DEFINE e == Msg("SHUTDOWN_RESPONSE")
           d == Msg("DISCONNECTED")
           m == Append(toMaster[w], e)
<1>1. /\ world[w] \in WorldProcess
      /\ e \in ToMasterMessage /\ e.type = "SHUTDOWN_RESPONSE"
      /\ d \in ToMasterMessage /\ d.type = "DISCONNECTED"
      /\ toMaster[w] \in Seq(ToMasterMessage)
  BY SentTypes
<1>2. world'[w] = [world[w] EXCEPT !.state = "gone", !.linked = FALSE]
      /\ world[w].state = "up" /\ world[w].signalled
  BY DEF Exits
<1>3. /\ world'[w].state = "gone" /\ ~world'[w].linked /\ world'[w].ready = world[w].ready
      /\ world'[w].signalled
      /\ world'[w].map = world[w].map /\ world'[w].clone = world[w].clone
      /\ world'[w].id = world[w].id /\ world'[w].port = world[w].port
  BY <1>1, <1>2 DEF WorldProcess
<1>4. world[w].ready
  BY <1>2 DEF Fit, Lively
<1>5. toMaster'[w] = Append(m, d) /\ toWorld'[w] = <<>>
  BY DEF Exits
<1> HIDE DEF e, d
<1>6. /\ Ordered(m, world'[w])
      /\ ~Mentions(m, "DISCONNECTED")
      /\ Mentions(m, "SERVER_INFO") <=> Mentions(toMaster[w], "SERVER_INFO")
      /\ Mentions(m, "WORLD_READY") <=> Mentions(toMaster[w], "WORLD_READY")
  BY <1>1, <1>2, <1>3, SaysMore
<1>7. m \in Seq(ToMasterMessage)
  BY <1>1, AppendMessages
<1> HIDE DEF m
<1>8. Ordered(toMaster'[w], world'[w])
  BY <1>1, <1>3, <1>5, <1>6, <1>7, OrderedAppend
<1>9. /\ Mentions(toMaster'[w], "SERVER_INFO") <=> Mentions(toMaster[w], "SERVER_INFO")
      /\ Mentions(toMaster'[w], "WORLD_READY") <=> Mentions(toMaster[w], "WORLD_READY")
  BY <1>1, <1>5, <1>6, <1>7, MentionsAppend
<1>10. Paired(w)' /\ w \in m_Instances
  BY <1>2, <1>3, PairedWorld DEF Fit, Exits
<1>11. Lively(world'[w], toMaster'[w], toWorld'[w])
  BY <1>3, <1>4, <1>5, MentionsNone DEF Lively
<1>12. Known(inst'[w], world'[w], toMaster'[w])
  <2>1. Known(inst[w], world[w], toMaster[w]) /\ inst'[w] = inst[w]
    BY <1>10 DEF Fit, Exits
  <2>2. Introduced(world[w], toMaster[w]) <=> Introduced(world'[w], toMaster'[w])
    BY <1>2, <1>3, <1>9 DEF Introduced
  <2> QED
    BY <1>3, <1>9, <2>1, <2>2 DEF Known
<1> QED
  BY <1>8, <1>10, <1>11, <1>12 DEF Fit

LEMMA FitNext ==
  ASSUME Sound, NEW w \in Handles, Fit(w), Effect(w)
  PROVE  Fit(w)'
<1>1. /\ Msg("PLAYER_ADDED") \in ToMasterMessage
      /\ Msg("PLAYER_ADDED").type = "PLAYER_ADDED"
      /\ Msg("PLAYER_REMOVED") \in ToMasterMessage
      /\ Msg("PLAYER_REMOVED").type = "PLAYER_REMOVED"
      /\ toWorld[w] \in Seq(ToWorldMessage) /\ world[w] \in WorldProcess
  BY SentTypes
<1>2. CASE MasterEffect(w)
  BY <1>2, FitMaster, FitBegun, FitHeard DEF MasterEffect
<1>3. CASE Affirms(w)
  <2> DEFINE id == Head(toWorld[w]).requestID
  <2>1. toWorld[w] # <<>> /\ toWorld'[w] = Tail(toWorld[w])
    BY <1>3 DEF Affirms
  <2>2. Mentions(toWorld'[w], "SHUTDOWN") => Mentions(toWorld[w], "SHUTDOWN")
    BY <1>1, <2>1, MentionsTail
  <2>3. id \in Nat
    <3>1. Head(toWorld[w]) \in ToWorldMessage
      BY <1>1, <2>1
    <3> QED
      BY <3>1 DEF ToWorldMessage
  <2>4. AffirmResponse(id) \in ToMasterMessage
        /\ AffirmResponse(id).type = "AFFIRM_TRANSFER_RESPONSE"
    BY <2>3, SentTypes
  <2> QED
    BY <1>3, <2>2, <2>4, FitSpeaks DEF Affirms
<1>4. CASE Joined(w)
  BY <1>1, <1>4, FitSpeaks DEF Joined
<1>5. CASE Left(w)
  <2>1. CASE toMaster'[w] = Append(toMaster[w], Msg("PLAYER_REMOVED"))
    BY <1>1, <1>5, <2>1, FitSpeaks DEF Left
  <2>2. CASE toMaster'[w] = toMaster[w]
    BY <1>5, <2>2, FitFrame DEF Left
  <2> QED
    BY <1>5, <2>1, <2>2 DEF Left
<1>6. CASE Starts(w) \/ BecomesReady(w) \/ Signalled(w) \/ Exits(w) \/ Untouched(w)
  BY <1>6, FitStarts, FitBecomesReady, FitSignalled, FitExits, FitMaster
<1> QED
  BY <1>2, <1>3, <1>4, <1>5, <1>6 DEF Effect, WorldEffect

-----------------------------------------------------------------------------
(* What the steps of the master are to each handle.                         *)

LEMMA ZonePairs == \A z \in Zones : z \in Maps \X Clones
<1> TAKE z \in Zones
<1>1. z \in Nat \X Nat
  BY ConstantsAssumption
<1>2. z = <<z[1], z[2]>>
  BY <1>1
<1>3. z[1] \in Maps /\ z[2] \in Clones
  BY ZoneParts
<1> QED
  BY <1>2, <1>3

(* A handle whose Instance and channel the caller of Dispatch left alone.   *)
LEMMA DispatchedTo ==
  ASSUME Sound, NEW h \in Handles, NEW X, NEW erased, NEW z \in Maps \X Clones,
         NEW reqs \in Seq(Requests), NEW f \in [Handles -> Instance],
         NEW chan \in [Handles -> Seq(ToWorldMessage)],
         Dispatched(h, X, erased, z, reqs, f, chan),
         NEW w \in Handles, w \notin erased,
         f[w] = inst[w], chan[w] = toWorld[w], toMaster'[w] = toMaster[w],
         PlayersIn(w)' = PlayersIn(w) /\ ghosts'[w] = ghosts[w],
         w = h => toWorld'[w] = toWorld[w] \/ h \in m_Instances
  PROVE  MasterEffect(w)
<1>1. nextHandle \in Nat /\ nextHandle \notin m_Instances /\ w \in Nat
  BY Parts
<1>2. m_Instances' = (m_Instances \ erased) \cup {h}
  BY DEF Dispatched
<1>3. CASE w # h
  <2>1. inst'[w] = inst[w] /\ world'[w] = world[w] /\ toWorld'[w] = toWorld[w]
    BY <1>3 DEF Dispatched
  <2>2. nextHandle' = nextHandle \/ (h = nextHandle /\ nextHandle' = nextHandle + 1)
    BY DEF Dispatched, Handed, PairStarted
  <2>3. (w < nextHandle)' <=> w < nextHandle
    BY <1>1, <1>3, <2>2
  <2>4. (w \in m_Instances)' <=> w \in m_Instances
    BY <1>2, <1>3
  <2> QED
    BY <2>1, <2>3, <2>4 DEF MasterEffect, Untouched, Stays, SameSent
<1>4. CASE w = h /\ h \in m_Instances \ X /\ Joinable(h, z) /\ Handed(h, reqs, f[h], chan[h])
  BY <1>2, <1>4 DEF MasterEffect, GivenMore, Joinable, IsPrivate, Private
<1>5. CASE w = h /\ PairStarted(h, z, SoftCapOf(z[1]), NoPassword, reqs)
                 /\ toWorld'[h] = chan[h]
  <2>1. SoftCapOf(z[1]) \in Nat
    BY SoftCapType
  <2>2. w \in m_Instances' /\ SameSent(w)
    BY <1>2, <1>5 DEF SameSent
  <2>3. \E y \in Maps \X Clones, cap \in Nat, pw \in Passwords \cup {NoPassword},
           rs \in Seq(Requests) :
          PairStarted(w, y, cap, pw, rs) /\ (pw # NoPassword => rs = <<>>)
    BY <1>5, <2>1
  <2> QED
    BY <2>2, <2>3 DEF MasterEffect, Begun
<1> QED
  BY <1>3, <1>4, <1>5 DEF Dispatched

LEMMA SamePlayers ==
  ASSUME UNCHANGED <<location, ghosts>>, NEW w
  PROVE  PlayersIn(w)' = PlayersIn(w) /\ ghosts'[w] = ghosts[w]
BY DEF PlayersIn

LEMMA NothingTouched ==
  ASSUME UNCHANGED <<m_Instances, inst, nextHandle, world, toMaster, toWorld,
                   location, ghosts>>,
         NEW w \in Handles
  PROVE  Effect(w)
BY SamePlayers DEF Effect, MasterEffect, Untouched, Stays, SameSent

LEMMA TransferEffect ==
  ASSUME Sound, Together, NothingFails, NEW t \in transfers,
         HandleRequestZoneTransfer(t) \/ HandleRequestPrivateZone(t),
         NEW w \in Handles
  PROVE  Effect(w)
<1>1. CASE HandleRequestPrivateZone(t)
  <2>1. UNCHANGED <<m_Instances, inst, nextHandle, world, toMaster, toWorld, location,
                 ghosts>>
    BY <1>1 DEF HandleRequestPrivateZone, masterVars, requestVars
  <2> QED
    BY <2>1, NothingTouched
<1>2. CASE HandleRequestZoneTransfer(t)
  <2>1. ~m_IsShuttingDown
    BY DEF Together, Calm, m_IsShuttingDown
  <2>2. Dispatch({}, {}, t.target, <<t.req>>, inst, toWorld)
    BY <1>2, <2>1 DEF HandleRequestZoneTransfer
  <2>3. t.req \in Requests /\ t.target \in Maps \X Clones
    BY <1>2, Parts, ZonePairs DEF RequestTypes, HandleRequestZoneTransfer
  <2> DEFINE reqs == <<t.req>>
             z == t.target
             none == {}
  <2>7. inst \in [Handles -> Instance] /\ toWorld \in [Handles -> Seq(ToWorldMessage)]
        /\ reqs \in Seq(Requests) /\ z \in Maps \X Clones
        /\ Dispatch(none, none, z, reqs, inst, toWorld) /\ w \notin none
    BY <2>2, <2>3, Parts
  <2> HIDE DEF reqs, z, none
  <2>4. PICK h \in Handles : Dispatched(h, none, none, z, reqs, inst, toWorld)
    BY <2>7, DispatchEffect
  <2>5. toMaster'[w] = toMaster[w] /\ PlayersIn(w)' = PlayersIn(w) /\ ghosts'[w] = ghosts[w]
    BY <1>2, SamePlayers DEF HandleRequestZoneTransfer, requestVars
  <2>6. MasterEffect(w)
    <3>1. h \in m_Instances \/ toWorld'[h] = toWorld[h]
      BY <2>4 DEF Dispatched
    <3> QED
      BY <2>4, <2>5, <2>7, <3>1, DispatchedTo
  <2> QED
    BY <2>6 DEF Effect
<1> QED
  BY <1>1, <1>2

LEMMA TimeoutEffect ==
  ASSUME Sound, Together, NothingFails, NEW h \in Handles, AffirmationTimeout(h),
         NEW w \in Handles
  PROVE  Effect(w)
<1> DEFINE f == [inst EXCEPT ![h].isShuttingDown = TRUE, ![h].timedOut = TRUE]
           z == <<inst[h].map, inst[h].clone>>
           reqs == inst[h].pendingAffirmations
           stop == <<Msg("SHUTDOWN")>>
           chan == SentTo(toWorld, inst[h].addr, stop)
           told == [inst[h] EXCEPT !.isShuttingDown = TRUE, !.timedOut = TRUE]
<1>1. h \in m_Instances /\ reqs # <<>> /\ Dispatch({h}, {}, z, reqs, f, chan)
      /\ UNCHANGED <<toMaster, location, ghosts>>
  BY DEF AffirmationTimeout, requestVars
<1>2. inst[h] \in Instance /\ inst \in [Handles -> Instance]
      /\ toWorld \in [Handles -> Seq(ToWorldMessage)]
  BY Parts
<1>3. z \in Maps \X Clones /\ reqs \in Seq(Requests)
  BY <1>2 DEF Instance
<1>4. inst[h].ready
  BY <1>1 DEF Sound, PendingMatchesReadiness
<1>5. stop \in Seq(ToWorldMessage)
  BY DEF Msg, ToWorldMessage
<1>6. /\ chan \in [Handles -> Seq(ToWorldMessage)]
      /\ \A v \in Handles :
           chan[v] = IF v = h /\ world[v].state = "up" THEN toWorld[v] \o stop
                     ELSE toWorld[v]
  <2> HIDE DEF stop
  <2> QED
    BY <1>1, <1>2, <1>4, <1>5, SentToOwn
<1>7. /\ f \in [Handles -> Instance]
      /\ \A v \in Handles \ {h} : f[v] = inst[v]
      /\ f[h] = told /\ told.ready = inst[h].ready
  BY <1>2 DEF Instance
<1>8. \A v \in m_Instances : f[v].ready = inst[v].ready
  <2> TAKE v \in m_Instances
  <2>1. v \in Handles
    BY Parts
  <2>2. CASE v = h
    BY <1>7, <2>2
  <2>3. CASE v # h
    BY <1>7, <2>1, <2>3
  <2> QED
    BY <2>2, <2>3
<1> HIDE DEF f, chan, z, reqs, told
<1>9. PICK g \in Handles : Dispatched(g, {h}, {}, z, reqs, f, chan)
  BY <1>1, <1>3, <1>6, <1>7, <1>8, DispatchEffect
<1>10. g # h
  BY <1>1, <1>9, Parts DEF Dispatched, PairStarted
<1>11. toMaster'[w] = toMaster[w] /\ PlayersIn(w)' = PlayersIn(w) /\ ghosts'[w] = ghosts[w]
  BY <1>1, SamePlayers
<1>12. CASE w = h
  <2>1. inst'[w] = f[h] /\ world'[w] = world[w] /\ toWorld'[w] = chan[h]
    BY <1>9, <1>10, <1>12 DEF Dispatched
  <2>2. Stays(w)
    <3>1. nextHandle' = nextHandle \/ (g = nextHandle /\ nextHandle' = nextHandle + 1)
      BY <1>9 DEF Dispatched, Handed, PairStarted
    <3>2. w \in Nat /\ nextHandle \in Nat
      BY Parts
    <3>3. (w < nextHandle)' <=> w < nextHandle
      BY <1>10, <1>12, <3>1, <3>2
    <3>4. (w \in m_Instances)' <=> w \in m_Instances
      BY <1>9, <1>10, <1>12 DEF Dispatched
    <3> QED
      BY <3>3, <3>4 DEF Stays
  <2>3. TimedOut(h)
    <3>1. inst'[h] = [inst[h] EXCEPT !.isShuttingDown = TRUE, !.timedOut = TRUE]
      <4>1. inst'[h] = told
        BY <1>7, <1>12, <2>1
      <4> QED
        BY <4>1 DEF told
    <3>2. toWorld'[h] = IF world[h].state = "up" THEN toWorld[h] \o <<Msg("SHUTDOWN")>>
                        ELSE toWorld[h]
      BY <1>6, <1>12, <2>1 DEF stop
    <3>3. Stays(h) /\ world'[h] = world[h] /\ toMaster'[h] = toMaster[h]
          /\ PlayersIn(h)' = PlayersIn(h) /\ ghosts'[h] = ghosts[h]
      BY <1>11, <1>12, <2>1, <2>2
    <3> QED
      BY <1>1, <1>4, <3>1, <3>2, <3>3 DEF TimedOut
  <2> QED
    BY <1>12, <2>3 DEF Effect, MasterEffect
<1>13. CASE w # h
  <2>1. f[w] = inst[w] /\ chan[w] = toWorld[w]
    BY <1>6, <1>7, <1>13
  <2>2. w = g => toWorld'[w] = toWorld[w] \/ g \in m_Instances
    BY <1>9, <2>1 DEF Dispatched
  <2>3. MasterEffect(w)
    <3> DEFINE skipped == {h}
               none == {}
    <3>1. Dispatched(g, skipped, none, z, reqs, f, chan) /\ w \notin none
      BY <1>9
    <3>2. chan \in [Handles -> Seq(ToWorldMessage)] /\ f \in [Handles -> Instance]
          /\ z \in Maps \X Clones /\ reqs \in Seq(Requests)
      BY <1>3, <1>6, <1>7
    <3> HIDE DEF skipped, none
    <3> QED
      BY <1>11, <2>1, <2>2, <3>1, <3>2, DispatchedTo
  <2> QED
    BY <2>3 DEF Effect
<1> QED
  BY <1>12, <1>13

(* A command that starts a world, public or private, for nobody's request.  *)
LEMMA CommandBegins ==
  ASSUME Sound, Together, NothingFails, nextHandle \in Handles,
         NEW z \in Maps \X Clones, NEW cap \in Nat,
         NEW pw \in Passwords \cup {NoPassword}, NEW a \in UninitialisedAddrs,
         StartIfNew(nextHandle, z),
         inst' = WithInstance(inst, nextHandle, z, cap, pw, a),
         m_Instances' = m_Instances \cup {nextHandle},
         UNCHANGED <<toMaster, toWorld,
                   location, ghosts>>,
         NEW w \in Handles
  PROVE  Effect(w)
<1> DEFINE h == nextHandle
           j == WithInstance(inst, nextHandle, z, cap, pw, a)
           newi == NewInstance(z[1], z[2], NextInstanceId, GetFreePort, cap, pw, NoAddr)
<1>1. <<>> \in Seq(Requests) /\ inst \in [Handles -> Instance]
  BY Parts
<1>2. /\ nextHandle' = nextHandle + 1
      /\ world'[nextHandle] = StartedWorld(z[1], z[2], NextInstanceId, GetFreePort)
      /\ \A g \in Handles \ {nextHandle} : world'[g] = world[g] /\ j[g] = inst[g]
      /\ j[nextHandle] = newi
  <2>1. j = WithInstance(inst, nextHandle, z, cap, pw, a)
    OBVIOUS
  <2> HIDE DEF j
  <2> QED
    BY <1>1, <2>1, NewPair
<1>3. inst' = j
  OBVIOUS
<1>4. newi = [newi EXCEPT !.pendingRequests = <<>>]
  <2>1. newi.pendingRequests = <<>> /\ newi = [k \in DOMAIN newi |-> newi[k]]
    BY DEF NewInstance
  <2> HIDE DEF newi
  <2> QED
    BY <2>1
<1> HIDE DEF j
<1>5. PlayersIn(w)' = PlayersIn(w) /\ ghosts'[w] = ghosts[w] /\ SameSent(w)
  BY SamePlayers DEF SameSent
<1>6. CASE w = h
  <2>1. PairStarted(w, z, cap, pw, <<>>)
    <3>1. inst'[w] = [newi EXCEPT !.pendingRequests = <<>>]
      BY <1>2, <1>3, <1>4, <1>6
    <3> QED
      BY <1>2, <1>6, <3>1 DEF PairStarted
  <2>2. \E y \in Maps \X Clones, c \in Nat, p \in Passwords \cup {NoPassword},
           rs \in Seq(Requests) :
          PairStarted(w, y, c, p, rs) /\ (p # NoPassword => rs = <<>>)
    BY <1>1, <2>1
  <2>3. w \in m_Instances'
    BY <1>6
  <2> QED
    BY <1>5, <2>2, <2>3 DEF Effect, MasterEffect, Begun
<1>7. CASE w # h
  <2>1. inst'[w] = inst[w] /\ world'[w] = world[w]
    BY <1>2, <1>3, <1>7
  <2>2. (w < nextHandle)' <=> w < nextHandle
    <3>1. w \in Nat /\ nextHandle \in Nat
      BY Parts
    <3> QED
      BY <1>2, <1>7, <3>1
  <2> QED
    BY <1>5, <1>7, <2>1, <2>2 DEF Effect, MasterEffect, Untouched, Stays
<1> QED
  BY <1>6, <1>7

LEMMA CommandEffect ==
  ASSUME Sound, Together, NothingFails, CommandStep, NEW w \in Handles
  PROVE  Effect(w)
<1>1. ~OnSignal
  BY DEF NothingFails, OnSignal
<1>2. ASSUME NEW map \in Maps, HandlePrepZone(map) PROVE Effect(w)
  <2> DEFINE z == <<map, 0>>
             h == GetInstance({}, z)
  <2>1. z \in Maps \X Clones
    BY ZoneParts
  <2>2. /\ h \in Handles
        /\ m_Instances' = m_Instances \cup {h}
        /\ StartIfNew(h, z)
        /\ UNCHANGED <<toMaster, toWorld, location, ghosts>>
    BY <1>2 DEF HandlePrepZone, requestVars
  <2>3. PICK a \in UninitialisedAddrs :
          inst' = WithInstance(inst, h, z, SoftCapOf(map), NoPassword, a)
    BY <1>2 DEF HandlePrepZone
  <2>4. h \in m_Instances \/ h = nextHandle
    BY <2>2, GetInstanceResult, HandleFacts, Parts DEF NoHandle
  <2>5. SoftCapOf(map) \in Nat
    BY SoftCapType
  <2> HIDE DEF h, z
  <2>6. CASE h = nextHandle
    BY <2>1, <2>2, <2>3, <2>5, <2>6, CommandBegins
  <2>7. CASE h # nextHandle
    <3>1. UNCHANGED <<m_Instances, inst, nextHandle, world, toMaster, toWorld, location, ghosts>>
      BY <2>2, <2>3, <2>4, <2>7 DEF StartIfNew, WithInstance
    <3> QED
      BY <3>1, NothingTouched
  <2> QED
    BY <2>6, <2>7
<1>3. ASSUME NEW z \in Zones, NEW pw \in Passwords, HandleCreatePrivateZone(z, pw)
      PROVE  Effect(w)
  <2>1. /\ nextHandle \in Handles
        /\ m_Instances' = m_Instances \cup {nextHandle}
        /\ StartIfNew(nextHandle, z)
        /\ UNCHANGED <<toMaster, toWorld, location, ghosts>>
    BY <1>3 DEF HandleCreatePrivateZone, requestVars
  <2>2. PICK a \in UninitialisedAddrs :
          inst' = WithInstance(inst, nextHandle, z, MaxCapPrivate, pw, a)
    BY <1>3 DEF HandleCreatePrivateZone
  <2>3. MaxCapPrivate \in Nat /\ z \in Maps \X Clones
    BY ZonePairs DEF MaxCapPrivate
  <2> QED
    BY <2>1, <2>2, <2>3, CommandBegins
<1> QED
  BY <1>1, <1>2, <1>3 DEF CommandStep

-----------------------------------------------------------------------------
(* Packets of a world: only its own Instance changes.                       *)

(* A handler writes one Instance at most, that of the world that wrote.     *)
LEMMA HeardBy ==
  ASSUME Sound, Together, NEW w \in Handles, NEW type, Receive(w, type),
         UNCHANGED <<m_Instances, nextHandle, world, toWorld>>,
         type # "DISCONNECTED",
         \A v \in Handles \ {w} : inst'[v] = inst[v],
         IF Private(inst[w]) THEN inst'[w] = inst[w]
         ELSE HandledAs(w, type, inst[w], inst'[w]),
         NEW v \in Handles
  PROVE  Effect(v)
<1>1. /\ toMaster[w] # <<>> /\ Head(toMaster[w]).type = type
      /\ toMaster' = [toMaster EXCEPT ![w] = Tail(@)]
      /\ UNCHANGED <<location, ghosts>>
  BY DEF Receive, requestVars
<1>2. toMaster \in [Handles -> Seq(ToMasterMessage)]
  BY Parts
<1>3. PlayersIn(v)' = PlayersIn(v) /\ ghosts'[v] = ghosts[v]
  BY <1>1, SamePlayers
<1>4. CASE v = w
  <2>1. w \in m_Instances
    BY <1>1, SpeakerLives
  <2>2. toMaster'[w] = Tail(toMaster[w])
    BY <1>1, <1>2
  <2>3. IF Private(inst[w]) THEN inst'[w] = inst[w]
        ELSE HandledAs(w, Head(toMaster[w]).type, inst[w], inst'[w])
    BY <1>1
  <2>4. Heard(w)
    BY <1>1, <1>3, <1>4, <2>1, <2>2, <2>3 DEF Heard
  <2> QED
    BY <1>4, <2>4 DEF Effect, MasterEffect
<1>5. CASE v # w
  <2>1. toMaster'[v] = toMaster[v]
    BY <1>1, <1>2, <1>5
  <2> QED
    BY <1>3, <1>5, <2>1 DEF Effect, MasterEffect, Untouched, Stays, SameSent
<1> QED
  BY <1>4, <1>5

(* What the master knows when it reads a message of w.                      *)
LEMMA Sender ==
  ASSUME Sound, Together, NEW w \in Handles, NEW type, Receive(w, type)
  PROVE  /\ w \in m_Instances /\ inst[w] \in Instance
         /\ inst \in [Handles -> Instance]
         /\ IsPrivate(w) <=> Private(inst[w])
         /\ NoHandle \notin Handles
         /\ IsPortInUse(world[w].port)
         /\ FindInstanceById(world[w].map, world[w].id)
              = IF Private(inst[w]) \/ inst[w].isShuttingDown THEN NoHandle ELSE w
         /\ type # "SERVER_INFO" =>
              GetInstanceBySysAddr(world[w].port)
                = IF Private(inst[w]) THEN NoHandle ELSE w
         /\ type \in {"SERVER_INFO", "WORLD_READY"} => ~inst[w].isShuttingDown
<1>1. toMaster[w] # <<>> /\ Head(toMaster[w]).type = type
  BY DEF Receive
<1>2. w \in m_Instances /\ world[w].state \in {"up", "gone"}
  BY <1>1, SpeakerLives
<1>3. IsPrivate(w) <=> Private(inst[w])
  BY DEF IsPrivate, Private
<1>4. Fit(w) /\ inst[w] \in Instance /\ inst \in [Handles -> Instance]
      /\ toMaster[w] \in Seq(ToMasterMessage) /\ NoHandle \notin Handles
  BY Parts DEF Together, NoHandle
<1>5. /\ ~Mentions(Tail(toMaster[w]), "SERVER_INFO")
      /\ Mentions(toMaster[w], "SERVER_INFO") <=>
           Mentions(Tail(toMaster[w]), "SERVER_INFO") \/ type = "SERVER_INFO"
      /\ Mentions(toMaster[w], "WORLD_READY") <=>
           Mentions(Tail(toMaster[w]), "WORLD_READY") \/ type = "WORLD_READY"
  BY <1>1, <1>4, OrderedTail, MentionsTail DEF Fit
<1>6. type # "SERVER_INFO" <=> Introduced(world[w], toMaster[w])
  BY <1>2, <1>5 DEF Introduced
<1>7. IsPortInUse(world[w].port)
  BY <1>2, <1>4 DEF IsPortInUse, Fit, Paired
<1>8. type \in {"SERVER_INFO", "WORLD_READY"} => ~inst[w].isShuttingDown
  <2>1. Known(inst[w], world[w], toMaster[w])
    BY <1>2, <1>4 DEF Fit
  <2>2. type = "SERVER_INFO" => ~Introduced(world[w], toMaster[w])
    BY <1>6
  <2>3. type = "WORLD_READY" => Mentions(toMaster[w], "WORLD_READY")
    BY <1>5
  <2> QED
    BY <2>1, <2>2, <2>3 DEF Known
<1> QED
  BY <1>2, <1>3, <1>4, <1>6, <1>7, <1>8, OwnById, OwnByAddr

LEMMA PacketEffect ==
  ASSUME Sound, Together, NothingFails, NEW w \in Handles,
         HandleServerInfo(w) \/ HandleWorldReady(w)
           \/ HandleAffirmTransferResponse(w) \/ HandlePlayerAdded(w)
           \/ HandlePlayerRemoved(w) \/ HandleShutdownResponse(w),
         NEW v \in Handles
  PROVE  Effect(v)
<1>1. CASE HandleServerInfo(w)
  <2>1. Receive(w, "SERVER_INFO") /\ UNCHANGED <<world, toWorld>>
    BY <1>1 DEF HandleServerInfo
  <2>2. /\ inst[w] \in Instance /\ inst \in [Handles -> Instance]
        /\ NoHandle \notin Handles /\ IsPortInUse(world[w].port)
        /\ ~inst[w].isShuttingDown
        /\ FindInstanceById(world[w].map, world[w].id)
             = IF Private(inst[w]) \/ inst[w].isShuttingDown THEN NoHandle ELSE w
    BY <2>1, Sender
  <2>3. /\ inst' = IF Private(inst[w]) THEN inst
                   ELSE [inst EXCEPT ![w].addr = world[w].port]
        /\ UNCHANGED <<m_Instances, nextHandle>>
    BY <1>1, <2>2 DEF HandleServerInfo
  <2>4. \A u \in Handles \ {w} : inst'[u] = inst[u]
    BY <2>2, <2>3
  <2>5. IF Private(inst[w]) THEN inst'[w] = inst[w]
        ELSE HandledAs(w, "SERVER_INFO", inst[w], inst'[w])
    BY <2>2, <2>3 DEF HandledAs
  <2> QED
    BY <2>1, <2>3, <2>4, <2>5, HeardBy
<1>2. CASE HandleWorldReady(w)
  <2>1. Receive(w, "WORLD_READY") /\ UNCHANGED <<m_Instances, nextHandle, world, toWorld>>
    BY <1>2 DEF HandleWorldReady
  <2>2. /\ inst[w] \in Instance /\ inst \in [Handles -> Instance]
        /\ NoHandle \notin Handles /\ ~inst[w].isShuttingDown
        /\ FindInstanceById(world[w].map, world[w].id)
             = IF Private(inst[w]) \/ inst[w].isShuttingDown THEN NoHandle ELSE w
    BY <2>1, Sender
  <2>3. inst' = IF Private(inst[w]) THEN inst
                ELSE [inst EXCEPT ![w].ready = TRUE, ![w].pendingRequests = <<>>]
    BY <1>2, <2>2 DEF HandleWorldReady
  <2>4. \A u \in Handles \ {w} : inst'[u] = inst[u]
    BY <2>2, <2>3
  <2>5. IF Private(inst[w]) THEN inst'[w] = inst[w]
        ELSE HandledAs(w, "WORLD_READY", inst[w], inst'[w])
    BY <2>2, <2>3 DEF HandledAs
  <2> QED
    BY <2>1, <2>4, <2>5, HeardBy
<1>3. CASE HandleAffirmTransferResponse(w)
  <2>1. /\ Receive(w, "AFFIRM_TRANSFER_RESPONSE")
        /\ UNCHANGED <<m_Instances, nextHandle, world, toWorld>>
    BY <1>3 DEF HandleAffirmTransferResponse
  <2>2. /\ inst[w] \in Instance /\ inst \in [Handles -> Instance]
        /\ NoHandle \notin Handles
        /\ GetInstanceBySysAddr(world[w].port)
             = IF Private(inst[w]) THEN NoHandle ELSE w
    BY <2>1, Sender
  <2> DEFINE id == Head(toMaster[w]).requestID
             matches == {k \in DOMAIN inst[w].pendingAffirmations :
                           inst[w].pendingAffirmations[k][2] = id}
             rest == RemoveAt(inst[w].pendingAffirmations, Min(matches))
             done == [inst EXCEPT ![w].pendingAffirmations = rest,
                                  ![w].timedOut = @ /\ rest # <<>>]
  <2>3. inst' = IF Private(inst[w]) \/ matches = {} THEN inst ELSE done
    <3>1. CASE Private(inst[w])
      BY <1>3, <2>2, <3>1 DEF HandleAffirmTransferResponse
    <3>2. CASE ~Private(inst[w])
      BY <1>3, <2>2, <3>2, SMTT(20) DEF HandleAffirmTransferResponse
    <3> QED
      BY <3>1, <3>2
  <2>4. /\ \A u \in Handles \ {w} : done[u] = inst[u]
        /\ done[w] = [inst[w] EXCEPT !.pendingAffirmations = rest,
                                     !.timedOut = @ /\ rest # <<>>]
    <3> HIDE DEF rest
    <3> QED
      BY <2>2 DEF Instance
  <2>5. \A u \in Handles \ {w} : inst'[u] = inst[u]
    <3> HIDE DEF done, matches
    <3> QED
      BY <2>3, <2>4
  <2>6. ASSUME ~Private(inst[w])
        PROVE  HandledAs(w, "AFFIRM_TRANSFER_RESPONSE", inst[w], inst'[w])
    <3>1. inst'[w] = IF matches = {} THEN inst[w] ELSE done[w]
      <4> HIDE DEF done, matches
      <4> QED
        BY <2>3, <2>6
    <3>2. IF matches = {} THEN inst'[w] = inst[w]
          ELSE inst'[w] = [inst[w] EXCEPT !.pendingAffirmations = rest,
                                          !.timedOut = @ /\ rest # <<>>]
      <4> HIDE DEF done, matches, rest
      <4> QED
        BY <2>4, <3>1
    <3> HIDE DEF done
    <3> QED
      BY <3>2 DEF HandledAs
  <2>7. Private(inst[w]) => inst'[w] = inst[w]
    <3> HIDE DEF done, matches
    <3> QED
      BY <2>3
  <2>8. IF Private(inst[w]) THEN inst'[w] = inst[w]
        ELSE HandledAs(w, "AFFIRM_TRANSFER_RESPONSE", inst[w], inst'[w])
    BY <2>6, <2>7
  <2> HIDE DEF done, matches, rest, id
  <2> QED
    BY <2>1, <2>5, <2>8, HeardBy
<1>4. CASE HandlePlayerAdded(w)
  <2>1. Receive(w, "PLAYER_ADDED") /\ UNCHANGED <<m_Instances, nextHandle, world, toWorld>>
    BY <1>4 DEF HandlePlayerAdded
  <2>2. /\ inst[w] \in Instance /\ inst \in [Handles -> Instance]
        /\ NoHandle \notin Handles
        /\ FindInstanceById(world[w].map, world[w].id)
             = IF Private(inst[w]) \/ inst[w].isShuttingDown THEN NoHandle ELSE w
    BY <2>1, Sender
  <2>3. inst' = IF Private(inst[w]) \/ inst[w].isShuttingDown THEN inst
                ELSE [inst EXCEPT ![w].clients = @ + 1]
    BY <1>4, <2>2 DEF HandlePlayerAdded
  <2>4. \A u \in Handles \ {w} : inst'[u] = inst[u]
    BY <2>2, <2>3
  <2>5. IF Private(inst[w]) THEN inst'[w] = inst[w]
        ELSE HandledAs(w, "PLAYER_ADDED", inst[w], inst'[w])
    BY <2>2, <2>3 DEF HandledAs
  <2> QED
    BY <2>1, <2>4, <2>5, HeardBy
<1>5. CASE HandlePlayerRemoved(w)
  <2>1. Receive(w, "PLAYER_REMOVED") /\ UNCHANGED <<m_Instances, nextHandle, world, toWorld>>
    BY <1>5 DEF HandlePlayerRemoved
  <2>2. /\ inst[w] \in Instance /\ inst \in [Handles -> Instance]
        /\ NoHandle \notin Handles
        /\ FindInstanceById(world[w].map, world[w].id)
             = IF Private(inst[w]) \/ inst[w].isShuttingDown THEN NoHandle ELSE w
    BY <2>1, Sender
  <2>3. inst' = IF Private(inst[w]) \/ inst[w].isShuttingDown THEN inst
                ELSE [inst EXCEPT ![w].clients = IF @ = 0 THEN 0 ELSE @ - 1]
    BY <1>5, <2>2 DEF HandlePlayerRemoved
  <2>4. \A u \in Handles \ {w} : inst'[u] = inst[u]
    BY <2>2, <2>3
  <2>5. IF Private(inst[w]) THEN inst'[w] = inst[w]
        ELSE HandledAs(w, "PLAYER_REMOVED", inst[w], inst'[w])
    BY <2>2, <2>3 DEF HandledAs
  <2> QED
    BY <2>1, <2>4, <2>5, HeardBy
<1>6. CASE HandleShutdownResponse(w)
  <2>1. /\ Receive(w, "SHUTDOWN_RESPONSE")
        /\ UNCHANGED <<m_Instances, nextHandle, world, toWorld>>
    BY <1>6 DEF HandleShutdownResponse
  <2>2. /\ inst[w] \in Instance /\ inst \in [Handles -> Instance]
        /\ NoHandle \notin Handles
        /\ GetInstanceBySysAddr(world[w].port)
             = IF Private(inst[w]) THEN NoHandle ELSE w
    BY <2>1, Sender
  <2>3. inst' = IF Private(inst[w]) THEN inst
                ELSE [inst EXCEPT ![w].isShuttingDown = TRUE]
    BY <1>6, <2>2 DEF HandleShutdownResponse
  <2>4. \A u \in Handles \ {w} : inst'[u] = inst[u]
    BY <2>2, <2>3
  <2>5. IF Private(inst[w]) THEN inst'[w] = inst[w]
        ELSE HandledAs(w, "SHUTDOWN_RESPONSE", inst[w], inst'[w])
    BY <2>2, <2>3 DEF HandledAs
  <2> QED
    BY <2>1, <2>4, <2>5, HeardBy
<1> QED
  BY <1>1, <1>2, <1>3, <1>4, <1>5, <1>6

LEMMA DisconnectedEffect ==
  ASSUME Sound, Together, NothingFails, NEW w \in Handles, HandleDisconnected(w),
         NEW v \in Handles
  PROVE  Effect(v)
<1>1. Receive(w, "DISCONNECTED")
  BY DEF HandleDisconnected
<1>2. /\ w \in m_Instances /\ inst[w] \in Instance /\ inst \in [Handles -> Instance]
      /\ NoHandle \notin Handles
      /\ GetInstanceBySysAddr(world[w].port)
           = IF Private(inst[w]) THEN NoHandle ELSE w
  BY <1>1, Sender
<1>3. /\ toMaster[w] # <<>> /\ Head(toMaster[w]).type = "DISCONNECTED"
      /\ toMaster' = [toMaster EXCEPT ![w] = Tail(@)]
      /\ UNCHANGED <<location, ghosts>>
  BY <1>1 DEF Receive, requestVars
<1>4. /\ toMaster \in [Handles -> Seq(ToMasterMessage)]
      /\ toWorld \in [Handles -> Seq(ToWorldMessage)]
      /\ w < nextHandle
  <2>1. w < nextHandle
    BY <1>2, Parts, HandleFacts
  <2> QED
    BY <2>1, Parts
<1>5. /\ toMaster'[w] = Tail(toMaster[w])
      /\ \A u \in Handles \ {w} : toMaster'[u] = toMaster[u]
  BY <1>3, <1>4
<1>6. PlayersIn(v)' = PlayersIn(v) /\ ghosts'[v] = ghosts[v]
  BY <1>3, SamePlayers
<1>7. CASE Private(inst[w])
  <2>1. UNCHANGED <<m_Instances, inst, nextHandle, world, toWorld>>
    BY <1>2, <1>7 DEF HandleDisconnected, masterVars
  <2>2. CASE v = w
    <3>1. Heard(w)
      BY <1>2, <1>3, <1>5, <1>6, <1>7, <2>1, <2>2 DEF Heard
    <3> QED
      BY <2>2, <3>1 DEF Effect, MasterEffect
  <2>3. CASE v # w
    BY <1>5, <1>6, <2>1, <2>3 DEF Effect, MasterEffect, Untouched, Stays, SameSent
  <2> QED
    BY <2>2, <2>3
<1>8. CASE ~Private(inst[w])
  <2>1. RemoveInstance(w)
    BY <1>2, <1>8 DEF HandleDisconnected
  <2>2. ~ShouldShutdown
    BY DEF Together, Calm, ShouldShutdown
  <2> DEFINE reqs == inst[w].pendingAffirmations
             z == <<inst[w].map, inst[w].clone>>
             own == {w}
  <2>3. CASE reqs = <<>>
    <3>1. /\ m_Instances' = m_Instances \ {w}
          /\ UNCHANGED <<inst, nextHandle, world, toWorld>>
      BY <2>1, <2>3 DEF RemoveInstance
    <3>2. CASE v = w
      <4>1. HandledAs(w, "DISCONNECTED", inst[w], inst'[w])
        BY <3>1 DEF HandledAs
      <4>2. Heard(w)
        BY <1>2, <1>3, <1>5, <1>6, <1>8, <3>1, <3>2, <4>1 DEF Heard
      <4> QED
        BY <3>2, <4>2 DEF Effect, MasterEffect
    <3>3. CASE v # w
      BY <1>5, <1>6, <3>1, <3>3 DEF Effect, MasterEffect, Untouched, Stays, SameSent
    <3> QED
      BY <3>2, <3>3
  <2>4. CASE reqs # <<>>
    <3>1. Dispatch(own, own, z, reqs, inst, toWorld)
      BY <2>1, <2>2, <2>4 DEF RemoveInstance
    <3>2. z \in Maps \X Clones /\ reqs \in Seq(Requests)
      BY <1>2 DEF Instance
    <3> HIDE DEF z, reqs, own
    <3>3. PICK g \in Handles : Dispatched(g, own, own, z, reqs, inst, toWorld)
      BY <1>2, <1>4, <3>1, <3>2, DispatchEffect
    <3>4. g # w
      BY <1>2, <3>3, Parts DEF Dispatched, PairStarted, own
    <3>5. CASE v = w
      <4>1. inst'[w] = inst[w] /\ world'[w] = world[w] /\ toWorld'[w] = toWorld[w]
        BY <3>3, <3>4 DEF Dispatched
      <4>2. nextHandle' = nextHandle \/ nextHandle' = nextHandle + 1
        BY <3>3 DEF Dispatched, Handed, PairStarted
      <4>3. (w < nextHandle)' <=> w < nextHandle
        <5>1. w \in Nat /\ nextHandle \in Nat
          BY Parts
        <5> QED
          BY <1>4, <4>2, <5>1
      <4>4. w \notin m_Instances'
        BY <3>3, <3>4 DEF Dispatched, own
      <4>5. HandledAs(w, "DISCONNECTED", inst[w], inst'[w])
        BY <4>1 DEF HandledAs
      <4>6. Heard(w)
        BY <1>2, <1>3, <1>5, <1>6, <1>8, <3>5, <4>1, <4>3, <4>4, <4>5 DEF Heard
      <4> QED
        BY <3>5, <4>6 DEF Effect, MasterEffect
    <3>6. CASE v # w
      <4>1. v = g => toWorld'[v] = toWorld[v] \/ g \in m_Instances
        BY <3>3 DEF Dispatched
      <4>2. v \notin own /\ toMaster'[v] = toMaster[v]
        BY <1>5, <3>6 DEF own
      <4>3. MasterEffect(v)
        BY <1>2, <1>4, <1>6, <3>2, <3>3, <4>1, <4>2, DispatchedTo
      <4> QED
        BY <4>3 DEF Effect
    <3> QED
      BY <3>5, <3>6
  <2> QED
    BY <2>3, <2>4
<1> QED
  BY <1>7, <1>8

-----------------------------------------------------------------------------
(* What the processes and the players do.                                   *)

(* Only the handle w changes, and no Instance.                              *)
LEMMA OnlyOne ==
  ASSUME Sound, NEW w \in Handles, UNCHANGED masterVars,
         \A u \in Handles \ {w} :
           /\ world'[u] = world[u] /\ toMaster'[u] = toMaster[u]
           /\ toWorld'[u] = toWorld[u] /\ PlayersIn(u)' = PlayersIn(u) /\ ghosts'[u] = ghosts[u],
         Stays(w) /\ inst'[w] = inst[w] => Effect(w),
         NEW v \in Handles
  PROVE  Effect(v)
<1>1. \A u \in Handles : Stays(u) /\ inst'[u] = inst[u]
  BY DEF masterVars, Stays
<1>2. CASE v = w
  BY <1>1, <1>2
<1>3. CASE v # w
  BY <1>1, <1>3 DEF Effect, MasterEffect, Untouched, SameSent
<1> QED
  BY <1>2, <1>3

LEMMA Linked ==
  ASSUME Sound, Together, NEW w \in Handles
  PROVE  /\ world[w].linked <=> world[w].state = "up"
         /\ world[w] \in WorldProcess /\ world \in [Handles -> WorldProcess]
         /\ toMaster \in [Handles -> Seq(ToMasterMessage)]
         /\ toWorld \in [Handles -> Seq(ToWorldMessage)]
         /\ Serving
BY Parts DEF Together, Fit, Lively, Calm, Serving

(* No other process has the port of one that starts.                        *)
LEMMA PortIsFree ==
  ASSUME Sound, Together, NEW w \in Handles, world[w].state = "starting"
  PROVE  ~PortBoundByAnother(w)
<1> SUFFICES ASSUME NEW v \in Handles \ {w}, world[v].state = "up",
                    world[v].port = world[w].port
             PROVE  FALSE
  BY DEF PortBoundByAnother
<1>1. Paired(v) /\ Paired(w)
  BY DEF Together, Fit
<1>2. v \in m_Instances /\ w \in m_Instances
  BY <1>1 DEF Paired, Exists
<1>3. inst[v].port = inst[w].port
  BY <1>1, <1>2 DEF Paired
<1> QED
  BY <1>2, <1>3 DEF Sound, DistinctPorts

LEMMA AppendOne ==
  ASSUME NEW S, NEW m \in Seq(S), NEW e \in S
  PROVE  m \o <<e>> = Append(m, e)
BY AppendIsConcat

LEMMA TwoInARow ==
  ASSUME NEW S, NEW e \in S, NEW d \in S
  PROVE  <<e>> \o <<d>> = <<e, d>>
<1> DEFINE s == <<e>> \o <<d>>
<1>1. <<e>> \in Seq(S) /\ <<d>> \in Seq(S) /\ <<e, d>> \in Seq(S)
  OBVIOUS
<1>2. s \in Seq(S) /\ Len(s) = 2 /\ s[1] = e /\ s[2] = d
  BY <1>1
<1>3. Len(<<e, d>>) = 2 /\ <<e, d>>[1] = e /\ <<e, d>>[2] = d
  OBVIOUS
<1>4. \A i \in 1..2 : i = 1 \/ i = 2
  OBVIOUS
<1> HIDE DEF s
<1>5. s = <<e, d>>
  BY <1>1, <1>2, <1>3, <1>4, SeqEqual
<1> QED
  BY <1>5 DEF s

LEMMA WorldStepEffect ==
  ASSUME Sound, Together, NothingFails, NEW w \in Handles,
         WorldProcessStep(w) \/ WorldFallsIdle(w),
         NEW v \in Handles
  PROVE  Effect(v)
<1>1. /\ world[w].linked <=> world[w].state = "up"
      /\ world[w] \in WorldProcess /\ world \in [Handles -> WorldProcess]
      /\ toMaster \in [Handles -> Seq(ToMasterMessage)]
      /\ toWorld \in [Handles -> Seq(ToWorldMessage)]
      /\ Serving
  BY Linked
<1>2. Fit(w)
  BY DEF Together
<1>3. CASE WorldStarts(w)
  <2>1. /\ world' = [world EXCEPT ![w].state = "up", ![w].linked = TRUE]
        /\ toMaster' = [toMaster EXCEPT ![w] = Append(@, Msg("SERVER_INFO"))]
        /\ world[w].state = "starting"
        /\ UNCHANGED <<masterVars, toWorld, location, ghosts>>
    BY <1>3 DEF WorldStarts, requestVars
  <2>2. \A u \in Handles \ {w} : world'[u] = world[u] /\ toMaster'[u] = toMaster[u]
    BY <1>1, <2>1
  <2>3. Stays(w) /\ inst'[w] = inst[w] => Effect(w)
    BY <1>1, <2>1, SamePlayers DEF Effect, WorldEffect, Starts
  <2> QED
    BY <2>1, <2>2, <2>3, SamePlayers, OnlyOne
<1>4. ~WorldFailsToStart(w)
  BY <1>1, PortIsFree DEF WorldFailsToStart
<1>5. ~WorldReconnects(w) /\ ~WorldMissesMaster(w)
  BY <1>1 DEF WorldReconnects, WorldMissesMaster, SignalsItself
<1>6. CASE WorldBecomesReady(w)
  <2>1. /\ world' = [world EXCEPT ![w].ready = TRUE]
        /\ toMaster' = [toMaster EXCEPT ![w] = Append(@, Msg("WORLD_READY"))]
        /\ world[w].state = "up" /\ ~world[w].ready
        /\ UNCHANGED <<masterVars, toWorld, location, ghosts>>
    BY <1>6 DEF WorldBecomesReady, requestVars
  <2>2. \A u \in Handles \ {w} : world'[u] = world[u] /\ toMaster'[u] = toMaster[u]
    BY <1>1, <2>1
  <2>3. Stays(w) /\ inst'[w] = inst[w] => Effect(w)
    BY <1>1, <2>1, SamePlayers DEF Effect, WorldEffect, BecomesReady
  <2> QED
    BY <2>1, <2>2, <2>3, SamePlayers, OnlyOne
<1>7. CASE WorldAffirms(w)
  <2> DEFINE e == AffirmResponse(Head(toWorld[w]).requestID)
  <2>1. /\ world[w].state = "up" /\ toWorld[w] # <<>>
        /\ Head(toWorld[w]).type = "AFFIRM_TRANSFER_REQUEST"
        /\ toWorld' = [toWorld EXCEPT ![w] = Tail(@)]
        /\ toMaster' = [toMaster EXCEPT ![w] = @ \o <<e>>]
        /\ UNCHANGED <<masterVars, world, location, ghosts>>
    BY <1>1, <1>7 DEF WorldAffirms, WorldReads, ToMaster, requestVars
  <2>2. e \in ToMasterMessage
    <3>1. Head(toWorld[w]) \in ToWorldMessage
      BY <1>1, <2>1
    <3> QED
      BY <3>1 DEF ToWorldMessage, ToMasterMessage, AffirmResponse
  <2> HIDE DEF e
  <2>3. \A u \in Handles \ {w} : toWorld'[u] = toWorld[u] /\ toMaster'[u] = toMaster[u]
    BY <1>1, <2>1
  <2>4. toMaster'[w] = Append(toMaster[w], e) /\ toWorld'[w] = Tail(toWorld[w])
    <3>1. toMaster'[w] = toMaster[w] \o <<e>> /\ toWorld'[w] = Tail(toWorld[w])
      BY <1>1, <2>1
    <3>2. toMaster[w] \in Seq(ToMasterMessage)
      BY <1>1
    <3> QED
      BY <2>2, <3>1, <3>2, AppendOne
  <2>5. Stays(w) /\ inst'[w] = inst[w] => Effect(w)
    BY <2>1, <2>4, SamePlayers DEF Effect, WorldEffect, Affirms, e
  <2> QED
    BY <2>1, <2>3, <2>5, SamePlayers, OnlyOne
<1>8. CASE WorldReceivesShutdown(w)
  <2>1. /\ world[w].state = "up" /\ toWorld[w] # <<>>
        /\ Head(toWorld[w]).type = "SHUTDOWN"
        /\ toWorld' = [toWorld EXCEPT ![w] = Tail(@)]
        /\ world' = [world EXCEPT ![w].signalled = TRUE]
        /\ UNCHANGED <<masterVars, toMaster, location, ghosts>>
    BY <1>8 DEF WorldReceivesShutdown, WorldReads, requestVars
  <2>2. world[w].ready
    <3>1. Mentions(toWorld[w], "SHUTDOWN")
      BY <1>1, <2>1, MentionsTail
    <3> QED
      BY <1>2, <3>1 DEF Fit, Lively
  <2>3. \A u \in Handles \ {w} : toWorld'[u] = toWorld[u] /\ world'[u] = world[u]
    BY <1>1, <2>1
  <2>4. Stays(w) /\ inst'[w] = inst[w] => Effect(w)
    BY <1>1, <2>1, <2>2, SamePlayers DEF Effect, WorldEffect, Signalled
  <2> QED
    BY <2>1, <2>3, <2>4, SamePlayers, OnlyOne
<1>9. CASE WorldFallsIdle(w)
  <2>1. /\ world[w].state = "up" /\ world[w].ready
        /\ world' = [world EXCEPT ![w].signalled = TRUE]
        /\ UNCHANGED <<masterVars, toMaster, toWorld, location, ghosts>>
    BY <1>9 DEF WorldFallsIdle, SignalsItself, requestVars
  <2>2. \A u \in Handles \ {w} : world'[u] = world[u]
    BY <1>1, <2>1
  <2>3. Stays(w) /\ inst'[w] = inst[w] => Effect(w)
    BY <1>1, <2>1, SamePlayers DEF Effect, WorldEffect, Signalled
  <2> QED
    BY <2>1, <2>2, <2>3, SamePlayers, OnlyOne
<1>10. CASE WorldExits(w)
  <2> DEFINE e == Msg("SHUTDOWN_RESPONSE")
             d == Msg("DISCONNECTED")
  <2>1. /\ world[w].state = "up" /\ world[w].signalled
        /\ world' = [world EXCEPT ![w].state = "gone", ![w].linked = FALSE]
        /\ toWorld' = [toWorld EXCEPT ![w] = <<>>]
        /\ location' = [q \in Requests |-> IF location[q] = w THEN 0 ELSE location[q]]
        /\ toMaster' = [toMaster EXCEPT ![w] = @ \o <<e, d>>]
        /\ UNCHANGED <<masterVars, ghosts>>
    BY <1>1, <1>10 DEF WorldExits, Gone, ToMaster
  <2>2. \A u \in Handles \ {w} :
          toWorld'[u] = toWorld[u] /\ world'[u] = world[u] /\ toMaster'[u] = toMaster[u]
    BY <1>1, <2>1
  <2>3. \A u \in Handles \ {w} : PlayersIn(u)' = PlayersIn(u) /\ ghosts'[u] = ghosts[u]
    <3> TAKE u \in Handles \ {w}
    <3>1. u # 0
      BY DEF Handles
    <3>2. \A q \in Requests : location'[q] = u <=> location[q] = u
      BY <2>1, <3>1
    <3> QED
      BY <2>1, <3>2 DEF PlayersIn
  <2>4. PlayersIn(w)' = {}
    <3>1. w # 0
      BY DEF Handles
    <3>2. \A q \in Requests : location'[q] # w
      BY <2>1, <3>1
    <3> QED
      BY <3>2 DEF PlayersIn
  <2>5. toMaster'[w] = Append(Append(toMaster[w], e), d)
    <3>1. toMaster'[w] = toMaster[w] \o <<e, d>> /\ toMaster[w] \in Seq(ToMasterMessage)
      BY <1>1, <2>1
    <3>2. e \in ToMasterMessage /\ d \in ToMasterMessage
      BY SentTypes
    <3> HIDE DEF e, d
    <3>3. toMaster[w] \o <<e, d>> = (toMaster[w] \o <<e>>) \o <<d>>
      <4>1. <<e, d>> = <<e>> \o <<d>>
        BY <3>2, TwoInARow
      <4>2. <<e>> \in Seq(ToMasterMessage) /\ <<d>> \in Seq(ToMasterMessage)
        BY <3>2
      <4> QED
        BY <3>1, <4>1, <4>2, ConcatAssociative
    <3>4. toMaster[w] \o <<e>> = Append(toMaster[w], e)
          /\ toMaster[w] \o <<e>> \in Seq(ToMasterMessage)
      BY <3>1, <3>2, AppendOne
    <3>5. (toMaster[w] \o <<e>>) \o <<d>> = Append(toMaster[w] \o <<e>>, d)
      BY <3>2, <3>4, AppendOne
    <3> QED
      BY <3>1, <3>3, <3>4, <3>5
  <2>6. Stays(w) /\ inst'[w] = inst[w] => Effect(w)
    BY <1>1, <2>1, <2>4, <2>5 DEF Effect, WorldEffect, Exits
  <2> QED
    BY <2>1, <2>2, <2>3, <2>6, OnlyOne
<1> QED
  BY <1>3, <1>4, <1>5, <1>6, <1>7, <1>8, <1>9, <1>10 DEF WorldProcessStep

LEMMA PlayerEffect ==
  ASSUME Sound, Together, NothingFails, PlayerStep, NEW v \in Handles
  PROVE  Effect(v)
<1>1. ASSUME NEW q \in Requests, NEW w \in Handles, NEW c \in BOOLEAN,
             PlayerJoins(q, w, c)
      PROVE  Effect(v)
  <2> DEFINE e == Msg("PLAYER_ADDED")
  <2>1. /\ status[q] = "answered" /\ world[w].state = "up" /\ world[w].linked
        /\ IF c THEN /\ location' = [location EXCEPT ![q] = w]
                     /\ ghosts' = ghosts
           ELSE /\ ghosts' = [ghosts EXCEPT ![w] = @ + 1]
                /\ location' = location
        /\ toMaster' = [toMaster EXCEPT ![w] = @ \o <<e>>]
        /\ UNCHANGED <<masterVars, world, toWorld>>
    BY <1>1 DEF PlayerJoins, ToMaster
  <2>2. /\ toMaster \in [Handles -> Seq(ToMasterMessage)]
        /\ location \in [Requests -> {0} \cup Handles]
        /\ ghosts \in [Handles -> Nat]
        /\ e \in ToMasterMessage
    BY Parts, SentTypes DEF RequestTypes
  <2> HIDE DEF e
  <2>3. location[q] = 0
    BY <2>1 DEF Together, Playing
  <2>4. \/ /\ q \notin PlayersIn(w) /\ PlayersIn(w)' = PlayersIn(w) \cup {q}
           /\ ghosts'[w] = ghosts[w]
        \/ PlayersIn(w)' = PlayersIn(w) /\ ghosts'[w] = ghosts[w] + 1
    <3>1. w # 0
      BY DEF Handles
    <3>2. CASE c
      BY <2>1, <2>2, <2>3, <3>1, <3>2 DEF PlayersIn
    <3>3. CASE ~c
      BY <2>1, <2>2, <3>3 DEF PlayersIn
    <3> QED
      BY <3>2, <3>3
  <2>5. \A u \in Handles \ {w} : PlayersIn(u)' = PlayersIn(u) /\ ghosts'[u] = ghosts[u]
    <3> TAKE u \in Handles \ {w}
    <3>1. u # 0
      BY DEF Handles
    <3>2. \A p \in Requests : location'[p] = u <=> location[p] = u
      BY <2>1, <2>2, <2>3, <3>1
    <3>3. ghosts'[u] = ghosts[u]
      BY <2>1, <2>2
    <3> QED
      BY <3>2, <3>3 DEF PlayersIn
  <2>6. \A u \in Handles \ {w} : toMaster'[u] = toMaster[u]
    BY <2>1, <2>2
  <2>7. toMaster'[w] = Append(toMaster[w], e)
    <3>1. toMaster'[w] = toMaster[w] \o <<e>> /\ toMaster[w] \in Seq(ToMasterMessage)
      BY <2>1, <2>2
    <3> QED
      BY <2>2, <3>1, AppendOne
  <2>8. Stays(w) /\ inst'[w] = inst[w] => Effect(w)
    BY <2>1, <2>4, <2>7 DEF Effect, WorldEffect, Joined, e
  <2> QED
    BY <2>1, <2>5, <2>6, <2>8, OnlyOne
<1>2. ASSUME NEW q \in Requests, NEW c \in BOOLEAN, PlayerLeaves(q, c) PROVE Effect(v)
  <2> DEFINE e == Msg("PLAYER_REMOVED")
  <2>0. location[q] \in Handles /\ location[q] # 0
    BY <1>2, Parts DEF PlayerLeaves, Together, Playing, RequestTypes
  <2>10. PICK w \in Handles : w = location[q]
    BY <2>0
  <2>1. /\ status[q] = "playing"
        /\ location' = [location EXCEPT ![q] = 0]
        /\ IF c THEN ToMaster(w, <<e>>) /\ ghosts' = ghosts
           ELSE /\ ghosts' = [ghosts EXCEPT ![w] = @ + 1]
                /\ toMaster' = toMaster
        /\ UNCHANGED <<masterVars, world, toWorld>>
    BY <1>2, <2>10 DEF PlayerLeaves
  <2>2. /\ toMaster \in [Handles -> Seq(ToMasterMessage)]
        /\ location \in [Requests -> {0} \cup Handles]
        /\ ghosts \in [Handles -> Nat]
        /\ e \in ToMasterMessage
    BY Parts DEF RequestTypes, Msg, ToMasterMessage
  <2>3. w \in Handles /\ w # 0 /\ world[w].state = "up" /\ location[q] = w
    BY <2>0, <2>10 DEF Together, Playing
  <2>4. world[w].linked
    BY <2>3, Linked
  <2>5. IF c THEN toMaster' = [toMaster EXCEPT ![w] = @ \o <<e>>]
        ELSE toMaster' = toMaster
    BY <2>1, <2>4 DEF ToMaster
  <2> HIDE DEF e
  <2>6. q \in PlayersIn(w) /\ PlayersIn(w)' = PlayersIn(w) \ {q}
    BY <2>1, <2>2, <2>3 DEF PlayersIn
  <2>7. \A u \in Handles \ {w} : PlayersIn(u)' = PlayersIn(u) /\ ghosts'[u] = ghosts[u]
    <3> TAKE u \in Handles \ {w}
    <3>1. u # 0
      BY DEF Handles
    <3>2. \A p \in Requests : location'[p] = u <=> location[p] = u
      BY <2>1, <2>2, <2>3, <3>1
    <3>3. ghosts'[u] = ghosts[u]
      BY <2>1, <2>2
    <3> QED
      BY <3>2, <3>3 DEF PlayersIn
  <2>8. \A u \in Handles \ {w} : toMaster'[u] = toMaster[u]
    BY <2>2, <2>5
  <2>9. \/ toMaster'[w] = Append(toMaster[w], e) /\ ghosts'[w] = ghosts[w]
        \/ toMaster'[w] = toMaster[w] /\ ghosts'[w] = ghosts[w] + 1
    <3>1. toMaster[w] \in Seq(ToMasterMessage) /\ toMaster[w] \o <<e>> = Append(toMaster[w], e)
      BY <2>2, <2>3, AppendOne
    <3>2. CASE c
      BY <2>1, <2>2, <2>3, <2>5, <3>1, <3>2
    <3>3. CASE ~c
      BY <2>1, <2>2, <2>3, <2>5, <3>3
    <3> QED
      BY <3>2, <3>3
  <2>11. Stays(w) /\ inst'[w] = inst[w] => Effect(w)
    BY <2>1, <2>3, <2>6, <2>9 DEF Effect, WorldEffect, Left, e
  <2> QED
    BY <2>1, <2>3, <2>7, <2>8, <2>11, OnlyOne
<1> QED
  BY <1>1, <1>2 DEF PlayerStep

(* Every step is one of these to every handle.                              *)
LEMMA NextEffect ==
  ASSUME Sound, Together, NothingFails, [Next]_vars, NEW v \in Handles
  PROVE  Effect(v)
<1>1. CASE UNCHANGED vars
  BY <1>1, NothingTouched DEF vars, masterVars, requestVars
<1>2. CASE MasterStep
  <2>1. ~ShutdownSequence /\ ~FinalizeShutdown
    BY DEF Together, Calm, ShutdownSequence, FinalizeShutdown
  <2>2. ASSUME NEW w \in Handles, HandleWorldPacket(w) PROVE Effect(v)
    BY <2>2, PacketEffect, DisconnectedEffect DEF HandleWorldPacket
  <2> QED
    BY <1>2, <2>1, <2>2, TransferEffect DEF MasterStep
<1>3. CASE TimerStep
  BY <1>3, TimeoutEffect, WorldStepEffect DEF TimerStep
<1>4. CASE CommandStep
  BY <1>4, CommandEffect
<1>5. CASE \E w \in Handles : WorldProcessStep(w)
  BY <1>5, WorldStepEffect
<1>6. CASE RequesterStep
  <2>1. UNCHANGED <<m_Instances, inst, nextHandle, world, toMaster, toWorld, location,
                 ghosts>>
    BY <1>6 DEF RequesterStep, RequestTransfer, HandleTransferResponse, masterVars
  <2> QED
    BY <2>1, NothingTouched
<1>7. CASE PlayerStep
  BY <1>7, PlayerEffect
<1>8. ~FaultStep
  BY DEF FaultStep, Together, Calm, WorldCrashes, ConnectionLost, MasterRestarts
<1> QED
  BY <1>1, <1>2, <1>3, <1>4, <1>5, <1>6, <1>7, <1>8 DEF Next

-----------------------------------------------------------------------------
(* The whole invariant is kept.                                             *)

LEMMA PlayersNext ==
  ASSUME Sound, Together, NEW w \in Handles, Effect(w)
  PROVE  /\ IsFiniteSet(PlayersIn(w))'
         /\ PlayersIn(w)' # {} => world'[w].state = "up"
         /\ world'[w].state = "none" => ghosts'[w] = 0
<1>1. /\ Fit(w) /\ IsFiniteSet(PlayersIn(w)) /\ world[w] \in WorldProcess
      /\ world[w].state = "none" => ghosts[w] = 0
  BY Parts DEF Together
<1>2. PlayersIn(w) # {} => world[w].state = "up"
  <2> SUFFICES ASSUME NEW q \in Requests, location[q] = w PROVE world[w].state = "up"
    BY DEF PlayersIn
  <2>1. w # 0
    BY DEF Handles
  <2> QED
    BY <2>1 DEF Together, Playing
<1>3. ghosts[w] = 0 /\ ghosts'[w] = ghosts[w] => ghosts'[w] = 0
  OBVIOUS
<1>4. CASE Begun(w)
  <2>1. PlayersIn(w)' = PlayersIn(w) /\ ghosts'[w] = ghosts[w] /\ w = nextHandle
    BY <1>4 DEF Begun, PairStarted
  <2>2. world[w].state = "none"
    <3>1. ~(w < nextHandle)
      BY <2>1, Parts
    <3> QED
      BY <1>1, <3>1 DEF Fit, Paired, Exists
  <2> QED
    BY <1>1, <1>2, <1>3, <2>1, <2>2
<1>5. CASE GivenMore(w) \/ Untouched(w) \/ TimedOut(w) \/ Heard(w) \/ Affirms(w)
  <2>1. PlayersIn(w)' = PlayersIn(w) /\ ghosts'[w] = ghosts[w] /\ world'[w] = world[w]
    BY <1>5 DEF GivenMore, Handed, Untouched, TimedOut, Heard, Affirms
  <2> QED
    BY <1>1, <1>2, <1>3, <2>1
<1>6. CASE Starts(w) \/ BecomesReady(w) \/ Signalled(w)
  <2>1. PlayersIn(w)' = PlayersIn(w) /\ ghosts'[w] = ghosts[w] /\ world'[w].state = "up"
    BY <1>1, <1>6 DEF Starts, BecomesReady, Signalled, WorldProcess
  <2> QED
    BY <1>1, <2>1
<1>7. CASE Exits(w)
  <2>1. PlayersIn(w)' = {} /\ world'[w].state # "none"
    BY <1>1, <1>7 DEF Exits, WorldProcess
  <2> QED
    BY <2>1, FS_EmptySet
<1>8. CASE Joined(w)
  <2>1. \/ \E q \in Requests : PlayersIn(w)' = PlayersIn(w) \cup {q}
        \/ PlayersIn(w)' = PlayersIn(w)
    BY <1>8 DEF Joined
  <2>2. world'[w].state = "up"
    BY <1>8 DEF Joined
  <2> QED
    BY <1>1, <2>1, <2>2, FS_AddElement
<1>9. CASE Left(w)
  <2>1. PICK q \in Requests : PlayersIn(w)' = PlayersIn(w) \ {q}
    BY <1>9 DEF Left
  <2>2. world'[w].state = "up"
    BY <1>9 DEF Left
  <2> QED
    BY <1>1, <2>1, <2>2, FS_RemoveElement
<1> QED
  BY <1>4, <1>5, <1>6, <1>7, <1>8, <1>9 DEF Effect, MasterEffect, WorldEffect

LEMMA PlayingNext ==
  ASSUME Sound, Together, NothingFails, [Next]_vars, RequestTypes'
  PROVE  Playing'
<1>1. \A q \in Requests : location'[q] # 0 => world'[location'[q]].state = "up"
  <2> SUFFICES ASSUME NEW q \in Requests, location'[q] # 0
               PROVE  world'[location'[q]].state = "up"
    OBVIOUS
  <2>1. location'[q] \in Handles
    BY DEF RequestTypes
  <2>2. PICK w \in Handles : w = location'[q]
    BY <2>1
  <2>3. q \in PlayersIn(w)'
    BY <2>2 DEF PlayersIn
  <2>4. Effect(w)
    BY NextEffect
  <2> QED
    BY <2>2, <2>3, <2>4, PlayersNext
<1>2. \A q \in Requests : status'[q] = "playing" <=> location'[q] # 0
  <2>0. /\ \A q \in Requests : status[q] = "playing" <=> location[q] # 0
        /\ status \in [Requests -> {"idle", "waiting", "answered", "playing", "left"}]
        /\ location \in [Requests -> {0} \cup Handles]
        /\ transfers \subseteq [req: Requests, target: Zones \cup Passwords]
        /\ responses \subseteq [req: Requests, answer: Answer]
    BY Parts DEF Together, Playing, RequestTypes
  <2>1. CASE UNCHANGED <<status, location>>
    BY <2>0, <2>1
  <2>2. ASSUME NEW q \in Requests, NEW t, RequestTransfer(q, t)
        PROVE  \A p \in Requests : status'[p] = "playing" <=> location'[p] # 0
    BY <2>0, <2>2 DEF RequestTransfer
  <2>3. ASSUME NEW m \in responses, HandleTransferResponse(m)
        PROVE  \A p \in Requests : status'[p] = "playing" <=> location'[p] # 0
    <3>1. m.req \in Requests
      BY <2>0
    <3>2. CASE status[m.req] = "waiting"
      BY <2>0, <2>3, <3>1, <3>2 DEF HandleTransferResponse
    <3>3. CASE status[m.req] # "waiting"
      BY <2>0, <2>3, <3>3 DEF HandleTransferResponse
    <3> QED
      BY <3>2, <3>3
  <2>4. ASSUME NEW q \in Requests, NEW w \in Handles, NEW c \in BOOLEAN,
               PlayerJoins(q, w, c)
        PROVE  \A p \in Requests : status'[p] = "playing" <=> location'[p] # 0
    <3>1. w # 0
      BY DEF Handles
    <3>2. CASE c
      BY <2>0, <2>4, <3>1, <3>2 DEF PlayerJoins
    <3>3. CASE ~c
      BY <2>0, <2>4, <3>3 DEF PlayerJoins
    <3> QED
      BY <3>2, <3>3
  <2>5. ASSUME NEW q \in Requests, NEW c \in BOOLEAN, PlayerLeaves(q, c)
        PROVE  \A p \in Requests : status'[p] = "playing" <=> location'[p] # 0
    BY <2>0, <2>5 DEF PlayerLeaves
  <2>6. ASSUME NEW w \in Handles, WorldExits(w)
        PROVE  \A p \in Requests : status'[p] = "playing" <=> location'[p] # 0
    <3>1. w # 0
      BY DEF Handles
    <3> QED
      BY <2>0, <2>6, <3>1 DEF WorldExits, Gone
  <2>7. CASE UNCHANGED vars
    BY <2>1, <2>7 DEF vars, requestVars
  <2>8. CASE MasterStep
    <3>1. UNCHANGED <<status, location>>
      BY <2>8 DEF MasterStep, HandleRequestZoneTransfer, HandleRequestPrivateZone,
           HandleWorldPacket, HandleServerInfo, HandleWorldReady,
           HandleAffirmTransferResponse, HandlePlayerAdded, HandlePlayerRemoved,
           HandleShutdownResponse, HandleDisconnected, Receive, ShutdownSequence,
           FinalizeShutdown, requestVars
    <3> QED
      BY <2>1, <3>1
  <2>9. CASE TimerStep \/ CommandStep
    <3>1. UNCHANGED <<status, location>>
      BY <2>9 DEF TimerStep, AffirmationTimeout, WorldFallsIdle, SignalsItself,
           CommandStep, HandlePrepZone, HandleCreatePrivateZone, OnSignal, requestVars
    <3> QED
      BY <2>1, <3>1
  <2>10. CASE \E w \in Handles : WorldProcessStep(w)
    <3>1. UNCHANGED <<status, location>> \/ \E w \in Handles : WorldExits(w)
      BY <2>10 DEF WorldProcessStep, WorldStarts, WorldFailsToStart, WorldReconnects,
           WorldBecomesReady, WorldAffirms, WorldReceivesShutdown, WorldReads,
           WorldMissesMaster, SignalsItself, requestVars
    <3> QED
      BY <2>1, <2>6, <3>1
  <2>11. ~FaultStep
    BY DEF FaultStep, Together, Calm, WorldCrashes, ConnectionLost, MasterRestarts
  <2> QED
    BY <2>2, <2>3, <2>4, <2>5, <2>7, <2>8, <2>9, <2>10, <2>11
       DEF Next, RequesterStep, PlayerStep
<1> QED
  BY <1>1, <1>2 DEF Playing

LEMMA CalmNext ==
  ASSUME Sound, Together, NothingFails, [Next]_vars
  PROVE  Calm'
<1>1. bounds \in Bounds /\ Calm
  BY Parts DEF Together, ProcessTypes
<1>2. master' = master
  BY <1>1 DEF Calm, NothingFails, Next, vars, MasterStep, HandleRequestZoneTransfer,
     HandleRequestPrivateZone, HandleWorldPacket, HandleServerInfo, HandleWorldReady,
     HandleAffirmTransferResponse, HandlePlayerAdded, HandlePlayerRemoved,
     HandleShutdownResponse, HandleDisconnected, Receive, ShutdownSequence,
     FinalizeShutdown, TimerStep, AffirmationTimeout, WorldFallsIdle, SignalsItself,
     CommandStep, HandlePrepZone, HandleCreatePrivateZone, OnSignal,
     WorldProcessStep, WorldStarts, WorldFailsToStart, WorldReconnects,
     WorldBecomesReady, WorldAffirms, WorldReceivesShutdown, WorldReads,
     WorldMissesMaster, WorldExits, RequesterStep, RequestTransfer,
     HandleTransferResponse, PlayerStep, PlayerJoins, PlayerLeaves, FaultStep,
     WorldCrashes, ConnectionLost, MasterRestarts
<1>3. ~FaultStep
  BY <1>1 DEF FaultStep, Calm, WorldCrashes, ConnectionLost, MasterRestarts
<1>4. \/ bounds' = bounds
      \/ bounds' = [bounds EXCEPT !.timeouts = @ - 1]
      \/ bounds' = [bounds EXCEPT !.idle = @ - 1]
      \/ bounds' = [bounds EXCEPT !.commands = @ - 1]
  BY <1>3 DEF Next, vars, MasterStep, HandleRequestZoneTransfer,
     HandleRequestPrivateZone, HandleWorldPacket, HandleServerInfo, HandleWorldReady,
     HandleAffirmTransferResponse, HandlePlayerAdded, HandlePlayerRemoved,
     HandleShutdownResponse, HandleDisconnected, Receive, ShutdownSequence,
     FinalizeShutdown, TimerStep, AffirmationTimeout, WorldFallsIdle,
     CommandStep, HandlePrepZone, HandleCreatePrivateZone, OnSignal,
     WorldProcessStep, WorldStarts, WorldFailsToStart, WorldReconnects,
     WorldBecomesReady, WorldAffirms, WorldReceivesShutdown, WorldReads,
     WorldMissesMaster, WorldExits, RequesterStep, RequestTransfer,
     HandleTransferResponse, PlayerStep, PlayerJoins, PlayerLeaves
<1>5. /\ bounds'.crashes = bounds.crashes /\ bounds'.losses = bounds.losses
      /\ bounds'.restarts = bounds.restarts
  BY <1>1, <1>4 DEF Bounds
<1> QED
  BY <1>1, <1>2, <1>5 DEF Calm

LEMMA TogetherNext ==
  ASSUME Sound, Together, NothingFails, [Next]_vars, RequestTypes'
  PROVE  Together'
<1>1. ASSUME NEW w \in Handles
      PROVE  /\ Fit(w)' /\ IsFiniteSet(PlayersIn(w))'
             /\ world'[w].state = "none" => ghosts'[w] = 0
  BY NextEffect, FitNext, PlayersNext DEF Together
<1> QED
  BY <1>1, PlayingNext, CalmNext DEF Together

LEMMA TogetherInit ==
  ASSUME Init, NothingFails
  PROVE  Together
<1>1. ASSUME NEW w \in Handles PROVE Fit(w) /\ PlayersIn(w) = {}
  <2>1. w \in Nat /\ w # 0 /\ ~(w < nextHandle)
    BY DEF Init, Handles
  <2>2. PlayersIn(w) = {}
    BY <2>1 DEF Init, PlayersIn
  <2>3. /\ world[w].state = "none" /\ ~world[w].linked /\ ~world[w].ready
        /\ ~world[w].signalled
        /\ toMaster[w] = <<>> /\ toWorld[w] = <<>>
        /\ w \notin m_Instances /\ ~inst[w].ready
    BY DEF Init, NoWorld, StartedWorld, NoMessages, Blank, NewInstance
  <2>4. Paired(w)
    BY <2>1, <2>3 DEF Paired, Exists
  <2>5. Lively(world[w], toMaster[w], toWorld[w])
    BY <2>3, MentionsNone DEF Lively
  <2>6. Ordered(toMaster[w], world[w])
    BY <2>3 DEF Ordered
  <2> QED
    BY <2>2, <2>3, <2>4, <2>5, <2>6 DEF Fit
<1>2. Calm
  BY DEF Init, NothingFails, Calm
<1>3. Playing
  BY DEF Init, Playing
<1>4. \A w \in Handles : IsFiniteSet(PlayersIn(w))
  BY <1>1, FS_EmptySet
<1>5. \A w \in Handles : ghosts[w] = 0
  BY DEF Init
<1> QED
  BY <1>1, <1>2, <1>3, <1>4, <1>5 DEF Together

(* The facts of the master that hold whatever happens, all together.        *)
LEMMA SoundAlways ==
  ASSUME NothingFails
  PROVE  Spec => []Sound
<1>1. MaxMasterRestarts = 0 /\ MaxInstances <= InvalidInstanceId
  BY DEF NothingFails
<1>2. Spec => []InstanceKeysUnique
  BY <1>1, KeysCorrect
<1>3. Init => PortsOnGrid /\ DistinctPorts
  <2> SUFFICES ASSUME Init PROVE PortsOnGrid /\ DistinctPorts
    OBVIOUS
  <2>1. \A w \in Handles : ~Started(w)
    BY DEF Init, Started, NoWorld, StartedWorld, NoMessages
  <2> QED
    BY <2>1 DEF Init, PortsOnGrid, DistinctPorts
<1>4. TypeOK /\ (PortsOnGrid /\ DistinctPorts) /\ [Next]_vars =>
        (PortsOnGrid /\ DistinctPorts)'
  BY PortsNext
<1>5. TypeOK /\ PendingMatchesReadiness /\ DistinctPorts /\ PortsOnGrid
        /\ InstanceKeysUnique => Sound
  BY DEF Sound
<1> QED
  BY <1>2, <1>3, <1>4, <1>5, TypeCorrect, PendingCorrect, PTL DEF Spec

LEMMA TogetherAlways ==
  ASSUME NothingFails
  PROVE  Spec => []Together
<1>1. Init => Together
  BY TogetherInit
<1>2. Sound /\ Sound' /\ Together /\ [Next]_vars => Together'
  <2>1. Sound' => RequestTypes'
    BY DEF Sound, TypeOK
  <2> QED
    BY <2>1, TogetherNext
<1>3. Spec => []Sound
  BY SoundAlways
<1> QED
  BY <1>1, <1>2, <1>3, PTL DEF Spec

-----------------------------------------------------------------------------
(* Affirmations and players.                                                *)

One(e, X) == IF e \in X THEN 1 ELSE 0

LEMMA CountTail ==
  ASSUME NEW S, NEW m \in Seq(S), m # <<>>, NEW X
  PROVE  /\ Occurrences(m, X) = Occurrences(Tail(m), X) + One(Head(m), X)
         /\ Occurrences(m, X) \in Nat /\ Occurrences(Tail(m), X) \in Nat
         /\ One(Head(m), X) \in {0, 1}
<1>1. Tail(m) \in Seq(S)
  BY HeadTailProperties
<1>2. Occurrences(m, X) \in Nat /\ Occurrences(Tail(m), X) \in Nat
  BY <1>1, OccurrencesType
<1> QED
  BY <1>2, OccurrencesTail DEF One

LEMMA CountAppend ==
  ASSUME NEW S, NEW m \in Seq(S), NEW e \in S, NEW X
  PROVE  /\ Occurrences(Append(m, e), X) = Occurrences(m, X) + One(e, X)
         /\ Occurrences(m, X) \in Nat
         /\ One(e, X) \in {0, 1}
BY OccurrencesAppend, OccurrencesType DEF One

LEMMA CountConcat ==
  ASSUME NEW S, NEW m \in Seq(S), NEW n \in Seq(S), NEW X
  PROVE  /\ Occurrences(m \o n, X) = Occurrences(m, X) + Occurrences(n, X)
         /\ Occurrences(m, X) \in Nat /\ Occurrences(n, X) \in Nat
BY OccurrencesConcat, OccurrencesType

LEMMA HandledSum ==
  ASSUME NEW n \in Nat, NEW r \in Nat, NEW s \in Nat, NEW a \in Nat, NEW b \in Nat,
         NEW c \in Nat, NEW d \in Nat, NEW x \in Nat, NEW y \in Nat,
         r = s + x, a = b + y, d + x = c + y
  PROVE  /\ n + r = c + a => n + s = d + b
         /\ r <= c + a => s <= d + b
OBVIOUS

LEMMA SentSum ==
  ASSUME NEW n \in Nat, NEW o \in Nat, NEW r \in Nat, NEW s \in Nat, NEW a \in Nat,
         NEW b \in Nat, NEW c \in Nat, NEW x \in Nat, NEW y \in Nat,
         s = r + x, b = a + y, o + x = n + y
  PROVE  n + r = c + a => o + s = c + b /\ s <= c + b
OBVIOUS

(* The first message is handled, which takes it into account.               *)
LEMMA BalancedTail ==
  ASSUME NEW m \in Seq(ToMasterMessage), m # <<>>, NEW n \in Nat,
         NEW i, NEW j, i.clients \in Nat, j.clients \in Nat,
         j.clients + One(Head(m), Removed) = i.clients + One(Head(m), Added),
         Balanced(i, m, n)
  PROVE  Balanced(j, Tail(m), n)
<1>1. /\ Tail(m) \in Seq(ToMasterMessage) /\ Len(Tail(m)) = Len(m) - 1
      /\ Len(m) \in Nat
  BY HeadTailProperties, LenProperties
<1>2. /\ Occurrences(m, Added) = Occurrences(Tail(m), Added) + One(Head(m), Added)
      /\ Occurrences(m, Removed) = Occurrences(Tail(m), Removed) + One(Head(m), Removed)
      /\ Occurrences(Tail(m), Added) \in Nat /\ Occurrences(Tail(m), Removed) \in Nat
      /\ One(Head(m), Added) \in {0, 1} /\ One(Head(m), Removed) \in {0, 1}
  BY CountTail
<1>3. /\ n + Occurrences(m, Removed) = i.clients + Occurrences(m, Added)
      /\ \A k \in 0..Len(m) :
           Occurrences(SubSeq(m, 1, k), Removed)
             <= i.clients + Occurrences(SubSeq(m, 1, k), Added)
  BY DEF Balanced
<1>4. n + Occurrences(Tail(m), Removed) = j.clients + Occurrences(Tail(m), Added)
  <2>1. Occurrences(m, Added) \in Nat /\ Occurrences(m, Removed) \in Nat
    BY CountTail
  <2>2. One(Head(m), Added) \in Nat /\ One(Head(m), Removed) \in Nat
    BY <1>2
  <2>3. n + Occurrences(m, Removed) = i.clients + Occurrences(m, Added) =>
          n + Occurrences(Tail(m), Removed) = j.clients + Occurrences(Tail(m), Added)
    <3> DEFINE r == Occurrences(m, Removed)
               a == Occurrences(m, Added)
               s == Occurrences(Tail(m), Removed)
               b == Occurrences(Tail(m), Added)
               x == One(Head(m), Removed)
               y == One(Head(m), Added)
               c == i.clients
               d == j.clients
    <3>1. /\ r \in Nat /\ a \in Nat /\ s \in Nat /\ b \in Nat /\ x \in Nat /\ y \in Nat
          /\ c \in Nat /\ d \in Nat /\ r = s + x /\ a = b + y /\ d + x = c + y
      BY <2>1, <2>2, <1>2
    <3> HIDE DEF r, a, s, b, x, y, c, d
    <3>2. n + r = c + a => n + s = d + b
      BY <3>1, HandledSum
    <3> QED
      BY <3>2 DEF r, a, s, b, c, d
  <2> QED
    BY <2>3, <1>3
<1>5. ASSUME NEW k \in 0..Len(Tail(m))
      PROVE  Occurrences(SubSeq(Tail(m), 1, k), Removed)
               <= j.clients + Occurrences(SubSeq(Tail(m), 1, k), Added)
  <2> DEFINE p == SubSeq(m, 1, k + 1)
  <2>1. k \in 0..(Len(m) - 1) /\ k + 1 \in 0..Len(m)
    BY <1>1
  <2>2. /\ p \in Seq(ToMasterMessage) /\ p # <<>> /\ Head(p) = Head(m)
        /\ Tail(p) = SubSeq(Tail(m), 1, k)
    BY <2>1, PrefixTail
  <2>3. Occurrences(p, Removed) <= i.clients + Occurrences(p, Added)
    BY <1>3, <2>1
  <2> HIDE DEF p
  <2>4. /\ Occurrences(p, Added) = Occurrences(Tail(p), Added) + One(Head(p), Added)
        /\ Occurrences(p, Removed) = Occurrences(Tail(p), Removed) + One(Head(p), Removed)
        /\ Occurrences(Tail(p), Added) \in Nat /\ Occurrences(Tail(p), Removed) \in Nat
        /\ Occurrences(p, Added) \in Nat /\ Occurrences(p, Removed) \in Nat
    BY <2>2, CountTail
  <2>5. One(Head(p), Added) \in Nat /\ One(Head(p), Removed) \in Nat
        /\ j.clients + One(Head(p), Removed) = i.clients + One(Head(p), Added)
    BY <1>2, <2>2
  <2>6. Occurrences(Tail(p), Removed) <= j.clients + Occurrences(Tail(p), Added)
    <3> DEFINE r == Occurrences(p, Removed)
               a == Occurrences(p, Added)
               s == Occurrences(Tail(p), Removed)
               b == Occurrences(Tail(p), Added)
               x == One(Head(p), Removed)
               y == One(Head(p), Added)
               c == i.clients
               d == j.clients
    <3>1. /\ r \in Nat /\ a \in Nat /\ s \in Nat /\ b \in Nat /\ x \in Nat /\ y \in Nat
          /\ c \in Nat /\ d \in Nat /\ r = s + x /\ a = b + y /\ d + x = c + y
          /\ r <= c + a
      BY <2>3, <2>4, <2>5
    <3> HIDE DEF r, a, s, b, x, y, c, d
    <3>2. s <= d + b
      BY <3>1, HandledSum
    <3> QED
      BY <3>2 DEF s, b, d
  <2> QED
    BY <2>2, <2>6
<1> QED
  BY <1>4, <1>5 DEF Balanced

(* A message is sent when n, the players, becomes o.                        *)
LEMMA BalancedAppend ==
  ASSUME NEW m \in Seq(ToMasterMessage), NEW e \in ToMasterMessage,
         NEW n \in Nat, NEW o \in Nat, NEW i, i.clients \in Nat,
         o + One(e, Removed) = n + One(e, Added),
         Balanced(i, m, n)
  PROVE  Balanced(i, Append(m, e), o)
<1> DEFINE a == Append(m, e)
<1>1. /\ a \in Seq(ToMasterMessage) /\ Len(a) = Len(m) + 1 /\ Len(m) \in Nat
  BY AppendProperties, LenProperties
<1>2. /\ Occurrences(a, Added) = Occurrences(m, Added) + One(e, Added)
      /\ Occurrences(a, Removed) = Occurrences(m, Removed) + One(e, Removed)
      /\ Occurrences(m, Added) \in Nat /\ Occurrences(m, Removed) \in Nat
      /\ One(e, Added) \in {0, 1} /\ One(e, Removed) \in {0, 1}
  BY CountAppend
<1>3. /\ n + Occurrences(m, Removed) = i.clients + Occurrences(m, Added)
      /\ \A k \in 0..Len(m) :
           Occurrences(SubSeq(m, 1, k), Removed)
             <= i.clients + Occurrences(SubSeq(m, 1, k), Added)
  BY DEF Balanced
<1>4. \A k \in 0..Len(m) : SubSeq(a, 1, k) = SubSeq(m, 1, k)
  BY PrefixAppend
<1>5. SubSeq(a, 1, Len(a)) = a
  BY <1>1, SubSeqFull
<1> HIDE DEF a
<1>6. /\ o + Occurrences(a, Removed) = i.clients + Occurrences(a, Added)
      /\ Occurrences(a, Removed) <= i.clients + Occurrences(a, Added)
  <2>1. Occurrences(a, Added) \in Nat /\ Occurrences(a, Removed) \in Nat
    BY <1>1, OccurrencesType
  <2>2. One(e, Added) \in Nat /\ One(e, Removed) \in Nat
    BY <1>2
  <2>3. n + Occurrences(m, Removed) = i.clients + Occurrences(m, Added) =>
          /\ o + Occurrences(a, Removed) = i.clients + Occurrences(a, Added)
          /\ Occurrences(a, Removed) <= i.clients + Occurrences(a, Added)
    <3> DEFINE r == Occurrences(m, Removed)
               b == Occurrences(m, Added)
               s == Occurrences(a, Removed)
               t == Occurrences(a, Added)
               x == One(e, Removed)
               y == One(e, Added)
               c == i.clients
    <3>1. /\ r \in Nat /\ b \in Nat /\ s \in Nat /\ t \in Nat /\ x \in Nat /\ y \in Nat
          /\ c \in Nat /\ s = r + x /\ t = b + y
      BY <2>1, <2>2, <1>2
    <3>2. o + x = n + y
      OBVIOUS
    <3> HIDE DEF r, b, s, t, x, y, c
    <3>3. n + r = c + b => o + s = c + t /\ s <= c + t
      BY <3>1, <3>2, SentSum
    <3> QED
      BY <3>3 DEF r, b, s, t, c
  <2> QED
    BY <2>3, <1>3
<1>7. ASSUME NEW k \in 0..Len(a)
      PROVE  Occurrences(SubSeq(a, 1, k), Removed)
               <= i.clients + Occurrences(SubSeq(a, 1, k), Added)
  <2>1. k \in 0..Len(m) \/ k = Len(a)
    BY <1>1
  <2>2. CASE k \in 0..Len(m)
    BY <1>3, <1>4, <2>2
  <2>3. CASE k = Len(a)
    BY <1>5, <1>6, <2>3
  <2> QED
    BY <2>1, <2>2, <2>3
<1> QED
  BY <1>6, <1>7 DEF Balanced, a

-----------------------------------------------------------------------------
(* The affirmations that are asked for and given.                           *)

(* A message of another kind does not count.                                *)
LEMMA NoAffirmation ==
  ASSUME NEW e, NEW id
  PROVE  /\ e.type # "AFFIRM_TRANSFER_RESPONSE" => One(e, {AffirmResponse(id)}) = 0
         /\ e.type # "AFFIRM_TRANSFER_REQUEST" => One(e, {AffirmRequest(id)}) = 0
BY DEF One, AffirmResponse, AffirmRequest

LEMMA AskedAgain ==
  ASSUME NEW reqs \in Seq(Requests), NEW id
  PROVE  Occurrences(AffirmRequests(reqs), {AffirmRequest(id)})
           = Occurrences(reqs, Numbered(id))
<1> DEFINE a == AffirmRequests(reqs)
           X == {AffirmRequest(id)}
<1>1. /\ DOMAIN a = DOMAIN reqs
      /\ \A i \in DOMAIN reqs : a[i] = AffirmRequest(reqs[i][2])
  BY DEF AffirmRequests
<1>2. \A i \in DOMAIN reqs : reqs[i] \in Requests
  BY ElementOfSeq, LenProperties
<1> HIDE DEF a
<1>3. \A i \in DOMAIN reqs : a[i] \in X <=> reqs[i][2] = id
  BY <1>1 DEF AffirmRequest
<1>4. \A i \in DOMAIN reqs : reqs[i] \in Numbered(id) <=> reqs[i][2] = id
  BY <1>2 DEF Numbered
<1> HIDE DEF X
<1>5. Spots(a, X) = Spots(reqs, Numbered(id))
  BY <1>1, <1>3, <1>4 DEF Spots
<1> QED
  BY <1>5 DEF Occurrences, a, X

LEMMA AwaitedGiven ==
  ASSUME NEW i, NEW j, NEW m, NEW c \in Seq(ToWorldMessage),
         NEW reqs \in Seq(Requests), i.pendingAffirmations \in Seq(Requests),
         j.pendingAffirmations = i.pendingAffirmations \o reqs,
         m \in Seq(ToMasterMessage), Awaited(i, m, c)
  PROVE  Awaited(j, m, c \o AffirmRequests(reqs))
<1> SUFFICES ASSUME NEW id \in 1..MaxRequestId
             PROVE  Occurrences(j.pendingAffirmations, Numbered(id))
                      = Occurrences(c \o AffirmRequests(reqs), {AffirmRequest(id)})
                        + Occurrences(m, {AffirmResponse(id)})
  BY DEF Awaited
<1>1. AffirmRequests(reqs) \in Seq(ToWorldMessage)
  BY AffirmRequestsType
<1> DEFINE p == Occurrences(i.pendingAffirmations, Numbered(id))
           n == Occurrences(reqs, Numbered(id))
           o == Occurrences(c, {AffirmRequest(id)})
           r == Occurrences(m, {AffirmResponse(id)})
<1>2. /\ Occurrences(i.pendingAffirmations \o reqs, Numbered(id)) = p + n
      /\ p \in Nat /\ n \in Nat
  BY CountConcat
<1>3. /\ Occurrences(c \o AffirmRequests(reqs), {AffirmRequest(id)})
           = o + Occurrences(AffirmRequests(reqs), {AffirmRequest(id)})
      /\ o \in Nat
  BY <1>1, CountConcat
<1>4. Occurrences(AffirmRequests(reqs), {AffirmRequest(id)}) = n
  BY AskedAgain
<1>5. p = o + r /\ r \in Nat
  BY OccurrencesType DEF Awaited
<1> HIDE DEF p, n, o, r
<1>6. p + n = (o + n) + r
  BY <1>2, <1>3, <1>5
<1> QED
  BY <1>2, <1>3, <1>4, <1>6 DEF r

(* The process says something else, or something else of it is heard.       *)
LEMMA AwaitedSpeaks ==
  ASSUME NEW i, NEW m \in Seq(ToMasterMessage), NEW c, NEW e \in ToMasterMessage,
         e.type # "AFFIRM_TRANSFER_RESPONSE", Awaited(i, m, c)
  PROVE  Awaited(i, Append(m, e), c)
<1>1. ASSUME NEW id \in 1..MaxRequestId
      PROVE  Occurrences(Append(m, e), {AffirmResponse(id)})
               = Occurrences(m, {AffirmResponse(id)})
  <2>1. /\ Occurrences(Append(m, e), {AffirmResponse(id)})
             = Occurrences(m, {AffirmResponse(id)}) + One(e, {AffirmResponse(id)})
        /\ Occurrences(m, {AffirmResponse(id)}) \in Nat
    BY CountAppend
  <2>2. One(e, {AffirmResponse(id)}) = 0
    BY NoAffirmation
  <2> QED
    BY <2>1, <2>2
<1> QED
  BY <1>1 DEF Awaited

LEMMA AwaitedHeard ==
  ASSUME NEW i, NEW j, NEW m \in Seq(ToMasterMessage), NEW c, m # <<>>,
         Head(m).type # "AFFIRM_TRANSFER_RESPONSE",
         j.pendingAffirmations = i.pendingAffirmations, Awaited(i, m, c)
  PROVE  Awaited(j, Tail(m), c)
<1>1. ASSUME NEW id \in 1..MaxRequestId
      PROVE  Occurrences(m, {AffirmResponse(id)})
               = Occurrences(Tail(m), {AffirmResponse(id)})
  <2>1. /\ Occurrences(m, {AffirmResponse(id)})
             = Occurrences(Tail(m), {AffirmResponse(id)})
               + One(Head(m), {AffirmResponse(id)})
        /\ Occurrences(Tail(m), {AffirmResponse(id)}) \in Nat
    BY CountTail
  <2>2. One(Head(m), {AffirmResponse(id)}) = 0
    BY NoAffirmation
  <2> QED
    BY <2>1, <2>2
<1> QED
  BY <1>1 DEF Awaited

(* The process is told to shut down, or hears it.                           *)
LEMMA AwaitedTold ==
  ASSUME NEW i, NEW j, NEW m, NEW c \in Seq(ToWorldMessage), NEW e \in ToWorldMessage,
         e.type # "AFFIRM_TRANSFER_REQUEST",
         j.pendingAffirmations = i.pendingAffirmations, Awaited(i, m, c)
  PROVE  Awaited(j, m, Append(c, e))
<1>1. ASSUME NEW id \in 1..MaxRequestId
      PROVE  Occurrences(Append(c, e), {AffirmRequest(id)})
               = Occurrences(c, {AffirmRequest(id)})
  <2>1. /\ Occurrences(Append(c, e), {AffirmRequest(id)})
             = Occurrences(c, {AffirmRequest(id)}) + One(e, {AffirmRequest(id)})
        /\ Occurrences(c, {AffirmRequest(id)}) \in Nat
    BY CountAppend
  <2>2. One(e, {AffirmRequest(id)}) = 0
    BY NoAffirmation
  <2> QED
    BY <2>1, <2>2
<1> QED
  BY <1>1 DEF Awaited

LEMMA AwaitedHears ==
  ASSUME NEW i, NEW m, NEW c \in Seq(ToWorldMessage), c # <<>>,
         Head(c).type # "AFFIRM_TRANSFER_REQUEST", Awaited(i, m, c)
  PROVE  Awaited(i, m, Tail(c))
<1>1. ASSUME NEW id \in 1..MaxRequestId
      PROVE  Occurrences(c, {AffirmRequest(id)})
               = Occurrences(Tail(c), {AffirmRequest(id)})
  <2>1. /\ Occurrences(c, {AffirmRequest(id)})
             = Occurrences(Tail(c), {AffirmRequest(id)})
               + One(Head(c), {AffirmRequest(id)})
        /\ Occurrences(Tail(c), {AffirmRequest(id)}) \in Nat
    BY CountTail
  <2>2. One(Head(c), {AffirmRequest(id)}) = 0
    BY NoAffirmation
  <2> QED
    BY <2>1, <2>2
<1> QED
  BY <1>1 DEF Awaited

LEMMA AwaitedAffirms ==
  ASSUME NEW i, NEW m \in Seq(ToMasterMessage), NEW c \in Seq(ToWorldMessage),
         c # <<>>, Head(c).type = "AFFIRM_TRANSFER_REQUEST", Awaited(i, m, c)
  PROVE  Awaited(i, Append(m, AffirmResponse(Head(c).requestID)), Tail(c))
<1> DEFINE e == AffirmResponse(Head(c).requestID)
<1>1. Head(c) \in ToWorldMessage /\ e \in ToMasterMessage
      /\ Head(c) = AffirmRequest(Head(c).requestID)
  <2>1. Head(c) \in ToWorldMessage
    BY HeadTailProperties
  <2> QED
    BY <2>1 DEF ToWorldMessage, ToMasterMessage, AffirmRequest, AffirmResponse
<1>2. ASSUME NEW id \in 1..MaxRequestId
      PROVE  Occurrences(c, {AffirmRequest(id)}) + Occurrences(m, {AffirmResponse(id)})
               = Occurrences(Tail(c), {AffirmRequest(id)})
                 + Occurrences(Append(m, e), {AffirmResponse(id)})
  <2>1. /\ Occurrences(c, {AffirmRequest(id)})
             = Occurrences(Tail(c), {AffirmRequest(id)})
               + One(Head(c), {AffirmRequest(id)})
        /\ Occurrences(Tail(c), {AffirmRequest(id)}) \in Nat
        /\ One(Head(c), {AffirmRequest(id)}) \in {0, 1}
    BY CountTail
  <2>2. /\ Occurrences(Append(m, e), {AffirmResponse(id)})
             = Occurrences(m, {AffirmResponse(id)}) + One(e, {AffirmResponse(id)})
        /\ Occurrences(m, {AffirmResponse(id)}) \in Nat
    BY <1>1, CountAppend
  <2>3. One(e, {AffirmResponse(id)}) = One(Head(c), {AffirmRequest(id)})
    BY <1>1 DEF One, AffirmRequest, AffirmResponse
  <2> QED
    BY <2>1, <2>2, <2>3
<1> QED
  BY <1>2 DEF Awaited

(* A response is matched with the first request of its number, and there is *)
(* one.                                                                     *)
LEMMA AwaitedAnswered ==
  ASSUME NEW i, NEW j, NEW m \in Seq(ToMasterMessage), NEW c \in Seq(ToWorldMessage),
         m # <<>>, Head(m).type = "AFFIRM_TRANSFER_RESPONSE",
         i.pendingAffirmations \in Seq(Requests),
         NEW matches,
         matches = {k \in DOMAIN i.pendingAffirmations :
                      i.pendingAffirmations[k][2] = Head(m).requestID},
         j.pendingAffirmations =
           IF matches = {} THEN i.pendingAffirmations
           ELSE RemoveAt(i.pendingAffirmations, Min(matches)),
         Awaited(i, m, c)
  PROVE  Awaited(j, Tail(m), c)
<1> DEFINE p == i.pendingAffirmations
           id == Head(m).requestID
<1>1. /\ Head(m) \in ToMasterMessage /\ Head(m) = AffirmResponse(id) /\ id \in Nat
  <2>1. Head(m) \in ToMasterMessage
    BY HeadTailProperties
  <2> QED
    BY <2>1 DEF ToMasterMessage, AffirmResponse
<1>2. p \in Seq(Requests) /\ DOMAIN p = 1..Len(p) /\ Len(p) \in Nat
      /\ \A k \in 1..Len(p) : p[k] \in Requests
  BY LenProperties, ElementOfSeq
<1>3. matches \subseteq 1..Len(p)
  BY <1>2
<1>4. ASSUME matches # {}
      PROVE  Min(matches) \in 1..Len(p) /\ p[Min(matches)][2] = id
  <2>1. matches \subseteq Nat
    BY <1>2, <1>3
  <2>2. Min(matches) \in matches
    BY <1>4, <2>1, MinOfNats
  <2> QED
    BY <1>2, <2>2
<1> SUFFICES ASSUME NEW n \in 1..MaxRequestId
             PROVE  Occurrences(j.pendingAffirmations, Numbered(n))
                      = Occurrences(c, {AffirmRequest(n)})
                        + Occurrences(Tail(m), {AffirmResponse(n)})
  BY DEF Awaited
<1> DEFINE o == Occurrences(c, {AffirmRequest(n)})
           r == Occurrences(m, {AffirmResponse(n)})
           s == Occurrences(Tail(m), {AffirmResponse(n)})
           a == Occurrences(p, Numbered(n))
<1>5. /\ r = s + One(Head(m), {AffirmResponse(n)}) /\ r \in Nat /\ s \in Nat
  BY CountTail
<1>6. One(Head(m), {AffirmResponse(n)}) = IF n = id THEN 1 ELSE 0
  BY <1>1 DEF One, AffirmResponse
<1>7. a = o + r
  BY DEF Awaited
<1>8. o \in Nat /\ a \in Nat
  BY <1>2, OccurrencesType
<1>9. a # 0 <=> \E k \in 1..Len(p) : p[k] \in Numbered(n)
  BY <1>2, OccurrencesType
<1>10. \A k \in 1..Len(p) : p[k] \in Numbered(n) <=> p[k][2] = n
  BY <1>2 DEF Numbered
<1> HIDE DEF o, r, s, a
<1>11. n = id => matches # {}
  <2>1. n = id => a # 0
    BY <1>5, <1>6, <1>7, <1>8
  <2> QED
    BY <1>2, <1>9, <1>10, <2>1
<1>12. ASSUME matches # {}
       PROVE  a = Occurrences(RemoveAt(p, Min(matches)), Numbered(n))
                    + IF n = id THEN 1 ELSE 0
  <2>1. a = Occurrences(RemoveAt(p, Min(matches)), Numbered(n))
              + IF p[Min(matches)] \in Numbered(n) THEN 1 ELSE 0
    BY <1>2, <1>4, <1>12, OccurrencesRemoveAt DEF a
  <2>2. p[Min(matches)] \in Numbered(n) <=> n = id
    BY <1>4, <1>10, <1>12
  <2> QED
    BY <2>1, <2>2
<1>13. ASSUME matches # {}
       PROVE  Occurrences(RemoveAt(p, Min(matches)), Numbered(n)) \in Nat
  <2>1. RemoveAt(p, Min(matches)) \in Seq(Requests)
    BY <1>2, <1>4, <1>13, RemoveAtProperties
  <2> QED
    BY <2>1, OccurrencesType
<1>14. CASE matches = {}
  <2>1. n # id /\ j.pendingAffirmations = p
    BY <1>11, <1>14
  <2>2. a = o + s
    BY <1>5, <1>6, <1>7, <2>1
  <2> QED
    BY <2>1, <2>2 DEF a, o, s
<1>15. CASE matches # {}
  <2> DEFINE b == Occurrences(RemoveAt(p, Min(matches)), Numbered(n))
  <2>1. /\ a = b + IF n = id THEN 1 ELSE 0
        /\ b \in Nat
    BY <1>12, <1>13, <1>15
  <2>2. j.pendingAffirmations = RemoveAt(p, Min(matches))
    BY <1>15
  <2> HIDE DEF b
  <2>3. b = o + s
    <3>1. CASE n = id
      BY <1>5, <1>6, <1>7, <1>8, <2>1, <3>1
    <3>2. CASE n # id
      BY <1>5, <1>6, <1>7, <1>8, <2>1, <3>2
    <3> QED
      BY <3>1, <3>2
  <2> QED
    BY <2>2, <2>3 DEF b, o, s
<1> QED
  BY <1>14, <1>15

-----------------------------------------------------------------------------
(* The clients that are counted.                                            *)

LEMMA NoPlayer ==
  ASSUME NEW e \in ToMasterMessage
  PROVE  /\ One(e, Added) = IF e.type = "PLAYER_ADDED" THEN 1 ELSE 0
         /\ One(e, Removed) = IF e.type = "PLAYER_REMOVED" THEN 1 ELSE 0
BY DEF One, Added, Removed

LEMMA BalancedHeard ==
  ASSUME NEW i, NEW j, NEW m \in Seq(ToMasterMessage), m # <<>>, NEW n \in Nat,
         i.clients \in Nat,
         j.clients = IF Head(m).type = "PLAYER_ADDED" THEN i.clients + 1
                     ELSE IF Head(m).type = "PLAYER_REMOVED"
                     THEN IF i.clients = 0 THEN 0 ELSE i.clients - 1
                     ELSE i.clients,
         Balanced(i, m, n)
  PROVE  Balanced(j, Tail(m), n)
<1> DEFINE e == Head(m)
<1>1. e \in ToMasterMessage
  BY HeadTailProperties
<1>2. ASSUME e.type = "PLAYER_REMOVED"
      PROVE  i.clients # 0
  <2>1. 1 \in 0..Len(m)
    BY LenProperties, EmptySeq
  <2>2. SubSeq(m, 1, 1) = <<e>>
    <3>1. SubSeq(m, 1, 1) \in Seq(ToMasterMessage) /\ Len(SubSeq(m, 1, 1)) = 1
          /\ SubSeq(m, 1, 1)[1] = m[1]
      BY <2>1, PrefixFacts
    <3>2. e = m[1]
      BY HeadTailProperties
    <3>3. <<e>> \in Seq(ToMasterMessage) /\ Len(<<e>>) = 1 /\ <<e>>[1] = e
      BY <1>1
    <3> DEFINE p == SubSeq(m, 1, 1)
               q == <<e>>
    <3>4. /\ p \in Seq(ToMasterMessage) /\ q \in Seq(ToMasterMessage)
          /\ Len(p) = 1 /\ Len(q) = 1 /\ p[1] = q[1]
      BY <3>1, <3>2, <3>3
    <3> HIDE DEF p, q
    <3>5. p = q
      BY <3>4, SeqEqual
    <3> QED
      BY <3>5 DEF p, q
  <2>3. /\ Occurrences(<<e>>, Removed) = One(e, Removed)
        /\ Occurrences(<<e>>, Added) = One(e, Added)
    BY OccurrencesOne DEF One
  <2>4. One(e, Removed) = 1 /\ One(e, Added) = 0
    BY <1>1, <1>2, NoPlayer
  <2>5. Occurrences(<<e>>, Removed) <= i.clients + Occurrences(<<e>>, Added)
    BY <2>1, <2>2 DEF Balanced
  <2> QED
    BY <2>3, <2>4, <2>5
<1>3. /\ One(e, Added) = IF e.type = "PLAYER_ADDED" THEN 1 ELSE 0
      /\ One(e, Removed) = IF e.type = "PLAYER_REMOVED" THEN 1 ELSE 0
  BY <1>1, NoPlayer
<1>4. j.clients \in Nat /\ j.clients + One(e, Removed) = i.clients + One(e, Added)
  <2>1. CASE e.type = "PLAYER_ADDED"
    BY <1>3, <2>1
  <2>2. CASE e.type = "PLAYER_REMOVED"
    BY <1>2, <1>3, <2>2
  <2>3. CASE e.type # "PLAYER_ADDED" /\ e.type # "PLAYER_REMOVED"
    BY <1>3, <2>3
  <2> QED
    BY <2>1, <2>2, <2>3
<1> QED
  BY <1>4, BalancedTail

LEMMA BalancedSpeaks ==
  ASSUME NEW m \in Seq(ToMasterMessage), NEW e \in ToMasterMessage, NEW n \in Nat,
         NEW i, i.clients \in Nat,
         e.type # "PLAYER_ADDED", e.type # "PLAYER_REMOVED", Balanced(i, m, n)
  PROVE  Balanced(i, Append(m, e), n)
<1>1. One(e, Added) = 0 /\ One(e, Removed) = 0
  BY NoPlayer
<1>2. n + One(e, Removed) = n + One(e, Added)
  BY <1>1
<1> QED
  BY <1>2, BalancedAppend

(* Of an Instance without messages or players.                              *)
LEMMA NothingCounted ==
  ASSUME NEW i, i.clients = 0, i.pendingAffirmations = <<>>
  PROVE  Balanced(i, <<>>, 0) /\ Awaited(i, <<>>, <<>>)
<1>1. \A X : Occurrences(<<>>, X) = 0
  BY OccurrencesNone
<1>2. Awaited(i, <<>>, <<>>)
  BY <1>1 DEF Awaited
<1>3. Balanced(i, <<>>, 0)
  <2>1. Len(<<>>) = 0 /\ SubSeq(<<>>, 1, 0) = <<>>
    OBVIOUS
  <2>2. ASSUME NEW k \in 0..Len(<<>>)
        PROVE  Occurrences(SubSeq(<<>>, 1, k), Removed)
                 <= i.clients + Occurrences(SubSeq(<<>>, 1, k), Added)
    <3>1. k = 0
      BY <2>1
    <3> DEFINE p == SubSeq(<<>>, 1, k)
    <3>2. p = <<>>
      BY <2>1, <3>1
    <3> HIDE DEF p
    <3>3. Occurrences(p, Removed) = 0 /\ Occurrences(p, Added) = 0
      BY <1>1, <3>2
    <3>4. Occurrences(p, Removed) <= i.clients + Occurrences(p, Added)
      BY <3>3
    <3> QED
      BY <3>4 DEF p
  <2>3. 0 + Occurrences(<<>>, Removed) = i.clients + Occurrences(<<>>, Added)
    BY <1>1
  <2> QED
    BY <2>2, <2>3 DEF Balanced
<1> QED
  BY <1>2, <1>3

-----------------------------------------------------------------------------
(* Every step of a handle keeps its affirmations and its clients.           *)

AttendedTo(i, m, c, n) ==
  /\ Awaited(i, m, c)
  /\ ~Private(i) /\ ~i.isShuttingDown => Balanced(i, m, n)

LEMMA SameBalance ==
  ASSUME NEW i, NEW j, NEW m, NEW n,
         j.clients = i.clients, Balanced(i, m, n)
  PROVE  Balanced(j, m, n)
BY DEF Balanced

LEMMA SameReckoned ==
  ASSUME NEW w, PlayersIn(w)' = PlayersIn(w), ghosts'[w] = ghosts[w]
  PROVE  Reckoned(w)' = Reckoned(w)
BY DEF Reckoned

(* What is known of a handle to start with.                                 *)
LEMMA AttendedFacts ==
  ASSUME Sound, Together, NEW w \in Handles
  PROVE  /\ inst[w] \in Instance /\ inst[w].clients \in Nat
         /\ inst[w].pendingAffirmations \in Seq(Requests)
         /\ toMaster[w] \in Seq(ToMasterMessage)
         /\ toWorld[w] \in Seq(ToWorldMessage)
         /\ IsFiniteSet(PlayersIn(w)) /\ Reckoned(w) \in Nat
         /\ Fit(w)
<1>1. /\ inst[w] \in Instance
      /\ toMaster[w] \in Seq(ToMasterMessage)
      /\ toWorld[w] \in Seq(ToWorldMessage)
  BY Parts
<1>2. inst[w].clients \in Nat /\ inst[w].pendingAffirmations \in Seq(Requests)
  BY <1>1 DEF Instance
<1>3. IsFiniteSet(PlayersIn(w)) /\ Fit(w)
  BY DEF Together
<1>4. Reckoned(w) \in Nat
  <2>1. ghosts[w] \in Nat
    BY Parts DEF RequestTypes
  <2>2. Cardinality(PlayersIn(w)) \in Nat
    BY <1>3, FS_CardinalityType
  <2> QED
    BY <2>1, <2>2 DEF Reckoned
<1> QED
  BY <1>1, <1>2, <1>3, <1>4

LEMMA AttendedBegun ==
  ASSUME Sound, Together, NEW w \in Handles, Begun(w)
  PROVE  AttendedTo(inst'[w], toMaster'[w], toWorld'[w], Reckoned(w)')
<1>1. w = nextHandle /\ Fit(w)
  BY DEF Begun, PairStarted, Together
<1>2. world[w].state = "none"
  <2>1. ~(w < nextHandle)
    BY <1>1, Parts
  <2> QED
    BY <1>1, <2>1 DEF Fit, Paired, Exists
<1>3. toMaster'[w] = <<>> /\ toWorld'[w] = <<>>
  BY <1>1, <1>2 DEF Fit, Lively, Begun, SameSent
<1>4. PlayersIn(w) = {}
  BY <1>2 DEF Together, Playing, PlayersIn, Handles
<1>5. inst'[w].clients = 0 /\ inst'[w].pendingAffirmations = <<>>
  BY DEF Begun, PairStarted, NewInstance
<1>6. Reckoned(w)' = 0
  <2>1. ghosts'[w] = 0 /\ PlayersIn(w)' = {}
    BY <1>2, <1>4 DEF Together, Begun
  <2>2. Cardinality(PlayersIn(w)') = 0
    BY <2>1, FS_EmptySet
  <2> QED
    BY <2>1, <2>2 DEF Reckoned
<1> DEFINE j == inst'[w]
<1>7. j.clients = 0 /\ j.pendingAffirmations = <<>>
  BY <1>5
<1> HIDE DEF j
<1>8. Balanced(j, <<>>, 0) /\ Awaited(j, <<>>, <<>>)
  BY <1>7, NothingCounted
<1> QED
  BY <1>3, <1>6, <1>8 DEF AttendedTo, j

LEMMA AttendedGivenMore ==
  ASSUME Sound, Together, NEW w \in Handles, GivenMore(w),
         world[w].state # "gone",
         AttendedTo(inst[w], toMaster[w], toWorld[w], Reckoned(w))
  PROVE  AttendedTo(inst'[w], toMaster'[w], toWorld'[w], Reckoned(w)')
<1> DEFINE i == inst[w]
           n == Reckoned(w)
<1>1. PICK reqs \in Seq(Requests) : Handed(w, reqs, i, toWorld[w])
  BY DEF GivenMore
<1>2. /\ w \in m_Instances /\ ~Private(i) /\ ~i.isShuttingDown
      /\ toMaster'[w] = toMaster[w] /\ Reckoned(w)' = n
      /\ world'[w] = world[w]
  BY <1>1, SameReckoned DEF GivenMore, Handed
<1>3. /\ i.pendingAffirmations \in Seq(Requests)
      /\ toMaster[w] \in Seq(ToMasterMessage)
      /\ toWorld[w] \in Seq(ToWorldMessage)
      /\ Fit(w) /\ i \in Instance
  BY AttendedFacts
<1>4. Awaited(i, toMaster[w], toWorld[w]) /\ Balanced(i, toMaster[w], n)
  BY <1>2 DEF AttendedTo
<1>5. CASE inst[w].ready
  <2>1. inst'[w] = [i EXCEPT !.pendingAffirmations = @ \o reqs]
    BY <1>1, <1>5 DEF Handed
  <2>2. /\ inst'[w].pendingAffirmations = i.pendingAffirmations \o reqs
        /\ inst'[w].clients = i.clients /\ inst'[w].map = i.map
    BY <1>3, <2>1 DEF Instance
  <2>3. world[w].state \in {"up", "gone"}
    BY <1>2, <1>3, <1>5 DEF Fit, Known, Introduced
  <2>4. CASE world[w].state = "up"
    <3>1. toWorld'[w] = toWorld[w] \o AffirmRequests(reqs)
      BY <1>1, <1>5, <2>4 DEF Handed
    <3>2. Awaited(inst'[w], toMaster[w], toWorld[w] \o AffirmRequests(reqs))
      BY <1>3, <1>4, <2>2, AwaitedGiven
    <3>3. Balanced(inst'[w], toMaster[w], n)
      BY <1>4, <2>2, SameBalance
    <3> QED
      BY <1>2, <3>1, <3>2, <3>3 DEF AttendedTo
  <2>5. CASE world[w].state # "up"
    <3> QED
      BY <2>3, <2>5
  <2> QED
    BY <2>4, <2>5
<1>6. CASE ~inst[w].ready
  <2>1. /\ inst'[w] = [i EXCEPT !.pendingRequests = @ \o reqs]
        /\ toWorld'[w] = toWorld[w]
    BY <1>1, <1>6 DEF Handed
  <2>2. /\ inst'[w].pendingAffirmations = i.pendingAffirmations
        /\ inst'[w].clients = i.clients /\ inst'[w].map = i.map
    BY <1>3, <2>1 DEF Instance
  <2>3. Awaited(inst'[w], toMaster[w], toWorld[w])
    BY <1>4, <2>2 DEF Awaited
  <2>4. Balanced(inst'[w], toMaster[w], n)
    BY <1>4, <2>2, SameBalance
  <2> QED
    BY <1>2, <2>1, <2>3, <2>4 DEF AttendedTo
<1> QED
  BY <1>5, <1>6

LEMMA AttendedTimedOut ==
  ASSUME Sound, Together, NEW w \in Handles, TimedOut(w),
         AttendedTo(inst[w], toMaster[w], toWorld[w], Reckoned(w))
  PROVE  AttendedTo(inst'[w], toMaster'[w], toWorld'[w], Reckoned(w)')
<1>1. /\ inst[w] \in Instance /\ toWorld[w] \in Seq(ToWorldMessage)
  BY AttendedFacts
<1>2. inst'[w] = [inst[w] EXCEPT !.isShuttingDown = TRUE, !.timedOut = TRUE]
      /\ toMaster'[w] = toMaster[w]
  BY DEF TimedOut
<1>3. /\ inst'[w].isShuttingDown
      /\ inst'[w].pendingAffirmations = inst[w].pendingAffirmations
  BY <1>1, <1>2 DEF Instance
<1>4. Awaited(inst[w], toMaster[w], toWorld[w])
  BY DEF AttendedTo
<1>5. /\ Msg("SHUTDOWN") \in ToWorldMessage
      /\ Msg("SHUTDOWN").type # "AFFIRM_TRANSFER_REQUEST"
  BY DEF Msg, ToWorldMessage
<1>6. toWorld'[w] \in {toWorld[w], Append(toWorld[w], Msg("SHUTDOWN"))}
  <2>1. toWorld[w] \o <<Msg("SHUTDOWN")>> = Append(toWorld[w], Msg("SHUTDOWN"))
    BY <1>1, <1>5, AppendOne
  <2> QED
    BY <2>1 DEF TimedOut
<1>7. Awaited(inst'[w], toMaster[w], toWorld[w])
  BY <1>3, <1>4 DEF Awaited
<1>8. Awaited(inst'[w], toMaster[w], Append(toWorld[w], Msg("SHUTDOWN")))
  BY <1>1, <1>3, <1>4, <1>5, AwaitedTold
<1> QED
  BY <1>2, <1>3, <1>6, <1>7, <1>8 DEF AttendedTo

LEMMA AttendedHeard ==
  ASSUME Sound, Together, NEW w \in Handles, Heard(w),
         AttendedTo(inst[w], toMaster[w], toWorld[w], Reckoned(w))
  PROVE  AttendedTo(inst'[w], toMaster'[w], toWorld'[w], Reckoned(w)')
<1> DEFINE i == inst[w]
           j == inst'[w]
           m == toMaster[w]
           n == Reckoned(w)
           type == Head(m).type
<1>1. /\ w \in m_Instances /\ m # <<>>
      /\ toMaster'[w] = Tail(m) /\ toWorld'[w] = toWorld[w]
      /\ Reckoned(w)' = n
      /\ IF Private(i) THEN j = i ELSE HandledAs(w, type, i, j)
  BY SameReckoned DEF Heard
<1>2. /\ i \in Instance /\ i.clients \in Nat
      /\ i.pendingAffirmations \in Seq(Requests)
      /\ m \in Seq(ToMasterMessage) /\ toWorld[w] \in Seq(ToWorldMessage)
      /\ n \in Nat /\ Fit(w)
  BY AttendedFacts
<1>3. /\ Awaited(i, m, toWorld[w])
      /\ ~Private(i) /\ ~i.isShuttingDown => Balanced(i, m, n)
  BY DEF AttendedTo
<1>4. Head(m) \in ToMasterMessage
  BY <1>1, <1>2, HeadTailProperties
<1>5. CASE Private(i)
  <2>1. j = i /\ Private(j)
    BY <1>1, <1>5
  <2>2. i.pendingAffirmations = <<>>
    <3>1. ~i.ready
      BY <1>1, <1>2, <1>5 DEF Fit, Known
    <3> QED
      BY <1>1, <3>1 DEF Sound, PendingMatchesReadiness
  <2>3. Awaited(j, Tail(m), toWorld[w])
    <3>1. CASE type = "AFFIRM_TRANSFER_RESPONSE"
      <4> DEFINE matches == {k \in DOMAIN i.pendingAffirmations :
                               i.pendingAffirmations[k][2] = Head(m).requestID}
      <4>0. matches = {k \in DOMAIN i.pendingAffirmations :
                         i.pendingAffirmations[k][2] = Head(m).requestID}
        OBVIOUS
      <4>1. DOMAIN i.pendingAffirmations = {}
        BY <2>2
      <4>2. matches = {}
        BY <4>1
      <4> HIDE DEF matches
      <4>3. j.pendingAffirmations =
              IF matches = {} THEN i.pendingAffirmations
              ELSE RemoveAt(i.pendingAffirmations, Min(matches))
        BY <2>1, <4>2
      <4> HIDE DEF i, j, m
      <4> QED
        BY <1>1, <1>2, <1>3, <3>1, <4>0, <4>3, AwaitedAnswered
    <3>2. CASE type # "AFFIRM_TRANSFER_RESPONSE"
      BY <1>1, <1>2, <1>3, <2>1, <3>2, AwaitedHeard
    <3> QED
      BY <3>1, <3>2
  <2> QED
    BY <1>1, <2>1, <2>3 DEF AttendedTo
<1>6. CASE ~Private(i)
  <2>1. HandledAs(w, type, i, j)
    BY <1>1, <1>6
  <2>2. CASE type = "AFFIRM_TRANSFER_RESPONSE"
    <3> DEFINE matches == {k \in DOMAIN i.pendingAffirmations :
                             i.pendingAffirmations[k][2] = Head(m).requestID}
               rest == RemoveAt(i.pendingAffirmations, Min(matches))
    <3>1. IF matches = {} THEN j = i
          ELSE j = [i EXCEPT !.pendingAffirmations = rest,
                             !.timedOut = @ /\ rest # <<>>]
      BY <2>1, <2>2 DEF HandledAs
    <3>0. matches = {k \in DOMAIN i.pendingAffirmations :
                       i.pendingAffirmations[k][2] = Head(m).requestID}
      OBVIOUS
    <3> HIDE DEF matches
    <3>2. /\ j.pendingAffirmations = IF matches = {} THEN i.pendingAffirmations
                                     ELSE RemoveAt(i.pendingAffirmations, Min(matches))
          /\ j.clients = i.clients /\ j.map = i.map /\ j.password = i.password
          /\ j.isShuttingDown = i.isShuttingDown
      BY <1>2, <3>1 DEF Instance
    <3> HIDE DEF i, j, m, rest
    <3>3. Awaited(j, Tail(m), toWorld[w])
      BY <1>1, <1>2, <1>3, <2>2, <3>0, <3>2, AwaitedAnswered
    <3>4. Balanced(i, m, n) => Balanced(j, Tail(m), n)
      BY <1>1, <1>2, <2>2, <3>2, BalancedHeard
    <3>5. AttendedTo(j, Tail(m), toWorld[w], n)
      BY <1>3, <1>6, <3>2, <3>3, <3>4 DEF AttendedTo
    <3> QED
      BY <1>1, <3>5 DEF i, j, m
  <2>3. CASE type # "AFFIRM_TRANSFER_RESPONSE"
    <3>1. /\ j.pendingAffirmations = i.pendingAffirmations
          /\ j.map = i.map
          /\ ~j.isShuttingDown =>
               /\ ~i.isShuttingDown
               /\ j.clients = IF type = "PLAYER_ADDED" THEN i.clients + 1
                              ELSE IF type = "PLAYER_REMOVED"
                              THEN IF i.clients = 0 THEN 0 ELSE i.clients - 1
                              ELSE i.clients
      BY <1>2, <2>1, <2>3 DEF HandledAs, Instance
    <3> HIDE DEF i, j, m
    <3>2. Awaited(j, Tail(m), toWorld[w])
      BY <1>1, <1>2, <1>3, <2>3, <3>1, AwaitedHeard
    <3>3. ~j.isShuttingDown => Balanced(j, Tail(m), n)
      BY <1>1, <1>2, <1>3, <1>6, <3>1, BalancedHeard
    <3>4. AttendedTo(j, Tail(m), toWorld[w], n)
      BY <3>2, <3>3 DEF AttendedTo
    <3> QED
      BY <1>1, <3>4 DEF i, j, m
  <2> QED
    BY <2>2, <2>3
<1> QED
  BY <1>5, <1>6

(* The process says something that is neither about a player nor an         *)
(* affirmation.                                                             *)
LEMMA AttendedSpeaks ==
  ASSUME Sound, Together, NEW w \in Handles, NEW e \in ToMasterMessage,
         e.type \in {"SERVER_INFO", "WORLD_READY"},
         inst'[w] = inst[w], toWorld'[w] = toWorld[w],
         Reckoned(w)' = Reckoned(w), toMaster'[w] = Append(toMaster[w], e),
         AttendedTo(inst[w], toMaster[w], toWorld[w], Reckoned(w))
  PROVE  AttendedTo(inst'[w], toMaster'[w], toWorld'[w], Reckoned(w)')
<1>1. /\ inst[w].clients \in Nat /\ toMaster[w] \in Seq(ToMasterMessage)
      /\ Reckoned(w) \in Nat
  BY AttendedFacts
<1>2. Awaited(inst[w], Append(toMaster[w], e), toWorld[w])
  BY <1>1, AwaitedSpeaks DEF AttendedTo
<1>3. ASSUME Balanced(inst[w], toMaster[w], Reckoned(w))
      PROVE  Balanced(inst[w], Append(toMaster[w], e), Reckoned(w))
  BY <1>1, <1>3, BalancedSpeaks
<1> QED
  BY <1>2, <1>3 DEF AttendedTo

LEMMA AttendedAffirms ==
  ASSUME Sound, Together, NEW w \in Handles, Affirms(w),
         AttendedTo(inst[w], toMaster[w], toWorld[w], Reckoned(w))
  PROVE  AttendedTo(inst'[w], toMaster'[w], toWorld'[w], Reckoned(w)')
<1> DEFINE c == toWorld[w]
           e == AffirmResponse(Head(c).requestID)
<1>1. /\ inst[w].clients \in Nat /\ toMaster[w] \in Seq(ToMasterMessage)
      /\ c \in Seq(ToWorldMessage) /\ Reckoned(w) \in Nat
  BY AttendedFacts
<1>2. /\ c # <<>> /\ Head(c).type = "AFFIRM_TRANSFER_REQUEST"
      /\ toWorld'[w] = Tail(c) /\ toMaster'[w] = Append(toMaster[w], e)
      /\ inst'[w] = inst[w] /\ Reckoned(w)' = Reckoned(w)
  BY SameReckoned DEF Affirms
<1>3. /\ e \in ToMasterMessage /\ e.type = "AFFIRM_TRANSFER_RESPONSE"
  <2>1. Head(c) \in ToWorldMessage
    BY <1>1, <1>2, HeadTailProperties
  <2> QED
    BY <2>1 DEF ToWorldMessage, ToMasterMessage, AffirmResponse
<1>4. Awaited(inst[w], Append(toMaster[w], e), Tail(c))
  BY <1>1, <1>2, AwaitedAffirms DEF AttendedTo
<1>5. ASSUME Balanced(inst[w], toMaster[w], Reckoned(w))
      PROVE  Balanced(inst[w], Append(toMaster[w], e), Reckoned(w))
  BY <1>1, <1>3, <1>5, BalancedSpeaks
<1> QED
  BY <1>2, <1>4, <1>5 DEF AttendedTo

LEMMA AttendedSignalled ==
  ASSUME Sound, Together, NEW w \in Handles, Signalled(w),
         AttendedTo(inst[w], toMaster[w], toWorld[w], Reckoned(w))
  PROVE  AttendedTo(inst'[w], toMaster'[w], toWorld'[w], Reckoned(w)')
<1>1. toWorld[w] \in Seq(ToWorldMessage)
  BY AttendedFacts
<1>2. ASSUME toWorld[w] # <<>>, Head(toWorld[w]).type = "SHUTDOWN"
      PROVE  Awaited(inst[w], toMaster[w], Tail(toWorld[w]))
  BY <1>1, <1>2, AwaitedHears DEF AttendedTo
<1>3. Reckoned(w)' = Reckoned(w)
  BY SameReckoned DEF Signalled
<1> QED
  BY <1>2, <1>3 DEF Signalled, AttendedTo

LEMMA AttendedJoined ==
  ASSUME Sound, Together, NEW w \in Handles, Joined(w),
         AttendedTo(inst[w], toMaster[w], toWorld[w], Reckoned(w))
  PROVE  AttendedTo(inst'[w], toMaster'[w], toWorld'[w], Reckoned(w)')
<1> DEFINE e == Msg("PLAYER_ADDED")
           n == Reckoned(w)
           m == toMaster[w]
<1>1. /\ inst[w].clients \in Nat /\ m \in Seq(ToMasterMessage)
      /\ n \in Nat /\ IsFiniteSet(PlayersIn(w))
  BY AttendedFacts
<1>2. e \in ToMasterMessage /\ e.type = "PLAYER_ADDED"
  BY DEF Msg, ToMasterMessage
<1>3. toMaster'[w] = Append(m, e) /\ toWorld'[w] = toWorld[w] /\ inst'[w] = inst[w]
  BY DEF Joined
<1>4. Reckoned(w)' = n + 1
  <2>1. Cardinality(PlayersIn(w)) \in Nat /\ ghosts[w] \in Nat
    BY <1>1, Parts, FS_CardinalityType DEF RequestTypes
  <2>2. CASE PlayersIn(w)' = PlayersIn(w) /\ ghosts'[w] = ghosts[w] + 1
    BY <2>1, <2>2 DEF Reckoned
  <2>3. ASSUME NEW q \in Requests, q \notin PlayersIn(w),
               PlayersIn(w)' = PlayersIn(w) \cup {q}, ghosts'[w] = ghosts[w]
        PROVE  Reckoned(w)' = n + 1
    <3>1. Cardinality(PlayersIn(w)') = Cardinality(PlayersIn(w)) + 1
      BY <1>1, <2>3, FS_AddElement
    <3> QED
      BY <2>1, <2>3, <3>1 DEF Reckoned
  <2> QED
    BY <2>2, <2>3 DEF Joined
<1>5. Awaited(inst[w], Append(m, e), toWorld[w])
  BY <1>1, <1>2, AwaitedSpeaks DEF AttendedTo
<1>6. One(e, Added) = 1 /\ One(e, Removed) = 0
  BY <1>2, NoPlayer
<1> HIDE DEF e, n
<1>7. ASSUME Balanced(inst[w], m, n)
      PROVE  Balanced(inst[w], Append(m, e), n + 1)
  <2>1. (n + 1) + One(e, Removed) = n + One(e, Added) /\ n + 1 \in Nat
    BY <1>1, <1>6
  <2> HIDE DEF m
  <2> QED
    BY <1>1, <1>2, <1>7, <2>1, BalancedAppend
<1>8. AttendedTo(inst[w], Append(m, e), toWorld[w], n + 1)
  BY <1>5, <1>7 DEF AttendedTo, n
<1> QED
  BY <1>3, <1>4, <1>8

LEMMA AttendedLeft ==
  ASSUME Sound, Together, NEW w \in Handles, Left(w), w \in m_Instances,
         AttendedTo(inst[w], toMaster[w], toWorld[w], Reckoned(w))
  PROVE  AttendedTo(inst'[w], toMaster'[w], toWorld'[w], Reckoned(w)')
<1> DEFINE e == Msg("PLAYER_REMOVED")
           n == Reckoned(w)
           m == toMaster[w]
<1>1. /\ inst[w].clients \in Nat /\ m \in Seq(ToMasterMessage)
      /\ n \in Nat /\ IsFiniteSet(PlayersIn(w)) /\ Fit(w)
  BY AttendedFacts
<1>2. e \in ToMasterMessage /\ e.type = "PLAYER_REMOVED"
  BY DEF Msg, ToMasterMessage
<1>3. toWorld'[w] = toWorld[w] /\ inst'[w] = inst[w]
  BY DEF Left
<1>4. /\ n - 1 \in Nat
      /\ \/ toMaster'[w] = Append(m, e) /\ Reckoned(w)' = n - 1
         \/ toMaster'[w] = m /\ Reckoned(w)' = n
  <2>1. PICK q : q \in PlayersIn(w) /\ PlayersIn(w)' = PlayersIn(w) \ {q}
    BY DEF Left
  <2> DEFINE k == Cardinality(PlayersIn(w))
             o == Cardinality(PlayersIn(w)')
             g == ghosts[w]
             f == ghosts'[w]
  <2>2. o = k - 1 /\ o \in Nat /\ k \in Nat /\ g \in Nat
    <3>1. o = k - 1 /\ IsFiniteSet(PlayersIn(w)')
      BY <1>1, <2>1, FS_RemoveElement
    <3> QED
      BY <1>1, <3>1, Parts, FS_CardinalityType DEF RequestTypes
  <2>3. n = k + g /\ Reckoned(w)' = o + f
    BY DEF Reckoned
  <2>4. \/ toMaster'[w] = Append(m, e) /\ f = g
        \/ toMaster'[w] = m /\ f = g + 1
    BY DEF Left
  <2> HIDE DEF k, o, g, f, n, e, m
  <2> QED
    BY <2>2, <2>3, <2>4
<1>5. Awaited(inst[w], Append(m, e), toWorld[w]) /\ Awaited(inst[w], m, toWorld[w])
  BY <1>1, <1>2, AwaitedSpeaks DEF AttendedTo
<1>6. One(e, Added) = 0 /\ One(e, Removed) = 1
  BY <1>2, NoPlayer
<1>7. CASE toMaster'[w] = Append(m, e) /\ Reckoned(w)' = n - 1
  <2> HIDE DEF e, n
  <2>1. ASSUME Balanced(inst[w], m, n)
        PROVE  Balanced(inst[w], Append(m, e), n - 1)
    <3>1. (n - 1) + One(e, Removed) = n + One(e, Added)
      BY <1>1, <1>6
    <3> HIDE DEF m
    <3> QED
      BY <1>1, <1>2, <1>4, <2>1, <3>1, BalancedAppend
  <2>2. AttendedTo(inst[w], Append(m, e), toWorld[w], n - 1)
    BY <1>5, <2>1 DEF AttendedTo, n
  <2> QED
    BY <1>3, <1>7, <2>2
<1>8. CASE toMaster'[w] = m /\ Reckoned(w)' = n
  BY <1>3, <1>8
<1> QED
  BY <1>4, <1>7, <1>8

LEMMA AttendedNext ==
  ASSUME Sound, Together, NEW w \in Handles, Attended(w), Effect(w)
  PROVE  Attended(w)'
<1> DEFINE before == AttendedTo(inst[w], toMaster[w], toWorld[w],
                                Reckoned(w))
           after == AttendedTo(inst'[w], toMaster'[w], toWorld'[w],
                               Reckoned(w)')
<1> SUFFICES ASSUME w \in m_Instances', world'[w].state # "gone"
             PROVE  after
  BY DEF Attended, AttendedTo, Private
<1>1. w \in m_Instances /\ world[w].state # "gone" => before
  BY DEF Attended, AttendedTo
<1>2. world[w] \in WorldProcess
  BY Parts
<1> HIDE DEF before, after
<1>3. CASE Untouched(w)
  <2>1. before
    BY <1>1, <1>3 DEF Untouched, Stays
  <2> QED
    BY <1>3, <2>1, SameReckoned DEF before, after, Untouched, SameSent
<1>4. CASE Begun(w)
  BY <1>4, AttendedBegun DEF after
<1>5. CASE GivenMore(w)
  <2>1. before /\ world[w].state # "gone"
    BY <1>1, <1>5 DEF GivenMore, Handed
  <2> QED
    BY <1>5, <2>1, AttendedGivenMore DEF before, after
<1>6. CASE TimedOut(w)
  <2>1. before
    BY <1>1, <1>6 DEF TimedOut
  <2> QED
    BY <1>6, <2>1, AttendedTimedOut DEF before, after
<1>7. CASE Heard(w)
  <2>1. before
    BY <1>1, <1>7 DEF Heard
  <2> QED
    BY <1>7, <2>1, AttendedHeard DEF before, after
<1>8. CASE Starts(w) \/ BecomesReady(w)
  <2>1. before
    BY <1>1, <1>8 DEF Starts, BecomesReady, Stays
  <2>2. PICK e \in ToMasterMessage :
          /\ e.type \in {"SERVER_INFO", "WORLD_READY"}
          /\ toMaster'[w] = Append(toMaster[w], e)
    <3>1. Msg("SERVER_INFO") \in ToMasterMessage /\ Msg("WORLD_READY") \in ToMasterMessage
          /\ Msg("SERVER_INFO").type = "SERVER_INFO"
          /\ Msg("WORLD_READY").type = "WORLD_READY"
      BY DEF Msg, ToMasterMessage
    <3> QED
      BY <1>8, <3>1 DEF Starts, BecomesReady
  <2>3. /\ inst'[w] = inst[w] /\ toWorld'[w] = toWorld[w]
        /\ Reckoned(w)' = Reckoned(w)
    BY <1>8, SameReckoned DEF Starts, BecomesReady
  <2> QED
    BY <2>1, <2>2, <2>3, AttendedSpeaks DEF before, after
<1>9. CASE Affirms(w)
  <2>1. before
    BY <1>1, <1>9 DEF Affirms, Stays
  <2> QED
    BY <1>9, <2>1, AttendedAffirms DEF before, after
<1>10. CASE Signalled(w)
  <2>1. before
    BY <1>1, <1>10 DEF Signalled, Stays
  <2> QED
    BY <1>10, <2>1, AttendedSignalled DEF before, after
<1>11. CASE Exits(w)
  BY <1>2, <1>11 DEF Exits, WorldProcess
<1>12. CASE Joined(w)
  <2>1. before
    BY <1>1, <1>12 DEF Joined, Stays
  <2> QED
    BY <1>12, <2>1, AttendedJoined DEF before, after
<1>13. CASE Left(w)
  <2>1. before /\ w \in m_Instances
    BY <1>1, <1>13 DEF Left, Stays
  <2> QED
    BY <1>13, <2>1, AttendedLeft DEF before, after
<1> QED
  BY <1>3, <1>4, <1>5, <1>6, <1>7, <1>8, <1>9, <1>10, <1>11, <1>12, <1>13
     DEF Effect, MasterEffect, WorldEffect

LEMMA AttendedAlways ==
  ASSUME NothingFails
  PROVE  Spec => [](\A w \in Handles : Attended(w))
<1> DEFINE I == \A w \in Handles : Attended(w)
<1>1. Init => I
  <2> SUFFICES ASSUME Init PROVE \A w \in Handles : w \notin m_Instances
    BY DEF Attended
  <2> QED
    BY DEF Init
<1>2. Sound /\ Together /\ I /\ [Next]_vars => I'
  <2> SUFFICES ASSUME Sound, Together, I, [Next]_vars, NEW w \in Handles
               PROVE  Attended(w)'
    OBVIOUS
  <2>1. Effect(w)
    BY NextEffect
  <2> QED
    BY <2>1, AttendedNext
<1>3. Spec => []Sound
  BY SoundAlways
<1>4. Spec => []Together
  BY TogetherAlways
<1> HIDE DEF I
<1>5. Spec => []I
  BY <1>1, <1>2, <1>3, <1>4, PTL DEF Spec
<1> QED
  BY <1>5 DEF I

(* The number of clients the master compares with the soft cap is exactly   *)
(* the players in the world and those it announced and never took back,     *)
(* allowing for what is under way: PLAYER_ADDED and PLAYER_REMOVED of the   *)
(* world, counted in dMasterServer/MasterServer.cpp.                        *)
THEOREM ClientsCorrect ==
  ASSUME NothingFails
  PROVE  Spec => []ClientsCounted
<1> DEFINE I == \A w \in Handles : Attended(w)
<1>1. Sound /\ Together /\ I => ClientsCounted
  <2> SUFFICES ASSUME Sound, Together, I, NEW h \in m_Instances,
                      world[h].linked, ~IsPrivate(h), ~inst[h].isShuttingDown
               PROVE  LET counted == inst[h].clients + InFlight(toMaster[h], "PLAYER_ADDED")
                          present == Cardinality({q \in Requests : location[q] = h})
                                     + InFlight(toMaster[h], "PLAYER_REMOVED")
                      IN counted = present + ghosts[h]
    BY DEF ClientsCounted
  <2>1. h \in Handles
    BY Parts
  <2>2. world[h].state # "gone"
    BY <2>1 DEF Together, Fit, Lively
  <2>3. Balanced(inst[h], toMaster[h], Reckoned(h))
    BY <2>1, <2>2 DEF Attended, IsPrivate, Private
  <2>4. /\ toMaster[h] \in Seq(ToMasterMessage) /\ inst[h].clients \in Nat
        /\ Reckoned(h) \in Nat /\ IsFiniteSet(PlayersIn(h)) /\ ghosts[h] \in Nat
    BY <2>1, AttendedFacts, Parts DEF RequestTypes
  <2>5. /\ InFlight(toMaster[h], "PLAYER_ADDED") = Occurrences(toMaster[h], Added)
        /\ InFlight(toMaster[h], "PLAYER_REMOVED") = Occurrences(toMaster[h], Removed)
    <3> DEFINE m == toMaster[h]
    <3>1. \A k \in DOMAIN m : m[k] \in ToMasterMessage
      BY <2>4
    <3> HIDE DEF m
    <3>2. /\ Spots(m, Added) = {k \in DOMAIN m : m[k].type = "PLAYER_ADDED"}
          /\ Spots(m, Removed) = {k \in DOMAIN m : m[k].type = "PLAYER_REMOVED"}
      BY <3>1 DEF Spots, Added, Removed
    <3> QED
      BY <3>2 DEF InFlight, Occurrences, m
  <2>6. /\ Occurrences(toMaster[h], Added) \in Nat
        /\ Occurrences(toMaster[h], Removed) \in Nat
    BY <2>4, OccurrencesType
  <2> DEFINE a == Occurrences(toMaster[h], Added)
             r == Occurrences(toMaster[h], Removed)
             c == inst[h].clients
             n == Cardinality(PlayersIn(h))
             g == ghosts[h]
  <2>7. (n + g) + r = c + a
    BY <2>3 DEF Balanced, Reckoned
  <2>8. a \in Nat /\ r \in Nat /\ c \in Nat /\ n \in Nat /\ g \in Nat
    BY <2>4, <2>6, FS_CardinalityType
  <2>9. n = Cardinality({q \in Requests : location[q] = h})
    BY DEF PlayersIn
  <2> HIDE DEF a, r, c, n, g
  <2>10. c + a = (n + r) + g
    BY <2>7, <2>8
  <2> QED
    BY <2>5, <2>9, <2>10 DEF a, r, c, g
<1>2. Spec => []Sound
  BY SoundAlways
<1>3. Spec => []Together
  BY TogetherAlways
<1>4. Spec => []I
  BY AttendedAlways
<1> HIDE DEF I
<1> QED
  BY <1>1, <1>2, <1>3, <1>4, PTL

(* Every affirmation an Instance waits for was asked of the world or        *)
(* answered by it, one for one: no request waits for an answer that was     *)
(* never asked for (AffirmTransfer and the AFFIRM_TRANSFER_RESPONSE         *)
(* handler).                                                                *)
THEOREM AffirmationsCorrect ==
  ASSUME NothingFails
  PROVE  Spec => []AffirmationsUnderWay
<1> DEFINE I == \A w \in Handles : Attended(w)
<1>1. Sound /\ Together /\ I => AffirmationsUnderWay
  <2> SUFFICES ASSUME Sound, Together, I, NEW h \in m_Instances,
                      NEW id \in 1..MaxRequestId, world[h].linked
               PROVE
                 Count(LAMBDA i : inst[h].pendingAffirmations[i][2] = id,
                       Len(inst[h].pendingAffirmations))
                 = Count(LAMBDA i : toWorld[h][i] = AffirmRequest(id), Len(toWorld[h]))
                   + Count(LAMBDA i : toMaster[h][i] = AffirmResponse(id),
                           Len(toMaster[h]))
    BY DEF AffirmationsUnderWay
  <2>1. h \in Handles
    BY Parts
  <2>2. world[h].state # "gone"
    BY <2>1 DEF Together, Fit, Lively
  <2>3. Awaited(inst[h], toMaster[h], toWorld[h])
    BY <2>1, <2>2 DEF Attended
  <2>4. /\ toMaster[h] \in Seq(ToMasterMessage) /\ toWorld[h] \in Seq(ToWorldMessage)
        /\ inst[h].pendingAffirmations \in Seq(Requests)
    BY <2>1, AttendedFacts
  <2> DEFINE m == toMaster[h]
             c == toWorld[h]
             p == inst[h].pendingAffirmations
  <2>5. /\ DOMAIN m = 1..Len(m) /\ DOMAIN c = 1..Len(c) /\ DOMAIN p = 1..Len(p)
        /\ \A k \in 1..Len(p) : p[k] \in Requests
    BY <2>4, LenProperties, ElementOfSeq
  <2> HIDE DEF m, c, p
  <2>6. /\ Spots(p, Numbered(id)) = {i \in 1..Len(p) : p[i][2] = id}
        /\ Spots(c, {AffirmRequest(id)}) = {i \in 1..Len(c) : c[i] = AffirmRequest(id)}
        /\ Spots(m, {AffirmResponse(id)}) = {i \in 1..Len(m) : m[i] = AffirmResponse(id)}
    BY <2>5 DEF Spots, Numbered
  <2>7. Cardinality({i \in 1..Len(p) : p[i][2] = id})
          = Cardinality({i \in 1..Len(c) : c[i] = AffirmRequest(id)})
            + Cardinality({i \in 1..Len(m) : m[i] = AffirmResponse(id)})
    BY <2>3, <2>6 DEF Awaited, Occurrences, p, c, m
  <2> QED
    BY <2>7 DEF Count, p, c, m
<1>2. Spec => []Sound
  BY SoundAlways
<1>3. Spec => []Together
  BY TogetherAlways
<1>4. Spec => []I
  BY AttendedAlways
<1> HIDE DEF I
<1> QED
  BY <1>1, <1>2, <1>3, <1>4, PTL

-----------------------------------------------------------------------------
(* Where the requests are.                                                  *)

ZoneOf(i) == <<i.map, i.clone>>

SameQueues(i, j) ==
  /\ j.pendingRequests = i.pendingRequests
  /\ j.pendingAffirmations = i.pendingAffirmations
  /\ ZoneOf(j) = ZoneOf(i)

LEMMA QueueConcat ==
  ASSUME NEW S, NEW s \in Seq(S), NEW t \in Seq(S)
  PROVE  ToSet(s \o t) = ToSet(s) \cup ToSet(t)
<1>1. /\ DOMAIN s = 1..Len(s) /\ DOMAIN t = 1..Len(t)
      /\ DOMAIN (s \o t) = 1..(Len(s) + Len(t))
      /\ Len(s) \in Nat /\ Len(t) \in Nat
      /\ \A i \in 1..(Len(s) + Len(t)) :
           (s \o t)[i] = IF i <= Len(s) THEN s[i] ELSE t[i - Len(s)]
  BY ConcatProperties, LenProperties
<1> DEFINE u == s \o t
<1>2. /\ DOMAIN u = 1..(Len(s) + Len(t))
      /\ \A i \in 1..(Len(s) + Len(t)) :
           u[i] = IF i <= Len(s) THEN s[i] ELSE t[i - Len(s)]
  BY <1>1
<1> HIDE DEF u
<1>3. ASSUME NEW x \in ToSet(u) PROVE x \in ToSet(s) \cup ToSet(t)
  <2>1. PICK i \in 1..(Len(s) + Len(t)) : x = u[i]
    BY <1>2, <1>3 DEF ToSet
  <2>2. CASE i <= Len(s)
    BY <1>1, <1>2, <2>1, <2>2 DEF ToSet
  <2>3. CASE ~(i <= Len(s))
    <3>1. i - Len(s) \in 1..Len(t) /\ x = t[i - Len(s)]
      BY <1>1, <1>2, <2>1, <2>3
    <3> QED
      BY <1>1, <3>1 DEF ToSet
  <2> QED
    BY <2>2, <2>3
<1>4. ASSUME NEW x \in ToSet(s) PROVE x \in ToSet(u)
  <2>1. PICK i \in 1..Len(s) : x = s[i]
    BY <1>1, <1>4 DEF ToSet
  <2>2. i \in 1..(Len(s) + Len(t)) /\ u[i] = x
    BY <1>1, <1>2, <2>1
  <2> QED
    BY <1>2, <2>2 DEF ToSet
<1>5. ASSUME NEW x \in ToSet(t) PROVE x \in ToSet(u)
  <2>1. PICK i \in 1..Len(t) : x = t[i]
    BY <1>1, <1>5 DEF ToSet
  <2>2. Len(s) + i \in 1..(Len(s) + Len(t)) /\ u[Len(s) + i] = x
    BY <1>1, <1>2, <2>1
  <2> QED
    BY <1>2, <2>2 DEF ToSet
<1> QED
  BY <1>3, <1>4, <1>5 DEF u

(* Requests that are dispatched are put in the list of a world of the zone, *)
(* and no other request leaves its list.                                    *)
LEMMA DispatchQueues ==
  ASSUME Sound, NEW h \in Handles, NEW X, NEW erased, NEW z \in Maps \X Clones,
         NEW reqs \in Seq(Requests), NEW f \in [Handles -> Instance], NEW chan,
         \A g \in Handles : SameQueues(inst[g], f[g]),
         Dispatched(h, X, erased, z, reqs, f, chan)
  PROVE  /\ h \in m_Instances'
         /\ \A q \in ToSet(reqs) : q \in Queued(inst'[h])
         /\ \A g \in m_Instances \ erased : \A q \in Queued(inst[g]) :
              g \in m_Instances' /\ q \in Queued(inst'[g])
         /\ \A g \in m_Instances' : \A q \in Queued(inst'[g]) :
              \/ /\ g \in m_Instances /\ q \in Queued(inst[g])
                 /\ ZoneOf(inst[g]) = ZoneOf(inst'[g])
              \/ q \in ToSet(reqs) /\ ZoneOf(inst'[g]) = z
<1>1. m_Instances' = (m_Instances \ erased) \cup {h}
  BY DEF Dispatched
<1>2. m_Instances \subseteq Handles /\ nextHandle \notin m_Instances
  BY Parts
<1>3. ASSUME NEW g \in Handles \ {h}
      PROVE  Queued(inst'[g]) = Queued(inst[g]) /\ ZoneOf(inst'[g]) = ZoneOf(inst[g])
  BY DEF Dispatched, SameQueues, Queued
<1>4. z = <<z[1], z[2]>>
  OBVIOUS
<1>5. CASE h \in m_Instances \ X /\ Joinable(h, z) /\ Handed(h, reqs, f[h], chan[h])
  <2> DEFINE i == f[h]
             j == inst'[h]
  <2>1. i \in Instance /\ SameQueues(inst[h], i)
    OBVIOUS
  <2>2. i.pendingRequests \in Seq(Requests) /\ i.pendingAffirmations \in Seq(Requests)
    BY <2>1 DEF Instance
  <2>3. \/ j = [i EXCEPT !.pendingAffirmations = @ \o reqs]
        \/ j = [i EXCEPT !.pendingRequests = @ \o reqs]
    BY <1>5 DEF Handed
  <2> HIDE DEF i, j
  <2>4. /\ ZoneOf(j) = ZoneOf(i)
        /\ \/ /\ j.pendingAffirmations = i.pendingAffirmations \o reqs
              /\ j.pendingRequests = i.pendingRequests
           \/ /\ j.pendingRequests = i.pendingRequests \o reqs
              /\ j.pendingAffirmations = i.pendingAffirmations
    BY <2>1, <2>3 DEF Instance, ZoneOf
  <2>5. /\ ToSet(i.pendingAffirmations \o reqs)
             = ToSet(i.pendingAffirmations) \cup ToSet(reqs)
        /\ ToSet(i.pendingRequests \o reqs)
             = ToSet(i.pendingRequests) \cup ToSet(reqs)
    BY <2>2, QueueConcat
  <2>6. Queued(j) = Queued(i) \cup ToSet(reqs)
    BY <2>4, <2>5 DEF Queued
  <2>7. Queued(i) = Queued(inst[h]) /\ ZoneOf(i) = ZoneOf(inst[h])
    BY <2>1 DEF Queued, SameQueues
  <2>8. ZoneOf(inst[h]) = z
    BY <1>4, <1>5 DEF Joinable, ZoneOf
  <2> QED
    BY <1>1, <1>2, <1>3, <1>5, <2>4, <2>6, <2>7, <2>8 DEF j
<1>6. CASE PairStarted(h, z, SoftCapOf(z[1]), NoPassword, reqs)
  <2>1. /\ ZoneOf(inst'[h]) = z
        /\ inst'[h].pendingRequests = reqs /\ inst'[h].pendingAffirmations = <<>>
    BY <1>4, <1>6 DEF PairStarted, NewInstance, ZoneOf
  <2>2. Queued(inst'[h]) = ToSet(reqs)
    BY <2>1 DEF Queued, ToSet
  <2>3. h \notin m_Instances
    BY <1>2, <1>6 DEF PairStarted
  <2> QED
    BY <1>1, <1>2, <1>3, <2>1, <2>2, <2>3
<1> QED
  BY <1>5, <1>6 DEF Dispatched

(* A step of the master moves requests from the messages to a list of an    *)
(* Instance of the zone, from one list to another, or out with an answer.   *)
SourceOf(q, z) ==
  \/ \E h \in m_Instances : q \in Queued(inst[h]) /\ ZoneOf(inst[h]) = z
  \/ \E t \in transfers : t.req = q /\ t.target = z

Waits(q) == \E h \in m_Instances : q \in Queued(inst[h])

Answers(m) ==
  \/ \E t \in transfers : t.req = m.req /\ t.target \notin Zones
  \/ \E h \in m_Instances :
       /\ m.req \in Queued(inst[h]) /\ m = Response(m.req, inst[h])
       /\ world[h].ready

Flows ==
  /\ UNCHANGED <<status, target, answer>>
  /\ transfers' \subseteq transfers
  /\ responses \subseteq responses'
  /\ Loaded' = Loaded
  /\ \A g \in m_Instances' : \A q \in Queued(inst'[g]) : SourceOf(q, ZoneOf(inst'[g]))
  /\ \A t \in transfers \ transfers' : t.target \in Zones => Waits(t.req)'
  /\ \A h \in m_Instances : \A q \in Queued(inst[h]) :
       Waits(q)' \/ \E m \in responses' : m.req = q
  /\ \A m \in responses' \ responses : Answers(m)

(* The answer of an Instance is a process that has finished loading.        *)
LEMMA AnswerLoaded ==
  ASSUME Sound, Together, NEW h \in m_Instances, world[h].ready, NEW q
  PROVE  /\ Response(q, inst[h]).req = q
         /\ Response(q, inst[h]).answer \in Loaded
         /\ Response(q, inst[h]).answer.map = inst[h].map
         /\ Response(q, inst[h]).answer.clone = inst[h].clone
<1>1. h \in Handles
  BY Parts
<1>2. Paired(h)
  BY <1>1 DEF Together, Fit
<1>3. Response(q, inst[h]).answer = Key(world[h])
  BY <1>2 DEF Paired, Response, Key
<1> QED
  BY <1>1, <1>3 DEF Response, Loaded

LEMMA FlowsAsked ==
  ASSUME Sound, Together, Asked, Flows
  PROVE  Asked'
<1>1. UNCHANGED <<status, target>> /\ Loaded' = Loaded
  BY DEF Flows
<1>2. \A t \in transfers' : t.target = target[t.req] /\ status[t.req] # "idle"
  BY DEF Flows, Asked
<1>3. ASSUME NEW g \in m_Instances', NEW q \in Queued(inst'[g])
      PROVE  target[q] = <<inst'[g].map, inst'[g].clone>> /\ status[q] # "idle"
  <2>1. SourceOf(q, ZoneOf(inst'[g]))
    BY DEF Flows
  <2> QED
    BY <2>1 DEF SourceOf, Asked, ZoneOf
<1>4. ASSUME NEW m \in responses'
      PROVE  /\ status[m.req] # "idle"
             /\ target[m.req] \in Zones =>
                  /\ <<m.answer.map, m.answer.clone>> = target[m.req]
                  /\ m.answer \in Loaded
  <2>1. CASE m \in responses
    BY <2>1 DEF Asked
  <2>2. CASE m \notin responses
    <3>1. Answers(m)
      BY <2>2 DEF Flows
    <3>2. ASSUME NEW t \in transfers, t.req = m.req, t.target \notin Zones
          PROVE  status[m.req] # "idle" /\ target[m.req] \notin Zones
      BY <3>2 DEF Asked
    <3>3. ASSUME NEW h \in m_Instances, m.req \in Queued(inst[h]),
                 m = Response(m.req, inst[h]), world[h].ready
          PROVE  /\ status[m.req] # "idle"
                 /\ <<m.answer.map, m.answer.clone>> = target[m.req]
                 /\ m.answer \in Loaded
      <4>1. target[m.req] = <<inst[h].map, inst[h].clone>> /\ status[m.req] # "idle"
        BY <3>3 DEF Asked
      <4>2. /\ m.answer \in Loaded
            /\ m.answer.map = inst[h].map /\ m.answer.clone = inst[h].clone
        BY <3>3, AnswerLoaded
      <4> QED
        BY <4>1, <4>2
    <3> QED
      BY <3>1, <3>2, <3>3 DEF Answers
  <2> QED
    BY <2>1, <2>2
<1> QED
  BY <1>1, <1>2, <1>3, <1>4 DEF Asked

LEMMA FlowsLost ==
  ASSUME Sound, Asked, Flows, NoRequestLost
  PROVE  NoRequestLost'
<1> SUFFICES ASSUME NEW q \in Requests, status[q] = "waiting", target[q] \in Zones
             PROVE  \/ \E t \in transfers' : t.req = q
                    \/ \E m \in responses' : m.req = q
                    \/ Waits(q)'
  BY DEF NoRequestLost, Flows, Waits, Queued
<1>1. ASSUME NEW t \in transfers, t.req = q
      PROVE  (\E u \in transfers' : u.req = q) \/ Waits(q)'
  <2>1. t.target \in Zones
    BY <1>1 DEF Asked
  <2>2. CASE t \in transfers'
    BY <1>1, <2>2
  <2>3. CASE t \notin transfers'
    BY <1>1, <2>1, <2>3 DEF Flows
  <2> QED
    BY <2>2, <2>3
<1>2. ASSUME NEW m \in responses, m.req = q
      PROVE  \E n \in responses' : n.req = q
  BY <1>2 DEF Flows
<1>3. ASSUME NEW h \in m_Instances, q \in Queued(inst[h])
      PROVE  Waits(q)' \/ \E m \in responses' : m.req = q
  BY <1>3 DEF Flows
<1>4. \/ \E t \in transfers : t.req = q
      \/ \E m \in responses : m.req = q
      \/ \E h \in m_Instances : q \in Queued(inst[h])
  BY DEF NoRequestLost, Queued
<1> QED
  BY <1>1, <1>2, <1>3, <1>4

LEMMA LoadedSame ==
  ASSUME \A v \in Handles :
           /\ world'[v].ready <=> world[v].ready
           /\ world[v].ready => world'[v] = world[v]
  PROVE  Loaded' = Loaded
<1>1. {v \in Handles : world[v].ready}' = {v \in Handles : world[v].ready}
  OBVIOUS
<1> QED
  BY <1>1 DEF Loaded, Key

LEMMA DispatchFlows ==
  ASSUME Sound, Together,
         NEW h \in Handles, NEW X, NEW erased, NEW z \in Maps \X Clones,
         NEW reqs \in Seq(Requests), NEW f \in [Handles -> Instance], NEW chan,
         \A g \in Handles : SameQueues(inst[g], f[g]),
         Dispatched(h, X, erased, z, reqs, f, chan),
         UNCHANGED <<status, target, answer, responses>>,
         transfers' \subseteq transfers,
         \A q \in ToSet(reqs) : SourceOf(q, z),
         \A t \in transfers \ transfers' : t.req \in ToSet(reqs),
         \A g \in m_Instances \cap erased : \A q \in Queued(inst[g]) : q \in ToSet(reqs)
  PROVE  Flows
<1>1. /\ h \in m_Instances'
      /\ \A q \in ToSet(reqs) : q \in Queued(inst'[h])
      /\ \A g \in m_Instances \ erased : \A q \in Queued(inst[g]) :
           g \in m_Instances' /\ q \in Queued(inst'[g])
      /\ \A g \in m_Instances' : \A q \in Queued(inst'[g]) :
           \/ /\ g \in m_Instances /\ q \in Queued(inst[g])
              /\ ZoneOf(inst[g]) = ZoneOf(inst'[g])
           \/ q \in ToSet(reqs) /\ ZoneOf(inst'[g]) = z
  BY DispatchQueues
<1>2. \A q \in ToSet(reqs) : Waits(q)'
  BY <1>1 DEF Waits, Queued
<1>3. Loaded' = Loaded
  <2>1. ASSUME NEW v \in Handles, v # h PROVE world'[v] = world[v]
    BY <2>1 DEF Dispatched
  <2>2. CASE world'[h] = world[h]
    BY <2>1, <2>2, LoadedSame
  <2>3. CASE PairStarted(h, z, SoftCapOf(z[1]), NoPassword, reqs)
    <3>1. ~world'[h].ready
      BY <2>3 DEF PairStarted, StartedWorld
    <3>2. ~world[h].ready
      <4>1. h \in Nat /\ ~(h < nextHandle) /\ Fit(h)
        BY <2>3, Parts DEF PairStarted, Together
      <4> QED
        BY <4>1 DEF Fit, Paired, Lively, Exists
    <3> QED
      BY <2>1, <3>1, <3>2, LoadedSame
  <2> QED
    BY <2>2, <2>3 DEF Dispatched, Handed
<1>4. ASSUME NEW g \in m_Instances', NEW q \in Queued(inst'[g])
      PROVE  SourceOf(q, ZoneOf(inst'[g]))
  <2>1. CASE q \in ToSet(reqs) /\ ZoneOf(inst'[g]) = z
    BY <2>1
  <2>2. CASE /\ g \in m_Instances /\ q \in Queued(inst[g])
             /\ ZoneOf(inst[g]) = ZoneOf(inst'[g])
    BY <2>2 DEF SourceOf
  <2> QED
    BY <1>1, <2>1, <2>2
<1>5. ASSUME NEW g \in m_Instances, NEW q \in Queued(inst[g])
      PROVE  Waits(q)'
  <2>1. CASE g \in erased
    BY <1>2, <2>1
  <2>2. CASE g \notin erased
    BY <1>1, <2>2 DEF Waits, Queued
  <2> QED
    BY <2>1, <2>2
<1> QED
  BY <1>2, <1>3, <1>4, <1>5 DEF Flows

(* Nothing but answers is taken from the messages of the requesters.        *)
LEMMA SameQueuesSelf == \A i : SameQueues(i, i)
BY DEF SameQueues

LEMMA TransferFlows ==
  ASSUME Sound, Together, NothingFails, Asked, NEW t \in transfers,
         HandleRequestZoneTransfer(t) \/ HandleRequestPrivateZone(t)
  PROVE  Flows
<1>0. inst \in [Handles -> Instance] /\ toWorld \in [Handles -> Seq(ToWorldMessage)]
  BY Parts
<1>1. CASE HandleRequestZoneTransfer(t)
  <2>1. ~m_IsShuttingDown
    BY DEF Together, Calm, m_IsShuttingDown
  <2>2. Dispatch({}, {}, t.target, <<t.req>>, inst, toWorld)
    BY <1>1, <2>1 DEF HandleRequestZoneTransfer
  <2>3. t.req \in Requests /\ t.target \in Maps \X Clones
    BY <1>1, Parts, ZonePairs DEF RequestTypes, HandleRequestZoneTransfer
  <2> DEFINE reqs == <<t.req>>
             z == t.target
             none == {}
  <2>4. reqs \in Seq(Requests) /\ z \in Maps \X Clones
        /\ Dispatch(none, none, z, reqs, inst, toWorld)
    BY <2>2, <2>3
  <2>5. ToSet(reqs) = {t.req}
    BY DEF ToSet
  <2>6. SourceOf(t.req, z)
    BY DEF SourceOf
  <2>7. /\ UNCHANGED <<status, target, answer, responses>>
        /\ transfers' = transfers \ {t}
    BY <1>1 DEF HandleRequestZoneTransfer, requestVars
  <2>8. \A g \in m_Instances \cap none : \A q \in Queued(inst[g]) : q \in ToSet(reqs)
    OBVIOUS
  <2>9. \A u \in transfers \ transfers' : u.req \in ToSet(reqs)
    BY <2>5, <2>7
  <2>10. \A q \in ToSet(reqs) : SourceOf(q, z)
    BY <2>5, <2>6
  <2> HIDE DEF reqs, z, none
  <2>11. PICK h \in Handles : Dispatched(h, none, none, z, reqs, inst, toWorld)
    BY <1>0, <2>4, DispatchEffect
  <2> QED
    BY <1>0, <2>4, <2>7, <2>8, <2>9, <2>10, <2>11, DispatchFlows, SameQueuesSelf
<1>2. CASE HandleRequestPrivateZone(t)
  <2>1. t.target \notin Zones
    BY <1>2, ConstantsAssumption DEF HandleRequestPrivateZone
  <2>2. /\ UNCHANGED <<status, target, answer, m_Instances, inst, world>>
        /\ transfers' = transfers \ {t}
    BY <1>2 DEF HandleRequestPrivateZone, requestVars, masterVars
  <2>3. /\ responses \subseteq responses'
        /\ \A m \in responses' \ responses : m.req = t.req
    BY <1>2 DEF HandleRequestPrivateZone, Response
  <2>4. Loaded' = Loaded
    BY <2>2, LoadedSame
  <2>5. \A m \in responses' \ responses : Answers(m)
    BY <2>1, <2>3 DEF Answers
  <2>6. \A g \in m_Instances' : \A q \in Queued(inst'[g]) : SourceOf(q, ZoneOf(inst'[g]))
    BY <2>2 DEF SourceOf
  <2>7. \A h \in m_Instances : \A q \in Queued(inst[h]) : Waits(q)'
    BY <2>2 DEF Waits, Queued
  <2> QED
    BY <2>1, <2>2, <2>3, <2>4, <2>5, <2>6, <2>7 DEF Flows
<1> QED
  BY <1>1, <1>2

LEMMA TimeoutFlows ==
  ASSUME Sound, Together, NothingFails, NEW h \in Handles, AffirmationTimeout(h)
  PROVE  Flows
<1> DEFINE f == [inst EXCEPT ![h].isShuttingDown = TRUE, ![h].timedOut = TRUE]
           z == <<inst[h].map, inst[h].clone>>
           reqs == inst[h].pendingAffirmations
           stop == <<Msg("SHUTDOWN")>>
           chan == SentTo(toWorld, inst[h].addr, stop)
           skipped == {h}
           none == {}
<1>1. h \in m_Instances /\ reqs # <<>> /\ Dispatch(skipped, none, z, reqs, f, chan)
      /\ UNCHANGED <<transfers, responses, status, target, answer>>
  BY DEF AffirmationTimeout, requestVars
<1>2. inst[h] \in Instance /\ inst \in [Handles -> Instance]
      /\ toWorld \in [Handles -> Seq(ToWorldMessage)]
  BY Parts
<1>3. z \in Maps \X Clones /\ reqs \in Seq(Requests)
  BY <1>2 DEF Instance
<1>4. stop \in Seq(ToWorldMessage)
  BY DEF Msg, ToWorldMessage
<1>5. chan \in [Handles -> Seq(ToWorldMessage)]
  <2> HIDE DEF stop
  <2> QED
    BY <1>2, <1>4, SentToType
<1>6. /\ f \in [Handles -> Instance]
      /\ \A v \in Handles : SameQueues(inst[v], f[v]) /\ f[v].ready = inst[v].ready
  <2>1. f \in [Handles -> Instance]
    BY <1>2 DEF Instance
  <2>2. ASSUME NEW v \in Handles, v # h
        PROVE  SameQueues(inst[v], f[v]) /\ f[v].ready = inst[v].ready
    BY <1>2, <2>2 DEF SameQueues
  <2>3. SameQueues(inst[h], f[h]) /\ f[h].ready = inst[h].ready
    BY <1>2 DEF SameQueues, Instance, ZoneOf
  <2> QED
    BY <2>1, <2>2, <2>3
<1>7. \A v \in m_Instances : f[v].ready = inst[v].ready
  BY <1>6, Parts
<1>8. \A q \in ToSet(reqs) : SourceOf(q, z)
  BY <1>1 DEF SourceOf, Queued, ZoneOf
<1>9. /\ \A g \in m_Instances \cap none : \A q \in Queued(inst[g]) : q \in ToSet(reqs)
      /\ \A u \in transfers \ transfers' : u.req \in ToSet(reqs)
      /\ transfers' \subseteq transfers
  BY <1>1
<1> HIDE DEF f, chan, z, reqs, skipped, none
<1>10. PICK g \in Handles : Dispatched(g, skipped, none, z, reqs, f, chan)
  BY <1>1, <1>3, <1>5, <1>6, <1>7, DispatchEffect
<1> QED
  BY <1>1, <1>3, <1>6, <1>8, <1>9, <1>10, DispatchFlows

(* A message of w is handled, and requests of its Instance are answered.    *)
LEMMA HeardFlows ==
  ASSUME Sound, Together, NEW w \in m_Instances,
         UNCHANGED <<m_Instances, world, transfers, status, target, answer>>,
         \A v \in Handles \ {w} : inst'[v] = inst[v],
         ZoneOf(inst'[w]) = ZoneOf(inst[w]),
         Queued(inst'[w]) \subseteq Queued(inst[w]),
         responses \subseteq responses',
         \A m \in responses' \ responses :
           /\ m.req \in Queued(inst[w]) /\ m = Response(m.req, inst[w])
           /\ world[w].ready,
         \A q \in Queued(inst[w]) \ Queued(inst'[w]) : \E m \in responses' : m.req = q
  PROVE  Flows
<1>1. m_Instances \subseteq Handles
  BY Parts
<1>2. \A m \in responses' \ responses : Answers(m)
  BY DEF Answers
<1>3. Loaded' = Loaded
  BY LoadedSame
<1>4. ASSUME NEW g \in m_Instances', NEW q \in Queued(inst'[g])
      PROVE  SourceOf(q, ZoneOf(inst'[g]))
  <2>1. g \in m_Instances /\ q \in Queued(inst[g]) /\ ZoneOf(inst'[g]) = ZoneOf(inst[g])
    BY <1>1
  <2> QED
    BY <2>1 DEF SourceOf
<1>5. ASSUME NEW h \in m_Instances, NEW q \in Queued(inst[h])
      PROVE  Waits(q)' \/ \E m \in responses' : m.req = q
  <2>1. CASE q \in Queued(inst'[h])
    BY <2>1 DEF Waits, Queued
  <2>2. CASE q \notin Queued(inst'[h])
    BY <1>1, <2>2
  <2> QED
    BY <2>1, <2>2
<1> QED
  BY <1>2, <1>3, <1>4, <1>5 DEF Flows

(* One that is not about a request.                                         *)
LEMMA QuietFlows ==
  ASSUME Sound, Together, NEW w \in m_Instances,
         UNCHANGED <<m_Instances, world, transfers, responses, status, target, answer>>,
         \A v \in Handles \ {w} : inst'[v] = inst[v],
         SameQueues(inst[w], inst'[w])
  PROVE  Flows
<1>1. ZoneOf(inst'[w]) = ZoneOf(inst[w]) /\ Queued(inst'[w]) = Queued(inst[w])
  BY DEF SameQueues, Queued
<1> QED
  BY <1>1, HeardFlows

LEMMA RemoveOne ==
  ASSUME NEW S, NEW s \in Seq(S), NEW k \in 1..Len(s)
  PROVE  /\ ToSet(RemoveAt(s, k)) \subseteq ToSet(s)
         /\ ToSet(s) \subseteq ToSet(RemoveAt(s, k)) \cup {s[k]}
<1>1. RemoveAt(s, k) \in Seq(S)
  BY RemoveAtProperties
<1>2. s[k] \in ToSet(s)
  BY DEF ToSet
<1> DEFINE t == RemoveAt(s, k)
<1>3. \A x : Occurrences(s, {x}) = Occurrences(t, {x}) + (IF s[k] \in {x} THEN 1 ELSE 0)
  BY OccurrencesRemoveAt
<1>4. \A x : /\ Occurrences(s, {x}) \in Nat
             /\ Occurrences(s, {x}) # 0 <=> \E i \in 1..Len(s) : s[i] \in {x}
  BY OccurrencesType
<1> HIDE DEF t
<1>5. \A x : /\ Occurrences(t, {x}) \in Nat
             /\ Occurrences(t, {x}) # 0 <=> \E i \in 1..Len(t) : t[i] \in {x}
  BY <1>1, OccurrencesType DEF t
<1>6. DOMAIN s = 1..Len(s) /\ DOMAIN t = 1..Len(t)
  BY <1>1, LenProperties DEF t
<1>7. \A x : x \in ToSet(s) <=> Occurrences(s, {x}) # 0
  BY <1>4, <1>6 DEF ToSet
<1>8. \A x : x \in ToSet(t) <=> Occurrences(t, {x}) # 0
  BY <1>5, <1>6 DEF ToSet
<1>9. ASSUME NEW x PROVE /\ x \in ToSet(t) => x \in ToSet(s)
                         /\ x \in ToSet(s) => x \in ToSet(t) \/ x = s[k]
  <2>1. CASE x = s[k]
    BY <1>2, <2>1
  <2>2. CASE x # s[k]
    <3>1. Occurrences(s, {x}) = Occurrences(t, {x}) + 0
      BY <1>3, <2>2
    <3>3. Occurrences(t, {x}) \in Nat
      BY <1>5
    <3>2. Occurrences(s, {x}) = Occurrences(t, {x})
      BY <3>1, <3>3
    <3> QED
      BY <1>7, <1>8, <3>2
  <2> QED
    BY <2>1, <2>2
<1> QED
  BY <1>9 DEF t

LEMMA ReadyFlows ==
  ASSUME Sound, Together, NothingFails, NEW w \in Handles, HandleWorldReady(w)
  PROVE  Flows
<1>1. Receive(w, "WORLD_READY") /\ UNCHANGED <<m_Instances, world>>
      /\ UNCHANGED <<transfers, status, target, answer>>
  BY DEF HandleWorldReady, Receive, requestVars
<1>2. /\ inst[w] \in Instance /\ inst \in [Handles -> Instance]
      /\ NoHandle \notin Handles /\ ~inst[w].isShuttingDown /\ w \in m_Instances
      /\ FindInstanceById(world[w].map, world[w].id)
           = IF Private(inst[w]) \/ inst[w].isShuttingDown THEN NoHandle ELSE w
  BY <1>1, Sender
<1>3. CASE Private(inst[w])
  <2>1. UNCHANGED <<inst, responses>>
    BY <1>2, <1>3 DEF HandleWorldReady
  <2> QED
    BY <1>1, <1>2, <2>1, QuietFlows, SameQueuesSelf
<1>4. CASE ~Private(inst[w])
  <2>1. /\ inst' = [inst EXCEPT ![w].ready = TRUE, ![w].pendingRequests = <<>>]
        /\ responses' = responses \cup
             {Response(q, inst[w]) : q \in ToSet(inst[w].pendingRequests)}
    BY <1>2, <1>4 DEF HandleWorldReady
  <2>2. \A v \in Handles \ {w} : inst'[v] = inst[v]
    BY <1>2, <2>1
  <2>3. /\ inst'[w].pendingRequests = <<>>
        /\ inst'[w].pendingAffirmations = inst[w].pendingAffirmations
        /\ ZoneOf(inst'[w]) = ZoneOf(inst[w])
    BY <1>2, <2>1 DEF Instance, ZoneOf
  <2>4. Queued(inst'[w]) = ToSet(inst[w].pendingAffirmations)
    BY <2>3 DEF Queued, ToSet
  <2>5. world[w].ready
    <3>1. toMaster[w] # <<>> /\ Head(toMaster[w]).type = "WORLD_READY"
      BY <1>1 DEF Receive
    <3>2. toMaster[w] \in Seq(ToMasterMessage) /\ Ordered(toMaster[w], world[w])
      BY Parts DEF Together, Fit
    <3>3. Head(toMaster[w]) = toMaster[w][1] /\ 1 \in DOMAIN toMaster[w]
      BY <3>1, <3>2, EmptySeq, HeadTailProperties, LenProperties
    <3> QED
      BY <3>1, <3>2, <3>3 DEF Ordered
  <2>6. ASSUME NEW m \in responses' \ responses
        PROVE  /\ m.req \in Queued(inst[w]) /\ m = Response(m.req, inst[w])
               /\ world[w].ready
    <3>1. PICK q \in ToSet(inst[w].pendingRequests) : m = Response(q, inst[w])
      BY <2>1, <2>6
    <3>2. m.req = q
      BY <3>1 DEF Response
    <3> QED
      BY <2>5, <3>1, <3>2 DEF Queued
  <2>7. ASSUME NEW q \in Queued(inst[w]) \ Queued(inst'[w])
        PROVE  \E m \in responses' : m.req = q
    <3>1. q \in ToSet(inst[w].pendingRequests)
      BY <2>4, <2>7 DEF Queued
    <3>2. Response(q, inst[w]).req = q
      BY DEF Response
    <3> QED
      BY <2>1, <3>1, <3>2
  <2>8. Queued(inst'[w]) \subseteq Queued(inst[w])
    BY <2>4 DEF Queued
  <2> QED
    BY <1>1, <1>2, <2>1, <2>2, <2>3, <2>6, <2>7, <2>8, HeardFlows
<1> QED
  BY <1>3, <1>4

LEMMA AffirmedFlows ==
  ASSUME Sound, Together, NothingFails, NEW w \in Handles,
         HandleAffirmTransferResponse(w)
  PROVE  Flows
<1>1. /\ Receive(w, "AFFIRM_TRANSFER_RESPONSE") /\ UNCHANGED <<m_Instances, world>>
      /\ UNCHANGED <<transfers, status, target, answer>>
  BY DEF HandleAffirmTransferResponse, Receive, requestVars
<1>2. /\ inst[w] \in Instance /\ inst \in [Handles -> Instance]
      /\ NoHandle \notin Handles /\ w \in m_Instances
      /\ GetInstanceBySysAddr(world[w].port)
           = IF Private(inst[w]) THEN NoHandle ELSE w
  BY <1>1, Sender
<1> DEFINE p == inst[w].pendingAffirmations
           id == Head(toMaster[w]).requestID
           matches == {k \in DOMAIN p : p[k][2] = id}
           k == Min(matches)
           rest == RemoveAt(p, k)
           done == [inst EXCEPT ![w].pendingAffirmations = rest,
                                ![w].timedOut = @ /\ rest # <<>>]
<1>3. /\ Private(inst[w]) \/ matches = {} => UNCHANGED <<inst, responses>>
      /\ ~(Private(inst[w]) \/ matches = {}) =>
           /\ inst' = done
           /\ responses' = responses \cup {Response(p[k], inst[w])}
  <2>1. CASE Private(inst[w])
    BY <1>2, <2>1 DEF HandleAffirmTransferResponse
  <2>2. CASE ~Private(inst[w])
    <3>1. GetInstanceBySysAddr(world[w].port) = w /\ w # NoHandle
      BY <1>2, <2>2
    <3>2. matches = {} => UNCHANGED <<inst, responses>>
      BY <3>1 DEF HandleAffirmTransferResponse
    <3>3. matches # {} => inst' = done
      BY <3>1 DEF HandleAffirmTransferResponse
    <3>4. matches # {} => responses' = responses \cup {Response(p[k], inst[w])}
      BY <3>1 DEF HandleAffirmTransferResponse
    <3> HIDE DEF matches, done, p, k
    <3> QED
      BY <2>2, <3>2, <3>3, <3>4
  <2> QED
    BY <2>1, <2>2
<1>4. CASE Private(inst[w]) \/ matches = {}
  <2>1. UNCHANGED <<inst, responses>>
    BY <1>3, <1>4
  <2> QED
    BY <1>1, <1>2, <2>1, QuietFlows, SameQueuesSelf
<1>5. CASE ~(Private(inst[w]) \/ matches = {})
  <2>1. p \in Seq(Requests) /\ DOMAIN p = 1..Len(p)
    BY <1>2, LenProperties DEF Instance
  <2>2. k \in 1..Len(p)
    <3>1. matches \subseteq Nat /\ matches \subseteq 1..Len(p) /\ matches # {}
      BY <1>5, <2>1
    <3> HIDE DEF matches, p
    <3> QED
      BY <3>1, MinOfNats
  <2>3. /\ \A v \in Handles \ {w} : done[v] = inst[v]
        /\ done[w].pendingAffirmations = rest
        /\ done[w].pendingRequests = inst[w].pendingRequests
        /\ ZoneOf(done[w]) = ZoneOf(inst[w])
    <3> HIDE DEF rest
    <3> QED
      BY <1>2 DEF Instance, ZoneOf
  <2>4. /\ inst' = done
        /\ responses' = responses \cup {Response(p[k], inst[w])}
    BY <1>3, <1>5
  <2>5. p[k] \in ToSet(p)
    BY <2>1, <2>2 DEF ToSet
  <2> HIDE DEF matches, k
  <2>6. ToSet(rest) \subseteq ToSet(p) /\ ToSet(p) \subseteq ToSet(rest) \cup {p[k]}
    BY <2>1, <2>2, RemoveOne
  <2>7. world[w].ready
    <3>1. p # <<>>
      BY <2>1, <2>2
    <3>2. inst[w].ready
      BY <1>2, <3>1 DEF Sound, PendingMatchesReadiness
    <3> QED
      BY <1>2, <1>5, <3>2 DEF Together, Fit, Known
  <2> HIDE DEF done, rest
  <2>8. /\ Queued(inst'[w]) = ToSet(inst[w].pendingRequests) \cup ToSet(rest)
        /\ Queued(inst[w]) = ToSet(inst[w].pendingRequests) \cup ToSet(p)
        /\ ZoneOf(inst'[w]) = ZoneOf(inst[w])
    BY <2>3, <2>4 DEF Queued
  <2>9. Response(p[k], inst[w]).req = p[k]
    BY DEF Response
  <2> HIDE DEF p
  <2>10. Queued(inst'[w]) \subseteq Queued(inst[w])
    BY <2>6, <2>8
  <2>11. \A m \in responses' \ responses :
           /\ m.req \in Queued(inst[w]) /\ m = Response(m.req, inst[w])
           /\ world[w].ready
    BY <2>4, <2>5, <2>7, <2>8, <2>9
  <2>12. \A q \in Queued(inst[w]) \ Queued(inst'[w]) : \E m \in responses' : m.req = q
    BY <2>4, <2>6, <2>8, <2>9
  <2>13. responses \subseteq responses' /\ \A v \in Handles \ {w} : inst'[v] = inst[v]
    BY <2>3, <2>4
  <2> QED
    BY <1>1, <1>2, <2>8, <2>10, <2>11, <2>12, <2>13, HeardFlows
<1> QED
  BY <1>4, <1>5

LEMMA PacketFlows ==
  ASSUME Sound, Together, NothingFails, NEW w \in Handles,
         HandleServerInfo(w) \/ HandlePlayerAdded(w) \/ HandlePlayerRemoved(w)
           \/ HandleShutdownResponse(w)
  PROVE  Flows
<1>1. CASE HandleServerInfo(w)
  <2>1. Receive(w, "SERVER_INFO") /\ UNCHANGED <<world, responses>>
        /\ UNCHANGED <<transfers, status, target, answer>>
    BY <1>1 DEF HandleServerInfo, Receive, requestVars
  <2>2. /\ inst[w] \in Instance /\ inst \in [Handles -> Instance] /\ w \in m_Instances
        /\ NoHandle \notin Handles /\ IsPortInUse(world[w].port)
        /\ FindInstanceById(world[w].map, world[w].id)
             = IF Private(inst[w]) \/ inst[w].isShuttingDown THEN NoHandle ELSE w
    BY <2>1, Sender
  <2>3. /\ inst' \in {inst, [inst EXCEPT ![w].addr = world[w].port]}
        /\ UNCHANGED m_Instances
    BY <1>1, <2>2 DEF HandleServerInfo
  <2>4. (\A v \in Handles \ {w} : inst'[v] = inst[v]) /\ SameQueues(inst[w], inst'[w])
    BY <2>2, <2>3 DEF SameQueues, Instance, ZoneOf
  <2> QED
    BY <2>1, <2>2, <2>3, <2>4, QuietFlows
<1>2. CASE HandlePlayerAdded(w)
  <2>1. Receive(w, "PLAYER_ADDED") /\ UNCHANGED <<m_Instances, world, responses>>
        /\ UNCHANGED <<transfers, status, target, answer>>
    BY <1>2 DEF HandlePlayerAdded, Receive, requestVars
  <2>2. /\ inst[w] \in Instance /\ inst \in [Handles -> Instance] /\ w \in m_Instances
        /\ NoHandle \notin Handles
        /\ FindInstanceById(world[w].map, world[w].id)
             = IF Private(inst[w]) \/ inst[w].isShuttingDown THEN NoHandle ELSE w
    BY <2>1, Sender
  <2>3. inst' \in {inst, [inst EXCEPT ![w].clients = @ + 1]}
    BY <1>2, <2>2 DEF HandlePlayerAdded
  <2>4. (\A v \in Handles \ {w} : inst'[v] = inst[v]) /\ SameQueues(inst[w], inst'[w])
    BY <2>2, <2>3 DEF SameQueues, Instance, ZoneOf
  <2> QED
    BY <2>1, <2>2, <2>3, <2>4, QuietFlows
<1>3. CASE HandlePlayerRemoved(w)
  <2>1. Receive(w, "PLAYER_REMOVED") /\ UNCHANGED <<m_Instances, world, responses>>
        /\ UNCHANGED <<transfers, status, target, answer>>
    BY <1>3 DEF HandlePlayerRemoved, Receive, requestVars
  <2>2. /\ inst[w] \in Instance /\ inst \in [Handles -> Instance] /\ w \in m_Instances
        /\ NoHandle \notin Handles
        /\ FindInstanceById(world[w].map, world[w].id)
             = IF Private(inst[w]) \/ inst[w].isShuttingDown THEN NoHandle ELSE w
    BY <2>1, Sender
  <2>3. inst' \in {inst, [inst EXCEPT ![w].clients = IF @ = 0 THEN 0 ELSE @ - 1]}
    BY <1>3, <2>2 DEF HandlePlayerRemoved
  <2>4. (\A v \in Handles \ {w} : inst'[v] = inst[v]) /\ SameQueues(inst[w], inst'[w])
    BY <2>2, <2>3 DEF SameQueues, Instance, ZoneOf
  <2> QED
    BY <2>1, <2>2, <2>3, <2>4, QuietFlows
<1>4. CASE HandleShutdownResponse(w)
  <2>1. Receive(w, "SHUTDOWN_RESPONSE") /\ UNCHANGED <<m_Instances, world, responses>>
        /\ UNCHANGED <<transfers, status, target, answer>>
    BY <1>4 DEF HandleShutdownResponse, Receive, requestVars
  <2>2. /\ inst[w] \in Instance /\ inst \in [Handles -> Instance] /\ w \in m_Instances
        /\ NoHandle \notin Handles
        /\ GetInstanceBySysAddr(world[w].port)
             = IF Private(inst[w]) THEN NoHandle ELSE w
    BY <2>1, Sender
  <2>3. inst' \in {inst, [inst EXCEPT ![w].isShuttingDown = TRUE]}
    BY <1>4, <2>2 DEF HandleShutdownResponse
  <2>4. (\A v \in Handles \ {w} : inst'[v] = inst[v]) /\ SameQueues(inst[w], inst'[w])
    BY <2>2, <2>3 DEF SameQueues, Instance, ZoneOf
  <2> QED
    BY <2>1, <2>2, <2>3, <2>4, QuietFlows
<1> QED
  BY <1>1, <1>2, <1>3, <1>4

(* The last message of a world finds its Instance ready, so that nothing    *)
(* waits in pendingRequests when it is erased.                              *)
LEMMA LastMessage ==
  ASSUME Sound, Together, NEW w \in Handles, Receive(w, "DISCONNECTED"),
         ~Private(inst[w]), w \in m_Instances
  PROVE  inst[w].pendingRequests = <<>>
<1> DEFINE m == toMaster[w]
<1>1. m # <<>> /\ Head(m).type = "DISCONNECTED"
  BY DEF Receive
<1>2. m \in Seq(ToMasterMessage) /\ Fit(w) /\ world[w] \in WorldProcess
  BY Parts DEF Together
<1>3. Len(m) \in Nat /\ Len(m) # 0 /\ DOMAIN m = 1..Len(m)
  BY <1>1, <1>2, EmptySeq, LenProperties
<1>4. Head(m) = m[1] /\ 1 \in DOMAIN m
  BY <1>1, <1>2, <1>3, HeadTailProperties
<1>5. 1 = Len(m) /\ world[w].state = "gone"
  <2>1. Ordered(m, world[w])
    BY <1>2 DEF Fit
  <2> HIDE DEF m
  <2>2. \A i \in DOMAIN m :
          m[i].type = "DISCONNECTED" => i = Len(m) /\ world[w].state = "gone"
    BY <2>1 DEF Ordered
  <2>3. m[1].type = "DISCONNECTED" /\ 1 \in DOMAIN m
    BY <1>1, <1>4
  <2> DEFINE one == 1
  <2>4. m[one].type = "DISCONNECTED" /\ one \in DOMAIN m
    BY <2>3
  <2> HIDE DEF one
  <2>5. one = Len(m) /\ world[w].state = "gone"
    BY <2>2, <2>4
  <2> QED
    BY <2>5 DEF one
<1>6. ~Mentions(m, "WORLD_READY")
  BY <1>1, <1>3, <1>4, <1>5 DEF Mentions
<1>7. world[w].ready
  BY <1>2, <1>5 DEF Fit, Lively
<1>8. inst[w].ready
  BY <1>2, <1>6, <1>7 DEF Fit, Known
<1> QED
  BY <1>8 DEF Sound, PendingMatchesReadiness

LEMMA DisconnectedFlows ==
  ASSUME Sound, Together, NothingFails, NEW w \in Handles, HandleDisconnected(w)
  PROVE  Flows
<1>1. Receive(w, "DISCONNECTED") /\ UNCHANGED responses
      /\ UNCHANGED <<transfers, status, target, answer>>
  BY DEF HandleDisconnected, Receive, requestVars
<1>2. /\ w \in m_Instances /\ inst[w] \in Instance /\ inst \in [Handles -> Instance]
      /\ NoHandle \notin Handles /\ toWorld \in [Handles -> Seq(ToWorldMessage)]
      /\ GetInstanceBySysAddr(world[w].port)
           = IF Private(inst[w]) THEN NoHandle ELSE w
  BY <1>1, Sender, Parts
<1>3. CASE Private(inst[w])
  <2>1. UNCHANGED <<m_Instances, inst, world>>
    BY <1>2, <1>3 DEF HandleDisconnected, masterVars
  <2> QED
    BY <1>1, <1>2, <2>1, QuietFlows, SameQueuesSelf
<1>4. CASE ~Private(inst[w])
  <2>1. RemoveInstance(w)
    BY <1>2, <1>4 DEF HandleDisconnected
  <2>2. ~ShouldShutdown
    BY DEF Together, Calm, ShouldShutdown
  <2>3. inst[w].pendingRequests = <<>>
    BY <1>1, <1>2, <1>4, LastMessage
  <2> DEFINE reqs == inst[w].pendingAffirmations
             z == <<inst[w].map, inst[w].clone>>
             own == {w}
  <2>4. Queued(inst[w]) = ToSet(reqs)
    BY <2>3 DEF Queued, ToSet
  <2>5. CASE reqs = <<>>
    <3>1. m_Instances' = m_Instances \ {w} /\ UNCHANGED <<inst, world>>
      BY <2>1, <2>5 DEF RemoveInstance
    <3>2. Queued(inst[w]) = {}
      BY <2>4, <2>5 DEF ToSet
    <3>3. Loaded' = Loaded
      BY <3>1, LoadedSame
    <3>4. \A g \in m_Instances' : \A q \in Queued(inst'[g]) : SourceOf(q, ZoneOf(inst'[g]))
      BY <3>1 DEF SourceOf
    <3>5. ASSUME NEW h \in m_Instances, NEW q \in Queued(inst[h]) PROVE Waits(q)'
      <4>1. h # w
        BY <3>2, <3>5
      <4> QED
        BY <3>1, <4>1 DEF Waits, Queued
    <3> QED
      BY <1>1, <3>3, <3>4, <3>5 DEF Flows
  <2>6. CASE reqs # <<>>
    <3>1. Dispatch(own, own, z, reqs, inst, toWorld)
      BY <2>1, <2>2, <2>6 DEF RemoveInstance
    <3>2. z \in Maps \X Clones /\ reqs \in Seq(Requests)
      BY <1>2 DEF Instance
    <3>3. \A q \in ToSet(reqs) : SourceOf(q, z)
      BY <1>2, <2>4 DEF SourceOf, ZoneOf
    <3>4. \A g \in m_Instances \cap own : \A q \in Queued(inst[g]) : q \in ToSet(reqs)
      BY <2>4
    <3> HIDE DEF z, reqs, own
    <3>5. PICK g \in Handles : Dispatched(g, own, own, z, reqs, inst, toWorld)
      BY <1>2, <3>1, <3>2, DispatchEffect
    <3> QED
      BY <1>1, <1>2, <3>2, <3>3, <3>4, <3>5, DispatchFlows, SameQueuesSelf
  <2> QED
    BY <2>5, <2>6
<1> QED
  BY <1>3, <1>4

(* A command starts a world nobody waits for.                               *)
Commanded(h, z, cap, pw, a) ==
  /\ h \in m_Instances \/ h = nextHandle
  /\ m_Instances' = m_Instances \cup {h}
  /\ StartIfNew(h, z)
  /\ inst' = WithInstance(inst, h, z, cap, pw, a)

LEMMA CommandFlows ==
  ASSUME Sound, Together, NothingFails, CommandStep
  PROVE  Flows
<1>0. inst \in [Handles -> Instance] /\ world \in [Handles -> WorldProcess]
      /\ m_Instances \subseteq Handles /\ nextHandle \notin m_Instances
      /\ nextHandle \in Nat
  BY Parts
<1> DEFINE Command == \E h \in Handles, z \in Maps \X Clones, cap \in Nat,
                         pw \in Passwords \cup {NoPassword},
                         a \in UninitialisedAddrs : Commanded(h, z, cap, pw, a)
<1>1. UNCHANGED <<transfers, responses, status, target, answer>> /\ Command
  <2>1. ~OnSignal
    BY DEF NothingFails, OnSignal
  <2>2. ASSUME NEW map \in Maps, HandlePrepZone(map) PROVE Command
    <3> DEFINE z == <<map, 0>>
               h == GetInstance({}, z)
    <3>1. /\ h \in Handles
          /\ m_Instances' = m_Instances \cup {h}
          /\ StartIfNew(h, z)
      BY <2>2 DEF HandlePrepZone
    <3>2. PICK a \in UninitialisedAddrs :
            inst' = WithInstance(inst, h, z, SoftCapOf(map), NoPassword, a)
      BY <2>2 DEF HandlePrepZone
    <3>3. h \in m_Instances \/ h = nextHandle
      BY <3>1, GetInstanceResult, HandleFacts, Parts DEF NoHandle
    <3>4. z \in Maps \X Clones /\ SoftCapOf(map) \in Nat
      BY ZoneParts, SoftCapType
    <3> HIDE DEF h, z
    <3>5. Commanded(h, z, SoftCapOf(map), NoPassword, a)
      BY <3>1, <3>2, <3>3 DEF Commanded
    <3> QED
      BY <3>1, <3>4, <3>5
  <2>3. ASSUME NEW z \in Zones, NEW pw \in Passwords, HandleCreatePrivateZone(z, pw)
        PROVE  Command
    <3>1. PICK a \in UninitialisedAddrs :
            inst' = WithInstance(inst, nextHandle, z, MaxCapPrivate, pw, a)
      BY <2>3 DEF HandleCreatePrivateZone
    <3>2. Commanded(nextHandle, z, MaxCapPrivate, pw, a)
      BY <2>3, <3>1 DEF HandleCreatePrivateZone, Commanded
    <3>3. MaxCapPrivate \in Nat /\ z \in Maps \X Clones /\ nextHandle \in Handles
      BY <2>3, ZonePairs DEF MaxCapPrivate, HandleCreatePrivateZone
    <3> QED
      BY <3>2, <3>3
  <2>4. UNCHANGED <<transfers, responses, status, target, answer>>
    BY <2>1 DEF CommandStep, HandlePrepZone, HandleCreatePrivateZone, requestVars
  <2> HIDE DEF Command
  <2> QED
    BY <2>1, <2>2, <2>3, <2>4 DEF CommandStep
<1>2. PICK h \in Handles, z \in Maps \X Clones, cap \in Nat,
           pw \in Passwords \cup {NoPassword}, a \in UninitialisedAddrs :
        Commanded(h, z, cap, pw, a)
  BY <1>1
<1>3. CASE h # nextHandle
  <2>1. UNCHANGED <<m_Instances, inst, world>>
    BY <1>2, <1>3 DEF Commanded, StartIfNew, WithInstance
  <2>2. Loaded' = Loaded
    BY <2>1, LoadedSame
  <2>3. \A g \in m_Instances' : \A q \in Queued(inst'[g]) : SourceOf(q, ZoneOf(inst'[g]))
    BY <2>1 DEF SourceOf
  <2>4. \A g \in m_Instances : \A q \in Queued(inst[g]) : Waits(q)'
    BY <2>1 DEF Waits, Queued
  <2> QED
    BY <1>1, <2>2, <2>3, <2>4 DEF Flows
<1>4. CASE h = nextHandle
  <2> DEFINE newi == NewInstance(z[1], z[2], NextInstanceId, GetFreePort, cap, pw, a)
             neww == StartedWorld(z[1], z[2], NextInstanceId, GetFreePort)
  <2>1. inst' = [inst EXCEPT ![h] = newi] /\ world' = [world EXCEPT ![h] = neww]
    BY <1>2, <1>4 DEF Commanded, StartIfNew, WithInstance
  <2>2. newi.pendingRequests = <<>> /\ newi.pendingAffirmations = <<>> /\ ~neww.ready
    BY DEF NewInstance, StartedWorld
  <2> HIDE DEF newi, neww
  <2>3. Queued(inst'[h]) = {}
    <3>1. inst'[h] = newi
      BY <1>0, <2>1
    <3> QED
      BY <2>2, <3>1 DEF Queued, ToSet
  <2>4. \A g \in Handles \ {h} : inst'[g] = inst[g] /\ world'[g] = world[g]
    BY <1>0, <2>1
  <2>5. ~world[h].ready /\ ~world'[h].ready
    <3>1. h \in Nat /\ ~(h < nextHandle) /\ Fit(h)
      BY <1>0, <1>4 DEF Together
    <3>2. ~world[h].ready
      BY <3>1 DEF Fit, Paired, Lively, Exists
    <3> QED
      BY <1>0, <2>1, <2>2, <3>2
  <2>6. Loaded' = Loaded
    BY <2>4, <2>5, LoadedSame
  <2>7. ASSUME NEW g \in m_Instances', NEW q \in Queued(inst'[g])
        PROVE  SourceOf(q, ZoneOf(inst'[g]))
    <3>1. g \in m_Instances /\ g # h
      BY <1>2, <2>3, <2>7 DEF Commanded
    <3>2. inst'[g] = inst[g]
      BY <1>0, <2>4, <3>1
    <3> QED
      BY <2>7, <3>1, <3>2 DEF SourceOf
  <2>8. ASSUME NEW g \in m_Instances, NEW q \in Queued(inst[g]) PROVE Waits(q)'
    <3>1. g # h /\ g \in m_Instances'
      BY <1>0, <1>2, <1>4 DEF Commanded
    <3>2. inst'[g] = inst[g]
      BY <1>0, <2>4, <3>1
    <3> QED
      BY <2>8, <3>1, <3>2 DEF Waits, Queued
  <2> QED
    BY <1>1, <2>6, <2>7, <2>8 DEF Flows
<1> QED
  BY <1>3, <1>4

(* What the processes and the players do: no request is asked or answered.  *)
Elsewhere ==
  /\ UNCHANGED <<m_Instances, inst, transfers, responses, target, answer>>
  /\ Loaded \subseteq Loaded'
  /\ \A q \in Requests : /\ status'[q] \in {"idle", "waiting"} => status'[q] = status[q]
                         /\ status[q] \in {"idle", "waiting"} => status'[q] = status[q]

LEMMA WorldStepElsewhere ==
  ASSUME Sound, Together, NothingFails, NEW w \in Handles,
         WorldProcessStep(w) \/ WorldFallsIdle(w)
  PROVE  /\ Elsewhere
         /\ Loaded' = Loaded \/ Loaded' = Loaded \cup {Key(world[w])}
<1>1. /\ world[w].linked <=> world[w].state = "up"
      /\ world[w] \in WorldProcess /\ world \in [Handles -> WorldProcess]
      /\ Serving
  BY Linked
<1>2. ~WorldFailsToStart(w)
  BY <1>1, PortIsFree DEF WorldFailsToStart
<1>3. ~WorldReconnects(w) /\ ~WorldMissesMaster(w)
  BY <1>1 DEF WorldReconnects, WorldMissesMaster, SignalsItself
<1>4. UNCHANGED <<m_Instances, inst, transfers, responses, target, answer>>
  BY <1>2, <1>3
     DEF WorldProcessStep, WorldStarts, WorldBecomesReady, WorldAffirms, WorldReads,
         WorldReceivesShutdown, WorldExits, Gone, WorldFallsIdle, SignalsItself,
         masterVars, requestVars
<1>5. \/ UNCHANGED world
      \/ world' = [world EXCEPT ![w].state = "up", ![w].linked = TRUE]
      \/ world' = [world EXCEPT ![w].ready = TRUE]
      \/ world' = [world EXCEPT ![w].signalled = TRUE]
      \/ world' = [world EXCEPT ![w].state = "gone", ![w].linked = FALSE]
  BY <1>2, <1>3
     DEF WorldProcessStep, WorldStarts, WorldBecomesReady, WorldAffirms,
         WorldReceivesShutdown, WorldExits, Gone, WorldFallsIdle, SignalsItself
<1>6. /\ \A v \in Handles \ {w} : world'[v] = world[v]
      /\ Key(world'[w]) = Key(world[w])
      /\ world[w].ready => world'[w].ready
  BY <1>1, <1>5 DEF Key, WorldProcess
<1>7. \A v \in Handles :
        /\ Key(world'[v]) = Key(world[v])
        /\ world[v].ready => world'[v].ready
        /\ v # w => (world'[v].ready <=> world[v].ready)
  BY <1>6
<1>8. Loaded \subseteq Loaded' /\ Loaded' \subseteq Loaded \cup {Key(world[w])}
  <2>1. Loaded = {Key(world[v]) : v \in {u \in Handles : world[u].ready}}
    BY DEF Loaded
  <2>2. Loaded' = {Key(world'[v]) : v \in {u \in Handles : world'[u].ready}}
    BY DEF Loaded, Key
  <2> QED
    BY <1>7, <2>1, <2>2
<1>9. \A q \in Requests : /\ status'[q] \in {"idle", "waiting"} => status'[q] = status[q]
                          /\ status[q] \in {"idle", "waiting"} => status'[q] = status[q]
  <2>1. CASE WorldExits(w)
    <3>1. status' = [q \in Requests |->
                       IF location[q] = w THEN "left" ELSE status[q]]
      BY <2>1 DEF WorldExits, Gone
    <3>2. ASSUME NEW q \in Requests, location[q] = w
          PROVE  status[q] = "playing"
      <4>1. w # 0
        BY DEF Handles
      <4> QED
        BY <3>2, <4>1 DEF Together, Playing
    <3> QED
      BY <3>1, <3>2
  <2>2. CASE ~WorldExits(w)
    <3>1. UNCHANGED status
      BY <1>2, <1>3, <2>2
         DEF WorldProcessStep, WorldStarts, WorldBecomesReady, WorldAffirms, WorldReads,
             WorldReceivesShutdown, WorldFallsIdle, SignalsItself, requestVars
    <3> QED
      BY <3>1
  <2> QED
    BY <2>1, <2>2
<1> QED
  BY <1>4, <1>8, <1>9 DEF Elsewhere

LEMMA PlayerElsewhere ==
  ASSUME Sound, PlayerStep
  PROVE  Elsewhere /\ Loaded' = Loaded
<1>0. status \in [Requests -> {"idle", "waiting", "answered", "playing", "left"}]
  BY Parts DEF RequestTypes
<1>1. /\ UNCHANGED <<m_Instances, inst, world, transfers, responses, target, answer>>
      /\ \E q \in Requests : \/ /\ status[q] = "answered"
                                /\ \/ status' = [status EXCEPT ![q] = "playing"]
                                   \/ status' = [status EXCEPT ![q] = "left"]
                             \/ /\ status[q] = "playing"
                                /\ status' = [status EXCEPT ![q] = "left"]
  BY DEF PlayerStep, PlayerJoins, PlayerLeaves, masterVars
<1>2. Loaded' = Loaded
  BY <1>1, LoadedSame
<1>3. \A q \in Requests : /\ status'[q] \in {"idle", "waiting"} => status'[q] = status[q]
                          /\ status[q] \in {"idle", "waiting"} => status'[q] = status[q]
  BY <1>0, <1>1
<1> QED
  BY <1>1, <1>2, <1>3 DEF Elsewhere

LEMMA KnownRequests ==
  ASSUME Sound
  PROVE  /\ \A h \in m_Instances : Queued(inst[h]) \subseteq Requests
         /\ \A t \in transfers : t.req \in Requests
         /\ \A m \in responses : m.req \in Requests
<1>1. ASSUME NEW h \in m_Instances PROVE Queued(inst[h]) \subseteq Requests
  <2>1. inst[h] \in Instance
    BY Parts
  <2>2. /\ inst[h].pendingRequests \in Seq(Requests)
        /\ inst[h].pendingAffirmations \in Seq(Requests)
    BY <2>1 DEF Instance
  <2>3. \A s \in Seq(Requests) : ToSet(s) \subseteq Requests
    BY LenProperties, ElementOfSeq DEF ToSet
  <2> QED
    BY <2>2, <2>3 DEF Queued
<1> QED
  BY <1>1, Parts DEF RequestTypes

LEMMA ElsewhereAsked ==
  ASSUME Sound, Asked, Elsewhere
  PROVE  Asked'
<1>1. \A q \in Requests : status[q] # "idle" => status'[q] # "idle"
  BY DEF Elsewhere
<1>2. UNCHANGED <<m_Instances, inst, transfers, responses, target>>
      /\ Loaded \subseteq Loaded'
  BY DEF Elsewhere
<1>3. \A t \in transfers' : t.target = target'[t.req] /\ status'[t.req] # "idle"
  BY <1>1, <1>2, KnownRequests DEF Asked
<1>4. ASSUME NEW h \in m_Instances, NEW q \in Queued(inst[h])
      PROVE  target'[q] = <<inst[h].map, inst[h].clone>> /\ status'[q] # "idle"
  <2>1. q \in Requests
    BY KnownRequests
  <2> QED
    BY <1>1, <1>2, <2>1 DEF Asked
<1>5. ASSUME NEW m \in responses'
      PROVE  /\ status'[m.req] # "idle"
             /\ target'[m.req] \in Zones =>
                  /\ <<m.answer.map, m.answer.clone>> = target'[m.req]
                  /\ m.answer \in Loaded'
  <2>1. m \in responses /\ m.req \in Requests
    BY <1>2, KnownRequests
  <2> QED
    BY <1>1, <1>2, <2>1 DEF Asked
<1>6. \A h \in m_Instances' : \A q \in Queued(inst'[h]) :
        target'[q] = <<inst'[h].map, inst'[h].clone>> /\ status'[q] # "idle"
  BY <1>2, <1>4
<1> QED
  BY <1>3, <1>5, <1>6 DEF Asked

LEMMA ElsewhereLost ==
  ASSUME Elsewhere, NoRequestLost
  PROVE  NoRequestLost'
BY DEF Elsewhere, NoRequestLost

(* A request is made, or its answer is read.                                *)
LEMMA RequesterAsked ==
  ASSUME Sound, Together, Asked, RequesterStep
  PROVE  Asked' /\ Loaded' = Loaded
<1>0. /\ status \in [Requests -> {"idle", "waiting", "answered", "playing", "left"}]
      /\ target \in [Requests -> Zones \cup Passwords \cup {NoPassword}]
  BY Parts DEF RequestTypes
<1>1. Loaded' = Loaded
  <2>1. UNCHANGED world
    BY DEF RequesterStep, RequestTransfer, HandleTransferResponse
  <2> QED
    BY <2>1, LoadedSame
<1>2. ASSUME NEW q \in Requests, NEW t \in Zones \cup Passwords, RequestTransfer(q, t)
      PROVE  Asked'
  <2>1. /\ status[q] = "idle"
        /\ status' = [status EXCEPT ![q] = "waiting"]
        /\ target' = [target EXCEPT ![q] = t]
        /\ transfers' = transfers \cup {[req |-> q, target |-> t]}
        /\ UNCHANGED <<m_Instances, inst, responses>>
    BY <1>2 DEF RequestTransfer, Together, Calm, Serving, masterVars
  <2>2. \A r \in Requests : status[r] # "idle" =>
          target'[r] = target[r] /\ status'[r] # "idle"
    BY <1>0, <2>1
  <2>3. target'[q] = t /\ status'[q] = "waiting"
    BY <1>0, <2>1
  <2>4. ASSUME NEW u \in transfers'
        PROVE  u.target = target'[u.req] /\ status'[u.req] # "idle"
    <3>1. CASE u \in transfers
      BY <2>2, <3>1, KnownRequests DEF Asked
    <3>2. CASE u = [req |-> q, target |-> t]
      BY <2>3, <3>2
    <3> QED
      BY <2>1, <3>1, <3>2
  <2>5. ASSUME NEW h \in m_Instances, NEW r \in Queued(inst[h])
        PROVE  target'[r] = <<inst[h].map, inst[h].clone>> /\ status'[r] # "idle"
    BY <2>2, KnownRequests DEF Asked
  <2>6. ASSUME NEW m \in responses
        PROVE  /\ status'[m.req] # "idle"
               /\ target'[m.req] \in Zones =>
                    /\ <<m.answer.map, m.answer.clone>> = target'[m.req]
                    /\ m.answer \in Loaded'
    BY <1>1, <2>2, KnownRequests DEF Asked
  <2>7. \A h \in m_Instances' : \A r \in Queued(inst'[h]) :
          target'[r] = <<inst'[h].map, inst'[h].clone>> /\ status'[r] # "idle"
    BY <2>1, <2>5
  <2> QED
    BY <2>1, <2>4, <2>6, <2>7 DEF Asked
<1>3. ASSUME NEW m \in responses, HandleTransferResponse(m)
      PROVE  Asked'
  <2>1. /\ responses' = responses \ {m}
        /\ UNCHANGED <<m_Instances, inst, transfers, target>>
        /\ status' \in {status, [status EXCEPT ![m.req] = "answered"]}
    BY <1>3 DEF HandleTransferResponse, masterVars
  <2>2. \A r \in Requests : status[r] # "idle" => status'[r] # "idle"
    BY <1>0, <2>1
  <2>3. \A u \in transfers' : u.target = target'[u.req] /\ status'[u.req] # "idle"
    BY <2>1, <2>2, KnownRequests DEF Asked
  <2>4. ASSUME NEW h \in m_Instances, NEW r \in Queued(inst[h])
        PROVE  target'[r] = <<inst[h].map, inst[h].clone>> /\ status'[r] # "idle"
    BY <2>1, <2>2, KnownRequests DEF Asked
  <2>5. ASSUME NEW n \in responses'
        PROVE  /\ status'[n.req] # "idle"
               /\ target'[n.req] \in Zones =>
                    /\ <<n.answer.map, n.answer.clone>> = target'[n.req]
                    /\ n.answer \in Loaded'
    BY <1>1, <2>1, <2>2, KnownRequests DEF Asked
  <2>6. \A h \in m_Instances' : \A r \in Queued(inst'[h]) :
          target'[r] = <<inst'[h].map, inst'[h].clone>> /\ status'[r] # "idle"
    BY <2>1, <2>4
  <2> QED
    BY <2>3, <2>5, <2>6 DEF Asked
<1> QED
  BY <1>1, <1>2, <1>3 DEF RequesterStep

LEMMA RequesterLost ==
  ASSUME Sound, Together, NoRequestLost, RequesterStep
  PROVE  NoRequestLost'
<1>0. /\ status \in [Requests -> {"idle", "waiting", "answered", "playing", "left"}]
      /\ target \in [Requests -> Zones \cup Passwords \cup {NoPassword}]
  BY Parts DEF RequestTypes
<1> SUFFICES ASSUME NEW r \in Requests, status'[r] = "waiting", target'[r] \in Zones
             PROVE  \/ \E t \in transfers' : t.req = r
                    \/ \E m \in responses' : m.req = r
                    \/ \E h \in m_Instances' :
                         r \in ToSet(inst'[h].pendingRequests) \cup
                               ToSet(inst'[h].pendingAffirmations)
  BY DEF NoRequestLost
<1>1. ASSUME NEW q \in Requests, NEW t \in Zones \cup Passwords, RequestTransfer(q, t)
      PROVE  \/ \E u \in transfers' : u.req = r
             \/ \E m \in responses' : m.req = r
             \/ \E h \in m_Instances' :
                  r \in ToSet(inst'[h].pendingRequests) \cup
                        ToSet(inst'[h].pendingAffirmations)
  <2>1. /\ status' = [status EXCEPT ![q] = "waiting"]
        /\ target' = [target EXCEPT ![q] = t]
        /\ transfers' = transfers \cup {[req |-> q, target |-> t]}
        /\ UNCHANGED <<m_Instances, inst, responses>>
    BY <1>1 DEF RequestTransfer, Together, Calm, Serving, masterVars
  <2>2. CASE r = q
    <3>1. [req |-> q, target |-> t] \in transfers' /\ [req |-> q, target |-> t].req = r
      BY <2>1, <2>2
    <3> QED
      BY <3>1
  <2>3. CASE r # q
    <3>1. status[r] = "waiting" /\ target[r] \in Zones
      BY <1>0, <2>1, <2>3
    <3> QED
      BY <2>1, <3>1 DEF NoRequestLost
  <2> QED
    BY <2>2, <2>3
<1>2. ASSUME NEW m \in responses, HandleTransferResponse(m)
      PROVE  \/ \E u \in transfers' : u.req = r
             \/ \E n \in responses' : n.req = r
             \/ \E h \in m_Instances' :
                  r \in ToSet(inst'[h].pendingRequests) \cup
                        ToSet(inst'[h].pendingAffirmations)
  <2>1. /\ responses' = responses \ {m}
        /\ UNCHANGED <<m_Instances, inst, transfers, target>>
        /\ IF status[m.req] = "waiting"
           THEN status' = [status EXCEPT ![m.req] = "answered"]
           ELSE UNCHANGED status
    BY <1>2 DEF HandleTransferResponse, masterVars
  <2>2. r # m.req /\ status[r] = "waiting"
    BY <1>0, <2>1
  <2> QED
    BY <2>1, <2>2 DEF NoRequestLost
<1> QED
  BY <1>1, <1>2 DEF RequesterStep

-----------------------------------------------------------------------------
(* A step of the whole system.                                              *)

LEMMA StepKinds ==
  ASSUME Sound, Together, NothingFails, Asked, [Next]_vars
  PROVE  \/ Flows
         \/ Elsewhere /\ (Loaded' = Loaded \/ \E w \in Handles : Loaded' = Loaded \cup {Key(world[w])})
         \/ RequesterStep
<1>1. CASE UNCHANGED vars
  <2>1. UNCHANGED <<m_Instances, inst, world, transfers, responses, status, target, answer>>
    BY <1>1 DEF vars, masterVars, requestVars
  <2>2. Loaded' = Loaded
    BY <2>1, LoadedSame
  <2> QED
    BY <2>1, <2>2 DEF Elsewhere
<1>2. CASE MasterStep
  <2>1. ~ShutdownSequence /\ ~FinalizeShutdown
    BY DEF Together, Calm, ShutdownSequence, FinalizeShutdown
  <2>2. ASSUME NEW w \in Handles, HandleWorldPacket(w) PROVE Flows
    BY <2>2, PacketFlows, ReadyFlows, AffirmedFlows, DisconnectedFlows
       DEF HandleWorldPacket
  <2> QED
    BY <1>2, <2>1, <2>2, TransferFlows DEF MasterStep
<1>3. CASE TimerStep
  BY <1>3, TimeoutFlows, WorldStepElsewhere DEF TimerStep
<1>4. CASE CommandStep
  BY <1>4, CommandFlows
<1>5. CASE \E w \in Handles : WorldProcessStep(w)
  BY <1>5, WorldStepElsewhere
<1>6. CASE PlayerStep
  BY <1>6, PlayerElsewhere
<1>7. ~FaultStep
  BY DEF FaultStep, Together, Calm, WorldCrashes, ConnectionLost, MasterRestarts
<1> QED
  BY <1>1, <1>2, <1>3, <1>4, <1>5, <1>6, <1>7 DEF Next

LEMMA AskedNext ==
  ASSUME Sound, Together, NothingFails, Asked, [Next]_vars
  PROVE  Asked'
<1>1. CASE Flows
  BY <1>1, FlowsAsked
<1>2. CASE Elsewhere
  BY <1>2, ElsewhereAsked
<1>3. CASE RequesterStep
  BY <1>3, RequesterAsked
<1> QED
  BY <1>1, <1>2, <1>3, StepKinds

LEMMA AskedAlways ==
  ASSUME NothingFails
  PROVE  Spec => []Asked
<1>1. Init => Asked
  BY DEF Init, Asked
<1>2. Sound /\ Together /\ Asked /\ [Next]_vars => Asked'
  BY AskedNext
<1>3. Spec => []Sound
  BY SoundAlways
<1>4. Spec => []Together
  BY TogetherAlways
<1> QED
  BY <1>1, <1>2, <1>3, <1>4, PTL DEF Spec

(* No transfer to a public zone is lost on its way through the master:      *)
(* what waits moves with RedirectPendingRequests, ReadyInstance and         *)
(* AffirmTransfer of dMasterServer/InstanceManager.cpp, or is answered.     *)
THEOREM RequestsKept ==
  ASSUME NothingFails
  PROVE  Spec => []NoRequestLost
<1>1. Init => NoRequestLost
  <2> SUFFICES ASSUME Init, NEW q \in Requests PROVE status[q] # "waiting"
    BY DEF NoRequestLost
  <2> QED
    BY DEF Init
<1>2. Sound /\ Together /\ Asked /\ NoRequestLost /\ [Next]_vars => NoRequestLost'
  <2> SUFFICES ASSUME Sound, Together, Asked, NoRequestLost, [Next]_vars
               PROVE  NoRequestLost'
    OBVIOUS
  <2>1. CASE Flows
    BY <2>1, FlowsLost
  <2>2. CASE Elsewhere
    BY <2>2, ElsewhereLost
  <2>3. CASE RequesterStep
    BY <2>3, RequesterLost
  <2> QED
    BY <2>1, <2>2, <2>3, StepKinds
<1>3. Spec => []Sound
  BY SoundAlways
<1>4. Spec => []Together
  BY TogetherAlways
<1>5. Spec => []Asked
  BY AskedAlways
<1> QED
  BY <1>1, <1>2, <1>3, <1>4, <1>5, PTL DEF Spec

-----------------------------------------------------------------------------
(* The master implements ZoneTransfer.                                      *)

Aimed == \A q \in Requests : status[q] # "idle" => target[q] \in Zones \cup Passwords

Status == [q \in Requests |-> IF status[q] \in {"playing", "left"}
                              THEN "answered" ELSE status[q]]

LEMMA AimedNext ==
  ASSUME Sound, Sound', Together, NothingFails, Asked, Aimed, [Next]_vars
  PROVE  Aimed'
<1>0. /\ status \in [Requests -> {"idle", "waiting", "answered", "playing", "left"}]
      /\ target \in [Requests -> Zones \cup Passwords \cup {NoPassword}]
  BY Parts DEF RequestTypes
<1>1. CASE Flows
  BY <1>1 DEF Flows, Aimed
<1>2. CASE Elsewhere
  BY <1>2 DEF Elsewhere, Aimed
<1>3. CASE RequesterStep
  <2>1. ASSUME NEW q \in Requests, NEW t \in Zones \cup Passwords, RequestTransfer(q, t)
        PROVE  Aimed'
    <3>1. /\ status' = [status EXCEPT ![q] = "waiting"]
          /\ target' = [target EXCEPT ![q] = t]
      BY <2>1 DEF RequestTransfer
    <3> QED
      BY <1>0, <3>1 DEF Aimed
  <2>2. ASSUME NEW m \in responses, HandleTransferResponse(m)
        PROVE  Aimed'
    <3>1. /\ UNCHANGED target
          /\ status' \in {status, [status EXCEPT ![m.req] = "answered"]}
      BY <2>2 DEF HandleTransferResponse
    <3>2. m.req \in Requests /\ status[m.req] # "idle"
      BY KnownRequests DEF Asked
    <3> QED
      BY <1>0, <3>1, <3>2 DEF Aimed
  <2> QED
    BY <1>3, <2>1, <2>2 DEF RequesterStep
<1> QED
  BY <1>1, <1>2, <1>3, StepKinds

(* The statuses of ZoneTransfer are those of the requests: a player that    *)
(* joins or leaves changes none of them.                                    *)
LEMMA ElsewhereStatus ==
  ASSUME Sound, Sound', Elsewhere
  PROVE  Status' = Status
<1>1. /\ status \in [Requests -> {"idle", "waiting", "answered", "playing", "left"}]
      /\ status' \in [Requests -> {"idle", "waiting", "answered", "playing", "left"}]
  BY DEF Sound, TypeOK, RequestTypes
<1>2. ASSUME NEW q \in Requests
      PROVE  (IF status'[q] \in {"playing", "left"} THEN "answered" ELSE status'[q])
             = (IF status[q] \in {"playing", "left"} THEN "answered" ELSE status[q])
  BY <1>1 DEF Elsewhere
<1> QED
  BY <1>2 DEF Status

LEMMA LoadedAnswers ==
  ASSUME Sound
  PROVE  Loaded \subseteq Answer
<1> SUFFICES ASSUME NEW w \in Handles, world[w].ready
             PROVE  Key(world[w]) \in Answer
  BY DEF Loaded
<1>1. world[w] \in WorldProcess
  BY Parts
<1> QED
  BY <1>1 DEF Key, Answer, WorldProcess

LEMMA AskPromised ==
  ASSUME Sound, Sound', NEW q \in Requests, NEW t \in Zones \cup Passwords,
         RequestTransfer(q, t), Loaded' = Loaded
  PROVE  Promise!Ask(q, t)
<1>0. status \in [Requests -> {"idle", "waiting", "answered", "playing", "left"}]
  BY Parts DEF RequestTypes
<1>1. /\ status[q] = "idle"
      /\ status' = [status EXCEPT ![q] = "waiting"]
      /\ target' = [target EXCEPT ![q] = t]
      /\ answer' = answer
  BY DEF RequestTransfer
<1>2. Status[q] = "idle" /\ Status' = [Status EXCEPT ![q] = "waiting"]
  BY <1>0, <1>1 DEF Status
<1> QED
  BY <1>1, <1>2 DEF Promise!Ask, Status, Loaded

LEMMA TellPromised ==
  ASSUME Sound, Asked, Aimed, Passwords = {}, NEW m \in responses,
         HandleTransferResponse(m), Loaded' = Loaded
  PROVE  \/ m.answer \in Loaded /\ Promise!Tell(m.req, m.answer)
         \/ UNCHANGED <<Status, target, answer, Loaded>>
<1>0. status \in [Requests -> {"idle", "waiting", "answered", "playing", "left"}]
  BY Parts DEF RequestTypes
<1>1. m.req \in Requests
  BY KnownRequests
<1>2. CASE status[m.req] = "waiting"
  <2>1. /\ status' = [status EXCEPT ![m.req] = "answered"]
        /\ answer' = [answer EXCEPT ![m.req] = m.answer]
        /\ target' = target
    BY <1>2 DEF HandleTransferResponse
  <2>2. target[m.req] \in Zones
    BY <1>1, <1>2 DEF Aimed
  <2>3. /\ <<m.answer.map, m.answer.clone>> = target[m.req]
        /\ m.answer \in Loaded
    BY <2>2 DEF Asked
  <2>4. Status[m.req] = "waiting" /\ Status' = [Status EXCEPT ![m.req] = "answered"]
    BY <1>0, <1>1, <1>2, <2>1 DEF Status
  <2> QED
    BY <2>1, <2>3, <2>4 DEF Promise!Tell, Status, Loaded
<1>3. CASE status[m.req] # "waiting"
  <2>1. UNCHANGED <<status, answer, target>>
    BY <1>3 DEF HandleTransferResponse
  <2>2. Status' = Status
    BY <2>1 DEF Status
  <2> QED
    BY <2>1, <2>2
<1> QED
  BY <1>2, <1>3

LEMMA PromiseNext ==
  ASSUME Sound, Sound', Together, NothingFails, Passwords = {}, Asked, Aimed, [Next]_vars
  PROVE  [Promise!Next]_(Promise!vars)
<1>0. Promise!vars = <<Status, target, answer, Loaded>>
  BY DEF Promise!vars, Status, Loaded
<1>1. CASE Flows
  <2>1. UNCHANGED <<status, target, answer>> /\ Loaded' = Loaded
    BY <1>1 DEF Flows
  <2>2. Status' = Status
    BY <2>1 DEF Status
  <2> QED
    BY <2>1, <2>2 DEF Promise!vars, Status, Loaded
<1>2. ASSUME Elsewhere,
             Loaded' = Loaded \/ \E w \in Handles : Loaded' = Loaded \cup {Key(world[w])}
      PROVE  [Promise!Next]_(Promise!vars)
  <2>1. Status' = Status
    BY <1>2, ElsewhereStatus
  <2>2. UNCHANGED <<target, answer>>
    BY <1>2 DEF Elsewhere
  <2>3. CASE Loaded' = Loaded
    BY <2>1, <2>2, <2>3 DEF Promise!vars, Status, Loaded
  <2>4. ASSUME NEW w \in Handles, Loaded' = Loaded \cup {Key(world[w])}
        PROVE  Promise!Next
    <3>1. Loaded' \subseteq Answer
      <4>1. Sound' => (Loaded \subseteq Answer)'
        BY LoadedAnswers, PTL
      <4>2. (Loaded \subseteq Answer)'
        BY <4>1
      <4>3. Answer' = Answer
        BY DEF Answer
      <4> QED
        BY <4>2, <4>3
    <3>2. \E a \in Loaded' : Loaded' = Loaded \cup {a}
      BY <2>4
    <3> QED
      BY <2>1, <2>2, <3>1, <3>2 DEF Promise!Next, Promise!Load, Status, Loaded
  <2> QED
    BY <1>2, <2>3, <2>4
<1>3. CASE RequesterStep
  <2>0. Loaded' = Loaded
    BY <1>3, RequesterAsked
  <2>1. ASSUME NEW q \in Requests, NEW t \in Zones \cup Passwords, RequestTransfer(q, t)
        PROVE  Promise!Next
    BY <2>0, <2>1, AskPromised DEF Promise!Next
  <2>2. ASSUME NEW m \in responses, HandleTransferResponse(m)
        PROVE  [Promise!Next]_(Promise!vars)
    <3>1. m.req \in Requests
      BY KnownRequests
    <3>2. CASE m.answer \in Loaded /\ Promise!Tell(m.req, m.answer)
      BY <3>1, <3>2 DEF Promise!Next, Loaded
    <3>3. CASE UNCHANGED <<Status, target, answer, Loaded>>
      BY <3>3 DEF Promise!vars, Status, Loaded
    <3> QED
      BY <2>0, <2>2, <3>2, <3>3, TellPromised
  <2> QED
    BY <1>3, <2>1, <2>2 DEF RequesterStep
<1> QED
  BY <1>1, <1>2, <1>3, StepKinds

(* With public zones only, what the master does to answer a transfer keeps  *)
(* the promise of ZoneTransfer: the callback of a request is called once at *)
(* most, and with a world process of the zone asked for that has finished   *)
(* loading (ZoneInstanceManager.cpp, InstanceManager.cpp).                  *)
THEOREM PromiseKept ==
  ASSUME NothingFails, Passwords = {}
  PROVE  Spec => TransfersKeepPromise
<1>1. Init => Promise!Init
  <2> SUFFICES ASSUME Init PROVE Promise!Init
    OBVIOUS
  <2>0. \A w \in Handles : ~world[w].ready
    BY DEF Init, NoWorld, StartedWorld
  <2>1. Loaded = {}
    BY <2>0 DEF Loaded
  <2>2. Status = [q \in Requests |-> "idle"]
    BY DEF Status, Init
  <2> QED
    BY <2>1, <2>2 DEF Init, Promise!Init, Status, Loaded
<1>2. Init => Aimed
  BY DEF Init, Aimed
<1>3. Sound /\ Sound' /\ Together /\ Asked /\ Aimed /\ [Next]_vars => Aimed'
  BY AimedNext
<1>4. Sound /\ Sound' /\ Together /\ Asked /\ Aimed /\ [Next]_vars
        => [Promise!Next]_(Promise!vars)
  BY PromiseNext
<1>5. Spec => []Sound
  BY SoundAlways
<1>6. Spec => []Together
  BY TogetherAlways
<1>7. Spec => []Asked
  BY AskedAlways
<1> QED
  BY <1>1, <1>2, <1>3, <1>4, <1>5, <1>6, <1>7, PTL
     DEF Spec, TransfersKeepPromise, Promise!Spec
=============================================================================
