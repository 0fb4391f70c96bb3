-------------------------- MODULE StatusStoreProofs --------------------------
(***************************************************************************)
(* Theorems about StatusStore, for any number of applications, changes and *)
(* restarts.                                                               *)
(***************************************************************************)
EXTENDS StatusStore, SequenceTheorems, TLAPS

(* What a queue holds after its head is taken, or something is put in.     *)
LEMMA Dequeued ==
  ASSUME NEW T, NEW q \in Seq(T), q # <<>>
  PROVE  /\ Head(q) \in T /\ 1 \in DOMAIN q /\ Head(q) = q[1]
         /\ Tail(q) \in Seq(T)
         /\ \A i \in DOMAIN Tail(q) : i + 1 \in DOMAIN q /\ Tail(q)[i] = q[i + 1]
<1>1. Len(q) \in Nat \ {0} /\ DOMAIN q = 1 .. Len(q)
  BY EmptySeq, LenProperties
<1>2. /\ Head(q) \in T /\ Tail(q) \in Seq(T) /\ Len(Tail(q)) = Len(q) - 1
      /\ \A i \in 1 .. Len(Tail(q)) : Tail(q)[i] = q[i + 1]
  BY HeadTailProperties
<1>3. DOMAIN Tail(q) = 1 .. Len(q) - 1
  BY <1>2, LenProperties
<1>4. Head(q) = q[1]
  OBVIOUS
<1>5. QED
  BY <1>1, <1>2, <1>3, <1>4

(* An entry of a queue after something is put in is an old one or that.    *)
LEMMA Enqueued ==
  ASSUME NEW T, NEW q \in Seq(T), NEW e \in T
  PROVE  /\ Append(q, e) \in Seq(T)
         /\ \A i \in DOMAIN Append(q, e) :
              \/ i \in DOMAIN q /\ Append(q, e)[i] = q[i]
              \/ Append(q, e)[i] = e
<1>1. Len(q) \in Nat /\ DOMAIN q = 1 .. Len(q)
  BY LenProperties
<1>2. /\ Append(q, e) \in Seq(T) /\ Len(Append(q, e)) = Len(q) + 1
      /\ \A i \in 1 .. Len(q) : Append(q, e)[i] = q[i]
      /\ Append(q, e)[Len(q) + 1] = e
  BY AppendProperties
<1>3. DOMAIN Append(q, e) = 1 .. Len(q) + 1
  BY <1>2, LenProperties
<1>4. QED
  BY <1>1, <1>2, <1>3

(* TypeOK in the parts that the steps change independently.                *)
ObjectType ==
  /\ DOMAIN world = Kinds /\ DOMAIN cache = Kinds /\ DOMAIN events = Kinds
  /\ \A k \in Kinds : /\ world[k] \in [Apps -> TypeOf(k)]
                      /\ cache[k] \in [Apps -> TypeOf(k)]
                      /\ events[k] \in EventsType(k)

ProcessType ==
  /\ started \in {{}, Kinds} /\ synced \subseteq started
  /\ running \in BOOLEAN /\ ready \in BOOLEAN
  /\ crashes \in 0 .. MaxCrashes

RequestType ==
  /\ busy \in BOOLEAN
  /\ about \subseteq Apps /\ todo \subseteq Apps
  /\ taken \in [Apps -> WebAppsType]
  /\ items \in [Apps -> ItemsType]

HistoryType ==
  /\ changes \in Numbers \ {0}
  /\ rolled \subseteq Apps \X Numbers \X Numbers
  /\ lived \in [Kinds -> SUBSET Apps]

(* The parts are the whole.                                                *)
LEMMA Parts == TypeOK <=> ObjectType /\ ProcessType /\ RequestType /\ HistoryType
  BY DEF TypeOK, ObjectType, ProcessType, RequestType, HistoryType

(* Nothing is an object of either kind, too.                               *)
LEMMA Nothing ==
  /\ NoWebApp \in WebAppsType /\ NoDeployment \in DeploymentsType
  /\ NotFound \in ItemsType
  /\ \A k \in Kinds : EmptyCache[k] \in [Apps -> TypeOf(k)]
<1>1. NoWebApp \in WebAppsType /\ NoDeployment \in DeploymentsType /\ NotFound \in ItemsType
  BY DEF WebAppsType, DeploymentsType, ItemsType
<1>2. QED
  BY <1>1 DEF Kinds, EmptyCache, TypeOf

(* What a change of the cluster does to the types.                         *)
LEMMA HappensType ==
  ASSUME TypeOK, NEW k \in Kinds, NEW a \in Apps, NEW object \in TypeOf(k),
         Happens(k, a, object)
  PROVE  ObjectType' /\ ProcessType' /\ RequestType'
<1>1. world' = [world EXCEPT ![k] = [world[k] EXCEPT ![a] = object]]
  BY DEF Happens, TypeOK
<1>2. [app |-> a, object |-> object] \in [app : Apps, object : TypeOf(k)]
  OBVIOUS
<1>3. Append(events[k], [app |-> a, object |-> object]) \in EventsType(k)
  BY <1>2, Enqueued, Zenon DEF TypeOK, EventsType
<1>4. \A j \in Kinds : events'[j] \in EventsType(j)
  BY <1>3 DEF Happens, TypeOK
<1>5. \A j \in Kinds : world'[j] \in [Apps -> TypeOf(j)]
  BY <1>1 DEF TypeOK
<1>6. DOMAIN world' = Kinds /\ DOMAIN events' = Kinds
  BY <1>1 DEF Happens, TypeOK
<1>7. ObjectType'
  BY <1>4, <1>5, <1>6 DEF Happens, TypeOK, ObjectType
<1>8. ProcessType' /\ RequestType'
  <2>1. UNCHANGED <<started, synced, running, ready, request, crashes>>
    BY DEF Happens
  <2>2. QED
    BY <2>1 DEF TypeOK, ProcessType, RequestType, request
<1>9. QED
  BY <1>7, <1>8

(* The steps of the process and of a request keep the types.               *)
LEMMA ServiceType ==
  ASSUME TypeOK,
         \/ Boot \/ Start \/ Probe \/ Crash \/ Answer
         \/ \E k \in Kinds : Sync(k) \/ Watch(k)
         \/ \E S \in Selections : List(S)
         \/ \E a \in Apps : Get(a) \/ Convert(a)
  PROVE  TypeOK'
<1> USE ConstantsAssumption DEF cluster, informers, request
<1>1. CASE Boot
  BY <1>1 DEF Boot, TypeOK
<1>2. CASE Start
  BY <1>2 DEF Start, TypeOK
<1>3. CASE Probe
  <2>1. ready' \in BOOLEAN
    BY <1>3, Zenon DEF Probe, HasSynced
  <2>2. QED
    BY <1>3, <2>1 DEF Probe, TypeOK
<1>4. CASE Crash
  <2>1. ObjectType'
    <3>1. \A k \in Kinds : cache'[k] \in [Apps -> TypeOf(k)] /\ events'[k] \in EventsType(k)
      BY <1>4, Nothing DEF Crash, EventsType
    <3>2. DOMAIN cache' = Kinds /\ DOMAIN events' = Kinds
      BY <1>4 DEF Crash, EmptyCache
    <3>3. QED
      BY <1>4, <3>1, <3>2 DEF Crash, TypeOK, ObjectType
  <2>2. ProcessType'
    <3>1. crashes' \in 0 .. MaxCrashes
      BY <1>4 DEF Crash, TypeOK
    <3>2. running' = FALSE /\ ready' = FALSE /\ started' = {} /\ synced' = {}
      BY <1>4 DEF Crash
    <3>3. QED
      BY <3>1, <3>2 DEF ProcessType
  <2>3. RequestType'
    BY <1>4, Nothing DEF Crash, Idle, RequestType
  <2>4. HistoryType'
    BY <1>4 DEF Crash, TypeOK, HistoryType
  <2>5. QED
    BY <2>1, <2>2, <2>3, <2>4, Parts DEF TypeOK, ObjectType, ProcessType, RequestType, HistoryType
<1>5. CASE Answer
  BY <1>5 DEF Answer, TypeOK
<1>6. ASSUME NEW k \in Kinds, Sync(k) PROVE TypeOK'
  <2>1. \A j \in Kinds : cache'[j] \in [Apps -> TypeOf(j)]
    BY <1>6 DEF Sync, TypeOK
  <2>2. \A j \in Kinds : events'[j] \in EventsType(j)
    BY <1>6 DEF Sync, TypeOK, EventsType
  <2>3. QED
    BY <1>6, <2>1, <2>2 DEF Sync, TypeOK
<1>7. ASSUME NEW k \in Kinds, Watch(k) PROVE TypeOK'
  <2> DEFINE e == Head(events[k])
  <2>1. e \in [app : Apps, object : TypeOf(k)] /\ Tail(events[k]) \in EventsType(k)
    BY <1>7, Dequeued, Zenon DEF Watch, TypeOK, EventsType
  <2>2. cache' = [cache EXCEPT ![k] = [cache[k] EXCEPT ![e.app] = e.object]]
    BY <1>7 DEF Watch, TypeOK
  <2> HIDE DEF e
  <2>3. [cache[k] EXCEPT ![e.app] = e.object] \in [Apps -> TypeOf(k)]
    BY <2>1 DEF TypeOK
  <2>4. \A j \in Kinds : cache'[j] \in [Apps -> TypeOf(j)] /\ events'[j] \in EventsType(j)
    BY <1>7, <2>1, <2>2, <2>3 DEF Watch, TypeOK
  <2>5. QED
    BY <1>7, <2>2, <2>4 DEF Watch, TypeOK
<1>8. ASSUME NEW S \in SUBSET Apps, NEW answerable \in SUBSET Apps, Ask(S, answerable)
      PROVE  TypeOK'
  <2>1. taken' \in [Apps -> WebAppsType]
    BY <1>8, Nothing DEF Ask, TypeOK, Kinds, TypeOf
  <2>2. items' \in [Apps -> ItemsType]
    BY <1>8, Nothing DEF Ask
  <2>3. QED
    BY <1>8, <2>1, <2>2 DEF Ask, TypeOK
<1>9. ASSUME NEW a \in Apps, Convert(a) PROVE TypeOK'
  <2>1. View(taken[a], cache["deployments"][a]) \in ItemsType
    <3> DEFINE w == taken[a]
               d == cache["deployments"][a]
    <3>1. w \in WebAppsType /\ d \in DeploymentsType
      BY DEF TypeOK, Kinds, TypeOf
    <3> HIDE DEF w, d
    <3>2. CASE w = NoWebApp
      <4>1. d # NoDeployment => d.owner # 0
        BY <3>1 DEF DeploymentsType
      <4>2. View(w, d) = NotFound
        BY <3>2, <4>1 DEF View, OwnedBy, NotFound, NoWebApp
      <4>3. QED
        BY <4>2, Nothing DEF w, d
    <3>3. CASE w # NoWebApp
      <4>1. w.uid \in Numbers \ {0} /\ w.image \in Numbers \ {0} /\ w.available \in BOOLEAN
        BY <3>1, <3>3 DEF WebAppsType
      <4>2. (IF OwnedBy(d, w.uid) THEN d.image ELSE 0) \in Numbers
        BY <3>1 DEF OwnedBy, DeploymentsType, Numbers
      <4>3. QED
        BY <4>1, <4>2 DEF View, ItemsType, w, d
    <3>4. QED
      BY <3>2, <3>3
  <2>2. taken' \in [Apps -> WebAppsType] /\ items' \in [Apps -> ItemsType]
    BY <1>9, <2>1, Nothing DEF Convert, TypeOK
  <2>3. QED
    BY <1>9, <2>2 DEF Convert, TypeOK
<1>10. ASSUME NEW S \in Selections, List(S) PROVE TypeOK'
  BY <1>8, <1>10 DEF List
<1>11. ASSUME NEW a \in Apps, Get(a) PROVE TypeOK'
  BY <1>8, <1>11 DEF Get
<1>12. QED
  BY <1>1, <1>2, <1>3, <1>4, <1>5, <1>6, <1>7, <1>9, <1>10, <1>11

-----------------------------------------------------------------------------
(* The cluster. *)

(* What tells an object from its predecessors and successors of the same   *)
(* name; 0 is nothing.                                                     *)
Identity(k, object) == IF k = "webapps" THEN object.uid ELSE object.owner

(* Nothing has identity 0, and only nothing; what exists has an image.     *)
LEMMA IdentityOfNothing ==
  /\ \A w \in WebAppsType :
       /\ w.uid \in Numbers /\ w.image \in Numbers /\ w.available \in BOOLEAN
       /\ w.uid = 0 <=> w = NoWebApp
       /\ w # NoWebApp => w.image # 0
  /\ \A d \in DeploymentsType :
       /\ d.owner \in Numbers /\ d.image \in Numbers
       /\ d.owner = 0 <=> d = NoDeployment
       /\ d # NoDeployment => d.image # 0
<1>1. 0 \in Numbers
  BY ConstantsAssumption DEF Numbers
<1>2. ASSUME NEW w \in WebAppsType
      PROVE  /\ w.uid \in Numbers /\ w.image \in Numbers /\ w.available \in BOOLEAN
             /\ w.uid = 0 <=> w = NoWebApp
             /\ w # NoWebApp => w.image # 0
  <2>1. CASE w = NoWebApp
    BY <1>1, <2>1 DEF NoWebApp
  <2>2. CASE w \in [uid : Numbers \ {0}, image : Numbers \ {0}, available : BOOLEAN]
    <3>1. w.uid # 0
      BY <2>2
    <3>2. w # NoWebApp
      BY <3>1 DEF NoWebApp
    <3>3. QED
      BY <2>2, <3>1, <3>2
  <2>3. QED
    BY <2>1, <2>2 DEF WebAppsType
<1>3. ASSUME NEW d \in DeploymentsType
      PROVE  /\ d.owner \in Numbers /\ d.image \in Numbers
             /\ d.owner = 0 <=> d = NoDeployment
             /\ d # NoDeployment => d.image # 0
  BY <1>1 DEF DeploymentsType, NoDeployment
<1>4. QED
  BY <1>2, <1>3

(* The cluster changes one object at a time; while an object lives, it     *)
(* stays what it is, and a Deployment never runs what was not recorded.    *)
LEMMA ClusterStep ==
  ASSUME TypeOK, NEW a \in Apps, Apply(a) \/ Delete(a) \/ Operator(a)
  PROVE  /\ HistoryType'
         /\ rolled \subseteq rolled'
         /\ \A j \in Kinds : lived'[j] \subseteq lived[j]
         /\ \E k \in Kinds : \E object \in TypeOf(k) :
              /\ Happens(k, a, object)
              /\ a \in lived'[k] /\ Identity(k, world[k][a]) # 0
                   => Identity(k, object) = Identity(k, world[k][a])
              /\ k = "deployments" /\ object # NoDeployment
                   => <<a, object.owner, object.image>> \in rolled'
<1> USE DEF Kinds, TypeOf, Identity, WebAppOf, DeploymentOf, Exists
<1>1. /\ WebAppOf(a) \in WebAppsType /\ DeploymentOf(a) \in DeploymentsType
      /\ changes \in Numbers \ {0} /\ lived \in [Kinds -> SUBSET Apps]
      /\ rolled \subseteq Apps \X Numbers \X Numbers
  BY DEF TypeOK
<1>2. CASE Apply(a)
  <2> DEFINE object == [uid |-> IF Exists("webapps", a) THEN WebAppOf(a).uid ELSE changes + 1,
                        image |-> changes + 1,
                        available |-> WebAppOf(a).available]
  <2>1. changes + 1 \in Numbers \ {0}
    BY <1>1, <1>2, ConstantsAssumption DEF Apply, Numbers
  <2>2. object \in WebAppsType
    <3>1. object.uid \in Numbers \ {0}
      BY <1>1, <2>1, IdentityOfNothing
    <3>2. object.image \in Numbers \ {0} /\ object.available \in BOOLEAN
      BY <1>1, <2>1, IdentityOfNothing
    <3>3. QED
      BY <3>1, <3>2 DEF WebAppsType
  <2>3. Happens("webapps", a, object) /\ changes' = changes + 1 /\ UNCHANGED <<rolled, lived>>
    BY <1>2 DEF Apply
  <2>4. WebAppOf(a).uid # 0 => object.uid = WebAppOf(a).uid
    BY <1>1, IdentityOfNothing
  <2> HIDE DEF object
  <2>5. QED
    BY <1>1, <2>1, <2>2, <2>3, <2>4 DEF HistoryType
<1>3. CASE Delete(a)
  <2>1. changes + 1 \in Numbers \ {0}
    BY <1>1, <1>3, ConstantsAssumption DEF Delete, Numbers
  <2>2. /\ lived' \in [Kinds -> SUBSET Apps] /\ a \notin lived'["webapps"]
        /\ \A j \in Kinds : lived'[j] \subseteq lived[j]
    BY <1>1, <1>3 DEF Delete
  <2>3. Happens("webapps", a, NoWebApp) /\ changes' = changes + 1 /\ UNCHANGED rolled
    BY <1>3 DEF Delete
  <2>4. QED
    BY <1>1, <2>1, <2>2, <2>3, Nothing DEF HistoryType
<1>4. CASE Operate(a)
  <2> DEFINE wanted == [owner |-> WebAppOf(a).uid, image |-> WebAppOf(a).image]
  <2>1. WebAppOf(a) # NoWebApp
    BY <1>4 DEF Operate
  <2>2. /\ WebAppOf(a).uid \in Numbers \ {0} /\ WebAppOf(a).image \in Numbers \ {0}
        /\ wanted \in DeploymentsType
    BY <1>1, <2>1, IdentityOfNothing DEF DeploymentsType
  <2>3. /\ Happens("deployments", a, wanted)
        /\ rolled' = rolled \cup {<<a, wanted.owner, wanted.image>>}
        /\ UNCHANGED <<changes, lived>>
    BY <1>4 DEF Operate
  <2>4. DeploymentOf(a).owner # 0 => wanted.owner = DeploymentOf(a).owner
    BY <1>1, <1>4, IdentityOfNothing DEF Operate
  <2>5. rolled' \subseteq Apps \X Numbers \X Numbers
    BY <1>1, <2>2, <2>3
  <2> HIDE DEF wanted
  <2>6. QED
    BY <1>1, <2>2, <2>3, <2>4, <2>5 DEF HistoryType
<1>5. CASE Collect(a)
  <2>1. /\ lived' \in [Kinds -> SUBSET Apps] /\ a \notin lived'["deployments"]
        /\ \A j \in Kinds : lived'[j] \subseteq lived[j]
    BY <1>1, <1>5 DEF Collect
  <2>2. Happens("deployments", a, NoDeployment) /\ UNCHANGED <<changes, rolled>>
    BY <1>5 DEF Collect
  <2>3. QED
    BY <1>1, <2>1, <2>2, Nothing DEF HistoryType
<1>6. CASE Report(a)
  <2> DEFINE serves == DeploymentOf(a) = [owner |-> WebAppOf(a).uid,
                                          image |-> WebAppOf(a).image]
             object == [WebAppOf(a) EXCEPT !.available = serves]
  <2>1. WebAppOf(a) \in [uid : Numbers \ {0}, image : Numbers \ {0}, available : BOOLEAN]
    BY <1>1, <1>6 DEF Report, WebAppsType
  <2>2. serves \in BOOLEAN
    BY Zenon
  <2>3. Happens("webapps", a, object) /\ UNCHANGED <<changes, rolled, lived>>
    BY <1>6 DEF Report
  <2> HIDE DEF serves
  <2>4. object \in WebAppsType /\ object.uid = WebAppOf(a).uid
    BY <2>1, <2>2 DEF WebAppsType
  <2> HIDE DEF object
  <2>5. QED
    BY <1>1, <2>3, <2>4 DEF HistoryType
<1>7. QED
  BY <1>2, <1>3, <1>4, <1>5, <1>6 DEF Operator

(* Every step keeps the types.                                             *)
LEMMA NextType == TypeOK /\ [Next]_vars => TypeOK'
<1> SUFFICES ASSUME TypeOK, [Next]_vars PROVE TypeOK'
  OBVIOUS
<1>1. ASSUME NEW a \in Apps, Apply(a) \/ Delete(a) \/ Operator(a) PROVE TypeOK'
  <2>1. ObjectType' /\ ProcessType' /\ RequestType'
    BY <1>1, ClusterStep, HappensType
  <2>2. HistoryType'
    BY <1>1, ClusterStep
  <2>3. QED
    BY <2>1, <2>2 DEF TypeOK, ObjectType, ProcessType, RequestType, HistoryType
<1>2. CASE UNCHANGED vars
  BY <1>2 DEF vars, cluster, informers, request, TypeOK
<1>3. QED
  BY <1>1, <1>2, ServiceType DEF Next

(* Every variable of the status API and of the cluster has its type.       *)
THEOREM TypeCorrect == Spec => []TypeOK
<1>1. Init => TypeOK
  <2> SUFFICES ASSUME Init PROVE TypeOK
    OBVIOUS
  <2>1. PICK S \in SUBSET Apps :
          world = [EmptyCache EXCEPT !["webapps"] = [a \in Apps |->
                     IF a \in S THEN [uid |-> 1, image |-> 1, available |-> FALSE]
                              ELSE NoWebApp]]
    BY DEF Init
  <2>2. 1 \in Numbers /\ 1 # 0
    BY ConstantsAssumption DEF Numbers
  <2>3. [uid |-> 1, image |-> 1, available |-> FALSE] \in WebAppsType
    BY <2>2 DEF WebAppsType
  <2>4. \A k \in Kinds : world[k] \in [Apps -> TypeOf(k)]
    BY <2>1, <2>3, Nothing DEF EmptyCache, Kinds, TypeOf
  <2>5. DOMAIN world = Kinds
    BY <2>1 DEF EmptyCache
  <2>6. ObjectType
    <3>1. \A k \in Kinds : cache[k] \in [Apps -> TypeOf(k)] /\ DOMAIN cache = Kinds
      BY Nothing DEF Init, EmptyCache
    <3>2. \A k \in Kinds : events[k] \in EventsType(k) /\ DOMAIN events = Kinds
      BY DEF Init, EventsType
    <3>3. Kinds # {}
      BY DEF Kinds
    <3>4. QED
      BY <2>4, <2>5, <3>1, <3>2, <3>3 DEF ObjectType
  <2>7. ProcessType
    <3>1. crashes \in 0 .. MaxCrashes
      BY ConstantsAssumption DEF Init
    <3>2. running = FALSE /\ ready = FALSE /\ started = {} /\ synced = {}
      BY DEF Init
    <3>3. QED
      BY <3>1, <3>2 DEF ProcessType
  <2>8. RequestType /\ HistoryType
    BY <2>2, Nothing DEF Init, RequestType, HistoryType
  <2>9. QED
    BY <2>6, <2>7, <2>8 DEF TypeOK, ObjectType, ProcessType, RequestType, HistoryType
<1>2. QED
  BY <1>1, NextType, PTL DEF Spec

-----------------------------------------------------------------------------
(* What the service says is deployed. *)

Recorded(runs, a, d) == d # NoDeployment => <<a, d.owner, d.image>> \in runs

(* Wherever a Deployment is on its way from the cluster to an answer, it   *)
(* has run: no copy, however old, makes one up.                            *)
AllRecorded ==
  /\ \A a \in Apps : /\ Recorded(rolled, a, world["deployments"][a])
                     /\ Recorded(rolled, a, cache["deployments"][a])
  /\ \A i \in DOMAIN events["deployments"] :
       Recorded(rolled, events["deployments"][i].app, events["deployments"][i].object)

(* An answer never joins a WebApp with the pods of another one of the same *)
(* name, however far apart the two caches are (store.go:158-160).          *)
THEOREM IncarnationsStayApart == Spec => []NoMixedIncarnations
<1> DEFINE Inv == AllRecorded /\ NoMixedIncarnations
<1>1. Init => Inv
  <2> SUFFICES ASSUME Init PROVE Inv
    OBVIOUS
  <2>1. \A a \in Apps : items[a].deployed = 0
    BY DEF Init, NotFound
  <2>2. \A a \in Apps : /\ world["deployments"][a] = NoDeployment
                        /\ cache["deployments"][a] = NoDeployment
    BY DEF Init, EmptyCache, Kinds
  <2>3. DOMAIN events["deployments"] = {}
    BY DEF Init, Kinds
  <2>4. QED
    BY <2>1, <2>2, <2>3 DEF AllRecorded, Recorded, NoMixedIncarnations
<1>2. TypeOK /\ Inv /\ [Next]_vars => Inv'
  <2> SUFFICES ASSUME TypeOK, Inv, [Next]_vars PROVE Inv'
    OBVIOUS
  <2> USE DEF cluster, informers, request
  <2>1. ASSUME UNCHANGED <<world, events, cache, items, rolled>> PROVE Inv'
    BY <2>1 DEF AllRecorded, Recorded, NoMixedIncarnations
  <2>2. CASE Boot \/ Start \/ Probe \/ Answer \/ UNCHANGED vars
    BY <2>1, <2>2 DEF Boot, Start, Probe, Answer, vars
  <2>3. CASE Crash
    <3>1. \A a \in Apps : items'[a].deployed = 0
      BY <2>3 DEF Crash, Idle, NotFound
    <3>2. \A a \in Apps : cache'["deployments"][a] = NoDeployment
      BY <2>3 DEF Crash, EmptyCache, Kinds
    <3>3. DOMAIN events'["deployments"] = {}
      BY <2>3 DEF Crash, Kinds
    <3>4. QED
      BY <2>3, <3>1, <3>2, <3>3 DEF Crash, AllRecorded, Recorded, NoMixedIncarnations
  <2>4. ASSUME NEW k \in Kinds, Sync(k) PROVE Inv'
    <3>1. cache'["deployments"] = cache["deployments"]
            \/ cache'["deployments"] = world["deployments"]
      BY <2>4 DEF Sync, TypeOK, Kinds
    <3>2. events'["deployments"] = events["deployments"]
            \/ events'["deployments"] = <<>>
      BY <2>4 DEF Sync, TypeOK, Kinds
    <3>3. UNCHANGED <<world, items, rolled>>
      BY <2>4 DEF Sync
    <3>4. \A a \in Apps : Recorded(rolled', a, cache'["deployments"][a])
      BY <3>1, <3>3 DEF AllRecorded, Recorded
    <3>5. \A i \in DOMAIN events'["deployments"] :
            Recorded(rolled', events'["deployments"][i].app, events'["deployments"][i].object)
      BY <3>2, <3>3 DEF AllRecorded, Recorded
    <3>6. QED
      BY <3>3, <3>4, <3>5 DEF AllRecorded, Recorded, NoMixedIncarnations
  <2>5. ASSUME NEW k \in Kinds, Watch(k) PROVE Inv'
    <3> DEFINE s == events[k]
               e == Head(s)
    <3>1. s \in Seq([app : Apps, object : TypeOf(k)]) /\ s # <<>>
      BY <2>5 DEF Watch, TypeOK, EventsType
    <3>2. /\ e \in [app : Apps, object : TypeOf(k)] /\ 1 \in DOMAIN s /\ e = s[1]
          /\ \A i \in DOMAIN Tail(s) : i + 1 \in DOMAIN s /\ Tail(s)[i] = s[i + 1]
      BY <3>1, Dequeued, Zenon
    <3>3. /\ cache' = [cache EXCEPT ![k] = [cache[k] EXCEPT ![e.app] = e.object]]
          /\ events' = [events EXCEPT ![k] = Tail(s)]
          /\ UNCHANGED <<world, items, rolled>>
      BY <2>5 DEF Watch, TypeOK
    <3> HIDE DEF e, s
    <3>4. CASE k = "webapps"
      BY <3>3, <3>4 DEF AllRecorded, Recorded, NoMixedIncarnations
    <3>5. CASE k = "deployments"
      <4>1. Recorded(rolled, e.app, e.object)
        BY <3>2, <3>5 DEF AllRecorded, s
      <4>2. \A a \in Apps : Recorded(rolled', a, cache'["deployments"][a])
        BY <3>3, <3>5, <4>1 DEF AllRecorded, Recorded, TypeOK, Kinds
      <4>3. \A i \in DOMAIN events'["deployments"] :
              Recorded(rolled', events'["deployments"][i].app, events'["deployments"][i].object)
        BY <3>2, <3>3, <3>5 DEF AllRecorded, Recorded, TypeOK, Kinds, s
      <4>4. QED
        BY <3>3, <4>2, <4>3 DEF AllRecorded, Recorded, NoMixedIncarnations
    <3>6. QED
      BY <3>4, <3>5 DEF Kinds
  <2>6. ASSUME NEW S, NEW answerable, Ask(S, answerable) PROVE Inv'
    <3>1. \A a \in Apps : items'[a].deployed = 0
      BY <2>6 DEF Ask, NotFound
    <3>2. QED
      BY <2>6, <3>1 DEF Ask, AllRecorded, Recorded, NoMixedIncarnations
  <2>7. ASSUME NEW a \in Apps, Convert(a) PROVE Inv'
    <3> DEFINE view == View(taken[a], cache["deployments"][a])
    <3>1. view.deployed # 0 => <<a, view.uid, view.deployed>> \in rolled
      <4>1. Recorded(rolled, a, cache["deployments"][a])
        BY DEF AllRecorded
      <4>2. QED
        BY <4>1 DEF View, OwnedBy, Recorded
    <3>2. items' = [items EXCEPT ![a] = view] /\ UNCHANGED <<world, events, cache, rolled>>
      BY <2>7 DEF Convert
    <3> HIDE DEF view
    <3>3. NoMixedIncarnations'
      BY <3>1, <3>2 DEF NoMixedIncarnations, TypeOK
    <3>4. QED
      BY <3>2, <3>3 DEF AllRecorded, Recorded
  <2>8. ASSUME NEW a \in Apps, Apply(a) \/ Delete(a) \/ Operator(a) PROVE Inv'
    <3>0. PICK k \in Kinds : \E object \in TypeOf(k) :
            /\ Happens(k, a, object)
            /\ k = "deployments" /\ object # NoDeployment
                 => <<a, object.owner, object.image>> \in rolled'
      BY <2>8, ClusterStep
    <3>1. PICK object \in TypeOf(k) :
            /\ Happens(k, a, object)
            /\ k = "deployments" /\ object # NoDeployment
                 => <<a, object.owner, object.image>> \in rolled'
      BY <3>0
    <3>2. rolled \subseteq rolled' /\ UNCHANGED <<cache, items>>
      BY <2>8, <3>1, ClusterStep DEF Happens
    <3>3. NoMixedIncarnations'
      BY <3>2 DEF NoMixedIncarnations
    <3>4. \A b \in Apps : Recorded(rolled', b, cache'["deployments"][b])
      BY <3>2 DEF AllRecorded, Recorded
    <3>5. k = "deployments" => Recorded(rolled', a, object)
      BY <3>1 DEF Recorded
    <3>6. \A b \in Apps : Recorded(rolled', b, world'["deployments"][b])
      <4>1. world' = [world EXCEPT ![k] = [world[k] EXCEPT ![a] = object]]
        BY <3>1 DEF Happens, TypeOK
      <4>2. QED
        BY <3>2, <3>5, <4>1 DEF AllRecorded, Recorded, TypeOK, Kinds
    <3>7. \A i \in DOMAIN events'["deployments"] :
            Recorded(rolled', events'["deployments"][i].app, events'["deployments"][i].object)
      <4> DEFINE s == events["deployments"]
                 e == [app |-> a, object |-> object]
      <4>1. s \in Seq([app : Apps, object : TypeOf("deployments")])
        BY DEF TypeOK, EventsType, Kinds
      <4>2. \A i \in DOMAIN s : Recorded(rolled', s[i].app, s[i].object)
        BY <3>2 DEF AllRecorded, Recorded
      <4>3. CASE events'["deployments"] = s
        BY <4>2, <4>3 DEF Recorded
      <4>4. CASE k = "deployments" /\ events'["deployments"] = Append(s, e)
        <5>1. e \in [app : Apps, object : TypeOf("deployments")]
          BY <4>4
        <5> HIDE DEF s, e
        <5>2. \A i \in DOMAIN Append(s, e) :
                \/ i \in DOMAIN s /\ Append(s, e)[i] = s[i]
                \/ Append(s, e)[i] = e
          BY <4>1, <5>1, Enqueued, Zenon
        <5>3. Recorded(rolled', e.app, e.object)
          BY <3>5, <4>4 DEF Recorded, e
        <5>4. QED
          BY <4>2, <4>4, <5>2, <5>3 DEF Recorded
      <4>5. QED
        BY <3>1, <4>3, <4>4 DEF Happens, TypeOK, Kinds
    <3>8. QED
      BY <3>3, <3>4, <3>6, <3>7 DEF AllRecorded
  <2>9. QED
    BY <2>2, <2>3, <2>4, <2>5, <2>6, <2>7, <2>8 DEF Next, List, Get
<1>3. QED
  BY <1>1, <1>2, TypeCorrect, PTL DEF Spec

-----------------------------------------------------------------------------
(* What the service knows when it is ready. *)

(* Informers run in a process, queue events once they have listed, and     *)
(* requests come once both have.                                           *)
Gated ==
  /\ started # {} => running
  /\ \A k \in Kinds : k \notin synced => events[k] = <<>>
  /\ ready => synced = Kinds
  /\ busy \/ about # {} => ready
  /\ ~busy => todo = {}

(* Of what has been there since the process started, the cluster has the   *)
(* same object still, and so has whatever an informer holds or will hold.  *)
Tracked ==
  \A k \in Kinds : \A a \in lived[k] :
    /\ Identity(k, world[k][a]) # 0
    /\ k \in synced =>
         /\ Identity(k, cache[k][a]) = Identity(k, world[k][a])
         /\ \A i \in DOMAIN events[k] :
              events[k][i].app = a =>
                Identity(k, events[k][i].object) = Identity(k, world[k][a])

(* A request has taken, or has answered, all that has been there.          *)
Covered ==
  /\ \A a \in todo :
       /\ taken[a].uid # 0
       /\ a \in lived["webapps"] => taken[a].uid = WebAppOf(a).uid
  /\ \A a \in (about \cap lived["webapps"]) \ todo :
       /\ items[a] # NotFound
       /\ a \in lived["deployments"] /\ DeploymentOf(a).owner = WebAppOf(a).uid
            => items[a].deployed # 0

(* What no step of a request changes.                                      *)
Requested == UNCHANGED <<world, events, cache, started, synced, running, ready, lived>>

(* The steps of a request read the caches and write nothing there.         *)
LEMMA RequestStep ==
  ASSUME Answer \/ (\E S \in Selections : List(S)) \/ \E a \in Apps : Get(a) \/ Convert(a)
  PROVE  Requested
  BY DEF Answer, List, Get, Ask, Convert, Requested, cluster, informers

(* A step keeps the order in which the service comes up and is asked.      *)
LEMMA GatedStep == TypeOK /\ Gated /\ [Next]_vars => Gated'
<1> SUFFICES ASSUME TypeOK, Gated, [Next]_vars PROVE Gated'
  OBVIOUS
<1> USE DEF Gated, TypeOK, cluster, informers, request
<1>1. CASE Boot
  BY <1>1 DEF Boot
<1>2. CASE Start
  BY <1>2 DEF Start
<1>3. CASE Probe
  BY <1>3 DEF Probe, HasSynced
<1>4. CASE Crash
  BY <1>4 DEF Crash, Idle
<1>5. ASSUME NEW k \in Kinds, Sync(k) PROVE Gated'
  BY <1>5 DEF Sync
<1>6. ASSUME NEW k \in Kinds, Watch(k) PROVE Gated'
  BY <1>6 DEF Watch
<1>7. ASSUME NEW S, NEW answerable, Ask(S, answerable) PROVE Gated'
  BY <1>7 DEF Ask
<1>8. ASSUME NEW a \in Apps, Convert(a) PROVE Gated'
  BY <1>8 DEF Convert
<1>9. CASE Answer
  BY <1>9 DEF Answer
<1>10. ASSUME NEW a \in Apps, Apply(a) \/ Delete(a) \/ Operator(a) PROVE Gated'
  <2>1. PICK k \in Kinds : \E object \in TypeOf(k) : Happens(k, a, object)
    BY <1>10, ClusterStep
  <2>2. QED
    BY <2>1 DEF Happens
<1>11. CASE UNCHANGED vars
  BY <1>11 DEF vars
<1>12. QED
  BY <1>1, <1>2, <1>3, <1>4, <1>5, <1>6, <1>7, <1>8, <1>9, <1>10, <1>11
  DEF Next, List, Get

(* Objects that live keep their identity in the cluster.                   *)
LEMMA IdentityStays ==
  ASSUME TypeOK, Tracked, NEW a \in Apps, Apply(a) \/ Delete(a) \/ Operator(a)
  PROVE  \A j \in Kinds : \A b \in lived'[j] :
           /\ b \in lived[j]
           /\ Identity(j, world'[j][b]) = Identity(j, world[j][b])
<1>1. PICK k \in Kinds : \E object \in TypeOf(k) :
        /\ Happens(k, a, object)
        /\ a \in lived'[k] /\ Identity(k, world[k][a]) # 0
             => Identity(k, object) = Identity(k, world[k][a])
  BY ClusterStep
<1>2. PICK object \in TypeOf(k) :
        /\ Happens(k, a, object)
        /\ a \in lived'[k] /\ Identity(k, world[k][a]) # 0
             => Identity(k, object) = Identity(k, world[k][a])
  BY <1>1
<1>3. \A j \in Kinds : lived'[j] \subseteq lived[j] /\ lived[j] \subseteq Apps
  BY ClusterStep DEF TypeOK
<1>4. world' = [world EXCEPT ![k] = [world[k] EXCEPT ![a] = object]]
  BY <1>2 DEF Happens, TypeOK
<1>5. ASSUME NEW j \in Kinds, NEW b \in lived'[j]
      PROVE  Identity(j, world'[j][b]) = Identity(j, world[j][b])
  <2>1. b \in lived[j] /\ b \in Apps /\ Identity(j, world[j][b]) # 0
    BY <1>3 DEF Tracked
  <2>2. CASE j = k /\ b = a
    BY <1>2, <1>4, <2>1, <2>2 DEF TypeOK
  <2>3. CASE ~(j = k /\ b = a)
    BY <1>4, <2>1, <2>3 DEF TypeOK
  <2>4. QED
    BY <2>2, <2>3
<1>6. QED
  BY <1>3, <1>5

(* A step keeps the caches and the watches true about what lives: a list   *)
(* copies the cluster, and an event has the identity the cluster had.      *)
LEMMA TrackedStep == TypeOK /\ Gated /\ Tracked /\ [Next]_vars => Tracked'
<1> SUFFICES ASSUME TypeOK, Gated, Tracked, [Next]_vars PROVE Tracked'
  OBVIOUS
<1> USE DEF cluster, informers, request
<1>0. lived \in [Kinds -> SUBSET Apps]
  BY DEF TypeOK
<1>1. CASE Boot
  <2>1. synced' = {}
    BY <1>1 DEF Boot, Gated, TypeOK
  <2>2. ASSUME NEW k \in Kinds, NEW a \in lived'[k] PROVE Identity(k, world'[k][a]) # 0
    <3>1. a \in Apps /\ Exists(k, a) /\ world' = world
      BY <1>1, <2>2 DEF Boot
    <3>2. world["webapps"][a] \in WebAppsType /\ world["deployments"][a] \in DeploymentsType
      BY <3>1 DEF TypeOK, Kinds, TypeOf
    <3>3. QED
      BY <3>1, <3>2, IdentityOfNothing DEF Kinds, Exists, Identity, WebAppOf, DeploymentOf
  <2>3. QED
    BY <2>1, <2>2 DEF Tracked
<1>2. CASE Start \/ Probe \/ Answer \/ UNCHANGED vars
           \/ (\E S \in Selections : List(S)) \/ \E a \in Apps : Get(a) \/ Convert(a)
  <2>1. UNCHANGED <<world, events, cache, synced, lived>>
    BY <1>2, RequestStep DEF Start, Probe, vars, Requested
  <2>2. QED
    BY <2>1 DEF Tracked
<1>3. CASE Crash
  BY <1>3 DEF Crash, Tracked
<1>4. ASSUME NEW k \in Kinds, Sync(k) PROVE Tracked'
  <2>1. /\ UNCHANGED <<world, lived>>
        /\ cache'[k] = world[k] /\ events'[k] = <<>>
        /\ \A j \in Kinds : j # k => cache'[j] = cache[j] /\ events'[j] = events[j]
        /\ \A j \in Kinds : j # k /\ j \in synced' => j \in synced
    BY <1>4 DEF Sync, TypeOK
  <2>2. QED
    BY <2>1 DEF Tracked
<1>5. ASSUME NEW k \in Kinds, Watch(k) PROVE Tracked'
  <2> DEFINE q == events[k]
             e == Head(q)
  <2>1. q \in Seq([app : Apps, object : TypeOf(k)]) /\ q # <<>> /\ k \in synced
    BY <1>5 DEF Watch, TypeOK, EventsType, Gated
  <2>2. /\ e \in [app : Apps, object : TypeOf(k)] /\ 1 \in DOMAIN q /\ e = q[1]
        /\ \A i \in DOMAIN Tail(q) : i + 1 \in DOMAIN q /\ Tail(q)[i] = q[i + 1]
    BY <2>1, Dequeued, Zenon
  <2>3. /\ cache' = [cache EXCEPT ![k] = [cache[k] EXCEPT ![e.app] = e.object]]
        /\ events' = [events EXCEPT ![k] = Tail(q)]
        /\ UNCHANGED <<world, synced, lived>>
    BY <1>5 DEF Watch, TypeOK
  <2>4. \A a \in lived[k] : a = e.app => Identity(k, e.object) = Identity(k, world[k][a])
    BY <2>1, <2>2 DEF Tracked
  <2> HIDE DEF e
  <2>5. ASSUME NEW a \in lived[k] PROVE Identity(k, cache'[k][a]) = Identity(k, world[k][a])
    <3>1. a \in Apps /\ Identity(k, cache[k][a]) = Identity(k, world[k][a])
      BY <1>0, <2>1 DEF Tracked
    <3>2. cache'[k][a] = IF a = e.app THEN e.object ELSE cache[k][a]
      BY <2>3, <3>1 DEF TypeOK
    <3>3. QED
      BY <2>4, <3>1, <3>2
  <2>6. ASSUME NEW a \in lived[k], NEW i \in DOMAIN events'[k], events'[k][i].app = a
        PROVE  Identity(k, events'[k][i].object) = Identity(k, world[k][a])
    <3>1. events'[k] = Tail(q)
      BY <2>3 DEF TypeOK
    <3>2. i + 1 \in DOMAIN q /\ events'[k][i] = q[i + 1]
      BY <2>2, <2>6, <3>1
    <3>3. QED
      BY <2>1, <2>6, <3>2 DEF Tracked
  <2>7. \A j \in Kinds : j # k => cache'[j] = cache[j] /\ events'[j] = events[j]
    BY <2>3 DEF TypeOK
  <2> HIDE DEF q
  <2>8. QED
    BY <2>3, <2>5, <2>6, <2>7 DEF Tracked
<1>6. ASSUME NEW a \in Apps, Apply(a) \/ Delete(a) \/ Operator(a) PROVE Tracked'
  <2>1. \A j \in Kinds : \A b \in lived'[j] :
          /\ b \in lived[j]
          /\ Identity(j, world'[j][b]) = Identity(j, world[j][b])
    BY <1>6, IdentityStays
  <2>2. PICK k \in Kinds : \E object \in TypeOf(k) :
          /\ Happens(k, a, object)
          /\ a \in lived'[k] /\ Identity(k, world[k][a]) # 0
               => Identity(k, object) = Identity(k, world[k][a])
    BY <1>6, ClusterStep
  <2>3. PICK object \in TypeOf(k) :
          /\ Happens(k, a, object)
          /\ a \in lived'[k] /\ Identity(k, world[k][a]) # 0
               => Identity(k, object) = Identity(k, world[k][a])
    BY <2>2
  <2>4. UNCHANGED <<cache, synced>>
    BY <2>3 DEF Happens
  <2>5. ASSUME NEW j \in Kinds, NEW b \in lived'[j], j \in synced,
               NEW i \in DOMAIN events'[j], events'[j][i].app = b
        PROVE  Identity(j, events'[j][i].object) = Identity(j, world[j][b])
    <3> DEFINE q == events[j]
               e == [app |-> a, object |-> object]
    <3>1. q \in Seq([app : Apps, object : TypeOf(j)])
      BY DEF TypeOK, EventsType
    <3>2. b \in lived[j] /\ Identity(j, world[j][b]) # 0
      BY <2>1, <2>5 DEF Tracked
    <3>3. CASE events'[j] = q
      BY <2>5, <3>2, <3>3 DEF Tracked
    <3>4. CASE j = k /\ events'[j] = Append(q, e)
      <4>1. e \in [app : Apps, object : TypeOf(j)] /\ e.app = a /\ e.object = object
        BY <3>4
      <4> HIDE DEF e
      <4>2. \/ i \in DOMAIN q /\ events'[j][i] = q[i]
            \/ events'[j][i] = e
        <5> HIDE DEF q
        <5>1. QED
          BY <2>5, <3>1, <3>4, <4>1, Enqueued
      <4>3. CASE i \in DOMAIN q /\ events'[j][i] = q[i]
        BY <2>5, <3>2, <4>3 DEF Tracked
      <4>4. CASE events'[j][i] = e
        BY <2>3, <2>5, <3>2, <3>4, <4>1, <4>4
      <4>5. QED
        BY <4>2, <4>3, <4>4
    <3>5. QED
      BY <2>3, <3>3, <3>4 DEF Happens, TypeOK
  <2>6. QED
    BY <2>1, <2>4, <2>5 DEF Tracked
<1>7. QED
  BY <1>1, <1>2, <1>3, <1>4, <1>5, <1>6 DEF Next

(* A step keeps what a request has taken and answered about what lives.    *)
LEMMA CoveredStep == TypeOK /\ Gated /\ Tracked /\ Covered /\ [Next]_vars => Covered'
<1> SUFFICES ASSUME TypeOK, Gated, Tracked, Covered, [Next]_vars PROVE Covered'
  OBVIOUS
<1> USE DEF cluster, informers, request
<1>0. /\ lived \in [Kinds -> SUBSET Apps] /\ todo \subseteq Apps /\ about \subseteq Apps
      /\ "webapps" \in Kinds /\ "deployments" \in Kinds
      /\ taken \in [Apps -> WebAppsType] /\ items \in [Apps -> ItemsType]
  BY DEF TypeOK, Kinds
<1>1. CASE Boot
  <2>1. todo' = {} /\ about' = {}
    BY <1>1 DEF Boot, Gated, TypeOK, Kinds
  <2>2. QED
    BY <2>1 DEF Covered
<1>2. CASE Start \/ Probe \/ Answer \/ UNCHANGED vars
           \/ \E k \in Kinds : Sync(k) \/ Watch(k)
  <2>1. UNCHANGED <<world, about, todo, taken, items, lived>>
    BY <1>2 DEF Start, Probe, Answer, vars, Sync, Watch
  <2>2. QED
    BY <2>1 DEF Covered, WebAppOf, DeploymentOf
<1>3. CASE Crash
  BY <1>3 DEF Crash, Idle, Covered
<1>4. ASSUME NEW S \in SUBSET Apps,
             Ask(S, {a \in S : cache["webapps"][a] # NoWebApp})
               \/ Ask(S, {a \in Apps : cache["webapps"][a] # NoWebApp})
      PROVE  Covered'
  <2>1. PICK answerable \in SUBSET Apps :
          /\ Ask(S, answerable)
          /\ \A a \in answerable : cache["webapps"][a] # NoWebApp
          /\ \A a \in S \ answerable : cache["webapps"][a] = NoWebApp
    BY <1>4
  <2>2. /\ about' = S /\ todo' = answerable
        /\ \A a \in answerable : taken'[a] = cache["webapps"][a]
        /\ UNCHANGED <<world, lived>>
    BY <2>1 DEF Ask
  <2>3. \A a \in Apps : cache["webapps"][a].uid = 0 <=> cache["webapps"][a] = NoWebApp
    BY <1>0, IdentityOfNothing DEF TypeOK, TypeOf
  <2>4. \A a \in lived["webapps"] : /\ cache["webapps"][a].uid = WebAppOf(a).uid
                                   /\ WebAppOf(a).uid # 0
    <3>1. "webapps" \in synced
      BY <1>0, <2>1 DEF Ask, Gated
    <3>2. QED
      BY <1>0, <3>1 DEF Tracked, Identity, WebAppOf
  <2>5. about' \cap lived'["webapps"] \subseteq todo'
    BY <1>0, <2>1, <2>2, <2>3, <2>4
  <2>6. QED
    BY <1>0, <2>1, <2>2, <2>3, <2>4, <2>5 DEF Covered, WebAppOf
<1>5. ASSUME NEW b \in Apps, Convert(b) PROVE Covered'
  <2> DEFINE d == cache["deployments"][b]
  <2>1. /\ b \in todo /\ todo' = todo \ {b}
        /\ items' = [items EXCEPT ![b] = View(taken[b], d)]
        /\ taken' = [taken EXCEPT ![b] = NoWebApp]
        /\ UNCHANGED <<world, about, lived>>
    BY <1>5 DEF Convert
  <2>2. taken[b].uid # 0 /\ (b \in lived["webapps"] => taken[b].uid = WebAppOf(b).uid)
    BY <2>1 DEF Covered
  <2>3. View(taken[b], d) # NotFound
    BY <2>2 DEF View, NotFound
  <2>4. ASSUME b \in lived["webapps"], b \in lived["deployments"],
               DeploymentOf(b).owner = WebAppOf(b).uid
        PROVE  View(taken[b], d).deployed # 0
    <3>1. "deployments" \in synced
      BY <1>0, <2>1 DEF Gated
    <3>2. d.owner = DeploymentOf(b).owner /\ DeploymentOf(b).owner # 0
      BY <1>0, <2>4, <3>1 DEF Tracked, Identity, DeploymentOf
    <3>3. d \in DeploymentsType
      BY <1>0 DEF TypeOK, TypeOf
    <3>4. d # NoDeployment /\ d.image # 0
      BY <3>2, <3>3, IdentityOfNothing
    <3>5. d.owner = taken[b].uid
      BY <2>2, <2>4, <3>2
    <3> HIDE DEF d
    <3>6. QED
      BY <3>4, <3>5 DEF View, OwnedBy
  <2> DEFINE view == View(taken[b], d)
  <2>5. items' = [items EXCEPT ![b] = view] /\ view # NotFound
    BY <2>1, <2>3
  <2> HIDE DEF d, view
  <2>6. \A a \in todo' : a \in todo /\ a # b /\ taken'[a] = taken[a]
    BY <1>0, <2>1
  <2>7. ASSUME NEW a \in (about' \cap lived'["webapps"]) \ todo'
        PROVE  /\ items'[a] # NotFound
               /\ a \in lived'["deployments"] /\ DeploymentOf(a)'.owner = WebAppOf(a)'.uid
                    => items'[a].deployed # 0
    <3>1. a \in about /\ a \in lived["webapps"] /\ a \in Apps
      BY <1>0, <2>1
    <3>2. DeploymentOf(a)' = DeploymentOf(a) /\ WebAppOf(a)' = WebAppOf(a)
      BY <2>1 DEF DeploymentOf, WebAppOf
    <3>3. CASE a = b
      BY <1>0, <2>1, <2>4, <2>5, <3>1, <3>2, <3>3 DEF view
    <3>4. CASE a # b
      <4>1. items'[a] = items[a] /\ a \notin todo
        BY <1>0, <2>1, <2>5, <3>1, <3>4
      <4>2. QED
        BY <2>1, <3>1, <3>2, <4>1 DEF Covered
    <3>5. QED
      BY <3>3, <3>4
  <2>8. QED
    BY <2>1, <2>6, <2>7 DEF Covered, WebAppOf
<1>6. ASSUME NEW b \in Apps, Apply(b) \/ Delete(b) \/ Operator(b) PROVE Covered'
  <2>1. \A j \in Kinds : \A a \in lived'[j] :
          /\ a \in lived[j]
          /\ Identity(j, world'[j][a]) = Identity(j, world[j][a])
    BY <1>6, IdentityStays
  <2>2. UNCHANGED <<about, todo, taken, items>>
    BY <1>6, ClusterStep DEF Happens
  <2>3. \A a \in lived'["webapps"] : a \in lived["webapps"] /\ WebAppOf(a)'.uid = WebAppOf(a).uid
    BY <1>0, <2>1 DEF Identity, WebAppOf
  <2>4. \A a \in lived'["deployments"] :
          a \in lived["deployments"] /\ DeploymentOf(a)'.owner = DeploymentOf(a).owner
    BY <1>0, <2>1 DEF Identity, DeploymentOf
  <2>5. QED
    BY <2>2, <2>3, <2>4 DEF Covered
<1>7. ASSUME NEW S \in Selections, List(S) PROVE Covered'
  BY <1>0, <1>4, <1>7, ConstantsAssumption DEF List
<1>8. ASSUME NEW a \in Apps, Get(a) PROVE Covered'
  <2>1. {a} \in SUBSET Apps
    OBVIOUS
  <2>2. QED
    BY <1>4, <1>8, <2>1 DEF Get
<1>9. QED
  BY <1>1, <1>2, <1>3, <1>5, <1>6, <1>7, <1>8 DEF Next

(* A service that says it is ready answers with every WebApp that has been *)
(* there since the process started, and with the image of a Deployment     *)
(* that has been: the two caches may be apart, but never incomplete.       *)
THEOREM ReadyMeansKnown == Spec => []KnownWhenReady
<1> DEFINE Inv == Gated /\ Tracked /\ Covered
<1>1. Init => Inv
  <2> SUFFICES ASSUME Init PROVE Inv
    OBVIOUS
  <2>1. Gated
    BY DEF Init, Gated
  <2>2. Tracked
    BY DEF Init, Tracked
  <2>3. Covered
    BY DEF Init, Covered
  <2>4. QED
    BY <2>1, <2>2, <2>3
<1>2. TypeOK /\ Inv /\ [Next]_vars => Inv'
  BY GatedStep, TrackedStep, CoveredStep
<1>3. TypeOK /\ Inv => KnownWhenReady
  BY DEF KnownWhenReady, Gated, Covered, TypeOK
<1>4. QED
  BY <1>1, <1>2, <1>3, TypeCorrect, PTL DEF Spec

-----------------------------------------------------------------------------
(* What is left once everything is delivered. *)

(* The event at i is the last word of its watch on application a.          *)
LastOn(k, a, i) ==
  /\ events[k][i].app = a
  /\ \A j \in DOMAIN events[k] : j > i => events[k][j].app # a

(* What an informer holds, with what its watch has yet to deliver, is what *)
(* the cluster holds.                                                      *)
CaughtUp ==
  \A k \in synced : \A a \in Apps :
    /\ (\A i \in DOMAIN events[k] : events[k][i].app # a)
         => cache[k][a] = world[k][a]
    /\ \A i \in DOMAIN events[k] :
         LastOn(k, a, i) => events[k][i].object = world[k][a]

(* An event that is delivered was the first; the others keep their order.  *)
LEMMA Delivered ==
  ASSUME NEW T, NEW q \in Seq(T), q # <<>>
  PROVE  /\ DOMAIN q \subseteq Nat /\ DOMAIN Tail(q) \subseteq Nat
         /\ \A i \in DOMAIN q : i = 1 \/ (i - 1 \in DOMAIN Tail(q))
         /\ \A i \in DOMAIN Tail(q) : i + 1 \in DOMAIN q /\ Tail(q)[i] = q[i + 1]
<1>1. Len(q) \in Nat \ {0} /\ DOMAIN q = 1 .. Len(q)
  BY EmptySeq, LenProperties
<1>2. /\ Tail(q) \in Seq(T) /\ Len(Tail(q)) = Len(q) - 1
      /\ \A i \in 1 .. Len(Tail(q)) : Tail(q)[i] = q[i + 1]
  BY HeadTailProperties
<1>3. DOMAIN Tail(q) = 1 .. Len(q) - 1
  BY <1>2, LenProperties
<1>4. QED
  BY <1>1, <1>2, <1>3

(* An event that comes in is the last.                                     *)
LEMMA Queued ==
  ASSUME NEW T, NEW q \in Seq(T), NEW e \in T
  PROVE  /\ Len(q) \in Nat /\ DOMAIN q = 1 .. Len(q)
         /\ DOMAIN Append(q, e) = 1 .. Len(q) + 1
         /\ \A i \in DOMAIN q : Append(q, e)[i] = q[i]
         /\ Append(q, e)[Len(q) + 1] = e
<1>1. Len(q) \in Nat /\ DOMAIN q = 1 .. Len(q)
  BY LenProperties
<1>2. /\ Append(q, e) \in Seq(T) /\ Len(Append(q, e)) = Len(q) + 1
      /\ \A i \in 1 .. Len(q) : Append(q, e)[i] = q[i]
      /\ Append(q, e)[Len(q) + 1] = e
  BY AppendProperties
<1>3. DOMAIN Append(q, e) = 1 .. Len(q) + 1
  BY <1>2, LenProperties
<1>4. QED
  BY <1>1, <1>2, <1>3

(* A change of the cluster becomes the last word of the watch on it.       *)
LEMMA CaughtUpOnChange ==
  ASSUME TypeOK, CaughtUp, NEW k \in Kinds, NEW a \in Apps,
         NEW object \in TypeOf(k), Happens(k, a, object)
  PROVE  CaughtUp'
<1>1. /\ UNCHANGED <<cache, synced>>
      /\ world' = [world EXCEPT ![k] = [world[k] EXCEPT ![a] = object]]
  BY DEF Happens, TypeOK
<1>2. ASSUME NEW n \in synced', n # k PROVE world'[n] = world[n] /\ events'[n] = events[n]
  BY <1>1, <1>2 DEF Happens, TypeOK
<1>3. ASSUME k \in synced, NEW b \in Apps
      PROVE  /\ (\A i \in DOMAIN events'[k] : events'[k][i].app # b)
                   => cache'[k][b] = world'[k][b]
             /\ \A i \in DOMAIN events'[k] :
                  LastOn(k, b, i)' => events'[k][i].object = world'[k][b]
  <2> DEFINE q == events[k]
             e == [app |-> a, object |-> object]
  <2>1. q \in Seq([app : Apps, object : TypeOf(k)])
    BY DEF TypeOK, EventsType
  <2>2. e \in [app : Apps, object : TypeOf(k)] /\ e.app = a /\ e.object = object
    OBVIOUS
  <2>3. events'[k] = Append(q, e)
    BY <1>3 DEF Happens, TypeOK
  <2> HIDE DEF e
  <2>4. /\ Len(q) \in Nat /\ DOMAIN q = 1 .. Len(q)
        /\ DOMAIN Append(q, e) = 1 .. Len(q) + 1
        /\ \A i \in DOMAIN q : Append(q, e)[i] = q[i]
        /\ Append(q, e)[Len(q) + 1] = e
    <3> HIDE DEF q
    <3>1. QED
      BY <2>1, <2>2, Queued
  <2>5. world'[k][b] = IF b = a THEN object ELSE world[k][b]
    BY <1>1 DEF TypeOK
  <2>6. ASSUME \A i \in DOMAIN events'[k] : events'[k][i].app # b
        PROVE  cache'[k][b] = world'[k][b]
    <3>1. b # a
      BY <2>2, <2>3, <2>4, <2>6
    <3>2. \A i \in DOMAIN q : q[i].app # b
      BY <2>3, <2>4, <2>6
    <3>3. QED
      BY <1>1, <1>3, <2>5, <3>1, <3>2 DEF CaughtUp
  <2>7. ASSUME NEW i \in DOMAIN events'[k], LastOn(k, b, i)'
        PROVE  events'[k][i].object = world'[k][b]
    <3>1. events'[k][i].app = b /\ \A j \in DOMAIN events'[k] : j > i => events'[k][j].app # b
      BY <2>7 DEF LastOn
    <3>2. CASE i = Len(q) + 1
      BY <2>2, <2>3, <2>4, <2>5, <3>1, <3>2
    <3>3. CASE i # Len(q) + 1
      <4>1. i \in DOMAIN q /\ events'[k][i] = q[i]
        BY <2>3, <2>4, <3>3
      <4>2. b # a
        BY <2>2, <2>3, <2>4, <3>1, <4>1
      <4>3. \A j \in DOMAIN q : j > i => q[j].app # b
        BY <2>3, <2>4, <3>1
      <4>4. LastOn(k, b, i)
        BY <3>1, <4>1, <4>3 DEF LastOn
      <4>5. QED
        BY <1>3, <2>5, <4>1, <4>2, <4>4 DEF CaughtUp
    <3>4. QED
      BY <3>2, <3>3
  <2>8. QED
    BY <2>6, <2>7
<1>4. ASSUME NEW n \in synced', NEW b \in Apps
      PROVE  /\ (\A i \in DOMAIN events'[n] : events'[n][i].app # b)
                   => cache'[n][b] = world'[n][b]
             /\ \A i \in DOMAIN events'[n] :
                  LastOn(n, b, i)' => events'[n][i].object = world'[n][b]
  <2>1. n \in synced
    BY <1>1
  <2>2. CASE n = k
    BY <1>3, <2>1, <2>2
  <2>3. CASE n # k
    BY <1>1, <1>2, <2>1, <2>3 DEF CaughtUp, LastOn
  <2>4. QED
    BY <2>2, <2>3
<1>5. QED
  BY <1>4 DEF CaughtUp

(* Every step keeps it: a list copies all, an event brings its cache on.   *)
LEMMA CaughtUpStep == TypeOK /\ Gated /\ CaughtUp /\ [Next]_vars => CaughtUp'
<1> SUFFICES ASSUME TypeOK, Gated, CaughtUp, [Next]_vars PROVE CaughtUp'
  OBVIOUS
<1> USE DEF cluster, informers, request
<1>1. CASE Boot \/ Start \/ Probe \/ Answer \/ UNCHANGED vars
           \/ (\E S \in Selections : List(S)) \/ \E a \in Apps : Get(a) \/ Convert(a)
  <2>1. UNCHANGED <<world, events, cache, synced>>
    BY <1>1, RequestStep DEF Boot, Start, Probe, vars, Requested
  <2>2. QED
    BY <2>1 DEF CaughtUp, LastOn
<1>2. CASE Crash
  BY <1>2 DEF Crash, CaughtUp
<1>3. ASSUME NEW k \in Kinds, Sync(k) PROVE CaughtUp'
  <2>1. /\ UNCHANGED world
        /\ cache'[k] = world[k] /\ events'[k] = <<>>
        /\ \A j \in Kinds : j # k => cache'[j] = cache[j] /\ events'[j] = events[j]
        /\ \A j \in Kinds : j # k /\ j \in synced' => j \in synced
        /\ synced' \subseteq Kinds
    BY <1>3 DEF Sync, TypeOK
  <2>2. QED
    BY <2>1 DEF CaughtUp, LastOn
<1>4. ASSUME NEW k \in Kinds, Watch(k) PROVE CaughtUp'
  <2> DEFINE q == events[k]
             e == Head(q)
  <2>1. q \in Seq([app : Apps, object : TypeOf(k)]) /\ q # <<>> /\ k \in synced
    BY <1>4 DEF Watch, TypeOK, EventsType, Gated
  <2>2. e \in [app : Apps, object : TypeOf(k)] /\ 1 \in DOMAIN q /\ e = q[1]
    BY <2>1, Dequeued, Zenon
  <2>3. /\ DOMAIN q \subseteq Nat /\ DOMAIN Tail(q) \subseteq Nat
        /\ \A i \in DOMAIN q : i = 1 \/ (i - 1 \in DOMAIN Tail(q))
        /\ \A i \in DOMAIN Tail(q) : i + 1 \in DOMAIN q /\ Tail(q)[i] = q[i + 1]
    BY <2>1, Delivered, Zenon
  <2>4. /\ cache' = [cache EXCEPT ![k] = [cache[k] EXCEPT ![e.app] = e.object]]
        /\ events' = [events EXCEPT ![k] = Tail(q)]
        /\ UNCHANGED <<world, synced>>
    BY <1>4 DEF Watch, TypeOK
  <2> HIDE DEF e
  <2>5. /\ events'[k] = Tail(q)
        /\ \A a \in Apps : cache'[k][a] = IF a = e.app THEN e.object ELSE cache[k][a]
        /\ \A j \in Kinds : j # k => cache'[j] = cache[j] /\ events'[j] = events[j]
    BY <2>2, <2>4 DEF TypeOK
  <2>6. ASSUME NEW a \in Apps, \A i \in DOMAIN Tail(q) : Tail(q)[i].app # a
        PROVE  cache'[k][a] = world[k][a]
    <3>1. ASSUME NEW i \in DOMAIN q, i > 1 PROVE q[i].app # a
      <4>1. i \in Nat /\ i - 1 \in DOMAIN Tail(q) /\ (i - 1) + 1 = i
        BY <2>3, <3>1
      <4>2. Tail(q)[i - 1] = q[i]
        <5>1. Tail(q)[i - 1] = q[(i - 1) + 1]
          BY <2>3, <4>1
        <5>2. QED
          BY <4>1, <5>1
      <4>3. QED
        BY <2>6, <4>1, <4>2
    <3>2. CASE a = e.app
      <4>1. LastOn(k, a, 1)
        BY <2>2, <3>1, <3>2 DEF LastOn
      <4>2. QED
        BY <2>1, <2>2, <2>5, <3>2, <4>1 DEF CaughtUp
    <3>3. CASE a # e.app
      <4>1. \A i \in DOMAIN q : q[i].app # a
        BY <2>2, <2>3, <3>1, <3>3
      <4>2. QED
        BY <2>1, <2>5, <3>3, <4>1 DEF CaughtUp
    <3>4. QED
      BY <3>2, <3>3
  <2>7. ASSUME NEW a \in Apps, NEW i \in DOMAIN Tail(q), LastOn(k, a, i)'
        PROVE  Tail(q)[i].object = world[k][a]
    <3>1. i + 1 \in DOMAIN q /\ Tail(q)[i] = q[i + 1] /\ q[i + 1].app = a
      BY <2>3, <2>5, <2>7 DEF LastOn
    <3>2. ASSUME NEW j \in DOMAIN q, j > i + 1 PROVE q[j].app # a
      <4>1. i \in Nat /\ j \in Nat /\ j - 1 \in DOMAIN Tail(q) /\ j - 1 > i
        BY <2>3, <3>2
      <4>2. Tail(q)[j - 1] = q[j]
        <5>1. Tail(q)[j - 1] = q[(j - 1) + 1] /\ (j - 1) + 1 = j
          BY <2>3, <4>1
        <5>2. QED
          BY <5>1
      <4>3. Tail(q)[j - 1].app # a
        BY <2>5, <2>7, <4>1 DEF LastOn
      <4>4. QED
        BY <4>2, <4>3
    <3>3. LastOn(k, a, i + 1)
      BY <3>1, <3>2 DEF LastOn
    <3>4. QED
      BY <2>1, <3>1, <3>3 DEF CaughtUp
  <2>8. ASSUME NEW n \in synced', NEW a \in Apps
        PROVE  /\ (\A i \in DOMAIN events'[n] : events'[n][i].app # a)
                     => cache'[n][a] = world'[n][a]
               /\ \A i \in DOMAIN events'[n] :
                    LastOn(n, a, i)' => events'[n][i].object = world'[n][a]
    <3>1. n \in synced /\ n \in Kinds
      BY <2>4 DEF TypeOK
    <3>2. CASE n = k
      <4> DEFINE left == Tail(q)
      <4>1. events'[k] = left /\ UNCHANGED world
        BY <2>4, <2>5
      <4>2. (\A i \in DOMAIN left : left[i].app # a) => cache'[k][a] = world[k][a]
        BY <2>6
      <4>3. \A i \in DOMAIN left : LastOn(k, a, i)' => left[i].object = world[k][a]
        BY <2>7
      <4> HIDE DEF left
      <4>4. QED
        BY <3>2, <4>1, <4>2, <4>3
    <3>3. CASE n # k
      BY <2>4, <2>5, <3>1, <3>3 DEF CaughtUp, LastOn
    <3>4. QED
      BY <3>2, <3>3
  <2>9. QED
    BY <2>8 DEF CaughtUp
<1>5. ASSUME NEW a \in Apps, Apply(a) \/ Delete(a) \/ Operator(a) PROVE CaughtUp'
  <2>1. PICK k \in Kinds : \E object \in TypeOf(k) : Happens(k, a, object)
    BY <1>5, ClusterStep
  <2>2. QED
    BY <2>1, CaughtUpOnChange
<1>6. QED
  BY <1>1, <1>2, <1>3, <1>4, <1>5 DEF Next

(* An informer never loses a change: what it has not been told yet is on   *)
(* its way, however changes, lists and restarts interleave                 *)
(* (store.go:70-83).                                                       *)
THEOREM NothingIsLost == Spec => []CaughtUp
<1>1. Init => Gated /\ CaughtUp
  BY DEF Init, Gated, CaughtUp
<1>2. TypeOK /\ Gated /\ CaughtUp /\ [Next]_vars => Gated' /\ CaughtUp'
  BY GatedStep, CaughtUpStep
<1>3. QED
  BY <1>1, <1>2, TypeCorrect, PTL DEF Spec

(* All that the watches had to say is said.                                *)
Drained == \A k \in Kinds : events[k] = <<>>

(* The operator and the garbage collector have nothing to do: none of the  *)
(* guards of Operate, Collect and Report holds.                            *)
AtRest ==
  \A a \in Apps :
    LET wanted == [owner |-> WebAppOf(a).uid, image |-> WebAppOf(a).image] IN
    /\ ~(/\ Exists("webapps", a)
         /\ DeploymentOf(a) # wanted
         /\ Exists("deployments", a) => DeploymentOf(a).owner = wanted.owner)
    /\ ~(Exists("deployments", a) /\ DeploymentOf(a).owner # WebAppOf(a).uid)
    /\ ~(Exists("webapps", a) /\ WebAppOf(a).available # (DeploymentOf(a) = wanted))

(* With nothing left to deliver and to do, a ready service is right.       *)
LEMMA RestIsRight ==
  ASSUME TypeOK, Gated, CaughtUp, ready, Drained, AtRest, NEW a \in Apps
  PROVE  LET app == cache["webapps"][a]
             view == View(app, cache["deployments"][a])
         IN  IF Exists("webapps", a)
               THEN view = [uid |-> WebAppOf(a).uid, image |-> WebAppOf(a).image,
                            available |-> TRUE, deployed |-> WebAppOf(a).image]
               ELSE app = NoWebApp
<1>1. /\ "webapps" \in synced /\ "deployments" \in synced
      /\ events["webapps"] = <<>> /\ events["deployments"] = <<>>
  BY DEF Gated, Drained, Kinds
<1>2. cache["webapps"][a] = WebAppOf(a) /\ cache["deployments"][a] = DeploymentOf(a)
  BY <1>1 DEF CaughtUp, WebAppOf, DeploymentOf
<1>3. CASE Exists("webapps", a)
  <2> DEFINE w == WebAppOf(a)
             wanted == [owner |-> w.uid, image |-> w.image]
  <2>1. w \in WebAppsType /\ w # NoWebApp
    BY <1>3 DEF TypeOK, Kinds, TypeOf, Exists, WebAppOf
  <2>2. w.uid # 0 /\ w.available \in BOOLEAN
    BY <2>1 DEF WebAppsType, NoWebApp
  <2>3. DeploymentOf(a) = wanted
    BY <1>3 DEF AtRest
  <2>4. w.available = TRUE
    BY <1>3, <2>2, <2>3 DEF AtRest
  <2>5. OwnedBy(wanted, w.uid)
    BY <2>2 DEF OwnedBy, NoDeployment
  <2>6. View(w, wanted) = [uid |-> w.uid, image |-> w.image,
                           available |-> TRUE, deployed |-> w.image]
    BY <2>4, <2>5 DEF View
  <2>7. QED
    BY <1>2, <1>3, <2>3, <2>6
<1>4. CASE ~Exists("webapps", a)
  BY <1>2, <1>4 DEF Exists
<1>5. QED
  BY <1>3, <1>4

(* The part of EventuallyRight that is not liveness: if the service is     *)
(* ready at last, the watches are drained and the operator has nothing to  *)
(* do, then what the service answers is what is there.  Fairness has to    *)
(* bring about these three, and no cache needs anything more.              *)
THEOREM RestIsEnough ==
  Spec /\ <>[](ready /\ Drained /\ AtRest) => EventuallyRight
<1> DEFINE Right ==
      \A a \in Apps :
        LET app == cache["webapps"][a]
            view == View(app, cache["deployments"][a])
        IN  IF Exists("webapps", a)
              THEN view = [uid |-> WebAppOf(a).uid, image |-> WebAppOf(a).image,
                           available |-> TRUE, deployed |-> WebAppOf(a).image]
              ELSE app = NoWebApp
<1>1. Init => Gated
  BY DEF Init, Gated
<1>2. TypeOK /\ Gated /\ [Next]_vars => Gated'
  BY GatedStep
<1>3. TypeOK /\ Gated /\ CaughtUp /\ ready /\ Drained /\ AtRest => ready /\ Right
  BY RestIsRight
<1>4. EventuallyRight <=> <>[](ready /\ Right)
  BY PTL DEF EventuallyRight
<1> HIDE DEF Right
<1>5. QED
  BY <1>1, <1>2, <1>3, <1>4, TypeCorrect, NothingIsLost, PTL DEF Spec
=============================================================================
