---------------------------- MODULE StatusStore -----------------------------
(***************************************************************************)
(* The status API: the informer caches of internal/webapps/store.go, the   *)
(* handlers of internal/httpapi/server.go that answer from them, and the   *)
(* process of cmd/status-api/main.go around them.                          *)
(*                                                                         *)
(* Two informers copy the WebApps and the Deployments of the cluster, each *)
(* at its own pace: one list, then the events of a watch in their order,   *)
(* and another list whenever the watch breaks.  A handler takes a WebApp   *)
(* from the one cache and then looks for its Deployment in the other, and  *)
(* both caches may move in between.  Handlers write nothing, so requests   *)
(* do not disturb each other and one at a time is enough.                  *)
(*                                                                         *)
(* The operator is not part of the repository.  What the status API relies *)
(* on is modelled: it gives a WebApp a Deployment with an owner reference, *)
(* copies the image to it and reports an Available condition.              *)
(***************************************************************************)
EXTENDS Integers, Sequences

CONSTANTS
  Apps,        \* the namespace/name of custom resources
  Selections,  \* the sets of them that a request may list: all, or a namespace
  MaxChanges,  \* bound on applied and deleted custom resources, 1 for the first
  MaxCrashes   \* bound on restarts of the service

ASSUME ConstantsAssumption ==
  /\ Selections \subseteq SUBSET Apps
  /\ MaxChanges \in Nat \ {0} /\ MaxCrashes \in Nat

VARIABLES
  world,    \* world[k][a]: the object of kind k of application a
  changes,  \* changes so far; the number of a change names what it made
  events,   \* events[k]: what the watch of k has yet to deliver
  cache,    \* cache[k]: the informer's copy of world[k]
  started,  \* the informers that run
  synced,   \* the informers that have listed once
  running,  \* the process is up
  ready,    \* the last readiness probe of this process succeeded
  busy,     \* a request is being answered
  about,    \* the applications it asks for
  taken,    \* taken[a]: the WebApp it took from the cache
  todo,     \* those it has not looked for a Deployment of
  items,    \* items[a]: what it answers about a
  crashes,
  rolled,   \* history: every <<application, owner, image>> a Deployment had
  lived     \* history: lived[k], whose object of kind k is there since Boot

cluster == <<world, changes, rolled>>
informers == <<events, cache, started, synced>>
request == <<busy, about, taken, todo, items>>
vars == <<cluster, informers, running, ready, request, crashes, lived>>

Kinds == {"webapps", "deployments"}
NoWebApp == [uid |-> 0, image |-> 0, available |-> FALSE]
NoDeployment == [owner |-> 0, image |-> 0]
WebAppOf(a) == world["webapps"][a]
DeploymentOf(a) == world["deployments"][a]

Exists(k, a) == IF k = "webapps" THEN WebAppOf(a) # NoWebApp
                                 ELSE DeploymentOf(a) # NoDeployment

NotFound == [uid |-> 0, image |-> 0, available |-> FALSE, deployed |-> 0]

EmptyCache == [k \in Kinds |->
  [a \in Apps |-> IF k = "webapps" THEN NoWebApp ELSE NoDeployment]]

Idle ==
  /\ busy' = FALSE /\ about' = {} /\ todo' = {}
  /\ taken' = [a \in Apps |-> NoWebApp]
  /\ items' = [a \in Apps |-> NotFound]

(* The service comes up in a cluster where custom resources may exist.     *)
Init ==
  /\ \E S \in SUBSET Apps :
       world = [EmptyCache EXCEPT !["webapps"] = [a \in Apps |->
                  IF a \in S THEN [uid |-> 1, image |-> 1, available |-> FALSE]
                           ELSE NoWebApp]]
  /\ changes = 1 /\ rolled = {}
  /\ events = [k \in Kinds |-> <<>>]
  /\ cache = EmptyCache
  /\ started = {} /\ synced = {}
  /\ running = FALSE /\ ready = FALSE
  /\ busy = FALSE /\ about = {} /\ todo = {}
  /\ taken = [a \in Apps |-> NoWebApp]
  /\ items = [a \in Apps |-> NotFound]
  /\ crashes = 0
  /\ lived = [k \in Kinds |-> {}]

-----------------------------------------------------------------------------
(* The process and its informers. *)

(* main starts the HTTP server first. *)
Boot ==
  /\ ~running
  /\ running' = TRUE
  /\ lived' = [k \in Kinds |-> {a \in Apps : Exists(k, a)}]
  /\ UNCHANGED <<cluster, informers, ready, request, crashes>>

(* One of the two factories is forgotten. *)
StartWebApps ==
  /\ running
  /\ started = {}
  /\ started' = {"webapps"}
  /\ UNCHANGED <<cluster, events, cache, synced, running, ready, request, crashes, lived>>

Start ==
  /\ running
  /\ started = {}
  /\ started' = Kinds
  /\ UNCHANGED <<cluster, events, cache, synced, running, ready, request, crashes, lived>>

(* An informer lists: at first, and again whenever its watch is lost. *)
Sync(k) ==
  /\ k \in started
  /\ cache' = [cache EXCEPT ![k] = world[k]]
  /\ events' = [events EXCEPT ![k] = <<>>]
  /\ synced' = synced \cup {k}
  /\ UNCHANGED <<cluster, started, running, ready, request, crashes, lived>>

FirstSync(k) == k \notin synced /\ Sync(k)

Watch(k) ==
  /\ events[k] # <<>>
  /\ LET e == Head(events[k]) IN cache' = [cache EXCEPT ![k][e.app] = e.object]
  /\ events' = [events EXCEPT ![k] = Tail(@)]
  /\ UNCHANGED <<cluster, started, synced, running, ready, request, crashes, lived>>

(* Only the WebApps are waited for. *)
HasSyncedWebApps == "webapps" \in synced

HasSynced == synced = Kinds

(* The kubelet asks handleReady; until it says ok, no request gets here.   *)
Probe ==
  /\ running
  /\ ready' = HasSynced
  /\ UNCHANGED <<cluster, informers, running, request, crashes, lived>>

Crash ==
  /\ running
  /\ crashes < MaxCrashes
  /\ crashes' = crashes + 1
  /\ running' = FALSE /\ ready' = FALSE
  /\ started' = {} /\ synced' = {}
  /\ cache' = EmptyCache
  /\ events' = [k \in Kinds |-> <<>>]
  /\ lived' = [k \in Kinds |-> {}]
  /\ Idle
  /\ UNCHANGED cluster

-----------------------------------------------------------------------------
(* One request. *)

Ask(S, answerable) ==
  /\ ready
  /\ ~busy
  /\ busy' = TRUE
  /\ about' = S
  /\ todo' = answerable
  /\ taken' = [a \in Apps |-> IF a \in answerable THEN cache["webapps"][a]
                                                  ELSE NoWebApp]
  /\ items' = [a \in Apps |-> NotFound]
  /\ UNCHANGED <<cluster, informers, running, ready, crashes, lived>>

Get(a) == Ask({a}, {b \in {a} : cache["webapps"][b] # NoWebApp})

(* The whole cache is converted; the namespace is compared afterwards. *)
List(S) == Ask(S, {a \in Apps : cache["webapps"][a] # NoWebApp})

(* The Deployment is matched by its name, which is that of the WebApp.     *)
NamedAfter(d, uid) == d # NoDeployment

OwnedBy(d, uid) == d # NoDeployment /\ d.owner = uid

View(app, d) ==
  [uid |-> app.uid, image |-> app.image, available |-> app.available,
   deployed |-> IF OwnedBy(d, app.uid) THEN d.image ELSE 0]

Convert(a) ==
  /\ a \in todo
  /\ items' = [items EXCEPT ![a] = View(taken[a], cache["deployments"][a])]
  /\ todo' = todo \ {a}
  /\ taken' = [taken EXCEPT ![a] = NoWebApp]
  /\ UNCHANGED <<cluster, informers, running, ready, busy, about, crashes, lived>>

Answer ==
  /\ busy
  /\ todo = {}
  /\ busy' = FALSE
  /\ UNCHANGED <<cluster, informers, running, ready, about, taken, todo, items, crashes, lived>>

-----------------------------------------------------------------------------
(* The cluster. *)

Happens(k, a, object) ==
  /\ world' = [world EXCEPT ![k][a] = object]
  /\ events' = IF k \in synced
                 THEN [events EXCEPT ![k] = Append(@, [app |-> a, object |-> object])]
                 ELSE events
  /\ UNCHANGED <<cache, started, synced, running, ready, request, crashes>>

(* Somebody applies a custom resource; a new one gets a new uid. *)
Apply(a) ==
  /\ changes < MaxChanges
  /\ changes' = changes + 1
  /\ Happens("webapps", a,
       [uid |-> IF Exists("webapps", a) THEN WebAppOf(a).uid ELSE changes + 1,
        image |-> changes + 1,
        available |-> WebAppOf(a).available])
  /\ UNCHANGED <<rolled, lived>>

Delete(a) ==
  /\ Exists("webapps", a)
  /\ changes < MaxChanges
  /\ changes' = changes + 1
  /\ Happens("webapps", a, NoWebApp)
  /\ lived' = [lived EXCEPT !["webapps"] = @ \ {a}]
  /\ UNCHANGED rolled

(* The operator creates the Deployment of a WebApp, once that name is free,*)
(* and keeps its image.                                                    *)
Operate(a) ==
  LET wanted == [owner |-> WebAppOf(a).uid, image |-> WebAppOf(a).image] IN
  /\ Exists("webapps", a)
  /\ DeploymentOf(a) # wanted
  /\ Exists("deployments", a) => DeploymentOf(a).owner = wanted.owner
  /\ Happens("deployments", a, wanted)
  /\ rolled' = rolled \cup {<<a, wanted.owner, wanted.image>>}
  /\ UNCHANGED <<changes, lived>>

(* Garbage collection of the Deployment of a WebApp that is gone. *)
Collect(a) ==
  /\ Exists("deployments", a)
  /\ DeploymentOf(a).owner # WebAppOf(a).uid
  /\ Happens("deployments", a, NoDeployment)
  /\ lived' = [lived EXCEPT !["deployments"] = @ \ {a}]
  /\ UNCHANGED <<changes, rolled>>

(* The operator reports whether what is wanted is what runs. *)
Report(a) ==
  LET serves == DeploymentOf(a) = [owner |-> WebAppOf(a).uid, image |-> WebAppOf(a).image]
  IN
  /\ Exists("webapps", a)
  /\ WebAppOf(a).available # serves
  /\ Happens("webapps", a, [WebAppOf(a) EXCEPT !.available = serves])
  /\ UNCHANGED <<changes, rolled, lived>>

Operator(a) == Operate(a) \/ Collect(a) \/ Report(a)

Next ==
  \/ Boot \/ Start \/ Probe \/ Crash \/ Answer
  \/ \E k \in Kinds : Sync(k) \/ Watch(k)
  \/ \E S \in Selections : List(S)
  \/ \E a \in Apps : Get(a) \/ Convert(a) \/ Apply(a) \/ Delete(a) \/ Operator(a)

(* The kubelet restarts and probes the process, its goroutines run, the    *)
(* API server delivers, and the operator and the garbage collector work.   *)
Fairness ==
  /\ WF_vars(Boot) /\ WF_vars(Start) /\ WF_vars(Probe)
  /\ \A k \in Kinds : WF_vars(FirstSync(k)) /\ WF_vars(Watch(k))
  /\ \A a \in Apps : WF_vars(Operate(a)) /\ WF_vars(Collect(a)) /\ WF_vars(Report(a))

Spec == Init /\ [][Next]_vars
FairSpec == Spec /\ Fairness

-----------------------------------------------------------------------------
Numbers == 0 .. MaxChanges
WebAppsType ==
  {NoWebApp} \cup [uid : Numbers \ {0}, image : Numbers \ {0}, available : BOOLEAN]
DeploymentsType == {NoDeployment} \cup [owner : Numbers \ {0}, image : Numbers \ {0}]
ItemsType ==
  {NotFound} \cup [uid : Numbers \ {0}, image : Numbers \ {0},
                   available : BOOLEAN, deployed : Numbers]
TypeOf(k) == IF k = "webapps" THEN WebAppsType ELSE DeploymentsType
EventsType(k) == Seq([app : Apps, object : TypeOf(k)])

(* Every variable has its type; the informers are started both or not at   *)
(* all, and none has listed that does not run.                             *)
TypeOK ==
  /\ changes \in Numbers \ {0}
  /\ rolled \subseteq Apps \X Numbers \X Numbers
  /\ DOMAIN world = Kinds /\ DOMAIN cache = Kinds /\ DOMAIN events = Kinds
  /\ \A k \in Kinds : /\ world[k] \in [Apps -> TypeOf(k)]
                      /\ cache[k] \in [Apps -> TypeOf(k)]
                      /\ events[k] \in EventsType(k)
  /\ started \in {{}, Kinds} /\ synced \subseteq started
  /\ running \in BOOLEAN /\ ready \in BOOLEAN
  /\ busy \in BOOLEAN
  /\ about \subseteq Apps /\ todo \subseteq Apps
  /\ taken \in [Apps -> WebAppsType]
  /\ items \in [Apps -> ItemsType]
  /\ crashes \in 0 .. MaxCrashes
  /\ lived \in [Kinds -> SUBSET Apps]

(* An answer never joins a WebApp with the pods of an earlier one of the   *)
(* same name: the image it gives as deployed has been rolled out for this  *)
(* very incarnation, however far apart the two caches are                  *)
(* (store.go:158-160).                                                     *)
NoMixedIncarnations ==
  \A a \in Apps :
    items[a].deployed # 0 => <<a, items[a].uid, items[a].deployed>> \in rolled

(* A service that says it is ready answers with all it should know: no 404 *)
(* for a WebApp that was there all the time since the process started, and *)
(* no "nothing running yet" for one whose Deployment was                   *)
(* (server.go:120-122).                                                    *)
KnownWhenReady ==
  ~busy =>
    \A a \in about :
      /\ a \in lived["webapps"] => items[a] # NotFound
      /\ a \in lived["webapps"] \cap lived["deployments"]
           /\ DeploymentOf(a).owner = WebAppOf(a).uid => items[a].deployed # 0

(* Once the cluster is left alone, the service is ready and what it would  *)
(* answer is what is there: the WebApps that exist, available, each with   *)
(* the image that was last asked for, deployed.                            *)
EventuallyRight ==
  <>[](/\ ready
       /\ \A a \in Apps :
            LET app == cache["webapps"][a]
                view == View(app, cache["deployments"][a])
            IN  IF Exists("webapps", a)
                  THEN view = [uid |-> WebAppOf(a).uid, image |-> WebAppOf(a).image,
                               available |-> TRUE, deployed |-> WebAppOf(a).image]
                  ELSE app = NoWebApp)
=============================================================================
