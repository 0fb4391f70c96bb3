------------------------------ MODULE Scaffold ------------------------------
(***************************************************************************)
(* POST /scaffold of the scaffolder service, one step per call it makes to *)
(* GitHub or to the cluster: services/scaffolder/internal/provision and    *)
(* handleScaffold of internal/httpapi/server.go.                           *)
(*                                                                         *)
(* Requests run concurrently, one goroutine each, and share nothing inside *)
(* the service: all they have in common is GitHub and the cluster.  Any    *)
(* call may fail, and a call with an effect may take effect and lose its   *)
(* answer.  A caller may hang up (the request's context ends every call),  *)
(* the service may crash, and people push to the repositories meanwhile.   *)
(*                                                                         *)
(* A repository's content is one word.  "absent": no repository; "none":   *)
(* no commit yet; "readme": the first commit of auto-init or bootstrap;    *)
(* "foreign": somebody's own commits; "marked": the same, and among the    *)
(* files a catalog-info.yaml; "scaffold": the rendered files were pushed;  *)
(* "edited": somebody has worked on the scaffolded files since.            *)
(***************************************************************************)
EXTENDS Integers, FiniteSets

CONSTANTS
  Clients,      \* callers; each sends its one request, as often as it likes
  Repos, Apps, Namespaces,
  NoRepo,       \* the source of a workload that was never applied
  RepoOf,       \* RepoOf[c]: the owner/name that c's request asks for
  AppOf,        \* AppOf[c]: the namespace/name of c's custom resource
  NamespaceOf,  \* NamespaceOf[a]: the namespace of custom resource a
  CreatedAs,    \* CreatedAs[x]: what GitHub creates when asked to create x
  Valid,        \* the callers whose request decodes and passes Normalise
  OtherTopics,  \* topics that people put on repositories
  InitTrees,    \* what repositories hold at first
  Attempts,     \* attempts of retryWhileSettling, 6 in the code
  FaultySteps,  \* steps whose call may fail
  MaxFaults,    \* bound on failed calls, hang-ups and crashes
  MaxEdits      \* bound on commits and topics by people

RepoSteps == {"ensureRepo", "createRepo", "hasScaffoldedContent", "isEmpty",
              "bootstrap", "getRef", "createCommit", "updateRef"}
ClusterSteps == {"getNamespace", "createNamespace", "apply"}
ManagedSteps == {"listManaged", "setManaged"}
IncompleteSteps == {"listIncomplete", "setIncomplete"}
Steps == RepoSteps \cup ClusterSteps \cup ManagedSteps \cup IncompleteSteps

Statuses == {"201", "207", "400", "502"}
Trees == {"absent", "none", "readme", "foreign", "marked", "scaffold", "edited"}
TopicManaged == "idp-managed"
TopicIncomplete == "idp-provisioning-incomplete"
Markers == {TopicManaged, TopicIncomplete}
Topics == Markers \cup OtherTopics

ASSUME ConstantsAssumption ==
  /\ RepoOf \in [Clients -> Repos]
  /\ AppOf \in [Clients -> Apps]
  /\ NamespaceOf \in [Apps -> Namespaces]
  /\ CreatedAs \in [Repos -> Repos]
  /\ NoRepo \notin Repos
  /\ Markers \cap OtherTopics = {}
  /\ InitTrees \subseteq {"absent", "none", "foreign", "marked"}
  /\ Attempts \in Nat \ {0}
  /\ FaultySteps \subseteq Steps
  /\ MaxFaults \in Nat /\ MaxEdits \in Nat

VARIABLES
  tree,      \* tree[x]: what the default branch of repository x holds
  head,      \* head[x]: the commit the default branch points at, 0 for none
  settling,  \* settling[x]: the git data API may still answer 404 or 409
  topics,    \* topics[x]: the topics of repository x
  ns,        \* ns: the namespaces that exist in the cluster
  app,       \* app[a]: the source-repository of WebApp a, or NoRepo
  pc,        \* pc[c]: the call c's request is about to make, or "idle"
  parent,    \* parent[c]: the commit its push builds on
  tries,     \* tries[c]: attempts of the push that failed so far
  seen,      \* seen[c]: the topics SetTopics listed
  resp,      \* resp[c]: the answer to c's last request
  faults, edits

github == <<tree, head, settling, topics>>
cluster == <<ns, app>>
request == <<pc, parent, tries, seen, resp>>
bounds == <<faults, edits>>
vars == <<github, cluster, request, bounds>>

Init ==
  /\ tree \in [Repos -> InitTrees]
  /\ head = [x \in Repos |-> IF tree[x] \in {"absent", "none"} THEN 0 ELSE 1]
  /\ settling = [x \in Repos |-> FALSE]
  /\ topics = [x \in Repos |-> {}]
  /\ ns = {}
  /\ app = [a \in Apps |-> NoRepo]
  /\ pc = [c \in Clients |-> "idle"]
  /\ parent = [c \in Clients |-> 0]
  /\ tries = [c \in Clients |-> 0]
  /\ seen = [c \in Clients |-> {}]
  /\ resp = [c \in Clients |-> "none"]
  /\ faults = 0 /\ edits = 0

-----------------------------------------------------------------------------
(* The flow of one request. *)

Goto(c, step) ==
  /\ pc' = [pc EXCEPT ![c] = step]
  /\ UNCHANGED <<parent, tries, seen, resp>>

Respond(c, status) ==
  /\ pc' = [pc EXCEPT ![c] = "idle"]
  /\ parent' = [parent EXCEPT ![c] = 0]
  /\ tries' = [tries EXCEPT ![c] = 0]
  /\ seen' = [seen EXCEPT ![c] = {}]
  /\ resp' = [resp EXCEPT ![c] = status]

(* A failed call to the cluster taken for a success.                       *)
FailUnnoticed(c) ==
  \/ pc[c] \in RepoSteps /\ Respond(c, "502")
  \/ pc[c] \in ClusterSteps /\ Goto(c, "listManaged")
  \/ pc[c] \in ManagedSteps /\ Respond(c, "201")
  \/ pc[c] \in IncompleteSteps /\ Respond(c, "207")

(* Where a failed call leaves the request: the repository's calls end it,  *)
(* the cluster's lead to the incomplete marker, and SetTopics only logs.   *)
Fail(c) ==
  \/ pc[c] \in RepoSteps /\ Respond(c, "502")
  \/ pc[c] \in ClusterSteps /\ Goto(c, "listIncomplete")
  \/ pc[c] \in ManagedSteps /\ Respond(c, "201")
  \/ pc[c] \in IncompleteSteps /\ Respond(c, "207")

Fault(c) ==
  /\ pc[c] \in FaultySteps
  /\ faults < MaxFaults
  /\ faults' = faults + 1

(* A call that changed something is answered, or its answer is lost.       *)
Answered(c, next) ==
  \/ next /\ UNCHANGED faults
  \/ Fault(c) /\ Fail(c)

Commit(x, content) ==
  /\ tree' = [tree EXCEPT ![x] = content]
  /\ head' = [head EXCEPT ![x] = @ + 1]
  /\ settling' = IF head[x] = 0 THEN [settling EXCEPT ![x] = TRUE] ELSE settling
  /\ UNCHANGED topics

Marked == {"marked", "scaffold", "edited"}
Scaffolded(x) == tree[x] \in Marked

-----------------------------------------------------------------------------
(* EnsureRepository. *)

EnsureRepo(c) ==
  /\ pc[c] = "ensureRepo"
  /\ Goto(c, IF tree[RepoOf[c]] = "absent"
               THEN "createRepo" ELSE "hasScaffoldedContent")
  /\ UNCHANGED <<github, cluster, bounds>>

CreateRepo(c) ==
  LET x == CreatedAs[RepoOf[c]] IN
  /\ pc[c] = "createRepo"
  /\ UNCHANGED <<cluster, edits>>
  /\ \/ /\ tree[x] = "absent"
        /\ Commit(x, "readme")
        /\ Answered(c, Goto(c, "hasScaffoldedContent"))
     \/ /\ tree[x] # "absent"
        /\ Fail(c)
        /\ UNCHANGED <<github, faults>>

(* The content is pushed again on every request.                          *)
AlwaysPush(c) ==
  /\ pc[c] = "hasScaffoldedContent"
  /\ Goto(c, "isEmpty")
  /\ UNCHANGED <<github, cluster, bounds>>

HasScaffoldedContent(c) ==
  /\ pc[c] = "hasScaffoldedContent"
  /\ Goto(c, IF Scaffolded(RepoOf[c]) THEN "getNamespace" ELSE "isEmpty")
  /\ UNCHANGED <<github, cluster, bounds>>

(* An empty repository answers 409, and that is not taken for an answer.   *)
NeverEmpty(c) ==
  /\ pc[c] = "isEmpty"
  /\ Goto(c, "getRef")
  /\ UNCHANGED <<github, cluster, bounds>>

(* A repository with commits counts as done, whatever it holds.            *)
CommitsAreEnough(c) ==
  /\ pc[c] = "isEmpty"
  /\ Goto(c, IF head[RepoOf[c]] = 0 THEN "bootstrap" ELSE "getNamespace")
  /\ UNCHANGED <<github, cluster, bounds>>

IsEmpty(c) ==
  /\ pc[c] = "isEmpty"
  /\ Goto(c, IF head[RepoOf[c]] = 0 THEN "bootstrap" ELSE "getRef")
  /\ UNCHANGED <<github, cluster, bounds>>

(* CreateFile refuses a README.md that is there already, and every request *)
(* for a repository that is not.                                           *)
Bootstrap(c) ==
  LET x == RepoOf[c] IN
  /\ pc[c] = "bootstrap"
  /\ UNCHANGED <<cluster, edits>>
  /\ \/ /\ tree[x] = "none"
        /\ Commit(x, "readme")
        /\ Answered(c, Goto(c, "getRef"))
     \/ /\ tree[x] \in {"foreign", "marked"}
        /\ Commit(x, tree[x])
        /\ Answered(c, Goto(c, "getRef"))
     \/ /\ tree[x] # "none"
        /\ Fail(c)
        /\ UNCHANGED <<github, faults>>

(* One attempt too many.                                                   *)
NotSettledOffByOne(c) ==
  /\ settling[RepoOf[c]] \/ head[RepoOf[c]] = 0
  /\ IF tries[c] < Attempts
       THEN /\ pc' = [pc EXCEPT ![c] = "getRef"]
            /\ tries' = [tries EXCEPT ![c] = @ + 1]
            /\ UNCHANGED <<parent, seen, resp>>
       ELSE Fail(c)

(* A 404 or 409 of the git data API: the push starts over after a delay,   *)
(* or the last attempt gives up.                                           *)
NotSettled(c) ==
  /\ settling[RepoOf[c]] \/ head[RepoOf[c]] = 0
  /\ IF tries[c] + 1 < Attempts
       THEN /\ pc' = [pc EXCEPT ![c] = "getRef"]
            /\ tries' = [tries EXCEPT ![c] = @ + 1]
            /\ UNCHANGED <<parent, seen, resp>>
       ELSE Fail(c)

GetRef(c) ==
  /\ pc[c] = "getRef"
  /\ UNCHANGED <<github, cluster, bounds>>
  /\ \/ /\ head[RepoOf[c]] # 0
        /\ pc' = [pc EXCEPT ![c] = "createCommit"]
        /\ parent' = [parent EXCEPT ![c] = head[RepoOf[c]]]
        /\ UNCHANGED <<tries, seen, resp>>
     \/ NotSettled(c)

(* GetCommit, CreateTree and CreateCommit write nothing that a reader of   *)
(* the branch can see.  A 404 of CreateTree is taken for a token without   *)
(* the workflow scope (the template always has a workflow file): that is   *)
(* an error of another kind, and isSettling no longer recognises it.       *)
CreateCommit(c) ==
  /\ pc[c] = "createCommit"
  /\ UNCHANGED <<github, cluster, bounds>>
  /\ \/ Goto(c, "updateRef")
     \/ NotSettled(c)
     \/ settling[RepoOf[c]] /\ Fail(c)

(* A refused update is taken for somebody else having pushed the files.    *)
RefusalIgnored(c) ==
  LET x == RepoOf[c] IN
  /\ pc[c] = "updateRef"
  /\ UNCHANGED <<cluster, edits>>
  /\ \/ /\ head[x] = parent[c]
        /\ Commit(x, "scaffold")
        /\ Answered(c, Goto(c, "getNamespace"))
     \/ /\ head[x] # parent[c]
        /\ Goto(c, "getNamespace")
        /\ UNCHANGED <<github, faults>>

(* The update is not forced: GitHub refuses it when the branch has moved.  *)
UpdateRef(c) ==
  LET x == RepoOf[c] IN
  /\ pc[c] = "updateRef"
  /\ UNCHANGED <<cluster, edits>>
  /\ \/ /\ head[x] = parent[c]
        /\ Commit(x, "scaffold")
        /\ Answered(c, Goto(c, "getNamespace"))
     \/ /\ head[x] # parent[c]
        /\ Fail(c)
        /\ UNCHANGED <<github, faults>>
     \/ NotSettled(c) /\ UNCHANGED <<github, faults>>

-----------------------------------------------------------------------------
(* Cluster.Apply. *)

GetNamespace(c) ==
  /\ pc[c] = "getNamespace"
  /\ Goto(c, IF NamespaceOf[AppOf[c]] \in ns THEN "apply" ELSE "createNamespace")
  /\ UNCHANGED <<github, cluster, bounds>>

(* AlreadyExists counts as a failure. *)
CreateNamespaceOnce(c) ==
  LET n == NamespaceOf[AppOf[c]] IN
  /\ pc[c] = "createNamespace"
  /\ UNCHANGED <<github, app, edits>>
  /\ \/ /\ n \notin ns
        /\ ns' = ns \cup {n}
        /\ Answered(c, Goto(c, "apply"))
     \/ /\ n \in ns
        /\ Fail(c)
        /\ UNCHANGED <<ns, faults>>

(* AlreadyExists counts as success. *)
CreateNamespace(c) ==
  /\ pc[c] = "createNamespace"
  /\ ns' = ns \cup {NamespaceOf[AppOf[c]]}
  /\ Answered(c, Goto(c, "apply"))
  /\ UNCHANGED <<github, app, edits>>

(* A forced server-side apply: whoever comes last owns the fields. *)
Apply(c) ==
  /\ pc[c] = "apply"
  /\ app' = [app EXCEPT ![AppOf[c]] = RepoOf[c]]
  /\ Answered(c, Goto(c, "listManaged"))
  /\ UNCHANGED <<github, ns, edits>>

-----------------------------------------------------------------------------
(* SetTopics, with the markers of the outcome. *)

ListTopics(c, next) ==
  /\ pc' = [pc EXCEPT ![c] = next]
  /\ seen' = [seen EXCEPT ![c] = topics[RepoOf[c]]]
  /\ UNCHANGED <<parent, tries, resp, github, cluster, bounds>>

(* The marker of another outcome stays where it is.                        *)
AddTopic(c, add, remove) ==
  /\ topics' = [topics EXCEPT ![RepoOf[c]] = seen[c] \cup {add}]
  /\ UNCHANGED <<tree, head, settling, cluster, bounds>>

(* The list is replaced with the marker alone.                            *)
OnlyTheMarker(c, add, remove) ==
  /\ topics' = [topics EXCEPT ![RepoOf[c]] = {add}]
  /\ UNCHANGED <<tree, head, settling, cluster, bounds>>

ReplaceTopics(c, add, remove) ==
  /\ topics' = [topics EXCEPT ![RepoOf[c]] = (seen[c] \ {remove}) \cup {add}]
  /\ UNCHANGED <<tree, head, settling, cluster, bounds>>

ListManaged(c) == pc[c] = "listManaged" /\ ListTopics(c, "setManaged")

SetManaged(c) ==
  /\ pc[c] = "setManaged"
  /\ ReplaceTopics(c, TopicManaged, TopicIncomplete)
  /\ Respond(c, "201")

ListIncomplete(c) == pc[c] = "listIncomplete" /\ ListTopics(c, "setIncomplete")

(* A partial run is reported as a success.                                *)
SetIncompleteCreated(c) ==
  /\ pc[c] = "setIncomplete"
  /\ ReplaceTopics(c, TopicIncomplete, TopicManaged)
  /\ Respond(c, "201")

SetIncomplete(c) ==
  /\ pc[c] = "setIncomplete"
  /\ ReplaceTopics(c, TopicIncomplete, TopicManaged)
  /\ Respond(c, "207")

-----------------------------------------------------------------------------
(* The callers, failures, and everybody else. *)

Send(c) ==
  /\ pc[c] = "idle"
  /\ \/ /\ c \in Valid
        /\ pc' = [pc EXCEPT ![c] = "ensureRepo"]
        /\ resp' = [resp EXCEPT ![c] = "none"]
        /\ UNCHANGED <<parent, tries, seen>>
     \/ c \notin Valid /\ Respond(c, "400")
  /\ UNCHANGED <<github, cluster, bounds>>

(* A call fails and changes nothing. *)
CallFails(c) ==
  /\ Fault(c)
  /\ Fail(c)
  /\ UNCHANGED <<github, cluster, edits>>

(* The caller hangs up; the request makes no call after the current one.   *)
Disconnect(c) ==
  /\ pc[c] # "idle"
  /\ faults < MaxFaults
  /\ faults' = faults + 1
  /\ Respond(c, "lost")
  /\ UNCHANGED <<github, cluster, edits>>

(* The process dies, or its shutdown grace ends before its requests do:    *)
(* nothing of a request survives, and nobody resumes it.                   *)
Crash ==
  /\ \E c \in Clients : pc[c] # "idle"
  /\ faults < MaxFaults
  /\ faults' = faults + 1
  /\ pc' = [c \in Clients |-> "idle"]
  /\ parent' = [c \in Clients |-> 0]
  /\ tries' = [c \in Clients |-> 0]
  /\ seen' = [c \in Clients |-> {}]
  /\ resp' = [c \in Clients |-> IF pc[c] = "idle" THEN resp[c] ELSE "lost"]
  /\ UNCHANGED <<github, cluster, edits>>

(* GitHub catches up with a first commit. *)
Settle(x) ==
  /\ settling[x]
  /\ settling' = [settling EXCEPT ![x] = FALSE]
  /\ UNCHANGED <<tree, head, topics, cluster, request, bounds>>

(* Somebody pushes a commit; nobody deletes catalog-info.yaml.             *)
UserCommit(x) ==
  /\ tree[x] # "absent"
  /\ edits < MaxEdits
  /\ edits' = edits + 1
  /\ \/ tree[x] \in {"none", "readme", "foreign"} /\ Commit(x, "foreign")
     \/ tree[x] \in {"none", "readme", "foreign", "marked"} /\ Commit(x, "marked")
     \/ tree[x] \in {"scaffold", "edited"} /\ Commit(x, "edited")
  /\ UNCHANGED <<cluster, request, faults>>

UserTopic(x) ==
  /\ tree[x] # "absent"
  /\ edits < MaxEdits
  /\ edits' = edits + 1
  /\ \E t \in OtherTopics : topics' = [topics EXCEPT ![x] = @ \cup {t}]
  /\ UNCHANGED <<tree, head, settling, cluster, request, faults>>

Handle(c) ==
  \/ EnsureRepo(c) \/ CreateRepo(c) \/ HasScaffoldedContent(c)
  \/ IsEmpty(c) \/ Bootstrap(c) \/ GetRef(c) \/ CreateCommit(c) \/ UpdateRef(c)
  \/ GetNamespace(c) \/ CreateNamespace(c) \/ Apply(c)
  \/ ListManaged(c) \/ SetManaged(c) \/ ListIncomplete(c) \/ SetIncomplete(c)

Next ==
  \/ \E c \in Clients : Handle(c) \/ Send(c) \/ CallFails(c) \/ Disconnect(c)
  \/ Crash
  \/ \E x \in Repos : Settle(x) \/ UserCommit(x) \/ UserTopic(x)

Spec == Init /\ [][Next]_vars

-----------------------------------------------------------------------------
(* Types. *)

(* Every variable has its type.                                            *)
TypeOK ==
  /\ tree \in [Repos -> Trees]
  /\ head \in [Repos -> Nat]
  /\ settling \in [Repos -> BOOLEAN]
  /\ topics \in [Repos -> SUBSET Topics]
  /\ ns \subseteq Namespaces
  /\ app \in [Apps -> Repos \cup {NoRepo}]
  /\ pc \in [Clients -> Steps \cup {"idle"}]
  /\ parent \in [Clients -> Nat]
  /\ tries \in [Clients -> 0 .. Attempts - 1]
  /\ seen \in [Clients -> SUBSET Topics]
  /\ resp \in [Clients -> Statuses \cup {"none", "lost"}]
  /\ faults \in 0 .. MaxFaults
  /\ edits \in 0 .. MaxEdits

-----------------------------------------------------------------------------
(* What the service promises. *)

(* Two requests never disagree about the repository of one custom resource.*)
(* The code does not see to it: the name of the resource is the name of    *)
(* the repository, whoever its owner.                                      *)
OneRepositoryPerApp ==
  \A c, d \in Clients : AppOf[c] = AppOf[d] => RepoOf[c] = RepoOf[d]

(* A custom resource exists only for a repository with its content pushed, *)
(* whatever failed, crashed or was retried (provision.go:86-90).           *)
AppHasRepository ==
  \A a \in Apps : app[a] # NoRepo => Scaffolded(app[a])

Running(x) == \E c \in Clients : RepoOf[c] = x /\ app[AppOf[c]] = x

(* A repository marked as managed has its custom resource applied, even    *)
(* when the marker was written from a stale list of topics                 *)
(* (github.go:17-19, provision.go:142).                                    *)
ManagedMeansRunning ==
  \A x \in Repos : TopicManaged \in topics[x] => Running(x)

(* A status code never claims more than was done: 201 means that the       *)
(* content is pushed and the resource applied, 207 that the content is     *)
(* pushed (server.go:129-133).                                             *)
ResponseTruthful ==
  \A c \in Clients :
    /\ resp[c] \in {"201", "207"} => Scaffolded(RepoOf[c])
    /\ resp[c] = "201" => app[AppOf[c]] = RepoOf[c]

(* Work done on a scaffolded repository is never overwritten, by retries   *)
(* after failures, hang-ups and crashes either (github.go:62-64).          *)
WorkSurvives ==
  [][\A x \in Repos : tree[x] = "edited" => tree'[x] = "edited"]_vars

(* When every request for a repository has been answered 201, its markers  *)
(* say managed and nothing else, in whichever order the requests listed    *)
(* and replaced the topics (provision.go:131-146).                         *)
MarkersSettle ==
  \A x \in Repos :
    LET callers == {c \in Clients : RepoOf[c] = x} IN
    (callers # {} /\ \A c \in callers : resp[c] = "201")
      => topics[x] \cap Markers = {TopicManaged}

(* Losing the race to create a namespace is not a failure (webapp.go:113): *)
(* as long as no call fails, nobody is told that the run is half done.     *)
RaceIsNotAFailure ==
  faults = 0 => \A c \in Clients : resp[c] # "207"

(* What the requests do together is what the abstract specification allows.*)
Promise == INSTANCE Provisioning WITH
  repo <- [x \in Repos |-> IF tree[x] = "absent" THEN "absent"
                           ELSE IF Scaffolded(x) THEN "ready" ELSE "bare"],
  source <- app,
  mark <- [x \in Repos |-> IF TopicManaged \in topics[x] THEN "managed"
                           ELSE IF TopicIncomplete \in topics[x]
                             THEN "incomplete" ELSE "none"]
PromiseKept == Promise!Spec

-----------------------------------------------------------------------------
(* What the repository says of the code, and the code does not do. *)

(* github.go:108-111: a 404 or 409 of a repository that is still settling  *)
(* is retried rather than surfaced.  Nothing else goes wrong here, so a    *)
(* 502 can only come from the last attempt.                                *)
SettlingIsRetried ==
  [][\A c \in Clients :
       resp'[c] = "502" /\ resp[c] # "502" => tries[c] = Attempts - 1]_vars
=============================================================================
