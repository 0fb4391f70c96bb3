------------------------------ MODULE Platform ------------------------------
(***************************************************************************)
(* Scaffold with the two ends that people see: the task of the Backstage   *)
(* action platform:scaffoldWebApp, which sends the request and reports     *)
(* what came of it (backstage/packages/backend/src/modules/                *)
(* scaffoldWebApp.ts), and the scaffolded service, whose catalog-info.yaml *)
(* names a WebApp and whose team deploys with make deploy.                 *)
(*                                                                         *)
(* The steps of the service and of its surroundings are those of Scaffold. *)
(***************************************************************************)
EXTENDS Scaffold

CONSTANTS
  NoApp,     \* the annotation of a repository that the service never pushed to
  MaxUnread  \* bound on the answers whose body is lost

ASSUME PlatformAssumption == NoApp \notin Apps /\ MaxUnread \in Nat

VARIABLES
  task,     \* task[c]: what the person who filled in c's form sees
  link,     \* link[x]: the WebApp that catalog-info.yaml of x names
  settings, \* settings[a]: who chose image, port and replicas of WebApp a
  unread    \* answers whose body was lost

surroundings == <<task, link, settings, unread>>
allVars == <<vars, surroundings>>

Tasks == {"none", "running", "done", "rejected", "stopped", "failed"}

PlatformInit ==
  /\ Init
  /\ task = [c \in Clients |-> "none"]
  /\ link = [x \in Repos |-> NoApp]
  /\ settings = [a \in Apps |-> "none"]
  /\ unread = 0

-----------------------------------------------------------------------------
(* The action. *)

Submit(c) ==
  /\ task[c] # "running"
  /\ Send(c)
  /\ task' = [task EXCEPT ![c] = "running"]
  /\ UNCHANGED <<link, settings, unread>>

(* The status is passed on as it is.                                       *)
OutcomeVerbatim(status, body) ==
  IF status = "201" /\ body THEN "done" ELSE status

(* Every 2xx is a success.                                                 *)
OutcomeAnyOK(status, body) ==
  CASE status = "400" -> "rejected"
    [] status \in {"201", "207"} /\ body -> "done"
    [] OTHER -> "failed"

(* A 201 without a repository and a WebApp in its body is an error, and so *)
(* is a fetch that fails or is aborted.                                    *)
Outcome(status, body) ==
  CASE status = "400" -> "rejected"
    [] status = "207" -> "stopped"
    [] status = "201" /\ body -> "done"
    [] OTHER -> "failed"

Finish(c, body) ==
  /\ pc[c] = "idle" /\ task[c] = "running"
  /\ task' = [task EXCEPT ![c] = Outcome(resp[c], body)]
  /\ UNCHANGED <<vars, link, settings>>

Report(c) == Finish(c, TRUE) /\ UNCHANGED unread

(* The connection breaks after the headers: the body reads as {}.          *)
ReportUnread(c) ==
  /\ resp[c] \in Statuses
  /\ unread < MaxUnread
  /\ unread' = unread + 1
  /\ Finish(c, FALSE)

-----------------------------------------------------------------------------
(* The service. *)

(* The annotation is the namespace and the name of the request, which its  *)
(* resource is applied to.  (That the text comes out as these two is       *)
(* Template's to say; here is only which request it was rendered for.)     *)
Rendered(c) == AppOf[c]

Pushes(c) == pc[c] = "updateRef" /\ head'[RepoOf[c]] # head[RepoOf[c]]

Work(c) ==
  /\ Handle(c)
  /\ link' = IF Pushes(c) THEN [link EXCEPT ![RepoOf[c]] = Rendered(c)] ELSE link
  /\ settings' = IF pc[c] = "apply"
                   THEN [settings EXCEPT ![AppOf[c]] = "form"] ELSE settings
  /\ UNCHANGED <<task, unread>>

-----------------------------------------------------------------------------
(* Everybody else. *)

(* make deploy, from the webapp.yaml of the scaffolded repository.         *)
PeopleDeploy(c) ==
  /\ tree[RepoOf[c]] \in {"scaffold", "edited"}
  /\ app[AppOf[c]] # NoRepo
  /\ settings' = [settings EXCEPT ![AppOf[c]] = "people"]
  /\ UNCHANGED <<vars, task, link, unread>>

Settles(x) == Settle(x) /\ UNCHANGED surroundings

PlatformNext ==
  \/ \E c \in Clients :
       \/ Submit(c) \/ Report(c) \/ ReportUnread(c) \/ Work(c) \/ PeopleDeploy(c)
       \/ (CallFails(c) \/ Disconnect(c)) /\ UNCHANGED surroundings
  \/ Crash /\ UNCHANGED surroundings
  \/ \E x \in Repos :
       \/ Settles(x)
       \/ (UserCommit(x) \/ UserTopic(x)) /\ UNCHANGED surroundings

(* Whoever is told that the service is not there yet submits the form again*)
(* (docs/creating-a-service.md:123-124); GitHub settles.                   *)
Resubmit(c) == task[c] \in {"none", "stopped", "failed"} /\ Submit(c)

Fairness ==
  /\ \A c \in Clients :
       WF_allVars(Work(c)) /\ WF_allVars(Report(c)) /\ WF_allVars(Resubmit(c))
  /\ \A x \in Repos : WF_allVars(Settles(x))

PlatformSpec == PlatformInit /\ [][PlatformNext]_allVars
FairSpec == PlatformSpec /\ Fairness

-----------------------------------------------------------------------------
(* Every variable has its type. *)
PlatformTypeOK ==
  /\ TypeOK
  /\ task \in [Clients -> Tasks]
  /\ link \in [Repos -> Apps \cup {NoApp}]
  /\ settings \in [Apps -> {"none", "form", "people"}]
  /\ unread \in 0 .. MaxUnread

(* What the task says is so when it says it and stays so, whatever people  *)
(* and other requests do: done means content and resource, stopped means   *)
(* that the repository is there (scaffoldWebApp.ts:86-94 and 100-114).     *)
OutcomeTruthful ==
  \A c \in Clients :
    /\ task[c] \in {"done", "stopped"} => Scaffolded(RepoOf[c])
    /\ task[c] = "done" => app[AppOf[c]] = RepoOf[c]

(* A topic that people put on a repository is lost only when it was put    *)
(* there after a request had listed the topics and before it replaced them *)
(* (github.go:314).                                                        *)
TopicsSurvive ==
  [][\A x \in Repos, t \in OtherTopics :
       t \in topics[x] /\ t \notin topics'[x] =>
         \E c \in Clients :
           /\ RepoOf[c] = x
           /\ pc[c] \in {"setManaged", "setIncomplete"}
           /\ t \notin seen[c]]_allVars

(* Whoever submits a valid form until the task is done, gets it done, from *)
(* whatever the repository held and whatever failed on the way: every step *)
(* is idempotent (server.go:164, docs/creating-a-service.md:121-124).      *)
EventuallyDone ==
  \A c \in Clients \cap Valid : []<>(task[c] = "done")

-----------------------------------------------------------------------------
(* What the repository says of the code, and the code does not do. *)

(* webapp.go:26-27, of the fields of the resource: conflicts are real      *)
(* errors rather than silent overwrites; docs/creating-a-service.md:123-124: *)
(* re-submitting the same form is a no-op.                                 *)
NoSilentOverwrite ==
  [][\A a \in Apps : settings[a] = "people" => settings'[a] = "people"]_allVars
=============================================================================
