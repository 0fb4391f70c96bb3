--------------------------- MODULE PlatformProofs ---------------------------
(***************************************************************************)
(* Theorems about Platform, for any number of callers, repositories and    *)
(* resources.  What is proved of Scaffold holds of Platform as well,       *)
(* because every step of Platform is one of Scaffold or changes nothing    *)
(* that Scaffold sees.                                                     *)
(***************************************************************************)
EXTENDS Platform, ScaffoldProofs

(* A step of the platform is a step of the service, or none. *)
LEMMA StepMaps == [PlatformNext]_allVars => [Next]_vars
<1> SUFFICES ASSUME [PlatformNext]_allVars PROVE [Next]_vars
  OBVIOUS
<1>1. ASSUME NEW c \in Clients, Submit(c) PROVE [Next]_vars
  BY <1>1 DEF Submit, Next
<1>2. ASSUME NEW c \in Clients, Report(c) \/ ReportUnread(c) PROVE [Next]_vars
  BY <1>2 DEF Report, ReportUnread, Finish
<1>3. ASSUME NEW c \in Clients, Work(c) PROVE [Next]_vars
  BY <1>3 DEF Work, Next
<1>4. ASSUME NEW c \in Clients, PeopleDeploy(c) PROVE [Next]_vars
  BY <1>4 DEF PeopleDeploy
<1>5. ASSUME NEW c \in Clients, CallFails(c) \/ Disconnect(c) PROVE [Next]_vars
  BY <1>5 DEF Next
<1>6. CASE Crash
  BY <1>6 DEF Next
<1>7. ASSUME NEW x \in Repos, Settles(x) \/ UserCommit(x) \/ UserTopic(x)
      PROVE  [Next]_vars
  BY <1>7 DEF Settles, Next
<1>8. CASE UNCHANGED allVars
  BY <1>8 DEF allVars
<1>9. QED
  BY <1>1, <1>2, <1>3, <1>4, <1>5, <1>6, <1>7, <1>8 DEF PlatformNext

(* Platform implements Scaffold, and with it Provisioning: whatever holds  *)
(* of every behaviour of the service holds of the platform around it       *)
(* (provision.go:86-149).                                                  *)
THEOREM KeepsScaffold == PlatformSpec => Spec
<1>1. PlatformInit => Init
  BY DEF PlatformInit
<1>2. QED
  BY <1>1, StepMaps, PTL DEF PlatformSpec, Spec

(* An outcome is one of the things that a task can end with. *)
LEMMA OutcomeType ==
  ASSUME NEW status, NEW body \in BOOLEAN
  PROVE  /\ Outcome(status, body) \in Tasks
         /\ Outcome(status, body) = "done" => status = "201"
         /\ Outcome(status, body) = "stopped" => status = "207"
  BY DEF Outcome, Tasks

(* Every variable has its type, in every behaviour.                        *)
THEOREM PlatformTypeCorrect == PlatformSpec => []PlatformTypeOK
<1> USE ConstantsAssumption, PlatformAssumption
<1> DEFINE Extras == /\ task \in [Clients -> Tasks]
                     /\ link \in [Repos -> Apps \cup {NoApp}]
                     /\ settings \in [Apps -> {"none", "form", "people"}]
                     /\ unread \in 0 .. MaxUnread
<1>1. PlatformInit => Extras
  BY DEF PlatformInit, Tasks
<1>2. Extras /\ [PlatformNext]_allVars => Extras'
  <2> SUFFICES ASSUME Extras, [PlatformNext]_allVars PROVE Extras'
    OBVIOUS
  <2>1. ASSUME NEW c \in Clients, Submit(c) PROVE Extras'
    BY <2>1 DEF Submit, Tasks
  <2>2. ASSUME NEW c \in Clients, Report(c) \/ ReportUnread(c) PROVE Extras'
    <3>1. Outcome(resp[c], TRUE) \in Tasks /\ Outcome(resp[c], FALSE) \in Tasks
      BY OutcomeType
    <3>2. CASE Report(c)
      BY <3>1, <3>2 DEF Report, Finish
    <3>3. CASE ReportUnread(c)
      <4>1. unread' \in 0 .. MaxUnread
        BY <3>3 DEF ReportUnread
      <4>2. /\ task' \in [Clients -> Tasks]
            /\ UNCHANGED <<link, settings>>
        BY <3>1, <3>3 DEF ReportUnread, Finish
      <4>3. QED
        BY <4>1, <4>2
    <3>4. QED
      BY <2>2, <3>2, <3>3
  <2>3. ASSUME NEW c \in Clients, Work(c) PROVE Extras'
    BY <2>3 DEF Work, Rendered
  <2>4. ASSUME NEW c \in Clients, PeopleDeploy(c) PROVE Extras'
    BY <2>4 DEF PeopleDeploy
  <2>5. CASE UNCHANGED surroundings
    BY <2>5 DEF surroundings
  <2>6. QED
    BY <2>1, <2>2, <2>3, <2>4, <2>5 DEF PlatformNext, Settles, allVars
<1>3. TypeOK /\ Extras => PlatformTypeOK
  BY DEF PlatformTypeOK
<1>4. QED
  BY <1>1, <1>2, <1>3, KeepsScaffold, TypeCorrect, PTL DEF PlatformSpec

-----------------------------------------------------------------------------
(* What the task says. *)

(* OutcomeTruthful, of the resource as long as nobody else may take it.    *)
TasksTrue ==
  \A c \in Clients :
    /\ task[c] \in {"done", "stopped"} => Scaffolded(RepoOf[c])
    /\ Sole(c) /\ task[c] = "done" => app[AppOf[c]] = RepoOf[c]

(* However requests overlap, fail, collide and are repeated, a task that   *)
(* is done or stopped has its repository, and one that is done has its     *)
(* resource, if no other repository asks for it (scaffoldWebApp.ts:86-114).*)
THEOREM TasksKeepTheirs == PlatformSpec => []TasksTrue
<1> USE ConstantsAssumption
<1>1. PlatformInit => TasksTrue
  BY DEF PlatformInit, TasksTrue
<1>2. Inv /\ PlatformTypeOK /\ TasksTrue /\ [PlatformNext]_allVars => TasksTrue'
  <2> SUFFICES ASSUME Inv, PlatformTypeOK, TasksTrue, [PlatformNext]_allVars,
                      NEW c \in Clients
               PROVE  /\ task'[c] \in {"done", "stopped"} => Scaffolded(RepoOf[c])'
                      /\ Sole(c) /\ task'[c] = "done"
                            => app'[AppOf[c]] = RepoOf[c]
    BY DEF TasksTrue, Sole
  <2>1. /\ Scaffolded(RepoOf[c]) => Scaffolded(RepoOf[c])'
        /\ Sole(c) /\ app[AppOf[c]] = RepoOf[c] => app'[AppOf[c]] = RepoOf[c]
    BY StepMaps, StaysDone DEF Inv
  <2>2. CASE task'[c] = task[c]
    BY <2>1, <2>2 DEF TasksTrue
  <2>3. ASSUME NEW d \in Clients, Submit(d) PROVE task'[c] \in {"running", task[c]}
    BY <2>3 DEF Submit, PlatformTypeOK
  <2>4. ASSUME NEW d \in Clients, Report(d) \/ ReportUnread(d)
        PROVE  /\ task'[c] \in {"done", "stopped"} => Scaffolded(RepoOf[c])
               /\ Sole(c) /\ task'[c] = "done" => app[AppOf[c]] = RepoOf[c]
    <3>1. CASE c # d
      BY <2>4, <3>1 DEF Report, ReportUnread, Finish, PlatformTypeOK, TasksTrue
    <3>2. CASE c = d
      <4>1. PICK body \in BOOLEAN : task'[c] = Outcome(resp[c], body)
        BY <2>4, <3>2 DEF Report, ReportUnread, Finish, PlatformTypeOK
      <4>2. /\ task'[c] = "done" => resp[c] = "201"
            /\ task'[c] = "stopped" => resp[c] = "207"
        BY <4>1, OutcomeType
      <4>3. QED
        BY <4>2 DEF Inv, AnswersTrue
    <3>3. QED
      BY <3>1, <3>2
  <2>5. ASSUME NEW d \in Clients, Work(d) \/ PeopleDeploy(d)
        PROVE  task'[c] = task[c]
    BY <2>5 DEF Work, PeopleDeploy
  <2>6. CASE UNCHANGED surroundings
    BY <2>2, <2>6 DEF surroundings
  <2>7. QED
    BY <2>1, <2>2, <2>3, <2>4, <2>5, <2>6 DEF PlatformNext, Settles, allVars
<1>3. QED
  BY <1>1, <1>2, KeepsScaffold, Invariance, PlatformTypeCorrect, PTL
  DEF PlatformSpec

(* Where no two repositories ask for one resource, every task is truthful. *)
THEOREM TasksAreTruthful ==
  ASSUME OneRepositoryPerApp
  PROVE  PlatformSpec => []OutcomeTruthful
<1>1. TasksTrue => OutcomeTruthful
  BY NobodyCollides DEF TasksTrue, OutcomeTruthful
<1>2. QED
  BY <1>1, TasksKeepTheirs, PTL

-----------------------------------------------------------------------------
(* What people put on a repository. *)

(* A step of the service replaces topics only by the list that it read.    *)
LEMMA TopicStep ==
  ASSUME TypeOK, [Next]_vars, NEW x \in Repos, NEW t \in OtherTopics,
         t \in topics[x], t \notin topics'[x]
  PROVE  \E c \in Clients : /\ RepoOf[c] = x
                            /\ pc[c] \in {"setManaged", "setIncomplete"}
                            /\ t \notin seen[c]
<1> USE ConstantsAssumption DEF TypeOK, github
<1>1. ASSUME NEW c \in Clients, SetManaged(c) \/ SetIncomplete(c)
      PROVE  /\ RepoOf[c] = x /\ t \notin seen[c]
             /\ pc[c] \in {"setManaged", "setIncomplete"}
  <2>1. t # TopicManaged /\ t # TopicIncomplete
    BY DEF Markers
  <2>2. QED
    BY <1>1, <2>1 DEF SetManaged, SetIncomplete, ReplaceTopics
<1>2. topics' # topics
  OBVIOUS
<1>3. ASSUME NEW c \in Clients, Handle(c) PROVE SetManaged(c) \/ SetIncomplete(c)
  BY <1>2, <1>3 DEF Handle, EnsureRepo, CreateRepo, HasScaffoldedContent,
    IsEmpty, Bootstrap, GetRef, CreateCommit, UpdateRef, Commit, GetNamespace,
    CreateNamespace, Apply, ListManaged, ListIncomplete, ListTopics
<1>4. ASSUME NEW c \in Clients PROVE ~(Send(c) \/ CallFails(c) \/ Disconnect(c))
  BY <1>2 DEF Send, CallFails, Disconnect
<1>5. ~Crash
  BY <1>2 DEF Crash
<1>6. ASSUME NEW y \in Repos PROVE ~(Settle(y) \/ UserCommit(y) \/ UserTopic(y))
  <2>1. ~(Settle(y) \/ UserCommit(y))
    BY <1>2 DEF Settle, UserCommit, Commit
  <2>2. ~UserTopic(y)
    BY DEF UserTopic
  <2>3. QED
    BY <2>1, <2>2
<1>7. QED
  BY <1>1, <1>2, <1>3, <1>4, <1>5, <1>6 DEF Next, vars

(* A topic of people is lost only between the two halves of SetTopics.     *)
THEOREM PeoplesTopicsSurvive == PlatformSpec => TopicsSurvive
<1> DEFINE Kept == \A x \in Repos, t \in OtherTopics :
                     t \in topics[x] /\ t \notin topics'[x] =>
                       \E c \in Clients : /\ RepoOf[c] = x
                                          /\ pc[c] \in {"setManaged", "setIncomplete"}
                                          /\ t \notin seen[c]
<1>1. TypeOK /\ [PlatformNext]_allVars => Kept
  BY StepMaps, TopicStep
<1>2. TypeOK /\ [PlatformNext]_allVars => [Kept]_allVars
  BY <1>1
<1>3. QED
  BY <1>2, KeepsScaffold, TypeCorrect, PTL DEF PlatformSpec, TopicsSurvive

-----------------------------------------------------------------------------
(* What the tab finds. *)

Own == {"scaffold", "edited"}

(* Those who asked for x and for the resource that its annotation names.   *)
Linked(x) == {c \in Clients : RepoOf[c] = x /\ AppOf[c] = link[x]}

(* An annotation that the service pushed is that of a request for the      *)
(* repository.                                                             *)
LinkInv == \A x \in Repos : tree[x] \in Own => Linked(x) # {}

(* A request that puts the rendered files into a repository pushes them.   *)
LEMMA OwnByPush ==
  ASSUME TypeOK, NEW d \in Clients, Handle(d),
         NEW x \in Repos, tree'[x] \in Own, tree[x] \notin Own
  PROVE  RepoOf[d] = x /\ Pushes(d)
<1> USE ConstantsAssumption DEF TypeOK, github, Own
<1>0. tree' # tree
  OBVIOUS
<1>1. ~(CreateRepo(d) \/ Bootstrap(d))
  BY DEF CreateRepo, Bootstrap, Commit
<1>2. UpdateRef(d)
  BY <1>0, <1>1 DEF Handle, EnsureRepo, HasScaffoldedContent, IsEmpty,
    GetRef, CreateCommit, GetNamespace, CreateNamespace, Apply, ListManaged,
    SetManaged, ListIncomplete, SetIncomplete, ListTopics, ReplaceTopics
<1>3. CASE Commit(RepoOf[d], "scaffold")
  BY <1>2, <1>3 DEF UpdateRef, Commit, Pushes
<1>4. CASE UNCHANGED github
  BY <1>0, <1>4
<1>5. QED
  BY <1>2, <1>3, <1>4 DEF UpdateRef

(* Nobody else puts them there.                                            *)
LEMMA NotOwnByOthers ==
  ASSUME TypeOK, NEW x \in Repos, tree'[x] \in Own, tree[x] \notin Own
  PROVE  /\ \A c \in Clients : ~(Send(c) \/ CallFails(c) \/ Disconnect(c))
         /\ ~Crash /\ ~UNCHANGED vars
         /\ \A y \in Repos : ~(Settle(y) \/ UserCommit(y) \/ UserTopic(y))
<1> USE DEF TypeOK, github, Own
<1>0. tree' # tree
  OBVIOUS
<1>1. ASSUME NEW c \in Clients PROVE ~(Send(c) \/ CallFails(c) \/ Disconnect(c))
  BY <1>0 DEF Send, CallFails, Disconnect
<1>2. ~Crash /\ ~UNCHANGED vars
  BY <1>0 DEF Crash, vars
<1>3. ASSUME NEW y \in Repos PROVE ~(Settle(y) \/ UserTopic(y))
  BY <1>0 DEF Settle, UserTopic
<1>4. ASSUME NEW y \in Repos PROVE ~UserCommit(y)
  BY DEF UserCommit, Commit
<1>5. QED
  BY <1>1, <1>2, <1>3, <1>4

(* A repository that is asked for with several resources in turn keeps the *)
(* annotation of the request that pushed, whichever are applied after it   *)
(* (github.go:90, catalog-info.yaml.tmpl:10-12).  It names a resource that *)
(* somebody asked for, and leads to it as soon as one of those who did is  *)
(* done, unless another repository asks for the same resource: the tab     *)
(* misses only while the form that the annotation came from is given up.   *)
TabFindsOwn ==
  \A x \in Repos :
    tree[x] \in Own =>
      /\ Linked(x) # {}
      /\ \A c \in Linked(x) : Sole(c) /\ task[c] = "done" => app[link[x]] = x

(* That holds whoever else asks for what, and whatever fails.              *)
THEOREM TabsFindTheirOwn == PlatformSpec => []TabFindsOwn
<1> USE ConstantsAssumption
<1>1. PlatformInit => LinkInv
  BY DEF PlatformInit, Init, LinkInv, Own
<1>2. PlatformTypeOK /\ LinkInv /\ [PlatformNext]_allVars => LinkInv'
  <2> SUFFICES ASSUME PlatformTypeOK, LinkInv, [PlatformNext]_allVars,
                      NEW x \in Repos, tree'[x] \in Own
               PROVE  \E c \in Clients : RepoOf[c] = x /\ AppOf[c] = link'[x]
    BY DEF LinkInv, Linked
  <2>1. CASE \E d \in Clients : Work(d) /\ Pushes(d) /\ RepoOf[d] = x
    <3>1. PICK d \in Clients : Work(d) /\ Pushes(d) /\ RepoOf[d] = x
      BY <2>1
    <3>2. link'[x] = AppOf[d]
      BY <3>1 DEF Work, Rendered, PlatformTypeOK
    <3>3. QED
      BY <3>1, <3>2
  <2>2. CASE ~\E d \in Clients : Work(d) /\ Pushes(d) /\ RepoOf[d] = x
    <3>1. link'[x] = link[x]
      <4>1. ASSUME NEW d \in Clients, Work(d) PROVE link'[x] = link[x]
        BY <2>2, <4>1 DEF Work, PlatformTypeOK
      <4>2. QED
        BY <4>1 DEF PlatformNext, Submit, Report, ReportUnread, Finish,
          PeopleDeploy, Settles, surroundings, allVars
    <3>2. tree[x] \in Own
      <4>1. SUFFICES ASSUME tree[x] \notin Own PROVE FALSE
        OBVIOUS
      <4>2. \A d \in Clients : ~Work(d)
        BY <4>1, <2>2, OwnByPush DEF Work, PlatformTypeOK
      <4>3. /\ \A d \in Clients : ~(Submit(d) \/ CallFails(d) \/ Disconnect(d))
            /\ ~Crash /\ ~UNCHANGED vars
            /\ \A y \in Repos : ~(Settles(y) \/ UserCommit(y) \/ UserTopic(y))
        BY <4>1, NotOwnByOthers DEF Submit, Settles, PlatformTypeOK
      <4>4. QED
        BY <4>2, <4>3 DEF PlatformNext, Report, ReportUnread, Finish,
          PeopleDeploy, allVars
    <3>3. QED
      BY <3>1, <3>2 DEF LinkInv, Linked
  <2>3. QED
    BY <2>1, <2>2
<1>3. LinkInv /\ TasksTrue => TabFindsOwn
  BY DEF LinkInv, TasksTrue, TabFindsOwn, Linked
<1>4. QED
  BY <1>1, <1>2, <1>3, PlatformTypeCorrect, TasksKeepTheirs, PTL DEF PlatformSpec
=============================================================================
