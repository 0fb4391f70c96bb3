# Verification of idp-backstage

TLA+ models of the internal developer platform in this repository, the
configurations that model-check them, and proofs about them. Paths below are
relative to the root of the repository; `github.go`, `provision.go`, `webapp.go`
and `request.go` are in `services/scaffolder/internal/provision/`, `store.go` is
in `services/status-api/internal/webapps/`.

## The system

A person fills in a form in Backstage. The *scaffolder* service creates a GitHub
repository with a rendered service in it, and applies a `WebApp` custom resource
that runs it in the cluster. The same service lists the account's repositories
for the Backstage catalog. The *status API* watches the custom resources and the
Deployments an operator makes for them, and a *tab* on the entity page polls it.

| component | state it keeps | operations | talks to |
|---|---|---|---|
| provisioning service (`provision.go`) | none but the request at work | `Scaffold`: validate, render, repository, custom resource, markers | GitHub client, cluster client |
| GitHub client (`github.go`) | none; all of it is on GitHub | `EnsureRepository`, `SetTopics`, `CheckTokenScopes` | GitHub REST and git data API |
| cluster client (`webapp.go`) | none; all of it is in the cluster | `Apply` (namespace, then a forced server-side apply) | API server |
| request validation (`request.go`) | none | `Normalise`, `validateImage`, `parseRepoURL` | |
| scaffolder HTTP API (`services/scaffolder/internal/httpapi/server.go`) | counters | `POST /scaffold` (201, 207, 400, 502), `GET /catalog/discovery` | the two above |
| discovery (`services/scaffolder/internal/discovery/discovery.go`) | the cached result and a mutex | `Discover` | GitHub REST API |
| template renderer (`services/scaffolder/internal/template`) | none; embedded files | `Render` | |
| the two processes (`services/*/cmd/*/main.go`, with `internal/config` and `internal/k8s`) | goroutines, an error channel, a signal context | start from the environment, listen, shutdown with ten seconds of grace | the kubelet, a Service |
| status store (`store.go`) | two informer caches | `Start`, `HasSynced`, `List`, `Get` | watches of the API server |
| status HTTP API (`services/status-api/internal/httpapi/server.go`) | gauges | list, get, `/readyz`, `/metrics` | the store |
| WebApp tab (`backstage/plugins/webapp-status/src`) | the hook's state and its generation counter | load, poll every five seconds, navigate | status API, through the Backstage proxy |
| `platform:scaffoldWebApp` action (`backstage/packages/backend/src/modules/scaffoldWebApp.ts`) | none | one POST, its status turned into an output or an error | scaffolder |
| Backstage app, templates, catalog, manifests, scripts | configuration | | |
| GitHub, Kubernetes, webapp-operator | external | | |

Where the difficulty is:

- **Requests to `/scaffold` run concurrently and share nothing.** Each is a
  sequence of up to fifteen calls; GitHub and the cluster are the shared memory,
  and every call is a separate step. Nothing is persisted by the service, so a
  crash, a caller that hangs up, or a lost answer leaves whatever the calls did,
  and re-sending the request is the only recovery.
- **GitHub is not consistent at once.** After a first commit the git data API may
  answer 404 or 409 for a while.
- **Markers are read, changed and written back** in two calls.
- **Discovery** holds a mutex over a long series of calls, over pages whose
  contents shift while they are read.
- **The status API** joins two caches that lag independently.
- **The tab** has several loads in flight, whose answers come in any order.
- **Each process** is up to three goroutines that meet in a `select` over an error
  channel and a signal; a SIGTERM may make both ready at once.
- **The person at the form** sees only the outcome of a task, and sends the form
  again from it, while other people work on the repository and redeploy.

What makes each component correct is stated as the properties below; the hazards
they are aimed at are listed, line by line, in `PROJECT.json`.

## The modules

| module | models | kind |
|---|---|---|
| `Provisioning` | what the scaffolder promises to somebody who looks only at GitHub and the cluster | abstract specification |
| `Scaffold` | `POST /scaffold`, call by call, for any number of overlapping requests | detailed specification; implements `Provisioning` |
| `MCScaffold` | the constants of the instances of `Scaffold` | model checking |
| `ScaffoldProofs` | theorems about `Scaffold` | proofs |
| `Platform` | `Scaffold` with what people see at its two ends: the task of the Backstage action, and the scaffolded service with its catalog entity and `make deploy` | composition; every step is one of `Scaffold` or leaves its state alone |
| `MCPlatform` | the constants of the instances of `Platform` | model checking |
| `PlatformProofs` | theorems about `Platform` | proofs |
| `RequestRules` | what a request has to look like, how it is read, and the form that is corrected and sent again | specification, checked directly |
| `Template` | what an accepted request is rendered to, and how the tab reads it back | extends `RequestRules` |
| `MCRequestRules` | the forms of the instance of `RequestRules` and `Template` | model checking |
| `RequestRulesProofs` | theorems about `RequestRules` | proofs |
| `TemplateProofs` | theorems about `Template` | proofs |
| `Discovery` | `GET /catalog/discovery` | specification, checked directly |
| `DiscoveryProofs` | theorems about `Discovery` | proofs |
| `StatusStore` | the informers and handlers of the status API, its process, and the cluster around it | specification, checked directly |
| `StatusStoreProofs` | theorems about `StatusStore` | proofs |
| `WebAppTab` | the hook `useWebAppStatus` | specification, checked directly |
| `WebAppTabProofs` | theorems about `WebAppTab` | proofs |
| `Lifecycle` | one process of either service, from its environment to its exit code | specification, checked directly |
| `LifecycleProofs` | theorems about `Lifecycle` | proofs |

Operators placed directly above a definition, with a comment that says what is
wrong with them (`AlwaysPush`, `MissUnlocked`, `NamedAfter`...), are faulty
versions of it, one for each property: with the faulty version in its place the
property fails, which shows that the property is about the code.

### Scaffold

`pc[c]` is the call that `c`'s request is about to make. One action is one call,
named after the function that makes it: `EnsureRepo`, `CreateRepo`,
`HasScaffoldedContent`, `IsEmpty`, `Bootstrap`, `GetRef`, `CreateCommit` (the
three calls that write nothing a reader of the branch sees: `GetCommit`,
`CreateTree`, `CreateCommit`), `UpdateRef`, `GetNamespace`, `CreateNamespace`,
`Apply`, and `List*`/`Set*` for the two calls of `SetTopics` with either marker.
`parent`, `tries` and `seen` are the locals that live across calls: the parent
SHA, the attempts of `retryWhileSettling`, and the topics that were listed.

A repository's content is one word (`absent`, `none`, `readme`, `foreign`,
`marked`, `scaffold`, `edited`), because all the code ever asks is whether
`catalog-info.yaml` is there and whether there is a commit, and all the
properties ask is whose work it is. `head` counts commits, so that a
non-fast-forward update of the branch is refused. `settling` is GitHub's lag
after a first commit: while it holds, the three git data calls may succeed or
answer 404 or 409.

A call may fail without effect (`CallFails`), or take effect and lose its answer
(`Answered`); `Fail` is where the code goes then. `Disconnect` is the end of the
request's context, `Crash` the death of the process, `UserCommit` and `UserTopic` are
people. A call that is made is over when its request is: calls that take effect long
after their request ended are left out. Rendering is a pure function of the request,
in `Template`; a request is valid (it decodes, and passes the check) or it is not
(`Valid`). A namespace or resource that the cluster will never accept is a call that
fails every time.

`CreatedAs` is there because `ensureRepo` creates a repository for a user account
under the token's account, whatever owner was asked for (`github.go:165-174`).

### Platform

`Submit`, `Work` and the steps of the surroundings are the actions of `Scaffold`,
with what they mean to people beside them. `task` is the outcome that
`scaffoldWebApp.ts` makes of the answer: `done` for a 201 with a repository and a
WebApp in its body, `stopped` for 207, `rejected` for 400 and `failed` for
everything else, an aborted fetch included. `ReportUnread` is the answer whose body
is lost after the headers: `await response.json().catch(...)` makes it `{}`.

`link` is the annotation of a repository's `catalog-info.yaml`, which only a push
writes; it says which request the files were rendered for (`Rendered`), and
`RenderingFits` of `Template` that they say so; `settings` is who chose image, port
and replicas of a resource last, the form or, with `make deploy`, people. `Resubmit`
is whoever is told that the service is not there yet and sends the form again.

### RequestRules

Text is a sequence of tokens: letters and digits, marks, and the few words that
`request.go` looks for. `validateImage` and `parseRepoURL` are operators that cut
such sequences where the code does; `Normalise` is the same chain of defaults, and
`Problems` the fields it complains of. `SubmitMalformed` and `Submit` are the two
halves of `handleScaffold` up to the 400: a number that is no int32 (`MaxInt`) makes
the decoder give up with an error that names one field, and only a body that decodes
is checked and gets a list. `Repair` is a person who corrects the fields that the
answer names and no others. Bodies that are no JSON, or hold text for a number, are
left out; the form sends none.
`Pinned` and `Spellings` are the declarations to compare with: an image with a
digest, or with a tag that is not `latest`, and the ways to write down a
repository. The webhook of the operator is not part of this repository; `Pinned` is
what `request.go:103-108` and its tests say of it. A query that `url.Parse` refuses
is read as no URL at all (`kind` `none`).

### Template

Of the rendered files, only what another program looks for is kept: their names
(`targetPath`, since `catalog-info.yaml` is the marker that a retry looks for), the
annotation `namespace/name`, which `parseWebAppRef` of the tab cuts up again, and
the prefix of the metrics, of which Prometheus is particular. `Render` is applied to
what `Normalise` returned, so that `RenderingFits` relates three programs: what the
check lets through, what is made of it, and what is read from that.

### Discovery

A request waits for the mutex, then hits the cache or makes a pass: `List` once a
page, `Check` once a repository, `Store`. `ListFails` and `CheckFails` are the two
error paths, which treat a cached result differently. Names are numbers in the
order in which GitHub lists them; the list is that of the moment it is asked for,
so pages shift when repositories appear and go. `stable` and `shifted` are history
variables for `PassIsComplete`. The age of the result is counted in ticks up to
TTL; the pass takes no time of its own beyond the steps of others.

### StatusStore

`world` is the cluster, `cache` the two informers' copies of it, `events` what
their watches have yet to deliver. `Start`, `Sync` and `Watch` are the informers;
`Probe` is the kubelet asking `/readyz`, and requests come only while the last
probe succeeded, as the Service of `infra/k8s/status-api/manifests.yaml` sees to.
`Get` and `List` take WebApps from the one cache, `Convert` joins each with the
Deployment that the other cache has *then*. The change that made an object numbers
its uid and its image. client-go, the operator and garbage collection are modelled
from what the code relies on: events of one kind in order, an owner reference on
the Deployment, a name that is not free until the old Deployment is collected, an
Available condition.

### WebAppTab

A load in flight is a slot; the generation counter is the slot of the load that
started last, since all the code ever does with the counter is compare it with its
latest value. `Receive` is the code between the two awaits, with the comparison of
the generations; `ReadBody` is the code after the second, without one.
`ReadBodyFails` and `ServeFails` end in the `catch`. The effects that run on a
navigation are one action, as React runs them. `Display` is what the component makes
of the last state that was set: nothing of it for an entity without a link, and for a
not-found a message that names the entity on display, whoever's the answer was.

### Lifecycle

`main` is where `run` is; `serve` and `sync` are the goroutines of
`ListenAndServe` and of `store.Start`, the second in the status API only; `errs`
fills their channel, of capacity one. `env` is the environment in classes: which
variables are set, whether a number of seconds is positive, where credentials come
from. When the channel and the signal are both ready, `SelectError` and `SelectDone`
are both enabled, as Go picks either. `Shutdown` is `Tick`, `Drained` and
`GraceEnds`: it polls its connections, so at the end of the grace it may have missed
that the last one closed.

`HasSynced` becomes true before `Start`, which polls it every 100 ms, returns; a
request accepted in between is `early`. A SIGTERM then may end the process at once
(`StartFails`, `SelectError`), which is why `GraceIsGiven` speaks of the others. A
handler may take for ever: nothing but `Answer` ends it, and `Ends` holds all the
same.

## What is checked

Every run is `tlc -config <cfg> <module>`. Those that pass:

| run | configuration | shows |
|---|---|---|
| `platform` | `MCPlatform` | `WorkSurvives`: no failure, hang-up, crash or retry ever overwrites work done on a scaffolded repository. `OutcomeTruthful`: what the task says is so and stays so. `ManagedMeansRunning`: the managed marker never stands on a repository without its resource, also when setting a marker fails. `TopicsSurvive`: people's topics are lost only between the two calls of `SetTopics`. `EventuallyDone`: submitting the form again gets the task done, from whatever the repository held at first. |
| `scaffold_overlap` | `MCScaffoldOverlap` | `AppHasRepository`, `ManagedMeansRunning`, `ResponseTruthful`, `MarkersSettle`, `RaceIsNotAFailure` for two overlapping requests for one service, and `PromiseKept`: they implement `Provisioning`. |
| `request_rules` | `MCRequestRules` | `ImagesAsTheOperator`, `RepositoryMeant`, `OneRefusal`, `RenderingFits`: every image of up to five tokens, every name of up to four, and the combinations of a few values of all the fields, numbers that do not decode among them. |
| `discovery` | `MCDiscovery` | `OnePassPerTTL` (and what is cached survives every pass that fails), `PassIsComplete`, and that every request is answered and the list catches up. |
| `status_store` | `MCStatusStore` | `NoMixedIncarnations`, `KnownWhenReady`, `EventuallyRight`. |
| `webapp_tab` | `MCWebAppTab` | `NoLateFailure`: no answer puts the failure of an entity that was left on display under another one. `CatchesUp`. |
| `lifecycle` | `MCLifecycle` | `CleanExit`: exit code 0 means asked to end and no request cut off. `GraceIsGiven`: a request accepted after start-up is cut off only by a kill, the end of the grace or a failed listener. `Ends`: a process that is asked to end, or whose listener failed, ends. |

Each also checks the type invariant of its module.

Those whose property is what a comment or a document says, and is violated by what
the code does:

| run | the claim | what happens |
|---|---|---|
| `scaffold_overwrite` | "a retry never overwrites work someone has since done" (`github.go:63-64`) | Two requests both find no content. The first pushes and finishes; somebody commits; the second reads the branch then, builds on that commit and pushes the scaffold over it. |
| `scaffold_settling` | a 404 right after the first commit "is retried rather than surfaced" (`github.go:108-111`) | A 404 of `CreateTree` is turned into `ErrWorkflowScope` with the original error formatted by `%v` (`github.go:285`); `isSettling` no longer recognises it, and the request ends with 502 on the first attempt. |
| `platform_overwrite` | "conflicts are real errors rather than silent overwrites" (`webapp.go:26-27`), "Re-submitting the same form is a no-op" (`docs/creating-a-service.md:123-124`) | `Apply` forces the ownership of image, replicas and port: submitting the form again puts its values back over what a team deployed with `make deploy`, and the answer is 201. |
| `discovery_outage` | "when GitHub fails, the last good result is served" (`docs/decisions.md:41`) | True of the listing only: a failed catalog-file check returns an error although a result is cached (`discovery.go:100-103`). |
| `webapp_tab_landing` | an in-flight response "cannot land on the current one after a navigation" (`useWebAppStatus.ts:28-29`) | The generation is compared before `await response.json()` and not after. |

The same models show more of the kind, which have no run of their own.

Of provisioning:

- Content is also pushed over the commits of a repository that merely lacks
  `catalog-info.yaml`, against `github.go:62-64` and against "content is only pushed
  into a repository that has no commits of its own" (`docs/creating-a-service.md:121-123`).
- Repositories of one name and two owners share one custom resource, and the second
  takes it over (against `webapp.go:26-27`). This is why `ManagedRepositoriesRun`,
  `StatusesAreTrue`, `ImplementsPromise` and `TasksAreTruthful` assume
  `OneRepositoryPerApp`. `CollisionsStayLocal` and `TasksKeepTheirs` assume
  nothing of the kind, and show that nobody is affected but those who collide.
- A form whose apply failed is sent again with another namespace: the content is there,
  so nothing is pushed (`github.go:90`), the resource is applied in the new namespace,
  and the answer is 201. The annotation and `webapp.yaml` keep naming the resource of
  the first attempt, which is not there (against `catalog-info.yaml.tmpl:10-11`: "to
  find the custom resource this component is running as"). The form has no field for a
  namespace; the action and the API take one (`scaffoldWebApp.ts:49`), and the default
  is configuration. `TabsFindTheirOwn` says how far this goes.
- A 207 is sent, saying the repository is tagged, when tagging failed
  (`provision.go:134`, against `server.go:162-163` of the scaffolder), and also when
  the apply took effect and only its answer was lost (against `server.go:131`).
- A topic added between the two calls of `SetTopics` is lost (against
  `github.go:314`); `TopicsSurvive` says that no other is.
- For an owner that is another user, a stray repository is created under the
  token's account.

Of what a request says:

- The namespace is not checked, so that one which the cluster cannot have ends in a
  207 (against `request.go:105-108`).
- A number that is no int32 is reported alone, and without a list: two of them, or
  one and another problem, take as many rounds. `OneRefusal` is about lists.
- The address of a page inside a repository is read as another repository
  (`request.go:165`: `https://github.com/o/r/tree/main` asks for `tree/main`).
- The metric prefix of a name that begins with a digit is no valid Prometheus name
  (`template.go:47-48`); `RenderingFits` speaks of the others.
- The description goes into `catalog-info.yaml` as it is, whatever YAML makes of it.

Of discovery and status:

- A repository deleted while discovery reads the pages can hide another one
  (`discovery.go:124-146`, which is why `PassIsComplete` excludes deletions).
- With the cache of Deployments ahead of that of WebApps, an answer has a newer
  image running than the one it says is asked for (against `types.go:21-22`).
- After a navigation the tab shows the previous entity's numbers, or its error, until
  the first answer, and its not-found as "No WebApp" with the name of the new entity
  (`useWebAppStatus.ts:61-69`, `WebAppStatusContent.tsx:72-84`). While an entity
  without a link is open no load starts, so the generation stays: a failure of the one
  before is still set, and shows when the next linked entity is opened. These are the
  two exceptions that `NoLateFailure` names.
- Answers slower than five seconds never show: each poll disowns the load before it
  (against `docs/troubleshooting.md:94-95`, which has the tab one poll behind at
  most). `CatchesUp` fails with `Prompt = FALSE`.

Of the processes:

- A `DISCOVERY_TTL_SECONDS` beyond 292 years overflows as a `time.Duration`
  (`config.go:57-61` of the scaffolder), and every refresh reads all of GitHub.
- `CheckTokenScopes` has no deadline of its own and comes before the listener
  (`services/scaffolder/cmd/scaffolder/main.go:53`).
- A SIGTERM during the first sync may end in exit code 1 at once, a listener that
  failed just before a SIGTERM in exit code 0: the `select` takes either.

### Bounds

- *Callers*: two. All the properties of `Scaffold` relate one or two requests,
  requests do not know each other, and a caller re-sends as often as it likes, so
  two callers also stand for a series of requests. In `platform` the second one's form
  is invalid: overlapping requests are `scaffold_overlap`'s, and liveness is checked
  for one person who keeps submitting. `ScaffoldProofs` and `PlatformProofs` cover any
  number.
- *Attempts*: two or three instead of six: one failure that is retried, one that is
  not the last, one that is.
- *MaxFaults*, *MaxEdits*: at most three failures (calls, hang-ups, crashes) and two
  acts of people. A failure in the overlapping run can hit either request at any
  call; one edit is enough for work that might be overwritten. *MaxUnread*: one answer whose body is lost.
- *Texts*: images of up to five tokens, enough for a port, a path, a tag and one
  mark too many; names of up to four, over a letter, a digit, a dash, a slash and a
  space, against a longest name of three. *MaxInt*: 70000, above every port and within
  TLC's integers, with numbers on it and beyond it at both ends. The theorems have no
  such bound.
- *Repositories, pages*: two names on pages of one make every shift possible: a
  repository appears or goes before, at or after the page being read.
- *TTL*: two ticks, so that a result can be fresh, old and expired.
- *MaxChanges*: four, of which the first is what the service finds: a change, a
  deletion and another creation. One application is enough in `StatusStore`:
  the items of a list are converted one by one, from caches that no request
  changes, and the time between taking a WebApp and converting it is arbitrary for
  one application as well.
- *Grace*, *Requests*: two ticks, so that the grace can be over, and can be not;
  two requests, so that one is answered and one is cut.
- *Slots*: two loads in flight, the current one and one it disowned.

### Fairness

- `Platform`: a request in flight goes on (its calls return: the HTTP clients end
  every call when its context ends), the action reports, whoever is told that the
  service is not there yet submits the form again, and GitHub settles. Failures are
  bounded, so they stop: `EventuallyDone` says nothing of a call that fails for ever.
  People's commits, topics and deployments are never assumed.
- `Discovery`: calls return, requests keep coming, as Backstage refreshes its
  locations on a schedule, and the clock ticks. Taking the mutex is strongly fair:
  Go's `sync.Mutex` hands the lock to a waiter that starves.
- `StatusStore`: the kubelet restarts and probes the process, the two goroutines
  run, the API server delivers, the operator and the garbage collector work. No
  fairness of requests is needed.
- `WebAppTab`: the timer fires, and every request is answered, well or not. `Prompt`
  is the assumption that answers come within the interval; the code does not see to
  it, and without it `CatchesUp` fails.
- `Lifecycle`: goroutines that can run do (the sends and the `select`), and timers
  fire (`Tick`, `GraceEnds`). Nothing is assumed of handlers, caches or the network.

Deadlock is checked except in `request_rules`, where an accepted form is the end, in
the runs of `WebAppTab`, where a page without a link has nothing to do once the user
stops navigating, and in `lifecycle`, where a process exits.

## What is proved

`tlapm` checks the proofs, for every value of the constants that satisfies the
named assumptions: any number of callers, repositories, attempts, faults.

**ScaffoldProofs.** `TypeCorrect` first. `Invariance` proves the inductive
invariant `Inv`: what a request knows at each step is still true at that step. A
request in the cluster's steps, or past them, has a repository with its content,
because content never goes away (`StaysDone`); a request about to write the managed
marker, or answered 201, has its resource applied; the managed marker stands only on
a repository that runs. None of the three is inductive alone: a marker is written
from a list of topics read a step before, so the invariant also speaks of `seen`.

Which requests share a custom resource is not the code's doing: two owners may have
repositories of one name. So the invariant says of every request only what nobody
else can take from it. `Sole(c)` is a request whose resource no other repository asks
for, `Owned(x)` a repository whose requests are all like that. `Invariance`,
`ResourcesHaveRepositories` and `CollisionsStayLocal` need no assumption, and the last
is the point: statuses and markers are true of whoever does not collide, whatever
those do who collide. `ManagedRepositoriesRun`, `StatusesAreTrue` and
`ImplementsPromise` are the same of everybody, and assume that nobody collides
(`OneRepositoryPerApp`); without it they are false, as said above.

`MarkersDoSettle` assumes that `SetTopics` itself does not fail. `RetriesKeepWork`
is about every behaviour in which no two requests for one repository are in flight
at once (`NoOverlap`, a condition on states, not on who asks for what: any number of
callers may take turns at one repository); `scaffold_overwrite` shows what happens
otherwise. Its invariant is that a request that is going to push has a repository
without a scaffold, although others have pushed before it (`PushesOnlyOnce`).
`NamespaceRaceIsHarmless` needs no assumption. `ImplementsPromise` proves that every
step of `Scaffold` is a step of `Provisioning` or leaves what it sees unchanged.

**PlatformProofs.** `StepMaps`, and from it `KeepsScaffold`: every step of
`Platform` is a step of `Scaffold` or leaves its variables alone, so the invariants of
`Scaffold` hold here too, and its proofs are used and not repeated. `TasksKeepTheirs`
takes the answer's truth from `Inv`; that the task's word stays true while others work
is `StaysDone`. `TasksAreTruthful` is its consequence for everybody, under
`OneRepositoryPerApp`. `TabsFindTheirOwn` is about repositories that are asked for
with any number of resources in turn, which no run does: whoever pushed wrote the
link (`LinkInv`), so it names a resource that somebody asked for, and leads there as
soon as one of those is done, unless another repository asks for the same one. It
assumes nothing of the others. `PeoplesTopicsSurvive` needs no assumption.

**LifecycleProofs.** `Invariance` proves that the books balance (until the exit there
is no code and nothing is cut off, nothing comes in before the listener is up, an error
in the channel was sent by one of the two goroutines) and that where `Start` has not
returned, or has failed, every request is `early`. `ZeroMeansClean` and
`OnlyAfterGrace` follow: an error that the `select` takes is the listener's, or it is
that of `Start`, and then no request is `active`. `AlwaysAWayOut` is about processes
that have to end: a goroutine that runs has a step to take until the exit, and
`StepsLeft` gets smaller with each such step and larger with none. It needs that a
failure of the listener is in the channel once it is sent (`Launched`), so that a
channel filled by the other goroutine holds up nobody.

**RequestRulesProofs.** `ImageRule` is about `validateImage` alone, for images of any
length: the last slash and the last colon behind it are where the declared rule looks
(`LastIndexIsLast` and `AfterIsRest` say what the cuts return).
`NothingForAdmissionToRefuse` follows, with the type invariant. `NobodyIsRefusedTwice`
rests on `RepairIsEnough`, that a correction of some fields brings up no problem in
others although the URL stands in for two of them, on `RepairDecodes`, that it makes no
number too large, and on the invariant `Converging`.
The assumption `GoodAssumption` says that the corrections are good values.
`TheRepositoryMeant` is about `parseRepoURL`: whichever of the `Spellings` an owner and
a name are written in, the cuts find them. `Stripped` and `ReadOff` follow the text
through the cuts, `Recognised` puts them together, and the invariant `ReadOnce` (what
was read is the normal form of the form) carries it to every state. It assumes that
owners and names hold none of the tokens the function cuts at, which GitHub's naming
rules guarantee (`RepositoriesAssumption`), and that fields are text
(`FormsAssumption`).

**TemplateProofs.** `TheRenderingFits`, from the same invariant and `FormIsText`. An
accepted name is letters, digits and dashes, so that `namespace/name` has the slash
where `parseWebAppRef` cuts (`ReadBack`), and the metric prefix is what Prometheus
takes. `AlnumAssumption` says that the slash is neither a letter nor a digit.

**DiscoveryProofs.** `TypeCorrect`, and `GitHubReadOncePerTTL`: whoever is past the
look at the cache holds the mutex, and while it does, a stored result that was found
expired stays expired. `NoRepositorySkipped` is about pages that shift: unless
something is deleted, a repository never moves to an earlier page (`NothingMovesUp`), so
one that was catalogued since the pass began is on a page to come, or to be checked, or
found (`NothingMissed`); `Ranks` and `Paging` say where the pages begin and end.
`EveryPassEnds` bounds the calls that the mutex's holder has left by pages and
repositories (`WorkLeft`), for any finite set of names an account can have.
`OnePassIsEnough` says what one pass over an account at rest does: what it has found and
has yet to check is exact (`QuietPass`), so what it stores is.

**StatusStoreProofs.** `TypeCorrect`, for any number of applications, changes and
restarts. `IncarnationsStayApart`: wherever a Deployment is (in the cluster, in a cache,
on its way), it has run (`AllRecorded`), so that no copy, however old, makes one up, and
`Convert` joins by uid. `ReadyMeansKnown`: readiness waits for both caches (`Gated`), of
an object that has been there since the process started an informer holds and will hold
no other incarnation (`Tracked`), and a request has taken it, or has answered it
(`Covered`). `NothingIsLost` is about
the informers alone: what a cache lacks of the cluster is on its way, and the last event
of an object is its present state (`CaughtUp`). From it, `RestIsEnough`: a service that is
ready, with the watches drained and nothing left for the operator to do, answers what is
there.

**WebAppTabProofs.** `TypeCorrect` and `NoFailureLandsLate`, from the invariant that the
load of the current generation asks for the entity on display. `OnlyTheTruthShows` needs
no `Prompt`: once the loads of other pages and states are gone, and until somebody
navigates, something changes or a request fails, what is put on display is the truth,
however slow the answers and in whatever order. `OneAnswerIsEnough` follows.

Liveness is only model-checked; it is outside the prover's reach, as is ENABLED. What can
be proved of it is proved, and leaves to fairness and to TLC:

| property | proved | left to fairness |
|---|---|---|
| `Ends` | `AlwaysAWayOut`: a bounded way to the exit, never longer | that runnable goroutines run |
| `Answered` | `EveryPassEnds`: a bounded pass, never longer | that calls return, and a waiter is served |
| `CatchesUp` of `Discovery` | `OnePassIsEnough` | that one pass begins and is stored |
| `EventuallyRight` | `RestIsEnough` | that the service gets ready, events are delivered, the operator works |
| `CatchesUp` of `WebAppTab` | `OneAnswerIsEnough` | that one answer is not disowned, which is what `Prompt` is for |
| `EventuallyDone` | nothing | all of it |

Every invariant and action property that a passing run checks is stated by a theorem.
Induction over data is out of reach, too, so nothing is proved of recursive
definitions; there are none in these modules.

## What is not modelled

- The text of the rendered files, beyond the values in `Template`; metrics, logging,
  JSON and YAML encoding. The two gauges of the status API are set from one list, one
  after the other, so that a scrape may see them disagree; nothing relies on it.
- The wiring of Backstage, navigation, home page, templates and catalog: static.
- Scripts under `infra/` and the end-to-end tests: checks of a live system.
- The generated service: text, of which only `make deploy` acts on this system.

## Plan

1. *Composition*: `Platform` with `Discovery`, `StatusStore` and `WebAppTab`, and the
   promise that a service that is done comes to be listed and shown.
2. *Proofs*: the safety half of `EventuallyDone`: that the form can be sent again from
   every state that the service is not done in, and that each failure-free request ends
   nearer to it.
