--------------------------- MODULE ScaffoldProofs ---------------------------
(***************************************************************************)
(* Theorems about Scaffold, for every set of callers, repositories and     *)
(* custom resources, and any number of failures.                           *)
(***************************************************************************)
EXTENDS Scaffold, TLAPS

(* TypeOK in the four parts that the steps change independently.           *)
GithubType ==
  /\ tree \in [Repos -> Trees]
  /\ head \in [Repos -> Nat]
  /\ settling \in [Repos -> BOOLEAN]
  /\ topics \in [Repos -> SUBSET Topics]

ClusterType ==
  /\ ns \subseteq Namespaces
  /\ app \in [Apps -> Repos \cup {NoRepo}]

RequestType ==
  /\ pc \in [Clients -> Steps \cup {"idle"}]
  /\ parent \in [Clients -> Nat]
  /\ tries \in [Clients -> 0 .. Attempts - 1]
  /\ seen \in [Clients -> SUBSET Topics]
  /\ resp \in [Clients -> Statuses \cup {"none", "lost"}]

BoundsType == faults \in 0 .. MaxFaults /\ edits \in 0 .. MaxEdits

(* What a step leaves alone keeps its type.                                *)
LEMMA Untouched ==
  ASSUME TypeOK
  PROVE  /\ GithubType /\ ClusterType /\ RequestType /\ BoundsType
         /\ UNCHANGED github => GithubType'
         /\ UNCHANGED cluster => ClusterType'
         /\ UNCHANGED request => RequestType'
         /\ UNCHANGED bounds => BoundsType'
<1>1. GithubType /\ ClusterType /\ RequestType /\ BoundsType
  BY DEF TypeOK, GithubType, ClusterType, RequestType, BoundsType
<1>2. UNCHANGED github => GithubType'
  BY <1>1 DEF GithubType, github
<1>3. UNCHANGED cluster => ClusterType'
  BY <1>1 DEF ClusterType, cluster
<1>4. UNCHANGED request => RequestType'
  BY <1>1 DEF RequestType, request
<1>5. UNCHANGED bounds => BoundsType'
  BY <1>1 DEF BoundsType, bounds
<1>6. QED
  BY <1>1, <1>2, <1>3, <1>4, <1>5

(* A commit keeps the type of everything GitHub holds.                     *)
LEMMA CommitType ==
  ASSUME TypeOK, NEW x \in Repos, NEW content \in Trees, Commit(x, content)
  PROVE  GithubType'
<1>1. tree' \in [Repos -> Trees]
  BY DEF Commit, TypeOK
<1>2. head' \in [Repos -> Nat]
  BY DEF Commit, TypeOK
<1>3. settling' \in [Repos -> BOOLEAN]
  BY DEF Commit, TypeOK
<1>4. QED
  BY <1>1, <1>2, <1>3 DEF Commit, TypeOK, GithubType

(* A request that goes on to its next call keeps the types.                *)
LEMMA GotoType ==
  ASSUME TypeOK, NEW c \in Clients, NEW step \in Steps, Goto(c, step)
  PROVE  RequestType'
  BY DEF Goto, TypeOK, RequestType

(* A request that is answered keeps the types.                             *)
LEMMA RespondType ==
  ASSUME TypeOK, NEW c \in Clients,
         NEW status \in Statuses \cup {"none", "lost"}, Respond(c, status)
  PROVE  RequestType'
<1> USE ConstantsAssumption
<1>1. 0 \in Nat /\ 0 \in 0 .. Attempts - 1
  OBVIOUS
<1>2. parent' \in [Clients -> Nat] /\ tries' \in [Clients -> 0 .. Attempts - 1]
  BY <1>1 DEF Respond, TypeOK
<1>3. pc' \in [Clients -> Steps \cup {"idle"}]
  BY DEF Respond, TypeOK
<1>4. seen' \in [Clients -> SUBSET Topics]
  BY DEF Respond, TypeOK
<1>5. resp' \in [Clients -> Statuses \cup {"none", "lost"}]
  BY DEF Respond, TypeOK
<1>6. QED
  BY <1>2, <1>3, <1>4, <1>5 DEF RequestType

(* So does one whose call failed, wherever that leads.                     *)
LEMMA FailType ==
  ASSUME TypeOK, NEW c \in Clients, Fail(c)
  PROVE  RequestType'
<1>1. "listIncomplete" \in Steps
  BY DEF Steps, IncompleteSteps
<1>2. {"201", "207", "502"} \subseteq Statuses
  BY DEF Statuses
<1>3. \/ Goto(c, "listIncomplete")
      \/ Respond(c, "201") \/ Respond(c, "207") \/ Respond(c, "502")
  BY DEF Fail
<1>4. QED
  BY <1>1, <1>2, <1>3, GotoType, RespondType

(* A push that starts over keeps the types.                                *)
LEMMA NotSettledType ==
  ASSUME TypeOK, NEW c \in Clients, NotSettled(c)
  PROVE  RequestType'
<1> USE ConstantsAssumption
<1>1. CASE Fail(c)
  BY <1>1, FailType
<1>2. CASE /\ tries[c] + 1 < Attempts
           /\ pc' = [pc EXCEPT ![c] = "getRef"]
           /\ tries' = [tries EXCEPT ![c] = @ + 1]
           /\ UNCHANGED <<parent, seen, resp>>
  <2>1. "getRef" \in Steps
    BY DEF Steps, RepoSteps
  <2>2. tries[c] + 1 \in 0 .. Attempts - 1
    BY <1>2 DEF TypeOK
  <2>3. tries' \in [Clients -> 0 .. Attempts - 1]
    BY <1>2, <2>2 DEF TypeOK
  <2>4. QED
    BY <1>2, <2>1, <2>3 DEF TypeOK, RequestType
<1>3. QED
  BY <1>1, <1>2 DEF NotSettled

(* A failed call uses up one of the failures that are allowed.             *)
LEMMA FaultType ==
  ASSUME TypeOK, faults < MaxFaults, faults' = faults + 1
  PROVE  faults' \in 0 .. MaxFaults
  BY ConstantsAssumption DEF TypeOK

(* A call with an effect keeps the types, answered or not.                 *)
LEMMA AnsweredType ==
  ASSUME TypeOK, NEW c \in Clients, NEW step \in Steps,
         Answered(c, Goto(c, step)), UNCHANGED edits
  PROVE  RequestType' /\ BoundsType'
<1>1. CASE Goto(c, step) /\ UNCHANGED faults
  BY <1>1, GotoType, Untouched DEF bounds
<1>2. CASE Fault(c) /\ Fail(c)
  <2>1. faults' \in 0 .. MaxFaults
    BY <1>2, FaultType DEF Fault
  <2>2. QED
    BY <1>2, <2>1, FailType DEF TypeOK, BoundsType
<1>3. QED
  BY <1>1, <1>2 DEF Answered

(* The initial states have their types.                                    *)
LEMMA InitType == Init => TypeOK
<1> USE ConstantsAssumption
<1> SUFFICES ASSUME Init PROVE TypeOK
  OBVIOUS
<1>1. tree \in [Repos -> Trees] /\ head \in [Repos -> Nat]
  BY DEF Init, Trees
<1>2. tries \in [Clients -> 0 .. Attempts - 1]
  BY DEF Init
<1>3. QED
  BY <1>1, <1>2 DEF Init, TypeOK

(* Every step keeps the types.                                             *)
LEMMA NextType == TypeOK /\ [Next]_vars => TypeOK'
<1> SUFFICES ASSUME TypeOK, [Next]_vars
             PROVE  GithubType' /\ ClusterType' /\ RequestType' /\ BoundsType'
  BY DEF TypeOK, GithubType, ClusterType, RequestType, BoundsType
<1> DEFINE Typed == GithubType' /\ ClusterType' /\ RequestType' /\ BoundsType'
<1>0. /\ {"createRepo", "hasScaffoldedContent", "isEmpty", "bootstrap",
          "getRef", "createCommit", "updateRef", "getNamespace",
          "createNamespace", "apply", "listManaged", "ensureRepo",
          "setManaged", "setIncomplete"} \subseteq Steps
      /\ {"201", "207", "400", "lost"} \subseteq Statuses \cup {"none", "lost"}
      /\ {"readme", "foreign", "marked", "scaffold", "edited"} \subseteq Trees
  BY DEF Steps, RepoSteps, ClusterSteps, ManagedSteps, IncompleteSteps,
         Statuses, Trees
<1>1. ASSUME NEW c \in Clients, EnsureRepo(c) PROVE Typed
  BY <1>0, <1>1, Untouched, GotoType DEF EnsureRepo
<1>2. ASSUME NEW c \in Clients, CreateRepo(c) PROVE Typed
  <2> DEFINE x == CreatedAs[RepoOf[c]]
  <2>1. x \in Repos /\ UNCHANGED cluster /\ UNCHANGED edits
    BY <1>2, ConstantsAssumption DEF CreateRepo
  <2>2. CASE /\ Commit(x, "readme")
             /\ Answered(c, Goto(c, "hasScaffoldedContent"))
    BY <1>0, <2>1, <2>2, Untouched, CommitType, AnsweredType
  <2>3. CASE Fail(c) /\ UNCHANGED <<github, faults>>
    BY <2>1, <2>3, Untouched, FailType DEF bounds
  <2>4. QED
    BY <1>2, <2>2, <2>3 DEF CreateRepo
<1>3. ASSUME NEW c \in Clients, HasScaffoldedContent(c) PROVE Typed
  BY <1>0, <1>3, Untouched, GotoType DEF HasScaffoldedContent
<1>4. ASSUME NEW c \in Clients, IsEmpty(c) PROVE Typed
  BY <1>0, <1>4, Untouched, GotoType DEF IsEmpty
<1>5. ASSUME NEW c \in Clients, Bootstrap(c) PROVE Typed
  <2> DEFINE x == RepoOf[c]
  <2>1. x \in Repos /\ UNCHANGED cluster /\ UNCHANGED edits
    BY <1>5, ConstantsAssumption DEF Bootstrap
  <2>2. ASSUME NEW content \in Trees, Commit(x, content),
               Answered(c, Goto(c, "getRef"))
        PROVE  Typed
    BY <1>0, <2>1, <2>2, Untouched, CommitType, AnsweredType
  <2>3. CASE Fail(c) /\ UNCHANGED <<github, faults>>
    BY <2>1, <2>3, Untouched, FailType DEF bounds
  <2>4. tree[x] \in Trees
    BY <2>1 DEF TypeOK
  <2>5. QED
    BY <1>0, <1>5, <2>2, <2>3, <2>4 DEF Bootstrap
<1>6. ASSUME NEW c \in Clients, GetRef(c) PROVE Typed
  <2>1. GithubType' /\ ClusterType' /\ BoundsType'
    BY <1>6, Untouched DEF GetRef
  <2>2. CASE NotSettled(c)
    BY <2>1, <2>2, NotSettledType
  <2>3. CASE /\ pc' = [pc EXCEPT ![c] = "createCommit"]
             /\ parent' = [parent EXCEPT ![c] = head[RepoOf[c]]]
             /\ UNCHANGED <<tries, seen, resp>>
    <3>1. head[RepoOf[c]] \in Nat
      BY ConstantsAssumption DEF TypeOK
    <3>2. RequestType'
      BY <1>0, <2>3, <3>1 DEF TypeOK, RequestType
    <3>3. QED
      BY <2>1, <3>2
  <2>4. QED
    BY <1>6, <2>2, <2>3 DEF GetRef
<1>7. ASSUME NEW c \in Clients, CreateCommit(c) PROVE Typed
  <2>1. GithubType' /\ ClusterType' /\ BoundsType'
    BY <1>7, Untouched DEF CreateCommit
  <2>2. RequestType'
    BY <1>0, <1>7, GotoType, NotSettledType, FailType DEF CreateCommit
  <2>3. QED
    BY <2>1, <2>2
<1>8. ASSUME NEW c \in Clients, UpdateRef(c) PROVE Typed
  <2> DEFINE x == RepoOf[c]
  <2>1. x \in Repos /\ UNCHANGED cluster /\ UNCHANGED edits
    BY <1>8, ConstantsAssumption DEF UpdateRef
  <2>2. CASE Commit(x, "scaffold") /\ Answered(c, Goto(c, "getNamespace"))
    BY <1>0, <2>1, <2>2, Untouched, CommitType, AnsweredType
  <2>3. CASE (Fail(c) \/ NotSettled(c)) /\ UNCHANGED <<github, faults>>
    BY <2>1, <2>3, Untouched, FailType, NotSettledType DEF bounds
  <2>4. QED
    BY <1>8, <2>2, <2>3 DEF UpdateRef
<1>9. ASSUME NEW c \in Clients, GetNamespace(c) PROVE Typed
  BY <1>0, <1>9, Untouched, GotoType DEF GetNamespace
<1>10. ASSUME NEW c \in Clients, CreateNamespace(c) PROVE Typed
  <2>1. GithubType'
    BY <1>10, Untouched DEF CreateNamespace
  <2>2. ClusterType'
    BY <1>10, ConstantsAssumption DEF CreateNamespace, TypeOK, ClusterType
  <2>3. RequestType' /\ BoundsType'
    BY <1>0, <1>10, AnsweredType DEF CreateNamespace
  <2>4. QED
    BY <2>1, <2>2, <2>3
<1>11. ASSUME NEW c \in Clients, Apply(c) PROVE Typed
  <2>1. GithubType'
    BY <1>11, Untouched DEF Apply
  <2>2. ClusterType'
    BY <1>11, ConstantsAssumption DEF Apply, TypeOK, ClusterType
  <2>3. RequestType' /\ BoundsType'
    BY <1>0, <1>11, AnsweredType DEF Apply
  <2>4. QED
    BY <2>1, <2>2, <2>3
<1>12. ASSUME NEW c \in Clients, ListManaged(c) \/ ListIncomplete(c)
       PROVE  Typed
  <2>1. PICK step \in Steps : ListTopics(c, step)
    BY <1>0, <1>12 DEF ListManaged, ListIncomplete
  <2>2. GithubType' /\ ClusterType' /\ BoundsType'
    BY <2>1, Untouched DEF ListTopics
  <2>3. topics[RepoOf[c]] \in SUBSET Topics
    BY ConstantsAssumption DEF TypeOK
  <2>4. RequestType'
    BY <2>1, <2>3 DEF ListTopics, TypeOK, RequestType
  <2>5. QED
    BY <2>2, <2>4
<1>13. ASSUME NEW c \in Clients, SetManaged(c) \/ SetIncomplete(c)
       PROVE  Typed
  <2>1. PICK add \in Topics, remove \in Topics : ReplaceTopics(c, add, remove)
    BY <1>13 DEF SetManaged, SetIncomplete, Topics, Markers
  <2>2. ClusterType' /\ BoundsType'
    BY <2>1, Untouched DEF ReplaceTopics
  <2>3. (seen[c] \ {remove}) \cup {add} \in SUBSET Topics
    BY <2>1 DEF TypeOK
  <2>4. GithubType'
    BY <2>1, <2>3 DEF ReplaceTopics, TypeOK, GithubType
  <2>5. RequestType'
    BY <1>0, <1>13, RespondType DEF SetManaged, SetIncomplete
  <2>6. QED
    BY <2>2, <2>4, <2>5
<1>14. ASSUME NEW c \in Clients, Send(c) PROVE Typed
  <2>1. GithubType' /\ ClusterType' /\ BoundsType'
    BY <1>14, Untouched DEF Send
  <2>2. CASE Respond(c, "400")
    BY <1>0, <2>1, <2>2, RespondType
  <2>3. CASE /\ pc' = [pc EXCEPT ![c] = "ensureRepo"]
             /\ resp' = [resp EXCEPT ![c] = "none"]
             /\ UNCHANGED <<parent, tries, seen>>
    <3>1. RequestType'
      BY <1>0, <2>3 DEF TypeOK, RequestType
    <3>2. QED
      BY <2>1, <3>1
  <2>4. QED
    BY <1>14, <2>2, <2>3 DEF Send
<1>15. ASSUME NEW c \in Clients, CallFails(c) PROVE Typed
  <2>1. faults' \in 0 .. MaxFaults
    BY <1>15, FaultType DEF CallFails, Fault
  <2>2. BoundsType'
    BY <1>15, <2>1 DEF CallFails, TypeOK, BoundsType
  <2>3. QED
    BY <1>15, <2>2, Untouched, FailType DEF CallFails
<1>16. ASSUME NEW c \in Clients, Disconnect(c) PROVE Typed
  <2>1. faults' \in 0 .. MaxFaults
    BY <1>16, FaultType DEF Disconnect
  <2>2. BoundsType'
    BY <1>16, <2>1 DEF Disconnect, TypeOK, BoundsType
  <2>3. QED
    BY <1>0, <1>16, <2>2, Untouched, RespondType DEF Disconnect
<1>17. CASE Crash
  <2>1. faults' \in 0 .. MaxFaults
    BY <1>17, FaultType DEF Crash
  <2>2. BoundsType'
    BY <1>17, <2>1 DEF Crash, TypeOK, BoundsType
  <2>3. 0 \in Nat /\ 0 \in 0 .. Attempts - 1
    BY ConstantsAssumption
  <2>4. RequestType'
    BY <1>0, <1>17, <2>3 DEF Crash, TypeOK, RequestType
  <2>5. QED
    BY <1>17, <2>2, <2>4, Untouched DEF Crash
<1>18. ASSUME NEW x \in Repos, Settle(x) PROVE Typed
  <2>1. GithubType'
    BY <1>18 DEF Settle, TypeOK, GithubType
  <2>2. QED
    BY <1>18, <2>1, Untouched DEF Settle
<1>19. ASSUME NEW x \in Repos, UserCommit(x) PROVE Typed
  <2>1. GithubType'
    BY <1>0, <1>19, CommitType DEF UserCommit
  <2>2. BoundsType'
    BY <1>19, ConstantsAssumption DEF UserCommit, TypeOK, BoundsType
  <2>3. QED
    BY <1>19, <2>1, <2>2, Untouched DEF UserCommit
<1>20. ASSUME NEW x \in Repos, UserTopic(x) PROVE Typed
  <2>1. PICK t \in OtherTopics : topics' = [topics EXCEPT ![x] = @ \cup {t}]
    BY <1>20 DEF UserTopic
  <2>2. GithubType'
    BY <1>20, <2>1 DEF UserTopic, TypeOK, GithubType, Topics
  <2>3. BoundsType'
    BY <1>20, ConstantsAssumption DEF UserTopic, TypeOK, BoundsType
  <2>4. QED
    BY <1>20, <2>2, <2>3, Untouched DEF UserTopic
<1>21. CASE UNCHANGED vars
  BY <1>21, Untouched DEF vars
<1>22. QED
  BY <1>1, <1>2, <1>3, <1>4, <1>5, <1>6, <1>7, <1>8, <1>9, <1>10, <1>11,
     <1>12, <1>13, <1>14, <1>15, <1>16, <1>17, <1>18, <1>19, <1>20, <1>21
  DEF Next, Handle

(* Every variable of the scaffolder has its type, in every behaviour.      *)
THEOREM TypeCorrect == Spec => []TypeOK
  BY InitType, NextType, PTL DEF Spec

-----------------------------------------------------------------------------
(* The inductive invariant behind the safety properties. *)

(* No request for the custom resource of c names another repository than c *)
(* does; what c is told is c's alone.                                      *)
Sole(c) == \A d \in Clients : AppOf[d] = AppOf[c] => RepoOf[d] = RepoOf[c]

(* That is so of every request for repository x.                           *)
Owned(x) == \A c \in Clients : RepoOf[c] = x => Sole(c)

(* A request is past EnsureRepository only with the content in place.      *)
PushedBeforeApply ==
  \A c \in Clients :
    pc[c] \in ClusterSteps \cup ManagedSteps \cup IncompleteSteps
      => Scaffolded(RepoOf[c])

(* A request sets the managed marker only with its resource applied.       *)
AppliedBeforeMark ==
  \A c \in Clients :
    Sole(c) /\ pc[c] \in ManagedSteps => app[AppOf[c]] = RepoOf[c]

(* A request that listed the managed marker, and may write it back, did so *)
(* when the resource was running already.                                  *)
SeenRunning ==
  \A c \in Clients :
    Owned(RepoOf[c]) /\ TopicManaged \in seen[c] => Running(RepoOf[c])

(* A repository with the managed marker runs, when its resource is its own.*)
MarkedRuns ==
  \A x \in Repos : Owned(x) /\ TopicManaged \in topics[x] => Running(x)

(* A status says what was done, and of the resource as long as nobody else *)
(* is entitled to take it.                                                 *)
AnswersTrue ==
  \A c \in Clients :
    /\ resp[c] \in {"201", "207"} => Scaffolded(RepoOf[c])
    /\ Sole(c) /\ resp[c] = "201" => app[AppOf[c]] = RepoOf[c]

Inv ==
  /\ TypeOK
  /\ PushedBeforeApply
  /\ AppliedBeforeMark
  /\ AppHasRepository
  /\ SeenRunning
  /\ MarkedRuns
  /\ AnswersTrue

(* What has been done stays done: no step takes the content out of a       *)
(* repository, or a custom resource away from the only repository that     *)
(* requests for it name.                                                   *)
LEMMA StaysDone ==
  ASSUME TypeOK, [Next]_vars
  PROVE  /\ \A x \in Repos : Scaffolded(x) => Scaffolded(x)'
         /\ \A c \in Clients : Sole(c) /\ app[AppOf[c]] = RepoOf[c]
                              => app'[AppOf[c]] = RepoOf[c]
         /\ \A x \in Repos : Owned(x) /\ Running(x) => Running(x)'
<1> USE ConstantsAssumption
<1> DEFINE Kept == /\ \A x \in Repos : Scaffolded(x) => Scaffolded(x)'
                   /\ \A c \in Clients : Sole(c) /\ app[AppOf[c]] = RepoOf[c]
                                        => app'[AppOf[c]] = RepoOf[c]
<1>1. Kept
  <2> USE DEF TypeOK, Scaffolded, Marked, Commit, github, cluster
  <2>1. ASSUME NEW c \in Clients, EnsureRepo(c) PROVE Kept
    BY <2>1 DEF EnsureRepo
  <2>2. ASSUME NEW c \in Clients, CreateRepo(c) PROVE Kept
    BY <2>2 DEF CreateRepo
  <2>3. ASSUME NEW c \in Clients, HasScaffoldedContent(c) PROVE Kept
    BY <2>3 DEF HasScaffoldedContent
  <2>4. ASSUME NEW c \in Clients, IsEmpty(c) PROVE Kept
    BY <2>4 DEF IsEmpty
  <2>5. ASSUME NEW c \in Clients, Bootstrap(c) PROVE Kept
    BY <2>5 DEF Bootstrap
  <2>6. ASSUME NEW c \in Clients, GetRef(c) PROVE Kept
    BY <2>6 DEF GetRef, NotSettled
  <2>7. ASSUME NEW c \in Clients, CreateCommit(c) PROVE Kept
    BY <2>7 DEF CreateCommit, NotSettled
  <2>8. ASSUME NEW c \in Clients, UpdateRef(c) PROVE Kept
    BY <2>8 DEF UpdateRef, NotSettled
  <2>9. ASSUME NEW c \in Clients, GetNamespace(c) PROVE Kept
    BY <2>9 DEF GetNamespace
  <2>10. ASSUME NEW c \in Clients, CreateNamespace(c) PROVE Kept
    BY <2>10 DEF CreateNamespace
  <2>11. ASSUME NEW c \in Clients, Apply(c) PROVE Kept
    BY <2>11 DEF Apply, Sole
  <2>12. ASSUME NEW c \in Clients, ListManaged(c) \/ ListIncomplete(c)
         PROVE Kept
    BY <2>12 DEF ListManaged, ListIncomplete, ListTopics
  <2>13. ASSUME NEW c \in Clients, SetManaged(c) \/ SetIncomplete(c)
         PROVE Kept
    BY <2>13 DEF SetManaged, SetIncomplete, ReplaceTopics
  <2>14. ASSUME NEW c \in Clients, Send(c) PROVE Kept
    BY <2>14 DEF Send
  <2>15. ASSUME NEW c \in Clients, CallFails(c) PROVE Kept
    BY <2>15 DEF CallFails
  <2>16. ASSUME NEW c \in Clients, Disconnect(c) PROVE Kept
    BY <2>16 DEF Disconnect
  <2>17. CASE Crash
    BY <2>17 DEF Crash
  <2>18. ASSUME NEW x \in Repos, Settle(x) PROVE Kept
    BY <2>18 DEF Settle
  <2>19. ASSUME NEW x \in Repos, UserCommit(x) PROVE Kept
    BY <2>19 DEF UserCommit
  <2>20. ASSUME NEW x \in Repos, UserTopic(x) PROVE Kept
    BY <2>20 DEF UserTopic
  <2>21. CASE UNCHANGED vars
    BY <2>21 DEF vars
  <2>22. QED
    BY <2>1, <2>2, <2>3, <2>4, <2>5, <2>6, <2>7, <2>8, <2>9, <2>10, <2>11,
       <2>12, <2>13, <2>14, <2>15, <2>16, <2>17, <2>18, <2>19, <2>20, <2>21
    DEF Next, Handle
<1>2. QED
  BY <1>1 DEF Running, Owned

(* The invariant holds initially and every step keeps it.                  *)
THEOREM Invariance == Spec => []Inv
<1> USE ConstantsAssumption
<1>1. Init => Inv
  <2> SUFFICES ASSUME Init PROVE Inv
    OBVIOUS
  <2>1. TypeOK
    BY InitType
  <2>2. QED
    BY <2>1 DEF Init, Inv, PushedBeforeApply, AppliedBeforeMark,
      AppHasRepository, SeenRunning, MarkedRuns, AnswersTrue,
      ClusterSteps, ManagedSteps, IncompleteSteps
<1>2. Inv /\ [Next]_vars => Inv'
  <2> SUFFICES ASSUME Inv, [Next]_vars PROVE Inv'
    OBVIOUS
  <2> DEFINE Rest == /\ PushedBeforeApply
                     /\ AppliedBeforeMark
                     /\ AppHasRepository
                     /\ SeenRunning
                     /\ MarkedRuns
                     /\ AnswersTrue
  <2>a. TypeOK /\ TypeOK'
    BY NextType DEF Inv
  <2>b. /\ \A x \in Repos : Scaffolded(x) => Scaffolded(x)'
        /\ \A c \in Clients : Sole(c) /\ app[AppOf[c]] = RepoOf[c]
                             => app'[AppOf[c]] = RepoOf[c]
        /\ \A x \in Repos : Owned(x) /\ Running(x) => Running(x)'
    BY <2>a, StaysDone
  <2> USE DEF Inv, PushedBeforeApply, AppliedBeforeMark, AppHasRepository,
              SeenRunning, MarkedRuns, AnswersTrue, TypeOK,
              RepoSteps, ClusterSteps, ManagedSteps, IncompleteSteps,
              TopicManaged, TopicIncomplete,
              Goto, Respond, Fail, Fault, Answered, Commit,
              github, cluster, request, bounds
  <2>1. ASSUME NEW c \in Clients, EnsureRepo(c) PROVE Rest'
    BY <2>1, <2>a, <2>b DEF EnsureRepo
  <2>2. ASSUME NEW c \in Clients, CreateRepo(c) PROVE Rest'
    <3>1. UNCHANGED <<topics, app>>
      BY <2>2 DEF CreateRepo
    <3>2. CASE Goto(c, "hasScaffoldedContent")
      BY <2>2, <3>1, <3>2, <2>a, <2>b
    <3>3. CASE Fail(c)
      BY <2>2, <3>1, <3>3, <2>a, <2>b DEF CreateRepo
    <3>4. QED
      BY <2>2, <3>2, <3>3 DEF CreateRepo
  <2>3. ASSUME NEW c \in Clients, HasScaffoldedContent(c) PROVE Rest'
    BY <2>3, <2>a, <2>b DEF HasScaffoldedContent
  <2>4. ASSUME NEW c \in Clients, IsEmpty(c) PROVE Rest'
    BY <2>4, <2>a, <2>b DEF IsEmpty
  <2>5. ASSUME NEW c \in Clients, Bootstrap(c) PROVE Rest'
    BY <2>5, <2>a, <2>b DEF Bootstrap
  <2>6. ASSUME NEW c \in Clients, GetRef(c) PROVE Rest'
    <3>1. CASE pc' = [pc EXCEPT ![c] = "createCommit"] /\ UNCHANGED <<seen, resp>>
      BY <2>6, <3>1, <2>a, <2>b DEF GetRef
    <3>2. CASE pc' = [pc EXCEPT ![c] = "getRef"] /\ UNCHANGED <<seen, resp>>
      BY <2>6, <3>2, <2>a, <2>b DEF GetRef
    <3>3. CASE Respond(c, "502")
      BY <2>6, <3>3, <2>a, <2>b DEF GetRef
    <3>4. QED
      BY <2>6, <3>1, <3>2, <3>3 DEF GetRef, NotSettled
  <2>7. ASSUME NEW c \in Clients, CreateCommit(c) PROVE Rest'
    BY <2>7, <2>a, <2>b DEF CreateCommit, NotSettled
  <2>8. ASSUME NEW c \in Clients, UpdateRef(c) PROVE Rest'
    BY <2>8, <2>a, <2>b DEF UpdateRef, NotSettled, Scaffolded, Marked
  <2>9. ASSUME NEW c \in Clients, GetNamespace(c) PROVE Rest'
    BY <2>9, <2>a, <2>b DEF GetNamespace
  <2>10. ASSUME NEW c \in Clients, CreateNamespace(c) PROVE Rest'
    BY <2>10, <2>a, <2>b DEF CreateNamespace
  <2>11. ASSUME NEW c \in Clients, Apply(c) PROVE Rest'
    BY <2>11, <2>a, <2>b DEF Apply
  <2>12. ASSUME NEW c \in Clients, ListManaged(c) \/ ListIncomplete(c)
         PROVE Rest'
    BY <2>12, <2>a, <2>b DEF ListManaged, ListIncomplete, ListTopics
  <2>13. ASSUME NEW c \in Clients, SetManaged(c) \/ SetIncomplete(c)
         PROVE Rest'
    <3>1. \A x \in Repos : Owned(x) /\ TopicManaged \in topics'[x] => Running(x)'
      <4>1. CASE SetManaged(c)
        <5>1. Owned(RepoOf[c]) => Running(RepoOf[c])
          BY <4>1 DEF SetManaged, Running, Owned
        <5>2. QED
          BY <4>1, <5>1, <2>b DEF SetManaged, ReplaceTopics
      <4>2. CASE SetIncomplete(c)
        BY <4>2, <2>b DEF SetIncomplete, ReplaceTopics
      <4>3. QED
        BY <2>13, <4>1, <4>2
    <3>2. QED
      BY <2>13, <3>1, <2>a, <2>b DEF SetManaged, SetIncomplete, ReplaceTopics
  <2>14. ASSUME NEW c \in Clients, Send(c) PROVE Rest'
    BY <2>14, <2>a, <2>b DEF Send
  <2>15. ASSUME NEW c \in Clients, CallFails(c) PROVE Rest'
    BY <2>15, <2>a, <2>b DEF CallFails
  <2>16. ASSUME NEW c \in Clients, Disconnect(c) PROVE Rest'
    BY <2>16, <2>a, <2>b DEF Disconnect
  <2>17. CASE Crash
    BY <2>17, <2>a, <2>b DEF Crash
  <2>18. ASSUME NEW x \in Repos, Settle(x) PROVE Rest'
    BY <2>18, <2>a, <2>b DEF Settle
  <2>19. ASSUME NEW x \in Repos, UserCommit(x) PROVE Rest'
    BY <2>19, <2>a, <2>b DEF UserCommit
  <2>20. ASSUME NEW x \in Repos, UserTopic(x) PROVE Rest'
    BY <2>20, <2>a, <2>b DEF UserTopic, Markers
  <2>21. CASE UNCHANGED vars
    BY <2>21, <2>a, <2>b DEF vars
  <2>22. Rest'
    BY <2>1, <2>2, <2>3, <2>4, <2>5, <2>6, <2>7, <2>8, <2>9, <2>10, <2>11,
       <2>12, <2>13, <2>14, <2>15, <2>16, <2>17, <2>18, <2>19, <2>20, <2>21
    DEF Next, Handle
  <2>23. QED
    BY <2>a, <2>22
<1>3. QED
  BY <1>1, <1>2, PTL DEF Spec

(* No custom resource without a repository that holds its content,         *)
(* whatever fails, in whichever order requests interleave, and whoever     *)
(* takes the resource over.                                                *)
THEOREM ResourcesHaveRepositories == Spec => []AppHasRepository
<1>1. Inv => AppHasRepository
  BY DEF Inv
<1>2. QED
  BY <1>1, Invariance, PTL

(* Requests that collide on a custom resource harm nobody else: a 201 for  *)
(* a resource that no other repository asks for is true and stays true,    *)
(* and so does the managed marker of such a repository, whatever the       *)
(* requests for other resources do to each other.                          *)
THEOREM CollisionsStayLocal == Spec => [](MarkedRuns /\ AnswersTrue)
<1>1. Inv => MarkedRuns /\ AnswersTrue
  BY DEF Inv
<1>2. QED
  BY <1>1, Invariance, PTL

(* Without such collisions everybody is alone.                             *)
LEMMA NobodyCollides ==
  ASSUME OneRepositoryPerApp
  PROVE  (\A c \in Clients : Sole(c)) /\ (\A x \in Repos : Owned(x))
  BY DEF OneRepositoryPerApp, Sole, Owned

(* No managed marker without its custom resource.                          *)
THEOREM ManagedRepositoriesRun ==
  ASSUME OneRepositoryPerApp
  PROVE  Spec => []ManagedMeansRunning
<1>1. Inv => ManagedMeansRunning
  BY NobodyCollides DEF Inv, MarkedRuns, ManagedMeansRunning
<1>2. QED
  BY <1>1, Invariance, PTL

(* A status code never claims more than was done.                          *)
THEOREM StatusesAreTrue ==
  ASSUME OneRepositoryPerApp
  PROVE  Spec => []ResponseTruthful
<1>1. Inv => ResponseTruthful
  BY NobodyCollides DEF Inv, AnswersTrue, ResponseTruthful
<1>2. QED
  BY <1>1, Invariance, PTL

-----------------------------------------------------------------------------
(* The markers, when SetTopics does not fail. *)

(* Once every request for a repository has been answered 201 its marker    *)
(* says managed, provided that the calls which set it do not fail.         *)
THEOREM MarkersDoSettle ==
  ASSUME FaultySteps \cap ManagedSteps = {}
  PROVE  Spec => []MarkersSettle
<1> USE ConstantsAssumption
<1> DEFINE Settled(x) == (\A c \in Clients : RepoOf[c] = x => resp[c] = "201")
                           => topics[x] \cap Markers = {TopicManaged}
           Asked(x) == \E c \in Clients : RepoOf[c] = x
           S == \A x \in Repos : Asked(x) => Settled(x)
<1>1. Init => S
  BY DEF Init
<1>2. TypeOK /\ S /\ [Next]_vars => S'
  <2> SUFFICES ASSUME TypeOK, S, [Next]_vars PROVE S'
    OBVIOUS
  <2> USE DEF TypeOK, RepoSteps, ClusterSteps, ManagedSteps, IncompleteSteps,
              Markers, TopicManaged, TopicIncomplete,
              Goto, Respond, Fail, Fault, Answered, Commit,
              github, cluster, request, bounds
  <2>1. ASSUME NEW c \in Clients, EnsureRepo(c) PROVE S'
    BY <2>1 DEF EnsureRepo
  <2>2. ASSUME NEW c \in Clients, CreateRepo(c) PROVE S'
    BY <2>2 DEF CreateRepo
  <2>3. ASSUME NEW c \in Clients, HasScaffoldedContent(c) PROVE S'
    BY <2>3 DEF HasScaffoldedContent
  <2>4. ASSUME NEW c \in Clients, IsEmpty(c) PROVE S'
    BY <2>4 DEF IsEmpty
  <2>5. ASSUME NEW c \in Clients, Bootstrap(c) PROVE S'
    BY <2>5 DEF Bootstrap
  <2>6. ASSUME NEW c \in Clients, GetRef(c) PROVE S'
    BY <2>6 DEF GetRef, NotSettled
  <2>7. ASSUME NEW c \in Clients, CreateCommit(c) PROVE S'
    BY <2>7 DEF CreateCommit, NotSettled
  <2>8. ASSUME NEW c \in Clients, UpdateRef(c) PROVE S'
    <3>1. UNCHANGED topics
      BY <2>8 DEF UpdateRef
    <3>2. resp' = [resp EXCEPT ![c] = "502"] \/ UNCHANGED resp
      BY <2>8 DEF UpdateRef, NotSettled
    <3>3. QED
      BY <3>1, <3>2
  <2>9. ASSUME NEW c \in Clients, GetNamespace(c) PROVE S'
    BY <2>9 DEF GetNamespace
  <2>10. ASSUME NEW c \in Clients, CreateNamespace(c) PROVE S'
    BY <2>10 DEF CreateNamespace
  <2>11. ASSUME NEW c \in Clients, Apply(c) PROVE S'
    BY <2>11 DEF Apply
  <2>12. ASSUME NEW c \in Clients, ListManaged(c) \/ ListIncomplete(c)
         PROVE S'
    BY <2>12 DEF ListManaged, ListIncomplete, ListTopics
  <2>13. ASSUME NEW c \in Clients, SetManaged(c) \/ SetIncomplete(c)
         PROVE S'
    BY <2>13 DEF SetManaged, SetIncomplete, ReplaceTopics
  <2>14. ASSUME NEW c \in Clients, Send(c) PROVE S'
    BY <2>14 DEF Send
  <2>15. ASSUME NEW c \in Clients, CallFails(c) PROVE S'
    BY <2>15 DEF CallFails
  <2>16. ASSUME NEW c \in Clients, Disconnect(c) PROVE S'
    BY <2>16 DEF Disconnect
  <2>17. CASE Crash
    BY <2>17 DEF Crash
  <2>18. ASSUME NEW x \in Repos, Settle(x) PROVE S'
    BY <2>18 DEF Settle
  <2>19. ASSUME NEW x \in Repos, UserCommit(x) PROVE S'
    BY <2>19 DEF UserCommit
  <2>20. ASSUME NEW x \in Repos, UserTopic(x) PROVE S'
    BY <2>20 DEF UserTopic
  <2>21. CASE UNCHANGED vars
    BY <2>21 DEF vars
  <2>22. QED
    BY <2>1, <2>2, <2>3, <2>4, <2>5, <2>6, <2>7, <2>8, <2>9, <2>10, <2>11,
       <2>12, <2>13, <2>14, <2>15, <2>16, <2>17, <2>18, <2>19, <2>20, <2>21
    DEF Next, Handle
<1>3. S => MarkersSettle
  BY DEF MarkersSettle
<1>4. QED
  BY <1>1, <1>2, <1>3, TypeCorrect, PTL DEF Spec

-----------------------------------------------------------------------------
(* The race for a namespace. *)

(* Without a failed call no request is told that it is half done, however  *)
(* many of them create the namespace at the same time.                     *)
THEOREM NamespaceRaceIsHarmless == Spec => []RaceIsNotAFailure
<1> USE ConstantsAssumption
<1> DEFINE Unharmed ==
      faults = 0 =>
        \A c \in Clients : pc[c] \notin IncompleteSteps /\ resp[c] # "207"
<1>1. Init => Unharmed
  BY DEF Init, IncompleteSteps
<1>2. TypeOK /\ Unharmed /\ [Next]_vars => Unharmed'
  <2> SUFFICES ASSUME TypeOK, Unharmed, [Next]_vars PROVE Unharmed'
    OBVIOUS
  <2> USE DEF TypeOK, RepoSteps, ClusterSteps, ManagedSteps, IncompleteSteps,
              Goto, Respond, Fail, Fault, Answered, Commit,
              github, cluster, request, bounds
  <2>1. ASSUME NEW c \in Clients, EnsureRepo(c) PROVE Unharmed'
    BY <2>1 DEF EnsureRepo
  <2>2. ASSUME NEW c \in Clients, CreateRepo(c) PROVE Unharmed'
    BY <2>2 DEF CreateRepo
  <2>3. ASSUME NEW c \in Clients, HasScaffoldedContent(c) PROVE Unharmed'
    BY <2>3 DEF HasScaffoldedContent
  <2>4. ASSUME NEW c \in Clients, IsEmpty(c) PROVE Unharmed'
    BY <2>4 DEF IsEmpty
  <2>5. ASSUME NEW c \in Clients, Bootstrap(c) PROVE Unharmed'
    BY <2>5 DEF Bootstrap
  <2>6. ASSUME NEW c \in Clients, GetRef(c) PROVE Unharmed'
    BY <2>6 DEF GetRef, NotSettled
  <2>7. ASSUME NEW c \in Clients, CreateCommit(c) PROVE Unharmed'
    BY <2>7 DEF CreateCommit, NotSettled
  <2>8. ASSUME NEW c \in Clients, UpdateRef(c) PROVE Unharmed'
    BY <2>8 DEF UpdateRef, NotSettled
  <2>9. ASSUME NEW c \in Clients, GetNamespace(c) PROVE Unharmed'
    BY <2>9 DEF GetNamespace
  <2>10. ASSUME NEW c \in Clients, CreateNamespace(c) PROVE Unharmed'
    BY <2>10 DEF CreateNamespace
  <2>11. ASSUME NEW c \in Clients, Apply(c) PROVE Unharmed'
    BY <2>11 DEF Apply
  <2>12. ASSUME NEW c \in Clients, ListManaged(c) \/ ListIncomplete(c)
         PROVE Unharmed'
    BY <2>12 DEF ListManaged, ListIncomplete, ListTopics
  <2>13. ASSUME NEW c \in Clients, SetManaged(c) \/ SetIncomplete(c)
         PROVE Unharmed'
    BY <2>13 DEF SetManaged, SetIncomplete, ReplaceTopics
  <2>14. ASSUME NEW c \in Clients, Send(c) PROVE Unharmed'
    BY <2>14 DEF Send
  <2>15. ASSUME NEW c \in Clients, CallFails(c) PROVE Unharmed'
    BY <2>15 DEF CallFails
  <2>16. ASSUME NEW c \in Clients, Disconnect(c) PROVE Unharmed'
    BY <2>16 DEF Disconnect
  <2>17. CASE Crash
    BY <2>17 DEF Crash
  <2>18. ASSUME NEW x \in Repos, Settle(x) PROVE Unharmed'
    BY <2>18 DEF Settle
  <2>19. ASSUME NEW x \in Repos, UserCommit(x) PROVE Unharmed'
    BY <2>19 DEF UserCommit
  <2>20. ASSUME NEW x \in Repos, UserTopic(x) PROVE Unharmed'
    BY <2>20 DEF UserTopic
  <2>21. CASE UNCHANGED vars
    BY <2>21 DEF vars
  <2>22. QED
    BY <2>1, <2>2, <2>3, <2>4, <2>5, <2>6, <2>7, <2>8, <2>9, <2>10, <2>11,
       <2>12, <2>13, <2>14, <2>15, <2>16, <2>17, <2>18, <2>19, <2>20, <2>21
    DEF Next, Handle
<1>3. Unharmed => RaceIsNotAFailure
  BY DEF RaceIsNotAFailure
<1>4. QED
  BY <1>1, <1>2, <1>3, TypeCorrect, PTL DEF Spec

-----------------------------------------------------------------------------
(* Work on a scaffolded repository. *)

(* No two requests for one repository are in flight at once.               *)
NoOverlap ==
  \A c, d \in Clients :
    RepoOf[c] = RepoOf[d] /\ pc[c] # "idle" /\ pc[d] # "idle" => c = d

(* A request that is going to push has not seen a scaffolded repository,   *)
(* and nobody else scaffolds one.                                          *)
PushesOnlyOnce ==
  \A c \in Clients :
    pc[c] \in {"isEmpty", "bootstrap", "getRef", "createCommit", "updateRef"}
      => tree[RepoOf[c]] \notin {"scaffold", "edited"}

(* Retries, after whatever failure, never overwrite work done on a         *)
(* scaffolded repository, provided that requests for it do not overlap,    *)
(* however many callers send them one after the other.                     *)
THEOREM RetriesKeepWork == Spec /\ []NoOverlap => WorkSurvives
<1> USE ConstantsAssumption
<1>1. Init => PushesOnlyOnce
  BY DEF Init, PushesOnlyOnce
<1>2. TypeOK /\ PushesOnlyOnce /\ NoOverlap /\ [Next]_vars => PushesOnlyOnce'
  <2> SUFFICES ASSUME TypeOK, PushesOnlyOnce, NoOverlap, [Next]_vars
               PROVE  PushesOnlyOnce'
    OBVIOUS
  <2> USE DEF TypeOK, PushesOnlyOnce, NoOverlap,
              RepoSteps, ClusterSteps, ManagedSteps, IncompleteSteps,
              Scaffolded, Marked,
              Goto, Respond, Fail, Fault, Answered, Commit,
              github, cluster, request, bounds
  <2>1. ASSUME NEW c \in Clients, EnsureRepo(c) PROVE PushesOnlyOnce'
    BY <2>1 DEF EnsureRepo
  <2>2. ASSUME NEW c \in Clients, CreateRepo(c) PROVE PushesOnlyOnce'
    BY <2>2 DEF CreateRepo
  <2>3. ASSUME NEW c \in Clients, HasScaffoldedContent(c) PROVE PushesOnlyOnce'
    BY <2>3 DEF HasScaffoldedContent
  <2>4. ASSUME NEW c \in Clients, IsEmpty(c) PROVE PushesOnlyOnce'
    BY <2>4 DEF IsEmpty
  <2>5. ASSUME NEW c \in Clients, Bootstrap(c) PROVE PushesOnlyOnce'
    BY <2>5 DEF Bootstrap
  <2>6. ASSUME NEW c \in Clients, GetRef(c) PROVE PushesOnlyOnce'
    BY <2>6 DEF GetRef, NotSettled
  <2>7. ASSUME NEW c \in Clients, CreateCommit(c) PROVE PushesOnlyOnce'
    BY <2>7 DEF CreateCommit, NotSettled
  <2>8. ASSUME NEW c \in Clients, UpdateRef(c) PROVE PushesOnlyOnce'
    BY <2>8 DEF UpdateRef, NotSettled
  <2>9. ASSUME NEW c \in Clients, GetNamespace(c) PROVE PushesOnlyOnce'
    BY <2>9 DEF GetNamespace
  <2>10. ASSUME NEW c \in Clients, CreateNamespace(c) PROVE PushesOnlyOnce'
    BY <2>10 DEF CreateNamespace
  <2>11. ASSUME NEW c \in Clients, Apply(c) PROVE PushesOnlyOnce'
    BY <2>11 DEF Apply
  <2>12. ASSUME NEW c \in Clients, ListManaged(c) \/ ListIncomplete(c)
         PROVE PushesOnlyOnce'
    BY <2>12 DEF ListManaged, ListIncomplete, ListTopics
  <2>13. ASSUME NEW c \in Clients, SetManaged(c) \/ SetIncomplete(c)
         PROVE PushesOnlyOnce'
    BY <2>13 DEF SetManaged, SetIncomplete, ReplaceTopics
  <2>14. ASSUME NEW c \in Clients, Send(c) PROVE PushesOnlyOnce'
    BY <2>14 DEF Send
  <2>15. ASSUME NEW c \in Clients, CallFails(c) PROVE PushesOnlyOnce'
    BY <2>15 DEF CallFails
  <2>16. ASSUME NEW c \in Clients, Disconnect(c) PROVE PushesOnlyOnce'
    BY <2>16 DEF Disconnect
  <2>17. CASE Crash
    BY <2>17 DEF Crash
  <2>18. ASSUME NEW x \in Repos, Settle(x) PROVE PushesOnlyOnce'
    BY <2>18 DEF Settle
  <2>19. ASSUME NEW x \in Repos, UserCommit(x) PROVE PushesOnlyOnce'
    BY <2>19 DEF UserCommit
  <2>20. ASSUME NEW x \in Repos, UserTopic(x) PROVE PushesOnlyOnce'
    BY <2>20 DEF UserTopic
  <2>21. CASE UNCHANGED vars
    BY <2>21 DEF vars
  <2>22. QED
    BY <2>1, <2>2, <2>3, <2>4, <2>5, <2>6, <2>7, <2>8, <2>9, <2>10, <2>11,
       <2>12, <2>13, <2>14, <2>15, <2>16, <2>17, <2>18, <2>19, <2>20, <2>21
    DEF Next, Handle
<1>3. TypeOK /\ PushesOnlyOnce /\ [Next]_vars
        => [\A x \in Repos : tree[x] = "edited" => tree'[x] = "edited"]_vars
  <2> DEFINE Kept == \A x \in Repos : tree[x] = "edited" => tree'[x] = "edited"
  <2> SUFFICES ASSUME TypeOK, PushesOnlyOnce, [Next]_vars PROVE Kept
    OBVIOUS
  <2> USE DEF TypeOK, PushesOnlyOnce, Commit, github, cluster
  <2>1. ASSUME NEW c \in Clients, EnsureRepo(c) PROVE Kept
    BY <2>1 DEF EnsureRepo
  <2>2. ASSUME NEW c \in Clients, CreateRepo(c) PROVE Kept
    BY <2>2 DEF CreateRepo
  <2>3. ASSUME NEW c \in Clients, HasScaffoldedContent(c) PROVE Kept
    BY <2>3 DEF HasScaffoldedContent
  <2>4. ASSUME NEW c \in Clients, IsEmpty(c) PROVE Kept
    BY <2>4 DEF IsEmpty
  <2>5. ASSUME NEW c \in Clients, Bootstrap(c) PROVE Kept
    BY <2>5 DEF Bootstrap
  <2>6. ASSUME NEW c \in Clients, GetRef(c) PROVE Kept
    BY <2>6 DEF GetRef, NotSettled
  <2>7. ASSUME NEW c \in Clients, CreateCommit(c) PROVE Kept
    BY <2>7 DEF CreateCommit, NotSettled
  <2>8. ASSUME NEW c \in Clients, UpdateRef(c) PROVE Kept
    BY <2>8 DEF UpdateRef, NotSettled
  <2>9. ASSUME NEW c \in Clients, GetNamespace(c) PROVE Kept
    BY <2>9 DEF GetNamespace
  <2>10. ASSUME NEW c \in Clients, CreateNamespace(c) PROVE Kept
    BY <2>10 DEF CreateNamespace
  <2>11. ASSUME NEW c \in Clients, Apply(c) PROVE Kept
    BY <2>11 DEF Apply
  <2>12. ASSUME NEW c \in Clients, ListManaged(c) \/ ListIncomplete(c)
         PROVE Kept
    BY <2>12 DEF ListManaged, ListIncomplete, ListTopics
  <2>13. ASSUME NEW c \in Clients, SetManaged(c) \/ SetIncomplete(c)
         PROVE Kept
    BY <2>13 DEF SetManaged, SetIncomplete, ReplaceTopics
  <2>14. ASSUME NEW c \in Clients, Send(c) PROVE Kept
    BY <2>14 DEF Send
  <2>15. ASSUME NEW c \in Clients, CallFails(c) PROVE Kept
    BY <2>15 DEF CallFails
  <2>16. ASSUME NEW c \in Clients, Disconnect(c) PROVE Kept
    BY <2>16 DEF Disconnect
  <2>17. CASE Crash
    BY <2>17 DEF Crash
  <2>18. ASSUME NEW x \in Repos, Settle(x) PROVE Kept
    BY <2>18 DEF Settle
  <2>19. ASSUME NEW x \in Repos, UserCommit(x) PROVE Kept
    BY <2>19 DEF UserCommit
  <2>20. ASSUME NEW x \in Repos, UserTopic(x) PROVE Kept
    BY <2>20 DEF UserTopic
  <2>21. CASE UNCHANGED vars
    BY <2>21 DEF vars
  <2>22. QED
    BY <2>1, <2>2, <2>3, <2>4, <2>5, <2>6, <2>7, <2>8, <2>9, <2>10, <2>11,
       <2>12, <2>13, <2>14, <2>15, <2>16, <2>17, <2>18, <2>19, <2>20, <2>21
    DEF Next, Handle
<1>4. QED
  BY <1>1, <1>2, <1>3, TypeCorrect, PTL DEF Spec, WorkSurvives

-----------------------------------------------------------------------------
(* The scaffolder implements its promise. *)

(* A custom resource runs the repository that every request for it names.  *)
AppOwned ==
  \A c \in Clients : app[AppOf[c]] \in {NoRepo, RepoOf[c]}

(* A push that has read the branch is on a repository that exists.         *)
NoHeadWithoutRepo == \A x \in Repos : tree[x] = "absent" => head[x] = 0
RefRead ==
  \A c \in Clients :
    pc[c] \in {"createCommit", "updateRef"} => tree[RepoOf[c]] # "absent"

MapInv == AppOwned /\ NoHeadWithoutRepo /\ RefRead

LEMMA MapInvariance ==
  ASSUME OneRepositoryPerApp
  PROVE  Spec => []MapInv
<1> USE ConstantsAssumption
<1>1. Init => MapInv
  BY DEF Init, MapInv, AppOwned, NoHeadWithoutRepo, RefRead
<1>2. TypeOK /\ MapInv /\ [Next]_vars => MapInv'
  <2> SUFFICES ASSUME TypeOK, MapInv, [Next]_vars PROVE MapInv'
    OBVIOUS
  <2> USE DEF TypeOK, MapInv, AppOwned, NoHeadWithoutRepo, RefRead,
              RepoSteps, ClusterSteps, ManagedSteps, IncompleteSteps,
              Goto, Respond, Fail, Fault, Answered, Commit,
              github, cluster, request, bounds
  <2>1. ASSUME NEW c \in Clients, EnsureRepo(c) PROVE MapInv'
    BY <2>1 DEF EnsureRepo
  <2>2. ASSUME NEW c \in Clients, CreateRepo(c) PROVE MapInv'
    BY <2>2 DEF CreateRepo
  <2>3. ASSUME NEW c \in Clients, HasScaffoldedContent(c) PROVE MapInv'
    BY <2>3 DEF HasScaffoldedContent
  <2>4. ASSUME NEW c \in Clients, IsEmpty(c) PROVE MapInv'
    BY <2>4 DEF IsEmpty
  <2>5. ASSUME NEW c \in Clients, Bootstrap(c) PROVE MapInv'
    BY <2>5 DEF Bootstrap
  <2>6. ASSUME NEW c \in Clients, GetRef(c) PROVE MapInv'
    BY <2>6 DEF GetRef, NotSettled
  <2>7. ASSUME NEW c \in Clients, CreateCommit(c) PROVE MapInv'
    BY <2>7 DEF CreateCommit, NotSettled
  <2>8. ASSUME NEW c \in Clients, UpdateRef(c) PROVE MapInv'
    BY <2>8 DEF UpdateRef, NotSettled
  <2>9. ASSUME NEW c \in Clients, GetNamespace(c) PROVE MapInv'
    BY <2>9 DEF GetNamespace
  <2>10. ASSUME NEW c \in Clients, CreateNamespace(c) PROVE MapInv'
    BY <2>10 DEF CreateNamespace
  <2>11. ASSUME NEW c \in Clients, Apply(c) PROVE MapInv'
    BY <2>11 DEF Apply, OneRepositoryPerApp
  <2>12. ASSUME NEW c \in Clients, ListManaged(c) \/ ListIncomplete(c)
         PROVE MapInv'
    BY <2>12 DEF ListManaged, ListIncomplete, ListTopics
  <2>13. ASSUME NEW c \in Clients, SetManaged(c) \/ SetIncomplete(c)
         PROVE MapInv'
    BY <2>13 DEF SetManaged, SetIncomplete, ReplaceTopics
  <2>14. ASSUME NEW c \in Clients, Send(c) PROVE MapInv'
    BY <2>14 DEF Send
  <2>15. ASSUME NEW c \in Clients, CallFails(c) PROVE MapInv'
    BY <2>15 DEF CallFails
  <2>16. ASSUME NEW c \in Clients, Disconnect(c) PROVE MapInv'
    BY <2>16 DEF Disconnect
  <2>17. CASE Crash
    BY <2>17 DEF Crash
  <2>18. ASSUME NEW x \in Repos, Settle(x) PROVE MapInv'
    BY <2>18 DEF Settle
  <2>19. ASSUME NEW x \in Repos, UserCommit(x) PROVE MapInv'
    <3>1. PICK content \in {"foreign", "marked", "edited"} : Commit(x, content)
      BY <2>19 DEF UserCommit
    <3>2. AppOwned' /\ RefRead'
      BY <2>19, <3>1 DEF UserCommit
    <3>3. NoHeadWithoutRepo'
      BY <3>1
    <3>4. QED
      BY <3>2, <3>3
  <2>20. ASSUME NEW x \in Repos, UserTopic(x) PROVE MapInv'
    BY <2>20 DEF UserTopic
  <2>21. CASE UNCHANGED vars
    BY <2>21 DEF vars
  <2>22. QED
    BY <2>1, <2>2, <2>3, <2>4, <2>5, <2>6, <2>7, <2>8, <2>9, <2>10, <2>11,
       <2>12, <2>13, <2>14, <2>15, <2>16, <2>17, <2>18, <2>19, <2>20, <2>21
    DEF Next, Handle
<1>3. QED
  BY <1>1, <1>2, TypeCorrect, PTL DEF Spec

(* Every step of the service, with every failure, is a step of the         *)
(* abstract specification or changes nothing that it speaks of.            *)
THEOREM ImplementsPromise ==
  ASSUME OneRepositoryPerApp
  PROVE  Spec => PromiseKept
<1> USE ConstantsAssumption
<1>1. Init => Promise!Init
  BY DEF Init, Promise!Init, Scaffolded, Marked
<1>2. Inv /\ MapInv /\ [Next]_vars => [Promise!Next]_(Promise!vars)
  <2> DEFINE Step == [Promise!Next]_(Promise!vars)
  <2> SUFFICES ASSUME Inv, MapInv, [Next]_vars PROVE Step
    OBVIOUS
  <2> USE DEF Inv, TypeOK, MapInv, AppOwned, github, cluster
  <2>c. UNCHANGED <<tree, topics, app>> => Step
    BY DEF Scaffolded, Promise!vars
  <2>1. ASSUME NEW c \in Clients, EnsureRepo(c) PROVE Step
    BY <2>1, <2>c DEF EnsureRepo
  <2>2. ASSUME NEW c \in Clients, CreateRepo(c) PROVE Step
    <3> DEFINE x == CreatedAs[RepoOf[c]]
    <3>1. CASE UNCHANGED github
      BY <2>2, <3>1, <2>c DEF CreateRepo
    <3>2. CASE tree[x] = "absent" /\ Commit(x, "readme")
      <4>1. Promise!Create(x)
        BY <2>2, <3>2 DEF CreateRepo, Promise!Create, Scaffolded, Marked, Commit
      <4>2. QED
        BY <4>1 DEF Promise!Next
    <3>3. QED
      BY <2>2, <3>1, <3>2 DEF CreateRepo
  <2>3. ASSUME NEW c \in Clients, HasScaffoldedContent(c) PROVE Step
    BY <2>3, <2>c DEF HasScaffoldedContent
  <2>4. ASSUME NEW c \in Clients, IsEmpty(c) PROVE Step
    BY <2>4, <2>c DEF IsEmpty
  <2>5. ASSUME NEW c \in Clients, Bootstrap(c) PROVE Step
    <3>1. CASE UNCHANGED github
      BY <2>5, <3>1, <2>c DEF Bootstrap
    <3>2. CASE \/ tree[RepoOf[c]] = "none" /\ Commit(RepoOf[c], "readme")
               \/ /\ tree[RepoOf[c]] \in {"foreign", "marked"}
                  /\ Commit(RepoOf[c], tree[RepoOf[c]])
      BY <2>5, <3>2 DEF Bootstrap, Scaffolded, Marked, Commit, Promise!vars
    <3>3. QED
      BY <2>5, <3>1, <3>2 DEF Bootstrap
  <2>6. ASSUME NEW c \in Clients, GetRef(c) PROVE Step
    BY <2>6, <2>c DEF GetRef, NotSettled
  <2>7. ASSUME NEW c \in Clients, CreateCommit(c) PROVE Step
    BY <2>7, <2>c DEF CreateCommit, NotSettled
  <2>8. ASSUME NEW c \in Clients, UpdateRef(c) PROVE Step
    <3> DEFINE x == RepoOf[c]
    <3>1. CASE UNCHANGED github
      BY <2>8, <3>1, <2>c DEF UpdateRef
    <3>2. CASE Commit(x, "scaffold") /\ Scaffolded(x)
      BY <2>8, <3>2 DEF UpdateRef, Scaffolded, Marked, Commit, Promise!vars
    <3>3. CASE Commit(x, "scaffold") /\ ~Scaffolded(x)
      <4>1. Promise!Fill(x)
        BY <2>8, <3>3 DEF UpdateRef, RefRead, Promise!Fill, Scaffolded, Marked, Commit
      <4>2. QED
        BY <4>1 DEF Promise!Next
    <3>4. QED
      BY <2>8, <3>1, <3>2, <3>3 DEF UpdateRef
  <2>9. ASSUME NEW c \in Clients, GetNamespace(c) PROVE Step
    BY <2>9, <2>c DEF GetNamespace
  <2>10. ASSUME NEW c \in Clients, CreateNamespace(c) PROVE Step
    BY <2>10, <2>c DEF CreateNamespace
  <2>11. ASSUME NEW c \in Clients, Apply(c) PROVE Step
    <3>1. Promise!Run(AppOf[c], RepoOf[c])
      <4>1. Scaffolded(RepoOf[c])
        BY <2>11 DEF Apply, PushedBeforeApply, ClusterSteps
      <4>2. tree[RepoOf[c]] # "absent"
        BY <4>1 DEF Scaffolded, Marked
      <4>3. QED
        BY <2>11, <4>1, <4>2 DEF Apply, Promise!Run, Scaffolded
    <3>2. QED
      BY <3>1 DEF Promise!Next
  <2>12. ASSUME NEW c \in Clients, ListManaged(c) \/ ListIncomplete(c)
         PROVE Step
    BY <2>12, <2>c DEF ListManaged, ListIncomplete, ListTopics
  <2>13. ASSUME NEW c \in Clients, SetManaged(c) PROVE Step
    <3>1. Promise!MarkManaged(RepoOf[c])
      <4>1. Scaffolded(RepoOf[c]) /\ tree[RepoOf[c]] # "absent"
        BY <2>13 DEF SetManaged, PushedBeforeApply, ManagedSteps, Scaffolded, Marked
      <4>2. /\ UNCHANGED <<tree, app>>
            /\ topics' = [topics EXCEPT ![RepoOf[c]] =
                 (seen[c] \ {TopicIncomplete}) \cup {TopicManaged}]
        BY <2>13 DEF SetManaged, ReplaceTopics
      <4>3. \E a \in Apps : app[a] = RepoOf[c]
        BY <2>13, NobodyCollides DEF SetManaged, AppliedBeforeMark, ManagedSteps
      <4>4. QED
        BY <4>1, <4>2, <4>3 DEF Promise!MarkManaged, Scaffolded,
          TopicManaged, TopicIncomplete
    <3>2. QED
      BY <3>1 DEF Promise!Next
  <2>14. ASSUME NEW c \in Clients, SetIncomplete(c) PROVE Step
    <3>1. Promise!MarkIncomplete(RepoOf[c])
      <4>1. Scaffolded(RepoOf[c]) /\ tree[RepoOf[c]] # "absent"
        BY <2>14 DEF SetIncomplete, PushedBeforeApply, IncompleteSteps, Scaffolded, Marked
      <4>2. /\ UNCHANGED <<tree, app>>
            /\ topics' = [topics EXCEPT ![RepoOf[c]] =
                 (seen[c] \ {TopicManaged}) \cup {TopicIncomplete}]
        BY <2>14 DEF SetIncomplete, ReplaceTopics
      <4>4. QED
        BY <4>1, <4>2 DEF Promise!MarkIncomplete, Scaffolded,
          TopicManaged, TopicIncomplete
    <3>2. QED
      BY <3>1 DEF Promise!Next
  <2>15. ASSUME NEW c \in Clients, Send(c) PROVE Step
    BY <2>15, <2>c DEF Send
  <2>16. ASSUME NEW c \in Clients, CallFails(c) PROVE Step
    BY <2>16, <2>c DEF CallFails
  <2>17. ASSUME NEW c \in Clients, Disconnect(c) PROVE Step
    BY <2>17, <2>c DEF Disconnect
  <2>18. CASE Crash
    BY <2>18, <2>c DEF Crash
  <2>19. ASSUME NEW x \in Repos, Settle(x) PROVE Step
    BY <2>19 DEF Settle, Scaffolded, Promise!vars
  <2>20. ASSUME NEW x \in Repos, UserCommit(x) PROVE Step
    <3>1. CASE Scaffolded(x)
      BY <2>20, <3>1 DEF UserCommit, Scaffolded, Marked, Commit, Promise!vars
    <3>2. CASE ~Scaffolded(x) /\ Commit(x, "foreign")
      BY <2>20, <3>2 DEF UserCommit, Scaffolded, Marked, Commit, Promise!vars
    <3>3. CASE ~Scaffolded(x) /\ Commit(x, "marked")
      <4>1. Promise!Fill(x)
        <5>1. tree[x] # "absent" /\ UNCHANGED <<topics, app>>
          BY <2>20, <3>3 DEF UserCommit, Commit
        <5>2. tree' = [tree EXCEPT ![x] = "marked"]
          BY <3>3 DEF Commit
        <5>3. QED
          BY <3>3, <5>1, <5>2 DEF Promise!Fill, Scaffolded, Marked
      <4>2. QED
        BY <4>1 DEF Promise!Next
    <3>4. QED
      BY <2>20, <3>1, <3>2, <3>3 DEF UserCommit, Scaffolded, Marked
  <2>21. ASSUME NEW x \in Repos, UserTopic(x) PROVE Step
    BY <2>21 DEF UserTopic, Scaffolded, Markers, Promise!vars
  <2>22. CASE UNCHANGED vars
    BY <2>22, <2>c DEF vars
  <2>23. QED
    BY <2>1, <2>2, <2>3, <2>4, <2>5, <2>6, <2>7, <2>8, <2>9, <2>10, <2>11,
       <2>12, <2>13, <2>14, <2>15, <2>16, <2>17, <2>18, <2>19, <2>20, <2>21,
       <2>22
    DEF Next, Handle
<1>3. QED
  BY <1>1, <1>2, Invariance, MapInvariance, PTL DEF Spec, PromiseKept, Promise!Spec
=============================================================================
