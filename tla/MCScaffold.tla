----------------------------- MODULE MCScaffold -----------------------------
(***************************************************************************)
(* Small instances of Scaffold: who asks for what, and which calls fail.   *)
(***************************************************************************)
EXTENDS Scaffold

CONSTANTS c1, c2, x1, a1, a2, n1

(* Every caller asks for the same repository and the same resource.        *)
SameRepo == [c \in Clients |-> x1]
SameApp == [c \in Clients |-> a1]

OneNamespace == [a \in Apps |-> n1]

(* GitHub creates the repository under the owner that was asked for.       *)
AsAsked == [x \in Repos |-> x]

(* Where calls fail: everywhere; everywhere but in SetTopics, whose errors *)
(* the service only logs; nowhere.                                         *)
AllSteps == Steps
WorkSteps == RepoSteps \cup ClusterSteps
NoSteps == {}
=============================================================================
