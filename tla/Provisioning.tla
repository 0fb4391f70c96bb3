---------------------------- MODULE Provisioning ----------------------------
(***************************************************************************)
(* What the scaffolder promises to somebody who looks only at GitHub and   *)
(* at the cluster, never at a request in flight.                           *)
(*                                                                         *)
(*   - a repository goes from absent to bare to ready and never back: a    *)
(*     run that fails deletes nothing (provision.go:31-40);                *)
(*   - a workload is started only from a ready repository, one that        *)
(*     carries catalog-info.yaml, and stays with that repository           *)
(*     (provision.go:86-90);                                               *)
(*   - a repository is marked only when it is ready, and marked as managed *)
(*     only while its workload runs (github.go:17-23).                     *)
(*                                                                         *)
(* Scaffold implements this specification.                                 *)
(***************************************************************************)
CONSTANTS Repos, Apps, NoRepo

VARIABLES
  repo,    \* repo[x]: what repository x holds
  source,  \* source[a]: the repository workload a was started from
  mark     \* mark[x]: the platform's marker topic on repository x

vars == <<repo, source, mark>>

Init ==
  /\ repo \in [Repos -> {"absent", "bare", "ready"}]
  /\ source = [a \in Apps |-> NoRepo]
  /\ mark = [x \in Repos |-> "none"]

Create(x) ==
  /\ repo[x] = "absent"
  /\ repo' = [repo EXCEPT ![x] = "bare"]
  /\ UNCHANGED <<source, mark>>

Fill(x) ==
  /\ repo[x] = "bare"
  /\ repo' = [repo EXCEPT ![x] = "ready"]
  /\ UNCHANGED <<source, mark>>

Run(a, x) ==
  /\ repo[x] = "ready"
  /\ source[a] \in {NoRepo, x}
  /\ source' = [source EXCEPT ![a] = x]
  /\ UNCHANGED <<repo, mark>>

MarkManaged(x) ==
  /\ repo[x] = "ready"
  /\ \E a \in Apps : source[a] = x
  /\ mark' = [mark EXCEPT ![x] = "managed"]
  /\ UNCHANGED <<repo, source>>

MarkIncomplete(x) ==
  /\ repo[x] = "ready"
  /\ mark' = [mark EXCEPT ![x] = "incomplete"]
  /\ UNCHANGED <<repo, source>>

Next ==
  \E x \in Repos :
    \/ Create(x) \/ Fill(x) \/ MarkManaged(x) \/ MarkIncomplete(x)
    \/ \E a \in Apps : Run(a, x)

Spec == Init /\ [][Next]_vars
=============================================================================
