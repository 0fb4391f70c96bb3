----------------------------- MODULE WebAppTab ------------------------------
(***************************************************************************)
(* The WebApp tab of an entity page: the hook useWebAppStatus of           *)
(* backstage/plugins/webapp-status/src/useWebAppStatus.ts, and what        *)
(* WebAppStatusContent.tsx shows of its state.                             *)
(*                                                                         *)
(* The hook loads the status when the entity changes and then at every     *)
(* poll, whether or not the last load has been answered.  Answers arrive   *)
(* in any order.  A counter, bumped by each load, tells a load whether a   *)
(* later one has started.  Here a load in flight is a slot, and the        *)
(* counter is the slot of the last load: the loads whose generation is the *)
(* current one are those in that slot.                                     *)
(***************************************************************************)
EXTENDS Integers, FiniteSets

CONSTANTS
  Refs,        \* the custom resources that entities are linked to
  NoRef,       \* the link of an entity without the annotation
  Slots,       \* bound on the loads in flight
  MaxVersion,  \* bound on the changes of a custom resource
  MaxMoves,    \* bound on the user's navigations
  MaxFaults,   \* bound on failed requests
  Prompt       \* every answer arrives within the polling interval

ASSUME ConstantsAssumption ==
  /\ NoRef \notin Refs
  /\ Slots \subseteq Nat \ {0}
  /\ MaxVersion \in Nat /\ MaxMoves \in Nat /\ MaxFaults \in Nat
  /\ Prompt \in BOOLEAN

VARIABLES
  version,  \* version[r]: the state of custom resource r, 0 if it does not exist
  ref,      \* the link of the entity on display
  load,     \* load[i]: a load in flight: its phase, its ref and its answer
  latest,   \* the slot of the load that started last, 0 before the first
  shown,    \* the state of the hook
  moves, faults

vars == <<version, ref, load, latest, shown, moves, faults>>

Failed == -1
Answers == 0 .. MaxVersion \cup {Failed}
Phases == {"free", "fetch", "served", "json"}
Kinds == {"loading", "unlinked", "status", "notFound", "error"}

Free == [phase |-> "free", of |-> NoRef, answer |-> 0]
Requested(r) == [phase |-> "fetch", of |-> r, answer |-> 0]
InFlight == {i \in Slots : load[i].phase # "free"}
State(kind, r, v) == [kind |-> kind, of |-> r, version |-> v]
Unlinked == State("unlinked", NoRef, 0)

(* The effects of the first render have run. *)
Init ==
  /\ version \in [Refs -> 0 .. MaxVersion]
  /\ ref \in Refs \cup {NoRef}
  /\ IF ref = NoRef
       THEN /\ load = [i \in Slots |-> Free]
            /\ latest = 0
            /\ shown = Unlinked
       ELSE \E i \in Slots :
              /\ load = [j \in Slots |-> IF j = i THEN Requested(ref) ELSE Free]
              /\ latest = i
              /\ shown = State("loading", ref, 0)
  /\ moves = 0 /\ faults = 0

-----------------------------------------------------------------------------
(* The hook. *)

Load(i, r) ==
  /\ i \notin InFlight
  /\ load' = [load EXCEPT ![i] = Requested(r)]
  /\ latest' = i

(* The user opens another entity.  Its effects load its status, and leave  *)
(* the state as it is; only an entity without a link resets it.            *)
Navigate(r) ==
  /\ r # ref
  /\ moves < MaxMoves
  /\ moves' = moves + 1
  /\ ref' = r
  /\ IF r = NoRef
       THEN shown' = Unlinked /\ UNCHANGED <<load, latest>>
       ELSE (\E i \in Slots : Load(i, r)) /\ UNCHANGED shown
  /\ UNCHANGED <<version, faults>>

(* Polling stops at the first error.                                       *)
PollUntilError ==
  /\ ref # NoRef
  /\ shown.kind # "error"
  /\ Prompt => InFlight = {}
  /\ \E i \in Slots : Load(i, ref)
  /\ UNCHANGED <<version, ref, shown, moves, faults>>

(* An entity without a link is polled for.                                 *)
PollAlways ==
  /\ Prompt => InFlight = {}
  /\ \E i \in Slots : Load(i, ref)
  /\ UNCHANGED <<version, ref, shown, moves, faults>>

Poll ==
  /\ ref # NoRef
  /\ Prompt => InFlight = {}
  /\ \E i \in Slots : Load(i, ref)
  /\ UNCHANGED <<version, ref, shown, moves, faults>>

Done(i) == load' = [load EXCEPT ![i] = Free]
At(i, phase, answer) ==
  load' = [load EXCEPT ![i] = [phase |-> phase, of |-> load[i].of, answer |-> answer]]
Set(i, kind) == shown' = State(kind, load[i].of, load[i].answer)

(* The status API answers with what it knows at that moment.               *)
Serve(i) ==
  /\ load[i].phase = "fetch"
  /\ At(i, "served", version[load[i].of])
  /\ UNCHANGED <<version, ref, latest, shown, moves, faults>>

(* The request fails, or is answered by an error.                          *)
ServeFails(i) ==
  /\ load[i].phase = "fetch"
  /\ faults < MaxFaults
  /\ faults' = faults + 1
  /\ At(i, "served", Failed)
  /\ UNCHANGED <<version, ref, latest, shown, moves>>

Accept(i) ==
  \/ load[i].answer = Failed /\ shown' = State("error", load[i].of, 0) /\ Done(i)
  \/ load[i].answer = 0 /\ Set(i, "notFound") /\ Done(i)
  \/ load[i].answer > 0 /\ At(i, "json", load[i].answer) /\ UNCHANGED shown

(* Nothing is compared with the current generation. *)
ReceiveAny(i) ==
  /\ load[i].phase = "served"
  /\ Accept(i)
  /\ UNCHANGED <<version, ref, latest, moves, faults>>

Receive(i) ==
  /\ load[i].phase = "served"
  /\ IF latest = i THEN Accept(i) ELSE Done(i) /\ UNCHANGED shown
  /\ UNCHANGED <<version, ref, latest, moves, faults>>

(* The body has been read; the generation is not compared again. *)
ReadBody(i) ==
  /\ load[i].phase = "json"
  /\ Set(i, "status")
  /\ Done(i)
  /\ UNCHANGED <<version, ref, latest, moves, faults>>

ReadBodyFails(i) ==
  /\ load[i].phase = "json"
  /\ faults < MaxFaults
  /\ faults' = faults + 1
  /\ shown' = IF latest = i THEN State("error", load[i].of, 0) ELSE shown
  /\ Done(i)
  /\ UNCHANGED <<version, ref, latest, moves>>

(* The custom resource is applied, changed or deleted.                     *)
Change(r) ==
  /\ \E v \in {0, version[r] + 1} \ {version[r]} :
       v <= MaxVersion /\ version' = [version EXCEPT ![r] = v]
  /\ moves < MaxMoves
  /\ moves' = moves + 1
  /\ UNCHANGED <<ref, load, latest, shown, faults>>

-----------------------------------------------------------------------------
(* The component.  The message of a not-found names the entity on display, *)
(* whichever it was the answer for; that of an error names none.           *)
Display ==
  CASE ref = NoRef -> Unlinked
    [] ref # NoRef /\ shown.kind \in {"loading", "unlinked"} -> State("loading", ref, 0)
    [] ref # NoRef /\ shown.kind = "notFound" -> State("notFound", ref, 0)
    [] ref # NoRef /\ shown.kind \in {"error", "status"} -> shown

-----------------------------------------------------------------------------
Next ==
  \/ \E r \in Refs \cup {NoRef} : Navigate(r)
  \/ Poll
  \/ \E i \in Slots : Serve(i) \/ ServeFails(i) \/ Receive(i)
                      \/ ReadBody(i) \/ ReadBodyFails(i)
  \/ \E r \in Refs : Change(r)

(* The timer fires, and every request is answered, well or not. *)
Fairness ==
  /\ WF_vars(Poll)
  /\ \A i \in Slots : WF_vars(Serve(i)) /\ WF_vars(Receive(i)) /\ WF_vars(ReadBody(i))

Spec == Init /\ [][Next]_vars
FairSpec == Spec /\ Fairness

-----------------------------------------------------------------------------
(* Every variable has its type; an unlinked entity is never loaded.        *)
TypeOK ==
  /\ version \in [Refs -> 0 .. MaxVersion]
  /\ ref \in Refs \cup {NoRef}
  /\ load \in [Slots -> [phase : Phases, of : Refs \cup {NoRef}, answer : Answers]]
  /\ \A i \in InFlight : load[i].of \in Refs
  /\ \A i \in Slots : load[i].phase = "json" => load[i].answer > 0
  /\ latest \in Slots \cup {0}
  /\ shown \in [kind : Kinds, of : Refs \cup {NoRef}, version : 0 .. MaxVersion]
  /\ moves \in 0 .. MaxMoves
  /\ faults \in 0 .. MaxFaults

(* What is on display is the failure of an entity that the user has left.  *)
LeftFailure ==
  ref # NoRef /\ shown.kind \in {"error", "notFound"} /\ shown.of # ref

(* No answer puts the failure of an entity that was left on display under  *)
(* another one: errors and not-founds are set behind the comparison of the *)
(* generations (useWebAppStatus.ts:43-49, 54-57).  It can get there in two *)
(* ways only, both without being set then.  A navigation leaves what is    *)
(* shown until the first answer (61-69).  And an entity without a link     *)
(* starts no load, so that the last one of the entity before it is still   *)
(* the current one (33-36): its failure is set behind the message that     *)
(* there is no link, and comes up when an entity with one is opened.       *)
NoLateFailure == [][LeftFailure' => UNCHANGED shown]_vars

(* What the tab should show of a custom resource that nothing touches.     *)
Truth(r) == IF version[r] = 0 THEN State("notFound", r, 0)
                              ELSE State("status", r, version[r])

(* When answers arrive within the polling interval, the tab comes to show  *)
(* the custom resource of its entity, as it is, whatever failed or was     *)
(* still in flight before (useWebAppStatus.ts:61-69).                      *)
CatchesUp == <>[](ref # NoRef => Display = Truth(ref))

-----------------------------------------------------------------------------
(* What the repository says of the code, and the code does not do. *)

(* useWebAppStatus.ts:28-29: an in-flight response from a previous entity  *)
(* cannot land on the current one after a navigation.                      *)
InFlightDiscarded ==
  [][shown' # shown /\ ref' = ref /\ ref # NoRef => shown'.of = ref]_vars
=============================================================================
