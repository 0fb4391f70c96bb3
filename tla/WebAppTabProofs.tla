--------------------------- MODULE WebAppTabProofs --------------------------
(***************************************************************************)
(* Theorems about WebAppTab, for every set of custom resources, any number *)
(* of loads in flight, and answers however slow.                           *)
(***************************************************************************)
EXTENDS WebAppTab, TLAPS

(* The load of the current generation asks for the entity on display.      *)
CurrentIsOnDisplay ==
  \A i \in Slots :
    i = latest /\ load[i].phase # "free" /\ ref # NoRef => load[i].of = ref

(* Every variable of the tab has its type, and an entity without a link is *)
(* never loaded, in every behaviour.                                       *)
THEOREM TypeCorrect == Spec => []TypeOK
<1> USE ConstantsAssumption
<1>1. Init => TypeOK
  BY DEF Init, TypeOK, Free, Requested, InFlight, State, Unlinked, Phases,
    Kinds, Answers
<1>2. TypeOK /\ [Next]_vars => TypeOK'
  <2> SUFFICES ASSUME TypeOK, [Next]_vars PROVE TypeOK'
    OBVIOUS
  <2> USE DEF TypeOK, Free, Requested, InFlight, State, Unlinked, Phases,
              Kinds, Answers, Failed, Done, Set, At
  <2>1. ASSUME NEW r \in Refs \cup {NoRef}, Navigate(r) PROVE TypeOK'
    BY <2>1 DEF Navigate, Load
  <2>2. CASE Poll
    BY <2>2 DEF Poll, Load
  <2>3. ASSUME NEW i \in Slots, Serve(i) PROVE TypeOK'
    BY <2>3 DEF Serve
  <2>4. ASSUME NEW i \in Slots, ServeFails(i) PROVE TypeOK'
    BY <2>4 DEF ServeFails
  <2>5. ASSUME NEW i \in Slots, Receive(i) PROVE TypeOK'
    <3>1. CASE load' = [load EXCEPT ![i] = Free] /\ UNCHANGED shown
      BY <2>5, <3>1 DEF Receive
    <3>2. CASE load[i].answer = Failed /\ Accept(i)
      BY <2>5, <3>2 DEF Receive, Accept
    <3>3. CASE load[i].answer = 0 /\ Accept(i)
      BY <2>5, <3>3 DEF Receive, Accept
    <3>4. CASE load[i].answer > 0 /\ Accept(i)
      BY <2>5, <3>4 DEF Receive, Accept
    <3>5. QED
      BY <2>5, <3>1, <3>2, <3>3, <3>4 DEF Receive, Accept
  <2>6. ASSUME NEW i \in Slots, ReadBody(i) PROVE TypeOK'
    BY <2>6 DEF ReadBody
  <2>7. ASSUME NEW i \in Slots, ReadBodyFails(i) PROVE TypeOK'
    BY <2>7 DEF ReadBodyFails
  <2>8. ASSUME NEW r \in Refs, Change(r) PROVE TypeOK'
    BY <2>8 DEF Change
  <2>9. CASE UNCHANGED vars
    BY <2>9 DEF vars
  <2>10. QED
    BY <2>1, <2>2, <2>3, <2>4, <2>5, <2>6, <2>7, <2>8, <2>9 DEF Next
<1>3. QED
  BY <1>1, <1>2, PTL DEF Spec

(* No answer puts the failure of an entity that was left under another one,*)
(* however slow the answers are and in whichever order they come: what     *)
(* shows of one was set before the navigation that brought it there.       *)
THEOREM NoFailureLandsLate == Spec => NoLateFailure
<1> USE ConstantsAssumption
<1>1. Init => CurrentIsOnDisplay
  BY DEF Init, CurrentIsOnDisplay, Free, Requested
<1>2. TypeOK /\ CurrentIsOnDisplay /\ [Next]_vars => CurrentIsOnDisplay'
  <2> SUFFICES ASSUME TypeOK, CurrentIsOnDisplay, [Next]_vars
               PROVE  CurrentIsOnDisplay'
    OBVIOUS
  <2> USE DEF TypeOK, CurrentIsOnDisplay, InFlight, Free, Requested, Done, Set, At
  <2>1. ASSUME NEW r \in Refs \cup {NoRef}, Navigate(r)
        PROVE  CurrentIsOnDisplay'
    BY <2>1 DEF Navigate, Load
  <2>2. CASE Poll
    BY <2>2 DEF Poll, Load
  <2>3. ASSUME NEW i \in Slots, Serve(i) PROVE CurrentIsOnDisplay'
    BY <2>3 DEF Serve
  <2>4. ASSUME NEW i \in Slots, ServeFails(i) PROVE CurrentIsOnDisplay'
    BY <2>4 DEF ServeFails
  <2>5. ASSUME NEW i \in Slots, Receive(i) PROVE CurrentIsOnDisplay'
    BY <2>5 DEF Receive, Accept
  <2>6. ASSUME NEW i \in Slots, ReadBody(i) PROVE CurrentIsOnDisplay'
    BY <2>6 DEF ReadBody
  <2>7. ASSUME NEW i \in Slots, ReadBodyFails(i) PROVE CurrentIsOnDisplay'
    BY <2>7 DEF ReadBodyFails
  <2>8. ASSUME NEW r \in Refs, Change(r) PROVE CurrentIsOnDisplay'
    BY <2>8 DEF Change
  <2>9. CASE UNCHANGED vars
    BY <2>9 DEF vars
  <2>10. QED
    BY <2>1, <2>2, <2>3, <2>4, <2>5, <2>6, <2>7, <2>8, <2>9 DEF Next
<1>3. TypeOK /\ CurrentIsOnDisplay /\ [Next]_vars
        => [LeftFailure' => UNCHANGED shown]_vars
  <2> SUFFICES ASSUME TypeOK, CurrentIsOnDisplay, [Next]_vars, shown' # shown
               PROVE  ~LeftFailure'
    OBVIOUS
  <2> USE DEF TypeOK, CurrentIsOnDisplay, LeftFailure, State, Set, Done
  <2>1. ASSUME NEW r \in Refs \cup {NoRef}, Navigate(r) PROVE ~LeftFailure'
    BY <2>1 DEF Navigate, Unlinked
  <2>2. ASSUME NEW i \in Slots, Receive(i) PROVE ~LeftFailure'
    BY <2>2 DEF Receive, Accept
  <2>3. ASSUME NEW i \in Slots, ReadBody(i) PROVE ~LeftFailure'
    BY <2>3 DEF ReadBody
  <2>4. ASSUME NEW i \in Slots, ReadBodyFails(i) PROVE ~LeftFailure'
    BY <2>4 DEF ReadBodyFails
  <2>5. CASE UNCHANGED shown
    BY <2>5
  <2>6. QED
    BY <2>1, <2>2, <2>3, <2>4, <2>5
    DEF Next, Poll, Serve, ServeFails, Change, vars
<1>4. QED
  BY <1>1, <1>2, <1>3, TypeCorrect, PTL DEF Spec, NoLateFailure

-----------------------------------------------------------------------------
(* A page that is left open on a custom resource that nothing touches. *)

(* Whatever is in flight asks for that resource, and what has been         *)
(* answered is so.                                                         *)
OnlyTheTruth ==
  \A i \in InFlight :
    /\ load[i].of = ref
    /\ load[i].phase \in {"served", "json"} => load[i].answer = version[ref]

(* Nobody navigates, no resource changes, and no request fails.            *)
Quiet == UNCHANGED <<version, ref, faults>>

(* A load that starts asks for the resource on display.                    *)
LEMMA TruthOnLoad ==
  ASSUME TypeOK, OnlyTheTruth, NEW i \in Slots, Load(i, ref), UNCHANGED <<version, ref>>
  PROVE  OnlyTheTruth'
  BY DEF TypeOK, OnlyTheTruth, InFlight, Load, Requested

(* So does one that goes on or ends.                                       *)
LEMMA TruthOnStep ==
  ASSUME TypeOK, OnlyTheTruth, NEW i \in InFlight, UNCHANGED <<version, ref>>
  PROVE  /\ Done(i) => OnlyTheTruth'
         /\ \A phase \in Phases : At(i, phase, version[ref]) => OnlyTheTruth'
<1>0. i \in Slots /\ load[i].of = ref
  BY DEF OnlyTheTruth, InFlight
<1>1. ASSUME Done(i) PROVE OnlyTheTruth'
  BY <1>0, <1>1 DEF TypeOK, OnlyTheTruth, InFlight, Done, Free
<1>2. ASSUME NEW phase \in Phases, At(i, phase, version[ref]) PROVE OnlyTheTruth'
  BY <1>0, <1>2 DEF TypeOK, OnlyTheTruth, InFlight, At
<1>3. QED
  BY <1>1, <1>2

(* What such a page is left with, is told or shows next is the truth.      *)
LEMMA QuietStep ==
  ASSUME TypeOK, OnlyTheTruth, [Next]_vars, [Quiet]_vars
  PROVE  OnlyTheTruth' /\ (shown' # shown => shown' = Truth(ref))
<1> USE ConstantsAssumption
<1> DEFINE Kept == OnlyTheTruth' /\ (shown' # shown => shown' = Truth(ref))
<1>0. UNCHANGED <<version, ref, faults>>
  BY DEF Quiet, vars
<1>1. ASSUME NEW r \in Refs \cup {NoRef}, Navigate(r) PROVE Kept
  BY <1>0, <1>1 DEF Navigate
<1>2. CASE Poll
  BY <1>0, <1>2, TruthOnLoad DEF Poll
<1>3. ASSUME NEW i \in Slots, Serve(i) PROVE Kept
  <2>1. i \in InFlight /\ UNCHANGED shown
    BY <1>3 DEF Serve, InFlight
  <2>2. load[i].of = ref
    BY <2>1 DEF OnlyTheTruth
  <2>3. At(i, "served", version[ref])
    BY <1>3, <2>2 DEF Serve
  <2>4. QED
    BY <1>0, <2>1, <2>3, TruthOnStep DEF Phases
<1>4. ASSUME NEW i \in Slots, Receive(i) PROVE Kept
  <2>1. i \in InFlight
    BY <1>4 DEF Receive, InFlight
  <2>2. load[i].of = ref /\ load[i].answer = version[ref]
    BY <1>4, <2>1 DEF OnlyTheTruth, Receive
  <2>3. version[ref] \in Nat
    BY <2>1, <2>2 DEF TypeOK
  <2>4. CASE Done(i) /\ UNCHANGED shown
    BY <1>0, <2>1, <2>4, TruthOnStep
  <2>5. CASE load[i].answer = 0 /\ Set(i, "notFound") /\ Done(i)
    BY <1>0, <2>1, <2>2, <2>5, TruthOnStep DEF Set, Truth, State
  <2>6. CASE At(i, "json", load[i].answer) /\ UNCHANGED shown
    BY <1>0, <2>1, <2>2, <2>6, TruthOnStep DEF Phases
  <2>7. QED
    BY <1>4, <2>2, <2>3, <2>4, <2>5, <2>6 DEF Receive, Accept, Failed
<1>5. ASSUME NEW i \in Slots, ReadBody(i) PROVE Kept
  <2>1. i \in InFlight
    BY <1>5 DEF ReadBody, InFlight
  <2>2. load[i].of = ref /\ load[i].answer = version[ref] /\ load[i].answer > 0
    BY <1>5, <2>1 DEF OnlyTheTruth, ReadBody, TypeOK
  <2>3. shown' = Truth(ref)
    BY <1>5, <2>2 DEF ReadBody, Set, Truth
  <2>4. QED
    BY <1>0, <1>5, <2>1, <2>3, TruthOnStep DEF ReadBody
<1>6. ASSUME NEW i \in Slots, ServeFails(i) \/ ReadBodyFails(i) PROVE Kept
  <2>1. faults' # faults
    BY <1>6 DEF ServeFails, ReadBodyFails, TypeOK
  <2>2. QED
    BY <1>0, <2>1
<1>7. ASSUME NEW r \in Refs, Change(r) PROVE Kept
  <2>1. version' # version
    BY <1>7 DEF Change, TypeOK
  <2>2. QED
    BY <1>0, <2>1
<1>8. CASE UNCHANGED vars
  BY <1>8 DEF vars, OnlyTheTruth, InFlight
<1>9. QED
  BY <1>1, <1>2, <1>3, <1>4, <1>5, <1>6, <1>7, <1>8 DEF Next

(* Once the loads of the pages before are gone, and until somebody         *)
(* navigates, something changes or a request fails, the tab turns to       *)
(* nothing but the truth, however slow the answers are and in whichever    *)
(* order they come (useWebAppStatus.ts:31-58).                             *)
THEOREM OnlyTheTruthShows ==
  Spec => [](InFlight = {} /\ [][Quiet]_vars
               => [][shown' # shown => shown' = Truth(ref)]_vars)
<1>1. InFlight = {} => OnlyTheTruth
  BY DEF OnlyTheTruth
<1>2. TypeOK /\ OnlyTheTruth /\ [Next]_vars /\ [Quiet]_vars
        => OnlyTheTruth' /\ [shown' # shown => shown' = Truth(ref)]_vars
  BY QuietStep
<1>3. QED
  BY <1>1, <1>2, TypeCorrect, PTL DEF Spec

(* The part of CatchesUp that is not liveness: one true answer, from a     *)
(* page that is left alone, is enough, and no answer after it is worse.    *)
THEOREM OneAnswerIsEnough ==
  Spec /\ <>(InFlight = {} /\ [][Quiet]_vars /\ <>(shown = Truth(ref)))
    => CatchesUp
<1>1. Spec => [](InFlight = {} /\ [][Quiet]_vars
                   => [][shown' # shown => shown' = Truth(ref)]_vars)
  BY OnlyTheTruthShows
<1>2. /\ shown = Truth(ref) /\ [Quiet]_vars
      /\ [shown' # shown => shown' = Truth(ref)]_vars
      => (shown = Truth(ref))'
  BY DEF Quiet, Truth, vars
<1>3. shown = Truth(ref) => (ref # NoRef => Display = Truth(ref))
  BY DEF Truth, Display, State
<1>4. QED
  BY <1>1, <1>2, <1>3, PTL DEF CatchesUp
=============================================================================
