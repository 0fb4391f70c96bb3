--------------------------- MODULE LifecycleProofs ---------------------------
(***************************************************************************)
(* Theorems about Lifecycle, for any number of requests and any length of  *)
(* the grace period.                                                       *)
(***************************************************************************)
EXTENDS Lifecycle, TLAPS

(* Until the process exits there is no code and nothing is cut off; no     *)
(* request comes in before it listens; an error is in the channel only     *)
(* because one of the two goroutines sent it.                              *)
Books ==
  /\ main # "exited" => code = "none" /\ \A r \in Requests : conn[r] # "cut"
  /\ main \in {"config", "scopes"} =>
       errs = 0 /\ \A r \in Requests : conn[r] = "none"
  /\ main = "shutdown" => signalled
  /\ errs = 1 => serve = "sent" \/ sync = "sent"

(* Where Start has not returned, or has failed, no request counts as one   *)
(* that was accepted after start-up.                                       *)
EarlyOnly ==
  sync \in {"waiting", "warm", "failed", "sent"} =>
    \A r \in Requests : conn[r] # "active"

(* The invariant.                                                          *)
IInv == TypeOK /\ Books /\ EarlyOnly /\ CleanExit

(* No step leaves the types.                                               *)
LEMMA TypeStep == ASSUME TypeOK, [Next]_vars PROVE TypeOK'
  <1> USE GraceAssumption DEF TypeOK, InFlight
  <1>1. CASE Configure
    BY <1>1 DEF Configure, Exit, Launch, setup
  <1>2. CASE CheckTokenScopes
    BY <1>2 DEF CheckTokenScopes, Launch, setup
  <1>3. CASE Listen \/ ServeBreaks
    BY <1>3 DEF Listen, ServeBreaks, Serve, setup
  <1>4. CASE CachesFilled \/ StartReturns \/ StartFails
    BY <1>4 DEF CachesFilled, StartReturns, StartFails, Sync, setup
  <1>5. CASE SendServe \/ SendSync
    BY <1>5 DEF SendServe, SendSync, setup
  <1>6. CASE SelectError \/ Drained \/ GraceEnds \/ Kill
    BY <1>6 DEF SelectError, Drained, GraceEnds, Kill, Exit, setup
  <1>7. CASE SelectDone
    <2>1. CASE serve = "listening" BY <1>7, <2>1 DEF SelectDone, setup
    <2>2. CASE serve # "listening" BY <1>7, <2>2 DEF SelectDone, setup
    <2> QED BY <2>1, <2>2
  <1>11. CASE Signal
    BY <1>11 DEF Signal, setup
  <1>8. CASE Tick
    BY <1>8 DEF Tick, setup
  <1>9. CASE \E r \in Requests : Accept(r) \/ Answer(r)
    BY <1>9 DEF Accept, Answer, setup
  <1>10. CASE UNCHANGED vars
    BY <1>10 DEF vars, setup
  <1> QED
    BY <1>1, <1>2, <1>3, <1>4, <1>5, <1>6, <1>7, <1>8, <1>9, <1>10, <1>11 DEF Next

(* Initially nothing has been accepted, sent or cut off.                   *)
LEMMA InitIInv == Init => IInv
  <1> SUFFICES ASSUME Init PROVE IInv OBVIOUS
  <1>0. 0 \in 0 .. Grace /\ 0 \in 0 .. 1 BY GraceAssumption
  <1>1. TypeOK BY <1>0, Zenon DEF Init, TypeOK
  <1>2. Books /\ EarlyOnly /\ CleanExit
    BY DEF Init, Books, EarlyOnly, CleanExit
  <1> QED BY <1>1, <1>2 DEF IInv

(* Every step keeps the invariant.                                         *)
LEMMA StepIInv == ASSUME IInv, [Next]_vars PROVE IInv'
  <1>1. TypeOK' BY TypeStep DEF IInv
  <1> USE DEF IInv, TypeOK, InFlight
  <1>2. CASE Configure
    <2>1. CASE Exit("1")
      BY <1>1, <1>2, <2>1 DEF Configure, Exit, Books, EarlyOnly, CleanExit
    <2>2. CASE Launch
      <3>1. Books' BY <1>2, <2>2 DEF Configure, Launch, setup, Books
      <3>2. EarlyOnly' BY <1>2, <2>2 DEF Configure, Launch, setup, Books, EarlyOnly
      <3>3. CleanExit' BY <2>2 DEF Launch, setup, CleanExit
      <3> QED BY <1>1, <3>1, <3>2, <3>3
    <2>3. CASE main' = "scopes" /\ UNCHANGED <<setup, code, serve, sync, errs,
                                               signalled, conn, clock>>
      BY <1>1, <1>2, <2>3 DEF Configure, setup, Books, EarlyOnly, CleanExit
    <2> QED BY <1>2, <2>1, <2>2, <2>3 DEF Configure
  <1>3. CASE CheckTokenScopes
    <2>1. Books' BY <1>3 DEF CheckTokenScopes, Launch, setup, Books
    <2>2. EarlyOnly'
      BY <1>3 DEF CheckTokenScopes, Launch, setup, Books, EarlyOnly
    <2>3. CleanExit' BY <1>3 DEF CheckTokenScopes, Launch, setup, CleanExit
    <2> QED BY <1>1, <2>1, <2>2, <2>3
  <1>4. CASE Listen \/ ServeBreaks
    BY <1>1, <1>4 DEF Listen, ServeBreaks, Serve, setup, Books, EarlyOnly, CleanExit
  <1>5. CASE CachesFilled \/ StartReturns \/ StartFails
    BY <1>1, <1>5 DEF CachesFilled, StartReturns, StartFails, Sync, setup,
                      Books, EarlyOnly, CleanExit
  <1>6. CASE SendServe \/ SendSync
    BY <1>1, <1>6 DEF SendServe, SendSync, setup, Books, EarlyOnly, CleanExit
  <1>7. CASE SelectError \/ GraceEnds \/ Kill
    BY <1>1, <1>7 DEF SelectError, GraceEnds, Kill, Exit, setup,
                      Books, EarlyOnly, CleanExit
  <1>8. CASE Drained
    BY <1>1, <1>8 DEF Drained, Exit, setup, Books, EarlyOnly, CleanExit
  <1>9. CASE SelectDone \/ Signal \/ Tick
    BY <1>1, <1>9 DEF SelectDone, Signal, Tick, setup, Books, EarlyOnly, CleanExit
  <1>10. CASE \E r \in Requests : Accept(r) \/ Answer(r)
    <2> PICK r \in Requests : Accept(r) \/ Answer(r) BY <1>10
    <2>1. Books' /\ EarlyOnly'
      BY <1>1 DEF Accept, Answer, setup, Books, EarlyOnly
    <2>2. CleanExit'
      BY <1>1 DEF Accept, Answer, setup, Books, CleanExit
    <2> QED BY <1>1, <2>1, <2>2
  <1>11. CASE UNCHANGED vars
    BY <1>1, <1>11 DEF vars, setup, Books, EarlyOnly, CleanExit
  <1> QED
    BY <1>2, <1>3, <1>4, <1>5, <1>6, <1>7, <1>8, <1>9, <1>10, <1>11 DEF Next

(* The process is always in a state of the invariant.                      *)
THEOREM Invariance == Spec => []IInv
  BY InitIInv, StepIInv, PTL DEF Spec

(* Every variable has its type.                                            *)
THEOREM TypeCorrect == Spec => []TypeOK
  <1>1. IInv => TypeOK BY DEF IInv
  <1> QED BY Invariance, <1>1, PTL

(* Exit code 0 means asked to end, and nothing cut off (main.go:29-32).    *)
THEOREM ZeroMeansClean == Spec => []CleanExit
  <1>1. IInv => CleanExit BY DEF IInv
  <1> QED BY Invariance, <1>1, PTL

(* The three ways in which a request accepted after start-up is cut off    *)
(* (status-api main.go:65-75).                                             *)
THEOREM OnlyAfterGrace == Spec => GraceIsGiven
  <1>1. ASSUME IInv, Next, NEW r \in Requests, conn[r] = "active", conn'[r] = "cut"
        PROVE  code' = "killed" \/ clock = Grace \/ serve = "sent"
    <2> USE <1>1 DEF IInv, TypeOK, Books, EarlyOnly, InFlight
    <2>1. CASE SelectError
      BY <2>1 DEF SelectError
    <2>2. CASE GraceEnds \/ Kill
      BY <2>2 DEF GraceEnds, Kill, Exit
    <2>3. CASE Configure \/ CheckTokenScopes
      BY <2>3 DEF Configure, CheckTokenScopes, Launch, Exit
    <2>4. CASE Drained
      BY <2>4 DEF Drained
    <2>5. CASE Listen \/ ServeBreaks \/ CachesFilled \/ StartReturns \/ StartFails
      BY <2>5 DEF Listen, ServeBreaks, Serve, CachesFilled, StartReturns,
                  StartFails, Sync
    <2>6. CASE SendServe \/ SendSync \/ SelectDone \/ Tick \/ Signal
      BY <2>6 DEF SendServe, SendSync, SelectDone, Tick, Signal
    <2>7. CASE \E q \in Requests : Accept(q) \/ Answer(q)
      BY <2>7 DEF Accept, Answer
    <2> QED BY <2>1, <2>2, <2>3, <2>4, <2>5, <2>6, <2>7 DEF Next
  <1>2. ASSUME IInv, [Next]_vars, NEW r \in Requests,
               conn[r] = "active", conn'[r] = "cut"
        PROVE  code' = "killed" \/ clock = Grace \/ serve = "sent"
    BY <1>1, <1>2 DEF vars
  <1>3. IInv /\ [Next]_vars =>
          [\A r \in Requests :
             conn[r] = "active" /\ conn'[r] = "cut" =>
               code' = "killed" \/ clock = Grace \/ serve = "sent"]_vars
    BY <1>2
  <1> QED BY Invariance, <1>3, PTL DEF Spec, GraceIsGiven

-----------------------------------------------------------------------------
(* The process has to end: it was asked to, or its listener failed.        *)
Ending == signalled \/ serve \in {"failed", "sent"}

(* It got that far, and its own failure is in the channel once it is sent. *)
Launched ==
  /\ Ending => main \notin {"config", "scopes"}
  /\ serve = "sent" => errs = 1
  /\ main \in {"config", "scopes", "select"} => clock = 0

(* Some goroutine that Fairness makes run can run.                         *)
Runnable ==
  \/ main = "select" /\ (signalled \/ errs = 1 \/ serve = "failed")
  \/ main = "shutdown"

(* A bound of the steps that these goroutines have left.                   *)
StepsLeft ==
  CASE main = "exited"   -> 0
    [] main = "shutdown" -> 1 + (Grace - clock)
    [] OTHER             -> 3 + Grace - errs

(* The steps of Fairness, as long as they bring the end any closer.        *)
Forward ==
  (main = "select" /\ SendServe) \/ SelectError \/ SelectDone \/ Tick \/ GraceEnds

(* What every step does to the way that is left.                           *)
Nearer ==
  Ending => /\ Ending'
            /\ StepsLeft' <= StepsLeft
            /\ Forward => StepsLeft' < StepsLeft

(* The way is never longer than that, and ends only at the exit.           *)
LEMMA Distance ==
  ASSUME TypeOK
  PROVE  StepsLeft \in 0 .. 3 + Grace /\ (StepsLeft = 0 <=> main = "exited")
<1> USE GraceAssumption DEF TypeOK
<1>1. CASE main = "exited"
  BY <1>1 DEF StepsLeft
<1>2. CASE main = "shutdown"
  BY <1>2 DEF StepsLeft
<1>3. CASE main \notin {"exited", "shutdown"}
  BY <1>3 DEF StepsLeft
<1>4. QED
  BY <1>1, <1>2, <1>3

(* A step that leaves main and the channel alone leaves the way alone.     *)
LEMMA SameWay ==
  ASSUME UNCHANGED <<main, clock, errs>> PROVE StepsLeft' = StepsLeft
  BY DEF StepsLeft

(* Every step keeps Launched, and goes towards the end or nowhere.         *)
LEMMA StepNearer ==
  ASSUME IInv, Launched, [Next]_vars PROVE Launched' /\ Nearer
<1> USE GraceAssumption DEF IInv, TypeOK
<1>0. IInv' /\ StepsLeft \in 0 .. 3 + Grace /\ (StepsLeft = 0 <=> main = "exited")
  BY StepIInv, Distance
<1>1. CASE SelectError \/ GraceEnds \/ Drained \/ Kill
  <2>1. /\ main # "exited" /\ main' = "exited"
        /\ UNCHANGED <<serve, errs, signalled, clock>>
    BY <1>1 DEF SelectError, GraceEnds, Drained, Kill, Exit
  <2>2. StepsLeft' = 0 /\ 0 < StepsLeft
    BY <1>0, <2>1 DEF StepsLeft
  <2>3. QED
    BY <1>0, <2>1, <2>2 DEF Launched, Nearer, Ending
<1>2. CASE SelectDone
  <2>1. /\ main = "select" /\ main' = "shutdown" /\ signalled
        /\ UNCHANGED <<errs, signalled, clock>>
        /\ serve' = IF serve = "listening" THEN "closed" ELSE serve
    BY <1>2 DEF SelectDone
  <2>2. StepsLeft = 3 + Grace - errs /\ StepsLeft' = 1 + (Grace - clock) /\ clock = 0
    BY <2>1 DEF StepsLeft, Launched
  <2>3. StepsLeft' < StepsLeft /\ StepsLeft' <= StepsLeft
    BY <2>2
  <2>4. Launched'
    BY <2>1 DEF Launched, Ending
  <2>5. QED
    BY <2>1, <2>3, <2>4 DEF Nearer, Ending
<1>3. CASE Tick
  <2>1. /\ main = "shutdown" /\ clock < Grace /\ clock' = clock + 1
        /\ UNCHANGED <<main, serve, errs, signalled>>
    BY <1>3 DEF Tick
  <2>2. StepsLeft = 1 + (Grace - clock) /\ StepsLeft' = 1 + (Grace - (clock + 1))
    BY <2>1 DEF StepsLeft
  <2>3. StepsLeft' < StepsLeft /\ StepsLeft' <= StepsLeft
    BY <2>2
  <2>4. Launched'
    BY <2>1 DEF Launched, Ending
  <2>5. QED
    BY <2>1, <2>3, <2>4 DEF Nearer, Ending
<1>4. CASE SendServe \/ SendSync
  <2>1. /\ main \in {"select", "shutdown"} /\ errs = 0 /\ errs' = 1
        /\ UNCHANGED <<main, signalled, clock>>
        /\ (serve' = "sent" /\ serve = "failed") \/ UNCHANGED serve
    BY <1>4 DEF SendServe, SendSync
  <2>2. StepsLeft' <= StepsLeft /\ (main = "select" => StepsLeft' < StepsLeft)
    BY <2>1 DEF StepsLeft
  <2>3. ~SelectError /\ ~SelectDone /\ ~Tick /\ ~GraceEnds
    BY <2>1 DEF SelectError, SelectDone, Tick, GraceEnds, Exit
  <2>4. QED
    BY <2>1, <2>2, <2>3 DEF Launched, Nearer, Ending, Forward
<1>5. CASE Configure \/ CheckTokenScopes
  <2>1. main \in {"config", "scopes"} /\ ~Ending
    BY <1>5 DEF Configure, CheckTokenScopes, Launched
  <2>2. /\ UNCHANGED <<signalled, errs, clock>>
        /\ serve' \in {serve, "starting"}
    BY <1>5 DEF Configure, CheckTokenScopes, Launch, Exit
  <2>3. QED
    BY <2>1, <2>2 DEF Launched, Nearer, Ending
<1>6. CASE Listen \/ ServeBreaks
  <2>1. /\ UNCHANGED <<main, errs, signalled, clock>>
        /\ main \in {"select", "shutdown"} /\ serve \in {"starting", "listening"}
        /\ serve' # "sent"
    BY <1>6 DEF Listen, ServeBreaks, Serve
  <2>2. QED
    BY <2>1, <1>0, SameWay DEF Launched, Nearer, Ending, Forward, Books,
       SendServe, SelectError, SelectDone, Tick, GraceEnds, Exit
<1>7. CASE CachesFilled \/ StartReturns \/ StartFails \/ UNCHANGED vars
           \/ \E r \in Requests : Accept(r) \/ Answer(r)
  <2>1. UNCHANGED <<main, errs, signalled, clock, serve>>
    BY <1>7 DEF CachesFilled, StartReturns, StartFails, Sync, Accept, Answer, vars
  <2>2. ~Forward
    BY <2>1 DEF Forward, SendServe, SelectError, SelectDone, Tick, GraceEnds, Exit
  <2>3. QED
    BY <2>1, <2>2, <1>0, SameWay DEF Launched, Nearer, Ending
<1>8. CASE Signal
  <2>1. /\ UNCHANGED <<main, errs, clock, serve>> /\ main = "select"
        /\ signalled' = TRUE
    BY <1>8 DEF Signal
  <2>2. ~Forward
    BY <2>1, <1>8 DEF Forward, Signal, SendServe, SelectError, SelectDone, Tick, GraceEnds, Exit
  <2>3. QED
    BY <2>1, <2>2, <1>0, SameWay DEF Launched, Nearer, Ending
<1>9. QED
  BY <1>1, <1>2, <1>3, <1>4, <1>5, <1>6, <1>7, <1>8 DEF Next

(* The part of Ends that is not liveness: a process that has to end can go *)
(* on until it exits, as the channel is full only with an error that the   *)
(* select may take; the goroutines that run have a bounded way to go, and  *)
(* nothing that handlers, callers or caches do makes it longer             *)
(* (scaffolder main.go:73-92, status-api main.go:57-92).                   *)
THEOREM AlwaysAWayOut ==
  Spec => /\ [](Ending /\ main # "exited" => Runnable)
          /\ [][Nearer]_vars
<1>1. Init => Launched
  BY DEF Init, Launched, Ending
<1>2. IInv /\ Launched /\ [Next]_vars => Launched' /\ [Nearer]_vars
  BY StepNearer
<1>3. IInv /\ Launched => (Ending /\ main # "exited" => Runnable)
  BY DEF IInv, TypeOK, Launched, Ending, Runnable
<1>4. QED
  BY <1>1, <1>2, <1>3, Invariance, PTL DEF Spec
=============================================================================
