------------------------------ MODULE Lifecycle ------------------------------
(***************************************************************************)
(* The life of one process of a service, from its environment to its exit  *)
(* code: main and run of services/scaffolder/cmd/scaffolder/main.go and of *)
(* services/status-api/cmd/status-api/main.go, with FromEnv of both config *)
(* packages and New of both k8s packages.                                  *)
(*                                                                         *)
(* Up to three goroutines meet in a select: the listener and, in the       *)
(* status API, the start of the informers report an error through a        *)
(* channel of capacity one; a SIGTERM ends a context, which the start of   *)
(* the informers listens to as well.                                       *)
(*                                                                         *)
(* Requests come through a Service, which sends them to a pod that answers *)
(* /readyz with 200; the scaffolder always does.  A handler takes as long  *)
(* as it likes.                                                            *)
(***************************************************************************)
EXTENDS Integers

CONSTANTS
  Requests,  \* the requests that are sent to the process, once each
  Grace      \* ticks of the ten seconds that Shutdown may take

ASSUME GraceAssumption == Grace \in Nat \ {0}

VARIABLES
  service,    \* which of the two programs runs
  env,        \* what its environment provides
  main,       \* where run is
  code,       \* the exit code, once there is one
  serve,      \* the goroutine of ListenAndServe
  sync,       \* the goroutine of store.Start, "none" in the scaffolder
  errs,       \* errors in errCh, of capacity 1
  signalled,  \* the context of NotifyContext is done
  conn,       \* conn[r]: what became of request r
  clock       \* ticks of the grace period that have passed

Environments ==
  [token : BOOLEAN, owner : BOOLEAN, seconds : {"unset", "positive", "other"},
   credentials : {"in-cluster", "kubeconfig", "none"}]

setup == <<service, env>>
vars == <<setup, main, code, serve, sync, errs, signalled, conn, clock>>

Init ==
  /\ service \in {"scaffolder", "status-api"}
  /\ env \in Environments
  /\ main = "config"
  /\ code = "none"
  /\ serve = "none"
  /\ sync = "none"
  /\ errs = 0
  /\ signalled = FALSE
  /\ conn = [r \in Requests |-> "none"]
  /\ clock = 0

InFlight == {r \in Requests : conn[r] \in {"early", "active"}}

Exit(status) ==
  /\ main' = "exited"
  /\ code' = status
  /\ conn' = [r \in Requests |-> IF r \in InFlight THEN "cut" ELSE conn[r]]
  /\ UNCHANGED <<setup, serve, sync, errs, signalled, clock>>

-----------------------------------------------------------------------------
(* Start-up. *)

ScaffolderFromEnv == env.token /\ env.owner /\ env.seconds # "other"

StatusFromEnv == env.seconds # "other"

(* Credentials of the pod, or else a kubeconfig. *)
NewClients == env.credentials # "none"

Configured ==
  /\ IF service = "scaffolder" THEN ScaffolderFromEnv ELSE StatusFromEnv
  /\ NewClients

Launch ==
  /\ main' = "select"
  /\ serve' = "starting"
  /\ sync' = IF service = "status-api" THEN "waiting" ELSE "none"
  /\ UNCHANGED <<setup, code, errs, signalled, conn, clock>>

Configure ==
  /\ main = "config"
  /\ \/ ~Configured /\ Exit("1")
     \/ Configured /\ service = "status-api" /\ Launch
     \/ /\ Configured /\ service = "scaffolder"
        /\ main' = "scopes"
        /\ UNCHANGED <<setup, code, serve, sync, errs, signalled, conn, clock>>

(* CheckTokenScopes asks GitHub, without a deadline, and only logs.        *)
CheckTokenScopes == main = "scopes" /\ Launch

-----------------------------------------------------------------------------
(* The goroutines. *)

Serve(to) ==
  /\ serve' = to
  /\ UNCHANGED <<setup, main, code, sync, errs, signalled, conn, clock>>

Listen ==
  /\ main \in {"select", "shutdown"} /\ serve = "starting"
  /\ \/ main = "select" /\ Serve("listening")
     \/ main = "shutdown" /\ Serve("closed")
     \/ Serve("failed")

ServeBreaks == main = "select" /\ serve = "listening" /\ Serve("failed")

Sync(to) ==
  /\ main \in {"select", "shutdown"}
  /\ sync' = to
  /\ UNCHANGED <<setup, main, code, serve, errs, signalled, conn, clock>>

(* The caches are filled; Start notices at its next look, 100 ms later.    *)
CachesFilled == sync = "waiting" /\ Sync("warm")

StartReturns == sync = "warm" /\ Sync("synced")

(* Start stays for as long as the informers run.                           *)
StartFailsLate == sync \in {"waiting", "warm", "synced"} /\ signalled /\ Sync("failed")

StartFails == sync \in {"waiting", "warm"} /\ signalled /\ Sync("failed")

(* errCh <- err; with the channel full the goroutine stays where it is.    *)
SendServe ==
  /\ main \in {"select", "shutdown"} /\ serve = "failed" /\ errs = 0
  /\ serve' = "sent" /\ errs' = 1
  /\ UNCHANGED <<setup, main, code, sync, signalled, conn, clock>>

SendSync ==
  /\ main \in {"select", "shutdown"} /\ sync = "failed" /\ errs = 0
  /\ sync' = "sent" /\ errs' = 1
  /\ UNCHANGED <<setup, main, code, serve, signalled, conn, clock>>

-----------------------------------------------------------------------------
(* The select, and what follows it. *)

SelectError == main = "select" /\ errs = 1 /\ Exit("1")

SelectDone ==
  /\ main = "select" /\ signalled
  /\ main' = "shutdown"
  /\ serve' = IF serve = "listening" THEN "closed" ELSE serve
  /\ UNCHANGED <<setup, code, sync, errs, signalled, conn, clock>>

(* The grace period is counted once too often.                             *)
TickPastGrace ==
  /\ main = "shutdown" /\ clock <= Grace
  /\ clock' = clock + 1
  /\ UNCHANGED <<setup, main, code, serve, sync, errs, signalled, conn>>

Tick ==
  /\ main = "shutdown" /\ clock < Grace
  /\ clock' = clock + 1
  /\ UNCHANGED <<setup, main, code, serve, sync, errs, signalled, conn>>

(* Shutdown found no connection in use. *)
Drained == main = "shutdown" /\ InFlight = {} /\ Exit("0")

(* The error of Shutdown is dropped.                                       *)
GraceEndsQuietly == main = "shutdown" /\ clock = Grace /\ Exit("0")

(* Shutdown without a deadline.                                            *)
GraceNeverEnds == main = "shutdown" /\ clock = Grace /\ InFlight = {} /\ Exit("1")

(* Shutdown returns the error of its context; it looks at the connections  *)
(* now and then, and may have missed the last one closing.                 *)
GraceEnds == main = "shutdown" /\ clock = Grace /\ Exit("1")

-----------------------------------------------------------------------------
(* The world outside. *)

(* The first SIGTERM; a second one changes nothing.                        *)
Signal ==
  /\ main = "select" /\ ~signalled
  /\ signalled' = TRUE
  /\ UNCHANGED <<setup, main, code, serve, sync, errs, conn, clock>>

(* SIGKILL, a panic, or a SIGTERM before NotifyContext.                    *)
Kill == main # "exited" /\ Exit("killed")

(* handleReady: 200 once the caches are filled; handleHealth: always.      *)
Ready == service = "scaffolder" \/ sync \in {"warm", "synced", "failed", "sent"}

(* "early": before store.Start has returned. *)
Accept(r) ==
  /\ main = "select" /\ serve = "listening" /\ Ready
  /\ conn[r] = "none"
  /\ conn' = [conn EXCEPT ![r] =
       IF sync \in {"none", "synced"} THEN "active" ELSE "early"]
  /\ UNCHANGED <<setup, main, code, serve, sync, errs, signalled, clock>>

Answer(r) ==
  /\ main # "exited" /\ r \in InFlight
  /\ conn' = [conn EXCEPT ![r] = "answered"]
  /\ UNCHANGED <<setup, main, code, serve, sync, errs, signalled, clock>>

Next ==
  \/ Configure \/ CheckTokenScopes
  \/ Listen \/ ServeBreaks
  \/ CachesFilled \/ StartReturns \/ StartFails
  \/ SendServe \/ SendSync
  \/ SelectError \/ SelectDone \/ Tick \/ Drained \/ GraceEnds
  \/ Signal \/ Kill
  \/ \E r \in Requests : Accept(r) \/ Answer(r)

(* Runnable goroutines run and timers fire; nothing is assumed of handlers,*)
(* of the caches or of the network.                                        *)
Fairness ==
  /\ WF_vars(SendServe) /\ WF_vars(SelectError) /\ WF_vars(SelectDone)
  /\ WF_vars(Tick) /\ WF_vars(GraceEnds)

Spec == Init /\ [][Next]_vars
FairSpec == Spec /\ Fairness

-----------------------------------------------------------------------------
(* Every variable has its type. *)
TypeOK ==
  /\ service \in {"scaffolder", "status-api"}
  /\ env \in Environments
  /\ main \in {"config", "scopes", "select", "shutdown", "exited"}
  /\ code \in {"none", "0", "1", "killed"}
  /\ serve \in {"none", "starting", "listening", "failed", "sent", "closed"}
  /\ sync \in {"none", "waiting", "warm", "synced", "failed", "sent"}
  /\ errs \in 0 .. 1
  /\ signalled \in BOOLEAN
  /\ conn \in [Requests -> {"none", "early", "active", "answered", "cut"}]
  /\ clock \in 0 .. Grace

(* Exit code 0 means that the process was asked to end and that no request *)
(* was cut off: whoever reads the code, the kubelet or a person, need not  *)
(* look for lost work (scaffolder main.go:29-32 and 92-94).                *)
CleanExit ==
  code = "0" => signalled /\ \A r \in Requests : conn[r] # "cut"

(* A request that was accepted after start-up is cut off only by a kill,   *)
(* by the end of the grace period or by a listener that failed; never by   *)
(* the other goroutine that writes to errCh, although a SIGTERM ends the   *)
(* context that one waits on, too (status-api main.go:65-75).              *)
GraceIsGiven ==
  [][\A r \in Requests :
       conn[r] = "active" /\ conn'[r] = "cut" =>
         code' = "killed" \/ clock = Grace \/ serve = "sent"]_vars

(* A process that was asked to end, or whose listener failed, does end,    *)
(* whatever its handlers are waiting for (main.go:92).                     *)
Ends == (signalled \/ serve = "failed") ~> main = "exited"
=============================================================================
