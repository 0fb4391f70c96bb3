----------------------------- MODULE Discovery ------------------------------
(***************************************************************************)
(* GET /catalog/discovery: services/scaffolder/internal/discovery and      *)
(* handleDiscovery of internal/httpapi/server.go.                          *)
(*                                                                         *)
(* Discover holds one mutex from the look at the cache to the end of the   *)
(* pass over GitHub, calls included.  A pass lists the repositories of the *)
(* account page by page, drops the archived ones as it saw them in the     *)
(* list, and then asks for the catalog file of each of the others.  People *)
(* create, change, archive and delete repositories meanwhile.  Any call    *)
(* may fail; a caller that hangs up makes its own pass fail.               *)
(***************************************************************************)
EXTENDS Integers, FiniteSets

CONSTANTS
  Clients,    \* requests in flight at once
  Names,      \* repository names: numbers, in the order GitHub lists them
  PageSize,   \* repositories per page, 100 in the code
  TTL,        \* clock ticks a result is served from the cache
  NoClient,   \* the holder of a free mutex
  MaxFaults,  \* bound on failed calls
  MaxEdits    \* bound on what people do to the account

ASSUME ConstantsAssumption ==
  /\ Names \subseteq Nat /\ IsFiniteSet(Names)
  /\ PageSize \in Nat \ {0} /\ TTL \in Nat \ {0}
  /\ NoClient \notin Clients
  /\ MaxFaults \in Nat /\ MaxEdits \in Nat

VARIABLES
  account,  \* account[r]: "gone", "plain", "catalog" or "archived"
  stored,   \* there is a cached result
  cached,   \* its targets, those of the last complete pass
  age,      \* ticks since the result was stored, as far as TTL
  mu,       \* the request that holds the mutex
  pc,       \* pc[c]: "idle", "waiting", or the step of its pass
  page,     \* the page the pass is about to list
  todo,     \* repositories of the pass still to be asked for the file
  found,    \* targets of the pass so far
  answer,   \* answer[c]: "ok" (with the cached targets), "error" or "none"
  faults, edits,
  stable,   \* history: catalogued and listed as such since the pass began
  shifted   \* history: a repository was deleted since the pass began

cache == <<stored, cached, age>>
pass == <<page, todo, found>>
history == <<stable, shifted>>
vars == <<account, cache, mu, pc, pass, answer, faults, edits, history>>

Passing == {"list", "check", "store"}
Existing == {r \in Names : account[r] # "gone"}
Catalogued == {r \in Names : account[r] = "catalog"}

Init ==
  /\ account \in [Names -> {"gone", "plain", "catalog"}]
  /\ stored = FALSE /\ cached = {} /\ age = 0
  /\ mu = NoClient
  /\ pc = [c \in Clients |-> "idle"]
  /\ page = 1 /\ todo = {} /\ found = {}
  /\ answer = [c \in Clients |-> "none"]
  /\ faults = 0 /\ edits = 0
  /\ stable = {} /\ shifted = FALSE

-----------------------------------------------------------------------------
(* One request. *)

Request(c) ==
  /\ pc[c] = "idle"
  /\ pc' = [pc EXCEPT ![c] = "waiting"]
  /\ answer' = [answer EXCEPT ![c] = "none"]
  /\ UNCHANGED <<account, cache, mu, pass, faults, edits, history>>

(* The answer to c, and the mutex released. *)
Return(c, result) ==
  /\ pc' = [pc EXCEPT ![c] = "idle"]
  /\ answer' = [answer EXCEPT ![c] = result]
  /\ mu' = NoClient

(* A result is served from the cache for as long as it is there. *)
ExpiredNever == ~stored

Expired == ~stored \/ age = TTL

Hit(c) ==
  /\ pc[c] = "waiting"
  /\ mu = NoClient
  /\ ~Expired
  /\ Return(c, "ok")
  /\ UNCHANGED <<account, cache, pass, faults, edits, history>>

(* Pages are counted from 0. *)
BeginPassAtZero(c) ==
  /\ page' = 0 /\ todo' = {} /\ found' = {}
  /\ pc' = [pc EXCEPT ![c] = "list"]
  /\ stable' = Catalogued
  /\ shifted' = FALSE

BeginPass(c) ==
  /\ page' = 1 /\ todo' = {} /\ found' = {}
  /\ pc' = [pc EXCEPT ![c] = "list"]
  /\ stable' = Catalogued
  /\ shifted' = FALSE

(* The cache is looked at before the mutex is taken. *)
MissUnlocked(c) ==
  /\ pc[c] = "waiting"
  /\ Expired
  /\ BeginPass(c)
  /\ mu' = c
  /\ UNCHANGED <<account, cache, answer, faults, edits>>

Miss(c) ==
  /\ pc[c] = "waiting"
  /\ mu = NoClient
  /\ Expired
  /\ BeginPass(c)
  /\ mu' = c
  /\ UNCHANGED <<account, cache, answer, faults, edits>>

Rank(r) == Cardinality({q \in Existing : q <= r})
Listed == {r \in Existing : (page - 1) * PageSize < Rank(r)
                            /\ Rank(r) <= page * PageSize}

(* GitHub names another page as long as the account has more repositories. *)
NextPage == page * PageSize < Cardinality(Existing)

(* Only the first page is listed. *)
ListFirst(c) ==
  /\ pc[c] = "list"
  /\ todo' = todo \cup {r \in Listed : account[r] # "archived"}
  /\ pc' = [pc EXCEPT ![c] = "check"]
  /\ UNCHANGED <<page, account, cache, mu, found, answer, faults, edits, history>>

List(c) ==
  /\ pc[c] = "list"
  /\ todo' = todo \cup {r \in Listed : account[r] # "archived"}
  /\ IF NextPage
       THEN page' = page + 1 /\ UNCHANGED pc
       ELSE pc' = [pc EXCEPT ![c] = "check"] /\ UNCHANGED page
  /\ UNCHANGED <<account, cache, mu, found, answer, faults, edits, history>>

(* GetContents finds the file in an archived repository too, and answers   *)
(* 404 for a repository that is gone.                                      *)
HasCatalogFile(r) == account[r] \in {"catalog", "archived"}

Check(c) ==
  /\ pc[c] = "check"
  /\ IF todo = {}
       THEN /\ pc' = [pc EXCEPT ![c] = "store"]
            /\ UNCHANGED <<todo, found>>
       ELSE \E r \in todo :
              /\ \A q \in todo : r <= q
              /\ todo' = todo \ {r}
              /\ found' = IF HasCatalogFile(r) THEN found \cup {r} ELSE found
              /\ UNCHANGED pc
  /\ UNCHANGED <<account, cache, mu, page, answer, faults, edits, history>>

Store(c) ==
  /\ pc[c] = "store"
  /\ stored' = TRUE
  /\ cached' = found
  /\ age' = 0
  /\ Return(c, "ok")
  /\ UNCHANGED <<account, pass, faults, edits, history>>

Fault == faults < MaxFaults /\ faults' = faults + 1

(* A failed listing serves the cached result, an expired one too. *)
ListFails(c) ==
  /\ pc[c] = "list"
  /\ Fault
  /\ Return(c, IF stored THEN "ok" ELSE "error")
  /\ UNCHANGED <<account, cache, pass, edits, history>>

(* The early return forgets the mutex. *)
CheckFailsLocked(c) ==
  /\ pc[c] = "check"
  /\ todo # {}
  /\ Fault
  /\ pc' = [pc EXCEPT ![c] = "idle"]
  /\ answer' = [answer EXCEPT ![c] = "error"]
  /\ UNCHANGED <<account, cache, mu, pass, edits, history>>

(* A failed check of one repository ends the pass with an error, whether   *)
(* or not there is a cached result.                                        *)
CheckFails(c) ==
  /\ pc[c] = "check"
  /\ todo # {}
  /\ Fault
  /\ Return(c, "error")
  /\ UNCHANGED <<account, cache, pass, edits, history>>

-----------------------------------------------------------------------------
(* Time, and the owner of the account. *)

Tick ==
  /\ stored
  /\ age < TTL
  /\ age' = age + 1
  /\ UNCHANGED <<account, stored, cached, mu, pc, pass, answer, faults, edits, history>>

Edit(r) ==
  /\ edits < MaxEdits
  /\ edits' = edits + 1
  /\ \E new \in {"gone", "plain", "catalog", "archived"} \ {account[r]} :
       /\ account' = [account EXCEPT ![r] = new]
       /\ stable' = stable \ {r}
       /\ shifted' = (shifted \/ new = "gone")
  /\ UNCHANGED <<cache, mu, pc, pass, answer, faults>>

Handle(c) ==
  Hit(c) \/ Miss(c) \/ List(c) \/ Check(c) \/ Store(c)

Next ==
  \/ \E c \in Clients : Request(c) \/ Handle(c) \/ ListFails(c) \/ CheckFails(c)
  \/ Tick
  \/ \E r \in Names : Edit(r)

(* A sync.Mutex in starvation mode serves its waiters in turn, so a waiter *)
(* that can be served again and again is: strong fairness of taking it.    *)
Fairness ==
  /\ \A c \in Clients :
       /\ SF_vars(Hit(c) \/ Miss(c))
       /\ WF_vars(List(c) \/ Check(c) \/ Store(c))
       /\ WF_vars(Request(c))
  /\ WF_vars(Tick)

Spec == Init /\ [][Next]_vars
FairSpec == Spec /\ Fairness

-----------------------------------------------------------------------------
(* Every variable has its type. *)
TypeOK ==
  /\ account \in [Names -> {"gone", "plain", "catalog", "archived"}]
  /\ stored \in BOOLEAN
  /\ cached \subseteq Names
  /\ age \in 0 .. TTL
  /\ mu \in Clients \cup {NoClient}
  /\ pc \in [Clients -> Passing \cup {"idle", "waiting"}]
  /\ page \in Nat \ {0}
  /\ todo \subseteq Names
  /\ found \subseteq Names
  /\ answer \in [Clients -> {"none", "ok", "error"}]
  /\ faults \in 0 .. MaxFaults
  /\ edits \in 0 .. MaxEdits
  /\ stable \subseteq Names
  /\ shifted \in BOOLEAN

(* However many requests arrive at once, and whatever calls fail, GitHub   *)
(* is read once per TTL: a stored result stays until it has expired and    *)
(* another pass has been stored (discovery.go:69-89, 100-114).             *)
OnePassPerTTL ==
  [][stored => /\ stored'
               /\ cached' # cached \/ (\E c \in Clients : Store(c)) => age = TTL]_vars

(* A stored result leaves out no repository that was catalogued during the *)
(* whole pass, however the account grew and changed between two pages, as  *)
(* long as nothing was deleted (server.go:97-98, discovery.go:124-146).    *)
PassIsComplete ==
  [][(\E c \in Clients : Store(c)) /\ ~shifted => stable \subseteq cached']_vars

(* Every request is answered, even while others hold the mutex.            *)
Answered == \A c \in Clients : pc[c] = "waiting" ~> pc[c] = "idle"

(* Once the account is left alone and calls succeed, the catalog catches   *)
(* up with it and stays right (discovery.go:69-71).                        *)
CatchesUp == <>[](stored /\ cached = Catalogued)

-----------------------------------------------------------------------------
(* What the repository says of the code, and the code does not do. *)

(* docs/decisions.md:41: when GitHub fails, the last good result is served.*)
OutageServesStale ==
  [][\A c \in Clients :
       answer'[c] = "error" /\ answer[c] # "error" => ~stored]_vars
=============================================================================
