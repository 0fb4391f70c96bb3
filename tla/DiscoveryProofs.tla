--------------------------- MODULE DiscoveryProofs --------------------------
(***************************************************************************)
(* Theorems about Discovery, for every number of requests, repositories,   *)
(* page size and TTL.                                                      *)
(***************************************************************************)
EXTENDS Discovery, FiniteSetTheorems, TLAPS

(* Every step keeps the types.                                             *)
LEMMA NextType == TypeOK /\ [Next]_vars => TypeOK'
<1> USE ConstantsAssumption
<1> SUFFICES ASSUME TypeOK, [Next]_vars PROVE TypeOK'
  OBVIOUS
<1> USE DEF TypeOK, Passing, Return, Fault, cache, pass, history
<1>1. ASSUME NEW c \in Clients, Request(c) PROVE TypeOK'
  BY <1>1 DEF Request
<1>2. ASSUME NEW c \in Clients, Hit(c) PROVE TypeOK'
  BY <1>2 DEF Hit
<1>3. ASSUME NEW c \in Clients, Miss(c) PROVE TypeOK'
  <2>1. stable' \subseteq Names
    BY <1>3 DEF Miss, BeginPass, Catalogued
  <2>2. page' \in Nat \ {0}
    BY <1>3 DEF Miss, BeginPass
  <2>3. shifted' \in BOOLEAN
    BY <1>3, Zenon DEF Miss, BeginPass
  <2>4. pc' \in [Clients -> Passing \cup {"idle", "waiting"}]
    BY <1>3 DEF Miss, BeginPass
  <2>5. mu' \in Clients \cup {NoClient} /\ todo' \subseteq Names /\ found' \subseteq Names
    BY <1>3 DEF Miss, BeginPass
  <2>6. UNCHANGED <<account, stored, cached, age, answer, faults, edits>>
    BY <1>3 DEF Miss
  <2>7. QED
    BY <2>1, <2>2, <2>4, <2>5, <2>6, <2>3
<1>4. ASSUME NEW c \in Clients, List(c) PROVE TypeOK'
  <2>1. todo' \subseteq Names
    BY <1>4 DEF List, Listed, Existing
  <2>2. QED
    BY <1>4, <2>1 DEF List
<1>5. ASSUME NEW c \in Clients, Check(c) PROVE TypeOK'
  BY <1>5 DEF Check
<1>6. ASSUME NEW c \in Clients, Store(c) PROVE TypeOK'
  BY <1>6 DEF Store
<1>7. ASSUME NEW c \in Clients, ListFails(c) PROVE TypeOK'
  BY <1>7 DEF ListFails
<1>8. ASSUME NEW c \in Clients, CheckFails(c) PROVE TypeOK'
  BY <1>8 DEF CheckFails
<1>9. CASE Tick
  BY <1>9 DEF Tick
<1>10. ASSUME NEW r \in Names, Edit(r) PROVE TypeOK'
  BY <1>10 DEF Edit
<1>11. CASE UNCHANGED vars
  BY <1>11 DEF vars
<1>12. QED
  BY <1>1, <1>2, <1>3, <1>4, <1>5, <1>6, <1>7, <1>8, <1>9, <1>10, <1>11
  DEF Next, Handle

(* Every variable of discovery has its type, in every behaviour.           *)
THEOREM TypeCorrect == Spec => []TypeOK
<1>1. Init => TypeOK
  <2> SUFFICES ASSUME Init PROVE TypeOK
    OBVIOUS
  <2>1. account \in [Names -> {"gone", "plain", "catalog", "archived"}]
    BY DEF Init
  <2>2. age \in 0 .. TTL /\ faults \in 0 .. MaxFaults /\ edits \in 0 .. MaxEdits
    BY ConstantsAssumption DEF Init
  <2>3. page \in Nat \ {0}
    BY DEF Init
  <2>4. stored \in BOOLEAN /\ shifted \in BOOLEAN
    BY Zenon DEF Init
  <2>5. pc \in [Clients -> Passing \cup {"idle", "waiting"}]
    BY DEF Init
  <2>6. answer \in [Clients -> {"none", "ok", "error"}]
    BY DEF Init
  <2>7. QED
    BY <2>1, <2>2, <2>3, <2>5, <2>6, <2>4 DEF Init, TypeOK
<1>2. QED
  BY <1>1, NextType, PTL DEF Spec

(* The mutex is held by the request that is in a pass, and by no other.    *)
MutexHeld == \A c \in Clients : pc[c] \in Passing <=> mu = c

(* The cached result does not become fresh again while a pass is running.  *)
PassMeansExpired == mu # NoClient => ~stored \/ age = TTL

Locked == MutexHeld /\ PassMeansExpired

(* One request at a time passes, and only while nothing fresh is stored.   *)
LEMMA LockedAlways == Spec => []Locked
<1> USE ConstantsAssumption
<1>1. Init => Locked
  BY DEF Init, Locked, MutexHeld, PassMeansExpired, Passing
<1>2. TypeOK /\ Locked /\ [Next]_vars => Locked'
  <2> SUFFICES ASSUME TypeOK, Locked, [Next]_vars PROVE Locked'
    OBVIOUS
  <2> USE DEF TypeOK, Locked, MutexHeld, PassMeansExpired, Passing,
              Return, cache, pass
  <2>1. ASSUME NEW c \in Clients, Request(c) PROVE Locked'
    BY <2>1 DEF Request
  <2>2. ASSUME NEW c \in Clients, Hit(c) PROVE Locked'
    BY <2>2 DEF Hit
  <2>3. ASSUME NEW c \in Clients, Miss(c) PROVE Locked'
    BY <2>3 DEF Miss, BeginPass, Expired
  <2>4. ASSUME NEW c \in Clients, List(c) PROVE Locked'
    BY <2>4 DEF List
  <2>5. ASSUME NEW c \in Clients, Check(c) PROVE Locked'
    BY <2>5 DEF Check
  <2>6. ASSUME NEW c \in Clients, Store(c) PROVE Locked'
    BY <2>6 DEF Store
  <2>7. ASSUME NEW c \in Clients, ListFails(c) PROVE Locked'
    BY <2>7 DEF ListFails
  <2>8. ASSUME NEW c \in Clients, CheckFails(c) PROVE Locked'
    BY <2>8 DEF CheckFails
  <2>9. CASE Tick
    BY <2>9 DEF Tick
  <2>10. ASSUME NEW r \in Names, Edit(r) PROVE Locked'
    BY <2>10 DEF Edit
  <2>11. CASE UNCHANGED vars
    BY <2>11 DEF vars
  <2>12. QED
    BY <2>1, <2>2, <2>3, <2>4, <2>5, <2>6, <2>7, <2>8, <2>9, <2>10, <2>11
    DEF Next, Handle
<1>3. QED
  BY <1>1, <1>2, TypeCorrect, PTL DEF Spec

(* A pass stores its result over none, or over an expired one: requests    *)
(* that arrive together never read GitHub twice within a TTL, and a pass   *)
(* that fails costs nobody what is cached.                                 *)
THEOREM GitHubReadOncePerTTL == Spec => OnePassPerTTL
<1> DEFINE Kept == stored => /\ stored'
                             /\ cached' # cached \/ (\E c \in Clients : Store(c))
                                  => age = TTL
<1>1. ASSUME Locked, [Next]_vars PROVE Kept
  <2>1. ASSUME NEW c \in Clients, Store(c), stored PROVE age = TTL /\ stored'
    BY <1>1, <2>1, ConstantsAssumption
    DEF Locked, MutexHeld, PassMeansExpired, Passing, Store
  <2>2. CASE \A c \in Clients : ~Store(c)
    <3>1. UNCHANGED <<stored, cached>>
      BY <1>1, <2>2 DEF Next, Handle, Request, Hit, Miss, List, Check, ListFails,
        CheckFails, Tick, Edit, cache, vars
    <3>2. QED
      BY <2>2, <3>1
  <2>3. QED
    BY <2>1, <2>2
<1>2. Locked /\ [Next]_vars => [Kept]_vars
  BY <1>1
<1>3. QED
  BY <1>2, LockedAlways, PTL DEF Spec, OnePassPerTTL

-----------------------------------------------------------------------------
(* Nothing is missed between two pages. *)

(* What has been catalogued since the pass began is catalogued.            *)
StillCatalogued == stable \subseteq Catalogued

(* Unless something was deleted, what has been catalogued since the pass   *)
(* began is on a page not yet listed, or to be checked, or found.          *)
NothingMissed ==
  \A c \in Clients :
    ~shifted =>
      /\ pc[c] = "list" =>
           \A r \in stable \ todo : (page - 1) * PageSize < Rank(r)
      /\ pc[c] = "check" => stable \subseteq todo \cup found
      /\ pc[c] = "store" => stable \subseteq found

(* Where GitHub lists a repository: somewhere, and not after the last.     *)
LEMMA Ranks ==
  ASSUME NEW r \in Existing
  PROVE  /\ IsFiniteSet(Existing) /\ Cardinality(Existing) \in Nat
         /\ Rank(r) \in Nat \ {0} /\ Rank(r) <= Cardinality(Existing)
<1> DEFINE before == {q \in Existing : q <= r}
<1>1. IsFiniteSet(Existing)
  <2>1. Existing \in SUBSET Names
    BY DEF Existing
  <2>2. QED
    BY <2>1, ConstantsAssumption, FS_Subset
<1>2. before \in SUBSET Existing /\ r \in before
  BY ConstantsAssumption DEF Existing
<1> HIDE DEF before
<1>3. IsFiniteSet(before) /\ Cardinality(before) <= Cardinality(Existing) /\ before # {}
  BY <1>1, <1>2, FS_Subset
<1>4. Cardinality(before) \in Nat \ {0} /\ Cardinality(Existing) \in Nat
  BY <1>1, <1>3, FS_CardinalityType, FS_EmptySet
<1>5. QED
  BY <1>1, <1>3, <1>4 DEF Rank, before

(* While nothing is deleted, no repository moves to an earlier page.       *)
LEMMA NothingMovesUp ==
  ASSUME NEW r \in Existing, Existing \subseteq Existing'
  PROVE  Rank(r) \in Nat /\ Rank(r)' \in Nat /\ Rank(r) <= Rank(r)'
<1> DEFINE before == {q \in Existing : q <= r}
           after == {q \in Existing' : q <= r}
<1>1. before \in SUBSET after
  OBVIOUS
<1>2. IsFiniteSet(after)
  <2>1. after \in SUBSET Names
    BY DEF Existing
  <2>2. QED
    BY <2>1, ConstantsAssumption, FS_Subset
<1> HIDE DEF before, after
<1>3. Cardinality(before) <= Cardinality(after) /\ IsFiniteSet(before)
  BY <1>1, <1>2, FS_Subset
<1>4. Cardinality(before) \in Nat /\ Cardinality(after) \in Nat
  BY <1>2, <1>3, FS_CardinalityType
<1>5. QED
  BY <1>3, <1>4 DEF Rank, before, after

(* The next page begins where this one ends.                               *)
LEMMA Paging ==
  ASSUME TypeOK, NEW c \in Clients, List(c), StillCatalogued,
         \A r \in stable \ todo : (page - 1) * PageSize < Rank(r)
  PROVE  /\ pc'[c] = "check" => stable \subseteq todo'
         /\ pc'[c] = "list" =>
              \A r \in stable \ todo' : (page' - 1) * PageSize < Rank(r)
<1>1. page \in Nat \ {0} /\ PageSize \in Nat \ {0} /\ pc \in [Clients -> Passing \cup {"idle", "waiting"}]
  BY ConstantsAssumption DEF TypeOK
<1> DEFINE end == page * PageSize
<1>2. end \in Nat
  BY <1>1
<1>3. ASSUME NEW r \in stable \ todo'
      PROVE  NextPage /\ end < Rank(r)
  <2>1. r \in Existing /\ account[r] = "catalog"
    BY <1>3 DEF StillCatalogued, Catalogued, Existing
  <2>2. (page - 1) * PageSize < Rank(r) /\ r \notin Listed
    BY <1>3, <2>1 DEF List
  <2>3. ~(Rank(r) <= end)
    BY <2>1, <2>2 DEF Listed
  <2>4. Rank(r) \in Nat /\ Cardinality(Existing) \in Nat /\ Rank(r) <= Cardinality(Existing)
    BY <2>1, Ranks
  <2> HIDE DEF end
  <2>5. end < Rank(r) /\ end < Cardinality(Existing)
    BY <1>2, <2>3, <2>4
  <2>6. QED
    BY <2>5 DEF NextPage, end
<1>4. CASE NextPage
  <2>1. page' = page + 1 /\ pc' = pc /\ pc[c] = "list"
    BY <1>4 DEF List
  <2>2. page' - 1 = page
    BY <1>1, <2>1
  <2>3. QED
    BY <1>3, <2>1, <2>2
<1>5. CASE ~NextPage
  <2>1. pc'[c] = "check"
    BY <1>1, <1>5 DEF List
  <2>2. QED
    BY <1>3, <1>5, <2>1
<1>6. QED
  BY <1>4, <1>5

(* A step keeps both: repositories that are catalogued stay on their page  *)
(* or move to a later one, and each listed one is checked.                 *)
LEMMA MissedStep ==
  TypeOK /\ Locked /\ StillCatalogued /\ NothingMissed /\ [Next]_vars
    => StillCatalogued' /\ NothingMissed'
<1> SUFFICES ASSUME TypeOK, Locked, StillCatalogued, NothingMissed, [Next]_vars
             PROVE  StillCatalogued' /\ NothingMissed'
  OBVIOUS
<1> USE DEF cache, pass, history
<1>0. pc \in [Clients -> Passing \cup {"idle", "waiting"}]
  BY DEF TypeOK
<1>1. ASSUME NEW c \in Clients, Request(c) \/ Hit(c) \/ Store(c) \/ ListFails(c) \/ CheckFails(c)
      PROVE  StillCatalogued' /\ NothingMissed'
  <2>1. /\ UNCHANGED <<account, page, todo, found, stable, shifted>>
        /\ \A b \in Clients : pc'[b] \in Passing => pc'[b] = pc[b]
    BY <1>0, <1>1 DEF Request, Hit, Store, ListFails, CheckFails, Return, Passing
  <2>2. UNCHANGED Existing /\ UNCHANGED Catalogued
    BY <2>1 DEF Existing, Catalogued
  <2>3. \A r : UNCHANGED Rank(r)
    BY <2>2 DEF Rank
  <2>4. QED
    BY <2>1, <2>2, <2>3 DEF StillCatalogued, NothingMissed, Passing
<1>2. ASSUME NEW c \in Clients, Miss(c) PROVE StillCatalogued' /\ NothingMissed'
  <2>1. /\ page' = 1 /\ stable' = Catalogued /\ UNCHANGED account
        /\ pc' = [pc EXCEPT ![c] = "list"] /\ mu = NoClient
    BY <1>2 DEF Miss, BeginPass
  <2>2. \A b \in Clients : b # c => pc'[b] \notin Passing
    BY <1>0, <2>1, ConstantsAssumption DEF Locked, MutexHeld
  <2>3. Catalogued' = Catalogued /\ Existing' = Existing
    BY <2>1 DEF Catalogued, Existing
  <2>4. \A r \in stable' : (page' - 1) * PageSize < Rank(r)'
    <3>1. ASSUME NEW r \in stable' PROVE 0 < Rank(r)
      <4>1. r \in Existing
        BY <2>1 DEF Catalogued, Existing
      <4>2. QED
        BY <4>1, Ranks
    <3>2. (page' - 1) * PageSize = 0
      BY <2>1, ConstantsAssumption
    <3>3. \A r : Rank(r)' = Rank(r)
      BY <2>3 DEF Rank
    <3>4. QED
      BY <3>1, <3>2, <3>3
  <2>5. pc'[c] = "list"
    BY <1>0, <2>1
  <2>6. QED
    BY <2>1, <2>2, <2>3, <2>4, <2>5 DEF StillCatalogued, NothingMissed, Passing
<1>3. ASSUME NEW c \in Clients, List(c) PROVE StillCatalogued' /\ NothingMissed'
  <2>1. /\ pc[c] = "list" /\ UNCHANGED <<account, found, stable, shifted>>
        /\ \A b \in Clients : b # c => pc'[b] = pc[b]
        /\ pc'[c] \in {"list", "check"}
    BY <1>0, <1>3 DEF List
  <2>2. \A b \in Clients : b # c => pc'[b] \notin Passing
    BY <2>1 DEF Locked, MutexHeld, Passing
  <2>3. Catalogued' = Catalogued /\ Existing' = Existing
    BY <2>1 DEF Catalogued, Existing
  <2>4. \A r : Rank(r)' = Rank(r)
    BY <2>3 DEF Rank
  <2>5. ASSUME ~shifted
        PROVE  /\ pc'[c] = "check" => stable' \subseteq todo'
               /\ pc'[c] = "list" =>
                    \A r \in stable' \ todo' : (page' - 1) * PageSize < Rank(r)'
    <3>1. \A r \in stable \ todo : (page - 1) * PageSize < Rank(r)
      BY <2>1, <2>5 DEF NothingMissed
    <3>2. QED
      BY <1>3, <2>1, <2>4, <3>1, Paging
  <2>6. NothingMissed'
    <3>1. SUFFICES ASSUME NEW b \in Clients, ~shifted'
                   PROVE  /\ pc'[b] = "list" =>
                               \A r \in stable' \ todo' : (page' - 1) * PageSize < Rank(r)'
                          /\ pc'[b] = "check" => stable' \subseteq todo' \cup found'
                          /\ pc'[b] = "store" => stable' \subseteq found'
      BY DEF NothingMissed
    <3>2. CASE b # c
      BY <2>2, <3>2 DEF Passing
    <3>3. CASE b = c
      <4>1. ~shifted
        BY <2>1, <3>1
      <4>2. /\ pc'[c] = "check" => stable' \subseteq todo'
            /\ pc'[c] = "list" =>
                 \A r \in stable' \ todo' : (page' - 1) * PageSize < Rank(r)'
        BY <2>5, <4>1
      <4>3. pc'[c] # "store"
        BY <2>1
      <4>4. QED
        BY <3>3, <4>2, <4>3
    <3>4. QED
      BY <3>2, <3>3
  <2>7. QED
    BY <2>1, <2>3, <2>6 DEF StillCatalogued
<1>4. ASSUME NEW c \in Clients, Check(c) PROVE StillCatalogued' /\ NothingMissed'
  <2>1. /\ pc[c] = "check" /\ UNCHANGED <<account, page, stable, shifted>>
        /\ \A b \in Clients : b # c => pc'[b] = pc[b]
        /\ pc'[c] \in {"check", "store"}
    BY <1>0, <1>4 DEF Check
  <2>2. \A b \in Clients : b # c => pc'[b] \notin Passing
    BY <2>1 DEF Locked, MutexHeld, Passing
  <2>3. Catalogued' = Catalogued
    BY <2>1 DEF Catalogued
  <2>4. ASSUME stable \subseteq todo \cup found
        PROVE  /\ stable \subseteq todo' \cup found'
               /\ pc'[c] = "store" => stable \subseteq found'
    <3>1. CASE todo = {}
      BY <1>4, <2>4, <3>1 DEF Check
    <3>2. CASE todo # {}
      <4>1. pc' = pc
        BY <1>4, <3>2 DEF Check
      <4>2. PICK r \in todo :
              /\ todo' = todo \ {r}
              /\ found' = IF HasCatalogFile(r) THEN found \cup {r} ELSE found
        BY <1>4, <3>2 DEF Check
      <4>3. r \in stable => HasCatalogFile(r)
        BY DEF StillCatalogued, Catalogued, HasCatalogFile
      <4>4. QED
        BY <2>1, <2>4, <4>1, <4>2, <4>3
    <3>3. QED
      BY <3>1, <3>2
  <2>5. NothingMissed'
    <3>1. SUFFICES ASSUME NEW b \in Clients, ~shifted'
                   PROVE  /\ pc'[b] = "list" =>
                               \A r \in stable' \ todo' : (page' - 1) * PageSize < Rank(r)'
                          /\ pc'[b] = "check" => stable' \subseteq todo' \cup found'
                          /\ pc'[b] = "store" => stable' \subseteq found'
      BY DEF NothingMissed
    <3>2. CASE b # c
      BY <2>2, <3>2 DEF Passing
    <3>3. CASE b = c
      <4>1. ~shifted
        BY <2>1, <3>1
      <4>2. stable \subseteq todo \cup found
        BY <2>1, <4>1 DEF NothingMissed
      <4>3. stable' = stable /\ pc'[c] # "list"
        BY <2>1
      <4>4. QED
        BY <2>4, <3>3, <4>2, <4>3
    <3>4. QED
      BY <3>2, <3>3
  <2>6. QED
    BY <2>1, <2>3, <2>5 DEF StillCatalogued
<1>5. CASE Tick
  <2>1. UNCHANGED <<account, pc, page, todo, found, stable, shifted>>
    BY <1>5 DEF Tick
  <2>2. QED
    BY <2>1 DEF StillCatalogued, NothingMissed, Rank, Existing, Catalogued
<1>6. ASSUME NEW r \in Names, Edit(r) PROVE StillCatalogued' /\ NothingMissed'
  <2>1. PICK new \in {"gone", "plain", "catalog", "archived"} \ {account[r]} :
          /\ account' = [account EXCEPT ![r] = new]
          /\ stable' = stable \ {r}
          /\ shifted' = (shifted \/ new = "gone")
    BY <1>6 DEF Edit
  <2>2. UNCHANGED <<pc, page, todo, found>>
    BY <1>6 DEF Edit
  <2>3. account \in [Names -> {"gone", "plain", "catalog", "archived"}]
    BY DEF TypeOK
  <2>4. StillCatalogued'
    BY <2>1, <2>3 DEF StillCatalogued, Catalogued
  <2>5. ASSUME ~shifted' PROVE ~shifted /\ Existing \subseteq Existing'
    BY <2>1, <2>3, <2>5 DEF Existing
  <2>6. ASSUME ~shifted', NEW c \in Clients, pc[c] = "list", NEW q \in stable' \ todo
        PROVE  (page - 1) * PageSize < Rank(q)'
    <3>1. q \in Existing /\ (page - 1) * PageSize < Rank(q)
      BY <2>1, <2>5, <2>6 DEF StillCatalogued, Catalogued, Existing, NothingMissed
    <3>2. Rank(q) \in Nat /\ Rank(q)' \in Nat /\ Rank(q) <= Rank(q)'
      BY <2>5, <2>6, <3>1, NothingMovesUp
    <3>3. (page - 1) * PageSize \in Int
      BY ConstantsAssumption DEF TypeOK
    <3> DEFINE start == (page - 1) * PageSize
    <3> HIDE DEF start
    <3>4. start \in Int /\ start < Rank(q)
      BY <3>1, <3>3 DEF start
    <3>5. start < Rank(q)'
      BY <3>2, <3>4
    <3>6. QED
      BY <3>5 DEF start
  <2>7. QED
    BY <2>1, <2>2, <2>4, <2>5, <2>6 DEF NothingMissed
<1>7. CASE UNCHANGED vars
  <2>1. UNCHANGED <<account, pc, page, todo, found, stable, shifted>>
    BY <1>7 DEF vars
  <2>2. QED
    BY <2>1 DEF StillCatalogued, NothingMissed, Rank, Existing, Catalogued
<1>8. QED
  BY <1>1, <1>2, <1>3, <1>4, <1>5, <1>6, <1>7 DEF Next, Handle

(* A stored result leaves out no repository that was catalogued during the *)
(* whole pass, unless a repository was deleted meanwhile, which moves all  *)
(* later ones towards the pages already listed (discovery.go:124-146).     *)
THEOREM NoRepositorySkipped == Spec => PassIsComplete
<1> DEFINE Inv == StillCatalogued /\ NothingMissed
<1>1. Init => Inv
  BY DEF Init, StillCatalogued, NothingMissed
<1>2. TypeOK /\ Locked /\ Inv /\ [Next]_vars => Inv'
  BY MissedStep
<1>3. Inv /\ [Next]_vars
        => [(\E c \in Clients : Store(c)) /\ ~shifted => stable \subseteq cached']_vars
  BY DEF NothingMissed, Store
<1>4. QED
  BY <1>1, <1>2, <1>3, TypeCorrect, LockedAlways, PTL DEF Spec, PassIsComplete

-----------------------------------------------------------------------------
(* An account that is left alone. *)

(* A pass that began after the last change has met nothing but the truth:  *)
(* all it found is catalogued, and it will ask for no archived repository. *)
QuietPass ==
  mu # NoClient =>
    /\ ~shifted /\ stable = Catalogued
    /\ found \subseteq Catalogued
    /\ \A r \in todo : account[r] # "archived"

(* A step that leaves the account alone keeps that.                        *)
LEMMA QuietStep ==
  TypeOK /\ Locked /\ QuietPass /\ [Next]_vars /\ [UNCHANGED account]_vars
    => QuietPass'
<1> SUFFICES ASSUME TypeOK, Locked, QuietPass, [Next]_vars, [UNCHANGED account]_vars
             PROVE  QuietPass'
  OBVIOUS
<1> USE ConstantsAssumption DEF cache, pass, history
<1>0. UNCHANGED account /\ UNCHANGED Catalogued
  BY DEF vars, Catalogued
<1>1. ASSUME NEW c \in Clients, Request(c) PROVE QuietPass'
  BY <1>0, <1>1 DEF Request, QuietPass
<1>2. ASSUME NEW c \in Clients, Hit(c) \/ Store(c) \/ ListFails(c) \/ CheckFails(c)
      PROVE  QuietPass'
  BY <1>2 DEF Hit, Store, ListFails, CheckFails, Return, QuietPass
<1>3. ASSUME NEW c \in Clients, Miss(c) PROVE QuietPass'
  BY <1>0, <1>3 DEF Miss, BeginPass, QuietPass
<1>4. ASSUME NEW c \in Clients, List(c) PROVE QuietPass'
  <2>1. mu # NoClient
    BY <1>4 DEF List, Locked, MutexHeld, Passing
  <2>2. /\ UNCHANGED <<mu, found, stable, shifted>>
        /\ todo' = todo \cup {r \in Listed : account[r] # "archived"}
    BY <1>4 DEF List
  <2>3. QED
    BY <1>0, <2>1, <2>2 DEF QuietPass
<1>5. ASSUME NEW c \in Clients, Check(c) PROVE QuietPass'
  <2>1. mu # NoClient
    BY <1>5 DEF Check, Locked, MutexHeld, Passing
  <2>2. UNCHANGED <<mu, stable, shifted>>
    BY <1>5 DEF Check
  <2>3. CASE UNCHANGED <<todo, found>>
    BY <1>0, <2>1, <2>2, <2>3 DEF QuietPass
  <2>4. CASE \E r \in todo :
               /\ todo' = todo \ {r}
               /\ found' = IF HasCatalogFile(r) THEN found \cup {r} ELSE found
    <3>1. PICK r \in todo :
            /\ todo' = todo \ {r}
            /\ found' = IF HasCatalogFile(r) THEN found \cup {r} ELSE found
      BY <2>4
    <3>2. HasCatalogFile(r) => r \in Catalogued
      BY <2>1 DEF HasCatalogFile, Catalogued, QuietPass, TypeOK
    <3>3. QED
      BY <1>0, <2>1, <2>2, <3>1, <3>2 DEF QuietPass
  <2>5. QED
    BY <1>5, <2>3, <2>4 DEF Check
<1>6. CASE Tick
  BY <1>0, <1>6 DEF Tick, QuietPass
<1>7. ASSUME NEW r \in Names, Edit(r) PROVE QuietPass'
  <2>1. account' # account
    BY <1>7 DEF Edit, TypeOK
  <2>2. QED
    BY <1>0, <2>1
<1>8. CASE UNCHANGED vars
  BY <1>0, <1>8 DEF vars, QuietPass
<1>9. QED
  BY <1>1, <1>2, <1>3, <1>4, <1>5, <1>6, <1>7, <1>8 DEF Next, Handle

(* What such a pass stores is the account, no more and no less.            *)
LEMMA QuietStore ==
  ASSUME TypeOK, Locked, NothingMissed, QuietPass, NEW c \in Clients, Store(c)
  PROVE  stored' = TRUE /\ cached' = Catalogued
<1> USE ConstantsAssumption
<1>1. pc[c] = "store" /\ mu = c /\ cached' = found /\ stored' = TRUE
  BY DEF Store, Locked, MutexHeld, Passing
<1>2. ~shifted /\ stable = Catalogued /\ found \subseteq Catalogued
  BY <1>1 DEF QuietPass
<1>3. stable \subseteq found
  BY <1>1, <1>2 DEF NothingMissed
<1>4. QED
  BY <1>1, <1>2, <1>3

(* Only a pass that is stored replaces what is cached.                     *)
LEMMA CacheStep ==
  ASSUME [Next]_vars
  PROVE  (\E c \in Clients : Store(c)) \/ UNCHANGED <<stored, cached>>
<1> USE DEF cache
<1>1. ASSUME NEW c \in Clients,
             Request(c) \/ Hit(c) \/ Miss(c) \/ List(c) \/ Check(c)
               \/ ListFails(c) \/ CheckFails(c)
      PROVE  UNCHANGED <<stored, cached>>
  BY <1>1 DEF Request, Hit, Miss, List, Check, ListFails, CheckFails
<1>2. Tick => UNCHANGED <<stored, cached>>
  BY DEF Tick
<1>3. ASSUME NEW r \in Names, Edit(r) PROVE UNCHANGED <<stored, cached>>
  BY <1>3 DEF Edit
<1>4. UNCHANGED vars => UNCHANGED <<stored, cached>>
  BY DEF vars
<1>5. QED
  BY <1>1, <1>2, <1>3, <1>4 DEF Next, Handle

(* The part of CatchesUp that is not liveness: from a moment when no pass  *)
(* is under way and the account is left alone, the first pass that is      *)
(* stored makes the cached result exact, and none after it spoils it.      *)
(* Fairness has to bring about one pass, and no more (discovery.go:69-71). *)
THEOREM OnePassIsEnough ==
  Spec /\ <>(/\ mu = NoClient
             /\ [][UNCHANGED account]_vars
             /\ <><<\E c \in Clients : Store(c)>>_vars)
    => CatchesUp
<1> DEFINE Known == TypeOK /\ Locked /\ NothingMissed
           Stores == \E c \in Clients : Store(c)
           Exact == stored /\ cached = Catalogued
<1>1. Spec => []Known
  <2>1. Init => StillCatalogued /\ NothingMissed
    BY DEF Init, StillCatalogued, NothingMissed
  <2>2. QED
    BY <2>1, MissedStep, TypeCorrect, LockedAlways, PTL DEF Spec
<1>2. mu = NoClient => QuietPass
  BY DEF QuietPass
<1>3. Known /\ QuietPass /\ [Next]_vars /\ [UNCHANGED account]_vars => QuietPass'
  BY QuietStep
<1>4. [UNCHANGED account]_vars => UNCHANGED Catalogued
  BY DEF vars, Catalogued
<1>5. Known /\ QuietPass /\ [Next]_vars /\ [UNCHANGED account]_vars /\ Stores => Exact'
  BY <1>4, QuietStore
<1>6. Known /\ QuietPass /\ Exact /\ [Next]_vars /\ [UNCHANGED account]_vars => Exact'
  BY <1>4, <1>5, CacheStep
<1> HIDE DEF Known
<1>7. QED
  BY <1>1, <1>2, <1>3, <1>5, <1>6, PTL DEF Spec, CatchesUp

-----------------------------------------------------------------------------
(* A pass ends, whatever happens to the account meanwhile. *)

(* A bound of the calls that c's pass has left: pages and checks.          *)
WorkLeft(c) ==
  LET most == Cardinality(Names)
  IN  CASE pc[c] = "list"  -> (most + 1 - page) + most + 3
        [] pc[c] = "check" -> 2 + Cardinality(todo)
        [] pc[c] = "store" -> 1
        [] OTHER           -> 0

(* No pass asks for a page behind the last.                                *)
PagesExist ==
  \A c \in Clients : pc[c] = "list" => page <= Cardinality(Names) + 1

(* A page that is followed by another is not the last there can be.        *)
LEMMA PagesEnd ==
  ASSUME TypeOK, NextPage PROVE page + 1 <= Cardinality(Names) + 1
<1>1. Existing \in SUBSET Names
  BY DEF Existing
<1>2. /\ IsFiniteSet(Existing) /\ Cardinality(Existing) <= Cardinality(Names)
      /\ Cardinality(Existing) \in Nat /\ Cardinality(Names) \in Nat
  BY <1>1, ConstantsAssumption, FS_Subset, FS_CardinalityType
<1>3. page \in Nat \ {0} /\ PageSize \in Nat \ {0}
  BY ConstantsAssumption DEF TypeOK
<1>4. page <= page * PageSize /\ page * PageSize \in Nat
  BY <1>3
<1> DEFINE end == page * PageSize
<1>5. page <= end /\ end \in Nat /\ end < Cardinality(Existing)
  BY <1>4 DEF NextPage
<1> HIDE DEF end
<1>6. QED
  BY <1>2, <1>3, <1>5

(* What is left is a number, of which pages and repositories set the size. *)
LEMMA WorkIsBounded ==
  ASSUME TypeOK, PagesExist, NEW c \in Clients, pc[c] \in Passing
  PROVE  WorkLeft(c) \in 1 .. 2 * Cardinality(Names) + 3
<1>1. /\ Cardinality(Names) \in Nat /\ Cardinality(todo) \in Nat
      /\ Cardinality(todo) <= Cardinality(Names)
  BY ConstantsAssumption, FS_Subset, FS_CardinalityType DEF TypeOK
<1>2. page \in Nat \ {0} /\ (pc[c] = "list" => page <= Cardinality(Names) + 1)
  BY DEF TypeOK, PagesExist
<1>3. CASE pc[c] = "list"
  BY <1>1, <1>2, <1>3 DEF WorkLeft
<1>4. CASE pc[c] = "check"
  BY <1>1, <1>4 DEF WorkLeft
<1>5. CASE pc[c] = "store"
  BY <1>1, <1>5 DEF WorkLeft
<1>6. QED
  BY <1>3, <1>4, <1>5 DEF Passing

(* A call of the pass brings it nearer to its end.                         *)
LEMMA WorkIsDone ==
  ASSUME TypeOK, PagesExist, NEW c \in Clients, List(c) \/ Check(c)
  PROVE  WorkLeft(c)' < WorkLeft(c) /\ PagesExist'
<1>0. /\ pc \in [Clients -> Passing \cup {"idle", "waiting"}]
      /\ page \in Nat \ {0} /\ todo \in SUBSET Names
  BY DEF TypeOK
<1>1. /\ Cardinality(Names) \in Nat /\ IsFiniteSet(todo) /\ Cardinality(todo) \in Nat
      /\ Cardinality(todo) <= Cardinality(Names)
  BY <1>0, ConstantsAssumption, FS_Subset, FS_CardinalityType
<1>2. CASE List(c) /\ NextPage
  <2>1. page' = page + 1 /\ pc' = pc /\ pc[c] = "list"
    BY <1>2 DEF List
  <2>2. page + 1 <= Cardinality(Names) + 1
    BY <1>2, PagesEnd
  <2>3. QED
    BY <1>0, <1>1, <2>1, <2>2 DEF WorkLeft, PagesExist
<1>3. CASE List(c) /\ ~NextPage
  <2>1. page' = page /\ pc[c] = "list" /\ pc'[c] = "check"
        /\ \A b \in Clients : pc'[b] = "list" => pc[b] = "list"
    BY <1>0, <1>3 DEF List
  <2>2. page <= Cardinality(Names) + 1
    BY <2>1 DEF PagesExist
  <2>3. todo' \in SUBSET Names
    BY <1>0, <1>3 DEF List, Listed, Existing
  <2>4. Cardinality(todo') \in Nat /\ Cardinality(todo') <= Cardinality(Names)
    BY <2>3, ConstantsAssumption, FS_Subset, FS_CardinalityType
  <2>5. /\ WorkLeft(c) = (Cardinality(Names) + 1 - page) + Cardinality(Names) + 3
        /\ WorkLeft(c)' = 2 + Cardinality(todo')
    BY <2>1 DEF WorkLeft
  <2>6. QED
    BY <1>0, <1>1, <2>1, <2>2, <2>4, <2>5 DEF PagesExist
<1>4. CASE Check(c) /\ todo = {}
  <2>1. pc[c] = "check" /\ pc'[c] = "store" /\ page' = page
        /\ \A b \in Clients : pc'[b] = "list" => pc[b] = "list"
    BY <1>0, <1>4 DEF Check
  <2>2. QED
    BY <1>1, <2>1 DEF WorkLeft, PagesExist
<1>5. CASE Check(c) /\ todo # {}
  <2>1. PICK r \in todo : todo' = todo \ {r} /\ pc' = pc /\ pc[c] = "check"
    BY <1>5 DEF Check
  <2>2. Cardinality(todo') = Cardinality(todo) - 1
    BY <1>1, <2>1, FS_RemoveElement
  <2>3. page' = page
    BY <1>5 DEF Check
  <2>4. QED
    BY <1>1, <2>1, <2>2, <2>3 DEF WorkLeft, PagesExist
<1>6. QED
  BY <1>2, <1>3, <1>4, <1>5

(* What a step does to the request that holds the mutex.                   *)
PassGoesOn ==
  \A c \in Clients : mu = c =>
    \/ mu' = NoClient
    \/ /\ mu' = c
       /\ IF List(c) \/ Check(c) THEN WorkLeft(c)' < WorkLeft(c)
                                ELSE WorkLeft(c)' = WorkLeft(c)

(* A step of somebody else leaves the pass where it is.                    *)
LEMMA PassStep ==
  ASSUME TypeOK, Locked, PagesExist, [Next]_vars PROVE PagesExist' /\ PassGoesOn
<1> USE ConstantsAssumption
<1>0. pc \in [Clients -> Passing \cup {"idle", "waiting"}]
  BY DEF TypeOK
<1>1. ASSUME NEW c \in Clients, List(c) \/ Check(c) PROVE PagesExist' /\ PassGoesOn
  <2>1. mu = c /\ mu' = mu
    BY <1>1 DEF List, Check, Locked, MutexHeld, Passing
  <2>2. WorkLeft(c)' < WorkLeft(c) /\ PagesExist'
    BY <1>1, WorkIsDone
  <2>3. QED
    BY <1>1, <2>1, <2>2 DEF PassGoesOn
<1>2. ASSUME NEW c \in Clients, Hit(c) \/ Store(c) \/ ListFails(c) \/ CheckFails(c)
      PROVE  PagesExist' /\ PassGoesOn
  <2>1. mu' = NoClient /\ page' = page
        /\ \A b \in Clients : pc'[b] = "list" => pc[b] = "list"
    BY <1>0, <1>2 DEF Hit, Store, ListFails, CheckFails, Return, pass
  <2>2. QED
    BY <2>1 DEF PassGoesOn, PagesExist
<1>3. ASSUME NEW c \in Clients, Miss(c) PROVE PagesExist' /\ PassGoesOn
  <2>1. mu = NoClient /\ page' = 1
    BY <1>3 DEF Miss, BeginPass
  <2>2. Cardinality(Names) \in Nat
    BY FS_CardinalityType
  <2>3. QED
    BY <2>1, <2>2 DEF PassGoesOn, PagesExist
<1>4. CASE (\E c \in Clients : Request(c)) \/ Tick \/ (\E r \in Names : Edit(r)) \/ UNCHANGED vars
  <2>1. /\ UNCHANGED <<mu, page, todo>>
        /\ \A b \in Clients : b = mu => pc'[b] = pc[b]
        /\ \A b \in Clients : pc'[b] = "list" => pc[b] = "list"
    BY <1>0, <1>4 DEF Request, Tick, Edit, vars, pass, Locked, MutexHeld, Passing
  <2>2. \A c \in Clients : mu = c => WorkLeft(c)' = WorkLeft(c)
    BY <2>1 DEF WorkLeft
  <2>3. \A c \in Clients : mu = c => WorkLeft(c) \in Nat /\ ~List(c) /\ ~Check(c)
    <3>1. SUFFICES ASSUME NEW c \in Clients, mu = c
                   PROVE  WorkLeft(c) \in Nat /\ ~List(c) /\ ~Check(c)
      OBVIOUS
    <3>2. WorkLeft(c) \in Nat
      BY <3>1, WorkIsBounded DEF Locked, MutexHeld
    <3>3. WorkLeft(c)' = WorkLeft(c)
      BY <2>2, <3>1
    <3>4. QED
      BY <3>2, <3>3, WorkIsDone
  <2>4. QED
    BY <2>1, <2>2, <2>3 DEF PassGoesOn, PagesExist
<1>5. QED
  BY <1>1, <1>2, <1>3, <1>4 DEF Next, Handle

(* The part of Answered that is not liveness: whoever holds the mutex is   *)
(* in a pass, and has a bounded number of calls left, which every one of   *)
(* them brings down and nothing else brings up, although the account       *)
(* grows and shrinks and pages shift meanwhile (discovery.go:69-146).      *)
THEOREM EveryPassEnds ==
  Spec => /\ [](\A c \in Clients : mu = c =>
                  pc[c] \in Passing /\ WorkLeft(c) \in 1 .. 2 * Cardinality(Names) + 3)
          /\ [][PassGoesOn]_vars
<1>1. Init => PagesExist
  BY DEF Init, PagesExist
<1>2. TypeOK /\ Locked /\ PagesExist /\ [Next]_vars => PagesExist' /\ [PassGoesOn]_vars
  BY PassStep
<1>3. TypeOK /\ Locked /\ PagesExist =>
        \A c \in Clients : mu = c =>
          pc[c] \in Passing /\ WorkLeft(c) \in 1 .. 2 * Cardinality(Names) + 3
  BY WorkIsBounded DEF Locked, MutexHeld
<1>4. QED
  BY <1>1, <1>2, <1>3, TypeCorrect, LockedAlways, PTL DEF Spec
=============================================================================
