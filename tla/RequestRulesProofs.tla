------------------------- MODULE RequestRulesProofs -------------------------
(***************************************************************************)
(* Theorems about RequestRules, for text of any length.                    *)
(***************************************************************************)
EXTENDS RequestRules, WellFoundedInduction, FiniteSetTheorems, SequenceTheorems, TLAPS

(* A set of naturals that has a bound has a greatest element.              *)
LEMMA Greatest ==
  ASSUME NEW n \in Nat, NEW S \in SUBSET (0 .. n), S # {}
  PROVE  \E x \in S : \A y \in S : y <= x
<1> DEFINE Above(x) == {y \in S : y > x}
           family == {U \in SUBSET S : \E x \in S : U = Above(x)}
<1>1. IsFiniteSet(S)
  <2>1. IsFiniteSet(0 .. n)
    BY 0 \in Int, n \in Int, FS_Interval
  <2>2. QED
    BY <2>1, FS_Subset
<1>2. family \subseteq FiniteSubsetsOf(S) /\ family # {}
  <2>1. \A x \in S : Above(x) \in SUBSET S
    OBVIOUS
  <2>2. family # {}
    BY <2>1
  <2>3. \A U \in SUBSET S : IsFiniteSet(U)
    BY <1>1, FS_Subset
  <2>4. QED
    BY <2>2, <2>3 DEF FiniteSubsetsOf
<1>3. PICK U \in family :
        \A V \in family : ~(<<V, U>> \in StrictSubsetOrdering(S))
  BY <1>2, FS_StrictSubsetOrderingWellFounded, WFMin
<1>4. PICK x \in S : U = Above(x)
  BY <1>3
<1>5. ASSUME NEW y \in S, ~(y <= x) PROVE FALSE
  <2>a. x \in Int /\ y \in Int /\ \A z \in S : z \in Int
    OBVIOUS
  <2>b. \A z \in S : z > y => z > x
    BY <2>a, <1>5
  <2>1. Above(y) \subseteq U /\ y \in U /\ y \notin Above(y)
    <3>1. Above(y) \subseteq Above(x)
      BY <2>b
    <3>2. y \in Above(x) /\ y \notin Above(y)
      BY <2>a, <1>5
    <3>3. QED
      BY <1>4, <3>1, <3>2
  <2>2. Above(y) \in family
    OBVIOUS
  <2>3. <<Above(y), U>> \in StrictSubsetOrdering(S)
    BY <2>1, <2>2, <1>3 DEF StrictSubsetOrdering
  <2>4. QED
    BY <2>2, <2>3, <1>3
<1>6. QED
  BY <1>5

(* What LastIndex finds: the last place of a token, or 0.                  *)
LEMMA LastIndexIsLast ==
  ASSUME NEW T, NEW s \in Seq(T), NEW t
  PROVE  /\ LastIndex(s, t) \in 0 .. Len(s)
         /\ LastIndex(s, t) # 0 => s[LastIndex(s, t)] = t
         /\ \A j \in LastIndex(s, t) + 1 .. Len(s) : s[j] # t
<1> DEFINE I == {i \in 1 .. Len(s) : s[i] = t}
<1>1. LastIndex(s, t) = IF I # {} THEN Max(I) ELSE 0
  BY DEF LastIndex, SelectLastInSeq
<1>2. Len(s) \in Nat
  OBVIOUS
<1>3. CASE I = {}
  BY <1>1, <1>2, <1>3
<1>4. CASE I # {}
  <2>1. PICK x \in I : \A y \in I : y <= x
    <3>1. I \in SUBSET (0 .. Len(s))
      BY <1>2
    <3>2. QED
      BY <1>2, <1>4, <3>1, Greatest
  <2>2. Max(I) \in I /\ \A y \in I : Max(I) >= y
    BY <2>1 DEF Max
  <2>3. QED
    <3> DEFINE m == LastIndex(s, t)
    <3>1. m = Max(I)
      BY <1>1, <1>4
    <3>2. m \in I /\ \A y \in I : m >= y
      BY <3>1, <2>2
    <3>3. \A j \in m + 1 .. Len(s) : j \notin I
      BY <1>2, <3>2
    <3>4. \A j \in m + 1 .. Len(s) : s[j] # t
      BY <1>2, <3>2, <3>3
    <3>5. m \in 0 .. Len(s) /\ s[m] = t
      BY <1>2, <3>2
    <3>6. QED
      BY <3>4, <3>5
<1>5. QED
  BY <1>3, <1>4

(* What After returns, and when there is something to return.              *)
LEMMA AfterIsRest ==
  ASSUME NEW T, NEW s \in Seq(T), NEW t
  PROVE  /\ After(s, t) \in Seq(T)
         /\ Len(After(s, t)) = Len(s) - LastIndex(s, t)
         /\ \A i \in 1 .. Len(s) - LastIndex(s, t) :
              After(s, t)[i] = s[LastIndex(s, t) + i]
         /\ Contains(s, t) <=> LastIndex(s, t) # 0
<1> DEFINE k == LastIndex(s, t)
<1>1. k \in 0 .. Len(s) /\ Len(s) \in Nat
  BY LastIndexIsLast
<1>2. /\ After(s, t) \in Seq(T)
      /\ Len(After(s, t)) = Len(s) - k
      /\ \A i \in 1 .. Len(s) - k : After(s, t)[i] = s[k + i]
  BY <1>1 DEF After
<1>3. Contains(s, t) <=> k # 0
  BY <1>1, LastIndexIsLast DEF Contains
<1>4. QED
  BY <1>2, <1>3

(* The check of the code, which cuts the text at its last slash and at the *)
(* last colon behind that, accepts the images of the declared rule and no  *)
(* others, whatever the length of the image.                               *)
THEOREM ImageRule ==
  ASSUME NEW T, NEW image \in Seq(T)
  PROVE  validateImage(image) <=> Pinned(image)
<1> DEFINE n == Len(image)
           k == LastIndex(image, "/")
           name == After(image, "/")
           m == LastIndex(name, ":")
           tag == After(name, ":")
           digest == \E i \in DOMAIN image : image[i] = "@sha256:"
           tagged(i) == /\ image[i] = ":"
                        /\ \A j \in i + 1 .. n : image[j] \notin {":", "/"}
                        /\ i < n
                        /\ image[n] = "latest" => n > i + 1
<1>1. /\ n \in Nat /\ k \in 0 .. n
      /\ k # 0 => image[k] = "/"
      /\ \A j \in k + 1 .. n : image[j] # "/"
  BY LastIndexIsLast
<1>2. /\ name \in Seq(T) /\ Len(name) = n - k
      /\ \A i \in 1 .. n - k : name[i] = image[k + i]
  BY AfterIsRest
<1>3. /\ m \in 0 .. n - k
      /\ m # 0 => name[m] = ":"
      /\ \A j \in m + 1 .. n - k : name[j] # ":"
      /\ Contains(name, ":") <=> m # 0
  BY <1>2, LastIndexIsLast, AfterIsRest
<1>4. /\ tag \in Seq(T) /\ Len(tag) = n - k - m
      /\ \A i \in 1 .. n - k - m : tag[i] = name[m + i]
  BY <1>2, AfterIsRest
<1>5. validateImage(image) <=> \/ digest
                               \/ m # 0 /\ tag \notin {<<>>, <<"latest">>}
  BY <1>3 DEF validateImage, Contains
<1>6. Pinned(image) <=> digest \/ \E i \in DOMAIN image : tagged(i)
  BY DEF Pinned
<1>7. m # 0 => /\ k + m \in 1 .. n
               /\ image[k + m] = ":"
               /\ \A j \in k + m + 1 .. n : image[j] \notin {":", "/"}
  <2>1. ASSUME m # 0 PROVE k + m \in 1 .. n /\ image[k + m] = ":"
    BY <2>1, <1>1, <1>2, <1>3
  <2>2. ASSUME NEW j \in k + m + 1 .. n PROVE image[j] \notin {":", "/"}
    <3>1. j - k \in m + 1 .. n - k /\ j - k \in 1 .. n - k /\ k + (j - k) = j
      <4>1. j \in Int /\ k \in Int /\ m \in Nat /\ n \in Int /\ k + m + 1 <= j /\ j <= n
        BY <1>1, <1>3
      <4> HIDE DEF n, k, m
      <4>2. QED
        BY <4>1
    <3>2. name[j - k] # ":" /\ name[j - k] = image[j]
      BY <3>1, <1>2, <1>3
    <3>3. j \in k + 1 .. n
      BY <1>1, <1>3
    <3>4. QED
      BY <3>2, <3>3, <1>1
  <2>3. QED
    BY <2>1, <2>2
<1>8. ASSUME NEW i \in DOMAIN image, tagged(i) PROVE m # 0 /\ i = k + m
  <2>1. i \in 1 .. n
    OBVIOUS
  <2>2. k < i
    <3>1. ~(k > i)
      BY <1>1, <1>8, <2>1
    <3>2. k # i
      BY <1>1, <1>8, <2>1
    <3>3. QED
      BY <3>1, <3>2, <1>1, <2>1
  <2>3. i - k \in 1 .. n - k /\ k + (i - k) = i
    BY <2>1, <2>2, <1>1
  <2>4. name[i - k] = ":"
    BY <2>3, <1>2, <1>8
  <2>5. ~(m < i - k)
    BY <2>3, <2>4, <1>3, <1>1
  <2>6. ~(m > i - k)
    <3>1. SUFFICES ASSUME m > i - k PROVE FALSE
      OBVIOUS
    <3>2. m # 0 /\ k + m \in i + 1 .. n
      BY <3>1, <2>3, <1>1, <1>3, <2>1
    <3>3. QED
      BY <3>2, <1>7, <1>8
  <2>7. QED
    BY <2>3, <2>5, <2>6, <1>1, <1>3, <2>1
<1>9. m # 0 => (tag \notin {<<>>, <<"latest">>}
                  <=> k + m < n /\ (image[n] = "latest" => n > k + m + 1))
  <2> SUFFICES ASSUME m # 0
               PROVE  tag \notin {<<>>, <<"latest">>}
                        <=> k + m < n /\ (image[n] = "latest" => n > k + m + 1)
    OBVIOUS
  <2>1. tag = <<>> <=> k + m = n
    BY <1>1, <1>3, <1>4
  <2>2. k + m <= n
    BY <1>1, <1>3
  <2>3. n = k + m + 1 => tag[1] = image[n]
    <3>1. SUFFICES ASSUME n = k + m + 1 PROVE tag[1] = image[n]
      OBVIOUS
    <3>2. 1 \in 1 .. n - k - m /\ m + 1 \in 1 .. n - k /\ k + (m + 1) = n
      BY <3>1, <1>1, <1>3
    <3>3. tag[1] = name[m + 1] /\ name[m + 1] = image[k + (m + 1)]
      BY <3>2, <1>2, <1>4
    <3>4. QED
      BY <3>2, <3>3, Zenon
  <2>4. tag = <<"latest">> <=> Len(tag) = 1 /\ tag[1] = "latest"
    BY <1>4
  <2>5. Len(tag) = 1 <=> n = k + m + 1
    <3>1. k \in Int /\ m \in Int /\ n \in Int /\ Len(tag) = n - k - m
      BY <1>1, <1>3, <1>4
    <3> HIDE DEF n, k, m, tag
    <3>2. QED
      BY <3>1
  <2>6. QED
    BY <2>1, <2>2, <2>3, <2>4, <2>5, <1>1, <1>3
<1>10. CASE m # 0 /\ tag \notin {<<>>, <<"latest">>}
  <2>1. k + m \in DOMAIN image /\ tagged(k + m)
    BY <1>1, <1>7, <1>9, <1>10
  <2>2. QED
    BY <2>1, <1>5, <1>6, <1>10
<1>11. CASE ~(m # 0 /\ tag \notin {<<>>, <<"latest">>})
  <2>1. ASSUME NEW i \in DOMAIN image, tagged(i) PROVE FALSE
    <3>1. m # 0 /\ i = k + m
      BY <2>1, <1>8
    <3>2. k + m < n /\ (image[n] = "latest" => n > k + m + 1)
      BY <2>1, <3>1
    <3>3. QED
      BY <3>1, <3>2, <1>9, <1>11
  <2>2. QED
    BY <2>1, <1>5, <1>6, <1>11
<1>12. QED
  BY <1>10, <1>11

-----------------------------------------------------------------------------
(* Types. *)

(* A set of naturals has a least element.                                  *)
LEMMA Least ==
  ASSUME NEW n \in Nat, NEW S \in SUBSET (0 .. n), S # {}
  PROVE  \E x \in S : \A y \in S : x <= y
<1> DEFINE mirror == {n - x : x \in S}
<1>1. mirror \in SUBSET (0 .. n) /\ mirror # {}
  <2>1. \A x \in S : n - x \in 0 .. n
    OBVIOUS
  <2>2. QED
    BY <2>1
<1>2. PICK z \in mirror : \A y \in mirror : y <= z
  BY <1>1, Greatest
<1>3. PICK x \in S : z = n - x
  BY <1>2
<1>4. ASSUME NEW y \in S PROVE x <= y
  <2>1. n - y <= n - x
    BY <1>2, <1>3
  <2>2. QED
    BY <2>1
<1>5. QED
  BY <1>4

(* Trimmed text is text.                                                   *)
LEMMA TrimType ==
  ASSUME NEW T, NEW s \in Seq(T), NEW t
  PROVE  Trim(s, t) \in Seq(T)
<1> DEFINE kept == {i \in DOMAIN s : s[i] # t}
<1>1. CASE kept = {}
  BY <1>1 DEF Trim
<1>2. CASE kept # {}
  <2>1. kept \in SUBSET (0 .. Len(s)) /\ Len(s) \in Nat
    OBVIOUS
  <2>2. Max(kept) \in kept
    <3>1. \E x \in kept : \A y \in kept : x >= y
      BY <1>2, <2>1, Greatest
    <3>2. QED
      BY <3>1 DEF Max
  <2>3. Min(kept) \in kept
    <3>1. \E x \in kept : \A y \in kept : x =< y
      BY <1>2, <2>1, Least
    <3>2. QED
      BY <3>1 DEF Min
  <2>4. ASSUME NEW a \in 1 .. Len(s), NEW b \in 1 .. Len(s)
        PROVE  SubSeq(s, a, b) \in Seq(T)
    <3>1. \A i \in a .. b : s[i] \in T
      OBVIOUS
    <3>2. QED
      BY <3>1, <2>1
  <2>5. QED
    <3>1. Trim(s, t) = SubSeq(s, Min(kept), Max(kept))
      BY <1>2 DEF Trim
    <3>2. Min(kept) \in 1 .. Len(s) /\ Max(kept) \in 1 .. Len(s)
      BY <2>2, <2>3
    <3>3. QED
      BY <3>1, <3>2, <2>4
<1>3. QED
  BY <1>1, <1>2

(* What Normalise makes of each field.                                     *)
LEMMA Normalised ==
  ASSUME NEW r, DOMAIN r = Fields
  PROVE  /\ DOMAIN Normalise(r) = Fields
         /\ Normalise(r).name
              = FirstOf(TrimSpace(r.name), parseRepoURL(r.repoUrl).repo)
         /\ Normalise(r).owner
              = FirstOf(FirstOf(TrimSpace(r.owner), parseRepoURL(r.repoUrl).owner),
                        DefaultOwner)
         /\ Normalise(r).image = TrimSpace(r.image)
         /\ Normalise(r).port = r.port
         /\ Normalise(r).replicas = r.replicas
         /\ Normalise(r).namespace = FirstOf(r.namespace, DefaultNamespace)
  BY DEF Normalise, Fields

(* Every step keeps the types.                                             *)
LEMMA NextType == TypeOK /\ [Next]_vars => TypeOK'
<1> SUFFICES ASSUME TypeOK, [Next]_vars PROVE TypeOK'
  OBVIOUS
<1>1. CASE Submit
  <2>1. DOMAIN read' = Fields /\ read'.image = TrimSpace(form.image)
    BY <1>1, Normalised DEF Submit, TypeOK
  <2>2. read'.image \in Seq(Tokens)
    BY <2>1, TrimType DEF TypeOK, TrimSpace
  <2>3. problems' \subseteq Checked
    BY <1>1 DEF Submit, Problems
  <2>4. QED
    BY <1>1, <2>1, <2>2, <2>3 DEF Submit, TypeOK
<1>2. CASE Repair
  <2>1. form'.image \in {Good.image, form.image} /\ DOMAIN form' = Fields
    BY <1>2 DEF Repair, Fields
  <2>2. form'.image \in Seq(Tokens)
    BY <2>1, FormsAssumption DEF TypeOK
  <2>3. QED
    BY <1>2, <2>1, <2>2 DEF Repair, TypeOK
<1>3. CASE SubmitMalformed
  BY <1>3 DEF SubmitMalformed, OutOfRange, Numbers, Checked, TypeOK
<1>4. CASE UNCHANGED vars
  BY <1>4 DEF vars, TypeOK
<1>5. QED
  BY <1>1, <1>2, <1>3, <1>4 DEF Next

(* Every variable has its type, in every behaviour.                        *)
THEOREM TypeCorrect == Spec => []TypeOK
<1>1. Init => TypeOK
  BY FormsAssumption DEF Init, TypeOK
<1>2. QED
  BY <1>1, NextType, PTL DEF Spec

-----------------------------------------------------------------------------
(* The answers. *)

(* An answer names the problems of the request as it was read.             *)
AnswerIsOfRead ==
  status \in {"accepted", "rejected"} => problems = Problems(read)

(* The service accepts the images that the operator accepts, in whatever   *)
(* form they come.                                                         *)
THEOREM NothingForAdmissionToRefuse == Spec => []ImagesAsTheOperator
<1>1. Init => AnswerIsOfRead
  BY DEF Init, AnswerIsOfRead
<1>2. AnswerIsOfRead /\ [Next]_vars => AnswerIsOfRead'
  BY DEF AnswerIsOfRead, Next, SubmitMalformed, Submit, Repair, vars
<1>3. TypeOK /\ AnswerIsOfRead => ImagesAsTheOperator
  <2> SUFFICES ASSUME TypeOK, problems = Problems(read)
               PROVE  "image" \notin problems <=> Pinned(read.image)
    BY DEF AnswerIsOfRead, ImagesAsTheOperator
  <2>1. "image" \notin problems <=> validateImage(read.image)
    BY DEF Problems, Checked
  <2>2. validateImage(read.image) <=> Pinned(read.image)
    BY ImageRule DEF TypeOK
  <2>3. QED
    BY <2>1, <2>2
<1>4. QED
  BY <1>1, <1>2, <1>3, TypeCorrect, PTL DEF Spec

(* Putting right the fields that were named leaves no problem: no repair   *)
(* of one field brings up a problem of another, although the repository's  *)
(* URL stands in for two of them.                                          *)
LEMMA RepairIsEnough ==
  ASSUME DOMAIN form = Fields,
         NEW P, P = Problems(Normalise(form)),
         NEW fixed, fixed = [f \in Fields |-> IF f \in P THEN Good[f] ELSE form[f]]
  PROVE  Problems(Normalise(fixed)) = {}
<1> DEFINE r == Normalise(form)
           q == Normalise(fixed)
<1>1. DOMAIN fixed = Fields
  OBVIOUS
<1>2. fixed.repoUrl = form.repoUrl
  BY DEF Problems, Checked, Fields
<1>3. dnsLabel(q.name)
  <2>1. CASE "name" \in P
    <3>1. fixed.name = Good.name
      BY <2>1 DEF Fields
    <3>2. Good.name # <<>>
      BY GoodAssumption, FormsAssumption DEF dnsLabel
    <3>3. q.name = Good.name
      BY <1>1, <3>1, <3>2, Normalised, GoodAssumption DEF FirstOf
    <3>4. QED
      BY <3>3, GoodAssumption
  <2>2. CASE "name" \notin P
    <3>1. fixed.name = form.name
      BY <2>2 DEF Fields
    <3>2. q.name = r.name
      BY <1>1, <1>2, <3>1, Normalised
    <3>3. QED
      BY <2>2, <3>2 DEF Problems, Checked
  <2>3. QED
    BY <2>1, <2>2
<1>4. q.owner # <<>>
  <2>1. CASE "owner" \in P
    <3>1. fixed.owner = Good.owner
      BY <2>1 DEF Fields
    <3>2. q.owner = Good.owner
      BY <1>1, <3>1, Normalised, GoodAssumption DEF FirstOf
    <3>3. QED
      BY <3>2, GoodAssumption
  <2>2. CASE "owner" \notin P
    <3>1. fixed.owner = form.owner
      BY <2>2 DEF Fields
    <3>2. q.owner = r.owner
      BY <1>1, <1>2, <3>1, Normalised
    <3>3. QED
      BY <2>2, <3>2 DEF Problems, Checked
  <2>3. QED
    BY <2>1, <2>2
<1>5. validateImage(q.image)
  <2>1. CASE "image" \in P
    <3>1. fixed.image = Good.image
      BY <2>1 DEF Fields
    <3>2. QED
      BY <1>1, <3>1, Normalised, GoodAssumption
  <2>2. CASE "image" \notin P
    <3>1. fixed.image = form.image
      BY <2>2 DEF Fields
    <3>2. q.image = r.image
      BY <1>1, <3>1, Normalised
    <3>3. QED
      BY <2>2, <3>2 DEF Problems, Checked
  <2>3. QED
    BY <2>1, <2>2
<1>6. q.port \in 1 .. MaxPort
  <2>1. q.port = IF "port" \in P THEN Good.port ELSE r.port
    BY <1>1, Normalised DEF Fields
  <2>2. "port" \notin P => r.port \in 1 .. MaxPort
    BY DEF Problems, Checked
  <2>3. QED
    BY <2>1, <2>2, GoodAssumption
<1>7. ~(q.replicas < 0)
  <2>1. q.replicas = IF "replicas" \in P THEN Good.replicas ELSE r.replicas
    BY <1>1, Normalised DEF Fields
  <2>2. "replicas" \notin P => ~(r.replicas < 0)
    BY DEF Problems, Checked
  <2>3. ~(Good.replicas < 0)
    BY GoodAssumption, FormsAssumption
  <2>4. QED
    BY <2>1, <2>2, <2>3
<1>8. QED
  BY <1>3, <1>4, <1>5, <1>6, <1>7 DEF Problems

(* Nor does it make a number that does not decode.                         *)
LEMMA RepairDecodes ==
  ASSUME DOMAIN form = Fields, OutOfRange(form) = {}, NEW P
  PROVE  OutOfRange([f \in Fields |-> IF f \in P THEN Good[f] ELSE form[f]]) = {}
<1> DEFINE fixed == [f \in Fields |-> IF f \in P THEN Good[f] ELSE form[f]]
           I == -MaxInt - 1 .. MaxInt
<1>1. Good.port \in I /\ Good.replicas \in I
  <2>1. \A n \in 1 .. MaxPort : n \in I
    BY MaxIntAssumption DEF MaxPort
  <2>2. \A n \in 0 .. MaxInt : n \in I
    BY MaxIntAssumption
  <2>3. Good.port \in 1 .. MaxPort /\ Good.replicas \in 0 .. MaxInt
    BY GoodAssumption, Zenon
  <2>4. QED
    BY <2>1, <2>2, <2>3
<1> HIDE DEF I
<1>2. form.port \in I /\ form.replicas \in I
  BY DEF OutOfRange, Numbers, I
<1>3. fixed.port \in I /\ fixed.replicas \in I
  BY <1>1, <1>2 DEF Fields
<1> HIDE DEF fixed
<1>4. OutOfRange(fixed) = {}
  BY <1>3 DEF OutOfRange, Numbers, I
<1>5. QED
  BY <1>4 DEF fixed

(* How far the form is from being accepted.                                *)
Converging ==
  /\ status = "rejected" => /\ refusals = 1 /\ problems = Problems(Normalise(form))
                            /\ OutOfRange(form) = {}
  /\ status = "malformed" => refusals = 0
  /\ status = "accepted" => refusals \in {0, 1}
  /\ status = "editing" => \/ refusals = 0
                           \/ /\ refusals = 1 /\ Problems(Normalise(form)) = {}
                              /\ OutOfRange(form) = {}

(* Nobody who does as the answer says is refused twice.                    *)
THEOREM NobodyIsRefusedTwice == Spec => []OneRefusal
<1>1. Init => Converging
  BY DEF Init, Converging
<1>2. TypeOK /\ Converging /\ [Next]_vars => Converging'
  <2> SUFFICES ASSUME TypeOK, Converging, [Next]_vars PROVE Converging'
    OBVIOUS
  <2>1. CASE Submit
    BY <2>1 DEF Submit, Converging
  <2>2. CASE Repair
    <3>1. CASE status = "rejected"
      <4>1. Problems(Normalise(form')) = {}
        BY <2>2, <3>1, RepairIsEnough DEF Repair, Converging, TypeOK
      <4>2. OutOfRange(form') = {}
        BY <2>2, <3>1, RepairDecodes DEF Repair, Converging, TypeOK
      <4>3. QED
        BY <2>2, <3>1, <4>1, <4>2 DEF Repair, Converging
    <3>2. CASE status = "malformed"
      BY <2>2, <3>2 DEF Repair, Converging
    <3>3. QED
      BY <2>2, <3>1, <3>2 DEF Repair
  <2>3. CASE SubmitMalformed
    BY <2>3 DEF SubmitMalformed, Converging
  <2>4. CASE UNCHANGED vars
    BY <2>4 DEF vars, Converging, OutOfRange
  <2>5. QED
    BY <2>1, <2>2, <2>3, <2>4 DEF Next
<1>3. TypeOK /\ Converging => OneRefusal
  BY DEF TypeOK, Converging, OneRefusal
<1>4. QED
  BY <1>1, <1>2, <1>3, TypeCorrect, PTL DEF Spec

-----------------------------------------------------------------------------
(* Text that is put together and taken apart again. *)

(* Text of fewer tokens is text of more.                                   *)
LEMMA Wider ==
  ASSUME NEW A, NEW B, A \subseteq B, NEW s \in Seq(A)
  PROVE  s \in Seq(B)
  OBVIOUS

(* What stands at each place of u, a token, and v.                         *)
LEMMA Around ==
  ASSUME NEW T, NEW u \in Seq(T), NEW t \in T, NEW v \in Seq(T),
         NEW s, s = u \o <<t>> \o v
  PROVE  /\ s \in Seq(T) /\ Len(s) = Len(u) + 1 + Len(v)
         /\ \A i \in 1 .. Len(u) : s[i] = u[i]
         /\ s[Len(u) + 1] = t
         /\ \A i \in 1 .. Len(v) : s[Len(u) + 1 + i] = v[i]
<1> DEFINE w == u \o <<t>>
<1>1. /\ w \in Seq(T) /\ Len(w) = Len(u) + 1 /\ w[Len(u) + 1] = t
      /\ \A i \in 1 .. Len(u) : w[i] = u[i]
  <2>1. <<t>> \in Seq(T) /\ Len(<<t>>) = 1 /\ <<t>>[1] = t
    OBVIOUS
  <2>2. Len(u) \in Nat
    OBVIOUS
  <2>3. /\ w \in Seq(T) /\ Len(w) = Len(u) + Len(<<t>>)
        /\ \A i \in 1 .. Len(u) + Len(<<t>>) :
             w[i] = IF i <= Len(u) THEN u[i] ELSE <<t>>[i - Len(u)]
    BY <2>1, ConcatProperties, Zenon
  <2>4. QED
    BY <2>1, <2>2, <2>3
<1>2. Len(u) \in Nat /\ Len(v) \in Nat
  OBVIOUS
<1> HIDE DEF w
<1>3. /\ s \in Seq(T) /\ Len(s) = Len(w) + Len(v)
      /\ \A i \in 1 .. Len(w) + Len(v) : s[i] = IF i <= Len(w) THEN w[i] ELSE v[i - Len(w)]
  <2>1. s = w \o v
    BY DEF w
  <2>2. QED
    BY <1>1, <2>1, ConcatProperties
<1>4. /\ s \in Seq(T) /\ Len(s) = Len(u) + 1 + Len(v)
      /\ \A i \in 1 .. Len(u) : s[i] = u[i]
      /\ s[Len(u) + 1] = t
  BY <1>1, <1>2, <1>3
<1>5. ASSUME NEW i \in 1 .. Len(v) PROVE s[Len(u) + 1 + i] = v[i]
  <2>1. Len(u) + 1 + i \in 1 .. Len(w) + Len(v) /\ ~(Len(u) + 1 + i <= Len(w))
    BY <1>1, <1>2
  <2>2. Len(u) + 1 + i - Len(w) = i
    BY <1>1, <1>2
  <2>3. QED
    BY <1>3, <2>1, <2>2
<1>6. QED
  BY <1>4, <1>5

(* Cut at the last of a token: what is before it, and what is after it.    *)
LEMMA SplitLast ==
  ASSUME NEW T, NEW u \in Seq(T), NEW t \in T, NEW v \in Seq(T),
         \A i \in 1 .. Len(v) : v[i] # t
  PROVE  /\ Contains(u \o <<t>> \o v, t)
         /\ Before(u \o <<t>> \o v, t) = u
         /\ After(u \o <<t>> \o v, t) = v
<1> DEFINE s == u \o <<t>> \o v
           k == LastIndex(s, t)
<1>1. Len(u) \in Nat /\ Len(v) \in Nat
  OBVIOUS
<1>2. /\ s \in Seq(T) /\ Len(s) = Len(u) + 1 + Len(v)
      /\ \A i \in 1 .. Len(u) : s[i] = u[i]
      /\ s[Len(u) + 1] = t
      /\ \A i \in 1 .. Len(v) : s[Len(u) + 1 + i] = v[i]
  <2>1. s = u \o <<t>> \o v
    OBVIOUS
  <2> HIDE DEF s
  <2>2. QED
    BY <2>1, Around
<1> HIDE DEF s
<1>3. /\ k \in 0 .. Len(s)
      /\ k # 0 => s[k] = t
      /\ \A j \in k + 1 .. Len(s) : s[j] # t
  BY <1>2, LastIndexIsLast, Zenon
<1> HIDE DEF k
<1>4. k = Len(u) + 1
  <2>1. ~(k < Len(u) + 1)
    BY <1>1, <1>2, <1>3
  <2>2. ~(k > Len(u) + 1)
    <3>1. SUFFICES ASSUME k > Len(u) + 1 PROVE FALSE
      OBVIOUS
    <3>2. k - Len(u) - 1 \in 1 .. Len(v) /\ Len(u) + 1 + (k - Len(u) - 1) = k
      BY <3>1, <1>1, <1>2, <1>3
    <3>3. s[Len(u) + 1 + (k - Len(u) - 1)] = v[k - Len(u) - 1]
      BY <3>2, <1>2
    <3>4. s[k] = t
      BY <3>1, <1>1, <1>3
    <3>5. QED
      BY <3>2, <3>3, <3>4
  <2>3. QED
    BY <2>1, <2>2, <1>1, <1>3
<1>5. Contains(s, t)
  BY <1>1, <1>2 DEF Contains
<1>6. Before(s, t) = u
  <2>1. Before(s, t) = SubSeq(s, 1, Len(u))
    BY <1>1, <1>4 DEF Before, k
  <2>2. \A i \in 1 .. Len(u) : s[i] \in T
    BY <1>1, <1>2
  <2>3. /\ SubSeq(s, 1, Len(u)) \in Seq(T) /\ Len(SubSeq(s, 1, Len(u))) = Len(u)
        /\ \A i \in 1 .. Len(u) : SubSeq(s, 1, Len(u))[i] = u[i]
    BY <1>1, <1>2, <2>2
  <2>4. QED
    BY <2>1, <2>3, SeqEqual
<1>7. After(s, t) = v
  <2>1. /\ After(s, t) \in Seq(T) /\ Len(After(s, t)) = Len(v)
        /\ \A i \in 1 .. Len(v) : After(s, t)[i] = s[Len(u) + 1 + i]
    <3>1. /\ After(s, t) \in Seq(T) /\ Len(After(s, t)) = Len(s) - k
          /\ \A i \in 1 .. Len(s) - k : After(s, t)[i] = s[k + i]
      <4>1. s \in Seq(T)
        BY <1>2
      <4>2. /\ After(s, t) \in Seq(T)
            /\ Len(After(s, t)) = Len(s) - LastIndex(s, t)
            /\ \A i \in 1 .. Len(s) - LastIndex(s, t) :
                 After(s, t)[i] = s[LastIndex(s, t) + i]
        BY <4>1, AfterIsRest
      <4>3. QED
        BY <4>2 DEF k
    <3>2. Len(s) - k = Len(v)
      BY <1>1, <1>2, <1>4
    <3>3. QED
      BY <3>1, <3>2, <1>4
  <2>2. QED
    BY <1>2, <2>1, SeqEqual
<1>8. QED
  BY <1>5, <1>6, <1>7 DEF s

(* What Trim leaves, between the first and the last of other tokens.       *)
LEMMA TrimIs ==
  ASSUME NEW T, NEW s \in Seq(T), NEW t,
         NEW a \in 1 .. Len(s), NEW b \in 1 .. Len(s), a <= b,
         s[a] # t, s[b] # t, \A i \in 1 .. Len(s) : i < a \/ b < i => s[i] = t
  PROVE  Trim(s, t) = SubSeq(s, a, b)
<1> DEFINE kept == {i \in DOMAIN s : s[i] # t}
<1>1. a \in kept /\ b \in kept /\ \A i \in kept : i \in Nat /\ a <= i /\ i <= b
  OBVIOUS
<1> HIDE DEF kept
<1>2. Min(kept) \in kept /\ \A y \in kept : Min(kept) <= y
  BY <1>1 DEF Min
<1>3. Max(kept) \in kept /\ \A y \in kept : Max(kept) >= y
  BY <1>1 DEF Max
<1>4. Min(kept) = a /\ Max(kept) = b
  <2>1. Min(kept) \in Nat /\ Min(kept) <= a /\ a <= Min(kept) /\ a \in Nat
    BY <1>1, <1>2
  <2>2. Max(kept) \in Nat /\ Max(kept) >= b /\ Max(kept) <= b /\ b \in Nat
    BY <1>1, <1>3
  <2>3. QED
    BY <2>1, <2>2
<1>5. QED
  BY <1>1, <1>4 DEF Trim, kept

(* The whole is a part of itself.                                          *)
LEMMA Whole ==
  ASSUME NEW T, NEW s \in Seq(T)
  PROVE  SubSeq(s, 1, Len(s)) = s
<1>1. /\ SubSeq(s, 1, Len(s)) \in Seq(T) /\ Len(SubSeq(s, 1, Len(s))) = Len(s)
      /\ \A i \in 1 .. Len(s) : SubSeq(s, 1, Len(s))[i] = s[i]
  OBVIOUS
<1>2. QED
  BY <1>1, SeqEqual

(* Text with other tokens at its ends stays as it is, and comes out of     *)
(* what is trimmed behind it, or on both sides.                            *)
LEMMA Trimmed ==
  ASSUME NEW T, NEW s \in Seq(T), NEW t \in T,
         s # <<>>, s[1] # t, s[Len(s)] # t
  PROVE  /\ Trim(s, t) = s
         /\ Trim(s \o <<t>>, t) = s
         /\ Trim(<<t>> \o s \o <<t>>, t) = s
<1>1. Len(s) \in Nat \ {0} /\ <<>> \in Seq(T)
  OBVIOUS
<1>2. Trim(s, t) = s
  <2>1. Trim(s, t) = SubSeq(s, 1, Len(s))
    <3>1. 1 \in 1 .. Len(s) /\ Len(s) \in 1 .. Len(s) /\ 1 <= Len(s)
      BY <1>1
    <3>2. \A i \in 1 .. Len(s) : i < 1 \/ Len(s) < i => s[i] = t
      BY <1>1
    <3>3. QED
      BY <3>1, <3>2, TrimIs
  <2>2. QED
    BY <2>1, Whole
<1>3. Trim(s \o <<t>>, t) = s
  <2> DEFINE w == s \o <<t>>
  <2>1. /\ w \in Seq(T) /\ Len(w) = Len(s) + 1 /\ w[Len(s) + 1] = t
        /\ \A i \in 1 .. Len(s) : w[i] = s[i]
    <3>1. w = s \o <<t>> \o <<>> /\ Len(<<>>) = 0
      OBVIOUS
    <3> HIDE DEF w
    <3>2. QED
      BY <1>1, <3>1, Around
  <2> HIDE DEF w
  <2>2. Trim(w, t) = SubSeq(w, 1, Len(s))
    <3>1. 1 \in 1 .. Len(w) /\ Len(s) \in 1 .. Len(w) /\ 1 <= Len(s)
      BY <1>1, <2>1
    <3>2. w[1] # t /\ w[Len(s)] # t /\ \A i \in 1 .. Len(w) : i < 1 \/ Len(s) < i => w[i] = t
      BY <1>1, <2>1
    <3>3. QED
      BY <2>1, <3>1, <3>2, TrimIs
  <2>3. /\ SubSeq(w, 1, Len(s)) \in Seq(T) /\ Len(SubSeq(w, 1, Len(s))) = Len(s)
        /\ \A i \in 1 .. Len(s) : SubSeq(w, 1, Len(s))[i] = s[i]
    BY <1>1, <2>1
  <2>4. QED
    BY <2>2, <2>3, SeqEqual DEF w
<1>4. Trim(<<t>> \o s \o <<t>>, t) = s
  <2> DEFINE v == <<t>> \o s
             w == v \o <<t>>
  <2>1. /\ v \in Seq(T) /\ Len(v) = Len(s) + 1 /\ v[1] = t
        /\ \A i \in 1 .. Len(s) : v[i + 1] = s[i]
    BY <1>1
  <2> HIDE DEF v
  <2>2. /\ w \in Seq(T) /\ Len(w) = Len(s) + 2 /\ w[1] = t /\ w[Len(s) + 2] = t
        /\ \A i \in 1 .. Len(s) : w[i + 1] = s[i]
    BY <1>1, <2>1
  <2> HIDE DEF w
  <2>3. Trim(w, t) = SubSeq(w, 2, Len(s) + 1)
    <3>1. 2 \in 1 .. Len(w) /\ Len(s) + 1 \in 1 .. Len(w) /\ 2 <= Len(s) + 1
      BY <1>1, <2>2
    <3>2. w[2] # t /\ w[Len(s) + 1] # t
          /\ \A i \in 1 .. Len(w) : i < 2 \/ Len(s) + 1 < i => w[i] = t
      BY <1>1, <2>2
    <3>3. QED
      BY <2>2, <3>1, <3>2, TrimIs
  <2>4. /\ SubSeq(w, 2, Len(s) + 1) \in Seq(T) /\ Len(SubSeq(w, 2, Len(s) + 1)) = Len(s)
        /\ \A i \in 1 .. Len(s) : SubSeq(w, 2, Len(s) + 1)[i] = w[i + 1]
    BY <1>1, <2>2
  <2>5. QED
    BY <2>2, <2>3, <2>4, SeqEqual DEF w, v
<1>5. QED
  BY <1>2, <1>3, <1>4

(* Text with a token before it.                                            *)
LEMMA Prefixed ==
  ASSUME NEW T, NEW s \in Seq(T), NEW t \in T, NEW w, w = <<t>> \o s
  PROVE  /\ w \in Seq(T) /\ Len(w) = Len(s) + 1 /\ w # <<>> /\ w[1] = t
         /\ \A i \in 1 .. Len(s) : w[i + 1] = s[i]
         /\ s # <<>> => w[Len(w)] = s[Len(s)]
<1>1. /\ w \in Seq(T) /\ Len(w) = Len(s) + 1 /\ w[1] = t
      /\ \A i \in 1 .. Len(s) : w[i + 1] = s[i]
  OBVIOUS
<1>2. Len(s) \in Nat /\ (s # <<>> => Len(s) # 0)
  BY EmptySeq, LenProperties
<1>3. QED
  BY <1>1, <1>2

(* Text with a token behind it.                                            *)
LEMMA Suffixed ==
  ASSUME NEW T, NEW s \in Seq(T), NEW t \in T, NEW w, w = s \o <<t>>
  PROVE  /\ w \in Seq(T) /\ Len(w) = Len(s) + 1 /\ w # <<>> /\ w[Len(w)] = t
         /\ \A i \in 1 .. Len(s) : w[i] = s[i]
         /\ s # <<>> => w[1] = s[1]
<1>1. /\ w \in Seq(T) /\ Len(w) = Len(s) + 1 /\ w[Len(s) + 1] = t
      /\ \A i \in 1 .. Len(s) : w[i] = s[i]
  OBVIOUS
<1>2. Len(s) \in Nat /\ (s # <<>> => Len(s) # 0)
  BY EmptySeq, LenProperties
<1>3. QED
  BY <1>1, <1>2

(* A suffix or a prefix is taken off where it is, and nothing else is.     *)
LEMMA SuffixTrimmed ==
  ASSUME NEW T, NEW s \in Seq(T), NEW t \in T
  PROVE  /\ TrimSuffix(s \o <<t>>, t) = s
         /\ s # <<>> /\ s[Len(s)] # t => TrimSuffix(s, t) = s
<1> DEFINE w == s \o <<t>>
<1>1. /\ w \in Seq(T) /\ Len(w) = Len(s) + 1 /\ w[Len(s) + 1] = t
      /\ \A i \in 1 .. Len(s) : w[i] = s[i]
  OBVIOUS
<1>2. Len(s) \in Nat
  OBVIOUS
<1> HIDE DEF w
<1>3. w # <<>> /\ Last(w) = t
  BY <1>1, <1>2 DEF Last
<1>4. /\ Front(w) \in Seq(T) /\ Len(Front(w)) = Len(s)
      /\ \A i \in 1 .. Len(s) : Front(w)[i] = s[i]
  BY <1>1, <1>2 DEF Front
<1>5. Front(w) = s
  BY <1>4, SeqEqual
<1>6. QED
  BY <1>3, <1>5 DEF TrimSuffix, Last, w

(* The same of the first token.                                            *)
LEMMA PrefixTrimmed ==
  ASSUME NEW T, NEW s \in Seq(T), NEW t \in T
  PROVE  /\ TrimPrefix(<<t>> \o s, t) = s
         /\ s # <<>> /\ s[1] # t => TrimPrefix(s, t) = s
<1> DEFINE w == <<t>> \o s
<1>1. /\ w \in Seq(T) /\ Len(w) = Len(s) + 1 /\ w[1] = t
      /\ \A i \in 1 .. Len(s) : w[i + 1] = s[i]
  OBVIOUS
<1>2. Len(s) \in Nat
  OBVIOUS
<1> HIDE DEF w
<1>3. w # <<>> /\ Head(w) = t
  BY <1>1, <1>2
<1>4. /\ Tail(w) \in Seq(T) /\ Len(Tail(w)) = Len(s)
      /\ \A i \in 1 .. Len(s) : Tail(w)[i] = s[i]
  BY <1>1, <1>2, <1>3
<1>5. Tail(w) = s
  BY <1>4, SeqEqual
<1>6. s # <<>> => Head(s) = s[1]
  OBVIOUS
<1>7. QED
  BY <1>3, <1>5, <1>6 DEF TrimPrefix, w

(* Replacing goes through text token by token.                             *)
LEMMA ReplacedApart ==
  ASSUME NEW T, NEW u \in Seq(T), NEW v \in Seq(T), NEW a \in T, NEW b \in T
  PROVE  ReplaceAll(u \o v, a, b) = ReplaceAll(u, a, b) \o ReplaceAll(v, a, b)
<1>1. ASSUME NEW s \in Seq(T)
      PROVE  /\ ReplaceAll(s, a, b) \in Seq(T)
             /\ Len(ReplaceAll(s, a, b)) = Len(s)
             /\ \A i \in 1 .. Len(s) :
                  ReplaceAll(s, a, b)[i] = IF s[i] = a THEN b ELSE s[i]
  BY DEF ReplaceAll
<1>2. /\ u \o v \in Seq(T) /\ Len(u \o v) = Len(u) + Len(v)
      /\ \A i \in 1 .. Len(u) + Len(v) :
           (u \o v)[i] = IF i <= Len(u) THEN u[i] ELSE v[i - Len(u)]
      /\ Len(u) \in Nat /\ Len(v) \in Nat
  BY ConcatProperties, LenProperties
<1> DEFINE l == ReplaceAll(u \o v, a, b)
           r == ReplaceAll(u, a, b) \o ReplaceAll(v, a, b)
<1>3. /\ r \in Seq(T) /\ Len(r) = Len(u) + Len(v)
      /\ \A i \in 1 .. Len(u) + Len(v) :
           r[i] = IF i <= Len(u) THEN ReplaceAll(u, a, b)[i]
                                 ELSE ReplaceAll(v, a, b)[i - Len(u)]
  <2> DEFINE x == ReplaceAll(u, a, b)
             y == ReplaceAll(v, a, b)
  <2>1. /\ x \in Seq(T) /\ y \in Seq(T) /\ Len(x) = Len(u) /\ Len(y) = Len(v)
    BY <1>1
  <2> HIDE DEF x, y
  <2>2. /\ x \o y \in Seq(T) /\ Len(x \o y) = Len(x) + Len(y)
        /\ \A i \in 1 .. Len(x) + Len(y) :
             (x \o y)[i] = IF i <= Len(x) THEN x[i] ELSE y[i - Len(x)]
    BY <2>1, ConcatProperties
  <2>3. QED
    BY <2>1, <2>2 DEF x, y
<1>4. /\ l \in Seq(T) /\ Len(l) = Len(u) + Len(v)
      /\ \A i \in 1 .. Len(u) + Len(v) : l[i] = IF (u \o v)[i] = a THEN b ELSE (u \o v)[i]
  BY <1>1, <1>2
<1>5. ASSUME NEW i \in 1 .. Len(u) + Len(v) PROVE l[i] = r[i]
  <2>1. CASE i <= Len(u)
    <3>1. i \in 1 .. Len(u)
      BY <1>2, <2>1
    <3>2. (u \o v)[i] = u[i] /\ r[i] = ReplaceAll(u, a, b)[i]
      BY <1>2, <1>3, <2>1
    <3>3. ReplaceAll(u, a, b)[i] = IF u[i] = a THEN b ELSE u[i]
      BY <1>1, <3>1
    <3>4. QED
      BY <1>4, <3>2, <3>3
  <2>2. CASE ~(i <= Len(u))
    <3>1. i - Len(u) \in 1 .. Len(v)
      BY <1>2, <2>2
    <3>2. (u \o v)[i] = v[i - Len(u)] /\ r[i] = ReplaceAll(v, a, b)[i - Len(u)]
      BY <1>2, <1>3, <2>2
    <3>3. ReplaceAll(v, a, b)[i - Len(u)] = IF v[i - Len(u)] = a THEN b ELSE v[i - Len(u)]
      BY <1>1, <3>1
    <3>4. QED
      BY <1>4, <3>2, <3>3
  <2>3. QED
    BY <2>1, <2>2
<1>6. l = r
  <2> HIDE DEF l, r
  <2>1. QED
    BY <1>3, <1>4, <1>5, SeqEqual
<1>7. QED
  BY <1>6

(* Text without the token stays as it is.                                  *)
LEMMA Replaced ==
  ASSUME NEW T, NEW u \in Seq(T), NEW a \in T, NEW b \in T
  PROVE  (\A i \in 1 .. Len(u) : u[i] # a) => ReplaceAll(u, a, b) = u
<1> SUFFICES ASSUME \A i \in 1 .. Len(u) : u[i] # a PROVE ReplaceAll(u, a, b) = u
  OBVIOUS
<1>1. /\ ReplaceAll(u, a, b) \in Seq(T) /\ Len(ReplaceAll(u, a, b)) = Len(u)
      /\ \A i \in 1 .. Len(u) : ReplaceAll(u, a, b)[i] = u[i]
  BY DEF ReplaceAll
<1>2. QED
  BY <1>1, SeqEqual

-----------------------------------------------------------------------------
(* The spellings of a repository. *)

(* A name of an owner or of a repository, in text over T.                  *)
Plain(T) == {s \in Seq(T) \ {<<>>} : \A i \in 1 .. Len(s) : s[i] \notin Separators}

Host == <<"h", ".", "h">>
Path(o, n) == o \o <<"/">> \o n
Located(sep, o, n) == Host \o <<sep>> \o Path(o, n)
PathOf(text) ==
  TrimPrefix(TrimPrefix(TrimPrefix(TrimSuffix(TrimSpace(text), ".git"),
    "https://"), "http://"), "git@")

Known == Separators \cup {"h", "."}

(* What remains of a URL without its slash at the end, whichever of the    *)
(* two separators it has behind the host.                                  *)
LEMMA Slashed ==
  ASSUME NEW T, Known \subseteq T, NEW o \in Plain(T), NEW n \in Plain(T),
         NEW sep \in {"/", ":"}
  PROVE  /\ Located(sep, o, n) \in Seq(T)
         /\ Located("/", o, n) = (Host \o <<"/">> \o o) \o <<"/">> \o n
         /\ ReplaceAll(Located(sep, o, n), ":", "/") = Located("/", o, n)
         /\ ReplaceAll(Located(sep, o, n) \o <<"/">>, ":", "/")
              = Located("/", o, n) \o <<"/">>
<1>1. /\ Host \in Seq(T) /\ Len(Host) = 3
      /\ \A i \in 1 .. 3 : Host[i] \notin Separators
      /\ <<"/">> \in Seq(T) /\ Len(<<"/">>) = 1 /\ <<"/">>[1] = "/"
      /\ <<sep>> \in Seq(T) /\ Len(<<sep>>) = 1 /\ <<sep>>[1] = sep
      /\ ":" \in T /\ "/" \in T
  <2>1. /\ ":" \in T /\ "/" \in T /\ "h" \in T /\ "." \in T /\ sep \in T
        /\ "h" \notin Separators /\ "." \notin Separators
    BY DEF Known, Separators
  <2>2. Host \in Seq(T) /\ Len(Host) = 3 /\ Host[1] = "h" /\ Host[2] = "." /\ Host[3] = "h"
    BY <2>1 DEF Host
  <2>3. \A i \in 1 .. 3 : Host[i] \notin Separators
    BY <2>1, <2>2
  <2>4. \A t \in T : <<t>> \in Seq(T) /\ Len(<<t>>) = 1 /\ <<t>>[1] = t
    OBVIOUS
  <2>5. QED
    BY <2>1, <2>2, <2>3, <2>4, Zenon
<1>2. o \in Seq(T) /\ n \in Seq(T)
  BY DEF Plain
<1>c. \A u, v \in Seq(T) : u \o v \in Seq(T)
  BY ConcatProperties
<1>r. ASSUME NEW u \in Seq(T), NEW v \in Seq(T)
      PROVE  ReplaceAll(u \o v, ":", "/")
               = ReplaceAll(u, ":", "/") \o ReplaceAll(v, ":", "/")
  <2>1. ":" \in T /\ "/" \in T
    BY <1>1
  <2>2. QED
    BY <2>1, ReplacedApart, SMTT(20)
<1>3. Path(o, n) \in Seq(T)
  BY <1>1, <1>2, <1>c, Zenon DEF Path
<1>4. \A i \in 1 .. Len(Path(o, n)) : Path(o, n)[i] # ":"
  <2> DEFINE p == Path(o, n)
  <2>1. /\ Len(p) = Len(o) + 1 + Len(n)
        /\ \A i \in 1 .. Len(o) : p[i] = o[i]
        /\ p[Len(o) + 1] = "/"
        /\ \A i \in 1 .. Len(n) : p[Len(o) + 1 + i] = n[i]
    BY <1>1, <1>2, Around DEF Path
  <2>2. Len(o) \in Nat /\ Len(n) \in Nat
    BY <1>2
  <2> HIDE DEF p
  <2>3. ASSUME NEW i \in 1 .. Len(p) PROVE p[i] # ":"
    <3>1. CASE i <= Len(o)
      <4>1. i \in 1 .. Len(o)
        BY <2>2, <3>1
      <4>2. p[i] = o[i] /\ o[i] \notin Separators
        BY <2>1, <4>1 DEF Plain
      <4>3. QED
        BY <4>2 DEF Separators
    <3>2. CASE i = Len(o) + 1
      BY <2>1, <3>2
    <3>3. CASE i > Len(o) + 1
      <4>1. i - Len(o) - 1 \in 1 .. Len(n) /\ Len(o) + 1 + (i - Len(o) - 1) = i
        BY <2>1, <2>2, <3>3
      <4>2. p[Len(o) + 1 + (i - Len(o) - 1)] = n[i - Len(o) - 1]
        BY <2>1, <4>1
      <4>3. n[i - Len(o) - 1] # ":"
        BY <4>1 DEF Plain, Separators
      <4>4. QED
        BY <4>1, <4>2, <4>3
    <3>4. QED
      BY <2>2, <3>1, <3>2, <3>3
  <2>4. QED
    BY <2>3 DEF p
<1>5. /\ ReplaceAll(Host, ":", "/") = Host
      /\ ReplaceAll(Path(o, n), ":", "/") = Path(o, n)
      /\ ReplaceAll(<<"/">>, ":", "/") = <<"/">>
  <2>1. \A i \in 1 .. Len(Host) : Host[i] # ":"
    BY <1>1 DEF Separators
  <2>2. \A i \in 1 .. Len(<<"/">>) : <<"/">>[i] # ":"
    BY <1>1
  <2>3. \A u \in Seq(T) :
          (\A i \in 1 .. Len(u) : u[i] # ":") => ReplaceAll(u, ":", "/") = u
    BY <1>1, Replaced
  <2>4. QED
    BY <1>1, <1>3, <1>4, <2>1, <2>2, <2>3, Zenon
<1>6. ReplaceAll(<<sep>>, ":", "/") = <<"/">>
  <2>1. /\ Len(ReplaceAll(<<sep>>, ":", "/")) = 1
        /\ ReplaceAll(<<sep>>, ":", "/")[1] = "/"
        /\ ReplaceAll(<<sep>>, ":", "/") \in Seq(T)
    BY <1>1 DEF ReplaceAll
  <2>2. QED
    BY <1>1, <2>1, SeqEqual
<1>7. /\ Host \o <<sep>> \in Seq(T)
      /\ ReplaceAll(Host \o <<sep>>, ":", "/") = Host \o <<"/">>
  BY <1>1, <1>5, <1>6, <1>c, <1>r, Zenon
<1>8. /\ Located(sep, o, n) \in Seq(T)
      /\ ReplaceAll(Located(sep, o, n), ":", "/") = Located("/", o, n)
  BY <1>1, <1>3, <1>5, <1>7, <1>c, <1>r, Zenon DEF Located
<1>9. ReplaceAll(Located(sep, o, n) \o <<"/">>, ":", "/") = Located("/", o, n) \o <<"/">>
  BY <1>1, <1>5, <1>8, <1>r, Zenon
<1>10. Located("/", o, n) = (Host \o <<"/">> \o o) \o <<"/">> \o n
  <2>1. Located("/", o, n) = Host \o <<"/">> \o (o \o <<"/">> \o n)
    BY Zenon DEF Located, Path
  <2>2. Host \o <<"/">> \o (o \o <<"/">> \o n) = (Host \o <<"/">> \o o) \o <<"/">> \o n
    OBVIOUS
  <2>3. QED
    BY <2>1, <2>2, Zenon
<1>11. QED
  BY <1>8, <1>9, <1>10

(* No end of a location is a separator.                                    *)
LEMMA Ends ==
  ASSUME NEW T, Known \subseteq T, NEW o \in Plain(T), NEW n \in Plain(T),
         NEW sep \in {"/", ":"}
  PROVE  LET c == Located(sep, o, n) IN
         c # <<>> /\ c[1] \notin Separators /\ c[Len(c)] \notin Separators
<1> DEFINE c == Located(sep, o, n)
           q == Path(o, n)
<1>1. /\ "/" \in T /\ sep \in T /\ "h" \in T /\ "." \in T /\ "h" \notin Separators
  BY DEF Known, Separators
<1>2. Host \in Seq(T) /\ Len(Host) = 3 /\ Host[1] = "h"
  BY <1>1 DEF Host
<1>3. o \in Seq(T) /\ n \in Seq(T) /\ Len(n) \in Nat \ {0} /\ Len(o) \in Nat
  BY DEF Plain
<1>4. /\ q \in Seq(T) /\ Len(q) = Len(o) + 1 + Len(n)
      /\ \A i \in 1 .. Len(n) : q[Len(o) + 1 + i] = n[i]
  BY <1>1, <1>3, Around DEF Path
<1>5. q[Len(q)] = n[Len(n)]
  BY <1>3, <1>4
<1>6. n[Len(n)] \notin Separators
  BY <1>3 DEF Plain
<1> HIDE DEF q
<1>7. c = Host \o <<sep>> \o q
  BY DEF Located, q
<1> HIDE DEF c
<1>8. /\ c \in Seq(T) /\ Len(c) = 3 + 1 + Len(q)
      /\ \A i \in 1 .. 3 : c[i] = Host[i]
      /\ \A i \in 1 .. Len(q) : c[3 + 1 + i] = q[i]
  <2>1. /\ c \in Seq(T) /\ Len(c) = Len(Host) + 1 + Len(q)
        /\ \A i \in 1 .. Len(Host) : c[i] = Host[i]
        /\ \A i \in 1 .. Len(q) : c[Len(Host) + 1 + i] = q[i]
    <3>1. Host \in Seq(T) /\ q \in Seq(T) /\ sep \in T
      BY <1>1, <1>2, <1>4
    <3>2. QED
      BY <1>7, <3>1, Around
  <2>2. QED
    BY <1>2, <2>1
<1>9. c # <<>> /\ c[1] = "h" /\ c[Len(c)] = q[Len(q)]
  BY <1>2, <1>3, <1>4, <1>8
<1>10. QED
  BY <1>1, <1>5, <1>6, <1>9 DEF c

(* The ends of text with a token before it and another one behind it.      *)
LEMMA Framed ==
  ASSUME NEW T, NEW c \in Seq(T), c # <<>>, NEW e \in T, NEW g \in T,
         NEW w, w = <<e>> \o c, NEW v, v = w \o <<g>>
  PROVE  /\ w \in Seq(T) /\ w # <<>> /\ w[1] = e /\ w[Len(w)] = c[Len(c)]
         /\ v \in Seq(T) /\ v # <<>> /\ v[1] = e /\ v[Len(v)] = g
<1>1. w \in Seq(T) /\ w # <<>> /\ w[1] = e /\ w[Len(w)] = c[Len(c)]
  BY Prefixed
<1>2. v \in Seq(T) /\ v # <<>> /\ v[1] = w[1] /\ v[Len(v)] = g
  BY <1>1, Suffixed
<1>3. QED
  BY <1>1, <1>2

Schemes == {"https://", "http://", "git@"}

(* Text that parseRepoURL strips nothing of.                               *)
Bare(c) == c[1] \notin Separators /\ c[Len(c)] \notin {" ", ".git"}

(* Such text is what remains when a scheme is put before it and ".git"     *)
(* behind it, or spaces on both sides.                                     *)
LEMMA Stripped ==
  ASSUME NEW T, Known \subseteq T, NEW c \in Seq(T), c # <<>>, Bare(c),
         NEW e \in T, e \in Schemes
  PROVE  /\ PathOf(<<e>> \o c) = c
         /\ PathOf((<<e>> \o c) \o <<".git">>) = c
         /\ PathOf(<<" ">> \o c \o <<" ">>) = c
<1> DEFINE w == <<e>> \o c
           v == w \o <<".git">>
           u == <<" ">> \o c \o <<" ">>
<1>1. /\ " " \in T /\ ".git" \in T /\ "https://" \in T /\ "http://" \in T /\ "git@" \in T
      /\ e \in T /\ " " # e /\ " " # ".git" /\ e # ".git"
  BY DEF Known, Separators, Schemes
<1>2. /\ c[1] # " " /\ c[1] # "https://" /\ c[1] # "http://" /\ c[1] # "git@"
      /\ c[Len(c)] # " " /\ c[Len(c)] # ".git"
  BY DEF Bare, Separators
<1>3. PICK g \in T, b \in T : g = ".git" /\ b = " "
  BY <1>1
<1>4. b # e /\ b # g /\ e # g /\ c[1] # b /\ c[Len(c)] # b /\ c[Len(c)] # g
  BY <1>1, <1>2, <1>3
<1>5. w = <<e>> \o c /\ v = w \o <<g>>
  BY <1>3
<1> HIDE DEF w, v
<1>6. w \in Seq(T) /\ w # <<>> /\ w[1] = e /\ w[Len(w)] = c[Len(c)]
  BY <1>5, Framed
<1>7. v \in Seq(T) /\ v # <<>> /\ v[1] = e /\ v[Len(v)] = g
  BY <1>5, Framed
<1>8. TrimPrefix(w, e) = c
  BY <1>5, PrefixTrimmed
<1>9. \A t \in T : t # c[1] => TrimPrefix(c, t) = c
  BY PrefixTrimmed
<1>10. \A t \in T : t # e => TrimPrefix(w, t) = w
  BY <1>6, PrefixTrimmed
<1>11. TrimSuffix(w, g) = w /\ TrimSuffix(v, g) = w /\ TrimSuffix(c, g) = c
  BY <1>6, <1>4, <1>5, SuffixTrimmed
<1>12. Trim(w, b) = w /\ Trim(v, b) = v
  BY <1>6, <1>7, <1>4, Trimmed
<1>13. Trim(u, " ") = c
  BY <1>1, <1>2, Trimmed, Zenon
<1> HIDE DEF u
<1>14. /\ TrimPrefix(c, "https://") = c /\ TrimPrefix(c, "http://") = c
      /\ TrimPrefix(c, "git@") = c
  BY <1>1, <1>2, <1>9, Zenon
<1>15. TrimPrefix(TrimPrefix(TrimPrefix(w, "https://"), "http://"), "git@") = c
  <2>1. CASE e = "https://"
    BY <1>8, <1>14, <2>1
  <2>2. CASE e = "http://"
    BY <1>1, <1>8, <1>10, <1>14, <2>2
  <2>3. CASE e = "git@"
    BY <1>1, <1>8, <1>10, <1>14, <2>3
  <2>4. QED
    BY <2>1, <2>2, <2>3 DEF Schemes
<1>16. PathOf(w) = c /\ PathOf(v) = c
  BY <1>3, <1>11, <1>12, <1>15 DEF PathOf, TrimSpace
<1>17. PathOf(u) = c
  BY <1>3, <1>11, <1>13, <1>14 DEF PathOf, TrimSpace
<1>18. QED
  BY <1>16, <1>17 DEF w, v, u

(* Once it is stripped, a location with or without a slash at the end is   *)
(* read as its owner and name.                                             *)
LEMMA ReadOff ==
  ASSUME NEW T, Known \subseteq T, NEW o \in Plain(T), NEW n \in Plain(T),
         NEW sep \in {"/", ":"}, NEW text,
         \/ PathOf(text) = Located(sep, o, n)
         \/ PathOf(text) = Located(sep, o, n) \o <<"/">>
  PROVE  parsePlain(text) = [owner |-> o, repo |-> n]
<1> DEFINE bare == Located("/", o, n)
           rest == Host \o <<"/">> \o o
<1>1. "/" \in T /\ "h" \in T /\ "." \in T /\ "/" \in Separators
  BY DEF Known, Separators
<1>2. o \in Seq(T) /\ n \in Seq(T) /\ Host \in Seq(T)
  BY <1>1 DEF Plain, Host
<1>3. /\ \A i \in 1 .. Len(o) : o[i] # "/"
      /\ \A i \in 1 .. Len(n) : n[i] # "/"
  BY <1>1 DEF Plain
<1>4. rest \in Seq(T)
  <2>1. Host \o <<"/">> \in Seq(T)
    BY <1>1, <1>2
  <2>2. QED
    BY <1>2, <2>1
<1>5. bare = rest \o <<"/">> \o n
  <2>1. Located("/", o, n) = (Host \o <<"/">> \o o) \o <<"/">> \o n
    BY Slashed
  <2>2. QED
    BY <2>1
<1>6. Trim(ReplaceAll(PathOf(text), ":", "/"), "/") = bare
  <2>1. bare \in Seq(T)
    BY Slashed
  <2>2. bare # <<>> /\ bare[1] # "/" /\ bare[Len(bare)] # "/"
    BY <1>1, Ends
  <2>3. \/ ReplaceAll(PathOf(text), ":", "/") = bare
        \/ ReplaceAll(PathOf(text), ":", "/") = bare \o <<"/">>
    BY Slashed
  <2> HIDE DEF bare
  <2>4. Trim(bare, "/") = bare /\ Trim(bare \o <<"/">>, "/") = bare
    BY <1>1, <2>1, <2>2, Trimmed
  <2>5. QED
    BY <2>3, <2>4, Zenon
<1> HIDE DEF bare
<1>7. Contains(bare, "/") /\ Before(bare, "/") = rest /\ After(bare, "/") = n
  <2> HIDE DEF rest
  <2>1. QED
    BY <1>1, <1>2, <1>3, <1>4, <1>5, SplitLast
<1>8. Contains(rest, "/") /\ After(rest, "/") = o
  BY <1>1, <1>2, <1>3, SplitLast
<1> HIDE DEF rest
<1>9. QED
  BY <1>6, <1>7, <1>8 DEF parsePlain, PathOf

(* Every spelling of a repository is read as its owner and name.           *)
LEMMA Recognised ==
  ASSUME NEW x \in Repositories, NEW url \in Spellings(x.owner, x.name)
  PROVE  parseRepoURL(url) = [owner |-> x.owner, repo |-> x.name]
<1> DEFINE T == Tokens \cup Known
           o == x.owner
           n == x.name
           c == Located("/", o, n)
           d == Located(":", o, n)
           slashed == c \o <<"/">>
<1>1. Known \subseteq T
  OBVIOUS
<1>2. /\ o \in Seq(Tokens \ Separators) \ {<<>>}
      /\ n \in Seq(Tokens \ Separators) \ {<<>>}
  BY RepositoriesAssumption
<1>3. o \in Plain(T) /\ n \in Plain(T)
  <2>1. ASSUME NEW s \in Seq(Tokens \ Separators) \ {<<>>} PROVE s \in Plain(T)
    <3>1. \A i \in 1 .. Len(s) : s[i] \in Tokens \ Separators
      OBVIOUS
    <3>2. s \in Seq(T)
      BY <3>1
    <3>3. QED
      BY <3>1, <3>2 DEF Plain
  <2>2. QED
    BY <1>2, <2>1
<1>4. /\ "/" \in T /\ "https://" \in T /\ "http://" \in T /\ "git@" \in T
  BY DEF Known, Separators
<1> HIDE DEF T
<1>5. /\ c \in Seq(T) /\ c # <<>> /\ Bare(c)
      /\ d \in Seq(T) /\ d # <<>> /\ Bare(d)
  <2>1. ASSUME NEW sep \in {"/", ":"}
        PROVE  /\ Located(sep, o, n) \in Seq(T) /\ Located(sep, o, n) # <<>>
               /\ Bare(Located(sep, o, n))
    <3>1. Located(sep, o, n) \in Seq(T)
      BY <1>1, <1>3, Slashed
    <3>2. /\ Located(sep, o, n) # <<>> /\ Located(sep, o, n)[1] \notin Separators
          /\ Located(sep, o, n)[Len(Located(sep, o, n))] \notin Separators
      BY <1>1, <1>3, Ends
    <3>3. QED
      BY <3>1, <3>2 DEF Bare, Separators
  <2>2. QED
    BY <2>1
<1>6. slashed \in Seq(T) /\ slashed # <<>> /\ Bare(slashed)
  <2>1. PICK t \in T : t = "/"
    BY <1>4
  <2> DEFINE y == c \o <<t>>
  <2> HIDE DEF c
  <2>2. y \in Seq(T) /\ y # <<>> /\ y[1] = c[1] /\ y[Len(y)] = t
    BY <1>5, Suffixed
  <2> HIDE DEF y
  <2>3. Bare(y)
    BY <1>5, <2>1, <2>2 DEF Bare
  <2>4. QED
    BY <2>1, <2>2, <2>3 DEF y
<1> HIDE DEF o, n
<1>7. CASE url.kind = "picker"
  <2>1. url.owner = o /\ (url.repo = n \/ url.repo = n \o <<".git">>)
    BY <1>7 DEF Spellings, o, n
  <2>2. n \in Seq(T) /\ n # <<>> /\ n[Len(n)] # ".git" /\ ".git" \in T
    <3>1. n \in Seq(T) /\ n # <<>> /\ Len(n) \in 1 .. Len(n)
      BY <1>3 DEF Plain
    <3>2. n[Len(n)] \notin Separators
      BY <1>3, <3>1 DEF Plain
    <3>3. QED
      BY <1>1, <3>1, <3>2 DEF Separators, Known
  <2>3. TrimSuffix(url.repo, ".git") = n
    BY <2>1, <2>2, SuffixTrimmed, Zenon
  <2>4. QED
    BY <1>7, <2>1, <2>3 DEF parseRepoURL, o, n
<1>8. CASE url.kind = "plain"
  <2>1. \/ url.text = <<"https://">> \o c
        \/ url.text = <<"http://">> \o slashed
        \/ url.text = (<<"https://">> \o c) \o <<".git">>
        \/ url.text = (<<"git@">> \o d) \o <<".git">>
        \/ url.text = <<" ">> \o c \o <<" ">>
    <3> DEFINE path == o \o <<"/">> \o n
               host == <<"h", ".", "h">>
    <3>1. url.text \in {<<"https://">> \o host \o <<"/">> \o path,
                       <<"http://">> \o host \o <<"/">> \o path \o <<"/">>,
                       <<"https://">> \o host \o <<"/">> \o path \o <<".git">>,
                       <<"git@">> \o host \o <<":">> \o path \o <<".git">>,
                       <<" ">> \o host \o <<"/">> \o path \o <<" ">>}
      <4>1. \A K : url \in [kind : {"plain"}, text : K] => url.text \in K
        OBVIOUS
      <4>2. \A P, Q : url \in [kind : {"picker"}, owner : P, repo : Q]
              => url.kind = "picker"
        OBVIOUS
      <4>3. url.kind # "picker"
        BY <1>8
      <4>4. QED
        BY <4>1, <4>2, <4>3, Zenon DEF Spellings, o, n
    <3>2. <<"https://">> \o host \o <<"/">> \o path = <<"https://">> \o c
      BY DEF Located, Path, Host
    <3>3. <<"http://">> \o host \o <<"/">> \o path \o <<"/">> = <<"http://">> \o slashed
      BY DEF Located, Path, Host
    <3>4. <<"https://">> \o host \o <<"/">> \o path \o <<".git">>
            = (<<"https://">> \o c) \o <<".git">>
      BY DEF Located, Path, Host
    <3>5. <<"git@">> \o host \o <<":">> \o path \o <<".git">>
            = (<<"git@">> \o d) \o <<".git">>
      BY DEF Located, Path, Host
    <3>6. ASSUME NEW z PROVE z \o host \o <<"/">> \o path \o z = z \o c \o z
      BY DEF Located, Path, Host
    <3>7. QED
      BY <3>1, <3>2, <3>3, <3>4, <3>5, <3>6, Zenon
  <2> HIDE DEF c, d, slashed
  <2>2. \/ PathOf(url.text) = c
        \/ PathOf(url.text) = slashed
        \/ PathOf(url.text) = d
    <3>1. ASSUME NEW e \in Schemes, NEW y \in {c, d, slashed}
          PROVE  /\ PathOf(<<e>> \o y) = y
                 /\ PathOf((<<e>> \o y) \o <<".git">>) = y
                 /\ PathOf(<<" ">> \o y \o <<" ">>) = y
      <4>1. e \in T
        BY <1>4 DEF Schemes
      <4>2. y \in Seq(T) /\ y # <<>> /\ Bare(y)
        BY <1>5, <1>6
      <4>3. QED
        BY <1>1, <4>1, <4>2, Stripped, Zenon
    <3>2. "https://" \in Schemes /\ "http://" \in Schemes /\ "git@" \in Schemes
      BY DEF Schemes
    <3>3. c \in {c, d, slashed} /\ d \in {c, d, slashed} /\ slashed \in {c, d, slashed}
      OBVIOUS
    <3>4. QED
      BY <2>1, <3>1, <3>2, <3>3, Zenon
  <2>3. parsePlain(url.text) = [owner |-> o, repo |-> n]
    BY <1>1, <1>3, <2>2, ReadOff DEF c, d, slashed
  <2>4. QED
    BY <1>8, <2>3 DEF parseRepoURL, o, n
<1>9. QED
  BY <1>7, <1>8 DEF Spellings

(* What was answered is the form, read once.                               *)
ReadOnce == status \in {"accepted", "rejected"} => read = Normalise(form)

(* A request is for the repository that its URL spells out, whoever owns   *)
(* it, whatever it is called, and however its URL is written.              *)
THEOREM TheRepositoryMeant == Spec => []RepositoryMeant
<1>1. Init => ReadOnce
  BY DEF Init, ReadOnce
<1>2. ReadOnce /\ [Next]_vars => ReadOnce'
  <2> SUFFICES ASSUME ReadOnce, [Next]_vars PROVE ReadOnce'
    OBVIOUS
  <2>1. CASE Submit
    BY <2>1 DEF Submit, ReadOnce
  <2>2. CASE Repair
    BY <2>2 DEF Repair, ReadOnce
  <2>3. CASE SubmitMalformed
    BY <2>3 DEF SubmitMalformed, ReadOnce
  <2>4. CASE UNCHANGED vars
    BY <2>4 DEF vars, ReadOnce
  <2>5. QED
    BY <2>1, <2>2, <2>3, <2>4 DEF Next
<1>3. TypeOK /\ ReadOnce => RepositoryMeant
  <2> SUFFICES ASSUME DOMAIN form = Fields, read = Normalise(form),
                      NEW x \in Repositories,
                      form.repoUrl \in Spellings(x.owner, x.name)
               PROVE  /\ TrimSpace(form.name) = <<>> => read.name = x.name
                      /\ TrimSpace(form.owner) = <<>> => read.owner = x.owner
    BY DEF TypeOK, ReadOnce, RepositoryMeant
  <2>1. parseRepoURL(form.repoUrl) = [owner |-> x.owner, repo |-> x.name]
    BY Recognised
  <2>2. x.owner # <<>>
    BY RepositoriesAssumption
  <2>3. /\ read.name = FirstOf(TrimSpace(form.name), x.name)
        /\ read.owner = FirstOf(FirstOf(TrimSpace(form.owner), x.owner), DefaultOwner)
    BY <2>1, Normalised
  <2>4. QED
    BY <2>2, <2>3 DEF FirstOf
<1>4. QED
  BY <1>1, <1>2, <1>3, TypeCorrect, PTL DEF Spec

=============================================================================
