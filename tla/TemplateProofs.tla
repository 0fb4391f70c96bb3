--------------------------- MODULE TemplateProofs ---------------------------
(***************************************************************************)
(* Theorems about Template, for names and namespaces of any length.        *)
(***************************************************************************)
EXTENDS Template, RequestRulesProofs

(* The first place of a token that stands behind text without it.          *)
LEMMA FirstIs ==
  ASSUME NEW T, NEW s \in Seq(T), NEW t, NEW k \in 1 .. Len(s),
         s[k] = t, \A i \in 1 .. k - 1 : s[i] # t
  PROVE  First(s, t) = k /\ Contains(s, t)
<1> DEFINE I == {i \in 1 .. Len(s) : s[i] = t}
<1>1. Len(s) \in Nat
  OBVIOUS
<1>2. k \in I /\ \A i \in I : k =< i
  BY <1>1
<1>3. First(s, t) = Min(I)
  BY <1>2 DEF First, SelectInSeq
<1>4. \A i \in I : i \in Int
  BY <1>1
<1> HIDE DEF I
<1>5. Min(I) = k
  <2>1. Min(I) \in I /\ \A i \in I : Min(I) =< i
    BY <1>2 DEF Min
  <2>2. Min(I) =< k /\ k =< Min(I) /\ Min(I) \in Int /\ k \in Int
    BY <1>2, <1>4, <2>1, Zenon
  <2>3. \A a, b \in Int : a =< b /\ b =< a => a = b
    OBVIOUS
  <2>4. QED
    BY <2>2, <2>3, Zenon
<1>6. Contains(s, t)
  BY DEF Contains
<1>7. QED
  BY <1>3, <1>5, <1>6

(* Text is split at the first of a token, and text without it is whole: a  *)
(* namespace and a name that a slash has put together are read back.       *)
LEMMA ReadBack ==
  ASSUME NEW T, NEW u \in Seq(T), NEW t \in T, NEW v \in Seq(T),
         \A i \in 1 .. Len(u) : u[i] # t,
         \A i \in 1 .. Len(v) : v[i] # t,
         NEW s, s = u \o <<t>> \o v
  PROVE  t = "/" /\ u # <<>> /\ v # <<>>
           => parseWebAppRef(s) = [namespace |-> u, name |-> v]
<1>1. /\ s \in Seq(T) /\ Len(s) = Len(u) + 1 + Len(v)
      /\ \A i \in 1 .. Len(u) : s[i] = u[i]
      /\ s[Len(u) + 1] = t
      /\ \A i \in 1 .. Len(v) : s[Len(u) + 1 + i] = v[i]
  BY Around
<1>2. Len(u) \in Nat /\ Len(v) \in Nat
  OBVIOUS
<1>3. First(s, t) = Len(u) + 1 /\ Contains(s, t)
  <2>1. Len(u) + 1 \in 1 .. Len(s) /\ \A i \in 1 .. (Len(u) + 1) - 1 : s[i] # t
    BY <1>1, <1>2
  <2>2. QED
    BY <1>1, <2>1, FirstIs
<1>4. First(s, t) - 1 = Len(u) /\ First(s, t) + 1 = Len(u) + 2
  BY <1>2, <1>3
<1>5. Cut(s, t) = u
  <2>1. Cut(s, t) = SubSeq(s, 1, Len(u))
    BY <1>4, <1>3, Zenon DEF Cut
  <2>2. /\ SubSeq(s, 1, Len(u)) \in Seq(T) /\ Len(SubSeq(s, 1, Len(u))) = Len(u)
        /\ \A i \in 1 .. Len(u) : SubSeq(s, 1, Len(u))[i] = u[i]
    BY <1>1, <1>2
  <2>3. QED
    BY <2>1, <2>2, SeqEqual
<1>6. Rest(s, t) = v
  <2> DEFINE r == SubSeq(s, Len(u) + 2, Len(s))
  <2>1. Rest(s, t) = r
    BY <1>4, <1>3, Zenon DEF Rest
  <2>2. /\ r \in Seq(T) /\ Len(r) = Len(v)
        /\ \A i \in 1 .. Len(v) : r[i] = s[Len(u) + 1 + i]
    BY <1>1, <1>2
  <2> HIDE DEF r
  <2>3. /\ r \in Seq(T) /\ Len(r) = Len(v)
        /\ \A i \in 1 .. Len(v) : r[i] = v[i]
    BY <1>1, <2>2
  <2>4. r = v
    BY <2>3, SeqEqual
  <2>5. QED
    BY <2>1, <2>4
<1>7. Cut(v, t) = v
  BY DEF Cut, Contains
<1>8. QED
  BY <1>5, <1>6, <1>7 DEF parseWebAppRef

(* What is taken off text leaves text.                                     *)
LEMMA TakenOff ==
  ASSUME NEW T, NEW s \in Seq(T), NEW t
  PROVE  TrimPrefix(s, t) \in Seq(T) /\ TrimSuffix(s, t) \in Seq(T)
<1>1. s # <<>> => Tail(s) \in Seq(T)
  OBVIOUS
<1>2. s # <<>> => Front(s) \in Seq(T)
  <2>1. s # <<>> => Len(s) \in Nat \ {0} /\ \A i \in 1 .. Len(s) - 1 : s[i] \in T
    OBVIOUS
  <2>2. QED
    BY <2>1 DEF Front
<1>3. QED
  BY <1>1, <1>2 DEF TrimPrefix, TrimSuffix

(* The name that stands in a URL is text, with slashes for colons.         *)
LEMMA ParsedType ==
  ASSUME NEW url \in RepoURLs
  PROVE  parseRepoURL(url).repo \in Seq(Tokens \cup {"/"})
<1> DEFINE T == Tokens \cup {"/"}
<1>1. CASE url.kind = "none"
  <2>1. parseRepoURL(url).repo = <<>>
    BY <1>1 DEF parseRepoURL, NotAURL
  <2>2. QED
    BY <2>1, EmptySeq
<1>2. CASE url.kind = "picker"
  <2>1. url.repo \in Seq(Tokens)
    BY <1>2 DEF RepoURLs
  <2>2. TrimSuffix(url.repo, ".git") \in Seq(Tokens)
    BY <2>1, TakenOff
  <2>3. TrimSuffix(url.repo, ".git") \in Seq(T)
    BY <2>2, Wider
  <2>4. QED
    BY <1>2, <2>3 DEF parseRepoURL
<1>3. CASE url.kind = "plain"
  <2> DEFINE path == PathOf(url.text)
             bare == Trim(ReplaceAll(path, ":", "/"), "/")
  <2>1. url.text \in Seq(Tokens)
    BY <1>3 DEF RepoURLs
  <2>2. path \in Seq(Tokens)
    BY <2>1, TrimType, TakenOff DEF PathOf, TrimSpace
  <2> HIDE DEF path
  <2>3. ReplaceAll(path, ":", "/") \in Seq(T)
    BY <2>2 DEF ReplaceAll
  <2>4. bare \in Seq(T)
    BY <2>3, TrimType
  <2> HIDE DEF bare
  <2>5. After(bare, "/") \in Seq(T)
    BY <2>4, AfterIsRest
  <2>6. parsePlain(url.text).repo \in {<<>>, After(bare, "/")}
    <3>1. parsePlain(url.text) =
            IF Contains(bare, "/") /\ Contains(Before(bare, "/"), "/")
            THEN [owner |-> After(Before(bare, "/"), "/"), repo |-> After(bare, "/")]
            ELSE NotAURL
      BY Zenon DEF parsePlain, bare, path, PathOf
    <3>2. QED
      BY <3>1 DEF NotAURL
  <2>7. parseRepoURL(url) = parsePlain(url.text)
    BY <1>3 DEF parseRepoURL
  <2>8. <<>> \in Seq(T)
    BY EmptySeq
  <2> HIDE DEF T
  <2>9. QED
    BY <2>5, <2>6, <2>7, <2>8 DEF T
<1>4. QED
  BY <1>1, <1>2, <1>3 DEF RepoURLs

(* The fields of the form that the rendering is made of are text.          *)
FormIsText ==
  /\ form.name \in Seq(Tokens) /\ form.namespace \in Seq(Tokens)
  /\ form.repoUrl \in RepoURLs

(* They stay text when the form is repaired.                               *)
LEMMA StaysText == TypeOK /\ FormIsText /\ [Next]_vars => FormIsText'
<1> SUFFICES ASSUME TypeOK, FormIsText, [Next]_vars PROVE FormIsText'
  OBVIOUS
<1>1. CASE Submit
  BY <1>1 DEF Submit, FormIsText
<1>2. CASE Repair
  <2>1. \A f \in Fields : form'[f] \in {Good[f], form[f]}
    BY <1>2 DEF Repair
  <2>2. /\ form'.name \in {Good.name, form.name}
        /\ form'.namespace \in {Good.namespace, form.namespace}
        /\ form'.repoUrl \in {Good.repoUrl, form.repoUrl}
    BY <2>1 DEF Fields
  <2>3. QED
    BY <2>2, FormsAssumption DEF FormIsText
<1>3. CASE SubmitMalformed
  BY <1>3 DEF SubmitMalformed, FormIsText
<1>4. CASE UNCHANGED vars
  BY <1>4 DEF vars, FormIsText
<1>5. QED
  BY <1>1, <1>2, <1>3, <1>4 DEF Next

(* The last of two tokens is taken off.                                    *)
LEMMA ExtensionOff ==
  ASSUME NEW a, NEW b
  PROVE  TrimSuffix(<<a, b>>, b) = <<a>>
<1>1. <<a, b>> # <<>> /\ Last(<<a, b>>) = b
  BY DEF Last
<1>2. SubSeq(<<a, b>>, 1, 1) = <<a>>
  <2> DEFINE s == SubSeq(<<a, b>>, 1, 1)
  <2>1. <<a, b>> \in Seq({a, b}) /\ <<a>> \in Seq({a, b}) /\ Len(<<a>>) = 1 /\ <<a>>[1] = a
    OBVIOUS
  <2>2. s \in Seq({a, b}) /\ Len(s) = 1 /\ s[1] = a
    BY <2>1
  <2> HIDE DEF s
  <2>3. s = <<a>>
    BY <2>1, <2>2, SeqEqual
  <2>4. QED
    BY <2>3 DEF s
<1>3. Front(<<a, b>>) = <<a>>
  BY <1>2 DEF Front
<1>4. QED
  BY <1>1, <1>3 DEF TrimSuffix

(* The prefix of the metrics has no character but letters, digits and "_", *)
(* and begins as the name does if that is with a letter or a digit.        *)
LEMMA Prefix ==
  ASSUME NEW T, NEW name \in Seq(T), name # <<>>
  PROVE  /\ \A i \in DOMAIN MetricPrefix(name) : MetricPrefix(name)[i] \in Alnum \cup {"_"}
         /\ Head(name) \in Alnum => Head(MetricPrefix(name)) = Head(name)
<1> DEFINE A == Alnum \cup {"_"}
           m == [i \in 1 .. Len(name) |-> IF name[i] \in A THEN name[i] ELSE "_"]
<1>1. DOMAIN name = 1 .. Len(name) /\ Len(name) \in Nat \ {0} /\ Head(name) = name[1]
  OBVIOUS
<1>2. MetricPrefix(name) = m
  BY <1>1 DEF MetricPrefix
<1>3. /\ "_" \in A /\ Alnum \subseteq A
      /\ \A i \in 1 .. Len(name) : m[i] = IF name[i] \in A THEN name[i] ELSE "_"
      /\ DOMAIN m = 1 .. Len(name)
  OBVIOUS
<1>4. \A i \in 1 .. Len(name) : m[i] \in A
  BY <1>3, Zenon
<1> HIDE DEF A
<1>5. m \in [1 .. Len(name) -> A]
  BY <1>4
<1> HIDE DEF m
<1>6. m \in Seq(A) /\ Len(m) = Len(name)
  BY <1>1, <1>5
<1>7. Head(m) = m[1]
  BY <1>1, <1>6
<1>8. Head(name) \in Alnum => m[1] = name[1]
  <2>1. 1 \in 1 .. Len(name)
    BY <1>1
  <2>2. m[1] = IF name[1] \in A THEN name[1] ELSE "_"
    BY <1>3, <2>1, Zenon
  <2>3. QED
    BY <1>1, <1>3, <2>2, Zenon
<1>9. QED
  BY <1>1, <1>2, <1>3, <1>4, <1>7, <1>8 DEF A

(* An accepted request is rendered to files that say which resource is the *)
(* service's, in a way that the tab reads back, and to metrics with names  *)
(* that Prometheus takes.                                                  *)
THEOREM TheRenderingFits == Spec => []RenderingFits
<1>1. Init => FormIsText /\ ReadOnce /\ AnswerIsOfRead
  BY FormsAssumption DEF Init, FormIsText, ReadOnce, AnswerIsOfRead
<1>2. ReadOnce /\ [Next]_vars => ReadOnce'
  BY DEF ReadOnce, Next, SubmitMalformed, Submit, Repair, vars
<1>3. AnswerIsOfRead /\ [Next]_vars => AnswerIsOfRead'
  BY DEF AnswerIsOfRead, Next, SubmitMalformed, Submit, Repair, vars
<1>4. TypeOK /\ FormIsText /\ ReadOnce /\ AnswerIsOfRead => RenderingFits
  <2> SUFFICES ASSUME DOMAIN form = Fields, FormIsText, read = Normalise(form),
                      Problems(read) = {}
               PROVE  /\ Render(read) # Refused
                      /\ <<"catalog-info.yaml">> \in Render(read).files
                      /\ ~Contains(read.namespace, "/") =>
                           parseWebAppRef(Render(read).webapp)
                             = [namespace |-> read.namespace, name |-> read.name]
                      /\ Head(read.name) \notin Digits =>
                           /\ \A i \in DOMAIN Render(read).metrics :
                                Render(read).metrics[i] \in Alnum \cup {"_"}
                           /\ Head(Render(read).metrics) \notin Digits
    BY DEF TypeOK, ReadOnce, AnswerIsOfRead, RenderingFits
  <2> DEFINE T == Tokens \cup {"/"}
             name == read.name
             namespace == read.namespace
             out == [files   |-> {targetPath(path) : path \in Stored},
                     webapp  |-> namespace \o <<"/">> \o name,
                     metrics |-> MetricPrefix(name)]
  <2>1. dnsLabel(name) /\ read.owner # <<>>
    BY DEF Problems, Checked
  <2>2. name \in Seq(T)
    <3>1. TrimSpace(form.name) \in Seq(Tokens)
      BY TrimType DEF FormIsText, TrimSpace
    <3>2. TrimSpace(form.name) \in Seq(T)
      BY <3>1, Wider
    <3>3. parseRepoURL(form.repoUrl).repo \in Seq(T)
      BY ParsedType DEF FormIsText
    <3>4. QED
      BY <3>2, <3>3, Normalised DEF FirstOf
  <2>3. namespace \in Seq(T) /\ namespace # <<>>
    <3>1. namespace = FirstOf(form.namespace, DefaultNamespace)
      BY Normalised
    <3>2. namespace \in Seq(Tokens) \ {<<>>}
      BY <3>1, FormsAssumption DEF FormIsText, FirstOf
    <3>3. QED
      BY <3>2, Wider
  <2>4. /\ name # <<>> /\ Head(name) \in Alnum
        /\ \A i \in 1 .. Len(name) : name[i] # "/"
    BY <2>1, <2>2, AlnumAssumption DEF dnsLabel
  <2>5. Render(read) = out
    BY <2>1, <2>4 DEF Render
  <2>6. out # Refused
    BY DEF Refused
  <2>7. <<"catalog-info.yaml">> \in out.files
    <3> DEFINE stored == <<"files/", "catalog-info.yaml", ".tmpl">>
    <3>1. stored \in Stored
      BY DEF Stored
    <3>2. TrimPrefix(stored, "files/") = <<"catalog-info.yaml", ".tmpl">>
      BY DEF TrimPrefix
    <3>3. TrimSuffix(<<"catalog-info.yaml", ".tmpl">>, ".tmpl") = <<"catalog-info.yaml">>
      BY ExtensionOff
    <3>4. <<"catalog-info.yaml">> \notin DOMAIN renamed
      BY DEF renamed
    <3>5. targetPath(stored) = <<"catalog-info.yaml">>
      BY <3>2, <3>3, <3>4 DEF targetPath
    <3>6. QED
      BY <3>1, <3>5
  <2>8. ASSUME ~Contains(namespace, "/")
        PROVE  parseWebAppRef(out.webapp) = [namespace |-> namespace, name |-> name]
    <3>1. PICK t \in T : t = "/"
      OBVIOUS
    <3>2. out.webapp = namespace \o <<t>> \o name
      BY <3>1
    <3>3. /\ \A i \in 1 .. Len(namespace) : namespace[i] # t
          /\ \A i \in 1 .. Len(name) : name[i] # t
      BY <2>4, <2>8, <3>1 DEF Contains
    <3> HIDE DEF out, name, namespace, T
    <3>4. QED
      BY <2>2, <2>3, <2>4, <3>1, <3>2, <3>3, ReadBack
  <2>9. ASSUME Head(name) \notin Digits
        PROVE  /\ \A i \in DOMAIN out.metrics : out.metrics[i] \in Alnum \cup {"_"}
               /\ Head(out.metrics) \notin Digits
    BY <2>2, <2>4, <2>9, Prefix
  <2>10. QED
    BY <2>5, <2>6, <2>7, <2>8, <2>9
<1>5. QED
  BY <1>1, <1>2, <1>3, <1>4, StaysText, TypeCorrect, PTL DEF Spec

=============================================================================
