---------------------------- MODULE RequestRules ----------------------------
(***************************************************************************)
(* What a request to POST /scaffold has to look like, and how the service  *)
(* reads it: services/scaffolder/internal/provision/request.go, together   *)
(* with the person who fills in the form, is shown the problems of a 400   *)
(* and sends the form again.                                               *)
(*                                                                         *)
(* Text is a sequence of tokens: a letter or digit, a punctuation mark, or *)
(* one of the words that the code looks for ("latest", "@sha256:",         *)
(* "https://", "http://", "git@", ".git").                                 *)
(***************************************************************************)
EXTENDS Integers, Sequences, SequencesExt

CONSTANTS
  Tokens,            \* what text is made of
  Forms,             \* what people send
  Repositories,      \* repositories that may be meant, with owner and name
  Good,              \* acceptable values, known to somebody told what is wrong
  DefaultOwner, DefaultNamespace,
  Alnum,             \* the lowercase letters and digits
  MaxName,           \* the longest name, 63 in the code
  MaxInt             \* the largest int32, 2^31 - 1 in the code

MaxPort == 65535
Fields == {"name", "owner", "repoUrl", "image", "port", "replicas", "namespace"}
Checked == {"name", "owner", "image", "port", "replicas"}
Numbers == {"port", "replicas"}

(* What may be sent as the URL of a repository: nothing, the query that    *)
(* the RepoUrlPicker makes, or text.                                       *)
RepoURLs ==
  [kind : {"none"}]
    \cup [kind : {"picker"}, owner : Seq(Tokens), repo : Seq(Tokens)]
    \cup [kind : {"plain"}, text : Seq(Tokens)]

ASSUME FormsAssumption ==
  /\ \A form \in Forms \cup {Good} :
       /\ DOMAIN form = Fields
       /\ form.name \in Seq(Tokens) /\ form.owner \in Seq(Tokens)
       /\ form.repoUrl \in RepoURLs
       /\ form.image \in Seq(Tokens)
       /\ form.port \in Int /\ form.replicas \in Int
       /\ form.namespace \in Seq(Tokens)
  /\ DefaultNamespace \in Seq(Tokens) \ {<<>>}
  /\ MaxName \in Nat \ {0}

(* Every port is an int32. *)
ASSUME MaxIntAssumption == MaxInt \in Nat /\ MaxInt >= MaxPort

(* Tokens that parseRepoURL gives a meaning to.  GitHub lets no name of an *)
(* owner or of a repository have one, or end in ".git".                    *)
Separators == {" ", ":", "/", ".git", "https://", "http://", "git@"}

ASSUME RepositoriesAssumption ==
  \A x \in Repositories :
    {x.owner, x.name} \subseteq Seq(Tokens \ Separators) \ {<<>>}

VARIABLES
  form,      \* the fields as they are filled in
  status,    \* "editing", or the answer: "accepted", "rejected", "malformed"
  read,      \* the request as Normalise left it
  problems,  \* the fields the answer names
  refusals   \* how often the form has been answered with a list of problems

vars == <<form, status, read, problems, refusals>>

-----------------------------------------------------------------------------
(* Package strings. *)

Trim(s, t) ==
  LET kept == {i \in DOMAIN s : s[i] # t}
  IN  IF kept = {} THEN <<>> ELSE SubSeq(s, Min(kept), Max(kept))
TrimSpace(s) == Trim(s, " ")
TrimPrefix(s, t) == IF s # <<>> /\ Head(s) = t THEN Tail(s) ELSE s
TrimSuffix(s, t) == IF s # <<>> /\ Last(s) = t THEN Front(s) ELSE s

LastIndex(s, t) == SelectLastInSeq(s, LAMBDA e : e = t)
Before(s, t) == SubSeq(s, 1, LastIndex(s, t) - 1)
After(s, t) == SubSeq(s, LastIndex(s, t) + 1, Len(s))

-----------------------------------------------------------------------------
(* The rules. *)

(* A tag is looked for behind the first colon, which may be that of a port.*)
validateImageFirstColon(image) ==
  LET colon == SelectInSeq(image, LAMBDA e : e = ":")
      tag == SubSeq(image, colon + 1, Len(image))
  IN  \/ Contains(image, "@sha256:")
      \/ colon # 0 /\ tag \notin {<<>>, <<"latest">>}

validateImage(image) ==
  LET name == After(image, "/")
      tag == After(name, ":")
  IN  \/ Contains(image, "@sha256:")
      \/ Contains(name, ":") /\ tag \notin {<<>>, <<"latest">>}

(* Only the length and the two ends are looked at.                         *)
dnsLabelEnds(name) ==
  /\ Len(name) \in 1 .. MaxName
  /\ Head(name) \in Alnum /\ Last(name) \in Alnum

(* ^[a-z0-9]([-a-z0-9]*[a-z0-9])?$, and not longer than a label may be.    *)
dnsLabel(name) ==
  /\ Len(name) \in 1 .. MaxName
  /\ Head(name) \in Alnum /\ Last(name) \in Alnum
  /\ \A i \in DOMAIN name : name[i] \in Alnum \cup {"-"}

NotAURL == [owner |-> <<>>, repo |-> <<>>]

(* The colon of git@host:owner/name separates nothing.                     *)
parsePlainNoColon(text) ==
  LET path == TrimPrefix(TrimPrefix(TrimPrefix(TrimSuffix(TrimSpace(text), ".git"),
                "https://"), "http://"), "git@")
      bare == Trim(path, "/")
      rest == Before(bare, "/")
  IN  IF Contains(bare, "/") /\ Contains(rest, "/")
        THEN [owner |-> After(rest, "/"), repo |-> After(bare, "/")]
        ELSE NotAURL

(* The last two of at least three parts.                                   *)
parsePlain(text) ==
  LET path == TrimPrefix(TrimPrefix(TrimPrefix(TrimSuffix(TrimSpace(text), ".git"),
                "https://"), "http://"), "git@")
      bare == Trim(ReplaceAll(path, ":", "/"), "/")
      rest == Before(bare, "/")
  IN  IF Contains(bare, "/") /\ Contains(rest, "/")
        THEN [owner |-> After(rest, "/"), repo |-> After(bare, "/")]
        ELSE NotAURL

(* A URL is plain text, or what the RepoUrlPicker makes: a query.          *)
parseRepoURL(url) ==
  CASE url.kind = "none"   -> NotAURL
    [] url.kind = "picker" -> [owner |-> url.owner, repo |-> TrimSuffix(url.repo, ".git")]
    [] url.kind = "plain"  -> parsePlain(url.text)

FirstOf(s, t) == IF s # <<>> THEN s ELSE t

Normalise(r) ==
  LET parsed == parseRepoURL(r.repoUrl)
  IN  [r EXCEPT !.name = FirstOf(TrimSpace(@), parsed.repo),
                !.owner = FirstOf(FirstOf(TrimSpace(@), parsed.owner), DefaultOwner),
                !.image = TrimSpace(@),
                !.namespace = FirstOf(@, DefaultNamespace)]

(* The fields of a normalised request that are wrong.                      *)
Problems(r) ==
  {f \in Checked :
     \/ f = "name" /\ ~dnsLabel(r.name)
     \/ f = "owner" /\ r.owner = <<>>
     \/ f = "image" /\ ~validateImage(r.image)
     \/ f = "port" /\ r.port \notin 1 .. MaxPort
     \/ f = "replicas" /\ r.replicas < 0}

(* Values are good in all the fields that can be wrong.                    *)
ASSUME GoodAssumption ==
  /\ TrimSpace(Good.name) = Good.name /\ dnsLabel(Good.name)
  /\ TrimSpace(Good.owner) = Good.owner /\ Good.owner # <<>>
  /\ validateImage(TrimSpace(Good.image))
  /\ Good.port \in 1 .. MaxPort /\ Good.replicas \in 0 .. MaxInt

-----------------------------------------------------------------------------
(* The form. *)

Init ==
  /\ form \in Forms
  /\ status = "editing"
  /\ read = form
  /\ problems = {}
  /\ refusals = 0

(* The numbers that do not decode as int32.                                *)
OutOfRange(r) == {f \in Numbers : r[f] \notin -MaxInt - 1 .. MaxInt}

(* A body that does not decode is answered 400 without being looked at     *)
(* further; the error of the decoder names one field.                      *)
SubmitMalformed ==
  /\ status = "editing"
  /\ \E f \in OutOfRange(form) : problems' = {f}
  /\ status' = "malformed"
  /\ UNCHANGED <<form, read, refusals>>

(* The answer has the first problem only.                                  *)
SubmitOneAtATime ==
  LET r == Normalise(form) IN
  /\ status = "editing" /\ OutOfRange(form) = {}
  /\ read' = r
  /\ IF Problems(r) = {}
       THEN status' = "accepted" /\ problems' = {} /\ UNCHANGED refusals
       ELSE /\ status' = "rejected" /\ refusals' = refusals + 1
            /\ \E f \in Problems(r) : problems' = {f}
  /\ UNCHANGED form

(* Problems pile up over the attempts.                                     *)
SubmitKeepingProblems ==
  LET r == Normalise(form) IN
  /\ status = "editing" /\ OutOfRange(form) = {}
  /\ read' = r
  /\ problems' = problems \cup Problems(r)
  /\ status' = IF Problems(r) = {} THEN "accepted" ELSE "rejected"
  /\ refusals' = IF Problems(r) = {} THEN refusals ELSE refusals + 1
  /\ UNCHANGED form

Submit ==
  LET r == Normalise(form) IN
  /\ status = "editing" /\ OutOfRange(form) = {}
  /\ read' = r
  /\ problems' = Problems(r)
  /\ status' = IF Problems(r) = {} THEN "accepted" ELSE "rejected"
  /\ refusals' = IF Problems(r) = {} THEN refusals ELSE refusals + 1
  /\ UNCHANGED form

(* The person puts right the fields that were named, and no others.        *)
Repair ==
  /\ status \in {"rejected", "malformed"}
  /\ form' = [f \in Fields |-> IF f \in problems THEN Good[f] ELSE form[f]]
  /\ status' = "editing"
  /\ UNCHANGED <<read, problems, refusals>>

Next == SubmitMalformed \/ Submit \/ Repair

Spec == Init /\ [][Next]_vars

-----------------------------------------------------------------------------
(* Every variable has its type; an accepted form has no problems, and one  *)
(* that was refused has some.                                              *)
TypeOK ==
  /\ DOMAIN form = Fields /\ DOMAIN read = Fields
  /\ form.image \in Seq(Tokens) /\ read.image \in Seq(Tokens)
  /\ status \in {"editing", "accepted", "rejected", "malformed"}
  /\ problems \subseteq Checked
  /\ status = "accepted" => problems = {}
  /\ status = "rejected" => problems # {}
  /\ refusals \in Nat

(* What the operator's webhook asks of an image: a digest, or a tag of its *)
(* own, which is what follows the colon of the last part of the path.      *)
Pinned(image) ==
  \/ \E i \in DOMAIN image : image[i] = "@sha256:"
  \/ \E i \in DOMAIN image :
       /\ image[i] = ":"
       /\ \A j \in i + 1 .. Len(image) : image[j] \notin {":", "/"}
       /\ i < Len(image)
       /\ image[Len(image)] = "latest" => Len(image) > i + 1

(* The service accepts exactly the images that the operator's webhook will *)
(* accept, wherever they have ports, slashes and tags, so that admission   *)
(* refuses nothing after the repository has been created                   *)
(* (request.go:103-108).                                                   *)
ImagesAsTheOperator ==
  status \in {"accepted", "rejected"} =>
    ("image" \notin problems <=> Pinned(read.image))

(* The ways to write down the repository of owner o and name n.            *)
Spellings(o, n) ==
  LET path == o \o <<"/">> \o n
      host == <<"h", ".", "h">>
      texts == {<<"https://">> \o host \o <<"/">> \o path,
                <<"http://">> \o host \o <<"/">> \o path \o <<"/">>,
                <<"https://">> \o host \o <<"/">> \o path \o <<".git">>,
                <<"git@">> \o host \o <<":">> \o path \o <<".git">>,
                <<" ">> \o host \o <<"/">> \o path \o <<" ">>}
  IN  [kind : {"plain"}, text : texts]
        \cup [kind : {"picker"}, owner : {o}, repo : {n, n \o <<".git">>}]

(* However the repository is written down, the request is for that one,    *)
(* except for what the form says of name and owner itself                  *)
(* (request.go:138-139).                                                   *)
RepositoryMeant ==
  status \in {"accepted", "rejected"} =>
    \A x \in Repositories :
      form.repoUrl \in Spellings(x.owner, x.name)
        => /\ TrimSpace(form.name) = <<>> => read.name = x.name
           /\ TrimSpace(form.owner) = <<>> => read.owner = x.owner

(* Every problem is reported at once: who puts right all that the answer   *)
(* names is not refused again, neither for another problem nor because the *)
(* request does not decode (request.go:37-38).  Numbers that do not decode *)
(* come first, and one by one.                                             *)
OneRefusal == refusals <= 1 /\ (status = "malformed" => refusals = 0)
=============================================================================
