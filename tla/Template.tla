------------------------------ MODULE Template ------------------------------
(***************************************************************************)
(* What an accepted request is rendered to, and how the pieces of it are   *)
(* read later: services/scaffolder/internal/template/template.go with the  *)
(* catalog-info.yaml that it embeds, and parseWebAppRef of                 *)
(* backstage/plugins/webapp-status/src/types.ts.                           *)
(*                                                                         *)
(* Text is that of RequestRules.  Of the contents of the files, only the   *)
(* values that another program looks for are kept.                         *)
(***************************************************************************)
EXTENDS RequestRules

CONSTANT Digits  \* the digits among Alnum

ASSUME DigitsAssumption == Digits \subseteq Alnum

(* A slash is neither a letter nor a digit.                                *)
ASSUME AlnumAssumption == "/" \notin Alnum

(* Files cannot all be stored under the name they will have.               *)
Stored == {<<"files/", base, ".tmpl">> :
             base \in {"catalog-info.yaml", "gitignore", "ci.yml", "webapp.yaml"}}
renamed == [base \in {<<"gitignore">>} |-> <<".gitignore">>]

targetPath(path) ==
  LET trimmed == TrimSuffix(TrimPrefix(path, "files/"), ".tmpl")
  IN  IF trimmed \in DOMAIN renamed THEN renamed[trimmed] ELSE trimmed

(* Every character but letters, digits and "_" becomes "_". *)
MetricPrefix(name) ==
  [i \in DOMAIN name |-> IF name[i] \in Alnum \cup {"_"} THEN name[i] ELSE "_"]

Refused == [error |-> "template: name and owner are required"]

Render(p) ==
  IF p.name = <<>> \/ p.owner = <<>> THEN Refused
  ELSE [files   |-> {targetPath(path) : path \in Stored},
        webapp  |-> p.namespace \o <<"/">> \o p.name,
        metrics |-> MetricPrefix(p.name)]

-----------------------------------------------------------------------------
(* The tab: value.split('/'), of which the first two parts count. *)

First(s, t) == SelectInSeq(s, LAMBDA e : e = t)
Cut(s, t) == IF Contains(s, t) THEN SubSeq(s, 1, First(s, t) - 1) ELSE s
Rest(s, t) == IF Contains(s, t) THEN SubSeq(s, First(s, t) + 1, Len(s)) ELSE <<>>

NoWebApp == [namespace |-> <<>>, name |-> <<>>]

parseWebAppRef(value) ==
  LET ref == [namespace |-> Cut(value, "/"), name |-> Cut(Rest(value, "/"), "/")]
  IN  IF ref.namespace = <<>> \/ ref.name = <<>> THEN NoWebApp ELSE ref

-----------------------------------------------------------------------------
(* An accepted request is rendered, never refused after the check; the     *)
(* files include the one that marks a repository as scaffolded; the tab    *)
(* reads from the annotation the very resource that is applied; and where  *)
(* the name begins with a letter, the metrics of the service have names    *)
(* that Prometheus takes.  The namespace is free text: one with a slash,   *)
(* which no cluster has, is read as another resource (github.go:121-123,   *)
(* template.go:47-51 and 64-67, types.ts:38-51).                           *)
RenderingFits ==
  status = "accepted" =>
    LET out == Render(read) IN
    /\ out # Refused
    /\ <<"catalog-info.yaml">> \in out.files
    /\ ~Contains(read.namespace, "/") =>
         parseWebAppRef(out.webapp)
           = [namespace |-> read.namespace, name |-> read.name]
    /\ Head(read.name) \notin Digits =>
         /\ \A i \in DOMAIN out.metrics : out.metrics[i] \in Alnum \cup {"_"}
         /\ Head(out.metrics) \notin Digits
=============================================================================
