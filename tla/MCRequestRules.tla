--------------------------- MODULE MCRequestRules ---------------------------
(* Instances of RequestRules and Template: every short image, every short  *)
(* name, and the combinations of a few values of each field.               *)
EXTENDS Template

RightForm == [name |-> <<"a">>, owner |-> <<"o">>, repoUrl |-> [kind |-> "none"],
              image |-> <<"a", ":", "b">>, port |-> 80, replicas |-> 1,
              namespace |-> <<>>]

NoText == <<>>
SomeText == <<"o">>
AllTokens == {"a", "b", "o", "h", "1", ".", "-", "_", " ", ":", "/", "latest",
              "@sha256:", "https://", "http://", "git@", ".git"}
Characters == {"a", "b", "o", "1"}
One == {"1"}
Marks == {"a", ":", "/", "latest", "@sha256:"}
Images == BoundedSeq(Marks, 5)
Names == BoundedSeq({"a", "1", "-", "/", " "}, 4)

Meant == {[owner |-> <<"o">>, name |-> <<"a">>],
          [owner |-> <<"b", "o">>, name |-> <<"a", "-", "b">>]}

(* Every spelling of the two, and texts that name no repository.           *)
URLs ==
  UNION {Spellings(x.owner, x.name) : x \in Meant}
    \cup [kind : {"plain"}, text : {<<"a", "/", "b">>, <<"https://", "/">>}]
    \cup {[kind |-> "none"]}

ManyForms ==
  {[RightForm EXCEPT !.image = image] : image \in Images}
    \cup {[RightForm EXCEPT !.name = name] : name \in Names}
    \cup {[RightForm EXCEPT !.port = port, !.replicas = replicas, !.image = image] :
             port \in {-70002, -70001, 0, 80, 70001},
             replicas \in {-70002, -70001, -1, 70000, 70001},
             image \in {<<>>, <<"a", ":", "b">>}}
    \cup [name : {<<>>, <<" ", "a">>, <<"a", "-", "b">>, <<"a", "_">>},
          owner : {<<>>, <<"o">>, <<"b", " ">>},
          repoUrl : URLs,
          image : {<<>>, <<"a", ":", "b">>, <<" ", "a", ":", "latest">>},
          port : {0, 1, 65535, 65536},
          replicas : {-1, 0},
          namespace : {<<>>, <<"b">>, <<"b", "/", "a">>}]
=============================================================================
