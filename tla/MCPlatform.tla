------------------------------ MODULE MCPlatform ------------------------------
(***************************************************************************)
(* Small instances of Platform: the callers and repositories of            *)
(* MCScaffold, with a second resource of the same name elsewhere.          *)
(***************************************************************************)
EXTENDS Platform, MCScaffold

CONSTANT n2

TwoNamespaces == [a \in Apps |-> IF a = a1 THEN n1 ELSE n2]
=============================================================================
