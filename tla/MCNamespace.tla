---------------------------- MODULE MCNamespace -----------------------------
(* Two directories with a file of the same name: enough to move a subtree    *)
(* over another.                                                             *)
EXTENDS Namespace

MCPaths == {<<"a">>, <<"b">>, <<"a", "c">>, <<"b", "c">>}

Tree(present) ==
  [p \in MCPaths |-> IF p \notin present THEN None ELSE IF Len(p) = 1 THEN Dir(1) ELSE File(1)]

MCTrees == {Tree({<<"a">>, <<"b">>, <<"b", "c">>})}
=============================================================================
