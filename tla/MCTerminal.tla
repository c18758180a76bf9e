----------------------------- MODULE MCTerminal -----------------------------
(* Small instances of Terminal: completions, session trees and providers.    *)
EXTENDS Terminal

\* Four completions of two categories, one of them a row higher than the others; or three without
\* a category.
MCCategories == {c \in [1 .. 4 -> {"x", "y"}] : \A i \in 1 .. 3 : c[i] = "y" => c[i + 1] = "y"}
MCLists ==
  {<<>>}
  \cup {[i \in 1 .. 4 |-> [category |-> c[i], extra |-> IF i = k THEN 1 ELSE 0]] :
          c \in MCCategories, k \in 0 .. 4}
  \cup {[i \in 1 .. 3 |-> [category |-> "none", extra |-> e[i]]] : e \in [1 .. 3 -> {0, 1}]}

\* Every tree of four entries that starts with two in a row, where the parent of the third may be
\* missing.
MCKinds == <<"user", "calls", "user", "summary">>
MCTrees == {t \in [1 .. 4 -> [parent : -1 .. 3, kind : {"user", "calls", "summary"}]] :
              /\ \A i \in 1 .. 4 : t[i].kind = MCKinds[i] /\ t[i].parent < i
              /\ t[1].parent = 0 /\ t[2].parent = 1 /\ t[3].parent # 0 /\ t[4].parent > 0}

MCBuiltIn == <<"both", "sub", "plain">>
MCMethods == [both |-> {"oauth", "api_key"}, sub |-> {"oauth"}, plain |-> {"api_key"}]
=============================================================================
