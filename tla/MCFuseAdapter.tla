---------------------------- MODULE MCFuseAdapter ----------------------------
(***************************************************************************)
(* One volume v that is visible at two places (its own mount and a         *)
(* container's), one image or container c whose provider is replaced by    *)
(* every rebuild, and one friendly alias.                                  *)
(***************************************************************************)
EXTENDS FuseAdapter

CONSTANTS t1, t2

Symmetry == Permutations(Threads)

MCMountPoints == {<<"a">>, <<"b">>}

MCTypeOf ==
  [v |-> (<<>> :> "dir" @@ <<"a">> :> "file"),
   c |-> (<<>> :> "file")]

MCInitialPlan == [mounts |-> (<<"a">> :> "v" @@ <<"b">> :> "v"), aliases |-> {}]
MCPlans == {[mounts |-> (<<"a">> :> "c"), aliases |-> {<<"b">>}]}

MCMaxGen == [v |-> 1, c |-> 0]

\* The node keys and hard-link keys that the nodes above can have.
MCKeys ==
  {RootKey} \cup [path : {<<"a">>, <<"b">>, <<"a", "a">>, <<"b", "a">>}, gen : 0..1]

MCHardlinks ==
  [node : {<<"path", "a">>, <<"path", "b">>, <<"c">>}, gen : {0}]
  \cup [node : {<<"v">>, <<"v", "a">>}, gen : 0..1]
=============================================================================
