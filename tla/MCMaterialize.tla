---------------------------- MODULE MCMaterialize ----------------------------
EXTENDS Materialize

(* Top-level names covering each class of the allow-list and one name   *)
(* outside it; "forge-std" as a child collides with the installed one,   *)
(* "@oz" as a child of lib/ with a top-level @oz.                          *)
MCTops == {"contracts", "src", "lib", "node_modules", "forge-std", "@oz", "docs"}
MCKids == {"A", "forge-std", "@oz"}
MCAtNames == {"@oz"}
MCContractsLike == {"contracts", "contracts-v2"}

(* Metadata remappings: identity on a scope, an alias to a scope, an     *)
(* alias into contracts, into forge-std, and a path that only starts     *)
(* with the string "contracts".                                           *)
MCMetaRemaps ==
    { [name |-> <<"@oz">>, path |-> <<"@oz">>],
      [name |-> <<"oz">>,  path |-> <<"@oz">>],
      [name |-> <<"c">>,   path |-> <<"contracts">>],
      [name |-> <<"fs">>,  path |-> <<"forge-std">>],
      [name |-> <<"v2">>,  path |-> <<"contracts-v2">>] }
=============================================================================
