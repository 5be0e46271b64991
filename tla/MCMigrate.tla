----------------------------- MODULE MCMigrate -----------------------------
(***************************************************************************)
(* Two trees, two closed days and the current one.  phantom-ids: one       *)
(* ticker whose destination is empty, or has a day of its own.             *)
(* quote-basis: a USDC and a USDT series of one asset, with and without a  *)
(* USD twin in either tree.                                                *)
(***************************************************************************)
EXTENDS Migrate

MCTrees == <<"indexes", "bars">>

File(t, id, d) == [tree |-> t, id |-> id, day |-> d, by |-> id]

Phantom == {File("indexes", "old", 1), File("indexes", "old", 2), File("bars", "old", 1)}

Twins == {{}, {File("indexes", "usd", 1)}, {File("bars", "usd", 2)}}

MCWorlds ==
  {[tool |-> "phantom", dest |-> [i \in {"old"} |-> "new"], order |-> <<"old">>,
    shards |-> Phantom \cup extra] : extra \in {{}, {File("indexes", "new", 1)}}}
  \cup
  {[tool |-> "quote", dest |-> [i \in {"usdc", "usdt"} |-> "usd"], order |-> <<"usdc", "usdt">>,
    shards |-> {File("indexes", "usdc", 1), File("bars", "usdc", 1)} \cup b \cup twin] :
     twin \in Twins, b \in {{}, {File("indexes", "usdt", 2)}}}
=============================================================================
