----------------------------- MODULE MCMigrate -----------------------------
(* Migrate for TLC: binaries of one application with different migration   *)
(* lists, and a second application with a namespace of its own.            *)
EXTENDS Migrate

M(v, d) == [version |-> v, definition |-> d]
Binary(ns, list, target, minimum, adopts) ==
    [namespace |-> ns, list |-> list, target |-> target, minimum |-> minimum, adopts |-> adopts]

MCMigrators ==
    { Binary("app", <<M(1, "a"), M(2, "a")>>, 2, 0, TRUE),               \* the old binary
      Binary("app", <<M(1, "a"), M(2, "a"), M(4, "a")>>, 4, 2, TRUE),    \* upgrades from 2 on
      Binary("app", <<M(1, "a"), M(2, "b")>>, 2, 0, FALSE),              \* a divergent branch
      Binary("app", <<M(1, "a"), M(3, "a")>>, 3, 0, TRUE),               \* another one
      Binary("app", <<M(1, "a"), M(2, "a")>>, 3, 0, TRUE),               \* refused: no version 3
      Binary("other", <<M(1, "x")>>, 1, 0, FALSE) }

AppTables ==
    { <<>>,
      <<Row(M(1, "a"), "old")>>,
      <<Row(M(1, "a"), "now")>>,
      <<Row(M(1, "a"), "")>>,
      <<Row(M(1, "a"), "old"), Row(M(2, "a"), "old")>> }

MCTables == [n \in Namespace |-> IF n = "app" THEN AppTables ELSE {<<>>}]

=============================================================================
