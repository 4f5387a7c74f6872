------------------------- MODULE MCDashboardSessions -------------------------
(* A small instance of DashboardSessions: a config flag "a", a boolean flag   *)
(* "b", and a flag "c" that may be made.                                      *)
EXTENDS DashboardSessions

CONSTANTS d0, d1, d2

A == [type |-> "config", enabled |-> FALSE, default |-> d0]
B == [type |-> "boolean", enabled |-> FALSE]

Initial(features) ==
  << Version([schema |-> 2, features |-> features], 0) >>

MCStarted == {<<>>, Initial("a" :> A @@ "b" :> B)}
MCStale == {Initial("a" :> A @@ "b" :> B)}

Default(d) == [kind |-> "default", key |-> "a", default |-> d]
Create(key) == [kind |-> "create", key |-> key, type |-> "boolean", enabled |-> FALSE]
Delete(key) == [kind |-> "delete", key |-> key]

MCRivalEdits == {Default(d2)}
MCImmediate == {Create("c"), Delete("a")}
MCTyped == {Default(d1), Create("c")}

NoFunction == <<>>
=============================================================================
