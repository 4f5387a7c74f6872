----------------------------- MODULE MCFlagDrafts -----------------------------
(* A small instance of FlagDrafts: a boolean flag with a rule for a segment *)
(* and one for an attribute, a config flag, and a flag still to be made.    *)
EXTENDS FlagDrafts

CONSTANTS beta, vip, legacy, d0, d1

MCListed == beta :> "userId" @@ vip :> "userId" @@ legacy :> Undefined

MCMembers == beta :> {"ann"}

Ann == <<"string", "ann">>
Bob == <<"string", "bob">>
MCContexts == {Rejected, <<>>, [userId |-> Ann], [userId |-> Bob],
               [userId |-> <<"boolean", "true">>]}

MCRollouts == {[percentage |-> 29, bucketBy |-> "userId", salt |-> <<>>],
               [percentage |-> 10001, bucketBy |-> "userId", salt |-> <<>>],
               [percentage |-> 5000, bucketBy |-> "userId", salt |-> <<"salt", "s">>]}

Buckets == [text \in {"ann", "bob"} |-> IF text = "ann" THEN 28 ELSE 4999]
MCBucket == [x \in {"flag", "theme"} \X
                   ({<<"salt", "s">>} \union
                    {<<"rule", k, i>> : k \in {"flag", "theme"}, i \in 1..4}) \X
                   {"ann", "bob"} |-> Buckets[x[3]]]

MCDrift == {-1, 0, 1}

InBeta  == [when |-> [userId |-> [op |-> "inSegment", operand |-> beta]],
            enabled |-> TRUE]
IsBob   == [when |-> [userId |-> [op |-> "equals", operand |-> Bob]],
            enabled |-> FALSE]
HalfOf(rule) ==
  rule @@ [rollout |-> [percentage |-> 5000, bucketBy |-> "userId",
                        salt |-> <<"rule", "flag", 2>>]]
Else    == [when |-> <<>>, enabled |-> TRUE]

OldFlag == [type |-> "boolean", enabled |-> TRUE]
Flag    == [type |-> "boolean", enabled |-> TRUE,
            rules |-> <<InBeta, HalfOf(IsBob)>>]
Theme   == [type |-> "config", enabled |-> TRUE, default |-> d0]

MCPublished == {[schema |-> 1, features |-> "flag" :> OldFlag @@ "theme" :> Theme],
                [schema |-> 2, features |-> "flag" :> Flag]}

MCEdits ==
  {[kind |-> "enabled", key |-> k, enabled |-> FALSE] : k \in {"flag", "theme"}} \union
  {[kind |-> "default", key |-> k, default |-> d1] : k \in {"flag", "theme"}} \union
  {[kind |-> "create", key |-> "flag", type |-> t, enabled |-> FALSE, default |-> d1] :
     t \in {"boolean", "config"}} \union
  {[kind |-> "attachSegment", key |-> "flag", segment |-> vip,
    attribute |-> "userId", value |-> ""]} \union
  {[kind |-> "create", key |-> "new", type |-> "boolean", enabled |-> FALSE],
   [kind |-> "create", key |-> "", type |-> "boolean", enabled |-> FALSE],
   [kind |-> "delete", key |-> "flag"],
   [kind |-> "detachSegment", key |-> "flag", index |-> 1],
   [kind |-> "setRules", key |-> "flag", rules |-> <<IsBob, Else>>],
   [kind |-> "setRules", key |-> "flag", rules |-> Malformed],
   [kind |-> "setRollout", key |-> "flag", index |-> 1, percentage |-> 29,
    bucketBy |-> "userId", salt |-> <<>>]}
=============================================================================
