----------------------------- MODULE MCLikeMatch -----------------------------
(* LikeMatch for TLC: two letters, one of them in both cases, and the two  *)
(* wildcards, in names as well as in patterns.                             *)
EXTENDS LikeMatch

Letters == {"a", "A", "b", "%", "_"}
ToLower == [c \in Letters |-> IF c = "A" THEN "a" ELSE c]
=============================================================================
