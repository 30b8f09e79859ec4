--------------------------- MODULE MCVersionSync ---------------------------
(* Instances of VersionSync for TLC. *)
EXTENDS VersionSync, TLC

\* Two settings about one contact, its top place and its remark name, and one
\* about another.
Contact == [k \in Keys |-> IF k \in {"top", "remark"} THEN "one" ELSE "other"]
TwoSettings == << [key |-> "top", here |-> TRUE], [key |-> "remark", here |-> TRUE] >>

Alike == Permutations(Callers)

\* Nothing is said of a table that is spoiled.
Unspoiled == upset \intersect Spoils = {}
=============================================================================
