----------------------------- MODULE MCNameMg -----------------------------
(* A category with its father, an appender and two log states; all but one *)
(* of the names in one bucket.                                             *)
EXTENDS NameMg, TLC

SomeFather == ("a" :> Root) @@ ("a.b" :> "a")
SomeBucket == [n \in Name |-> IF n = "2" THEN 2 ELSE 1]
TwoSetups == {[calls |-> 3, oom |-> FALSE], [calls |-> 3, oom |-> TRUE]}
=============================================================================
