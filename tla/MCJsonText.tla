----------------------------- MODULE MCJsonText -----------------------------
(* CclJsonText on every list of terminals up to a length, and on values of *)
(* up to two elements that are up to three levels deep.                    *)
EXTENDS CclJsonGrammar

Leaves == {<<"str", "a">>, <<"int", "-">>, <<"null", "-">>, <<"set", "-">>}
Keys == {<<"str", "a">>, <<"str", "b">>, <<"int", "-">>}

Lists(S, n) == UNION {[1 .. k -> S] : k \in 0 .. n}
Distinct(s) == \A i, j \in DOMAIN s : i # j => s[i][1] # s[j][1]
Nested(S, n) ==
  ({"array", "list"} \X Lists(S, n)) \cup
  ({"dict"} \X {s \in Lists(Keys \X S, n) : Distinct(s)})

Few == {<<"str", "a">>, <<"set", "-">>, <<"array", <<>>>>, <<"dict", <<>>>>,
        <<"list", <<<<"int", "-">>>>>>, <<"dict", <<<<<<"str", "b">>, <<"null", "-">>>>>>>>}
SmallValues == Leaves \cup Keys \cup Nested(Leaves, 2) \cup Nested(Few, 2) \cup Nested(Nested(Few, 1), 1)
=============================================================================
