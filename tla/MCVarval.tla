------------------------------ MODULE MCVarval ------------------------------
(* CclVarval with schemas of up to two levels and what may be wrong in them. *)
EXTENDS CclVarval

(* In the order of their bytes. *)
MCWords == << "!=", "<", "<=", "==", ">", ">=", "[", "a", "aa", "all-items",
  "all-keys", "b", "integer", "items", "nosuch", "opt-items", "other", "ref",
  "ref2", "regex", "root", "size <", "size ==", "string", "type" >>

Integer(n) == Scalar(TypeInteger, n)
Float(n) == Scalar(TypeFloat, n)
Bool(n) == Scalar(TypeBool, n)
Array(s) == Container(TypeArray, <<>>, s)
List(s) == Container(TypeList, <<>>, s)
P(name, arg) == <<Str(name), arg>>

MCScalars == {Blank, Bool(1), Integer(0), Integer(2), Float(0), Float(1), Float(NaN),
            Str("a"), Str("aa")}
MCValues == MCScalars \cup
  { Array(<<>>), Array(<<Integer(0)>>), Array(<<Integer(2), Str("a")>>),
    Array(<<Str("b"), Integer(0)>>), List(<<Integer(2), Str("a")>>),
    SetOf(<<Str("a"), Integer(0), Integer(2), Integer(0)>>),
    Array(<<Float(NaN)>>), Array(<<Float(1)>>),
    Dict(<< P("a", Integer(0)) >>), Dict(<< P("a", Str("a")), P("b", Integer(2)) >>),
    Dict(<< P("b", Str("aa")), <<Integer(0), Integer(2)>> >>),
    Dict(<< P("a", Array(<<Str("a"), Integer(2)>>)) >>),
    Array(<< Dict(<<P("a", Str("a"))>>), Array(<<Integer(0)>>) >>) }

MCMatching == {<<"a", "a">>, <<"a", "aa">>, <<"b", "b">>}
MCBad == {"["}

(* One property, right or wrong. *)
Leaves ==
  { P("type", Str("integer")), P("type", Str("nosuch")), P("<", Integer(2)),
    P(">=", Str("a")), P("!=", Array(<<Integer(0)>>)), P("size ==", Integer(1)),
    P("size <", Str("a")), P("regex", Str("a")), P("regex", Str("[")),
    P("nosuch", Integer(0)), P("ref", Str("other")), P("ref2", Str("b")),
    <<Integer(0), Integer(0)>> }
Alone == {Dict(<<l>>) : l \in Leaves}

(* What an item is asked for: properties, a name, or neither. *)
Asks == Alone \cup {Str("other"), Str("b"), Integer(0)}

Walks(A) ==
       {P("items", Dict(<< <<Integer(1), a>> >>)) : a \in A}
  \cup {P("items", Dict(<< P("a", a) >>)) : a \in A}
  \cup {P("opt-items", Dict(<< P("b", a) >>)) : a \in A}
  \cup {P("all-keys", a) : a \in A}
  \cup {P("all-items", a) : a \in A}
  \cup {P("items", Integer(0))}

Roots == Alone \cup {Dict(<<w>>) : w \in Walks(Asks)}
  \cup {Dict(<<w, l>>) : w \in Walks({Str("other")}),
                         l \in {P("type", Str("integer")), P("!=", Blank), P("regex", Str("["))}}
  \cup {Dict(<<w>>) : w \in Walks({Dict(<<w>>) : w \in
          Walks({Str("other"), Dict(<<P("type", Str("string"))>>)})})}

Others == {Dict(<<P("type", Str("integer"))>>), Dict(<<P("regex", Str("[")), P("size <", Integer(2))>>),
           Dict(<<P("ref", Str("other"))>>), Dict(<<P("ref", Str("root"))>>),
           Dict(<<P("all-items", Str("other"))>>), Blank}

MCSchemas == {Dict(<< P("root", r), P("other", o) >>) : r \in Roots, o \in Others}
  \cup {Dict(<< P("other", o) >>) : o \in Others}
=============================================================================
