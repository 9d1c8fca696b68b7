---------------------------- MODULE CclJsonGrammar --------------------------
(***************************************************************************)
(* What JSON is, as a recursive reading of a list of terminals with        *)
(* nothing of tables or stacks, and what the parser of CclJsonText owes    *)
(* to it, for texts from outside and for those the writer made.            *)
(***************************************************************************)
EXTENDS CclJsonText

(* Reading from position i yields at most one outcome: a value and where   *)
(* it ends, or that the list ends too soon.                                *)
More == [val |-> <<"more", "-">>, next |-> 0]
Result(v, j) == [val |-> v, next |-> j]
At(w, i, kind) == i <= Len(w) /\ w[i][1] = kind

RECURSIVE Value(_, _), Elements(_, _, _), Members(_, _, _)

Value(w, i) ==
  IF i > Len(w) THEN {More}
  ELSE IF w[i][1] \in Scalars THEN {Result(w[i], i + 1)}
  ELSE IF w[i][1] = "lbrack"
       THEN IF At(w, i + 1, "rbrack") THEN {Result(Array(<<>>), i + 2)}
            ELSE Elements(w, i + 1, <<>>)
  ELSE IF w[i][1] = "lbrace"
       THEN IF At(w, i + 1, "rbrace") THEN {Result(Dict({}), i + 2)}
            ELSE Members(w, i + 1, {})
  ELSE {}

Elements(w, i, seen) ==
  UNION {IF r = More \/ r.next > Len(w) THEN {More}
         ELSE IF At(w, r.next, "rbrack") THEN {Result(Array(Append(seen, r.val)), r.next + 1)}
         ELSE IF At(w, r.next, "comma") THEN Elements(w, r.next + 1, Append(seen, r.val))
         ELSE {} : r \in Value(w, i)}

Members(w, i, seen) ==
  IF i > Len(w) THEN {More}
  ELSE IF ~At(w, i, "str") THEN {}
  ELSE IF i = Len(w) THEN {More}
  ELSE IF ~At(w, i + 1, "colon") THEN {}
  ELSE UNION {LET now == IF \E p \in seen : p[1] = w[i] THEN seen
                         ELSE seen \cup {<<w[i], r.val>>}
              IN  IF r = More \/ r.next > Len(w) THEN {More}
                  ELSE IF At(w, r.next, "rbrace") THEN {Result(Dict(now), r.next + 1)}
                  ELSE IF At(w, r.next, "comma") THEN Members(w, r.next + 1, now)
                  ELSE {} : r \in Value(w, i + 2)}

(* A document is an object with nothing after it. *)
Documents(w) ==
  IF w = <<>> THEN {More}
  ELSE IF ~At(w, 1, "lbrace") THEN {}
  ELSE UNION {IF r = More \/ r.next = Len(w) + 1 THEN {More}
              ELSE IF At(w, r.next, "eof") /\ r.next = Len(w) THEN {r}
              ELSE {} : r \in Value(w, 1)}

-----------------------------------------------------------------------------
(* ccljson.cc:1011-1089: a document is accepted, and nothing else is.  As  *)
(* soon as a terminal fits no document the parser gives up, and it never   *)
(* gives up one that has begun well.  What it returns is the value the     *)
(* document stands for, however deep objects, arrays and strings are       *)
(* nested in one another, with nothing unfinished left behind.  At every   *)
(* reduction the stacks of values hold what its action takes, and the      *)
(* automaton has a state to go to.                                         *)
ParsesJson ==
  /\ StacksFit
  /\ verdict = "running" /\ ret_term = NoTerm => Documents(read) = {More}
  /\ verdict = "syntax" => Documents(read) = {}
  /\ verdict = "done" => \E r \in Documents(read) : r # More /\ r.val = objects[1]

-----------------------------------------------------------------------------
(* What a value is after it was written and read: a list is an array, and  *)
(* the pairs of a dictionary have no order.                                *)
RECURSIVE Plain(_)
Plain(v) ==
  CASE v[1] \in Sequential -> Array([i \in DOMAIN v[2] |-> Plain(v[2][i])])
    [] v[1] = "dict" -> Dict({<<v[2][i][1], Plain(v[2][i][2])>> : i \in DOMAIN v[2]})
    [] OTHER -> v

(* ccljson.cc:102-469, 1011-1089: what create or create_nice wrote for a   *)
(* dictionary is read back as that dictionary, and what they wrote for any *)
(* other value is refused.                                                 *)
ReadBack ==
  result = "done" =>
    /\ verdict = "done" => var[1] = "dict" /\ objects = <<Plain(var)>>
    /\ verdict = "syntax" => var[1] # "dict"
    /\ verdict # "fault"
=============================================================================
