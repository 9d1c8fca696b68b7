----------------------------- MODULE CclVarval ------------------------------
(***************************************************************************)
(* validator_c of lib/cclvarval: a value is checked against a schema, a    *)
(* dictionary of named property dictionaries that starts at "root" and     *)
(* whose parts refer to one another by name.  An exception leaves two      *)
(* stacks behind that tell where in the value and where in the schema it   *)
(* was thrown; they are filled on the way out, innermost first, and        *)
(* reversed at the end.  One action is one call of validate(); what it     *)
(* computes is written as the recursion the code is.                       *)
(***************************************************************************)
EXTENDS CclValue, FiniteSets, TLC

CONSTANTS Schemas,   \* schemas a validator is made of
          Matching,  \* <<pattern, text>> that match (regexec)
          BadRegex,  \* patterns regcomp refuses
          MaxDepth,  \* calls deep before the stack ends (a bound)
          MaxCalls   \* calls of validate (a bound)

VARIABLES m_schema,
          m_regex_map,    \* pattern -> "regex", or "null" without an object
          m_value_stack,
          m_props_stack,
          end,            \* how the last call ended: "ok" or the error
          calls,
          keeps           \* the compiler evaluates m_regex_map[..] before new

vars == <<m_schema, m_regex_map, m_value_stack, m_props_stack, end, value,
          calls, keeps>>

Init ==
  /\ m_schema \in Schemas
  /\ m_regex_map = <<>>
  /\ m_value_stack = <<>> /\ m_props_stack = <<>>
  /\ end = "none" /\ value = Blank /\ calls = 0
  /\ keeps \in BOOLEAN

-----------------------------------------------------------------------------
(* c_type_map and c_prop_map, the comparisons as the signs they allow. *)
TypeMap == ("blank" :> TypeBlank) @@ ("bool" :> TypeBool) @@
  ("integer" :> TypeInteger) @@ ("float" :> TypeFloat) @@
  ("string" :> TypeString) @@ ("array" :> TypeArray) @@ ("set" :> TypeSet) @@
  ("list" :> TypeList) @@ ("dict" :> TypeDict)

CompareMap == ("==" :> {0}) @@ ("!=" :> {-1, 1}) @@ ("<" :> {-1}) @@
  (">" :> {1}) @@ ("<=" :> {-1, 0}) @@ (">=" :> {0, 1})

SizeMap == ("size ==" :> {0}) @@ ("size !=" :> {-1, 1}) @@ ("size <" :> {-1}) @@
  ("size >" :> {1}) @@ ("size <=" :> {-1, 0}) @@ ("size >=" :> {0, 1})

(* The types whose items a property walks. *)
WalkMap == ("items" :> {TypeArray, TypeDict}) @@ ("opt-items" :> {TypeDict}) @@
  ("all-keys" :> {TypeDict}) @@
  ("all-items" :> {TypeArray, TypeSet, TypeList, TypeDict})

Known == DOMAIN CompareMap \cup DOMAIN SizeMap \cup DOMAIN WalkMap \cup {"type", "regex"}
References == {"ref", "ref2"}  \* the words that start with "ref"

Size(v) == IF v.t = TypeString THEN Len(Word(v)) ELSE Len(v.e)

-----------------------------------------------------------------------------
(* A call's result: how it ended, the stacks and the table of patterns. *)
Got(how, map) == [end |-> how, vs |-> <<>>, ps |-> <<>>, map |-> map]

(* INVALID_CODE: what the way out adds. *)
Pushed(r, vs, ps) ==
  IF r.end = "ok" THEN r ELSE [r EXCEPT !.vs = @ \o vs, !.ps = @ \o ps]

(* type, the comparisons and the sizes *)
Plain(name, v, arg) ==
  CASE name = "type" ->
         IF arg.t # TypeString \/ Word(arg) \notin DOMAIN TypeMap THEN "schema type"
         ELSE IF v.t # TypeMap[Word(arg)] THEN "type" ELSE "ok"
    [] name \in DOMAIN CompareMap ->
         IF Compare(v, arg) \in CompareMap[name] THEN "ok" ELSE "value"
    [] name \in DOMAIN SizeMap ->
         IF v.t < TypeString THEN "type"
         ELSE IF arg.t # TypeInteger THEN "variable"
         ELSE IF Sign(Size(v) - arg.v) \in SizeMap[name] THEN "ok" ELSE "size"

(* The pattern is made on its first use.  When that throws and the entry   *)
(* was made before, the entry stays without a pattern.                     *)
Regex(v, arg, map) ==
  IF v.t # TypeString THEN Got("type", map)
  ELSE IF arg.t # TypeString THEN Got("variable", map)
  ELSE IF arg.v \in DOMAIN map /\ map[arg.v] = "null" THEN Got("fault", map)
  ELSE IF Word(arg) \in BadRegex THEN
    Got("regex", IF keeps THEN (arg.v :> "null") @@ map ELSE map)
  ELSE Got(IF <<Word(arg), Word(v)>> \in Matching THEN "ok" ELSE "value",
           (arg.v :> "regex") @@ map)

-----------------------------------------------------------------------------
(* The items a property visits: where, what is there or why there is       *)
(* nothing, and the properties it must have.                               *)
Found(step, child, props) == [step |-> step, child |-> child, props |-> props, err |-> "ok"]
Lost(step, err) == [step |-> step, child |-> Blank, props |-> Blank, err |-> err]

(* The items a schema names, by index or by key. *)
Named(v, arg) ==
  [i \in DOMAIN arg.k |->
     LET key == arg.k[i] IN
     IF v.t = TypeDict THEN
       IF HasKey(v, key) THEN Found(key, At(v, key), arg.e[i]) ELSE Lost(key, "missing key")
     ELSE IF key.t # TypeInteger THEN Lost(key, "variable")
     ELSE IF key.v + 1 \in DOMAIN v.e THEN Found(key, v.e[key.v + 1], arg.e[i])
     ELSE Lost(key, "array size")]

(* Every item, known by its key or by its position. *)
Each(v, arg) ==
  [i \in DOMAIN v.e |->
     Found(IF v.t = TypeDict THEN v.k[i] ELSE Scalar(TypeInteger, i - 1), v.e[i], arg)]

(* Mutant of Visits: the keys are walked with the values they lead to. *)
VisitsValues(name, v, arg) ==
  CASE name = "items" -> Named(v, arg)
    [] name = "opt-items" -> SelectSeq(Named(v, arg), LAMBDA x : x.err = "ok")
    [] name \in {"all-keys", "all-items"} -> Each(v, arg)

Visits(name, v, arg) ==
  CASE name = "items" -> Named(v, arg)
    [] name = "opt-items" -> SelectSeq(Named(v, arg), LAMBDA x : x.err = "ok")
    [] name = "all-keys" -> [i \in DOMAIN v.k |-> Found(v.k[i], v.k[i], arg)]
    [] name = "all-items" -> Each(v, arg)

RECURSIVE ValidatePair(_, _, _, _)

(* VALIDATE_PAIR_REFERENCE *)
Reference(v, ref, map, n) ==
  Pushed(IF ref.t = TypeString /\ HasKey(m_schema, ref)
         THEN ValidatePair(v, At(m_schema, ref), map, n - 1)
         ELSE Got("schema reference", map),
         <<>>, <<ref, Str("ref")>>)

(* VALIDATE_PAIR_CALL, or the error of an item that is not there *)
Visit(name, x, map, n) ==
  IF x.err = "variable" THEN Got(x.err, map)
  ELSE Pushed(IF x.err # "ok" THEN Got(x.err, map)
              ELSE IF x.props.t = TypeString THEN Reference(x.child, x.props, map, n)
              ELSE ValidatePair(x.child, x.props, map, n - 1),
              <<x.step>>, <<x.step, Str(name)>>)

Walk(name, v, arg, map, n) ==
  IF v.t \notin WalkMap[name] THEN Got("type", map)
  ELSE IF name \in {"items", "opt-items"} /\ arg.t # TypeDict THEN Got("variable", map)
  ELSE FoldLeft(LAMBDA r, x : IF r.end = "ok" THEN Visit(name, x, r.map, n) ELSE r,
                Got("ok", map), Visits(name, v, arg))

(* One property.  A name that is no string throws twice. *)
Property(v, key, arg, map, n) ==
  IF key.t # TypeString THEN Got("variable", map)
  ELSE LET name == Word(key) IN
    IF name \in References THEN Reference(v, arg, map, n)
    ELSE IF name \notin Known THEN Pushed(Got("schema property", map), <<>>, <<key>>)
    ELSE IF name = "regex" THEN Regex(v, arg, map)
    ELSE IF name \in DOMAIN WalkMap THEN Walk(name, v, arg, map, n)
    ELSE Got(Plain(name, v, arg), map)

(* The properties in the order of the dictionary that holds them, up to    *)
(* the first that throws; a schema that refers to itself is followed until *)
(* the stack ends.                                                         *)
ValidatePair(v, props, map, n) ==
  IF n = 0 THEN Got("overflow", map)
  ELSE IF props.t # TypeDict THEN Got("variable", map)
  ELSE FoldLeft(LAMBDA r, i :
                  IF r.end = "ok" THEN Property(v, props.k[i], props.e[i], r.map, n) ELSE r,
                Got("ok", map), [i \in DOMAIN props.k |-> i])

-----------------------------------------------------------------------------
Root(schema) == At(schema, Str("root"))

(* What one call leaves: validate().  m_schema["root"] makes an entry when *)
(* there is none.                                                          *)
Schema == IF HasKey(m_schema, Str("root")) THEN m_schema
          ELSE Put(m_schema, Str("root"), Blank)

Call(v, map) == ValidatePair(v, Root(Schema), map, MaxDepth)

Dead == end \in {"fault", "overflow"}

(* Mutant of Validate: the stacks of the last call are not cleared. *)
ValidateOnto(v) ==
  /\ calls < MaxCalls /\ ~Dead
  /\ LET r == Call(v, m_regex_map) IN
       /\ end' = r.end
       /\ m_regex_map' = r.map
       /\ m_value_stack' = Reverse(m_value_stack \o r.vs)
       /\ m_props_stack' =
            IF r.end = "ok" THEN m_props_stack
            ELSE Reverse(m_props_stack \o Append(r.ps, Str("root")))
  /\ m_schema' = Schema /\ value' = v /\ calls' = calls + 1
  /\ UNCHANGED keeps

Validate(v) ==
  /\ calls < MaxCalls /\ ~Dead
  /\ LET r == Call(v, m_regex_map) IN
       /\ end' = r.end
       /\ m_regex_map' = r.map
       /\ m_value_stack' = Reverse(r.vs)
       /\ m_props_stack' =
            IF r.end = "ok" THEN <<>> ELSE Reverse(Append(r.ps, Str("root")))
  /\ m_schema' = Schema /\ value' = v /\ calls' = calls + 1
  /\ UNCHANGED keeps

Next == \E v \in Values : Validate(v)

Spec == Init /\ [][Next]_vars

-----------------------------------------------------------------------------
(* What a reader of a schema expects of a value, in no order.              *)

(* The errors of one property that lie at the value itself. *)
OwnErrors(w, key, arg) ==
  IF key.t # TypeString THEN {"variable"}
  ELSE LET name == Word(key) IN
    CASE name \in DOMAIN WalkMap ->
           IF w.t \notin WalkMap[name] THEN {"type"}
           ELSE IF name \in {"items", "opt-items"} /\ arg.t # TypeDict THEN {"variable"}
           ELSE IF name = "items" /\ w.t = TypeArray
                     /\ \E i \in DOMAIN arg.k : arg.k[i].t # TypeInteger
                THEN {"variable"} ELSE {}
      [] name = "regex" -> IF w.t # TypeString THEN {"type"}
                           ELSE IF arg.t # TypeString THEN {"variable"}
                           ELSE IF Word(arg) \in BadRegex THEN {"regex"}
                           ELSE IF <<Word(arg), Word(w)>> \in Matching THEN {} ELSE {"value"}
      [] name \in Known \ (DOMAIN WalkMap \cup {"regex"}) -> {Plain(name, w, arg)} \ {"ok"}
      [] OTHER -> {}

(* The item of w that a step of the value stack names, under a property. *)
HasItem(w, name, step) ==
  IF w.t = TypeDict THEN HasKey(w, step)
  ELSE step.t = TypeInteger /\ step.v + 1 \in DOMAIN w.e
Item(w, name, step) ==
  IF name = "all-keys" THEN step
  ELSE IF w.t = TypeDict THEN At(w, step) ELSE w.e[step.v + 1]
ItemProps(name, arg, step) ==
  IF name \in {"items", "opt-items"} THEN At(arg, step) ELSE arg

(* The two stacks lead from a value and its properties to the error.  They *)
(* may end at an item that is not there, a reference to nothing or a       *)
(* property nobody knows.                                                  *)
RECURSIVE Leads(_, _, _, _)
LeadsRef(w, name, vs, ps) ==
  /\ Len(ps) >= 2 /\ ps[1] = Str("ref") /\ ps[2] = name
  /\ IF name.t = TypeString /\ HasKey(m_schema, name)
     THEN Leads(w, At(m_schema, name), vs, SubSeq(ps, 3, Len(ps)))
     ELSE end = "schema reference" /\ Len(ps) = 2 /\ vs = <<>>
Leads(w, q, vs, ps) ==
  IF q.t = TypeString THEN LeadsRef(w, q, vs, ps)
  ELSE IF ps = <<>> THEN
    /\ vs = <<>>
    /\ IF q.t # TypeDict THEN end = "variable"
       ELSE \E i \in DOMAIN q.k : end \in OwnErrors(w, q.k[i], q.e[i])
  ELSE
    \E i \in DOMAIN q.k : q.k[i].t = TypeString /\
      LET name == Word(q.k[i]) IN
      CASE name \in References -> LeadsRef(w, q.e[i], vs, ps)
        [] name \in DOMAIN WalkMap /\ ps[1] = q.k[i] /\ Len(ps) >= 2 ->
             /\ vs # <<>> /\ Head(vs) = ps[2]
             /\ IF HasItem(w, name, ps[2])
                THEN Leads(Item(w, name, ps[2]), ItemProps(name, q.e[i], ps[2]),
                           Tail(vs), SubSeq(ps, 3, Len(ps)))
                ELSE /\ end = IF w.t = TypeDict THEN "missing key" ELSE "array size"
                     /\ Len(ps) = 2 /\ Len(vs) = 1
        [] name \notin Known -> end = "schema property" /\ ps = <<q.k[i]>> /\ vs = <<>>
        [] OTHER -> FALSE

(* A value has the properties, and so have its items. *)
RECURSIVE Conforms(_, _)
Conforms(w, q) ==
  IF q.t = TypeString THEN HasKey(m_schema, q) /\ Conforms(w, At(m_schema, q))
  ELSE
    /\ q.t = TypeDict
    /\ \A i \in DOMAIN q.k :
         /\ OwnErrors(w, q.k[i], q.e[i]) = {}
         /\ LET name == Word(q.k[i]) IN
              /\ name \in Known \cup References
              /\ name \in References =>
                   q.e[i].t = TypeString /\ Conforms(w, q.e[i])
              /\ name = "items" =>
                   \A j \in DOMAIN q.e[i].k : HasItem(w, name, q.e[i].k[j])
              /\ name \in {"items", "opt-items"} =>
                   \A j \in DOMAIN q.e[i].k :
                     HasItem(w, name, q.e[i].k[j]) =>
                       Conforms(Item(w, name, q.e[i].k[j]), q.e[i].e[j])
              /\ name = "all-keys" => \A j \in DOMAIN w.k : Conforms(w.k[j], q.e[i])
              /\ name = "all-items" => \A j \in DOMAIN w.e : Conforms(w.e[j], q.e[i])

(* A name that refers to itself through others. *)
RefersTo(S) == {q \in {m_schema.e[i] : i \in DOMAIN m_schema.k} :
  \E p \in S, j \in 1 .. 2 : j \in DOMAIN p.k /\ Word(p.k[j]) \in References
     /\ HasKey(m_schema, p.e[j]) /\ q = At(m_schema, p.e[j])}
Circular == \E q \in {m_schema.e[i] : i \in DOMAIN m_schema.k} :
              q \in RefersTo({q}) \cup RefersTo(RefersTo({q}))

-----------------------------------------------------------------------------
(* validate() returns when the value has every property the schema asks    *)
(* for, at every depth, and throws otherwise with stacks that lead from    *)
(* the root of both to a place where the reported error holds.             *)
Verdict ==
  /\ end = "ok" => Conforms(value, Root(m_schema)) /\ m_value_stack \o m_props_stack = <<>>
  /\ end \notin {"none", "ok", "fault", "overflow"} =>
       /\ m_props_stack # <<>> /\ Head(m_props_stack) = Str("root")
       /\ Leads(value, Root(m_schema), m_value_stack, Tail(m_props_stack))

(* A validator can be asked again: a call gives what a new validator would *)
(* give, whatever was asked before.  It ends the process only if a         *)
(* reference leads back to itself, or if a pattern that regcomp had        *)
(* refused is met again in a build that made its entry first.              *)
AskedAgain ==
  end # "none" =>
    LET fresh == Call(value, <<>>) IN
    \/ /\ end = "fault" /\ keeps /\ calls > 1
       /\ \E p \in DOMAIN m_regex_map : Words[p] \in BadRegex
    \/ end = "overflow" /\ Circular
    \/ /\ ~Dead
       /\ fresh.end = end /\ Reverse(fresh.vs) = m_value_stack
       /\ end # "ok" => Append(fresh.ps, Str("root")) = Reverse(m_props_stack)
=============================================================================
