---------------------------- MODULE CclJsonCreate ---------------------------
(***************************************************************************)
(* ccljson::create and ccljson::create_nice of lib/ccljson.cc: a value is  *)
(* written without recursion, from a stack that keeps, for every container *)
(* that is not finished, where its iterator stands.  The text is a list of *)
(* terminals; create_nice puts line ends and indentation between them.     *)
(***************************************************************************)
EXTENDS Naturals, FiniteSets, Sequences, SequencesExt

CONSTANTS Values,     \* the values to write
          TabLen      \* the length of a_tab_str

(* A value is its kind and what it holds: a container a list, of values or *)
(* of pairs of key and value.  A set is written by neither function.       *)
Sequential == {"array", "list"}
Containers == Sequential \cup {"dict"}
Atoms == {"str", "int", "flt", "true", "false", "null"}

(* What a container holds are values as well. *)
ASSUME CreateAssumption ==
  /\ TabLen \in Nat
  /\ \A v \in Values : /\ v[1] \in Sequential => v[2] \in Seq(Values)
                       /\ v[1] = "dict" => v[2] \in Seq(Values \X Values)

VARIABLES var,           \* a_var
          nice,          \* create_nice was called, not create
          create_stack,  \* create_stack: value, m_init, position of the iterator
          strbuf,        \* strbuf
          indent_size,   \* indent_size
          indent_len,    \* indent_buffer.length()
          result         \* "running", "done", or the exception thrown

createVars == <<var, nice, create_stack, strbuf, indent_size, indent_len, result>>

Mark(kind) == <<kind, "-">>
Opening(v) == Mark(IF v[1] = "dict" THEN "lbrace" ELSE "lbrack")
Closing(v) == Mark(IF v[1] = "dict" THEN "rbrace" ELSE "rbrack")

Elem(v) == [var |-> v, init |-> TRUE, i |-> 1]
Top == Last(create_stack)
Items == Top.var[2]
AtEnd == Top.i > Len(Items)

CreateInit ==
  /\ var \in Values /\ nice \in BOOLEAN
  /\ create_stack = <<Elem(var)>> /\ strbuf = <<>>
  /\ indent_size = 0 /\ indent_len = 0 /\ result = "running"

(* CCLJSON_CREATE_NICE_INDENT: a line end and size characters of the buffer. *)
Indent(size) == IF nice THEN <<<<"line", size>>>> ELSE <<>>

(* CCLJSON_CREATE_NICE_PUSH_TAB, done when a container is entered. *)
Entered == Top.init /\ Items # <<>>
Deeper == IF nice /\ Entered THEN indent_size + TabLen ELSE indent_size

(* Mutant of Longer: the buffer is compared before the size has grown. *)
LongerLate == IF indent_size > indent_len THEN indent_len + TabLen ELSE indent_len

Longer == IF Deeper > indent_len THEN indent_len + TabLen ELSE indent_len

(* Mutant of Lead: no comma between the elements. *)
LeadJoined ==
  IF Top.init THEN <<Opening(Top.var)>> \o (IF Items = <<>> THEN <<>> ELSE Indent(Deeper))
  ELSE IF AtEnd THEN <<>> ELSE Indent(Deeper)

(* What stands before the next element, or before the end. *)
Lead ==
  IF Top.init THEN <<Opening(Top.var)>> \o (IF Items = <<>> THEN <<>> ELSE Indent(Deeper))
  ELSE IF AtEnd THEN <<>> ELSE <<Mark("comma")>> \o Indent(Deeper)

InContainer == result = "running" /\ Top.var[1] \in Containers

-----------------------------------------------------------------------------
(* The turns of the loop. *)
WriteScalar ==
  /\ result = "running" /\ Top.var[1] \in Atoms
  /\ strbuf' = Append(strbuf, Top.var)
  /\ create_stack' = Front(create_stack)
  /\ result' = IF Len(create_stack) = 1 THEN "done" ELSE result
  /\ UNCHANGED <<var, nice, indent_size, indent_len>>

(* The iterator moves on before its element is pushed. *)
Advance(child) ==
  create_stack' = Append(Front(create_stack), [Top EXCEPT !.init = FALSE, !.i = @ + 1])
                  \o <<Elem(child)>>

NextElement ==
  /\ InContainer /\ Top.var[1] \in Sequential /\ ~AtEnd
  /\ strbuf' = strbuf \o Lead
  /\ Advance(Items[Top.i])
  /\ indent_size' = Deeper /\ indent_len' = Longer
  /\ UNCHANGED <<var, nice, result>>

(* Mutant of KeyFits: a key is written whatever it is. *)
KeyFitsAny(key) == key # <<>>

KeyFits(key) == key[1] = "str"

NextPair ==
  /\ InContainer /\ Top.var[1] = "dict" /\ ~AtEnd /\ KeyFits(Items[Top.i][1])
  /\ strbuf' = strbuf \o Lead \o <<Items[Top.i][1], Mark("colon")>>
  /\ Advance(Items[Top.i][2])
  /\ indent_size' = Deeper /\ indent_len' = Longer
  /\ UNCHANGED <<var, nice, result>>

(* error_JSON_CREATE_NO_STRING_DICT_KEY *)
BadKey ==
  /\ InContainer /\ Top.var[1] = "dict" /\ ~AtEnd /\ ~KeyFits(Items[Top.i][1])
  /\ result' = "bad_key"
  /\ UNCHANGED <<var, nice, create_stack, strbuf, indent_size, indent_len>>

(* CCLJSON_CREATE_NICE_POP_TAB *)
Shallower == IF nice /\ Items # <<>> THEN indent_size - TabLen ELSE indent_size

CloseContainer ==
  /\ InContainer /\ AtEnd
  /\ strbuf' = strbuf \o Lead \o (IF Items = <<>> THEN <<>> ELSE Indent(Shallower))
               \o <<Closing(Top.var)>>
  /\ create_stack' = Front(create_stack)
  /\ indent_size' = Shallower
  /\ result' = IF Len(create_stack) = 1 THEN "done" ELSE result
  /\ UNCHANGED <<var, nice, indent_len>>

(* error_JSON_CREATE_UNSUPPORTED_VARIABLE_TYPE *)
Unsupported ==
  /\ result = "running" /\ Top.var[1] \notin Atoms \cup Containers
  /\ result' = "bad_type"
  /\ UNCHANGED <<var, nice, create_stack, strbuf, indent_size, indent_len>>

Turn == WriteScalar \/ NextElement \/ NextPair \/ BadKey \/ CloseContainer \/ Unsupported

-----------------------------------------------------------------------------
(* ccljson.cc:270-285: what is sent of the indentation buffer is in it,    *)
(* and it is as long as the containers around what follows are deep.       *)
Depth == Cardinality({k \in DOMAIN create_stack :
           /\ create_stack[k].var[1] \in Containers
           /\ ~create_stack[k].init /\ create_stack[k].var[2] # <<>>})

IndentWithin ==
  /\ indent_size <= indent_len
  /\ indent_size = IF nice THEN TabLen * Depth ELSE 0
  /\ \A i \in DOMAIN strbuf : strbuf[i][1] = "line" => strbuf[i][2] <= indent_len

(* A value of JSON, which has no sets and only strings for keys. *)
Writable[v \in Values] ==
  /\ v[1] \in Atoms \cup Containers
  /\ v[1] \in Sequential => \A i \in DOMAIN v[2] : Writable[v[2][i]]
  /\ v[1] = "dict" =>
       \A i \in DOMAIN v[2] : v[2][i][1][1] = "str" /\ Writable[v[2][i][2]]

(* ccljson.cc:102-469: a value is written exactly when nothing in it is a  *)
(* set or has a key that is no string, at whatever depth.                  *)
WrittenOrRefused ==
  /\ result = "done" => Writable[var]
  /\ result \in {"bad_key", "bad_type"} => ~Writable[var]
=============================================================================
