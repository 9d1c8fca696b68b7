---------------------------- MODULE CclJsonParse ----------------------------
(***************************************************************************)
(* parser_c::parse_source of lib/ccljson.cc: a table driven LALR parser    *)
(* whose reductions call the parse actions of ccljson_parse_actions.cc,    *)
(* which keep the unfinished values on four stacks of their own.  Nothing  *)
(* in the code ties the four stacks to the stack of states: that they fit  *)
(* is a property of the generated tables.                                  *)
(*                                                                         *)
(* A terminal is a pair of its kind and what it stands for (which string,  *)
(* which number).  White space is gone: the scanner skips it.  The input   *)
(* comes one terminal at a time, whatever it may be.                       *)
(***************************************************************************)
EXTENDS Naturals, Sequences, SequencesExt

CONSTANTS Strings,     \* the texts of string terminals
          Others,      \* the kinds of the other terminals the input may have
          MaxTerms     \* how long the input may be (a bound)

ASSUME ParseAssumption == MaxTerms \in Nat

VARIABLES lalr_stack,  \* m_lalr_stack: states, and the terminal shifted
          strings,     \* m_strings
          values,      \* m_values
          arrays,      \* m_arrays
          objects,     \* m_objects
          ret_term,    \* ret_term, NoTerm when a terminal must be fetched
          verdict,     \* "running", "done", or how the parser gave up
          read         \* history: the terminals fetched so far

parseVars == <<lalr_stack, strings, values, arrays, objects, ret_term, verdict, read>>

Scalars == {"str", "int", "flt", "true", "false", "null"}
Terms == Scalars \cup {"lbrace", "rbrace", "lbrack", "rbrack", "comma", "colon", "eof"}
Terminals == ({"str"} \X Strings) \cup {<<k, "-">> : k \in Others}
NoTerm == <<"none", "-">>

-----------------------------------------------------------------------------
(* json_lalr_table, by rows: what a state shifts, reduces and goes to.     *)
States == 0 .. 31

(* The states before a value: behind a colon, a bracket and a comma. *)
ValueStates == {13, 25, 30}

ValueShift == [str |-> 11, int |-> 17, flt |-> 18, true |-> 21, false |-> 22,
               null |-> 23, lbrace |-> 5, lbrack |-> 26]

(* Mutant of ValueGoto: an empty object reduces to its beginning again. *)
ValueGotoLoop == [object |-> 19, object_body |-> 4, object_begin |-> 4, array |-> 20,
                  array_body |-> 24, array_begin |-> 25, string |-> 16]

ValueGoto == [object |-> 19, object_body |-> 3, object_begin |-> 4, array |-> 20,
              array_body |-> 24, array_begin |-> 25, string |-> 16]

Shift ==
  {<<0, "lbrace", 5>>, <<2, "eof", 6>>, <<3, "rbrace", 7>>, <<4, "str", 11>>,
   <<8, "comma", 12>>, <<10, "colon", 13>>, <<12, "str", 11>>, <<24, "rbrack", 27>>,
   <<28, "comma", 30>>}
  \cup {<<s, k, ValueShift[k]>> : s \in ValueStates, k \in DOMAIN ValueShift}

After == {"rbrace", "rbrack", "comma"}

(* The state, the rule and the terminals it is reduced on. *)
Reduce ==
  {<<4, 3, {"rbrace"}>>, <<5, 5, {"str", "rbrace"}>>, <<7, 2, After \cup {"eof"}>>,
   <<8, 4, {"rbrace"}>>, <<9, 7, {"rbrace", "comma"}>>, <<11, 23, After \cup {"colon"}>>,
   <<14, 6, {"rbrace", "comma"}>>, <<15, 8, {"rbrace", "comma"}>>, <<16, 15, After>>,
   <<17, 16, After>>, <<18, 17, After>>, <<19, 18, After>>, <<20, 19, After>>,
   <<21, 20, After>>, <<22, 21, After>>, <<23, 22, After>>, <<25, 10, {"rbrack"}>>,
   <<26, 12, Scalars \cup {"lbrace", "lbrack", "rbrack"}>>, <<27, 9, After>>,
   <<28, 11, {"rbrack"}>>, <<29, 14, {"rbrack", "comma"}>>, <<31, 13, {"rbrack", "comma"}>>}

Goto ==
  {<<0, "start", 1>>, <<0, "object", 2>>, <<0, "object_body", 3>>, <<0, "object_begin", 4>>,
   <<4, "pairs", 8>>, <<4, "pair", 9>>, <<4, "string", 10>>, <<12, "pair", 14>>,
   <<12, "string", 10>>, <<13, "value", 15>>, <<25, "values", 28>>, <<25, "value", 29>>,
   <<30, "value", 31>>}
  \cup {<<s, h, ValueGoto[h]>> : s \in ValueStates, h \in DOMAIN ValueGoto}

Has(table, s, k) == \E q \in States : <<s, k, q>> \in table
To(table, s, k) == CHOOSE q \in States : <<s, k, q>> \in table

(* json_rule_head_idxs and json_rule_body_lengths, from rule 0 on.         *)
RuleHead == <<"goal", "start", "object", "object_body", "object_body",
              "object_begin", "pairs", "pairs", "pair", "array", "array_body",
              "array_body", "array_begin", "values", "values", "value", "value",
              "value", "value", "value", "value", "value", "value", "string">>
RuleLength == <<1, 2, 2, 1, 2, 1, 3, 1, 3, 2, 1, 2, 1, 3, 1, 1, 1, 1, 1, 1, 1, 1, 1, 1>>

-----------------------------------------------------------------------------
(* The values: a dictionary is the set of its pairs. *)
Array(s) == <<"array", s>>
Dict(pairs) == <<"dict", pairs>>

(* Mutant of Insert: the last of the pairs with one key stays. *)
InsertLast(pairs, k, v) == {p \in pairs : p[1] # k} \cup {<<k, v>>}

(* std::map::insert: the first of the pairs with one key stays. *)
Insert(pairs, k, v) ==
  IF \E p \in pairs : p[1] = k THEN pairs ELSE pairs \cup {<<k, v>>}

(* The parse action of a rule, and what its stacks must hold for it.       *)
Needs(rule) ==
  CASE rule = 8 -> objects # <<>> /\ strings # <<>> /\ values # <<>>
    [] rule \in {13, 14} -> arrays # <<>> /\ values # <<>>
    [] rule = 15 -> strings # <<>>
    [] rule = 18 -> objects # <<>>
    [] rule = 19 -> arrays # <<>>
    [] OTHER -> TRUE

(* pa_json_object_begin and the actions after it, each on its stacks.      *)
ObjectBegin ==
  objects' = Append(objects, Dict({})) /\ UNCHANGED <<strings, values, arrays>>

ObjectPair ==
  /\ objects' = Append(Front(objects),
                       Dict(Insert(Last(objects)[2], Last(strings), Last(values))))
  /\ strings' = Front(strings) /\ values' = Front(values)
  /\ UNCHANGED arrays

ArrayBegin ==
  arrays' = Append(arrays, Array(<<>>)) /\ UNCHANGED <<strings, values, objects>>

ArrayValue ==
  /\ arrays' = Append(Front(arrays), Array(Append(Last(arrays)[2], Last(values))))
  /\ values' = Front(values)
  /\ UNCHANGED <<strings, objects>>

(* Mutant of ValString: the string stays on its stack. *)
ValStringKeeping ==
  values' = Append(values, Last(strings)) /\ UNCHANGED <<strings, arrays, objects>>

ValString ==
  /\ values' = Append(values, Last(strings)) /\ strings' = Front(strings)
  /\ UNCHANGED <<arrays, objects>>

(* Numbers and names of values: read from the top of the state stack.      *)
ValScalar ==
  /\ values' = Append(values, Last(lalr_stack).term)
  /\ UNCHANGED <<strings, arrays, objects>>

ValObject ==
  /\ values' = Append(values, Last(objects)) /\ objects' = Front(objects)
  /\ UNCHANGED <<strings, arrays>>

ValArray ==
  /\ values' = Append(values, Last(arrays)) /\ arrays' = Front(arrays)
  /\ UNCHANGED <<strings, objects>>

PaString ==
  /\ strings' = Append(strings, Last(lalr_stack).term)
  /\ UNCHANGED <<values, arrays, objects>>

(* json_pa_callers; the rules that are left have no action. *)
ParseAction(rule) ==
  \/ rule = 5 /\ ObjectBegin
  \/ rule = 8 /\ ObjectPair
  \/ rule = 12 /\ ArrayBegin
  \/ rule \in {13, 14} /\ ArrayValue
  \/ rule = 15 /\ ValString
  \/ rule \in {16, 17, 20, 21, 22} /\ ValScalar
  \/ rule = 18 /\ ValObject
  \/ rule = 19 /\ ValArray
  \/ rule = 23 /\ PaString
  \/ rule \in {0, 1, 2, 3, 4, 6, 7, 9, 10, 11}
     /\ UNCHANGED <<strings, values, arrays, objects>>

-----------------------------------------------------------------------------
ParseInit ==
  /\ lalr_stack = <<[state |-> 0, term |-> NoTerm]>>
  /\ strings = <<>> /\ values = <<>> /\ arrays = <<>> /\ objects = <<>>
  /\ ret_term = NoTerm /\ verdict = "running" /\ read = <<>>

(* recognize_terminal, called until it returns something to parse.         *)
Fetch(t) ==
  /\ verdict = "running" /\ ret_term = NoTerm
  /\ ret_term' = t
  /\ read' = Append(read, t)
  /\ UNCHANGED <<lalr_stack, strings, values, arrays, objects, verdict>>

State == Last(lalr_stack).state
Kind == ret_term[1]
Shifts == Has(Shift, State, Kind)
Reduces == \E row \in Reduce : row[1] = State /\ Kind \in row[3]
Ready == verdict = "running" /\ ret_term # NoTerm

(* JSON_SHIFT; on the end of the input the parser is done. *)
DoShift ==
  /\ Ready /\ Shifts
  /\ IF Kind = "eof" THEN verdict' = "done" /\ UNCHANGED <<lalr_stack, ret_term>>
     ELSE /\ lalr_stack' = Append(lalr_stack, [state |-> To(Shift, State, Kind),
                                               term |-> ret_term])
          /\ ret_term' = NoTerm
          /\ UNCHANGED verdict
  /\ UNCHANGED <<strings, values, arrays, objects, read>>

(* The stack without the body of a rule. *)
Rest(rule) == SubSeq(lalr_stack, 1, Len(lalr_stack) - RuleLength[rule + 1])

(* The action finds what it takes, and there is a state to go to. *)
Fits(rule) ==
  /\ Needs(rule) /\ Rest(rule) # <<>>
  /\ Has(Goto, Last(Rest(rule)).state, RuleHead[rule + 1])

(* JSON_REDUCE: the action, the body popped, the state to go to pushed.    *)
DoReduceBy(rule) ==
  IF Fits(rule)
  THEN /\ ParseAction(rule)
       /\ lalr_stack' = Append(Rest(rule),
                               [state |-> To(Goto, Last(Rest(rule)).state, RuleHead[rule + 1]),
                                term |-> NoTerm])
       /\ UNCHANGED verdict
  ELSE verdict' = "fault" /\ UNCHANGED <<lalr_stack, strings, values, arrays, objects>>

DoReduce ==
  /\ Ready /\ ~Shifts
  /\ \E row \in Reduce : row[1] = State /\ Kind \in row[3] /\ DoReduceBy(row[2])
  /\ UNCHANGED <<ret_term, read>>

(* error_JSON_PARSE_ERROR_INVALID_SYNTAX *)
DoReject ==
  /\ Ready /\ ~Shifts /\ ~Reduces
  /\ verdict' = "syntax"
  /\ UNCHANGED <<lalr_stack, strings, values, arrays, objects, ret_term, read>>

Step == DoShift \/ DoReduce \/ DoReject

-----------------------------------------------------------------------------
(* ccljson.cc:1067-1084, ccljson_parse_actions.cc:57-171: nothing but the  *)
(* table makes the stacks of values hold, at every reduction, what its     *)
(* action takes; the automaton then has a state to go to, and a document   *)
(* ends with its value alone on the stacks.                                *)
StacksFit ==
  /\ verdict # "fault"
  /\ verdict = "done" =>
       strings = <<>> /\ values = <<>> /\ arrays = <<>> /\ Len(objects) = 1
=============================================================================
