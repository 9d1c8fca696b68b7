----------------------------- MODULE CclJsonText ----------------------------
(***************************************************************************)
(* The JSON of a program: ccljson::parse of a text that came from outside, *)
(* one terminal after another, whatever they are, or of what               *)
(* ccljson::create or create_nice returned.  CclJsonCreate is the writer   *)
(* and CclJsonParse the parser.  The line ends and tabs the writer puts    *)
(* between terminals are skipped by the scanner (CclJsonLex).              *)
(***************************************************************************)
EXTENDS CclJsonCreate, CclJsonParse

vars == <<createVars, parseVars>>

(* A text from outside: nothing was written. *)
ForeignInit ==
  /\ var = NoTerm /\ nice = FALSE /\ create_stack = <<>> /\ strbuf = <<>>
  /\ indent_size = 0 /\ indent_len = 0 /\ result = "foreign"

Init == (CreateInit \/ ForeignInit) /\ ParseInit

Create == Turn /\ UNCHANGED parseVars

(* The text that was written, as recognize_terminal returns it. *)
Skipped(w) == SelectSeq(w, LAMBDA t : t[1] # "line")
Source == Append(Skipped(strbuf), <<"eof", "-">>)

FetchWritten ==
  /\ result = "done"
  /\ Fetch(Source[Len(read) + 1])
  /\ UNCHANGED createVars

FetchForeign(t) ==
  /\ result = "foreign" /\ Len(read) < MaxTerms
  /\ Fetch(t)
  /\ UNCHANGED createVars

Parse == Step /\ UNCHANGED createVars

Next == Create \/ FetchWritten \/ Parse \/ \E t \in Terminals : FetchForeign(t)

(* The loops run; nobody owes the parser a text from outside. *)
Spec == Init /\ [][Next]_vars /\ WF_vars(Create \/ FetchWritten \/ Parse)

-----------------------------------------------------------------------------
(* ccljson.cc:102-469, 1011-1089: writing and reading end, in an exception *)
(* or in the verdict of the parser.                                        *)
BothEnd ==
  result = "running" ~> (result \in {"bad_key", "bad_type"} \/ verdict # "running")
=============================================================================
