------------------------------ MODULE MCJsonLex -----------------------------
(* CclJsonLex on texts of three shapes.                                    *)
EXTENDS CclJsonTerminals

(* Numbers, words, punctuation, blanks and a stranger: up to five.      *)
Bare == {32, 43, 44, 45, 46, 48, 49, 58, 69, 91, 93, 97, 101, 102, 108, 110, 114, 115,
         116, 117, 123, 125, 200}
Plainly == [i \in 1 .. 5 |-> Bare]

(* A string: backspace, quote, slash, backslash, b, f and u.               *)
InString == {8, 34, 47, 92, 98, 102, 117}
Quoted == <<{34}>> \o [i \in 1 .. 4 |-> InString]

(* A string of one escape by number, at the bounds of digits and of UTF-8. *)
Numbered == <<{34}, {92}, {117}>> \o [i \in 1 .. 4 |-> {48, 55, 56, 70, 102}] \o <<{34}>>

AllShapes == {Plainly, Quoted, Numbered}
=============================================================================
