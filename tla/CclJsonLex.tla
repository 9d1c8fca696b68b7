----------------------------- MODULE CclJsonLex -----------------------------
(***************************************************************************)
(* parser_c::recognize_terminal of lib/ccljson.cc, one terminal at a time, *)
(* and what pa_json_string of lib/ccljson_parse_actions.cc makes of the    *)
(* text of a string.  The text is not fixed beforehand: it grows by any     *)
(* character its shape allows.  0 is both the end of the source and a NUL   *)
(* inside it: the scanner does not tell them apart.                        *)
(***************************************************************************)
EXTENDS Integers, Sequences, SequencesExt

CONSTANT Shapes       \* sequences of sets: which characters a text has where (a bound)

ASSUME LexAssumption == Shapes \subseteq Seq(SUBSET (0 .. 255))

VARIABLES shape,      \* the shape of the text, fixed by the first step
          state,      \* the label the scanner is at
          in_char,    \* the character looked at
          text,       \* the characters consumed for the terminal
          term,       \* "scanning", the terminal recognised, or "unknown"
          iter,       \* pa_json_string: the next character of the text
          const_str,  \* pa_json_string: the string so far
          decode      \* "idle", "running", "done" or "assert"

vars == <<shape, state, in_char, text, term, iter, const_str, decode>>

Nothing == -1

(* The codes the scanner tells apart. *)
Quote == 34
Slash == 47
Backslash == 92
Letter_u == 117
White == 8 .. 13 \cup {32}
NonZero == 49 .. 57
Digit == 48 .. 57
Hex == Digit \cup 65 .. 70 \cup 97 .. 102
Exponent == {69, 101}
Simple == {34, 47, 92, 98, 102, 110, 114, 116}    \* may follow a backslash

-----------------------------------------------------------------------------
(* The gotos: a label, the characters that take it on, and where to.       *)
StartGotos ==
  {<<0, {0}, 1>>, <<0, White, 15>>, <<0, {Quote}, 2>>, <<0, {44}, 3>>, <<0, {45}, 4>>,
   <<0, {48}, 5>>, <<0, NonZero, 6>>, <<0, {58}, 7>>, <<0, {91}, 8>>, <<0, {93}, 9>>,
   <<0, {102}, 10>>, <<0, {110}, 11>>, <<0, {116}, 12>>, <<0, {123}, 13>>, <<0, {125}, 14>>,
   <<15, White, 15>>}

StringGotos ==
  {<<2, 0 .. 255 \ {Quote, Backslash}, 2>>, <<2, {Quote}, 16>>, <<2, {Backslash}, 17>>,
   <<17, Simple, 2>>, <<17, {Letter_u}, 23>>,
   <<23, Hex, 29>>, <<29, Hex, 33>>, <<33, Hex, 35>>, <<35, Hex, 2>>}

NumberRows ==
  {<<4, {48}, 5>>, <<4, NonZero, 6>>, <<5, {46}, 18>>, <<5, Exponent, 19>>,
   <<6, {46}, 18>>, <<6, Digit, 6>>, <<6, Exponent, 19>>, <<18, Digit, 18>>,
   <<18, Exponent, 19>>, <<19, {43, 45}, 24>>, <<19, Digit, 25>>, <<24, Digit, 25>>,
   <<25, Digit, 25>>}

(* Mutant of NumberGotos: digits may follow a leading zero. *)
NumberGotosZero == NumberRows \cup {<<5, Digit, 6>>}

(* Mutant of NumberGotos: a fraction ends before its exponent. *)
NumberGotosShort == NumberRows \ {<<18, Exponent, 19>>}

NumberGotos == NumberRows

WordGotos ==
  {<<10, {97}, 20>>, <<20, {108}, 26>>, <<26, {115}, 30>>, <<30, {101}, 34>>,
   <<11, {117}, 21>>, <<21, {108}, 27>>, <<27, {108}, 31>>,
   <<12, {114}, 22>>, <<22, {117}, 28>>, <<28, {101}, 32>>}

Gotos == StartGotos \cup StringGotos \cup NumberGotos \cup WordGotos

(* The terminal a label returns when nothing more fits. *)
Closed(s) ==
  CASE s = 1 -> "eof"
    [] s = 3 -> "comma"
    [] s \in {5, 6} -> "int"
    [] s = 7 -> "colon"
    [] s = 8 -> "lbrack"
    [] s = 9 -> "rbrack"
    [] s = 13 -> "lbrace"
    [] s = 14 -> "rbrace"
    [] s = 15 -> "skip"
    [] s = 16 -> "str"
    [] s \in {18, 25} -> "flt"
    [] s = 31 -> "null"
    [] s = 32 -> "true"
    [] s = 34 -> "false"
    [] OTHER -> "unknown"

Targets(s, c) == {g[3] : g \in {g \in Gotos : g[1] = s /\ c \in g[2]}}

-----------------------------------------------------------------------------
(* append_string: the character behind the backslash, by what it stands for. *)
Escaped == {8, 12, 10, 13, 9, 92, 34}
EscapeOf(c) ==
  CASE c = 8 -> 98 [] c = 12 -> 102 [] c = 10 -> 110 [] c = 13 -> 114 [] c = 9 -> 116
    [] OTHER -> c

(* Mutant of Escapes: a quote is written as it is. *)
EscapesNoQuote == [c \in Escaped \ {Quote} |-> EscapeOf(c)]

Escapes == [c \in Escaped |-> EscapeOf(c)]

(* Between two quotes: how ccljson::create writes a string. *)
Written(s) ==
  LET buf[i \in 0 .. Len(s)] ==
        IF i = 0 THEN <<>>
        ELSE buf[i - 1] \o (IF s[i] \in DOMAIN Escapes THEN <<Backslash, Escapes[s[i]]>>
                            ELSE <<s[i]>>)
  IN  <<Quote>> \o buf[Len(s)] \o <<Quote>>

(* What pa_json_string writes for a backslash and the character after it. *)
Unescapes ==
  [c \in {98, 102, 110, 114, 116, 92, 34} |->
     CASE c = 98 -> 8 [] c = 102 -> 12 [] c = 110 -> 10 [] c = 114 -> 13 [] c = 116 -> 9
       [] OTHER -> c]

HexValue(c) ==
  IF c \in Digit THEN c - 48 ELSE IF c \in 97 .. 102 THEN 10 + c - 97 ELSE 10 + c - 65

(* Four digits, the first one shifted furthest. *)
Value(d) ==
  16 * (16 * (16 * HexValue(d[1]) + HexValue(d[2])) + HexValue(d[3])) + HexValue(d[4])

(* Mutant of Utf8: the bound of the two byte form is one too high. *)
Utf8Late(v) ==
  IF v <= 127 THEN <<v>>
  ELSE IF v <= 2048 THEN <<192 + v \div 64, 128 + (v % 64)>>
  ELSE <<224 + v \div 4096, 128 + ((v \div 64) % 64), 128 + (v % 64)>>

(* The value of four hexadecimal digits, as UTF-8. *)
Utf8(v) ==
  IF v <= 127 THEN <<v>>
  ELSE IF v <= 2047 THEN <<192 + v \div 64, 128 + (v % 64)>>
  ELSE <<224 + v \div 4096, 128 + ((v \div 64) % 64), 128 + (v % 64)>>

-----------------------------------------------------------------------------
Init ==
  /\ shape \in Shapes /\ state = 0 /\ in_char = Nothing /\ text = <<>> /\ term = "scanning"
  /\ iter = 2 /\ const_str = <<>> /\ decode = "idle"

(* What may come next: the end of the source, a character of the shape, or *)
(* what ends the text.                                                     *)
Alphabet == {0} \cup UNION UNION {Range(sh) : sh \in Shapes}

Following ==
  {0} \cup IF Len(text) < Len(shape) THEN shape[Len(text) + 1]
           ELSE {c \in Alphabet : Targets(state, c) = {}}

(* JSON_GET_NEXT_CHAR at a label, the goto the character takes, and the    *)
(* JSON_CLOSE_CHAR at the label it leads to.                               *)
Scan(c) ==
  /\ term = "scanning"
  /\ in_char' = c
  /\ IF Targets(state, c) = {}
     THEN term' = Closed(state) /\ UNCHANGED <<state, text>>
     ELSE \E t \in Targets(state, c) :
            /\ state' = t
            /\ IF c = 0 THEN term' = Closed(t) /\ UNCHANGED text
               ELSE text' = Append(text, c) /\ UNCHANGED term
  /\ UNCHANGED <<shape, iter, const_str, decode>>

(* pa_json_string, between the two quotes of the text. *)
Begin ==
  /\ term = "str" /\ decode = "idle"
  /\ decode' = "running"
  /\ UNCHANGED <<shape, state, in_char, text, term, iter, const_str>>

Running == decode = "running" /\ iter < Len(text)

Take(n, chars) ==
  /\ iter' = iter + n /\ const_str' = const_str \o chars
  /\ UNCHANGED <<shape, state, in_char, text, term, decode>>

Plain == Running /\ text[iter] # Backslash /\ Take(1, <<text[iter]>>)

Unicode ==
  /\ Running /\ text[iter] = Backslash /\ text[iter + 1] = Letter_u
  /\ Take(6, Utf8(Value(SubSeq(text, iter + 2, iter + 5))))

Escape ==
  /\ Running /\ text[iter] = Backslash /\ text[iter + 1] \in DOMAIN Unescapes
  /\ Take(2, <<Unescapes[text[iter + 1]]>>)

(* default: assert(false) *)
Fails ==
  /\ Running /\ text[iter] = Backslash
  /\ text[iter + 1] # Letter_u /\ text[iter + 1] \notin DOMAIN Unescapes
  /\ decode' = "assert"
  /\ UNCHANGED <<shape, state, in_char, text, term, iter, const_str>>

End ==
  /\ decode = "running" /\ iter = Len(text)
  /\ decode' = "done"
  /\ UNCHANGED <<shape, state, in_char, text, term, iter, const_str>>

Next ==
  \/ \E c \in Following : Scan(c)
  \/ Begin \/ Plain \/ Unicode \/ Escape \/ Fails \/ End

Spec == Init /\ [][Next]_vars

-----------------------------------------------------------------------------
(* ccljson_parse_actions.cc:191-232: an escape of four digits becomes the  *)
(* shortest UTF-8 of its value.                                            *)
CodePoint(w) ==
  CASE Len(w) = 1 /\ w[1] < 128 -> w[1]
    [] Len(w) = 2 /\ w[1] \in 192 .. 223 -> 64 * (w[1] - 192) + w[2] - 128
    [] Len(w) = 3 /\ w[1] \in 224 .. 239 -> 4096 * (w[1] - 224) + 64 * (w[2] - 128) + w[3] - 128
    [] OTHER -> Nothing

UnicodeExact ==
  decode = "done" /\ Len(text) = 8 /\ text[2] = Backslash /\ text[3] = Letter_u =>
    LET v == 4096 * HexValue(text[4]) + 256 * HexValue(text[5])
             + 16 * HexValue(text[6]) + HexValue(text[7])
    IN  /\ CodePoint(const_str) = v
        /\ \A i \in 2 .. Len(const_str) : const_str[i] \in 128 .. 191
        /\ v >= 128 => Len(const_str) >= 2
        /\ v >= 2048 => Len(const_str) = 3
=============================================================================
