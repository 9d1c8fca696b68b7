-------------------------- MODULE CclJsonTerminals --------------------------
(***************************************************************************)
(* What the scanner of CclJsonLex is to recognise and to decode: the       *)
(* languages of the terminals, written without its labels.                 *)
(***************************************************************************)
EXTENDS CclJsonLex

CONSTANT MaxImage     \* length of the strings written and read back (a bound)

ASSUME ImageAssumption == MaxImage \in Nat

-----------------------------------------------------------------------------
(* What the terminals are, with nothing of labels: parts of w from the     *)
(* i-th to the j-th character.                                             *)
AllIn(w, i, j, set) == \A k \in i .. j : w[k] \in set

Whole(w, i, j) == i <= j /\ AllIn(w, i, j, Digit) /\ (w[i] = 48 => i = j)

(* The digits after the point may be missing: this is what the code does. *)
Fraction(w, i, j) == i > j \/ (w[i] = 46 /\ AllIn(w, i + 1, j, Digit))

PowerDigits(w, i, j) == IF i < j /\ w[i + 1] \in {43, 45} THEN i + 2 ELSE i + 1

Power(w, i, j) ==
  \/ i > j
  \/ /\ w[i] \in Exponent
     /\ PowerDigits(w, i, j) <= j /\ AllIn(w, PowerDigits(w, i, j), j, Digit)

Unsigned(w) == IF w # <<>> /\ w[1] = 45 THEN 2 ELSE 1

Integer(w) == Whole(w, Unsigned(w), Len(w))

Number(w) ==
  \E i, j \in 1 .. Len(w) :
    /\ i <= j /\ Whole(w, Unsigned(w), i)
    /\ Fraction(w, i + 1, j) /\ Power(w, j + 1, Len(w))

(* Does a character of a string begin behind the i-th of w?  Every escape  *)
(* is passed whole.                                                        *)
Between(w) ==
  LET between[i \in 1 .. Len(w)] ==
        \/ i = 1 /\ w[1] = Quote
        \/ i >= 2 /\ between[i - 1] /\ w[i] \notin {0, Quote, Backslash}
        \/ i >= 3 /\ between[i - 2] /\ w[i - 1] = Backslash /\ w[i] \in Simple
        \/ /\ i >= 7 /\ between[i - 6] /\ w[i - 5] = Backslash /\ w[i - 4] = Letter_u
           /\ AllIn(w, i - 3, i, Hex)
  IN  between

String(w) == Len(w) >= 2 /\ w[Len(w)] = Quote /\ Between(w)[Len(w) - 1]

Fixed ==
  [k \in {"comma", "colon", "lbrack", "rbrack", "lbrace", "rbrace", "true", "null", "false"} |->
     CASE k = "comma" -> <<44>> [] k = "colon" -> <<58>>
       [] k = "lbrack" -> <<91>> [] k = "rbrack" -> <<93>>
       [] k = "lbrace" -> <<123>> [] k = "rbrace" -> <<125>>
       [] k = "true" -> <<116, 114, 117, 101>> [] k = "null" -> <<110, 117, 108, 108>>
       [] k = "false" -> <<102, 97, 108, 115, 101>>]

Kinds(w) ==
  {k \in DOMAIN Fixed : Fixed[k] = w}
  \cup {k \in {"int"} : Integer(w)}
  \cup {k \in {"flt"} : Number(w) /\ ~Integer(w)}
  \cup {k \in {"skip"} : w # <<>> /\ AllIn(w, 1, Len(w), White)}
  \cup {k \in {"str"} : String(w)}

(* Some terminal begins with w: one of these ends completes it. *)
StringEnds ==
  {<<Quote>>, <<110, Quote>>, <<48, Quote>>, <<48, 48, Quote>>, <<48, 48, 48, Quote>>,
   <<48, 48, 48, 48, Quote>>}
WordEnds ==
  {<<114, 117, 101>>, <<117, 101>>, <<101>>}
  \cup {<<117, 108, 108>>, <<108, 108>>, <<108>>}
  \cup {<<97, 108, 115, 101>>, <<108, 115, 101>>, <<115, 101>>}
Ends == {<<>>, <<48>>} \cup StringEnds \cup WordEnds

Begins(w) == \E e \in Ends : Kinds(w \o e) # {}

Seen == IF in_char = Nothing THEN text ELSE Append(text, in_char)

-----------------------------------------------------------------------------
(* ccljson.cc:477-1009: after any number of characters the label the       *)
(* scanner is at returns the one terminal whose language the text is in.   *)
Recognises ==
  term = "scanning" =>
    Kinds(text) = IF Closed(state) = "unknown" THEN {} ELSE {Closed(state)}

(* ccljson.cc:477-1009: the scanner never backtracks, and need not: it     *)
(* returns a terminal only when no longer one begins so, and gives up only *)
(* when no terminal begins with what it has read.                          *)
LongestMatch ==
  /\ term \notin {"scanning", "unknown", "eof"} => Kinds(text) = {term} /\ ~Begins(Seen)
  /\ term = "unknown" => ~Begins(Seen)
  /\ term = "eof" => text = <<>> /\ in_char = 0

(* What create writes for any string, 0 among its characters; and all that *)
(* a scanner sees on the way through it.                                   *)
Strings == SeqOf(Alphabet, MaxImage)
Images == {Written(s) : s \in Strings}
WrittenFor == {<<Written(s), s>> : s \in Strings}
Beginnings == UNION {{SubSeq(w, 1, n) : n \in 1 .. Len(w)} : w \in Images}

(* Does w hold an escaped slash? *)
EscapedSlash(w) ==
  \E i \in 1 .. Len(w) - 2 : Between(w)[i] /\ w[i + 1] = Backslash /\ w[i + 2] = Slash

(* ccljson_parse_actions.cc:180-271: the decoder ends at the closing quote *)
(* and not behind it, whatever string the scanner let through; the assert  *)
(* of line 260, which is to be out of reach, is reached by every string    *)
(* that holds an escaped slash, as JSON allows, and by no other.           *)
DecodesAll ==
  /\ decode # "idle" => iter <= Len(text)
  /\ decode = "assert" => EscapedSlash(text)
  /\ decode = "done" => ~EscapedSlash(text)

(* ccljson.cc:57-100, 477-817 and ccljson_parse_actions.cc:168-281: what   *)
(* create writes for a string is taken whole by the scanner, up to its     *)
(* closing quote and as a string, and decoded to the string it was written *)
(* for.  A NUL alone, which create writes as it is, stops the scanner on   *)
(* the way, and then it recognises nothing.                                *)
RoundTrip ==
  /\ term # "scanning" /\ Seen \in Beginnings => term = "unknown" /\ in_char = 0
  /\ term # "scanning" /\ text \in Images => term = "str" /\ decode # "assert"
  /\ decode = "done" /\ text \in Images =>
       \A p \in WrittenFor : p[1] = text => const_str = p[2]
  /\ DecodesAll
=============================================================================
