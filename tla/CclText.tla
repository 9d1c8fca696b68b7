------------------------------ MODULE CclText -------------------------------
(***************************************************************************)
(* The loops over text of lib/cclstr.cc (split, replace and regex_c's      *)
(* split and replace) and of stream_c in lib/cclsys.cc (readln in the loop *)
(* of the tests, read), one iteration per step.  A job is one call; the    *)
(* codecs of lib/cclcrypto.cc, which have no loop worth stepping through,  *)
(* are jobs of one step.                                                   *)
(*                                                                         *)
(* A text is a sequence of characters.  A regular expression is known by   *)
(* what regexec, which is external, finds: the leftmost and then longest   *)
(* match in the rest of the text, for four expressions that tell the cases *)
(* apart: "bb*", "b*" (may match nothing), "^b" and "b$".                  *)
(***************************************************************************)
EXTENDS CclCodec, FiniteSets

CONSTANTS Texts,     \* texts
          Delims,    \* delimiters, what is replaced and what it becomes
          Regexes,   \* regular expressions
          Data,      \* byte strings for the codecs
          Buf,       \* buffer of stream_c::read and of format
          MaxOut     \* tokens or replacements before memory ends (a bound)

ASSUME TextAssumption ==
  /\ Texts \subseteq Seq(STRING) /\ Delims \subseteq Seq(STRING)
  /\ Regexes \subseteq {"bb*", "b*", "^b", "b$"}
  /\ Data \subseteq Seq(0 .. 255)
  /\ Buf \in Nat

VARIABLES job,   \* the call
          pos,   \* last_pos or pos, the position of the stream
          out,   \* tokens, lines, or what was built
          at     \* "loop", "done" once the call returned, or "threw"

textVars == <<job, pos, out, at>>

b == "b"
NL == "nl"
NPos == -1

Jobs ==
       [op : {"split", "replace"}, text : Texts, by : Delims]
  \cup [op : {"regex_split", "regex_replace"}, text : Texts, by : Regexes]
  \cup [op : {"readln", "read", "format"}, text : Texts, by : {""}]
  \cup [op : {"codec"}, text : Data, by : {""}]
  \cup [op : {"passwd"}, text : Passwds, by : Salts]

TextInit ==
  /\ job \in Jobs
  /\ pos = 0
  /\ out = <<>>
  /\ at = IF job.op \in {"codec", "passwd"} THEN "done" ELSE "loop"

text == job.text
From(p) == SubSeq(text, p + 1, Len(text))
Part(p, n) == SubSeq(text, p + 1, p + n)

Is(op) == at = "loop" /\ job.op = op

-----------------------------------------------------------------------------
(* std::string::find(by, from); an empty pattern is found at once. *)
Find(t, by, from) ==
  LET S == {p \in from .. Len(t) - Len(by) : SubSeq(t, p + 1, p + Len(by)) = by}
  IN  IF S = {} THEN NPos ELSE Min(S)

(* What regexec finds in a string of its own. *)
Fits(re, s, so, eo) ==
  LET w == SubSeq(s, so + 1, eo)
      bs == \A i \in DOMAIN w : w[i] = b
  IN  CASE re = "bb*" -> so < eo /\ bs
        [] re = "b*" -> bs
        [] re = "^b" -> so = 0 /\ w = <<b>>
        [] re = "b$" -> eo = Len(s) /\ w = <<b>>

Hits(re, s) == {m \in (0 .. Len(s)) \X (0 .. Len(s)) : m[1] <= m[2] /\ Fits(re, s, m[1], m[2])}

Regexec(re, s) ==
  LET H == Hits(re, s)
      so == Min({m[1] : m \in H})
  IN  IF H = {} THEN <<NPos, NPos>>
      ELSE <<so, Max({m[2] : m \in {k \in H : k[1] = so}})>>

-----------------------------------------------------------------------------
(* One iteration of each loop.  Token keeps a piece and goes on from p.    *)
Token(w, p) ==
  /\ Len(out) < MaxOut
  /\ out' = Append(out, w) /\ pos' = p
  /\ UNCHANGED <<job, at>>

Finish(o) == out' = o /\ at' = "done" /\ UNCHANGED <<job, pos>>

(* Mutant of Split: it goes on behind the first character. *)
SplitByOne ==
  /\ Is("split")
  /\ LET p == Find(text, job.by, pos)
     IN  IF p = NPos THEN Finish(Append(out, From(pos)))
         ELSE Token(Part(pos, p - pos), p + 1)

(* Mutant of Split: it goes on at the delimiter. *)
SplitStay ==
  /\ Is("split")
  /\ LET p == Find(text, job.by, pos)
     IN  IF p = NPos THEN Finish(Append(out, From(pos)))
         ELSE Token(Part(pos, p - pos), p)

Split ==
  /\ Is("split")
  /\ LET p == Find(text, job.by, pos)
     IN  IF p = NPos THEN Finish(Append(out, From(pos)))
         ELSE Token(Part(pos, p - pos), p + Len(job.by))

(* replace(source, old, new) with a new string that is kept apart from the *)
(* text: what stands between the replacements is a token here as well.     *)
Replace ==
  /\ Is("replace")
  /\ LET p == Find(text, job.by, pos)
         end == IF p = NPos THEN Len(text) ELSE p
     IN  CASE job.by = <<>> -> Finish(<<text>>)
           [] job.by # <<>> /\ end >= Len(text) -> Finish(Append(out, Part(pos, end - pos)))
           [] OTHER -> Token(Part(pos, end - pos), end + Len(job.by))

(* regexec is given the rest of the text as a string of its own. *)
RegexSplit ==
  /\ Is("regex_split")
  /\ LET m == Regexec(job.by, From(pos))
     IN  IF m[1] = NPos THEN Finish(Append(out, From(pos)))
         ELSE Token(Part(pos, m[1]), pos + m[2])

RegexReplace ==
  /\ Is("regex_replace")
  /\ LET m == Regexec(job.by, From(pos))
         end == IF m[1] = NPos THEN Len(text) ELSE pos + m[1]
     IN  IF end >= Len(text) THEN Finish(Append(out, Part(pos, end - pos)))
         ELSE Token(Part(pos, end - pos), end + (m[2] - m[1]))

(* stream_c::readln: getline gives the line with its end; the last         *)
(* character is taken for that end.  The result is feof: reached only when *)
(* the line was ended by the end of the text.  Nothing left: an empty line.*)
Readln ==
  /\ Is("readln")
  /\ LET p == Find(text, <<NL>>, pos)
         n == IF p = NPos THEN Len(text) - pos ELSE p + 1 - pos
         line == IF n = 0 THEN <<>> ELSE Part(pos, n - 1)
     IN  IF p = NPos THEN Finish(Append(out, line)) ELSE Token(line, pos + n)

(* Mutant of Read: the last buffer is dropped when it is not full. *)
ReadFull ==
  /\ Is("read")
  /\ LET n == Min({Buf, Len(text) - pos})
     IN  IF n >= Buf THEN Token(Part(pos, n), pos + n) ELSE Finish(out)

(* stream_c::read: fread into the next Buf bytes while it fills them. *)
Read ==
  /\ Is("read")
  /\ LET n == Min({Buf, Len(text) - pos})
     IN  IF n >= Buf THEN Token(Part(pos, n), pos + n) ELSE Finish(Append(out, Part(pos, n)))

(* format: vsnprintf into Buf characters and the zero after them, and once *)
(* more when the text is longer.                                           *)
Format ==
  /\ Is("format")
  /\ LET first == Part(0, Min({Buf, Len(text)}))
     IN  Finish(<<IF Len(text) > Buf THEN text ELSE first>>)

(* ferror after a short fread, or after getline gave -1; vsnprintf gave -1, *)
(* which no string is resized to.  The call throws, whatever it had read.  *)
Throws ==
  /\ Is("readln") \/ Is("read") \/ Is("format")
  /\ at' = "threw" /\ UNCHANGED <<job, pos, out>>

TextNext ==
  \/ Split \/ Replace \/ RegexSplit \/ RegexReplace \/ Readln \/ Read \/ Format
  \/ Throws

TextSpec == TextInit /\ [][TextNext]_textVars /\ WF_textVars(TextNext)

-----------------------------------------------------------------------------
(* join(tokens,delim): result after each token *)
Join(tokens, delim) ==
  LET result[n \in 0 .. Len(tokens)] ==
        IF n = 0 THEN <<>>
        ELSE IF n = 1 THEN tokens[1] ELSE result[n - 1] \o delim \o tokens[n]
  IN  result[Len(tokens)]

(* The tokens of t, cut at the first delimiter, at the first after it, ... *)
CutAt(t, by, tokens) ==
  /\ Join(tokens, by) = t
  /\ \A i \in 1 .. Len(tokens) - 1 : Find(tokens[i] \o by, by, 0) = Len(tokens[i])
  /\ Find(Last(tokens), by, 0) = NPos

(* What is left of t without any b. *)
Without(t) ==
  LET kept[i \in 0 .. Len(t)] ==
        IF i = 0 THEN <<>> ELSE IF t[i] = b THEN kept[i - 1] ELSE Append(kept[i - 1], t[i])
  IN  kept[Len(t)]

Edge(t, i) == t[i] = b /\ (i = 1 \/ t[i - 1] # b)

(* The pieces of t between maximal runs of b. *)
CutAtRuns(t, tokens) ==
  /\ Join(tokens, <<>>) = Without(t)
  /\ Len(tokens) = Cardinality({i \in DOMAIN t : Edge(t, i)}) + 1
  /\ \A i \in 2 .. Len(tokens) - 1 : tokens[i] # <<>>

(* What an expression tied to the beginning or the end of the text cuts.   *)
CutOnce(re, t) ==
  CASE re = "^b" /\ t # <<>> /\ t[1] = b -> <<<<>>, Tail(t)>>
    [] re = "b$" /\ t # <<>> /\ Last(t) = b -> <<Front(t), <<>>>>
    [] OTHER -> <<t>>

(* An empty delimiter is found at every position, and an expression that   *)
(* matches nothing matches where the last match ended.                     *)
Endless ==
  \/ job.op = "split" /\ job.by = <<>>
  \/ job.op = "regex_split" /\ job.by = "b*"
  \/ job.op = "regex_replace" /\ job.by = "b*" /\ \E i \in DOMAIN text : text[i] # b

(* cclstr.cc:37-166,247-313 and cclsys.cc:370-433: what the loops build.   *)
(* split and replace cut the text at the delimiters found from the left,   *)
(* and join undoes split; the regular expressions likewise, but "^" also   *)
(* matches right after a match; the lines read make up the text again,     *)
(* but the last character of a text that does not end with a newline is    *)
(* lost; a stream or a format is whole whatever its length.                *)
TextExact ==
  at = "done" =>
    /\ ~Endless
    /\ job.op \in {"split", "replace"} /\ job.by # <<>> => CutAt(text, job.by, out)
    /\ job.op = "replace" /\ job.by = <<>> => out = <<text>>
    /\ job.op \in {"regex_split", "regex_replace"} =>
         CASE job.by = "bb*" -> CutAtRuns(text, out)
           [] job.by = "b*" -> TRUE
           [] OTHER -> out = CutOnce(job.by, text)
                         <=> ~(job.by = "^b" /\ Len(text) > 1 /\ text[1] = b /\ text[2] = b)
    /\ job.op = "readln" =>
         Join(out, <<NL>>) = IF text = <<>> \/ Last(text) = NL THEN text ELSE Front(text)
    /\ job.op \in {"read", "format"} => Join(out, <<>>) = text

(* cclstr.cc:45,255,283: every loop ends, unless nothing moves it on.      *)
JobEnds == ~Endless ~> at \in {"done", "threw"}

(* base16 is undone by its decoding, which accepts just what an encoding   *)
(* gives, in either case of the letters.                                   *)
Base16Exact(d) ==
  LET back == Base16Decode(d)
  IN  /\ Base16Decode(Base16Encode(d)) = d
      /\ back # Error => Base16Encode(back) = [i \in DOMAIN d |-> Lower(d[i])]

(* base64 is undone up to the zero bytes that fill the last group, within  *)
(* the buffers set aside.  Decoding takes an encoding, and one in which    *)
(* '=' stands for any 'A', whatever blanks are around it.                  *)
Base64Exact(d) ==
  LET coded == Base64Encode(d)
      back == Base64Decode(d)
      w == Trimmed(d)
  IN  /\ Base64Decode(coded) = d \o [i \in 1 .. Pad(Len(d)) |-> 0]
      /\ Len(coded) < EncodeRoom(Len(d))
      /\ back # Error =>
           /\ Len(back) < DecodeRoom(Len(d))
           /\ Base64Encode(back) = [i \in DOMAIN w |-> IF w[i] = Sign THEN 65 ELSE w[i]]

(* A hash verifies its own password and those the digest cannot tell from  *)
(* it.  What is left of a hash that was cut verifies nothing: it throws    *)
(* when part of the salt is gone, or half a digit of base16.               *)
PasswdExact(d, salt) ==
  LET hash == PasswdCreate(d, salt)
      hex == Base16Encode(hash)
  IN  /\ \A p \in Passwds :
           /\ PasswdVerify(p, hash) =
                IF Digest(salt \o p) = Digest(salt \o d) THEN "yes" ELSE "no"
           /\ PasswdVerifyBase16(p, hex) = PasswdVerify(p, hash)
      /\ \A n \in 0 .. 2 * MdSize - 1 :
           PasswdVerify(d, SubSeq(hash, 1, n)) = IF n < MdSize THEN "throw" ELSE "no"
      /\ \A n \in 0 .. 4 * MdSize - 1 :
           PasswdVerifyBase16(d, SubSeq(hex, 1, n)) =
             IF n % 2 = 1 \/ n < 2 * MdSize THEN "throw" ELSE "no"

(* cclcrypto.cc:59-206: base16, base64 and password hashes, each function  *)
(* with its inverse and with what it refuses.                              *)
CodecExact ==
  /\ job.op = "codec" => Base16Exact(text) /\ Base64Exact(text)
  /\ job.op = "passwd" => PasswdExact(text, job.by)
=============================================================================
