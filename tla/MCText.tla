------------------------------- MODULE MCText -------------------------------
(* CclText with every text of at most four characters. *)
EXTENDS CclText

MCTexts == BoundedSeq({"a", "b", "nl"}, 4)
MCDelims == BoundedSeq({"a", "b"}, 2)
MCRegexes == {"bb*", "b*", "^b", "b$"}

(* The bounds of a byte, of the digits and of both kinds of letters; and   *)
(* texts that may be base64, with signs and blanks.                        *)
MCData ==
  BoundedSeq({0, 48, 57, 65, 70, 71, 97, 103, 255}, 3)
  \cup BoundedSeq({32, 43, 45, 61, 65, 122}, 5)

(* A digest of two bytes that does not tell all passwords apart. *)
MCDigest(s) == <<FoldLeft(LAMBDA x, y : x + y, 0, s) % 256, s[1]>>
MCSalts == {<<0, 0>>, <<1, 255>>}
MCPasswds == BoundedSeq({0, 1, 255}, 2)
=============================================================================
