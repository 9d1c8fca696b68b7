------------------------------ MODULE CclCodec ------------------------------
(***************************************************************************)
(* The codecs and the password hash of lib/cclcrypto.cc.  A string is a    *)
(* sequence of bytes, a digit a character code.  The message digest is     *)
(* OpenSSL's: any function, collisions and all, that gives MdSize bytes.   *)
(* So are the two functions of base64, which are modelled by what they     *)
(* write and return.                                                       *)
(***************************************************************************)
EXTENDS Integers, Sequences, SequencesExt

CONSTANTS MdSize,      \* EVP_MD_size of the digest
          Digest(_),   \* digest(data)
          Salts,       \* what random(MdSize) may give
          Passwds      \* passwords

ASSUME CodecAssumption ==
  /\ MdSize \in Nat \ {0}
  /\ Salts \subseteq [1 .. MdSize -> 0 .. 255]
  /\ Passwds \subseteq Seq(0 .. 255)
  /\ \A salt \in Salts, p \in Passwds : Digest(salt \o p) \in [1 .. MdSize -> 0 .. 255]

(* What a function that throws gives; no byte is negative. *)
Error == <<-1>>

-----------------------------------------------------------------------------
(* base16 *)

(* c_base16_map *)
Digit(n) == IF n < 10 THEN 48 + n ELSE 97 + (n - 10)

Base16Encode(s) ==
  [i \in 1 .. 2 * Len(s) |->
     LET ch == s[(i + 1) \div 2]
     IN  Digit(IF i % 2 = 1 THEN ch \div 16 ELSE ch % 16)]

IsDigit(c) == c \in (48 .. 57) \cup (97 .. 102) \cup (65 .. 70)

Nibble(c) == CASE c \in 48 .. 57 -> c - 48
               [] c \in 97 .. 102 -> 10 + (c - 97)
               [] c \in 65 .. 70 -> 10 + (c - 65)

(* An odd length and any character that is no digit throw. *)
Base16Decode(s) ==
  IF Len(s) % 2 # 0 \/ \E i \in DOMAIN s : ~IsDigit(s[i]) THEN Error
  ELSE [i \in 1 .. Len(s) \div 2 |-> Nibble(s[2 * i - 1]) * 16 + Nibble(s[2 * i])]

Lower(c) == IF c \in 65 .. 70 THEN c + 32 ELSE c

-----------------------------------------------------------------------------
(* base64: a group of three bytes is four digits of six bits. *)

Sign == 61    \* '=', which fills the last group

Symbol(n) == CASE n < 26 -> 65 + n
               [] n \in 26 .. 51 -> 97 + (n - 26)
               [] n \in 52 .. 61 -> 48 + (n - 52)
               [] n = 62 -> 43
               [] n = 63 -> 47

Sextet(c) == CASE c \in 65 .. 90 -> c - 65
               [] c \in 97 .. 122 -> 26 + (c - 97)
               [] c \in 48 .. 57 -> 52 + (c - 48)
               [] c = 43 -> 62
               [] c = 47 -> 63
               [] c = Sign -> 0

IsSymbol(c) == c \in (65 .. 90) \cup (97 .. 122) \cup (48 .. 57) \cup {43, 47, Sign}

Pad(n) == (3 - (n % 3)) % 3

(* The q-th digit of the bytes x, y and z; the q-th byte of four digits.   *)
Cut(q, x, y, z) == CASE q = 0 -> x \div 4
                     [] q = 1 -> (x % 4) * 16 + y \div 16
                     [] q = 2 -> (y % 16) * 4 + z \div 64
                     [] q = 3 -> z % 64

Joined(q, d, e, f, g) == CASE q = 0 -> d * 4 + e \div 16
                           [] q = 1 -> (e % 16) * 16 + f \div 4
                           [] q = 2 -> (f % 4) * 64 + g

(* base64_encode: EVP_EncodeBlock into a buffer of that size, the last     *)
(* group filled up with zero bytes.                                        *)
EncodeRoom(n) == (n \div 3 + 1) * 4 + 1

Base64Encode(s) ==
  LET full == s \o [i \in 1 .. Pad(Len(s)) |-> 0]
      size == (Len(full) \div 3) * 4
  IN  [i \in 1 .. size |->
         LET k == ((i - 1) \div 4) * 3
         IN  IF i > size - Pad(Len(s)) THEN Sign
             ELSE Symbol(Cut((i - 1) % 4, full[k + 1], full[k + 2], full[k + 3]))]

(* EVP_DecodeBlock skips blanks in front of the text, and blanks, ends of  *)
(* lines and '-' behind its first three characters at its end.             *)
Trimmed(s) ==
  LET first == Min({i \in 1 .. Len(s) : s[i] \notin {9, 32}} \cup {Len(s) + 1})
      rest == SubSeq(s, first, Len(s))
      last == Min({n \in 0 .. Len(rest) : /\ n >= 3 \/ n = Len(rest)
                                          /\ \A i \in n + 1 .. Len(rest) :
                                               rest[i] \in {9, 10, 13, 32, 45}})
  IN  SubSeq(rest, 1, last)

(* base64_decode: -1 of EVP_DecodeBlock throws.  '=' counts as zero bits,  *)
(* wherever it is, and nobody takes the bytes of the padding off.          *)
DecodeRoom(n) == (n \div 4) * 3 + 1

Base64Decode(s) ==
  LET w == Trimmed(s)
  IN  IF Len(w) % 4 # 0 \/ \E i \in DOMAIN w : ~IsSymbol(w[i]) THEN Error
      ELSE [i \in 1 .. (Len(w) \div 4) * 3 |->
              LET k == ((i - 1) \div 3) * 4
              IN  Joined((i - 1) % 3, Sextet(w[k + 1]), Sextet(w[k + 2]),
                         Sextet(w[k + 3]), Sextet(w[k + 4]))]

-----------------------------------------------------------------------------
(* Passwords *)

(* passwd_create with the salt that random() gave *)
PasswdCreate(passwd, salt) == salt \o Digest(salt \o passwd)

(* Mutant of PasswdVerify: as much of the digest as the hash holds will do. *)
PasswdVerifyPrefix(passwd, hash) ==
  IF Len(hash) < MdSize THEN "throw"
  ELSE LET salt == SubSeq(hash, 1, MdSize)
           rest == SubSeq(hash, MdSize + 1, Len(hash))
       IN  IF IsPrefix(rest, Digest(salt \o passwd)) THEN "yes" ELSE "no"

(* substr() takes what there is of the salt; compare() throws when the     *)
(* hash ends before the digest begins, and otherwise compares as many      *)
(* characters as a digest has, or as are left.                             *)
PasswdVerify(passwd, hash) ==
  IF Len(hash) < MdSize THEN "throw"
  ELSE LET salt == SubSeq(hash, 1, MdSize)
           rest == SubSeq(hash, MdSize + 1, Min({2 * MdSize, Len(hash)}))
       IN  IF rest = Digest(salt \o passwd) THEN "yes" ELSE "no"

PasswdVerifyBase16(passwd, hash) ==
  IF Base16Decode(hash) = Error THEN "throw" ELSE PasswdVerify(passwd, Base16Decode(hash))
=============================================================================
