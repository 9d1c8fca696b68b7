\* Every call on short texts; the buffer is met exactly and passed.
SPECIFICATION TextSpec
CONSTANTS
  Texts <- MCTexts
  Delims <- MCDelims
  Regexes <- MCRegexes
  Data <- MCData
  MdSize = 2
  Digest <- MCDigest
  Salts <- MCSalts
  Passwds <- MCPasswds
  Buf = 2
  MaxOut = 7
INVARIANTS
  TextExact
  CodecExact
PROPERTIES
  JobEnds
\* A call returns and nothing follows.
CHECK_DEADLOCK FALSE
