\* Texts from outside of every kind of terminal, and values written plainly and nicely.
SPECIFICATION Spec
CONSTANTS
  Values <- SmallValues
  TabLen = 2
  Strings = {"a", "b"}
  Others = {"int", "flt", "true", "false", "null", "lbrace", "rbrace", "lbrack", "rbrack", "comma",
            "colon", "eof"}
  MaxTerms = 10
INVARIANTS
  ParsesJson
  WrittenOrRefused
  ReadBack
  IndentWithin
PROPERTIES
  BothEnd
\* The text ends, was refused or could not be written.
CHECK_DEADLOCK FALSE
