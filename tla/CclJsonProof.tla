----------------------------- MODULE CclJsonProof ----------------------------
(***************************************************************************)
(* Proofs about the writer and the parser of CclJsonText, for values of    *)
(* any depth, tabs of any length and texts of any length.                  *)
(***************************************************************************)
EXTENDS CclJsonText, FiniteSetTheorems, SequenceTheorems, TLAPS

-----------------------------------------------------------------------------
(* The inductive invariant of the writer *)

Elements == [var : Values, init : BOOLEAN, i : Nat \ {0}]

(* A container that is entered and has something in it. *)
Open(e) == e.var[1] \in Containers /\ ~e.init /\ e.var[2] # <<>>

(* Only the top of the stack may be a container that is not entered. *)
FrameOK(k) ==
  LET e == create_stack[k]
  IN  IF e.init THEN k = Len(create_stack) /\ e.i = 1 ELSE Open(e)

(* What strbuf may hold while the indentation buffer is n long. *)
Marks == {"lbrace", "rbrace", "lbrack", "rbrack", "comma", "colon"} \X {"-"}
Fitting(n) == {t \in Values \cup Marks \cup ({"line"} \X Nat) :
                 t[1] = "line" => t \in {"line"} \X (0 .. n)}

LayoutOK ==
  /\ create_stack \in Seq(Elements) /\ nice \in BOOLEAN
  /\ \A k \in 1 .. Len(create_stack) : FrameOK(k)
  /\ result = "running" => create_stack # <<>>
  /\ indent_size \in Nat /\ indent_len \in Nat /\ indent_size <= indent_len
  /\ indent_size = IF nice THEN TabLen * Depth ELSE 0
  /\ strbuf \in Seq(Fitting(indent_len))

(* The j-th of what a container holds. *)
Child(v, j) == IF v[1] = "dict" THEN v[2][j][2] ELSE v[2][j]
ItemOK(v, j) == (v[1] = "dict" => KeyFits(v[2][j][1])) /\ Writable[Child(v, j)]

(* What an element of the stack has behind it is written, and above it is  *)
(* what it is at.                                                          *)
Behind(e, n) == e.var[1] \in Containers =>
                  \A j \in 1 .. Len(e.var[2]) : j < n => ItemOK(e.var, j)
Above(e, f) == LET j == e.i - 1
               IN  /\ j \in 1 .. Len(e.var[2]) /\ f.var = Child(e.var, j)
                   /\ e.var[1] = "dict" => KeyFits(e.var[2][j][1])

WrittenOK ==
  /\ result \in {"running", "done", "bad_key", "bad_type", "foreign"}
  /\ result # "foreign" => var \in Values
  /\ result = "running" => create_stack[1].var = var
  /\ \A k \in 1 .. Len(create_stack) :
       LET e == create_stack[k]
       IN  /\ Writable[var] => Writable[e.var]
           /\ IF k = Len(create_stack) THEN Behind(e, e.i)
              ELSE Behind(e, e.i - 1) /\ Above(e, create_stack[k + 1])
  /\ WrittenOrRefused

CreateInv == LayoutOK /\ WrittenOK

-----------------------------------------------------------------------------
(* Values *)

LEMMA Holdings ==
  ASSUME NEW v \in Values, v[1] \in Containers
  PROVE  /\ Len(v[2]) \in Nat /\ DOMAIN v[2] = 1 .. Len(v[2])
         /\ v[2] = <<>> <=> Len(v[2]) = 0
         /\ \A j \in 1 .. Len(v[2]) :
              /\ Child(v, j) \in Values
              /\ v[1] = "dict" => v[2][j][1] \in Values
<1>1. CASE v[1] = "dict"
  <2>1. v[2] \in Seq(Values \X Values)
    BY <1>1, CreateAssumption
  <2>2. \A j \in 1 .. Len(v[2]) : v[2][j] \in Values \X Values
    BY <2>1, ElementOfSeq
  <2>3. \A j \in 1 .. Len(v[2]) : Child(v, j) \in Values /\ v[2][j][1] \in Values
    BY <1>1, <2>2 DEF Child
  <2>4. QED  BY <2>1, <2>3, LenProperties, EmptySeq
<1>2. CASE v[1] # "dict"
  <2>1. v[2] \in Seq(Values)
    BY <1>2, CreateAssumption DEF Containers
  <2>2. \A j \in 1 .. Len(v[2]) : Child(v, j) \in Values
    BY <1>2, <2>1, ElementOfSeq DEF Child
  <2>3. QED  BY <1>2, <2>1, <2>2, LenProperties, EmptySeq
<1>3. QED  BY <1>1, <1>2

(* What Writable computes at one level, for a function f of the values. *)
Level(f, v) ==
  /\ v[1] \in Atoms \cup Containers
  /\ v[1] \in Sequential => \A i \in DOMAIN v[2] : f[v[2][i]]
  /\ v[1] = "dict" => \A i \in DOMAIN v[2] : v[2][i][1][1] = "str" /\ f[v[2][i][2]]

(* There is a function that is its own level: a value is good when it is   *)
(* in some set of values that are good by what the set holds.              *)
LEMMA LevelsExist == \E f : f = [v \in Values |-> Level(f, v)]
<1> DEFINE In(S) == [v \in Values |-> v \in S]
           Safe(S) == \A v \in S : Level(In(S), v)
           g == [v \in Values |-> \E S \in SUBSET Values : v \in S /\ Safe(S)]
<1>1. ASSUME NEW v \in Values, v[1] \in Containers, NEW i \in DOMAIN v[2]
      PROVE  Child(v, i) \in Values
  BY <1>1, Holdings
<1>2. ASSUME NEW v \in Values, NEW f, NEW h, Level(f, v),
             \A w \in Values : f[w] => h[w]
      PROVE  Level(h, v)
  BY <1>1, <1>2 DEF Level, Child, Containers, Sequential
<1>3. ASSUME NEW v \in Values, g[v]
      PROVE  Level(g, v)
  <2>1. PICK S \in SUBSET Values : v \in S /\ Safe(S)
    BY <1>3
  <2>2. \A w \in Values : In(S)[w] => g[w]
    BY <2>1
  <2>3. Level(In(S), v)
    BY <2>1
  <2> HIDE DEF In, g
  <2>4. QED  BY <1>2, <2>2, <2>3
<1>4. ASSUME NEW v \in Values, Level(g, v)
      PROVE  g[v]
  <2> DEFINE G == {w \in Values : g[w]}
             S == G \cup {v}
  <2>1. \A w \in Values : g[w] => In(S)[w]
    BY DEF In
  <2>2. ASSUME NEW w \in S
        PROVE  Level(In(S), w)
    <3>1. w \in Values /\ Level(g, w)
      BY <1>3, <1>4, <2>2
    <3> HIDE DEF In, g, S
    <3>2. QED  BY <1>2, <2>1, <3>1
  <2>3. S \in SUBSET Values /\ v \in S /\ Safe(S)
    BY <2>2
  <2> HIDE DEF S, Safe
  <2>4. QED  BY <2>3
<1>5. \A v \in Values : g[v] = Level(g, v)
  <2>1. \A v \in Values : g[v] \in BOOLEAN /\ Level(g, v) \in BOOLEAN
    BY DEF Level
  <2> HIDE DEF g
  <2>2. QED  BY <1>3, <1>4, <2>1
<1>6. g = [v \in Values |-> Level(g, v)]
  <2>1. g = [v \in Values |-> g[v]]
    OBVIOUS
  <2> HIDE DEF g
  <2>2. QED  BY <1>5, <2>1
<1>7. QED  BY <1>6

LEMMA WritableIs ==
  ASSUME NEW v \in Values
  PROVE  /\ Writable[v] \in BOOLEAN
         /\ Writable[v] <=> /\ v[1] \in Atoms \cup Containers
                            /\ v[1] \in Containers =>
                                 \A j \in 1 .. Len(v[2]) : ItemOK(v, j)
<1>1. Writable = [w \in Values |-> Level(Writable, w)]
  BY LevelsExist DEF Writable, Level
<1>2. Writable[v] = Level(Writable, v)
  BY <1>1
<1>3. CASE v[1] \in Containers
  <2>1. DOMAIN v[2] = 1 .. Len(v[2])
    BY <1>3, Holdings
  <2>2. QED
    BY <1>2, <1>3, <2>1 DEF Level, ItemOK, Child, KeyFits, Containers, Sequential
<1>4. CASE v[1] \notin Containers
  BY <1>2, <1>4 DEF Level, Containers
<1>5. QED  BY <1>3, <1>4

-----------------------------------------------------------------------------
(* The stack and the text of the writer *)

LEMMA StackTop ==
  ASSUME LayoutOK, create_stack # <<>>
  PROVE  /\ Len(create_stack) \in Nat \ {0} /\ Top = create_stack[Len(create_stack)]
         /\ Top \in Elements /\ FrameOK(Len(create_stack))
         /\ Front(create_stack) \in Seq(Elements)
         /\ Len(Front(create_stack)) = Len(create_stack) - 1
         /\ \A k \in 1 .. Len(create_stack) - 1 :
              /\ Front(create_stack)[k] = create_stack[k]
              /\ create_stack[k] \in Elements /\ FrameOK(k)
<1> DEFINE s == create_stack
           n == Len(s)
<1>1. s \in Seq(Elements) /\ n \in Nat \ {0}
  BY EmptySeq DEF LayoutOK
<1>2. \A k \in 1 .. n : s[k] \in Elements /\ FrameOK(k)
  BY <1>1, ElementOfSeq DEF LayoutOK
<1>3. Front(s) = SubSeq(s, 1, n - 1)
  BY DEF Front
<1>4. Top = s[n]
  BY DEF Top, Last
<1> HIDE DEF s
<1>5. \A k \in 1 .. n - 1 : s[k] \in Elements
  BY <1>1, <1>2
<1>6. /\ SubSeq(s, 1, n - 1) \in Seq(Elements)
      /\ Len(SubSeq(s, 1, n - 1)) = IF 1 <= n - 1 THEN (n - 1) - 1 + 1 ELSE 0
      /\ \A k \in 1 .. (n - 1) - 1 + 1 : SubSeq(s, 1, n - 1)[k] = s[1 + k - 1]
  BY <1>1, <1>5, SubSeqProperties
<1>7. /\ Front(s) \in Seq(Elements) /\ Len(Front(s)) = n - 1
      /\ \A k \in 1 .. n - 1 : Front(s)[k] = s[k]
  <2>1. \A k \in 1 .. n - 1 : 1 + k - 1 = k
    OBVIOUS
  <2>2. (n - 1) - 1 + 1 = n - 1
    BY <1>1
  <2>3. \A k \in 1 .. n - 1 : Front(s)[k] = s[k]
    BY <1>3, <1>6, <2>1, <2>2
  <2>4. QED  BY <1>1, <1>3, <1>6, <2>2, <2>3
<1>8. QED  BY <1>1, <1>2, <1>4, <1>7 DEF s

(* The number of containers around the top of a stack. *)
Around(s) ==
  Cardinality({k \in DOMAIN s :
    s[k].var[1] \in Containers /\ ~s[k].init /\ s[k].var[2] # <<>>})

LEMMA AroundIs ==
  ASSUME NEW s \in Seq(Elements), NEW m \in Nat, m <= Len(s),
         \A k \in 1 .. Len(s) : IF k <= m THEN Open(s[k]) ELSE s[k].init
  PROVE  Around(s) = m
<1>1. DOMAIN s = 1 .. Len(s) /\ Len(s) \in Nat
  BY LenProperties
<1>2. {k \in DOMAIN s : s[k].var[1] \in Containers /\ ~s[k].init /\ s[k].var[2] # <<>>}
        = 1 .. m
  BY <1>1 DEF Open
<1>3. Cardinality(1 .. m) = m
  BY FS_Interval
<1>4. QED  BY <1>2, <1>3 DEF Around

LEMMA DepthIs ==
  ASSUME LayoutOK
  PROVE  /\ Depth = Around(create_stack) /\ Depth \in Nat
         /\ create_stack # <<>> =>
              Depth = IF Top.init THEN Len(create_stack) - 1 ELSE Len(create_stack)
<1>1. Depth = Around(create_stack)
  BY DEF Depth, Around
<1>2. CASE create_stack = <<>>
  <2>1. Around(create_stack) = 0
    <3>1. Len(create_stack) = 0 /\ 0 \in Nat /\ 0 <= 0
      BY <1>2, EmptySeq
    <3>2. create_stack \in Seq(Elements)
          /\ \A k \in 1 .. Len(create_stack) :
               IF k <= 0 THEN Open(create_stack[k]) ELSE create_stack[k].init
      BY <3>1 DEF LayoutOK
    <3>3. QED  BY <3>1, <3>2, AroundIs
  <2>2. QED  BY <1>1, <1>2, <2>1
<1>3. CASE create_stack # <<>>
  <2> DEFINE n == Len(create_stack)
             m == IF Top.init THEN n - 1 ELSE n
  <2>1. n \in Nat /\ n > 0 /\ Top = create_stack[n]
    BY <1>3, StackTop
  <2>2. \A k \in 1 .. n : FrameOK(k)
    BY DEF LayoutOK
  <2>3. \A k \in 1 .. n : IF k <= m THEN Open(create_stack[k]) ELSE create_stack[k].init
    BY <2>1, <2>2 DEF FrameOK
  <2>4. m \in Nat /\ m <= n
    BY <2>1
  <2> HIDE DEF m
  <2>5. Around(create_stack) = m
    BY <2>3, <2>4, AroundIs DEF LayoutOK
  <2>6. QED  BY <1>1, <2>4, <2>5 DEF m
<1>4. QED  BY <1>2, <1>3

(* What a turn leaves on the stack: without its top, or with its top moved *)
(* on and a child above.                                                   *)
LEMMA Popped ==
  ASSUME LayoutOK, create_stack # <<>>, create_stack' = Front(create_stack)
  PROVE  /\ create_stack' \in Seq(Elements)
         /\ Len(create_stack') = Len(create_stack) - 1
         /\ \A k \in 1 .. Len(create_stack') :
              create_stack'[k] = create_stack[k] /\ Open(create_stack[k])
         /\ Around(create_stack') = Len(create_stack) - 1
<1>1. /\ create_stack' \in Seq(Elements)
      /\ Len(create_stack') = Len(create_stack) - 1 /\ Len(create_stack) \in Nat \ {0}
      /\ \A k \in 1 .. Len(create_stack) - 1 :
           create_stack'[k] = create_stack[k] /\ FrameOK(k)
  BY StackTop
<1>2. \A k \in 1 .. Len(create_stack') :
        create_stack'[k] = create_stack[k] /\ Open(create_stack[k])
  BY <1>1 DEF FrameOK
<1>3. Around(create_stack') = Len(create_stack')
  BY <1>1, <1>2, AroundIs
<1>4. QED  BY <1>1, <1>2, <1>3

Moved == [Top EXCEPT !.init = FALSE, !.i = @ + 1]

LEMMA Pushed ==
  ASSUME LayoutOK, create_stack # <<>>, NEW c \in Values, Advance(c),
         Top.var[1] \in Containers, ~AtEnd
  PROVE  /\ create_stack' \in Seq(Elements)
         /\ Len(create_stack') = Len(create_stack) + 1
         /\ \A k \in 1 .. Len(create_stack) - 1 : create_stack'[k] = create_stack[k]
         /\ create_stack'[Len(create_stack)] = Moved /\ Open(Moved)
         /\ Moved.var = Top.var /\ Moved.i = Top.i + 1 /\ ~Moved.init
         /\ create_stack'[Len(create_stack) + 1] = Elem(c)
         /\ Around(create_stack') = Len(create_stack)
         /\ Items # <<>>
<1> DEFINE n == Len(create_stack)
           t == Append(Front(create_stack), Moved)
<1>1. /\ n \in Nat \ {0} /\ Top \in Elements
      /\ Front(create_stack) \in Seq(Elements) /\ Len(Front(create_stack)) = n - 1
      /\ \A k \in 1 .. n - 1 : Front(create_stack)[k] = create_stack[k] /\ FrameOK(k)
  BY StackTop
<1>2. Top.i \in Nat \ {0} /\ Top.var \in Values
  BY <1>1 DEF Elements
<1>3. /\ Moved \in Elements /\ Moved.var = Top.var /\ Moved.i = Top.i + 1
      /\ Moved.init = FALSE
  <2>1. /\ Moved.var = Top.var /\ Moved.i = Top.i + 1 /\ Moved.init = FALSE
        /\ Moved = [var |-> Moved.var, init |-> Moved.init, i |-> Moved.i]
    <3>1. PICK e \in Elements : e = Top
      BY <1>1
    <3>2. Moved = [e EXCEPT !.init = FALSE, !.i = @ + 1]
      BY <3>1 DEF Moved
    <3>3. e = [var |-> e.var, init |-> e.init, i |-> e.i]
      BY DEF Elements
    <3>4. Moved = [var |-> e.var, init |-> FALSE, i |-> e.i + 1]
      BY <3>2, <3>3
    <3>5. QED  BY <3>1, <3>4
  <2>2. Top.i + 1 \in Nat \ {0}
    BY <1>2
  <2>3. QED  BY <1>2, <2>1, <2>2 DEF Elements
<1>4. Elem(c) \in Elements /\ Elem(c).init
  BY DEF Elem, Elements
<1>5. Items # <<>>
  BY <1>2, Holdings DEF AtEnd, Items
<1>6. Open(Moved)
  BY <1>3, <1>5 DEF Open, Items
<1>7. create_stack' = t \o <<Elem(c)>>
  BY DEF Advance, Moved
<1> HIDE DEF t
<1>8. t \in Seq(Elements) /\ Len(t) = n /\ t[n] = Moved
      /\ \A k \in 1 .. n - 1 : t[k] = create_stack[k]
  <2>1. /\ t \in Seq(Elements) /\ Len(t) = n - 1 + 1
        /\ \A k \in 1 .. n - 1 : t[k] = Front(create_stack)[k]
        /\ t[n - 1 + 1] = Moved
    BY <1>1, <1>3, AppendProperties DEF t
  <2>2. n - 1 + 1 = n
    BY <1>1
  <2>3. QED  BY <1>1, <2>1, <2>2
<1>9. /\ create_stack' \in Seq(Elements) /\ Len(create_stack') = n + 1
      /\ \A k \in 1 .. n : create_stack'[k] = t[k]
      /\ create_stack'[n + 1] = Elem(c)
  <2>1. create_stack' = Append(t, Elem(c))
    BY <1>4, <1>7, <1>8, AppendIsConcat
  <2>2. QED  BY <1>4, <1>8, <2>1, AppendProperties
<1>10. \A k \in 1 .. n - 1 : create_stack'[k] = create_stack[k] /\ Open(create_stack[k])
  BY <1>1, <1>8, <1>9 DEF FrameOK
<1>11. create_stack'[n] = Moved
  BY <1>1, <1>8, <1>9
<1>12. Around(create_stack') = n
  <2>1. \A k \in 1 .. Len(create_stack') :
          IF k <= n THEN Open(create_stack'[k]) ELSE create_stack'[k].init
    BY <1>1, <1>4, <1>6, <1>9, <1>10, <1>11
  <2>2. n \in Nat /\ n <= Len(create_stack')
    BY <1>1, <1>9
  <2>3. QED  BY <1>9, <2>1, <2>2, AroundIs
<1>13. QED  BY <1>3, <1>5, <1>6, <1>9, <1>10, <1>11, <1>12

(* Pieces of text fit the indentation buffer. *)
LEMMA FittingGrows ==
  ASSUME NEW m \in Nat, NEW n \in Nat, m <= n
  PROVE  Fitting(m) \subseteq Fitting(n)
<1>1. 0 .. m \subseteq 0 .. n
  OBVIOUS
<1>2. QED  BY <1>1 DEF Fitting

LEMMA OneFits ==
  ASSUME NEW n \in Nat, NEW t \in Values \cup Marks, t[1] # "line"
  PROVE  <<t>> \in Seq(Fitting(n))
<1>1. t \in Fitting(n)
  BY DEF Fitting
<1>2. QED  BY <1>1

LEMMA MarksFit ==
  ASSUME NEW n \in Nat, NEW v \in Values
  PROVE  /\ <<Opening(v)>> \in Seq(Fitting(n)) /\ <<Closing(v)>> \in Seq(Fitting(n))
         /\ <<Mark("comma")>> \in Seq(Fitting(n)) /\ <<Mark("colon")>> \in Seq(Fitting(n))
         /\ <<>> \in Seq(Fitting(n))
<1>1. \A x \in {Opening(v), Closing(v), Mark("comma"), Mark("colon")} :
        x \in Marks /\ x[1] # "line"
  BY DEF Opening, Closing, Mark, Marks
<1>2. QED  BY <1>1, OneFits

LEMMA IndentFits ==
  ASSUME NEW n \in Nat, NEW size \in 0 .. n
  PROVE  Indent(size) \in Seq(Fitting(n))
<1>1. <<"line", size>> \in Fitting(n)
  BY DEF Fitting
<1>2. QED  BY <1>1 DEF Indent

LEMMA LeadFits ==
  ASSUME NEW n \in Nat, Deeper \in 0 .. n, Top.var \in Values
  PROVE  Lead \in Seq(Fitting(n))
<1>1. Indent(Deeper) \in Seq(Fitting(n))
  BY IndentFits
<1>2. <<Opening(Top.var)>> \o Indent(Deeper) \in Seq(Fitting(n))
  BY <1>1, MarksFit, ConcatProperties
<1>3. <<Opening(Top.var)>> \o <<>> \in Seq(Fitting(n))
  BY MarksFit, ConcatProperties
<1>4. <<Mark("comma")>> \o Indent(Deeper) \in Seq(Fitting(n))
  BY <1>1, MarksFit, ConcatProperties
<1>5. QED  BY <1>2, <1>3, <1>4, MarksFit DEF Lead

(* What an element takes: the size and the buffer before it is written. *)
LEMMA Grown ==
  ASSUME LayoutOK, create_stack # <<>>, Items # <<>>
  PROVE  /\ Deeper \in Nat /\ Longer \in Nat
         /\ Deeper <= Longer /\ indent_len <= Longer
         /\ Deeper = IF nice THEN TabLen * Len(create_stack) ELSE 0
<1> DEFINE n == Len(create_stack)
<1>1. n \in Nat \ {0} /\ Top \in Elements
  BY StackTop
<1>2. Depth = IF Top.init THEN n - 1 ELSE n
  BY DepthIs
<1>3. /\ indent_size \in Nat /\ indent_len \in Nat /\ indent_size <= indent_len
      /\ indent_size = IF nice THEN TabLen * Depth ELSE 0
      /\ nice \in BOOLEAN /\ TabLen \in Nat
  BY CreateAssumption DEF LayoutOK
<1>4. Top.init \in BOOLEAN
  BY <1>1 DEF Elements
<1>5. TabLen * n = TabLen * (n - 1) + TabLen
  BY <1>1, <1>3
<1> HIDE DEF n
<1>6. Deeper = IF nice THEN TabLen * n ELSE 0
  BY <1>2, <1>3, <1>4, <1>5 DEF Deeper, Entered
<1>7. Deeper = IF nice /\ Top.init THEN indent_size + TabLen ELSE indent_size
  BY <1>3, <1>4 DEF Deeper, Entered
<1>8. Longer = IF Deeper > indent_len THEN indent_len + TabLen ELSE indent_len
  BY DEF Longer
<1> HIDE DEF Deeper, Longer
<1>9. Deeper \in Nat /\ Longer \in Nat /\ Deeper <= Longer /\ indent_len <= Longer
  BY <1>3, <1>7, <1>8
<1>10. QED  BY <1>6, <1>9 DEF n

-----------------------------------------------------------------------------
(* The turns and the layout *)

LEMMA ElementLaysOut ==
  ASSUME LayoutOK, create_stack # <<>>, NEW c \in Values, Advance(c),
         Top.var[1] \in Containers, ~AtEnd, UNCHANGED nice,
         indent_size' = Deeper, indent_len' = Longer,
         strbuf' \in Seq(Fitting(Longer))
  PROVE  LayoutOK'
<1> DEFINE n == Len(create_stack)
<1>1. Items # <<>> /\ n \in Nat \ {0}
  BY Pushed, StackTop
<1>2. /\ Deeper \in Nat /\ Longer \in Nat /\ Deeper <= Longer
      /\ Deeper = IF nice THEN TabLen * n ELSE 0
  BY <1>1, Grown
<1>3. Depth' = n
  BY Pushed DEF Depth, Around
<1>4. create_stack' \in Seq(Elements) /\ create_stack' # <<>>
  BY <1>1, Pushed, EmptySeq
<1>5. ASSUME NEW k \in 1 .. Len(create_stack)'
      PROVE  FrameOK(k)'
  <2>1. CASE k <= n - 1
    <3>1. create_stack'[k] = create_stack[k] /\ k \in 1 .. n - 1
      BY <1>1, <2>1, Pushed
    <3>2. FrameOK(k) /\ k # n
      BY <1>1, <3>1, StackTop
    <3>3. QED  BY <3>1, <3>2 DEF FrameOK, Open
  <2>2. CASE k = n
    <3>1. create_stack'[k] = Moved /\ Open(Moved)
      BY <2>2, Pushed
    <3>2. QED  BY <3>1 DEF FrameOK, Open
  <2>3. CASE k = n + 1
    <3>1. create_stack'[k] = Elem(c) /\ k = Len(create_stack')
      BY <2>3, Pushed
    <3>2. QED  BY <3>1 DEF FrameOK, Elem
  <2>4. QED
    <3>1. Len(create_stack') = n + 1
      BY Pushed
    <3>2. QED  BY <1>1, <1>5, <2>1, <2>2, <2>3, <3>1
<1>6. QED  BY <1>2, <1>3, <1>4, <1>5 DEF LayoutOK

LEMMA EndLaysOut ==
  ASSUME LayoutOK, create_stack # <<>>, create_stack' = Front(create_stack),
         UNCHANGED <<nice, indent_len>>, result' # "running" \/ Len(create_stack) # 1,
         strbuf' \in Seq(Fitting(indent_len)),
         indent_size' = IF nice /\ ~Top.init THEN indent_size - TabLen ELSE indent_size
  PROVE  LayoutOK'
<1> DEFINE n == Len(create_stack)
<1>1. n \in Nat \ {0} /\ Top \in Elements
  BY StackTop
<1>2. Depth = IF Top.init THEN n - 1 ELSE n
  BY DepthIs
<1>3. Depth' = n - 1
  BY Popped DEF Depth, Around
<1>4. create_stack' \in Seq(Elements) /\ Len(create_stack') = n - 1
  BY Popped
<1>5. \A k \in 1 .. Len(create_stack)' : FrameOK(k)'
  BY <1>4, Popped DEF FrameOK, Open
<1>6. (result = "running" => create_stack # <<>>)'
  BY <1>1, <1>4, EmptySeq
<1>7. /\ indent_size \in Nat /\ indent_len \in Nat /\ indent_size <= indent_len
      /\ indent_size = IF nice THEN TabLen * Depth ELSE 0
      /\ nice \in BOOLEAN /\ TabLen \in Nat
  BY CreateAssumption DEF LayoutOK
<1>8. Top.init \in BOOLEAN
  BY <1>1 DEF Elements
<1>9. TabLen * n = TabLen * (n - 1) + TabLen /\ TabLen * (n - 1) \in Nat
  BY <1>1, <1>7
<1> HIDE DEF n
<1>10. indent_size' = IF nice THEN TabLen * (n - 1) ELSE 0
  BY <1>2, <1>7, <1>8, <1>9
<1>11. indent_size' \in Nat /\ indent_size' <= indent_len
  BY <1>2, <1>7, <1>8, <1>9, <1>10
<1>12. QED  BY <1>3, <1>4, <1>5, <1>6, <1>7, <1>10, <1>11 DEF LayoutOK

LEMMA StaysLaidOut ==
  ASSUME LayoutOK, UNCHANGED <<nice, create_stack, strbuf, indent_size, indent_len>>,
         result' = "running" => result = "running"
  PROVE  LayoutOK'
<1>1. Depth' = Depth
  BY DEF Depth
<1>2. QED  BY <1>1 DEF LayoutOK, FrameOK

LEMMA TurnLaysOut == LayoutOK /\ Turn => LayoutOK'
<1> SUFFICES ASSUME LayoutOK, Turn
             PROVE  LayoutOK'
  OBVIOUS
<1>1. result = "running" /\ create_stack # <<>>
  BY DEF Turn, WriteScalar, NextElement, NextPair, BadKey, CloseContainer, Unsupported,
         InContainer, LayoutOK
<1>2. Top \in Elements /\ Top.var \in Values /\ Top.init \in BOOLEAN /\ Top.i \in Nat \ {0}
  BY <1>1, StackTop DEF Elements
<1>3. strbuf \in Seq(Fitting(indent_len)) /\ indent_len \in Nat /\ indent_size \in Nat
      /\ indent_size <= indent_len
  BY DEF LayoutOK
<1>4. FrameOK(Len(create_stack)) /\ Top = create_stack[Len(create_stack)]
  BY <1>1, StackTop
<1>5. ASSUME ~AtEnd, Top.var[1] \in Containers, Items # <<>>
      PROVE  /\ Longer \in Nat /\ strbuf \in Seq(Fitting(Longer))
             /\ Lead \in Seq(Fitting(Longer)) /\ strbuf \o Lead \in Seq(Fitting(Longer))
  <2>1. Longer \in Nat /\ Deeper \in 0 .. Longer /\ indent_len <= Longer
    BY <1>1, <1>5, Grown
  <2>2. strbuf \in Seq(Fitting(Longer))
    <3>1. Fitting(indent_len) \subseteq Fitting(Longer)
      BY <1>3, <2>1, FittingGrows
    <3>2. QED  BY <1>3, <3>1, SeqMonotonic
  <2>3. Lead \in Seq(Fitting(Longer))
    BY <1>2, <2>1, LeadFits
  <2>4. QED  BY <2>1, <2>2, <2>3, ConcatProperties
<1>6. CASE WriteScalar
  <2>1. Top.var[1] # "line" /\ ~(Top.var[1] \in Containers)
    BY <1>6 DEF WriteScalar, Atoms, Containers, Sequential
  <2>2. Top.var \in Fitting(indent_len)
    BY <1>2, <2>1 DEF Fitting
  <2>3. strbuf' \in Seq(Fitting(indent_len))
    BY <1>3, <1>6, <2>2, AppendProperties DEF WriteScalar
  <2>4. Top.init
    BY <1>4, <2>1 DEF FrameOK, Open
  <2>5. QED  BY <1>1, <1>6, <2>3, <2>4, EndLaysOut DEF WriteScalar
<1>7. CASE NextElement
  <2>1. Top.var[1] \in Containers /\ ~AtEnd /\ Top.var[1] # "dict"
    BY <1>7 DEF NextElement, InContainer, Sequential
  <2>2. Len(Items) \in Nat /\ Top.i \in 1 .. Len(Items)
    BY <1>2, <2>1, Holdings DEF AtEnd, Items
  <2>3. Items[Top.i] \in Values
    BY <1>2, <2>1, <2>2, Holdings DEF Child, Items
  <2>4. Advance(Items[Top.i])
    BY <1>7 DEF NextElement
  <2>5. Items # <<>>
    BY <1>1, <2>1, <2>3, <2>4, Pushed
  <2>6. strbuf' \in Seq(Fitting(Longer))
    BY <1>5, <1>7, <2>1, <2>5 DEF NextElement
  <2>7. UNCHANGED nice /\ indent_size' = Deeper /\ indent_len' = Longer
    BY <1>7 DEF NextElement
  <2>8. QED  BY <1>1, <2>1, <2>3, <2>4, <2>6, <2>7, ElementLaysOut
<1>8. CASE NextPair
  <2>1. Top.var[1] \in Containers /\ ~AtEnd /\ Top.var[1] = "dict"
    BY <1>8 DEF NextPair, InContainer
  <2>2. Len(Items) \in Nat /\ Top.i \in 1 .. Len(Items)
    BY <1>2, <2>1, Holdings DEF AtEnd, Items
  <2>3. Items[Top.i][2] \in Values /\ Items[Top.i][1] \in Values
    BY <1>2, <2>1, <2>2, Holdings DEF Child, Items
  <2>4. Advance(Items[Top.i][2])
    BY <1>8 DEF NextPair
  <2>5. Items # <<>>
    BY <1>1, <2>1, <2>3, <2>4, Pushed
  <2>6. strbuf' \in Seq(Fitting(Longer))
    <3>1. Longer \in Nat /\ strbuf \o Lead \in Seq(Fitting(Longer))
          /\ strbuf \in Seq(Fitting(Longer)) /\ Lead \in Seq(Fitting(Longer))
      BY <1>5, <2>1, <2>5
    <3>2. Items[Top.i][1][1] # "line"
      BY <1>8 DEF NextPair, KeyFits
    <3>3. /\ Items[Top.i][1] \in Fitting(Longer)
          /\ Mark("colon") \in Fitting(Longer)
      BY <2>3, <3>2 DEF Fitting, Mark, Marks
    <3>4. <<Items[Top.i][1], Mark("colon")>> \in Seq(Fitting(Longer))
      BY <3>3
    <3>5. (strbuf \o Lead) \o <<Items[Top.i][1], Mark("colon")>> \in Seq(Fitting(Longer))
      BY <3>1, <3>4, ConcatProperties
    <3>6. strbuf' = (strbuf \o Lead) \o <<Items[Top.i][1], Mark("colon")>>
      BY <1>8 DEF NextPair
    <3>7. QED  BY <3>5, <3>6
  <2>7. UNCHANGED nice /\ indent_size' = Deeper /\ indent_len' = Longer
    BY <1>8 DEF NextPair
  <2>8. QED  BY <1>1, <2>1, <2>3, <2>4, <2>6, <2>7, ElementLaysOut
<1>9. CASE CloseContainer
  <2>1. Top.var[1] \in Containers /\ AtEnd
    BY <1>9 DEF CloseContainer, InContainer
  <2>2. Len(Items) \in Nat /\ (Items = <<>> <=> Len(Items) = 0)
    BY <1>2, <2>1, Holdings DEF Items
  <2>3. Top.init <=> Items = <<>>
    <3>1. Top.init => Top.i = 1
      BY <1>4 DEF FrameOK
    <3>2. ~Top.init => Items # <<>>
      BY <1>4 DEF FrameOK, Open, Items
    <3>3. QED  BY <1>2, <2>1, <2>2, <3>1, <3>2 DEF AtEnd
  <2>4. Shallower = IF nice /\ ~Top.init THEN indent_size - TabLen ELSE indent_size
    BY <1>2, <2>3 DEF Shallower
  <2>5. Shallower \in 0 .. indent_len
    <3>1. Len(create_stack) \in Nat \ {0} /\ TabLen \in Nat /\ nice \in BOOLEAN
          /\ Depth = (IF Top.init THEN Len(create_stack) - 1 ELSE Len(create_stack))
          /\ indent_size = IF nice THEN TabLen * Depth ELSE 0
      BY <1>1, StackTop, DepthIs, CreateAssumption DEF LayoutOK
    <3>2. TabLen * Len(create_stack) = TabLen * (Len(create_stack) - 1) + TabLen
          /\ TabLen * (Len(create_stack) - 1) \in Nat
      BY <3>1
    <3>3. QED  BY <1>2, <1>3, <2>4, <3>1, <3>2
  <2>6. Indent(Shallower) \in Seq(Fitting(indent_len))
    BY <1>3, <2>5, IndentFits
  <2>7. Lead \in Seq(Fitting(indent_len))
    BY <1>2, <1>3, <2>1, <2>3, MarksFit, ConcatProperties DEF Lead
  <2>8. strbuf' \in Seq(Fitting(indent_len))
    <3> DEFINE last == IF Items = <<>> THEN <<>> ELSE Indent(Shallower)
    <3>1. last \in Seq(Fitting(indent_len)) /\ <<Closing(Top.var)>> \in Seq(Fitting(indent_len))
      BY <1>2, <1>3, <2>6, MarksFit
    <3>2. strbuf' = ((strbuf \o Lead) \o last) \o <<Closing(Top.var)>>
      BY <1>9 DEF CloseContainer
    <3> HIDE DEF last
    <3>3. strbuf \o Lead \in Seq(Fitting(indent_len))
      BY <1>3, <2>7, ConcatProperties
    <3>4. (strbuf \o Lead) \o last \in Seq(Fitting(indent_len))
      BY <3>1, <3>3, ConcatProperties
    <3>5. QED  BY <3>1, <3>2, <3>4, ConcatProperties
  <2>9. QED  BY <1>1, <1>9, <2>4, <2>8, EndLaysOut DEF CloseContainer
<1>10. CASE BadKey \/ Unsupported
  BY <1>10, StaysLaidOut DEF BadKey, Unsupported
<1>11. QED  BY <1>6, <1>7, <1>8, <1>9, <1>10 DEF Turn

-----------------------------------------------------------------------------
(* The turns and what is written *)

(* The value that goes through the stack from e to f is good only if both  *)
(* are.                                                                    *)
LEMMA ChildGood ==
  ASSUME NEW v \in Values, v[1] \in Containers, NEW j \in 1 .. Len(v[2]), Writable[v]
  PROVE  ItemOK(v, j)
BY WritableIs

LEMMA ElementWritten ==
  ASSUME LayoutOK, WrittenOK, result = "running", Top.var[1] \in Containers, ~AtEnd,
         Advance(Child(Top.var, Top.i)), Top.var[1] = "dict" => KeyFits(Items[Top.i][1]),
         UNCHANGED <<var, result>>
  PROVE  WrittenOK'
<1> DEFINE n == Len(create_stack)
           c == Child(Top.var, Top.i)
<1>1. create_stack # <<>> /\ n \in Nat \ {0} /\ Top = create_stack[n] /\ Top \in Elements
  BY StackTop DEF LayoutOK
<1>2. Top.var \in Values /\ Top.i \in Nat \ {0}
  BY <1>1 DEF Elements
<1>3. Top.i \in 1 .. Len(Top.var[2]) /\ c \in Values
  BY <1>2, Holdings DEF AtEnd, Items
<1>4. /\ Len(create_stack') = n + 1 /\ create_stack'[n] = Moved
      /\ \A k \in 1 .. n - 1 : create_stack'[k] = create_stack[k]
      /\ create_stack'[n + 1] = Elem(c)
      /\ Moved.var = Top.var /\ Moved.i = Top.i + 1
  BY <1>1, <1>3, Pushed
<1>5. Behind(Top, Top.i) /\ (Writable[var] => Writable[Top.var])
  BY <1>1 DEF WrittenOK
<1>6. Writable[var] => Writable[c]
  BY <1>2, <1>3, <1>5, ChildGood DEF ItemOK
<1>7. Behind(Moved, Moved.i - 1)
  <2>1. Moved.i - 1 = Top.i
    BY <1>2, <1>4
  <2>2. QED  BY <1>4, <1>5, <2>1 DEF Behind
<1>8. Above(Moved, Elem(c))
  <2>1. Moved.i - 1 = Top.i /\ Elem(c).var = c
    BY <1>2, <1>4 DEF Elem
  <2>2. QED  BY <1>3, <1>4, <2>1 DEF Above, Items
<1>9. Behind(Elem(c), 1) /\ Elem(c).var = c /\ Elem(c).i = 1
  BY DEF Behind, Elem
<1> HIDE DEF c
<1>10. ASSUME NEW k \in 1 .. n + 1
       PROVE  LET e == create_stack'[k]
              IN  /\ Writable[var] => Writable[e.var]
                  /\ IF k = n + 1 THEN Behind(e, e.i)
                     ELSE Behind(e, e.i - 1) /\ Above(e, create_stack'[k + 1])
  <2>1. CASE k = n + 1
    BY <1>4, <1>6, <1>9, <2>1
  <2>2. CASE k = n
    <3>1. create_stack'[k] = Moved /\ create_stack'[k + 1] = Elem(c) /\ k # n + 1
      BY <1>1, <1>4, <2>2
    <3>2. QED  BY <1>4, <1>5, <1>7, <1>8, <3>1
  <2>3. CASE k \notin {n, n + 1}
    <3>1. /\ k \in 1 .. n - 1 /\ k # n /\ k # n + 1
          /\ create_stack'[k] = create_stack[k]
      BY <1>1, <1>4, <2>3
    <3>2. LET e == create_stack[k]
          IN  /\ Writable[var] => Writable[e.var]
              /\ Behind(e, e.i - 1) /\ Above(e, create_stack[k + 1])
      <4>1. k \in 1 .. n
        BY <1>1, <3>1
      <4>2. QED  BY <3>1, <4>1 DEF WrittenOK
    <3>3. create_stack'[k + 1].var = create_stack[k + 1].var
      <4>1. CASE k + 1 = n
        BY <1>1, <1>4, <4>1
      <4>2. CASE k + 1 # n
        <5>1. k + 1 \in 1 .. n - 1
          BY <1>1, <3>1, <4>2
        <5>2. QED  BY <1>4, <5>1
      <4>3. QED  BY <4>1, <4>2
    <3>4. Above(create_stack[k], create_stack'[k + 1])
      BY <3>2, <3>3 DEF Above
    <3>5. QED  BY <3>1, <3>2, <3>4
  <2>4. QED  BY <2>1, <2>2, <2>3
<1>11. create_stack'[1].var = var
  <2>1. create_stack[1].var = var
    BY DEF WrittenOK
  <2>2. CASE n = 1
    BY <1>1, <1>4, <2>1, <2>2
  <2>3. CASE n # 1
    <3>1. n \in Nat \ {0}
      BY <1>1
    <3> HIDE DEF n
    <3>2. 1 \in 1 .. n - 1
      BY <2>3, <3>1
    <3>3. QED  BY <1>4, <2>1, <3>2
  <2>4. QED  BY <2>2, <2>3
<1>12. WrittenOrRefused'
  BY DEF WrittenOrRefused
<1>13. /\ \A k \in 1 .. Len(create_stack') :
            LET e == create_stack'[k]
            IN  /\ Writable[var] => Writable[e.var]
                /\ IF k = Len(create_stack') THEN Behind(e, e.i)
                   ELSE Behind(e, e.i - 1) /\ Above(e, create_stack'[k + 1])
  BY <1>4, <1>10
<1>14. result' = "running" /\ var' = var /\ result \in {"running"} /\ var \in Values
  BY DEF WrittenOK
<1> HIDE DEF n
<1>15. QED  BY <1>11, <1>12, <1>13, <1>14 DEF WrittenOK, Behind, Above

(* The top of the stack is written, and what is below knows it.            *)
LEMMA EndWritten ==
  ASSUME LayoutOK, WrittenOK, result = "running", Writable[Top.var],
         create_stack' = Front(create_stack), UNCHANGED var,
         result' = IF Len(create_stack) = 1 THEN "done" ELSE result
  PROVE  WrittenOK'
<1> DEFINE n == Len(create_stack)
<1>1. create_stack # <<>> /\ n \in Nat \ {0} /\ Top = create_stack[n] /\ Top \in Elements
  BY StackTop DEF LayoutOK
<1>2. Len(create_stack') = n - 1 /\ \A k \in 1 .. n - 1 : create_stack'[k] = create_stack[k]
  BY <1>1, Popped
<1>3. var \in Values /\ create_stack[1].var = var
  BY DEF WrittenOK
<1>4. ASSUME NEW k \in 1 .. n - 1
      PROVE  LET e == create_stack[k]
             IN  /\ Writable[var] => Writable[e.var]
                 /\ IF k = n - 1 THEN Behind(e, e.i)
                    ELSE Behind(e, e.i - 1) /\ Above(e, create_stack'[k + 1])
  <2> DEFINE e == create_stack[k]
  <2>1. k \in 1 .. n /\ k # n /\ e \in Elements
    BY <1>1, StackTop
  <2>2. /\ Writable[var] => Writable[e.var]
        /\ Behind(e, e.i - 1) /\ Above(e, create_stack[k + 1])
    BY <2>1 DEF WrittenOK
  <2>3. CASE k = n - 1
    <3>1. create_stack[k + 1] = Top
      <4>1. k + 1 = n
        BY <1>1, <2>3
      <4>2. QED  BY <1>1, <4>1
    <3>2. ItemOK(e.var, e.i - 1)
      BY <2>2, <3>1 DEF Above, ItemOK
    <3>3. e.i \in Nat \ {0}
      BY <2>1 DEF Elements
    <3> HIDE DEF e
    <3>4. Behind(e, e.i)
      <4>1. SUFFICES ASSUME e.var[1] \in Containers, NEW j \in 1 .. Len(e.var[2]), j < e.i
                     PROVE  ItemOK(e.var, j)
        BY DEF Behind
      <4>2. CASE j < e.i - 1
        BY <2>2, <4>1, <4>2 DEF Behind
      <4>3. CASE ~(j < e.i - 1)
        <5>1. j = e.i - 1
          BY <3>3, <4>1, <4>3
        <5>2. QED  BY <3>2, <5>1
      <4>4. QED  BY <4>2, <4>3
    <3>5. QED  BY <2>2, <2>3, <3>4 DEF e
  <2>4. CASE k # n - 1
    <3>1. k + 1 \in 1 .. n - 1
      BY <1>1, <2>4
    <3>2. create_stack'[k + 1] = create_stack[k + 1]
      BY <1>2, <3>1
    <3>3. QED  BY <2>2, <2>4, <3>2
  <2>5. QED  BY <2>3, <2>4
<1>5. \A k \in 1 .. Len(create_stack') :
        LET e == create_stack'[k]
        IN  /\ Writable[var] => Writable[e.var]
            /\ IF k = Len(create_stack') THEN Behind(e, e.i)
               ELSE Behind(e, e.i - 1) /\ Above(e, create_stack'[k + 1])
  BY <1>2, <1>4
<1>6. n = 1 => Writable[var]
  BY <1>1, <1>3
<1>7. ASSUME n # 1
      PROVE  create_stack'[1].var = var
  <2>1. n \in Nat \ {0}
    BY <1>1
  <2> HIDE DEF n
  <2>2. 1 \in 1 .. n - 1
    BY <1>7, <2>1
  <2>3. QED  BY <1>2, <1>3, <2>2
<1>8. result' \in {"running", "done"} /\ (result' = "running" <=> n # 1)
  OBVIOUS
<1>9. WrittenOrRefused'
  BY <1>6, <1>8 DEF WrittenOrRefused
<1>10. var' = var
  OBVIOUS
<1> HIDE DEF n
<1>11. QED  BY <1>3, <1>5, <1>7, <1>8, <1>9, <1>10 DEF WrittenOK, Behind, Above

(* A value that cannot be written spoils the one it is part of. *)
LEMMA RefusedRightly ==
  ASSUME LayoutOK, WrittenOK, result = "running", ~Writable[Top.var],
         UNCHANGED <<var, create_stack>>, result' \in {"bad_key", "bad_type"}
  PROVE  WrittenOK'
<1>1. Writable[var] => Writable[Top.var]
  <2>1. create_stack # <<>>
    BY DEF LayoutOK
  <2>2. Len(create_stack) \in 1 .. Len(create_stack) /\ Top = create_stack[Len(create_stack)]
    BY <2>1, StackTop
  <2>3. QED  BY <2>2 DEF WrittenOK
<1>2. var \in Values
  BY DEF WrittenOK
<1>3. WrittenOrRefused'
  BY <1>1 DEF WrittenOrRefused
<1>4. QED  BY <1>2, <1>3 DEF WrittenOK, Behind, Above

LEMMA TurnWrites == LayoutOK /\ WrittenOK /\ Turn => WrittenOK'
<1> SUFFICES ASSUME LayoutOK, WrittenOK, Turn
             PROVE  WrittenOK'
  OBVIOUS
<1>1. result = "running" /\ create_stack # <<>>
  BY DEF Turn, WriteScalar, NextElement, NextPair, BadKey, CloseContainer, Unsupported,
         InContainer, LayoutOK
<1>2. /\ Top.var \in Values /\ Top.i \in Nat \ {0}
      /\ Top = create_stack[Len(create_stack)] /\ Len(create_stack) \in Nat \ {0}
  BY <1>1, StackTop DEF Elements
<1>3. Behind(Top, Top.i)
  <2>1. Len(create_stack) \in 1 .. Len(create_stack)
    BY <1>2
  <2>2. QED  BY <1>2, <2>1 DEF WrittenOK
<1>4. CASE WriteScalar
  <2>1. Top.var[1] \in Atoms /\ Top.var[1] \notin Containers
    BY <1>4 DEF WriteScalar, Atoms, Containers, Sequential
  <2>2. Writable[Top.var]
    BY <1>2, <2>1, WritableIs
  <2>3. QED  BY <1>1, <1>4, <2>2, EndWritten DEF WriteScalar
<1>5. CASE NextElement
  <2>1. Top.var[1] \in Containers /\ Top.var[1] # "dict" /\ ~AtEnd
    BY <1>5 DEF NextElement, InContainer, Sequential
  <2>2. Advance(Child(Top.var, Top.i))
    BY <1>5, <2>1 DEF NextElement, Child, Items
  <2>3. QED  BY <1>1, <1>5, <2>1, <2>2, ElementWritten DEF NextElement
<1>6. CASE NextPair
  <2>1. Top.var[1] \in Containers /\ Top.var[1] = "dict" /\ ~AtEnd
        /\ KeyFits(Items[Top.i][1])
    BY <1>6 DEF NextPair, InContainer
  <2>2. Advance(Child(Top.var, Top.i))
    BY <1>6, <2>1 DEF NextPair, Child, Items
  <2>3. QED  BY <1>1, <1>6, <2>1, <2>2, ElementWritten DEF NextPair
<1>7. CASE BadKey
  <2>1. Top.var[1] \in Containers /\ Top.var[1] = "dict" /\ ~AtEnd
        /\ ~KeyFits(Items[Top.i][1])
    BY <1>7 DEF BadKey, InContainer
  <2>2. Top.i \in 1 .. Len(Top.var[2])
    BY <1>2, <2>1, Holdings DEF AtEnd, Items
  <2>3. ~ItemOK(Top.var, Top.i)
    BY <2>1 DEF ItemOK, Items
  <2>4. ~Writable[Top.var]
    BY <1>2, <2>1, <2>2, <2>3, ChildGood
  <2>5. QED  BY <1>1, <1>7, <2>4, RefusedRightly DEF BadKey
<1>8. CASE CloseContainer
  <2>1. Top.var[1] \in Containers /\ AtEnd
    BY <1>8 DEF CloseContainer, InContainer
  <2>2. \A j \in 1 .. Len(Top.var[2]) : ItemOK(Top.var, j)
    <3>1. Len(Top.var[2]) \in Nat /\ Top.i > Len(Top.var[2])
      BY <1>2, <2>1, Holdings DEF AtEnd, Items
    <3>2. \A j \in 1 .. Len(Top.var[2]) : j < Top.i
      BY <1>2, <3>1
    <3>3. QED  BY <1>3, <2>1, <3>2 DEF Behind
  <2>3. Writable[Top.var]
    BY <1>2, <2>1, <2>2, WritableIs
  <2>4. QED  BY <1>1, <1>8, <2>3, EndWritten DEF CloseContainer
<1>9. CASE Unsupported
  <2>1. ~Writable[Top.var]
    BY <1>2, <1>9, WritableIs DEF Unsupported
  <2>2. QED  BY <1>1, <1>9, <2>1, RefusedRightly DEF Unsupported
<1>10. QED  BY <1>4, <1>5, <1>6, <1>7, <1>8, <1>9 DEF Turn

-----------------------------------------------------------------------------
LEMMA CreateStays == CreateInv /\ UNCHANGED createVars => CreateInv'
<1> SUFFICES ASSUME CreateInv, UNCHANGED createVars
             PROVE  CreateInv'
  OBVIOUS
<1>1. Depth' = Depth
  BY DEF Depth, createVars
<1>2. QED
  BY <1>1 DEF CreateInv, LayoutOK, WrittenOK, FrameOK, Behind, Above, WrittenOrRefused,
              createVars

LEMMA CreateInitInv == Init => CreateInv
<1>1. ASSUME ForeignInit
      PROVE  CreateInv
  <2>1. create_stack = <<>> /\ Len(create_stack) = 0 /\ create_stack \in Seq(Elements)
        /\ strbuf \in Seq(Fitting(0))
    BY <1>1, EmptySeq DEF ForeignInit
  <2>2. Depth = 0
    <3>1. {k \in DOMAIN create_stack :
             /\ create_stack[k].var[1] \in Containers
             /\ ~create_stack[k].init /\ create_stack[k].var[2] # <<>>} = {}
      BY <2>1, LenProperties
    <3>2. QED  BY <3>1, FS_EmptySet DEF Depth
  <2>3. nice = FALSE /\ indent_size = 0 /\ indent_len = 0 /\ result = "foreign"
    BY <1>1 DEF ForeignInit
  <2>4. LayoutOK
    <3>1. nice \in BOOLEAN /\ (nice <=> FALSE)
      BY <2>3
    <3>2. \A k \in 1 .. Len(create_stack) : FrameOK(k)
      BY <2>1
    <3>3. indent_size \in Nat /\ indent_len \in Nat /\ indent_size <= indent_len
      BY <2>3
    <3>4. strbuf \in Seq(Fitting(indent_len))
      BY <2>1, <2>3
    <3>5. QED  BY <2>1, <2>2, <2>3, <3>1, <3>2, <3>3, <3>4 DEF LayoutOK
  <2>5. WrittenOK
    BY <2>1, <2>3 DEF WrittenOK, WrittenOrRefused
  <2>6. QED  BY <2>4, <2>5 DEF CreateInv
<1>2. ASSUME CreateInit
      PROVE  CreateInv
  <2>1. var \in Values /\ nice \in BOOLEAN /\ result = "running" /\ strbuf = <<>>
        /\ indent_size = 0 /\ indent_len = 0 /\ create_stack = <<Elem(var)>>
    BY <1>2 DEF CreateInit
  <2>2. Elem(var) \in Elements /\ Elem(var).init /\ Elem(var).i = 1 /\ Elem(var).var = var
    BY <2>1 DEF Elem, Elements
  <2>3. /\ create_stack \in Seq(Elements) /\ Len(create_stack) = 1
        /\ create_stack # <<>> /\ create_stack[1] = Elem(var)
    BY <2>1, <2>2
  <2>4. Around(create_stack) = 0
    <3>1. /\ 0 \in Nat /\ 0 <= Len(create_stack)
          /\ \A k \in 1 .. Len(create_stack) :
               IF k <= 0 THEN Open(create_stack[k]) ELSE create_stack[k].init
      BY <2>2, <2>3
    <3>2. QED  BY <2>3, <3>1, AroundIs
  <2>5. Depth = 0 /\ TabLen * 0 = 0
    BY <2>4, CreateAssumption DEF Depth, Around
  <2>6. strbuf \in Seq(Fitting(0))
    BY <2>1, EmptySeq
  <2>7. \A k \in 1 .. Len(create_stack) :
          k = 1 /\ FrameOK(k) /\ Behind(create_stack[k], create_stack[k].i)
    BY <2>2, <2>3 DEF FrameOK, Behind
  <2>8. LayoutOK
    BY <2>1, <2>3, <2>5, <2>6, <2>7 DEF LayoutOK
  <2>9. WrittenOK
    BY <2>1, <2>2, <2>3, <2>7 DEF WrittenOK, WrittenOrRefused
  <2>10. QED  BY <2>8, <2>9 DEF CreateInv
<1>3. QED  BY <1>1, <1>2 DEF Init

LEMMA CreateNextInv == CreateInv /\ [Next]_vars => CreateInv'
<1> SUFFICES ASSUME CreateInv, [Next]_vars
             PROVE  CreateInv'
  OBVIOUS
<1>1. CASE UNCHANGED createVars
  BY <1>1, CreateStays
<1>2. CASE Turn
  BY <1>2, TurnLaysOut, TurnWrites DEF CreateInv
<1>3. QED
  BY <1>1, <1>2 DEF Next, Create, FetchWritten, Parse, FetchForeign, vars

THEOREM CreateInvariance == Spec => []CreateInv
  BY CreateInitInv, CreateNextInv, PTL DEF Spec

(* ccljson.cc:270-285: for any value and any tab, what create_nice sends   *)
(* of the indentation buffer is in it, and as long as the containers       *)
(* around it are deep.                                                     *)
THEOREM JsonIndentWithin == Spec => []IndentWithin
<1>1. CreateInv => IndentWithin
  <2> SUFFICES ASSUME CreateInv
               PROVE  IndentWithin
    OBVIOUS
  <2>1. strbuf \in Seq(Fitting(indent_len)) /\ indent_len \in Nat
    BY DEF CreateInv, LayoutOK
  <2>2. \A i \in DOMAIN strbuf : strbuf[i] \in Fitting(indent_len)
    BY <2>1, LenProperties, ElementOfSeq
  <2>3. \A i \in DOMAIN strbuf : strbuf[i][1] = "line" => strbuf[i][2] <= indent_len
    BY <2>1, <2>2 DEF Fitting
  <2>4. QED  BY <2>3 DEF IndentWithin, CreateInv, LayoutOK
<1>2. QED  BY <1>1, CreateInvariance, PTL

(* ccljson.cc:102-469: a value of any depth is written exactly when        *)
(* nothing in it is a set or has a key that is no string.                  *)
THEOREM JsonWrittenOrRefused == Spec => []WrittenOrRefused
<1>1. CreateInv => WrittenOrRefused
  BY DEF CreateInv, WrittenOK
<1>2. QED  BY <1>1, CreateInvariance, PTL

-----------------------------------------------------------------------------
(* The inductive invariant of the parser *)

(* The states that may lie right below one of the state stack.             *)
Below(q) ==
  CASE q = 2 -> {0}
    [] q \in {3, 4, 5} -> {0} \cup ValueStates
    [] q = 7 -> {3}
    [] q \in {8, 9} -> {4}
    [] q = 10 -> {4, 12}
    [] q = 11 -> {4, 12} \cup ValueStates
    [] q = 12 -> {8}
    [] q = 13 -> {10}
    [] q = 14 -> {12}
    [] q = 15 -> {13}
    [] q \in 16 .. 26 -> ValueStates
    [] q = 27 -> {24}
    [] q \in {28, 29} -> {25}
    [] q = 30 -> {28}
    [] q = 31 -> {30}
    [] OTHER -> {}

(* The states of a symbol whose value lies on one of the stacks.           *)
StringStates == {10, 16}
ValuedStates == {15, 29, 31}
ArrayStates == {20, 24, 25}
ObjectStates == {2, 3, 4, 19}

(* How many of the first k states of a stack are in X. *)
Count(X, s, k) == Cardinality({j \in 1 .. k : s[j].state \in X})
High(X) == Count(X, lalr_stack, Len(lalr_stack))

IsSeq(s) == s \in Seq(Range(s))

StatesOK ==
  /\ IsSeq(lalr_stack) /\ Len(lalr_stack) >= 1 /\ lalr_stack[1].state = 0
  /\ \A k \in 1 .. Len(lalr_stack) - 1 :
       /\ lalr_stack[k + 1].state \in States
       /\ lalr_stack[k].state \in Below(lalr_stack[k + 1].state)

(* Each unfinished value has its symbol on the state stack. *)
HeightsOK ==
  /\ IsSeq(strings) /\ Len(strings) = High(StringStates)
  /\ IsSeq(values) /\ Len(values) = High(ValuedStates)
  /\ IsSeq(arrays) /\ Len(arrays) = High(ArrayStates)
  /\ IsSeq(objects) /\ Len(objects) = High(ObjectStates)

ParseInv ==
  /\ StatesOK /\ HeightsOK
  /\ verdict # "fault"
  /\ verdict = "done" => State = 2

-----------------------------------------------------------------------------
(* Sequences of whatever they hold, and counting in them *)

LEMMA SeqIs ==
  ASSUME NEW S, NEW s \in Seq(S)
  PROVE  IsSeq(s) /\ Len(s) \in Nat /\ (s = <<>> <=> Len(s) = 0)
BY SeqOfRange, LenProperties, EmptySeq DEF IsSeq

LEMMA SeqFacts ==
  ASSUME NEW s, IsSeq(s)
  PROVE  Len(s) \in Nat /\ (s = <<>> <=> Len(s) = 0)
BY SeqIs DEF IsSeq

LEMMA SeqAppend ==
  ASSUME NEW s, IsSeq(s), NEW e
  PROVE  /\ IsSeq(Append(s, e)) /\ Len(Append(s, e)) = Len(s) + 1
         /\ \A k \in 1 .. Len(s) : Append(s, e)[k] = s[k]
         /\ Append(s, e)[Len(s) + 1] = e
<1> DEFINE S == Range(s) \cup {e}
<1>1. s \in Seq(S) /\ e \in S
  <2>1. Range(s) \subseteq S /\ s \in Seq(Range(s))
    BY DEF IsSeq
  <2> HIDE DEF S
  <2>2. s \in Seq(S)
    BY <2>1, SeqMonotonic
  <2>3. QED  BY <2>2 DEF S
<1> HIDE DEF S
<1>2. /\ Append(s, e) \in Seq(S) /\ Len(Append(s, e)) = Len(s) + 1
      /\ \A k \in 1 .. Len(s) : Append(s, e)[k] = s[k]
      /\ Append(s, e)[Len(s) + 1] = e
  BY <1>1, AppendProperties
<1>3. IsSeq(Append(s, e))
  BY <1>2, SeqIs
<1>4. QED  BY <1>2, <1>3

LEMMA SeqPrefix ==
  ASSUME NEW s, IsSeq(s), NEW m \in 0 .. Len(s)
  PROVE  /\ IsSeq(SubSeq(s, 1, m)) /\ Len(SubSeq(s, 1, m)) = m
         /\ \A k \in 1 .. m : SubSeq(s, 1, m)[k] = s[k]
<1> DEFINE S == Range(s)
<1>1. s \in Seq(S) /\ Len(s) \in Nat /\ m \in Int
  BY SeqFacts DEF IsSeq
<1>2. \A k \in 1 .. m : s[k] \in S
  BY <1>1, ElementOfSeq
<1> HIDE DEF S
<1>3. /\ SubSeq(s, 1, m) \in Seq(S)
      /\ Len(SubSeq(s, 1, m)) = IF 1 <= m THEN m - 1 + 1 ELSE 0
      /\ \A k \in 1 .. m - 1 + 1 : SubSeq(s, 1, m)[k] = s[1 + k - 1]
  BY <1>1, <1>2, SubSeqProperties
<1>4. \A k \in 1 .. m : 1 + k - 1 = k /\ k \in 1 .. m - 1 + 1
  BY <1>1
<1>5. (IF 1 <= m THEN m - 1 + 1 ELSE 0) = m
  BY <1>1
<1>6. \A k \in 1 .. m : SubSeq(s, 1, m)[k] = s[k]
  BY <1>3, <1>4
<1>7. IsSeq(SubSeq(s, 1, m))
  BY <1>3, SeqIs
<1>8. Len(SubSeq(s, 1, m)) = m
  BY <1>3, <1>5
<1>9. QED  BY <1>6, <1>7, <1>8

LEMMA SeqFront ==
  ASSUME NEW s, IsSeq(s), s # <<>>
  PROVE  IsSeq(Front(s)) /\ Len(Front(s)) = Len(s) - 1 /\ Len(s) - 1 \in Nat
<1>1. Len(s) \in Nat /\ Len(s) # 0
  BY SeqFacts
<1>2. Len(s) - 1 \in 0 .. Len(s)
  BY <1>1
<1>3. IsSeq(SubSeq(s, 1, Len(s) - 1)) /\ Len(SubSeq(s, 1, Len(s) - 1)) = Len(s) - 1
  BY <1>2, SeqPrefix
<1>4. QED  BY <1>1, <1>3 DEF Front

LEMMA CountNext ==
  ASSUME NEW X, NEW s, NEW k \in Nat
  PROVE  /\ Count(X, s, k) \in Nat
         /\ Count(X, s, k + 1) = Count(X, s, k) + (IF s[k + 1].state \in X THEN 1 ELSE 0)
<1> DEFINE S == {j \in 1 .. k : s[j].state \in X}
           T == {j \in 1 .. k + 1 : s[j].state \in X}
<1>1. IsFiniteSet(1 .. k)
  BY FS_Interval
<1>2. S \subseteq 1 .. k
  OBVIOUS
<1>3. IsFiniteSet(S) /\ Cardinality(S) \in Nat
  <2> HIDE DEF S
  <2>1. IsFiniteSet(S)
    BY <1>1, <1>2, FS_Subset
  <2>2. QED  BY <2>1, FS_CardinalityType
<1>4. k + 1 \notin S
  OBVIOUS
<1>5. T = IF s[k + 1].state \in X THEN S \cup {k + 1} ELSE S
  OBVIOUS
<1> HIDE DEF S, T
<1>6. Cardinality(S \cup {k + 1}) = Cardinality(S) + 1
  BY <1>3, <1>4, FS_AddElement
<1>7. Cardinality(T) = Cardinality(S) + (IF s[k + 1].state \in X THEN 1 ELSE 0)
  BY <1>3, <1>5, <1>6
<1>8. QED  BY <1>3, <1>7 DEF Count, S, T

LEMMA CountSame ==
  ASSUME NEW X, NEW s, NEW t, NEW k, \A j \in 1 .. k : s[j].state = t[j].state
  PROVE  Count(X, s, k) = Count(X, t, k)
BY DEF Count

LEMMA CountSome ==
  ASSUME NEW X, NEW s, NEW k \in Nat, NEW j \in 1 .. k, s[j].state \in X
  PROVE  Count(X, s, k) \in Nat \ {0}
<1> DEFINE S == {i \in 1 .. k : s[i].state \in X}
<1>1. IsFiniteSet(1 .. k) /\ S \subseteq 1 .. k /\ S # {}
  BY FS_Interval
<1>2. IsFiniteSet(S)
  <2> HIDE DEF S
  <2>1. QED  BY <1>1, FS_Subset
<1>3. Cardinality(S) \in Nat /\ Cardinality(S) # 0
  <2> HIDE DEF S
  <2>1. QED  BY <1>1, <1>2, FS_CardinalityType, FS_EmptySet
<1>4. QED  BY <1>3 DEF Count

-----------------------------------------------------------------------------
(* The table *)

LEMMA ShiftRows ==
  /\ \A p, q : \A k : <<p, k, q>> \in Shift => p \in Below(q) \/ k = "eof"
  /\ \A p, q : <<p, "eof", q>> \in Shift => p = 2
<1>1. DOMAIN ValueShift = {"str", "int", "flt", "true", "false", "null", "lbrace", "lbrack"}
  BY DEF ValueShift
<1>2. \A k \in DOMAIN ValueShift :
        ValueShift[k] \in {5, 11, 17, 18, 21, 22, 23, 26} /\ k # "eof"
  BY <1>1 DEF ValueShift
<1>3. \A p \in ValueStates : \A q \in {5, 11, 17, 18, 21, 22, 23, 26} : p \in Below(q)
  BY DEF Below
<1>4. ASSUME NEW p, NEW q, NEW k, <<p, k, q>> \in Shift
      PROVE  (p \in Below(q) /\ k # "eof") \/ (k = "eof" /\ p = 2)
  <2>1. CASE p \in ValueStates /\ k \in DOMAIN ValueShift /\ q = ValueShift[k]
    BY <1>2, <1>3, <2>1
  <2>2. CASE <<p, k, q>> \in
    {<<0, "lbrace", 5>>, <<2, "eof", 6>>, <<3, "rbrace", 7>>, <<4, "str", 11>>,
     <<8, "comma", 12>>, <<10, "colon", 13>>, <<12, "str", 11>>, <<24, "rbrack", 27>>,
     <<28, "comma", 30>>}
    BY <2>2 DEF Below
  <2>3. QED  BY <1>4, <2>1, <2>2 DEF Shift
<1>5. QED  BY <1>4

(* Where each symbol goes from where. *)
GoesFrom(p, q) ==
  /\ <<p, "object", q>> \in Goto <=> (p = 0 /\ q = 2) \/ (p \in ValueStates /\ q = 19)
  /\ <<p, "object_body", q>> \in Goto <=> p \in {0} \cup ValueStates /\ q = 3
  /\ <<p, "object_begin", q>> \in Goto <=> p \in {0} \cup ValueStates /\ q = 4
  /\ <<p, "pairs", q>> \in Goto <=> p = 4 /\ q = 8
  /\ <<p, "pair", q>> \in Goto <=> (p = 4 /\ q = 9) \/ (p = 12 /\ q = 14)
  /\ <<p, "array", q>> \in Goto <=> p \in ValueStates /\ q = 20
  /\ <<p, "array_body", q>> \in Goto <=> p \in ValueStates /\ q = 24
  /\ <<p, "array_begin", q>> \in Goto <=> p \in ValueStates /\ q = 25
  /\ <<p, "values", q>> \in Goto <=> p = 25 /\ q = 28
  /\ <<p, "value", q>> \in Goto <=>
       (p = 13 /\ q = 15) \/ (p = 25 /\ q = 29) \/ (p = 30 /\ q = 31)
  /\ <<p, "string", q>> \in Goto <=>
       (p \in {4, 12} /\ q = 10) \/ (p \in ValueStates /\ q = 16)

LEMMA GotoRows ==
  ASSUME NEW p, NEW q
  PROVE  GoesFrom(p, q)
<1>1. DOMAIN ValueGoto = {"object", "object_body", "object_begin", "array", "array_body",
                         "array_begin", "string"}
  BY DEF ValueGoto
<1>2. /\ ValueGoto["object"] = 19 /\ ValueGoto["object_body"] = 3
      /\ ValueGoto["object_begin"] = 4 /\ ValueGoto["array"] = 20
      /\ ValueGoto["array_body"] = 24 /\ ValueGoto["array_begin"] = 25
      /\ ValueGoto["string"] = 16
  BY DEF ValueGoto
<1> DEFINE own ==
  {<<0, "start", 1>>, <<0, "object", 2>>, <<0, "object_body", 3>>, <<0, "object_begin", 4>>,
   <<4, "pairs", 8>>, <<4, "pair", 9>>, <<4, "string", 10>>, <<12, "pair", 14>>,
   <<12, "string", 10>>, <<13, "value", 15>>, <<25, "values", 28>>, <<25, "value", 29>>,
   <<30, "value", 31>>}
<1>3. \A h : <<p, h, q>> \in Goto <=>
               \/ <<p, h, q>> \in own
               \/ p \in ValueStates /\ h \in DOMAIN ValueGoto /\ q = ValueGoto[h]
  BY DEF Goto
<1>4. QED  BY <1>1, <1>2, <1>3 DEF GoesFrom, ValueStates

GoesTo(p, h, q) == \A r : <<p, h, r>> \in Goto <=> r = q

LEMMA GoesToOne ==
  /\ GoesTo(0, "object", 2)
  /\ \A p \in ValueStates : GoesTo(p, "object", 19)
  /\ \A p \in {0} \cup ValueStates : GoesTo(p, "object_body", 3) /\ GoesTo(p, "object_begin", 4)
  /\ GoesTo(4, "pairs", 8)
  /\ GoesTo(4, "pair", 9) /\ GoesTo(12, "pair", 14)
  /\ \A p \in ValueStates : /\ GoesTo(p, "array", 20) /\ GoesTo(p, "array_body", 24)
                            /\ GoesTo(p, "array_begin", 25)
  /\ GoesTo(25, "values", 28)
  /\ GoesTo(13, "value", 15) /\ GoesTo(25, "value", 29) /\ GoesTo(30, "value", 31)
  /\ GoesTo(4, "string", 10) /\ GoesTo(12, "string", 10)
  /\ \A p \in ValueStates : GoesTo(p, "string", 16)
<1>1. ASSUME NEW r, NEW p \in ValueStates
      PROVE  /\ <<p, "object", r>> \in Goto <=> r = 19
             /\ <<p, "object_body", r>> \in Goto <=> r = 3
             /\ <<p, "object_begin", r>> \in Goto <=> r = 4
             /\ <<p, "array", r>> \in Goto <=> r = 20
             /\ <<p, "array_body", r>> \in Goto <=> r = 24
             /\ <<p, "array_begin", r>> \in Goto <=> r = 25
             /\ <<p, "string", r>> \in Goto <=> r = 16
  <2>1. GoesFrom(p, r)
    BY GotoRows
  <2>2. QED  BY <2>1 DEF GoesFrom, ValueStates
<1>2. ASSUME NEW r
      PROVE  /\ <<0, "object", r>> \in Goto <=> r = 2
             /\ <<0, "object_body", r>> \in Goto <=> r = 3
             /\ <<0, "object_begin", r>> \in Goto <=> r = 4
             /\ <<4, "pairs", r>> \in Goto <=> r = 8
             /\ <<4, "pair", r>> \in Goto <=> r = 9
             /\ <<4, "string", r>> \in Goto <=> r = 10
             /\ <<12, "pair", r>> \in Goto <=> r = 14
             /\ <<12, "string", r>> \in Goto <=> r = 10
             /\ <<13, "value", r>> \in Goto <=> r = 15
             /\ <<25, "values", r>> \in Goto <=> r = 28
             /\ <<25, "value", r>> \in Goto <=> r = 29
             /\ <<30, "value", r>> \in Goto <=> r = 31
  <2>1. /\ GoesFrom(0, r) /\ GoesFrom(4, r) /\ GoesFrom(12, r) /\ GoesFrom(13, r)
        /\ GoesFrom(25, r) /\ GoesFrom(30, r)
    BY GotoRows
  <2>2. QED  BY <2>1 DEF GoesFrom, ValueStates
<1>3. QED  BY <1>1, <1>2 DEF GoesTo

LEMMA ToIs ==
  ASSUME NEW table, NEW s, NEW k, NEW q \in States, <<s, k, q>> \in table,
         \A r : <<s, k, r>> \in table => r = q
  PROVE  Has(table, s, k) /\ To(table, s, k) = q
BY DEF Has, To

-----------------------------------------------------------------------------
(* Pushing and popping states *)

At(k) == lalr_stack[k].state

LEMMA TopState ==
  ASSUME StatesOK
  PROVE  /\ Len(lalr_stack) \in Nat \ {0} /\ State = At(Len(lalr_stack))
         /\ IsSeq(lalr_stack)
BY SeqFacts DEF StatesOK, State, At, Last

(* One state down: what lies there, and what is counted less.              *)
LEMMA Down ==
  ASSUME StatesOK, NEW k \in 1 .. Len(lalr_stack), At(k) # 0
  PROVE  /\ k - 1 \in 1 .. Len(lalr_stack) /\ At(k) \in States
         /\ At(k - 1) \in Below(At(k))
         /\ \A X : /\ Count(X, lalr_stack, k - 1) \in Nat
                   /\ Count(X, lalr_stack, k) =
                        Count(X, lalr_stack, k - 1) + (IF At(k) \in X THEN 1 ELSE 0)
<1>1. Len(lalr_stack) \in Nat
  BY TopState
<1>2. k # 1
  BY DEF StatesOK, At
<1>3. k - 1 \in 1 .. Len(lalr_stack) - 1 /\ (k - 1) + 1 = k /\ k - 1 \in Nat
      /\ k - 1 \in 1 .. Len(lalr_stack)
  BY <1>1, <1>2
<1>4. /\ lalr_stack[(k - 1) + 1].state \in States
      /\ lalr_stack[k - 1].state \in Below(lalr_stack[(k - 1) + 1].state)
  BY <1>3 DEF StatesOK
<1>5. At(k) \in States /\ At(k - 1) \in Below(At(k))
  BY <1>3, <1>4 DEF At
<1>6. ASSUME NEW X
      PROVE  /\ Count(X, lalr_stack, k - 1) \in Nat
             /\ Count(X, lalr_stack, k) =
                  Count(X, lalr_stack, k - 1) + (IF At(k) \in X THEN 1 ELSE 0)
  <2> DEFINE j == k - 1
  <2>1. j \in Nat /\ j + 1 = k
    BY <1>3
  <2> HIDE DEF j
  <2>2. /\ Count(X, lalr_stack, j) \in Nat
        /\ Count(X, lalr_stack, j + 1) =
             Count(X, lalr_stack, j) + (IF lalr_stack[j + 1].state \in X THEN 1 ELSE 0)
    BY <2>1, CountNext
  <2>3. QED  BY <2>1, <2>2 DEF j, At
<1>7. QED  BY <1>3, <1>5, <1>6

LEMMA StatePushed ==
  ASSUME StatesOK, NEW m \in 1 .. Len(lalr_stack), NEW q \in States, NEW x,
         lalr_stack' = Append(SubSeq(lalr_stack, 1, m), [state |-> q, term |-> x]),
         At(m) \in Below(q)
  PROVE  /\ StatesOK' /\ State' = q
         /\ \A X : High(X)' = Count(X, lalr_stack, m) + (IF q \in X THEN 1 ELSE 0)
<1> DEFINE r == SubSeq(lalr_stack, 1, m)
           e == [state |-> q, term |-> x]
<1>1. Len(lalr_stack) \in Nat /\ m \in 0 .. Len(lalr_stack) /\ m \in Nat \ {0}
  BY TopState
<1>2. IsSeq(r) /\ Len(r) = m /\ \A k \in 1 .. m : r[k] = lalr_stack[k]
  BY <1>1, TopState, SeqPrefix
<1> HIDE DEF r
<1>3. /\ IsSeq(Append(r, e)) /\ Len(Append(r, e)) = m + 1
      /\ \A k \in 1 .. m : Append(r, e)[k] = r[k]
      /\ Append(r, e)[m + 1] = e
  BY <1>2, SeqAppend
<1>4. lalr_stack' = Append(r, e) /\ e.state = q
  BY DEF r
<1> HIDE DEF e
<1>5. /\ IsSeq(lalr_stack') /\ Len(lalr_stack') = m + 1
      /\ \A k \in 1 .. m : lalr_stack'[k] = lalr_stack[k]
      /\ lalr_stack'[m + 1].state = q
  BY <1>2, <1>3, <1>4
<1>6. StatesOK'
  <2>1. Len(lalr_stack') >= 1 /\ 1 \in 1 .. m
    BY <1>1, <1>5
  <2>2. lalr_stack'[1].state = 0
    BY <1>5, <2>1 DEF StatesOK
  <2>3. ASSUME NEW k \in 1 .. Len(lalr_stack') - 1
        PROVE  /\ lalr_stack'[k + 1].state \in States
               /\ lalr_stack'[k].state \in Below(lalr_stack'[k + 1].state)
    <3>1. k \in 1 .. m
      BY <1>1, <1>5, <2>3
    <3>2. CASE k = m
      BY <1>5, <3>1, <3>2 DEF At
    <3>3. CASE k # m
      <4>1. k + 1 \in 1 .. m /\ k \in 1 .. Len(lalr_stack) - 1
        BY <1>1, <3>1, <3>3
      <4>2. /\ lalr_stack[k + 1].state \in States
            /\ lalr_stack[k].state \in Below(lalr_stack[k + 1].state)
        BY <4>1 DEF StatesOK
      <4>3. lalr_stack'[k] = lalr_stack[k] /\ lalr_stack'[k + 1] = lalr_stack[k + 1]
        BY <1>5, <3>1, <4>1
      <4>4. QED  BY <4>2, <4>3
    <3>4. QED  BY <3>2, <3>3
  <2>4. QED  BY <1>5, <2>1, <2>2, <2>3 DEF StatesOK
<1>7. ASSUME NEW X
      PROVE  Count(X, lalr_stack', Len(lalr_stack')) =
               Count(X, lalr_stack, m) + (IF q \in X THEN 1 ELSE 0)
  <2>1. PICK s : s = lalr_stack'
    OBVIOUS
  <2>2. Count(X, s, m) = Count(X, lalr_stack, m)
    <3>1. \A k \in 1 .. m : s[k].state = lalr_stack[k].state
      BY <1>5, <2>1
    <3>2. QED  BY <3>1, CountSame
  <2>3. m \in Nat
    BY <1>1
  <2>4. Count(X, s, m + 1) = Count(X, s, m) + (IF s[m + 1].state \in X THEN 1 ELSE 0)
    BY <2>3, CountNext
  <2>5. QED  BY <1>5, <2>1, <2>2, <2>4
<1>8. State' = q
  BY <1>5 DEF State, Last
<1>9. QED  BY <1>6, <1>7, <1>8 DEF High

-----------------------------------------------------------------------------
(* The parse actions and the heights of their stacks *)

StringGain(rule) == IF rule = 23 THEN 1 ELSE IF rule \in {8, 15} THEN -1 ELSE 0
ValueGain(rule) == IF rule \in 15 .. 22 THEN 1 ELSE IF rule \in {8, 13, 14} THEN -1 ELSE 0
ArrayGain(rule) == IF rule = 12 THEN 1 ELSE IF rule = 19 THEN -1 ELSE 0
ObjectGain(rule) == IF rule = 5 THEN 1 ELSE IF rule = 18 THEN -1 ELSE 0

AllSeqs == IsSeq(strings) /\ IsSeq(values) /\ IsSeq(arrays) /\ IsSeq(objects)

LEMMA SeqReplaced ==
  ASSUME NEW s, IsSeq(s), s # <<>>, NEW e
  PROVE  IsSeq(Append(Front(s), e)) /\ Len(Append(Front(s), e)) = Len(s)
<1>1. IsSeq(Front(s)) /\ Len(Front(s)) = Len(s) - 1
  BY SeqFront
<1>2. IsSeq(Append(Front(s), e)) /\ Len(Append(Front(s), e)) = Len(Front(s)) + 1
  BY <1>1, SeqAppend
<1>3. Len(s) \in Nat
  BY SeqFacts
<1>4. QED  BY <1>1, <1>2, <1>3

LEMMA ActionGains ==
  ASSUME AllSeqs, NEW rule \in 0 .. 23, Needs(rule), ParseAction(rule)
  PROVE  /\ AllSeqs'
         /\ Len(strings') = Len(strings) + StringGain(rule)
         /\ Len(values') = Len(values) + ValueGain(rule)
         /\ Len(arrays') = Len(arrays) + ArrayGain(rule)
         /\ Len(objects') = Len(objects) + ObjectGain(rule)
<1>1. /\ Len(strings) \in Nat /\ Len(values) \in Nat
      /\ Len(arrays) \in Nat /\ Len(objects) \in Nat
      /\ IsSeq(strings) /\ IsSeq(values) /\ IsSeq(arrays) /\ IsSeq(objects)
  BY SeqFacts DEF AllSeqs
<1>2. CASE rule = 5 /\ ObjectBegin
  BY <1>1, <1>2, SeqAppend
     DEF AllSeqs, ObjectBegin, StringGain, ValueGain, ArrayGain, ObjectGain
<1>3. CASE rule = 8 /\ ObjectPair
  <2>1. objects # <<>> /\ strings # <<>> /\ values # <<>>
    BY <1>3 DEF Needs
  <2>2. QED
    BY <1>1, <1>3, <2>1, SeqReplaced, SeqFront
       DEF AllSeqs, ObjectPair, StringGain, ValueGain, ArrayGain, ObjectGain
<1>4. CASE rule = 12 /\ ArrayBegin
  BY <1>1, <1>4, SeqAppend
     DEF AllSeqs, ArrayBegin, StringGain, ValueGain, ArrayGain, ObjectGain
<1>5. CASE rule \in {13, 14} /\ ArrayValue
  <2>1. arrays # <<>> /\ values # <<>>
    BY <1>5 DEF Needs
  <2>2. QED
    BY <1>1, <1>5, <2>1, SeqReplaced, SeqFront
       DEF AllSeqs, ArrayValue, StringGain, ValueGain, ArrayGain, ObjectGain
<1>6. CASE rule = 15 /\ ValString
  <2>1. strings # <<>>
    BY <1>6 DEF Needs
  <2>2. QED
    BY <1>1, <1>6, <2>1, SeqAppend, SeqFront
       DEF AllSeqs, ValString, StringGain, ValueGain, ArrayGain, ObjectGain
<1>7. CASE rule \in {16, 17, 20, 21, 22} /\ ValScalar
  BY <1>1, <1>7, SeqAppend
     DEF AllSeqs, ValScalar, StringGain, ValueGain, ArrayGain, ObjectGain
<1>8. CASE rule = 18 /\ ValObject
  <2>1. objects # <<>>
    BY <1>8 DEF Needs
  <2>2. QED
    BY <1>1, <1>8, <2>1, SeqAppend, SeqFront
       DEF AllSeqs, ValObject, StringGain, ValueGain, ArrayGain, ObjectGain
<1>9. CASE rule = 19 /\ ValArray
  <2>1. arrays # <<>>
    BY <1>9 DEF Needs
  <2>2. QED
    BY <1>1, <1>9, <2>1, SeqAppend, SeqFront
       DEF AllSeqs, ValArray, StringGain, ValueGain, ArrayGain, ObjectGain
<1>10. CASE rule = 23 /\ PaString
  BY <1>1, <1>10, SeqAppend
     DEF AllSeqs, PaString, StringGain, ValueGain, ArrayGain, ObjectGain
<1>11. CASE rule \in {0, 1, 2, 3, 4, 6, 7, 9, 10, 11}
            /\ UNCHANGED <<strings, values, arrays, objects>>
  BY <1>1, <1>11 DEF AllSeqs, StringGain, ValueGain, ArrayGain, ObjectGain
<1>12. QED
  BY <1>2, <1>3, <1>4, <1>5, <1>6, <1>7, <1>8, <1>9, <1>10, <1>11 DEF ParseAction

-----------------------------------------------------------------------------
(* One reduction *)

Weight(X, a) == IF a \in X THEN 1 ELSE 0

(* What a rule puts on the stack counts what it takes off and what its     *)
(* action gains; the state 0 counts for nothing.                           *)
Worth(rule, q, a, b, c) ==
  LET Equal(X, gain) == Weight(X, q) = Weight(X, a) + Weight(X, b) + Weight(X, c) + gain
  IN  /\ Equal(StringStates, StringGain(rule)) /\ Equal(ValuedStates, ValueGain(rule))
      /\ Equal(ArrayStates, ArrayGain(rule)) /\ Equal(ObjectStates, ObjectGain(rule))

(* The states taken off leave the first m. *)
Taken(m, a, b, c) ==
  \A X : /\ Count(X, lalr_stack, m) \in Nat
         /\ (0 \notin X) => High(X) = Count(X, lalr_stack, m)
                                       + Weight(X, a) + Weight(X, b) + Weight(X, c)

LEMMA Taken1 ==
  ASSUME StatesOK, NEW n, n = Len(lalr_stack), State # 0
  PROVE  /\ n - 1 \in 1 .. n /\ At(n - 1) \in Below(State)
         /\ Taken(n - 1, State, 0, 0)
<1>1. n \in Nat \ {0} /\ State = At(n) /\ n \in 1 .. Len(lalr_stack)
  BY TopState
<1>2. /\ n - 1 \in 1 .. n /\ At(n - 1) \in Below(State)
      /\ \A X : /\ Count(X, lalr_stack, n - 1) \in Nat
                /\ Count(X, lalr_stack, n) =
                     Count(X, lalr_stack, n - 1) + (IF At(n) \in X THEN 1 ELSE 0)
  BY <1>1, Down
<1>3. ASSUME NEW X, 0 \notin X
      PROVE  High(X) = Count(X, lalr_stack, n - 1) + Weight(X, State)
                         + Weight(X, 0) + Weight(X, 0)
  <2>1. Count(X, lalr_stack, n - 1) \in Nat
        /\ High(X) = Count(X, lalr_stack, n - 1) + Weight(X, State)
    BY <1>1, <1>2 DEF High, Weight
  <2>2. Weight(X, 0) = 0 /\ Weight(X, State) \in Nat
    BY <1>3 DEF Weight
  <2>3. QED  BY <2>1, <2>2
<1>4. QED  BY <1>2, <1>3 DEF Taken

LEMMA Taken2 ==
  ASSUME StatesOK, NEW n, n = Len(lalr_stack), State # 0, At(n - 1) # 0
  PROVE  /\ n - 2 \in 1 .. n /\ At(n - 2) \in Below(At(n - 1))
         /\ Taken(n - 2, State, At(n - 1), 0)
<1> DEFINE k == n - 1
<1>1. n \in Nat \ {0} /\ k \in 1 .. n /\ Taken(k, State, 0, 0)
  BY Taken1, TopState
<1>2. /\ k - 1 \in 1 .. n /\ At(k - 1) \in Below(At(k))
      /\ \A X : /\ Count(X, lalr_stack, k - 1) \in Nat
                /\ Count(X, lalr_stack, k) =
                     Count(X, lalr_stack, k - 1) + (IF At(k) \in X THEN 1 ELSE 0)
  BY <1>1, Down
<1>3. k - 1 = n - 2
  BY <1>1
<1> HIDE DEF k
<1>4. ASSUME NEW X
      PROVE  /\ Count(X, lalr_stack, k - 1) \in Nat
             /\ 0 \notin X => High(X) = Count(X, lalr_stack, k - 1) + Weight(X, State)
                                         + Weight(X, At(k)) + Weight(X, 0)
  <2>1. /\ Count(X, lalr_stack, k - 1) \in Nat
        /\ Count(X, lalr_stack, k) = Count(X, lalr_stack, k - 1) + Weight(X, At(k))
    BY <1>2 DEF Weight
  <2>2. 0 \notin X => High(X) = Count(X, lalr_stack, k) + Weight(X, State)
                                + Weight(X, 0) + Weight(X, 0)
    BY <1>1 DEF Taken
  <2>3. /\ 0 \notin X => Weight(X, 0) = 0
        /\ Weight(X, State) \in Nat /\ Weight(X, At(k)) \in Nat
    BY DEF Weight
  <2>4. QED  BY <2>1, <2>2, <2>3
<1>5. Taken(k - 1, State, At(k), 0)
  BY <1>4 DEF Taken
<1>6. QED  BY <1>2, <1>3, <1>5 DEF k

LEMMA Taken3 ==
  ASSUME StatesOK, NEW n, n = Len(lalr_stack), State # 0, At(n - 1) # 0, At(n - 2) # 0
  PROVE  /\ n - 3 \in 1 .. n /\ At(n - 3) \in Below(At(n - 2))
         /\ Taken(n - 3, State, At(n - 1), At(n - 2))
<1> DEFINE k == n - 2
<1>1. n \in Nat \ {0} /\ k \in 1 .. n /\ Taken(k, State, At(n - 1), 0)
  BY Taken2, TopState
<1>2. /\ k - 1 \in 1 .. n /\ At(k - 1) \in Below(At(k))
      /\ \A X : /\ Count(X, lalr_stack, k - 1) \in Nat
                /\ Count(X, lalr_stack, k) =
                     Count(X, lalr_stack, k - 1) + (IF At(k) \in X THEN 1 ELSE 0)
  BY <1>1, Down
<1>3. k - 1 = n - 3
  BY <1>1
<1> HIDE DEF k
<1>4. ASSUME NEW X
      PROVE  /\ Count(X, lalr_stack, k - 1) \in Nat
             /\ 0 \notin X => High(X) = Count(X, lalr_stack, k - 1) + Weight(X, State)
                                         + Weight(X, At(n - 1)) + Weight(X, At(k))
  <2>1. /\ Count(X, lalr_stack, k - 1) \in Nat
        /\ Count(X, lalr_stack, k) = Count(X, lalr_stack, k - 1) + Weight(X, At(k))
    BY <1>2 DEF Weight
  <2>2. 0 \notin X => High(X) = Count(X, lalr_stack, k) + Weight(X, State)
                                + Weight(X, At(n - 1)) + Weight(X, 0)
    BY <1>1 DEF Taken
  <2>3. /\ 0 \notin X => Weight(X, 0) = 0
        /\ Weight(X, State) \in Nat /\ Weight(X, At(k)) \in Nat
        /\ Weight(X, At(n - 1)) \in Nat
    BY DEF Weight
  <2>4. QED  BY <2>1, <2>2, <2>3
<1>5. Taken(k - 1, State, At(n - 1), At(k))
  BY <1>4 DEF Taken
<1>6. QED  BY <1>2, <1>3, <1>5 DEF k

(* A symbol with a value is on the state stack: its stack is not empty. *)
LEMMA NotEmpty ==
  ASSUME StatesOK, HeightsOK, NEW k \in 1 .. Len(lalr_stack)
  PROVE  /\ At(k) \in StringStates => strings # <<>>
         /\ At(k) \in ValuedStates => values # <<>>
         /\ At(k) \in ArrayStates => arrays # <<>>
         /\ At(k) \in ObjectStates => objects # <<>>
<1>1. Len(lalr_stack) \in Nat
  BY TopState
<1>2. ASSUME NEW X, At(k) \in X
      PROVE  High(X) # 0
  BY <1>1, <1>2, CountSome DEF High, At
<1>3. QED  BY <1>2, SeqFacts DEF HeightsOK

(* A reduction whose body is on top and whose symbol goes to q.            *)
LEMMA Reduced ==
  ASSUME StatesOK, HeightsOK, NEW rule \in 0 .. 23, NEW m \in 1 .. Len(lalr_stack),
         Len(lalr_stack) - RuleLength[rule + 1] = m,
         NEW q \in States, NEW h, RuleHead[rule + 1] = h,
         \A r : <<At(m), h, r>> \in Goto <=> r = q,
         At(m) \in Below(q), Needs(rule), DoReduceBy(rule),
         NEW a, NEW b, NEW c, Taken(m, a, b, c), Worth(rule, q, a, b, c)
  PROVE  StatesOK' /\ HeightsOK' /\ UNCHANGED verdict
<1>1. Rest(rule) = SubSeq(lalr_stack, 1, m)
  BY DEF Rest
<1>2. Len(lalr_stack) \in Nat \ {0} /\ IsSeq(lalr_stack) /\ m \in 0 .. Len(lalr_stack)
      /\ m \in 1 .. m
  BY TopState
<1>3. /\ IsSeq(Rest(rule)) /\ Len(Rest(rule)) = m
      /\ \A k \in 1 .. m : Rest(rule)[k] = lalr_stack[k]
  BY <1>1, <1>2, SeqPrefix
<1>4. Rest(rule) # <<>> /\ Last(Rest(rule)).state = At(m)
  BY <1>2, <1>3, SeqFacts DEF Last, At
<1>5. Has(Goto, At(m), h) /\ To(Goto, At(m), h) = q
  <2>1. <<At(m), h, q>> \in Goto /\ \A r : <<At(m), h, r>> \in Goto => r = q
    OBVIOUS
  <2>2. QED  BY <2>1, ToIs
<1>6. Fits(rule)
  BY <1>4, <1>5 DEF Fits
<1>7. /\ ParseAction(rule) /\ UNCHANGED verdict
      /\ lalr_stack' = Append(SubSeq(lalr_stack, 1, m), [state |-> q, term |-> NoTerm])
  BY <1>1, <1>4, <1>5, <1>6 DEF DoReduceBy
<1>8. /\ StatesOK'
      /\ \A X : High(X)' = Count(X, lalr_stack, m) + Weight(X, q)
  BY <1>7, StatePushed DEF Weight
<1>9. /\ AllSeqs'
      /\ Len(strings') = Len(strings) + StringGain(rule)
      /\ Len(values') = Len(values) + ValueGain(rule)
      /\ Len(arrays') = Len(arrays) + ArrayGain(rule)
      /\ Len(objects') = Len(objects) + ObjectGain(rule)
  <2>1. AllSeqs
    BY DEF AllSeqs, HeightsOK
  <2>2. QED  BY <1>7, <2>1, ActionGains
<1>10. ASSUME NEW X, 0 \notin X, NEW gain \in Int,
              Weight(X, q) = Weight(X, a) + Weight(X, b) + Weight(X, c) + gain
       PROVE  High(X)' = High(X) + gain
  <2>1. /\ Count(X, lalr_stack, m) \in Nat
        /\ High(X) = Count(X, lalr_stack, m) + Weight(X, a) + Weight(X, b) + Weight(X, c)
    BY <1>10 DEF Taken
  <2>2. Weight(X, a) \in Nat /\ Weight(X, b) \in Nat /\ Weight(X, c) \in Nat
    BY DEF Weight
  <2>3. High(X)' = Count(X, lalr_stack, m) + Weight(X, q)
    BY <1>8
  <2>4. QED  BY <1>10, <2>1, <2>2, <2>3
<1>11. /\ StringGain(rule) \in Int /\ ValueGain(rule) \in Int
       /\ ArrayGain(rule) \in Int /\ ObjectGain(rule) \in Int
  BY DEF StringGain, ValueGain, ArrayGain, ObjectGain
<1>12. /\ 0 \notin StringStates /\ 0 \notin ValuedStates
       /\ 0 \notin ArrayStates /\ 0 \notin ObjectStates
  BY DEF StringStates, ValuedStates, ArrayStates, ObjectStates
<1>13. /\ High(StringStates)' = High(StringStates) + StringGain(rule)
       /\ High(ValuedStates)' = High(ValuedStates) + ValueGain(rule)
       /\ High(ArrayStates)' = High(ArrayStates) + ArrayGain(rule)
       /\ High(ObjectStates)' = High(ObjectStates) + ObjectGain(rule)
  BY <1>10, <1>11, <1>12 DEF Worth
<1>14. HeightsOK'
  BY <1>9, <1>13 DEF HeightsOK, AllSeqs
<1>15. QED  BY <1>7, <1>8, <1>14

(* A reduction of the states a, b and c, a on top, leads from p to q. *)
LeadsTo(rule, h, p, q, a, b, c) ==
  q \in States /\ GoesTo(p, h, q) /\ p \in Below(q) /\ Worth(rule, q, a, b, c)

Leads(rule, h, p, a, b, c) == \E q : LeadsTo(rule, h, p, q, a, b, c)

LEMMA RuleRows ==
  /\ RuleHead[2 + 1] = "object" /\ RuleLength[2 + 1] = 2
  /\ RuleHead[3 + 1] = "object_body" /\ RuleLength[3 + 1] = 1
  /\ RuleHead[4 + 1] = "object_body" /\ RuleLength[4 + 1] = 2
  /\ RuleHead[5 + 1] = "object_begin" /\ RuleLength[5 + 1] = 1
  /\ RuleHead[6 + 1] = "pairs" /\ RuleLength[6 + 1] = 3
  /\ RuleHead[7 + 1] = "pairs" /\ RuleLength[7 + 1] = 1
  /\ RuleHead[8 + 1] = "pair" /\ RuleLength[8 + 1] = 3
  /\ RuleHead[9 + 1] = "array" /\ RuleLength[9 + 1] = 2
  /\ RuleHead[10 + 1] = "array_body" /\ RuleLength[10 + 1] = 1
  /\ RuleHead[11 + 1] = "array_body" /\ RuleLength[11 + 1] = 2
  /\ RuleHead[12 + 1] = "array_begin" /\ RuleLength[12 + 1] = 1
  /\ RuleHead[13 + 1] = "values" /\ RuleLength[13 + 1] = 3
  /\ RuleHead[14 + 1] = "values" /\ RuleLength[14 + 1] = 1
  /\ RuleHead[15 + 1] = "value" /\ RuleLength[15 + 1] = 1
  /\ RuleHead[16 + 1] = "value" /\ RuleLength[16 + 1] = 1
  /\ RuleHead[17 + 1] = "value" /\ RuleLength[17 + 1] = 1
  /\ RuleHead[18 + 1] = "value" /\ RuleLength[18 + 1] = 1
  /\ RuleHead[19 + 1] = "value" /\ RuleLength[19 + 1] = 1
  /\ RuleHead[20 + 1] = "value" /\ RuleLength[20 + 1] = 1
  /\ RuleHead[21 + 1] = "value" /\ RuleLength[21 + 1] = 1
  /\ RuleHead[22 + 1] = "value" /\ RuleLength[22 + 1] = 1
  /\ RuleHead[23 + 1] = "string" /\ RuleLength[23 + 1] = 1
BY DEF RuleHead, RuleLength

LEMMA Reduced1 ==
  ASSUME StatesOK, HeightsOK, State # 0, NEW rule \in 0 .. 23, DoReduceBy(rule), Needs(rule),
         RuleLength[rule + 1] = 1, NEW h, RuleHead[rule + 1] = h,
         \A p \in Below(State) : Leads(rule, h, p, State, 0, 0)
  PROVE  StatesOK' /\ HeightsOK' /\ UNCHANGED verdict
<1> DEFINE n == Len(lalr_stack)
<1>1. n \in Nat \ {0}
  BY TopState
<1>2. n - 1 \in 1 .. n /\ At(n - 1) \in Below(State) /\ Taken(n - 1, State, 0, 0)
  BY Taken1
<1>3. PICK q \in States : /\ \A r : <<At(n - 1), h, r>> \in Goto <=> r = q
                          /\ At(n - 1) \in Below(q) /\ Worth(rule, q, State, 0, 0)
  BY <1>2 DEF Leads, LeadsTo, GoesTo
<1>4. PICK m \in 1 .. n : m = n - 1
  BY <1>2
<1>5. n - RuleLength[rule + 1] = m
  BY <1>4
<1>6. Taken(m, State, 0, 0) /\ At(m) \in Below(q) /\ \A r : <<At(m), h, r>> \in Goto <=> r = q
  BY <1>2, <1>3, <1>4
<1>7. QED  BY <1>3, <1>5, <1>6, Reduced

LEMMA Reduced2 ==
  ASSUME StatesOK, HeightsOK, State # 0, NEW rule \in 0 .. 23, DoReduceBy(rule), Needs(rule),
         RuleLength[rule + 1] = 2, NEW h, RuleHead[rule + 1] = h,
         NEW b, b # 0, Below(State) = {b}, \A p \in Below(b) : Leads(rule, h, p, State, b, 0)
  PROVE  StatesOK' /\ HeightsOK' /\ UNCHANGED verdict
<1> DEFINE n == Len(lalr_stack)
<1>1. n \in Nat \ {0}
  BY TopState
<1>2. n - 2 \in 1 .. n /\ At(n - 2) \in Below(b) /\ Taken(n - 2, State, b, 0)
  <2>1. At(n - 1) = b
    BY Taken1
  <2>2. QED  BY <2>1, Taken2
<1>3. PICK q \in States : /\ \A r : <<At(n - 2), h, r>> \in Goto <=> r = q
                          /\ At(n - 2) \in Below(q) /\ Worth(rule, q, State, b, 0)
  BY <1>2 DEF Leads, LeadsTo, GoesTo
<1>4. PICK m \in 1 .. n : m = n - 2
  BY <1>2
<1>5. n - RuleLength[rule + 1] = m
  BY <1>4
<1>6. Taken(m, State, b, 0) /\ At(m) \in Below(q) /\ \A r : <<At(m), h, r>> \in Goto <=> r = q
  BY <1>2, <1>3, <1>4
<1>7. QED  BY <1>3, <1>5, <1>6, Reduced

LEMMA Reduced3 ==
  ASSUME StatesOK, HeightsOK, State # 0, NEW rule \in 0 .. 23, DoReduceBy(rule), Needs(rule),
         RuleLength[rule + 1] = 3, NEW h, RuleHead[rule + 1] = h,
         NEW b, b # 0, Below(State) = {b}, NEW c, c # 0, Below(b) = {c},
         \A p \in Below(c) : Leads(rule, h, p, State, b, c)
  PROVE  StatesOK' /\ HeightsOK' /\ UNCHANGED verdict
<1> DEFINE n == Len(lalr_stack)
<1>1. n \in Nat \ {0}
  BY TopState
<1>2. n - 3 \in 1 .. n /\ At(n - 3) \in Below(c) /\ Taken(n - 3, State, b, c)
  <2>1. At(n - 1) = b
    BY Taken1
  <2>2. At(n - 2) = c
    BY <2>1, Taken2
  <2>3. QED  BY <2>1, <2>2, Taken3
<1>3. PICK q \in States : /\ \A r : <<At(n - 3), h, r>> \in Goto <=> r = q
                          /\ At(n - 3) \in Below(q) /\ Worth(rule, q, State, b, c)
  BY <1>2 DEF Leads, LeadsTo, GoesTo
<1>4. PICK m \in 1 .. n : m = n - 3
  BY <1>2
<1>5. n - RuleLength[rule + 1] = m
  BY <1>4
<1>6. Taken(m, State, b, c) /\ At(m) \in Below(q) /\ \A r : <<At(m), h, r>> \in Goto <=> r = q
  BY <1>2, <1>3, <1>4
<1>7. QED  BY <1>3, <1>5, <1>6, Reduced

(* Where every reduction leads from every state it may be made in. *)
LEMMA Leading ==
  /\ LeadsTo(2, "object", 0, 2, 7, 3, 0)
  /\ \A p \in ValueStates : LeadsTo(2, "object", p, 19, 7, 3, 0)
  /\ \A p \in {0} \cup ValueStates : LeadsTo(3, "object_body", p, 3, 4, 0, 0)
  /\ \A p \in {0} \cup ValueStates : LeadsTo(4, "object_body", p, 3, 8, 4, 0)
  /\ \A p \in {0} \cup ValueStates : LeadsTo(5, "object_begin", p, 4, 5, 0, 0)
  /\ LeadsTo(6, "pairs", 4, 8, 14, 12, 8)
  /\ LeadsTo(7, "pairs", 4, 8, 9, 0, 0)
  /\ LeadsTo(8, "pair", 4, 9, 15, 13, 10)
  /\ LeadsTo(8, "pair", 12, 14, 15, 13, 10)
  /\ \A p \in ValueStates : LeadsTo(9, "array", p, 20, 27, 24, 0)
  /\ \A p \in ValueStates : LeadsTo(10, "array_body", p, 24, 25, 0, 0)
  /\ \A p \in ValueStates : LeadsTo(11, "array_body", p, 24, 28, 25, 0)
  /\ \A p \in ValueStates : LeadsTo(12, "array_begin", p, 25, 26, 0, 0)
  /\ LeadsTo(13, "values", 25, 28, 31, 30, 28)
  /\ LeadsTo(14, "values", 25, 28, 29, 0, 0)
  /\ \A p \in {4, 12} : LeadsTo(23, "string", p, 10, 11, 0, 0)
  /\ \A p \in ValueStates : LeadsTo(23, "string", p, 16, 11, 0, 0)
<1> USE DEF Weight, StringStates, ValuedStates, ArrayStates, ObjectStates,
            StringGain, ValueGain, ArrayGain, ObjectGain, States
<1>1. LeadsTo(2, "object", 0, 2, 7, 3, 0)
  BY GoesToOne DEF LeadsTo, Worth, Below, ValueStates
<1>2. \A p \in ValueStates : LeadsTo(2, "object", p, 19, 7, 3, 0)
  BY GoesToOne DEF LeadsTo, Worth, Below, ValueStates
<1>3. \A p \in {0} \cup ValueStates : LeadsTo(3, "object_body", p, 3, 4, 0, 0)
  BY GoesToOne DEF LeadsTo, Worth, Below, ValueStates
<1>4. \A p \in {0} \cup ValueStates : LeadsTo(4, "object_body", p, 3, 8, 4, 0)
  BY GoesToOne DEF LeadsTo, Worth, Below, ValueStates
<1>5. \A p \in {0} \cup ValueStates : LeadsTo(5, "object_begin", p, 4, 5, 0, 0)
  BY GoesToOne DEF LeadsTo, Worth, Below, ValueStates
<1>6. LeadsTo(6, "pairs", 4, 8, 14, 12, 8)
  BY GoesToOne DEF LeadsTo, Worth, Below, ValueStates
<1>7. LeadsTo(7, "pairs", 4, 8, 9, 0, 0)
  BY GoesToOne DEF LeadsTo, Worth, Below, ValueStates
<1>8. LeadsTo(8, "pair", 4, 9, 15, 13, 10)
  BY GoesToOne DEF LeadsTo, Worth, Below, ValueStates
<1>9. LeadsTo(8, "pair", 12, 14, 15, 13, 10)
  BY GoesToOne DEF LeadsTo, Worth, Below, ValueStates
<1>10. \A p \in ValueStates : LeadsTo(9, "array", p, 20, 27, 24, 0)
  BY GoesToOne DEF LeadsTo, Worth, Below, ValueStates
<1>11. \A p \in ValueStates : LeadsTo(10, "array_body", p, 24, 25, 0, 0)
  BY GoesToOne DEF LeadsTo, Worth, Below, ValueStates
<1>12. \A p \in ValueStates : LeadsTo(11, "array_body", p, 24, 28, 25, 0)
  BY GoesToOne DEF LeadsTo, Worth, Below, ValueStates
<1>13. \A p \in ValueStates : LeadsTo(12, "array_begin", p, 25, 26, 0, 0)
  BY GoesToOne DEF LeadsTo, Worth, Below, ValueStates
<1>14. LeadsTo(13, "values", 25, 28, 31, 30, 28)
  BY GoesToOne DEF LeadsTo, Worth, Below, ValueStates
<1>15. LeadsTo(14, "values", 25, 28, 29, 0, 0)
  BY GoesToOne DEF LeadsTo, Worth, Below, ValueStates
<1>16. \A p \in {4, 12} : LeadsTo(23, "string", p, 10, 11, 0, 0)
  BY GoesToOne DEF LeadsTo, Worth, Below, ValueStates
<1>17. \A p \in ValueStates : LeadsTo(23, "string", p, 16, 11, 0, 0)
  BY GoesToOne DEF LeadsTo, Worth, Below, ValueStates
<1>18. QED
  BY <1>1, <1>2, <1>3, <1>4, <1>5, <1>6, <1>7, <1>8, <1>9, <1>10, <1>11, <1>12, <1>13,
     <1>14, <1>15, <1>16, <1>17

(* The states of a value, and the rules that reduce them. *)
ValueRules == {<<16, 15>>, <<17, 16>>, <<18, 17>>, <<19, 18>>, <<20, 19>>, <<21, 20>>,
               <<22, 21>>, <<23, 22>>}

LEMMA ValueLeads ==
  ASSUME NEW s, NEW rule, <<s, rule>> \in ValueRules, NEW p \in ValueStates
  PROVE  Leads(rule, "value", p, s, 0, 0)
<1> DEFINE q == IF p = 13 THEN 15 ELSE IF p = 25 THEN 29 ELSE 31
<1>1. q \in {15, 29, 31} /\ p \in Below(q) /\ GoesTo(p, "value", q)
  BY GoesToOne DEF ValueStates, Below
<1>2. ASSUME NEW x \in {15, 29, 31}
      PROVE  Worth(rule, x, s, 0, 0)
  BY <1>2 DEF ValueRules, Worth, Weight, StringStates, ValuedStates, ArrayStates, ObjectStates,
              StringGain, ValueGain, ArrayGain, ObjectGain
<1>3. LeadsTo(rule, "value", p, q, s, 0, 0)
  <2> HIDE DEF q
  <2>1. QED  BY <1>1, <1>2 DEF LeadsTo, States
<1>4. QED  BY <1>3 DEF Leads

(* What the action of a rule takes is there: its symbols lie on the stack  *)
(* of states, and each has its value.                                      *)
LEMMA PairNeeds ==
  ASSUME StatesOK, HeightsOK, State = 15
  PROVE  Needs(8)
<1> DEFINE n == Len(lalr_stack)
<1>1. n \in 1 .. n /\ At(n) = 15
  BY TopState
<1>2. n - 1 \in 1 .. n /\ At(n - 1) = 13
  <2>1. n - 1 \in 1 .. n /\ At(n - 1) \in Below(15)
    BY <1>1, Down
  <2>2. QED  BY <2>1 DEF Below
<1>3. n - 2 \in 1 .. n /\ At(n - 2) = 10
  <2>1. (n - 1) - 1 \in 1 .. n /\ At((n - 1) - 1) \in Below(13)
    BY <1>2, Down
  <2>2. (n - 1) - 1 = n - 2
    BY <1>1
  <2>3. QED  BY <2>1, <2>2 DEF Below
<1>4. n - 3 \in 1 .. n /\ At(n - 3) \in {4, 12}
  <2>1. (n - 2) - 1 \in 1 .. n /\ At((n - 2) - 1) \in Below(10)
    BY <1>3, Down
  <2>2. (n - 2) - 1 = n - 3
    BY <1>1
  <2>3. QED  BY <2>1, <2>2 DEF Below
<1>5. \E k \in 1 .. n : At(k) = 4
  <2>1. CASE At(n - 3) = 4
    BY <1>4, <2>1
  <2>2. CASE At(n - 3) = 12
    <3>1. (n - 3) - 1 \in 1 .. n /\ At((n - 3) - 1) \in Below(12)
      BY <1>4, <2>2, Down
    <3>2. At((n - 3) - 1) = 8
      BY <3>1 DEF Below
    <3>3. ((n - 3) - 1) - 1 \in 1 .. n /\ At(((n - 3) - 1) - 1) \in Below(8)
      BY <3>1, <3>2, Down
    <3>4. At(((n - 3) - 1) - 1) = 4
      BY <3>3 DEF Below
    <3>5. QED  BY <3>3, <3>4
  <2>3. QED  BY <1>4, <2>1, <2>2
<1>6. strings # <<>>
  BY <1>3, NotEmpty DEF StringStates
<1>7. values # <<>>
  BY <1>1, NotEmpty DEF ValuedStates
<1>8. objects # <<>>
  BY <1>5, NotEmpty DEF ObjectStates
<1>9. QED  BY <1>6, <1>7, <1>8 DEF Needs

LEMMA ArrayNeeds ==
  ASSUME StatesOK, HeightsOK
  PROVE  /\ State = 31 => Needs(13)
         /\ State = 29 => Needs(14)
<1> DEFINE n == Len(lalr_stack)
<1>1. n \in 1 .. n /\ At(n) = State
  BY TopState
<1>2. CASE State = 29
  <2>1. n - 1 \in 1 .. n /\ At(n - 1) \in Below(29)
    BY <1>1, <1>2, Down
  <2>2. At(n - 1) = 25
    BY <2>1 DEF Below
  <2>3. arrays # <<>>
    BY <2>1, <2>2, NotEmpty DEF ArrayStates
  <2>4. values # <<>>
    BY <1>1, <1>2, NotEmpty DEF ValuedStates
  <2>5. QED  BY <1>2, <2>3, <2>4 DEF Needs
<1>3. CASE State = 31
  <2>1. n - 1 \in 1 .. n /\ At(n - 1) \in Below(31)
    BY <1>1, <1>3, Down
  <2>2. At(n - 1) = 30
    BY <2>1 DEF Below
  <2>3. (n - 1) - 1 \in 1 .. n /\ At((n - 1) - 1) \in Below(30)
    BY <2>1, <2>2, Down
  <2>4. At((n - 1) - 1) = 28
    BY <2>3 DEF Below
  <2>5. ((n - 1) - 1) - 1 \in 1 .. n /\ At(((n - 1) - 1) - 1) \in Below(28)
    BY <2>3, <2>4, Down
  <2>6. At(((n - 1) - 1) - 1) = 25
    BY <2>5 DEF Below
  <2>7. arrays # <<>>
    BY <2>5, <2>6, NotEmpty DEF ArrayStates
  <2>8. values # <<>>
    BY <1>1, <1>3, NotEmpty DEF ValuedStates
  <2>9. QED  BY <1>3, <2>7, <2>8 DEF Needs
<1>4. QED  BY <1>2, <1>3

LEMMA ValueNeeds ==
  ASSUME StatesOK, HeightsOK, NEW rule, <<State, rule>> \in ValueRules
  PROVE  Needs(rule)
<1> DEFINE n == Len(lalr_stack)
<1>1. n \in 1 .. n /\ At(n) = State
  BY TopState
<1>2. /\ State = 16 => strings # <<>>
      /\ State = 19 => objects # <<>>
      /\ State = 20 => arrays # <<>>
  BY <1>1, NotEmpty DEF StringStates, ObjectStates, ArrayStates
<1>3. QED  BY <1>2 DEF ValueRules, Needs

(* One step per row of the table. *)
LEMMA ReduceStays ==
  ASSUME StatesOK, HeightsOK, NEW row \in Reduce, row[1] = State, DoReduceBy(row[2])
  PROVE  StatesOK' /\ HeightsOK' /\ UNCHANGED verdict
<1>1. CASE State = 4 /\ DoReduceBy(3)
  <2>1. \A p \in Below(4) : Leads(3, "object_body", p, 4, 0, 0)
    BY Leading DEF Leads, Below
  <2>2. Needs(3) /\ 3 \in 0 .. 23
    BY DEF Needs
  <2>3. QED  BY <1>1, <2>1, <2>2, RuleRows, Reduced1
<1>2. CASE State = 5 /\ DoReduceBy(5)
  <2>1. \A p \in Below(5) : Leads(5, "object_begin", p, 5, 0, 0)
    BY Leading DEF Leads, Below
  <2>2. Needs(5) /\ 5 \in 0 .. 23
    BY DEF Needs
  <2>3. QED  BY <1>2, <2>1, <2>2, RuleRows, Reduced1
<1>3. CASE State = 7 /\ DoReduceBy(2)
  <2>1. \A p \in Below(3) : Leads(2, "object", p, 7, 3, 0)
    BY Leading DEF Leads, Below
  <2>2. Needs(2) /\ 2 \in 0 .. 23
    BY DEF Needs
  <2>3. Below(7) = {3}
    BY DEF Below
  <2>4. QED  BY <1>3, <2>1, <2>2, <2>3, RuleRows, Reduced2
<1>4. CASE State = 8 /\ DoReduceBy(4)
  <2>1. \A p \in Below(4) : Leads(4, "object_body", p, 8, 4, 0)
    BY Leading DEF Leads, Below
  <2>2. Needs(4) /\ 4 \in 0 .. 23
    BY DEF Needs
  <2>3. Below(8) = {4}
    BY DEF Below
  <2>4. QED  BY <1>4, <2>1, <2>2, <2>3, RuleRows, Reduced2
<1>5. CASE State = 9 /\ DoReduceBy(7)
  <2>1. \A p \in Below(9) : Leads(7, "pairs", p, 9, 0, 0)
    BY Leading DEF Leads, Below
  <2>2. Needs(7) /\ 7 \in 0 .. 23
    BY DEF Needs
  <2>3. QED  BY <1>5, <2>1, <2>2, RuleRows, Reduced1
<1>6. CASE State = 11 /\ DoReduceBy(23)
  <2>1. \A p \in Below(11) : Leads(23, "string", p, 11, 0, 0)
    BY Leading DEF Leads, Below
  <2>2. Needs(23) /\ 23 \in 0 .. 23
    BY DEF Needs
  <2>3. QED  BY <1>6, <2>1, <2>2, RuleRows, Reduced1
<1>7. CASE State = 14 /\ DoReduceBy(6)
  <2>1. \A p \in Below(8) : Leads(6, "pairs", p, 14, 12, 8)
    BY Leading DEF Leads, Below
  <2>2. Needs(6) /\ 6 \in 0 .. 23
    BY DEF Needs
  <2>3. Below(14) = {12} /\ Below(12) = {8}
    BY DEF Below
  <2>4. QED  BY <1>7, <2>1, <2>2, <2>3, RuleRows, Reduced3
<1>8. CASE State = 15 /\ DoReduceBy(8)
  <2>1. \A p \in Below(10) : Leads(8, "pair", p, 15, 13, 10)
    BY Leading DEF Leads, Below
  <2>2. Needs(8) /\ 8 \in 0 .. 23
    BY <1>8, PairNeeds
  <2>3. Below(15) = {13} /\ Below(13) = {10}
    BY DEF Below
  <2>4. QED  BY <1>8, <2>1, <2>2, <2>3, RuleRows, Reduced3
<1>9. CASE State = 25 /\ DoReduceBy(10)
  <2>1. \A p \in Below(25) : Leads(10, "array_body", p, 25, 0, 0)
    BY Leading DEF Leads, Below
  <2>2. Needs(10) /\ 10 \in 0 .. 23
    BY DEF Needs
  <2>3. QED  BY <1>9, <2>1, <2>2, RuleRows, Reduced1
<1>10. CASE State = 26 /\ DoReduceBy(12)
  <2>1. \A p \in Below(26) : Leads(12, "array_begin", p, 26, 0, 0)
    BY Leading DEF Leads, Below
  <2>2. Needs(12) /\ 12 \in 0 .. 23
    BY DEF Needs
  <2>3. QED  BY <1>10, <2>1, <2>2, RuleRows, Reduced1
<1>11. CASE State = 27 /\ DoReduceBy(9)
  <2>1. \A p \in Below(24) : Leads(9, "array", p, 27, 24, 0)
    BY Leading DEF Leads, Below
  <2>2. Needs(9) /\ 9 \in 0 .. 23
    BY DEF Needs
  <2>3. Below(27) = {24}
    BY DEF Below
  <2>4. QED  BY <1>11, <2>1, <2>2, <2>3, RuleRows, Reduced2
<1>12. CASE State = 28 /\ DoReduceBy(11)
  <2>1. \A p \in Below(25) : Leads(11, "array_body", p, 28, 25, 0)
    BY Leading DEF Leads, Below
  <2>2. Needs(11) /\ 11 \in 0 .. 23
    BY DEF Needs
  <2>3. Below(28) = {25}
    BY DEF Below
  <2>4. QED  BY <1>12, <2>1, <2>2, <2>3, RuleRows, Reduced2
<1>13. CASE State = 29 /\ DoReduceBy(14)
  <2>1. \A p \in Below(29) : Leads(14, "values", p, 29, 0, 0)
    BY Leading DEF Leads, Below
  <2>2. Needs(14) /\ 14 \in 0 .. 23
    BY <1>13, ArrayNeeds
  <2>3. QED  BY <1>13, <2>1, <2>2, RuleRows, Reduced1
<1>14. CASE State = 31 /\ DoReduceBy(13)
  <2>1. \A p \in Below(28) : Leads(13, "values", p, 31, 30, 28)
    BY Leading DEF Leads, Below
  <2>2. Needs(13) /\ 13 \in 0 .. 23
    BY <1>14, ArrayNeeds
  <2>3. Below(31) = {30} /\ Below(30) = {28}
    BY DEF Below
  <2>4. QED  BY <1>14, <2>1, <2>2, <2>3, RuleRows, Reduced3
<1>15. ASSUME NEW rule, <<State, rule>> \in ValueRules, DoReduceBy(rule)
      PROVE  StatesOK' /\ HeightsOK' /\ UNCHANGED verdict
  <2>1. /\ rule \in 0 .. 23 /\ State # 0 /\ State \in 16 .. 23
        /\ RuleLength[rule + 1] = 1 /\ RuleHead[rule + 1] = "value"
    BY <1>15, RuleRows DEF ValueRules
  <2>2. Below(State) = ValueStates
    BY <2>1 DEF Below
  <2>3. \A p \in Below(State) : Leads(rule, "value", p, State, 0, 0)
    BY <1>15, <2>2, ValueLeads
  <2>4. Needs(rule)
    BY <1>15, ValueNeeds
  <2>5. QED  BY <1>15, <2>1, <2>3, <2>4, Reduced1
<1>16. \/ <<State, row[2]>> \in ValueRules
       \/ <<State, row[2]>> \in
            {<<4, 3>>, <<5, 5>>, <<7, 2>>, <<8, 4>>, <<9, 7>>, <<11, 23>>, <<14, 6>>,
             <<15, 8>>, <<25, 10>>, <<26, 12>>, <<27, 9>>, <<28, 11>>, <<29, 14>>, <<31, 13>>}
  BY DEF Reduce, ValueRules
<1>17. QED
  BY <1>1, <1>2, <1>3, <1>4, <1>5, <1>6, <1>7, <1>8,
     <1>9, <1>10, <1>11, <1>12, <1>13, <1>14, <1>15, <1>16

(* A terminal stands for no value yet: its state counts for nothing.       *)
LEMMA ShiftedStates ==
  ASSUME NEW p, NEW k, NEW q, <<p, k, q>> \in Shift, k # "eof"
  PROVE  q \in States \ (StringStates \cup ValuedStates \cup ArrayStates \cup ObjectStates)
<1>1. DOMAIN ValueShift = {"str", "int", "flt", "true", "false", "null", "lbrace", "lbrack"}
  BY DEF ValueShift
<1>2. \A h \in DOMAIN ValueShift : ValueShift[h] \in {5, 11, 17, 18, 21, 22, 23, 26}
  BY <1>1 DEF ValueShift
<1>3. q \in {5, 7, 11, 12, 13, 17, 18, 21, 22, 23, 26, 27, 30}
  <2>1. CASE p \in ValueStates /\ k \in DOMAIN ValueShift /\ q = ValueShift[k]
    BY <1>2, <2>1
  <2>2. CASE <<p, k, q>> \in
    {<<0, "lbrace", 5>>, <<2, "eof", 6>>, <<3, "rbrace", 7>>, <<4, "str", 11>>,
     <<8, "comma", 12>>, <<10, "colon", 13>>, <<12, "str", 11>>, <<24, "rbrack", 27>>,
     <<28, "comma", 30>>}
    BY <2>2
  <2>3. QED  BY <2>1, <2>2 DEF Shift
<1>4. QED  BY <1>3 DEF States, StringStates, ValuedStates, ArrayStates, ObjectStates

LEMMA ShiftStays ==
  ASSUME ParseInv, DoShift
  PROVE  ParseInv'
<1>1. CASE Kind = "eof"
  <2>1. /\ verdict' = "done"
        /\ UNCHANGED <<lalr_stack, strings, values, arrays, objects>>
    BY <1>1 DEF DoShift
  <2>2. PICK q \in States : <<State, "eof", q>> \in Shift
    BY <1>1 DEF DoShift, Shifts, Has
  <2>3. State = 2
    BY <2>2, ShiftRows
  <2>4. State' = State
    BY <2>1 DEF State
  <2>5. StatesOK' /\ HeightsOK'
    BY <2>1 DEF ParseInv, StatesOK, HeightsOK, High, Count
  <2>6. QED  BY <2>1, <2>3, <2>4, <2>5 DEF ParseInv
<1>2. CASE Kind # "eof"
  <2> DEFINE q == To(Shift, State, Kind)
             n == Len(lalr_stack)
  <2>1. q \in States /\ <<State, Kind, q>> \in Shift
    BY DEF DoShift, Shifts, Has, To
  <2>2. lalr_stack' = Append(lalr_stack, [state |-> q, term |-> ret_term])
        /\ UNCHANGED <<strings, values, arrays, objects, verdict>>
        /\ verdict = "running"
    BY <1>2 DEF DoShift, Ready
  <2> HIDE DEF q
  <2>3. State \in Below(q)
    BY <1>2, <2>1, ShiftRows
  <2>4. /\ q \notin StringStates /\ q \notin ValuedStates
        /\ q \notin ArrayStates /\ q \notin ObjectStates
    BY <1>2, <2>1, ShiftedStates
  <2>5. StatesOK /\ HeightsOK
    BY DEF ParseInv
  <2>6. n \in Nat \ {0} /\ State = At(n) /\ SubSeq(lalr_stack, 1, n) = lalr_stack
    BY <2>5, TopState, SubSeqFull DEF IsSeq
  <2>7. lalr_stack' = Append(SubSeq(lalr_stack, 1, n), [state |-> q, term |-> ret_term])
        /\ At(n) \in Below(q) /\ n \in 1 .. n
    BY <2>2, <2>3, <2>6
  <2>8. /\ StatesOK'
        /\ \A X : High(X)' = Count(X, lalr_stack, n) + (IF q \in X THEN 1 ELSE 0)
    BY <2>1, <2>5, <2>7, StatePushed
  <2>9. ASSUME NEW X, q \notin X
        PROVE  High(X)' = High(X)
    <3>1. Count(X, lalr_stack, n) \in Nat
      <4> DEFINE k == n - 1
      <4>1. k \in Nat /\ k + 1 = n
        BY <2>6
      <4> HIDE DEF k
      <4>2. Count(X, lalr_stack, k + 1) =
              Count(X, lalr_stack, k) + (IF lalr_stack[k + 1].state \in X THEN 1 ELSE 0)
            /\ Count(X, lalr_stack, k) \in Nat
        BY <4>1, CountNext
      <4>3. QED  BY <4>1, <4>2
    <3>2. High(X)' = Count(X, lalr_stack, n) + 0
      BY <2>8, <2>9
    <3>3. QED  BY <3>1, <3>2 DEF High
  <2>10. HeightsOK'
    BY <2>2, <2>4, <2>5, <2>9 DEF HeightsOK
  <2>11. QED  BY <2>2, <2>8, <2>10 DEF ParseInv
<1>3. QED  BY <1>1, <1>2

LEMMA ParseStays ==
  ASSUME ParseInv, UNCHANGED <<lalr_stack, strings, values, arrays, objects>>,
         verdict' # "fault", verdict' = "done" => verdict = "done"
  PROVE  ParseInv'
<1>1. State' = State
  BY DEF State
<1>2. StatesOK' /\ HeightsOK'
  BY DEF ParseInv, StatesOK, HeightsOK, High, Count
<1>3. QED  BY <1>1, <1>2 DEF ParseInv

LEMMA ParseInitInv == ParseInit => ParseInv
<1> SUFFICES ASSUME ParseInit
             PROVE  ParseInv
  OBVIOUS
<1> DEFINE e == [state |-> 0, term |-> NoTerm]
<1>1. lalr_stack = <<e>> /\ e.state = 0 /\ verdict = "running"
      /\ strings = <<>> /\ values = <<>> /\ arrays = <<>> /\ objects = <<>>
  BY DEF ParseInit
<1> HIDE DEF e
<1>2. lalr_stack \in Seq({e}) /\ Len(lalr_stack) = 1 /\ lalr_stack[1].state = 0
  BY <1>1
<1>3. StatesOK
  <2>1. IsSeq(lalr_stack)
    BY <1>2, SeqIs
  <2>2. QED  BY <1>2, <2>1 DEF StatesOK
<1>4. IsSeq(<<>>) /\ Len(<<>>) = 0
  <2>1. <<>> \in Seq({e}) /\ Len(<<>>) = 0
    BY EmptySeq
  <2>2. QED  BY <2>1, SeqIs
<1>5. ASSUME NEW X, 0 \notin X
      PROVE  High(X) = 0
  <2>1. {j \in 1 .. 1 : lalr_stack[j].state \in X} = {}
    BY <1>2, <1>5
  <2>2. QED  BY <1>2, <2>1, FS_EmptySet DEF High, Count
<1>6. /\ 0 \notin StringStates /\ 0 \notin ValuedStates
      /\ 0 \notin ArrayStates /\ 0 \notin ObjectStates
  BY DEF StringStates, ValuedStates, ArrayStates, ObjectStates
<1>7. HeightsOK
  BY <1>1, <1>4, <1>5, <1>6 DEF HeightsOK
<1>8. QED  BY <1>1, <1>3, <1>7 DEF ParseInv

LEMMA ParseNextInv == ParseInv /\ [Next]_vars => ParseInv'
<1> SUFFICES ASSUME ParseInv, [Next]_vars
             PROVE  ParseInv'
  OBVIOUS
<1>1. CASE UNCHANGED parseVars
  <2>1. UNCHANGED <<lalr_stack, strings, values, arrays, objects, verdict>>
    BY <1>1 DEF parseVars
  <2>2. QED  BY <2>1, ParseStays DEF ParseInv
<1>2. ASSUME NEW t, Fetch(t)
      PROVE  ParseInv'
  <2>1. UNCHANGED <<lalr_stack, strings, values, arrays, objects, verdict>>
    BY <1>2 DEF Fetch
  <2>2. QED  BY <2>1, ParseStays DEF ParseInv
<1>3. CASE DoShift
  BY <1>3, ShiftStays
<1>4. CASE DoReduce
  <2>1. PICK row \in Reduce : row[1] = State /\ DoReduceBy(row[2])
    BY <1>4 DEF DoReduce
  <2>2. StatesOK' /\ HeightsOK' /\ UNCHANGED verdict
    BY <2>1, ReduceStays DEF ParseInv
  <2>3. verdict = "running"
    BY <1>4 DEF DoReduce, Ready
  <2>4. QED  BY <2>2, <2>3 DEF ParseInv
<1>5. CASE DoReject
  <2>1. UNCHANGED <<lalr_stack, strings, values, arrays, objects>> /\ verdict' = "syntax"
    BY <1>5 DEF DoReject
  <2>2. QED  BY <2>1, ParseStays
<1>6. QED
  BY <1>1, <1>2, <1>3, <1>4, <1>5
     DEF Next, Create, FetchWritten, FetchForeign, Parse, Step, vars

THEOREM ParseInvariance == Spec => []ParseInv
<1>1. Init => ParseInv
  BY ParseInitInv DEF Init
<1>2. QED  BY <1>1, ParseNextInv, PTL DEF Spec

(* ccljson.cc:1067-1084, ccljson_parse_actions.cc:57-171: for any strings  *)
(* and any text, however long and deep, every reduction finds the values   *)
(* its action takes and a state to go to, and a document that is done      *)
(* leaves its one object on the stacks and nothing else.                   *)
THEOREM JsonStacksFit == Spec => []StacksFit
<1>1. ParseInv => StacksFit
  <2> SUFFICES ASSUME ParseInv
               PROVE  StacksFit
    OBVIOUS
  <2>1. CASE verdict = "done"
    <3> DEFINE n == Len(lalr_stack)
    <3>1. StatesOK /\ HeightsOK /\ State = 2 /\ n \in Nat \ {0} /\ n \in 1 .. n
      BY <2>1, TopState DEF ParseInv
    <3>2. n - 1 \in 1 .. n /\ At(n - 1) = 0 /\ At(n) = 2
      <4>1. n - 1 \in 1 .. n /\ At(n - 1) \in Below(2) /\ At(n) = 2
        BY <3>1, Taken1, TopState
      <4>2. QED  BY <4>1 DEF Below
    <3>3. n = 2
      <4>1. CASE n > 2
        <5>1. n - 2 \in 1 .. n - 1 /\ (n - 2) + 1 = n - 1
          BY <3>1, <4>1
        <5>2. At(n - 2) \in Below(At(n - 1))
          <6> DEFINE k == n - 2
          <6>1. k \in 1 .. Len(lalr_stack) - 1 /\ k + 1 = n - 1
            BY <5>1
          <6> HIDE DEF k
          <6>2. lalr_stack[k].state \in Below(lalr_stack[k + 1].state)
            BY <3>1, <6>1 DEF StatesOK
          <6>3. QED  BY <6>1, <6>2 DEF At, k
        <5>3. Below(0) = {}
          BY DEF Below
        <5>4. QED  BY <3>2, <5>2, <5>3
      <4>2. ~ (n > 2) => n = 2
        <5>1. n \in Nat /\ n - 1 >= 1
          BY <3>1, <3>2
        <5> HIDE DEF n
        <5>2. QED  BY <5>1
      <4>3. QED  BY <4>1, <4>2
    <3>4. At(1) = 0 /\ At(2) = 2
      BY <3>2, <3>3
    <3>5. ASSUME NEW X, 0 \notin X
          PROVE  High(X) = IF 2 \in X THEN 1 ELSE 0
      <4>1. {j \in 1 .. 2 : lalr_stack[j].state \in X} = IF 2 \in X THEN {2} ELSE {}
        BY <3>4, <3>5 DEF At
      <4>2. Cardinality({2}) = 1 /\ Cardinality({}) = 0
        BY FS_EmptySet, FS_Singleton
      <4>3. High(X) = Cardinality(IF 2 \in X THEN {2} ELSE {})
        BY <3>3, <4>1 DEF High, Count
      <4>4. QED  BY <4>2, <4>3
    <3>6. /\ High(StringStates) = 0 /\ High(ValuedStates) = 0 /\ High(ArrayStates) = 0
          /\ High(ObjectStates) = 1
      BY <3>5 DEF StringStates, ValuedStates, ArrayStates, ObjectStates
    <3>7. QED  BY <2>1, <3>1, <3>6, SeqFacts DEF StacksFit, HeightsOK
  <2>2. CASE verdict # "done"
    BY <2>2 DEF ParseInv, StacksFit
  <2>3. QED  BY <2>1, <2>2
<1>2. QED  BY <1>1, ParseInvariance, PTL

=============================================================================
