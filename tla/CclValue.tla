------------------------------ MODULE CclValue ------------------------------
(***************************************************************************)
(* The values of lib/cclvar: what a var_c holds, how two of them compare   *)
(* (loc_c::compare, compare_value) and how a dictionary is searched.       *)
(* A value is a record of its type, the number of a scalar (a string is    *)
(* its place in Words) and the keys and elements of a container; those of  *)
(* a set and of a dictionary lie in the order of Compare, as in std::set   *)
(* and std::map.                                                           *)
(***************************************************************************)
EXTENDS Integers, Sequences, SequencesExt

CONSTANTS Words,   \* the strings there are, in the order of std::string::compare
          Depth,   \* how deep values nest (a bound)
          Values   \* the values at hand

VARIABLE value     \* the one a call is given

TypeBlank == 0
TypeBool == 1
TypeInteger == 2
TypeFloat == 3
TypeString == 4
TypeArray == 5
TypeSet == 6
TypeList == 7
TypeDict == 8

(* The number of a float that is not a number: neither less nor greater. *)
NaN == -1

Scalar(t, v) == [t |-> t, v |-> v, k |-> <<>>, e |-> <<>>]
Container(t, keys, elems) == [t |-> t, v |-> 0, k |-> keys, e |-> elems]

Blank == Scalar(TypeBlank, 0)
Str(w) == Scalar(TypeString, CHOOSE i \in DOMAIN Words : Words[i] = w)
Word(a) == Words[a.v]

Sign(n) == IF n < 0 THEN -1 ELSE IF n > 0 THEN 1 ELSE 0

-----------------------------------------------------------------------------
(* Values that nest at most n deep: a dictionary has a key for each of its *)
(* elements, no other container has keys.                                  *)
Containers(parts) ==
  {c \in [t : TypeArray .. TypeDict, v : {0}, k : Seq(parts), e : Seq(parts)] :
     Len(c.k) = IF c.t = TypeDict THEN Len(c.e) ELSE 0}

Nested(scalars) ==
  LET upto[n \in Nat] == IF n = 0 THEN scalars ELSE scalars \cup Containers(upto[n - 1])
  IN  upto

Numbers == [t : TypeBlank .. TypeString, v : Int, k : {<<>>}, e : {<<>>}]
Scalars == {a \in Numbers : a.t = TypeBlank => a.v = 0}
IsNaN(a) == a.t = TypeFloat /\ a.v = NaN

AnyValue == Nested(Scalars)
Ordered == Nested({a \in Scalars : ~IsNaN(a)})  \* no NaN anywhere

-----------------------------------------------------------------------------
(* Mutant of CompareParts: containers are compared element by element up   *)
(* to the end of the shorter, their sizes only after that in one direction.*)
ComparePartsShorter(a, b, compare) ==
  IF a.t # b.t THEN Sign(a.t - b.t)
  ELSE IF a.t < TypeArray THEN IF IsNaN(a) \/ IsNaN(b) THEN 0 ELSE Sign(a.v - b.v)
  ELSE
    LET D == {i \in DOMAIN a.e \cap DOMAIN b.e : compare[<<a.e[i], b.e[i]>>] # 0}
    IN  IF D # {} THEN compare[<<a.e[Min(D)], b.e[Min(D)]>>]
        ELSE IF Len(a.e) < Len(b.e) THEN -1 ELSE 0

(* First the type, then the number or the size, then the parts as compare  *)
(* has them, a dictionary's key before the value it leads to.              *)
CompareParts(a, b, compare) ==
  IF a.t # b.t THEN Sign(a.t - b.t)
  ELSE IF a.t < TypeArray THEN IF IsNaN(a) \/ IsNaN(b) THEN 0 ELSE Sign(a.v - b.v)
  ELSE IF Len(a.e) # Len(b.e) THEN Sign(Len(a.e) - Len(b.e))
  ELSE
    LET Pair(i) == IF a.t = TypeDict /\ compare[<<a.k[i], b.k[i]>>] # 0
                   THEN compare[<<a.k[i], b.k[i]>>] ELSE compare[<<a.e[i], b.e[i]>>]
        D == {i \in DOMAIN a.e : Pair(i) # 0}
    IN  IF D = {} THEN 0 ELSE Pair(Min(D))

(* loc_c::compare: the parts are compared as the wholes are. *)
Every == AnyValue[Depth]
comparison[p \in Every \X Every] == CompareParts(p[1], p[2], comparison)
Compare(a, b) == comparison[<<a, b>>]

-----------------------------------------------------------------------------
(* std::map::operator[] of loc_c and its assignment: a key that is there   *)
(* keeps its place and its name.                                           *)
Put(d, key, val) ==
  LET same == {i \in DOMAIN d.k : Compare(d.k[i], key) = 0}
      at == Cardinality({i \in DOMAIN d.k : Compare(d.k[i], key) < 0}) + 1
  IN  IF same # {} THEN [d EXCEPT !.e[Min(same)] = val]
      ELSE Container(TypeDict, InsertAt(d.k, at, key), InsertAt(d.e, at, val))

(* loc_c::has_key and the value it hands out *)
HasKey(d, key) == \E i \in DOMAIN d.k : Compare(d.k[i], key) = 0
At(d, key) == d.e[CHOOSE i \in DOMAIN d.k : Compare(d.k[i], key) = 0]

(* An initializer list of pairs, and of elements of a set. *)
Dict(pairs) == FoldLeft(LAMBDA d, p : Put(d, p[1], p[2]),
                        Container(TypeDict, <<>>, <<>>), pairs)
SetOf(elems) == Container(TypeSet, <<>>,
  FoldLeft(LAMBDA d, x : Put(d, x, x), Container(TypeDict, <<>>, <<>>), elems).k)

-----------------------------------------------------------------------------
ASSUME ValueAssumption == Depth \in Nat /\ Values \subseteq Every

(* Compare places a among the values of S: one of a and b comes first, or *)
(* they are the same, and what comes before a later one comes before it.   *)
InOrder(a, S) ==
  /\ \A b \in S : Compare(a, b) = -Compare(b, a)
  /\ \A b \in S : Compare(a, b) = 0 <=> a = b
  /\ \A b, c \in S : Compare(a, b) <= 0 /\ Compare(b, c) <= 0 => Compare(a, c) <= 0

TotalOn(S) == \A a \in S : InOrder(a, S)

Comparable == {a \in Values : a \in Ordered[Depth]}
Misplaced == {a \in Comparable : ~InOrder(a, Comparable)}

(* Sets, dictionaries and the comparisons of a schema rest on one order of *)
(* values of any types; it is total on values without a NaN, which         *)
(* compares equal to every float: no value a call is given is misplaced.   *)
OrderTotal == value \notin Misplaced
=============================================================================
