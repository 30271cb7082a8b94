------------------------------- MODULE Values -------------------------------
(***************************************************************************)
(* The values of an Odio program (value.hpp).  A value is a pair: its type *)
(* and its load.  A List or a Dict is a reference to a box of the heap, as *)
(* the Caja of value.hpp is shared by every copy of the value; a heap is a *)
(* sequence of boxes, a List box a sequence of values, a Dict box a        *)
(* sequence of <<key, value>> pairs in insertion order.  A float is a      *)
(* fraction <<n, d>>, so that arithmetic on it is exact.                   *)
(***************************************************************************)
EXTENDS Integers, Sequences

Null     == <<"null", 0>>
Boolean(b) == <<"bool", b>>
Integer(n) == <<"int", n>>
Str(s)   == <<"string", s>>
Real(q)  == <<"float", q>>
ListRef(h) == <<"List", h>>
DictRef(h) == <<"Dict", h>>

IsA(v, type) == v[1] = type
IsNum(v)     == v[1] \in {"int", "float"}
Ratio(v)     == IF IsA(v, "int") THEN <<v[2], 1>> ELSE v[2]

Truthy(heap, v) ==
  CASE v[1] = "null"              -> FALSE
    [] v[1] = "bool"              -> v[2]
    [] v[1] \in {"int", "float"}  -> Ratio(v)[1] # 0
    [] v[1] = "string"            -> v[2] # ""
    [] OTHER                      -> heap[v[2]] # <<>>

\* Value::Dict: find() and operator[], in insertion order.
HasKey(dict, k)  == \E i \in DOMAIN dict : dict[i][1] = k
Find(dict, k)    == IF HasKey(dict, k)
                    THEN (CHOOSE p \in {dict[i] : i \in DOMAIN dict} : p[1] = k)[2]
                    ELSE Null
Put(dict, k, v)  == IF HasKey(dict, k)
                    THEN [i \in DOMAIN dict |-> IF dict[i][1] = k THEN <<k, v>> ELSE dict[i]]
                    ELSE Append(dict, <<k, v>>)

\* What is not a value by itself: a reference to a box of the heap.
Refs(heap) == {"List", "Dict"} \X DOMAIN heap

\* Value::equals: numbers by value, containers by content.
Alike(v, w) == IF IsNum(v) /\ IsNum(w) THEN Ratio(v)[1] * Ratio(w)[2] = Ratio(w)[1] * Ratio(v)[2]
               ELSE v[1] = w[1] /\ v[2] = w[2]
Equals(heap, v, w) ==
  LET same[a \in Refs(heap), b \in Refs(heap)] ==
        LET p == heap[a[2]]  q == heap[b[2]]
            equal(x, y) == IF x \in Refs(heap) /\ y \in Refs(heap) THEN same[x, y] ELSE Alike(x, y)
        IN /\ a[1] = b[1] /\ Len(p) = Len(q)
           /\ \A i \in DOMAIN p : IF IsA(a, "List") THEN equal(p[i], q[i])
                                  ELSE HasKey(q, p[i][1]) /\ equal(p[i][2], Find(q, p[i][1]))
  IN IF v \in Refs(heap) /\ w \in Refs(heap) THEN same[v, w] ELSE Alike(v, w)

\* What write_json shows of a value: the tree, without the sharing and
\* without the keys that begin with "__".
Internal(key) == Len(key) > 1 /\ SubSeq(key, 1, 2) = "__"
Shown(dict)   == SelectSeq(dict, LAMBDA p : ~Internal(p[1]))
Json(heap, v) ==
  LET tree[r \in Refs(heap)] ==
        LET box == IF IsA(r, "List") THEN heap[r[2]] ELSE Shown(heap[r[2]])
            leaf(x) == IF x \in Refs(heap) THEN tree[x] ELSE x
        IN <<r[1], [i \in DOMAIN box |-> IF IsA(r, "List") THEN leaf(box[i]) ELSE <<box[i][1], leaf(box[i][2])>>]>>
  IN IF v \in Refs(heap) THEN tree[v] ELSE v
JsonDict(heap, dict) ==
  <<"Dict", [i \in DOMAIN Shown(dict) |-> <<Shown(dict)[i][1], Json(heap, Shown(dict)[i][2])>>]>>

\* Division of C++ truncates towards zero and the remainder follows it.
Abs(n)    == IF n < 0 THEN -n ELSE n
Quot(a, b) == LET q == Abs(a) \div Abs(b) IN IF (a < 0) = (b < 0) THEN q ELSE -q
Rem(a, b)  == a - b * Quot(a, b)

(***************************************************************************)
(* The operators of the language on two values: a failure is a value of    *)
(* type "error" whose load names the message.  The strings of the models   *)
(* are ordered as Lexicon lists them.                                      *)
(***************************************************************************)
Lexicon == <<"", "a", "ab", "b", "k">>
Place(s) == CHOOSE i \in DOMAIN Lexicon : Lexicon[i] = s
Error(message) == <<"error", message>>

Arith(op, a, b) ==
  LET p == Ratio(a)  q == Ratio(b)  ints == IsA(a, "int") /\ IsA(b, "int")
      n == CASE op = "+" -> p[1] * q[2] + q[1] * p[2]
             [] op = "-" -> p[1] * q[2] - q[1] * p[2]
             [] OTHER    -> p[1] * q[1]
  IN CASE ~(IsNum(a) /\ IsNum(b)) -> Error("arithmetic")
       [] op = "%" -> IF ~ints THEN Error("% of floats")
                      ELSE IF b[2] = 0 THEN Error("% by zero") ELSE Integer(Rem(a[2], b[2]))
       [] op = "/" -> IF q[1] = 0 THEN Error("/ by zero")
                      ELSE IF ints /\ Rem(a[2], b[2]) = 0 THEN Integer(Quot(a[2], b[2]))
                      ELSE Real(<<p[1] * q[2], p[2] * q[1]>>)
       [] OTHER -> IF ints THEN Integer(n) ELSE Real(<<n, p[2] * q[2]>>)

Compare(op, a, b) ==
  LET less(x, y) == CASE op = "<" -> x < y [] op = "<=" -> x <= y
                      [] op = ">" -> x > y [] OTHER -> x >= y
      p == Ratio(a)  q == Ratio(b)
  IN CASE IsNum(a) /\ IsNum(b) -> Boolean(less(p[1] * q[2] * p[2] * q[2], q[1] * p[2] * p[2] * q[2]))
       [] IsA(a, "string") /\ IsA(b, "string") -> Boolean(less(Place(a[2]), Place(b[2])))
       [] OTHER -> Error("comparison")
=============================================================================
