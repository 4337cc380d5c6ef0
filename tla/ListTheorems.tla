---------------------------- MODULE ListTheorems ----------------------------
(***************************************************************************)
(* Facts about lists that the proofs of several modules need.              *)
(***************************************************************************)
EXTENDS Naturals, Sequences, FiniteSets, SequencesExt, Lists, FiniteSetTheorems, TLAPS

\* Element x is in list l, and it is there once at most.
In(x, l)   == \E i \in 1..Len(l) : l[i] = x
Once(x, l) == \A i, j \in 1..Len(l) : l[i] = x /\ l[j] = x => i = j

\* A function on 1..n is a list of length n.
LEMMA FunctionIsList ==
    ASSUME NEW S, NEW n \in Nat, NEW f \in [1..n -> S]
    PROVE  f \in Seq(S) /\ Len(f) = n /\ DOMAIN f = 1..n
OBVIOUS

\* The first element of a list, and the others.
LEMMA HeadTail ==
    ASSUME NEW S, NEW l \in Seq(S), l # <<>>
    PROVE  /\ Len(l) \in Nat \ {0} /\ Head(l) = l[1] /\ Head(l) \in S
           /\ Tail(l) \in Seq(S)
           /\ Len(Tail(l)) = Len(l) - 1
           /\ \A i \in 1..(Len(l) - 1) : Tail(l)[i] = l[i + 1]
OBVIOUS

\* What becomes of positions when the first element is taken.
LEMMA TailPositions ==
    ASSUME NEW S, NEW l \in Seq(S), l # <<>>
    PROVE  /\ 1 \in 1..Len(l) /\ Head(l) = l[1]
           /\ \A i \in 1..Len(Tail(l)) : i + 1 \in 1..Len(l) /\ i + 1 # 1 /\ Tail(l)[i] = l[i + 1]
           /\ \A i \in 1..Len(l) : i # 1 => i - 1 \in 1..Len(Tail(l)) /\ Tail(l)[i - 1] = l[i]
<1>1. /\ Len(l) \in Nat \ {0} /\ Head(l) = l[1]
      /\ Len(Tail(l)) = Len(l) - 1
      /\ \A i \in 1..(Len(l) - 1) : Tail(l)[i] = l[i + 1]
  BY HeadTail
<1>2. \A n \in Nat \ {0} : /\ 1 \in 1..n
                           /\ \A i \in 1..(n - 1) : i + 1 \in 1..n /\ i + 1 # 1
                           /\ \A i \in 1..n : i # 1 => i - 1 \in 1..(n - 1) /\ (i - 1) + 1 = i
  OBVIOUS
<1> QED
  BY <1>1, <1>2, Zenon

\* The first element is taken, and the others stay.
LEMMA TailElements ==
    ASSUME NEW S, NEW l \in Seq(S), l # <<>>
    PROVE  /\ In(Head(l), l)
           /\ \A x : In(x, Tail(l)) => In(x, l)
           /\ \A x : In(x, l) /\ x # Head(l) => In(x, Tail(l))
           /\ \A x : Once(x, l) => Once(x, Tail(l))
           /\ Once(Head(l), l) => ~In(Head(l), Tail(l))
<1>1. /\ 1 \in 1..Len(l) /\ Head(l) = l[1]
      /\ \A i \in 1..Len(Tail(l)) : i + 1 \in 1..Len(l) /\ i + 1 # 1 /\ Tail(l)[i] = l[i + 1]
      /\ \A i \in 1..Len(l) : i # 1 => i - 1 \in 1..Len(Tail(l)) /\ Tail(l)[i - 1] = l[i]
  BY TailPositions
<1>2. In(Head(l), l)
  <2>1. 1 \in 1..Len(l) /\ l[1] = Head(l)
    BY <1>1
  <2> QED
    BY <2>1, Zenon DEF In
<1>3. \A x : In(x, Tail(l)) => In(x, l)
  BY <1>1, ZenonT(30) DEF In
<1>4. \A x : In(x, l) /\ x # Head(l) => In(x, Tail(l))
  BY <1>1, ZenonT(30) DEF In
<1>5. \A i, j \in 1..Len(Tail(l)) : i + 1 = j + 1 => i = j
  <2>1. \A i, j \in Int : i + 1 = j + 1 => i = j
    OBVIOUS
  <2>2. \A n : \A i \in 1..n : i \in Int
    OBVIOUS
  <2> QED
    BY <2>1, <2>2, Zenon
<1>6. \A x : Once(x, l) => Once(x, Tail(l))
  <2> SUFFICES ASSUME NEW x, Once(x, l), NEW i \in 1..Len(Tail(l)), NEW j \in 1..Len(Tail(l)),
                      Tail(l)[i] = x, Tail(l)[j] = x
               PROVE  i = j
    BY Zenon DEF Once
  <2>1. i + 1 \in 1..Len(l) /\ j + 1 \in 1..Len(l) /\ l[i + 1] = x /\ l[j + 1] = x
    BY <1>1, Zenon
  <2>2. i + 1 = j + 1
    BY <2>1, Zenon DEF Once
  <2> QED
    BY <1>5, <2>2, Zenon
<1>7. Once(Head(l), l) => ~In(Head(l), Tail(l))
  <2> SUFFICES ASSUME Once(Head(l), l), NEW i \in 1..Len(Tail(l)), Tail(l)[i] = Head(l)
               PROVE  FALSE
    BY Zenon DEF In
  <2>1. i + 1 \in 1..Len(l) /\ i + 1 # 1 /\ l[i + 1] = Head(l)
    BY <1>1, Zenon
  <2> QED
    BY <1>1, <2>1, Zenon DEF Once
<1> QED
  BY <1>2, <1>3, <1>4, <1>6, <1>7, Zenon

\* An element is added at the end.
LEMMA AppendElements ==
    ASSUME NEW S, NEW l \in Seq(S), NEW v
    PROVE  /\ \A x : In(x, Append(l, v)) <=> In(x, l) \/ x = v
           /\ \A x : Once(x, l) /\ (x # v \/ ~In(x, l)) => Once(x, Append(l, v))
<1>1. /\ Len(l) \in Nat
      /\ Len(Append(l, v)) = Len(l) + 1
      /\ Append(l, v)[Len(l) + 1] = v
      /\ \A i \in 1..Len(l) : Append(l, v)[i] = l[i]
  OBVIOUS
<1>2. \A n \in Nat : /\ n + 1 \in 1..(n + 1)
                     /\ 1..n \subseteq 1..(n + 1)
                     /\ \A i \in 1..(n + 1) : i \in 1..n \/ i = n + 1
  OBVIOUS
<1>3. /\ Len(l) + 1 \in 1..Len(Append(l, v))
      /\ 1..Len(l) \subseteq 1..Len(Append(l, v))
      /\ \A i \in 1..Len(Append(l, v)) : i \in 1..Len(l) \/ i = Len(l) + 1
  BY <1>1, <1>2, Zenon
<1>4. \A x : In(x, Append(l, v)) <=> In(x, l) \/ x = v
  BY <1>1, <1>3, Zenon DEF In
<1>5. \A x : Once(x, l) /\ (x # v \/ ~In(x, l)) => Once(x, Append(l, v))
  <2> SUFFICES ASSUME NEW x, Once(x, l), x # v \/ ~In(x, l),
                      NEW i \in 1..Len(Append(l, v)), NEW j \in 1..Len(Append(l, v)),
                      Append(l, v)[i] = x, Append(l, v)[j] = x
               PROVE  i = j
    BY Zenon DEF Once
  <2>1. (i \in 1..Len(l) /\ l[i] = x) \/ (i = Len(l) + 1 /\ x = v)
    BY <1>1, <1>3, Zenon
  <2>2. (j \in 1..Len(l) /\ l[j] = x) \/ (j = Len(l) + 1 /\ x = v)
    BY <1>1, <1>3, Zenon
  <2> QED
    BY <2>1, <2>2, Zenon DEF Once, In
<1> QED
  BY <1>4, <1>5, Zenon

\* An element is put before the others.
LEMMA ConsElements ==
    ASSUME NEW S, NEW l \in Seq(S), NEW v \in S
    PROVE  /\ <<v>> \o l \in Seq(S)
           /\ \A x : In(x, <<v>> \o l) <=> In(x, l) \/ x = v
           /\ \A x : Once(x, l) /\ x # v => Once(x, <<v>> \o l)
           /\ Len(<<v>> \o l) = Len(l) + 1
           /\ (<<v>> \o l)[1] = v
           /\ \A i \in 1..Len(l) : (<<v>> \o l)[i + 1] = l[i]
<1> DEFINE m == <<v>> \o l
<1>1. m \in Seq(S) /\ Len(l) \in Nat /\ Len(m) = Len(l) + 1
  OBVIOUS
<1>2. m[1] = v /\ \A i \in 1..Len(l) : m[i + 1] = l[i]
  OBVIOUS
<1>3. \A n \in Nat : /\ 1 \in 1..(n + 1)
                     /\ \A i \in 1..n : i + 1 \in 1..(n + 1)
                     /\ \A i \in 1..(n + 1) : i = 1 \/ (i - 1 \in 1..n /\ (i - 1) + 1 = i)
                     /\ \A i, j \in 1..(n + 1) : i - 1 = j - 1 => i = j
  OBVIOUS
<1> HIDE DEF m
<1>4. /\ 1 \in 1..Len(m)
      /\ \A i \in 1..Len(l) : i + 1 \in 1..Len(m)
      /\ \A i \in 1..Len(m) : i = 1 \/ (i - 1 \in 1..Len(l) /\ (i - 1) + 1 = i)
      /\ \A i, j \in 1..Len(m) : i - 1 = j - 1 => i = j
  BY <1>1, <1>3, Zenon
<1>5. \A i \in 1..Len(m) : i = 1 \/ (i - 1 \in 1..Len(l) /\ m[i] = l[i - 1])
  BY <1>2, <1>4, Zenon
<1>6. \A x : In(x, m) <=> In(x, l) \/ x = v
  <2>1. \A x : In(x, m) => In(x, l) \/ x = v
    BY <1>2, <1>5, Zenon DEF In
  <2>2. \A x : In(x, l) => In(x, m)
    BY <1>2, <1>4, Zenon DEF In
  <2>3. In(v, m)
    BY <1>2, <1>4, Zenon DEF In
  <2> QED
    BY <2>1, <2>2, <2>3, Zenon
<1>7. \A x : Once(x, l) /\ x # v => Once(x, m)
  <2> SUFFICES ASSUME NEW x, Once(x, l), x # v, NEW i \in 1..Len(m), NEW j \in 1..Len(m),
                      m[i] = x, m[j] = x
               PROVE  i = j
    BY Zenon DEF Once
  <2>1. i - 1 \in 1..Len(l) /\ l[i - 1] = x /\ j - 1 \in 1..Len(l) /\ l[j - 1] = x
    BY <1>2, <1>5, Zenon
  <2>2. i - 1 = j - 1
    BY <2>1, Zenon DEF Once
  <2> QED
    BY <1>4, <2>2, Zenon
<1> QED
  BY <1>1, <1>2, <1>6, <1>7, Zenon DEF m

\* The elements of a finite set in some order.
LEMMA SetElements ==
    ASSUME NEW S, IsFiniteSet(S)
    PROVE  /\ SetToSeq(S) \in Seq(S)
           /\ \A x : In(x, SetToSeq(S)) => x \in S
           /\ \A x : Once(x, SetToSeq(S))
<1> DEFINE n == Cardinality(S)
           f == SetToSeq(S)
<1>1. n \in Nat /\ ExistsBijection(1..n, S)
  BY FS_CardinalityType
<1>2. PICK g \in Bijection(1..n, S) : TRUE
  BY <1>1 DEF ExistsBijection
<1>3. g \in [1..n -> S] /\ IsInjective(g)
  BY <1>2 DEF Bijection, Injection
<1>4. f \in [1..n -> S] /\ IsInjective(f)
  BY <1>3 DEF SetToSeq
<1> HIDE DEF n, f
<1>5. f \in Seq(S) /\ Len(f) = n /\ DOMAIN f = 1..n
  BY <1>1, <1>4, FunctionIsList
<1>6. \A x : In(x, f) => x \in S
  BY <1>4, <1>5 DEF In
<1>7. \A x : Once(x, f)
  BY <1>4, <1>5 DEF Once, IsInjective
<1> QED
  BY <1>5, <1>6, <1>7 DEF f

\* Element x is in list l after all those of set T.
After(x, T, l) == \E i \in 1..Len(l) : /\ l[i] = x
                                       /\ \A j \in 1..Len(l) : l[j] \in T => j <= i

LEMMA AfterAppend ==
    ASSUME NEW S, NEW l \in Seq(S), NEW v, NEW x, NEW T
    PROVE  /\ After(x, T, Append(l, x))
           /\ v \notin T /\ After(x, T, l) => After(x, T, Append(l, v))
<1>1. ASSUME NEW w
      PROVE  /\ Len(l) \in Nat
             /\ Len(Append(l, w)) = Len(l) + 1
             /\ Append(l, w)[Len(l) + 1] = w
             /\ \A i \in 1..Len(l) : Append(l, w)[i] = l[i]
  OBVIOUS
<1>2. \A n \in Nat : /\ n + 1 \in 1..(n + 1)
                     /\ \A i \in 1..n : i \in 1..(n + 1)
                     /\ \A i \in 1..(n + 1) : i <= n + 1 /\ (i = n + 1 \/ i \in 1..n)
  OBVIOUS
<1>3. /\ Len(l) + 1 \in 1..(Len(l) + 1)
      /\ \A i \in 1..Len(l) : i \in 1..(Len(l) + 1)
      /\ \A i \in 1..(Len(l) + 1) : i <= Len(l) + 1 /\ (i = Len(l) + 1 \/ i \in 1..Len(l))
  BY <1>1, <1>2, Zenon
<1>4. After(x, T, Append(l, x))
  <2>1. /\ Len(Append(l, x)) = Len(l) + 1
        /\ Append(l, x)[Len(l) + 1] = x
    BY <1>1
  <2>2. /\ Len(l) + 1 \in 1..Len(Append(l, x))
        /\ \A j \in 1..Len(Append(l, x)) : j <= Len(l) + 1
    BY <1>3, <2>1
  <2> QED
    BY <2>1, <2>2, Zenon DEF After
<1>5. ASSUME v \notin T, After(x, T, l) PROVE After(x, T, Append(l, v))
  <2>1. PICK i \in 1..Len(l) : l[i] = x /\ \A j \in 1..Len(l) : l[j] \in T => j <= i
    BY <1>5 DEF After
  <2>2. i \in 1..Len(Append(l, v)) /\ Append(l, v)[i] = x
    BY <1>1, <1>3, <2>1, Zenon
  <2>3. \A j \in 1..Len(Append(l, v)) : Append(l, v)[j] \in T => j <= i
    BY <1>1, <1>3, <1>5, <2>1, Zenon
  <2> QED
    BY <2>2, <2>3, Zenon DEF After
<1> QED
  BY <1>4, <1>5

LEMMA AfterCons ==
    ASSUME NEW S, NEW l \in Seq(S), NEW v \in S, NEW x, NEW T, After(x, T, l)
    PROVE  After(x, T, <<v>> \o l)
<1> DEFINE m == <<v>> \o l
<1>1. /\ Len(l) \in Nat /\ Len(m) = Len(l) + 1
      /\ \A i \in 1..Len(l) : m[i + 1] = l[i]
  BY ConsElements
<1> HIDE DEF m
<1>2. PICK i \in 1..Len(l) : l[i] = x /\ \A j \in 1..Len(l) : l[j] \in T => j <= i
  BY DEF After
<1>3. i + 1 \in 1..Len(m) /\ m[i + 1] = x
  BY <1>1, <1>2
<1>4. ASSUME NEW j \in 1..Len(m), m[j] \in T PROVE j <= i + 1
  <2>1. j = 1 \/ (j - 1 \in 1..Len(l) /\ (j - 1) + 1 = j)
    BY <1>1
  <2>2. CASE j = 1
    BY <2>2
  <2>3. CASE j - 1 \in 1..Len(l) /\ (j - 1) + 1 = j
    <3>1. l[j - 1] = m[j]
      BY <1>1, <2>3
    <3>2. j - 1 <= i
      BY <1>2, <1>4, <2>3, <3>1
    <3> QED
      BY <3>2
  <2> QED
    BY <2>1, <2>2, <2>3
<1>5. After(x, T, m)
  BY <1>3, <1>4 DEF After
<1> QED
  BY <1>5 DEF m

\* The first element is taken: x itself, or one before it.
LEMMA AfterTail ==
    ASSUME NEW S, NEW l \in Seq(S), l # <<>>, NEW x, NEW T, After(x, T, l)
    PROVE  \/ After(x, T, Tail(l))
           \/ Head(l) = x /\ \A y \in T : ~In(y, Tail(l))
<1>1. /\ 1 \in 1..Len(l) /\ Head(l) = l[1]
      /\ \A i \in 1..Len(Tail(l)) : i + 1 \in 1..Len(l) /\ i + 1 # 1 /\ Tail(l)[i] = l[i + 1]
      /\ \A i \in 1..Len(l) : i # 1 => i - 1 \in 1..Len(Tail(l)) /\ Tail(l)[i - 1] = l[i]
  BY TailPositions
<1>2. PICK i \in 1..Len(l) : l[i] = x /\ \A j \in 1..Len(l) : l[j] \in T => j <= i
  BY DEF After
<1>3. CASE i = 1
  <2>1. \A j \in 1..Len(Tail(l)) : Tail(l)[j] \notin T
    <3> SUFFICES ASSUME NEW j \in 1..Len(Tail(l)), Tail(l)[j] \in T PROVE FALSE
      OBVIOUS
    <3>1. j + 1 <= 1
      BY <1>1, <1>2, <1>3, Zenon
    <3> QED
      BY <3>1
  <2> QED
    BY <1>1, <1>2, <1>3, <2>1, Zenon DEF In
<1>4. CASE i # 1
  <2>1. i - 1 \in 1..Len(Tail(l)) /\ Tail(l)[i - 1] = x
    BY <1>1, <1>2, <1>4, Zenon
  <2>2. ASSUME NEW j \in 1..Len(Tail(l)), Tail(l)[j] \in T PROVE j <= i - 1
    <3>1. j + 1 <= i
      BY <1>1, <1>2, <2>2, Zenon
    <3> QED
      BY <3>1
  <2> QED
    BY <2>1, <2>2, Zenon DEF After
<1> QED
  BY <1>3, <1>4

-----------------------------------------------------------------------------
(* Neighbours in a list change places.                                     *)

Swapped(l, i) == [l EXCEPT ![i] = l[i + 1], ![i + 1] = l[i]]

\* Where the elements go.
LEMMA SwappedPositions ==
    ASSUME NEW S, NEW l \in Seq(S), NEW i \in 1..(Len(l) - 1)
    PROVE  /\ Swapped(l, i) \in Seq(S) /\ Len(Swapped(l, i)) = Len(l)
           /\ i \in 1..Len(l) /\ i + 1 \in 1..Len(l) /\ i # i + 1
           /\ Swapped(l, i)[i] = l[i + 1] /\ Swapped(l, i)[i + 1] = l[i]
           /\ \A j \in 1..Len(l) : j # i /\ j # i + 1 => Swapped(l, i)[j] = l[j]
<1>1. i \in 1..Len(l) /\ i + 1 \in 1..Len(l) /\ i # i + 1 /\ Len(l) \in Nat
  OBVIOUS
<1>2. l \in [1..Len(l) -> S]
  OBVIOUS
<1>3. Swapped(l, i) \in [1..Len(l) -> S]
  BY <1>1, <1>2 DEF Swapped
<1>4. Swapped(l, i) \in Seq(S) /\ Len(Swapped(l, i)) = Len(l)
  BY <1>1, <1>3, FunctionIsList
<1> QED
  BY <1>1, <1>2, <1>4 DEF Swapped

\* The elements are the same, and a last one that comes after others still does,
\* unless it overtakes one of them.
LEMMA SwappedElements ==
    ASSUME NEW S, NEW l \in Seq(S), NEW i \in 1..(Len(l) - 1)
    PROVE  /\ \A x : In(x, Swapped(l, i)) <=> In(x, l)
           /\ \A x : Once(x, l) => Once(x, Swapped(l, i))
           /\ \A x, T : After(x, T, l) /\ (l[i] \notin T \/ l[i + 1] # x) => After(x, T, Swapped(l, i))
<1> DEFINE m == Swapped(l, i)
<1>1. /\ Len(m) = Len(l) /\ Len(l) \in Nat
      /\ i \in 1..Len(l) /\ i + 1 \in 1..Len(l) /\ i # i + 1
      /\ m[i] = l[i + 1] /\ m[i + 1] = l[i]
      /\ \A j \in 1..Len(l) : j # i /\ j # i + 1 => m[j] = l[j]
  BY SwappedPositions
<1> HIDE DEF m
<1>2. PICK f : f = [j \in 1..Len(l) |-> IF j = i THEN i + 1 ELSE IF j = i + 1 THEN i ELSE j]
  OBVIOUS
<1>3. /\ f \in [1..Len(l) -> 1..Len(l)]
      /\ \A j \in 1..Len(l) : f[f[j]] = j /\ m[j] = l[f[j]] /\ l[j] = m[f[j]]
  BY <1>1, <1>2
<1>4. \A x : In(x, m) <=> In(x, l)
  BY <1>1, <1>3 DEF In
<1>5. \A x : Once(x, l) => Once(x, m)
  <2> SUFFICES ASSUME NEW x, Once(x, l), NEW a \in 1..Len(l), NEW b \in 1..Len(l), m[a] = x, m[b] = x
               PROVE  a = b
    BY <1>1 DEF Once
  <2>1. f[a] = f[b]
    BY <1>3 DEF Once
  <2> QED
    BY <1>3, <2>1
<1>6. ASSUME NEW x, NEW T, After(x, T, l), l[i] \notin T \/ l[i + 1] # x
      PROVE  After(x, T, m)
  <2>1. PICK n \in 1..Len(l) : l[n] = x /\ \A j \in 1..Len(l) : l[j] \in T => j <= n
    BY <1>6 DEF After
  <2>2. ASSUME NEW j \in 1..Len(l), m[j] \in T PROVE j <= f[n]
    <3>1. f[j] \in 1..Len(l) /\ l[f[j]] \in T
      BY <1>3, <2>2
    <3>2. f[j] <= n
      BY <2>1, <3>1
    <3>3. ~(f[j] = i /\ n = i + 1)
      BY <1>6, <2>1, <3>1
    <3> QED
      BY <1>1, <1>2, <2>1, <3>2, <3>3
  <2>3. f[n] \in 1..Len(l) /\ m[f[n]] = x
    BY <1>3, <2>1
  <2> QED
    BY <1>1, <2>2, <2>3 DEF After
<1> QED
  BY <1>4, <1>5, <1>6 DEF m

-----------------------------------------------------------------------------
(* Sublists.                                                               *)

\* The number of a position among positions K.
Rank(K) == [i \in K |-> Cardinality({j \in K : j <= i})]

\* The positions that are kept are numbered from one to as many as there are.
LEMMA Ranks ==
    ASSUME NEW m \in Nat, NEW K \in SUBSET (1..m)
    PROVE  /\ Cardinality(K) \in Nat
           /\ Rank(K) \in [K -> 1..Cardinality(K)]
           /\ \A i, j \in K : Rank(K)[i] = Rank(K)[j] => i = j
           /\ \A n \in 1..Cardinality(K) : \E i \in K : Rank(K)[i] = n
<1> DEFINE below(i) == {j \in K : j <= i}
           N == Cardinality(K)
           f == Rank(K)
<1>1. IsFiniteSet(K) /\ N \in Nat /\ K \subseteq Nat
  <2>2. IsFiniteSet(1..m)
    BY FS_Interval
  <2>4. IsFiniteSet(K)
    BY <2>2, FS_Subset
  <2> QED
    BY <2>4, FS_CardinalityType
<1>2. \A i \in K : IsFiniteSet(below(i)) /\ Cardinality(below(i)) \in 1..N
  <2> TAKE i \in K
  <2>1. below(i) \in SUBSET K /\ i \in below(i)
    BY <1>1
  <2>2. /\ IsFiniteSet(below(i))
        /\ Cardinality(below(i)) <= N
    BY <1>1, <2>1, FS_Subset
  <2>3. Cardinality(below(i)) \in Nat /\ Cardinality(below(i)) # 0
    BY <2>1, <2>2, FS_CardinalityType, FS_EmptySet
  <2> QED
    BY <1>1, <2>2, <2>3
<1>3. f = [i \in K |-> Cardinality(below(i))]
  BY DEF Rank
<1>4. \A i, j \in K : i < j => f[i] # f[j]
  <2> SUFFICES ASSUME NEW i \in K, NEW j \in K, i < j, f[i] = f[j]
               PROVE  FALSE
    OBVIOUS
  <2>a. i \in Nat /\ j \in Nat /\ \A x \in K : x \in Nat
    BY <1>1
  <2>b. j <= j /\ ~(j <= i) /\ \A x \in K : x <= i => x <= j
    BY <2>a
  <2>1. below(i) \in SUBSET below(j) /\ j \in below(j) /\ j \notin below(i)
    BY <2>b, Zenon
  <2>2. Cardinality(below(i)) = Cardinality(below(j))
    BY <1>3
  <2>3. below(j) = below(i)
    BY <1>2, <2>1, <2>2, FS_Subset
  <2> QED
    BY <2>1, <2>3
<1>5. \A i, j \in K : f[i] = f[j] => i = j
  BY <1>1, <1>4
<1>6. f \in [K -> 1..N]
  BY <1>2, <1>3
<1>7. f \in Injection(K, 1..N)
  BY <1>5, <1>6 DEF Injection, IsInjective
<1>8. IsFiniteSet(1..N) /\ Cardinality(1..N) = N
  BY <1>1, FS_Interval
<1>9. f \in Surjection(K, 1..N)
  BY <1>7, <1>8, FS_Injection
<1>10. \A n \in 1..N : \E i \in K : f[i] = n
  BY <1>9 DEF Surjection
<1> QED
  BY <1>1, <1>5, <1>6, <1>10

\* A sublist has the elements that are kept, in their order.
LEMMA SublistIsList ==
    ASSUME NEW S, NEW l \in Seq(S), NEW K \in SUBSET (1..Len(l))
    PROVE  /\ Sublist(l, K) \in Seq(S)
           /\ Len(Sublist(l, K)) = Cardinality(K)
           /\ \A i \in K : Rank(K)[i] \in 1..Len(Sublist(l, K)) /\ Sublist(l, K)[Rank(K)[i]] = l[i]
           /\ \A n \in 1..Len(Sublist(l, K)) :
                 \E i \in K : n = Rank(K)[i] /\ Sublist(l, K)[n] = l[i]
<1> DEFINE N == Cardinality(K)
           f == Rank(K)
           at(n) == CHOOSE i \in K : Cardinality({j \in K : j <= i}) = n
<1>1. /\ N \in Nat
      /\ f \in [K -> 1..N]
      /\ \A i, j \in K : f[i] = f[j] => i = j
      /\ \A n \in 1..N : \E i \in K : f[i] = n
  <2>1. Len(l) \in Nat
    OBVIOUS
  <2> QED
    BY <2>1, Ranks
<1>2. \A i \in K : f[i] = Cardinality({j \in K : j <= i})
  BY DEF Rank
<1>4. Sublist(l, K) = [n \in 1..N |-> l[at(n)]]
  BY Zenon DEF Sublist
<1>5. \A n \in 1..N : at(n) \in K /\ f[at(n)] = n
  <2> TAKE n \in 1..N
  <2>1. \E i \in K : Cardinality({j \in K : j <= i}) = n
    <3>1. PICK i \in K : f[i] = n
      BY <1>1
    <3>2. Cardinality({j \in K : j <= i}) = n
      BY <1>2, <3>1
    <3> QED
      BY <3>2
  <2>2. at(n) \in K /\ Cardinality({j \in K : j <= at(n)}) = n
    BY <2>1, Zenon
  <2> QED
    BY <1>2, <2>2, Zenon
<1> HIDE DEF N, f, at
<1>7. [n \in 1..N |-> l[at(n)]] \in Seq(S) /\ Len([n \in 1..N |-> l[at(n)]]) = N
  <2>1. \A i \in 1..Len(l) : l[i] \in S
    OBVIOUS
  <2>2. \A n \in 1..N : l[at(n)] \in S
    BY <1>5, <2>1
  <2> QED
    BY <1>1, <2>2
<1>8. \A i \in K : at(f[i]) = i
  BY <1>1, <1>5
<1>9. \A i \in K : f[i] \in 1..N /\ Sublist(l, K)[f[i]] = l[i]
  BY <1>1, <1>4, <1>8
<1>10. \A n \in 1..N : \E i \in K : n = f[i] /\ Sublist(l, K)[n] = l[i]
  BY <1>4, <1>5
<1> QED
  BY <1>4, <1>7, <1>9, <1>10 DEF N, f

\* Nothing gets into a sublist, or gets into it twice; what is at a position that is
\* kept stays.
LEMMA SublistElements ==
    ASSUME NEW S, NEW l \in Seq(S), NEW K \in SUBSET (1..Len(l))
    PROVE  /\ Sublist(l, K) \in Seq(S)
           /\ \A i \in K : In(l[i], Sublist(l, K))
           /\ \A x : In(x, Sublist(l, K)) => \E i \in K : l[i] = x
           /\ \A x : Once(x, l) => Once(x, Sublist(l, K))
<1> DEFINE m == Sublist(l, K)
<1>1. /\ m \in Seq(S)
      /\ \A i \in K : Rank(K)[i] \in 1..Len(m) /\ m[Rank(K)[i]] = l[i]
      /\ \A n \in 1..Len(m) : \E i \in K : n = Rank(K)[i] /\ m[n] = l[i]
  BY SublistIsList
<1> HIDE DEF m
<1>2. \A i \in K : In(l[i], m)
  BY <1>1, Zenon DEF In
<1>3. ASSUME NEW x, In(x, m) PROVE \E i \in K : l[i] = x
  <2>1. PICK n \in 1..Len(m) : m[n] = x
    BY <1>3, Zenon DEF In
  <2>2. PICK i \in K : m[n] = l[i]
    BY <1>1, Zenon
  <2> QED
    BY <2>1, <2>2, Zenon
<1>4. \A x : Once(x, l) => Once(x, m)
  <2> SUFFICES ASSUME NEW x, Once(x, l), NEW i \in 1..Len(m), NEW j \in 1..Len(m),
                      m[i] = x, m[j] = x
               PROVE  i = j
    BY Zenon DEF Once
  <2>1. PICK a \in K : i = Rank(K)[a] /\ m[i] = l[a]
    BY <1>1, Zenon
  <2>2. PICK b \in K : j = Rank(K)[b] /\ m[j] = l[b]
    BY <1>1, Zenon
  <2>3. a \in 1..Len(l) /\ b \in 1..Len(l)
    OBVIOUS
  <2>4. a = b
    BY <2>1, <2>2, <2>3, Zenon DEF Once
  <2> QED
    BY <2>1, <2>2, <2>4
<1> QED
  BY <1>1, <1>2, <1>3, <1>4 DEF m

=============================================================================
