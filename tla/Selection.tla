------------------------------ MODULE Selection ------------------------------
(***************************************************************************)
(* The elements of a sequence that are in a set, in their order, and what  *)
(* holds of them: what LogStream says of the lines a stream is to receive  *)
(* rests on it.  The definition is recursive; what is said of every        *)
(* sequence is proved by induction over its length, with the set of the    *)
(* lengths for which it holds.                                             *)
(***************************************************************************)
EXTENDS Integers, SequenceTheorems, WellFoundedInduction, TLAPS

\* The order of the natural numbers.
Less == {p \in Nat \X Nat : p[1] < p[2]}

LEMMA LessWellFounded == IsWellFoundedOn(Less, Nat)
  BY NatLessThanWellFounded DEF OpToRel, Less

\* A set of natural numbers with 0 and, with n, its successor holds them all.
LEMMA SetInduction ==
  ASSUME NEW S, 0 \in S, \A n \in Nat : n \in S => n + 1 \in S
  PROVE  Nat \subseteq S
<1> SUFFICES ASSUME Nat \ S # {} PROVE FALSE
  OBVIOUS
<1>1. PICK m \in Nat \ S : \A n \in Nat \ S : ~(<<n, m>> \in Less)
  BY LessWellFounded, WFMin, Zenon
<1>2. m # 0
  OBVIOUS
<1>3. m - 1 \in Nat /\ <<m - 1, m>> \in Less
  BY <1>2 DEF Less
<1>4. m - 1 \in S
  BY <1>1, <1>3
<1> QED
  BY <1>3, <1>4

-----------------------------------------------------------------------------
(* The elements of a sequence that are in W *)

\* f gives, for each i up to n, what is in W of the first i elements of s.
Selects(W, s, n, f) ==
  f = [i \in 0..n |-> IF i = 0 THEN <<>>
                      ELSE IF s[i] \in W THEN Append(f[i - 1], s[i])
                      ELSE f[i - 1]]

LEMMA SelectsExist ==
  ASSUME NEW W, NEW s
  PROVE  \A n \in Nat : \E f : Selects(W, s, n, f)
<1> DEFINE S == {n \in Nat : \E f : Selects(W, s, n, f)}
<1>1. 0 \in S
  <2> DEFINE f == [i \in 0..0 |-> <<>>]
  <2>1. Selects(W, s, 0, f)
    BY DEF Selects
  <2> QED
    BY <2>1
<1>2. ASSUME NEW n \in Nat, n \in S PROVE n + 1 \in S
  <2>1. PICK f : Selects(W, s, n, f)
    BY <1>2
  <2> DEFINE g == [i \in 0..n + 1 |-> IF i <= n THEN f[i]
                                      ELSE IF s[n + 1] \in W THEN Append(f[n], s[n + 1])
                                      ELSE f[n]]
  <2>2. \A i \in 0..n : f[i] = IF i = 0 THEN <<>>
                               ELSE IF s[i] \in W THEN Append(f[i - 1], s[i])
                               ELSE f[i - 1]
    BY <2>1 DEF Selects
  <2>3. \A i \in 0..n + 1 : g[i] = IF i = 0 THEN <<>>
                                   ELSE IF s[i] \in W THEN Append(g[i - 1], s[i])
                                   ELSE g[i - 1]
    <3> SUFFICES ASSUME NEW i \in 0..n + 1
                 PROVE  g[i] = IF i = 0 THEN <<>>
                               ELSE IF s[i] \in W THEN Append(g[i - 1], s[i])
                               ELSE g[i - 1]
      OBVIOUS
    <3>1. CASE i <= n
      BY <2>2, <3>1
    <3>2. CASE i = n + 1
      BY <3>2
    <3> QED
      BY <3>1, <3>2
  <2>4. g = [i \in 0..n + 1 |-> g[i]]
    OBVIOUS
  <2> HIDE DEF g
  <2>5. Selects(W, s, n + 1, g)
    BY <2>3, <2>4 DEF Selects
  <2> QED
    BY <2>5
<1> HIDE DEF S
<1>3. Nat \subseteq S
  BY <1>1, <1>2, SetInduction
<1> QED
  BY <1>3 DEF S

\* Two sequences have their first n elements in common.
Common(s, t, n) == \A i \in 1..n : s[i] = t[i]

\* There is one, on what two sequences have in common.
LEMMA SelectsAgree ==
  ASSUME NEW W, NEW s, NEW t, NEW m \in Nat, NEW n \in Nat, m <= n, NEW f, NEW g,
         Common(s, t, m), Selects(W, s, m, f), Selects(W, t, n, g)
  PROVE  f[m] = g[m]
<1> DEFINE S == {i \in Nat : i <= m => f[i] = g[i]}
<1>0. \A i \in 0..m : f[i] = IF i = 0 THEN <<>>
                             ELSE IF s[i] \in W THEN Append(f[i - 1], s[i])
                             ELSE f[i - 1]
  BY DEF Selects
<1>1. \A i \in 0..n : g[i] = IF i = 0 THEN <<>>
                             ELSE IF t[i] \in W THEN Append(g[i - 1], t[i])
                             ELSE g[i - 1]
  BY DEF Selects
<1>2. 0 \in S
  BY <1>0, <1>1
<1>3. ASSUME NEW i \in Nat, i \in S PROVE i + 1 \in S
  <2>1. CASE i + 1 <= m
    BY <1>0, <1>1, <1>3, <2>1 DEF Common
  <2>2. CASE ~(i + 1 <= m)
    BY <2>2
  <2> QED
    BY <2>1, <2>2
<1> HIDE DEF S
<1>4. Nat \subseteq S
  BY <1>2, <1>3, SetInduction
<1> QED
  BY <1>4 DEF S

\* The elements of s that are in W.
Selected(W, s) == (CHOOSE f : Selects(W, s, Len(s), f))[Len(s)]

\* Any function that follows the definition gives what was selected.
LEMMA SelectedBy ==
  ASSUME NEW W, NEW s, NEW n \in Nat, n = Len(s), NEW f, Selects(W, s, n, f)
  PROVE  Selected(W, s) = f[n]
<1>1. PICK g : g = CHOOSE h : Selects(W, s, n, h)
  OBVIOUS
<1>2. Selects(W, s, n, g)
  BY <1>1
<1>3. Common(s, s, n)
  BY DEF Common
<1>4. f[n] = g[n]
  BY <1>2, <1>3, SelectsAgree
<1> QED
  BY <1>1, <1>4 DEF Selected

LEMMA SelectedEmpty == ASSUME NEW W PROVE Selected(W, <<>>) = <<>>
<1>1. PICK f : Selects(W, <<>>, 0, f)
  BY SelectsExist
<1>2. f[0] = <<>>
  BY <1>1 DEF Selects
<1> QED
  BY <1>1, <1>2, SelectedBy

\* a, and then x when it is in W.
With(W, a, x) == IF x \in W THEN Append(a, x) ELSE a

\* t is s, and then x.
Extends(s, x, t) == t = Append(s, x)

LEMMA SelectedMore ==
  ASSUME NEW W, NEW s, NEW t, NEW n \in Nat, NEW m \in Nat, n = Len(s), m = n + 1, m = Len(t),
         Common(s, t, n)
  PROVE  Selected(W, t) = With(W, Selected(W, s), t[m])
<1>1. PICK f : Selects(W, s, n, f)
  BY SelectsExist
<1>2. PICK g : Selects(W, t, m, g)
  BY SelectsExist
<1>3. Selected(W, s) = f[n] /\ Selected(W, t) = g[m]
  BY <1>1, <1>2, SelectedBy
<1>4. n <= m /\ m - 1 = n /\ m \in 0..m /\ m # 0
  OBVIOUS
<1>5. f[n] = g[n]
  BY <1>1, <1>2, <1>4, SelectsAgree
<1>6. g[m] = With(W, g[n], t[m])
  BY <1>2, <1>4 DEF Selects, With
<1> QED
  BY <1>3, <1>5, <1>6

LEMMA SelectedAppend ==
  ASSUME NEW W, NEW S, NEW s \in Seq(S), NEW x \in S, NEW t, Extends(s, x, t)
  PROVE  Selected(W, t) = With(W, Selected(W, s), x)
<1>1. PICK n \in Nat, m \in Nat : /\ n = Len(s) /\ m = n + 1 /\ m = Len(t) /\ t[m] = x
                                 /\ Common(s, t, n)
  BY DEF Common, Extends
<1> QED
  BY <1>1, SelectedMore

\* A non-empty sequence is the one before its last element, and this element.
LEMMA LastOf ==
  ASSUME NEW S, NEW s \in Seq(S), NEW n \in Nat, NEW m \in Nat, m = n + 1, Len(s) = m
  PROVE  \E t \in Seq(S), x \in S : Extends(t, x, s) /\ Len(t) = n
<1> DEFINE t == [i \in 1..n |-> s[i]]
<1>1. t \in Seq(S) /\ Len(t) = n
  OBVIOUS
<1>2. s = Append(t, s[m]) /\ s[m] \in S
  OBVIOUS
<1> QED
  BY <1>1, <1>2 DEF Extends

LEMMA WithType ==
  ASSUME NEW W, NEW S, NEW a \in Seq(S), NEW x \in S
  PROVE  With(W, a, x) \in Seq(S)
  BY DEF With

LEMMA SelectedType ==
  ASSUME NEW W, NEW S
  PROVE  \A s \in Seq(S) : Selected(W, s) \in Seq(S)
<1> DEFINE T == {n \in Nat : \A s \in Seq(S) : Len(s) = n => Selected(W, s) \in Seq(S)}
<1>1. 0 \in T
  <2> SUFFICES ASSUME NEW s \in Seq(S), Len(s) = 0 PROVE Selected(W, s) \in Seq(S)
    OBVIOUS
  <2>1. s = <<>> /\ <<>> \in Seq(S)
    OBVIOUS
  <2> QED
    BY <2>1, SelectedEmpty
<1>2. ASSUME NEW n \in Nat, n \in T PROVE n + 1 \in T
  <2> SUFFICES ASSUME NEW s \in Seq(S), NEW m \in Nat, m = n + 1, Len(s) = m
               PROVE  Selected(W, s) \in Seq(S)
    OBVIOUS
  <2>1. PICK t \in Seq(S), x \in S : Extends(t, x, s) /\ Len(t) = n
    BY LastOf
  <2>2. Selected(W, t) \in Seq(S)
    BY <1>2, <2>1
  <2> QED
    BY <2>1, <2>2, WithType, SelectedAppend
<1> HIDE DEF T
<1>3. Nat \subseteq T
  BY <1>1, <1>2, SetInduction
<1> QED
  BY <1>3 DEF T

\* What is selected of the first element of r.
First(W, r) == IF Head(r) \in W THEN <<Head(r)>> ELSE <<>>

LEMMA HeadStays ==
  ASSUME NEW W, NEW S, NEW s \in Seq(S), s # <<>>, NEW x \in S, NEW t, Extends(s, x, t)
  PROVE  /\ First(W, t) = First(W, s) /\ First(W, s) \in Seq(S)
         /\ Tail(s) \in Seq(S) /\ Extends(Tail(s), x, Tail(t))
<1>1. Head(t) = Head(s) /\ Tail(t) = Append(Tail(s), x) /\ Tail(s) \in Seq(S) /\ Head(s) \in S
  BY HeadTailAppend, HeadTailProperties DEF Extends
<1>2. <<Head(s)>> \in Seq(S) /\ <<>> \in Seq(S)
  BY <1>1
<1> QED
  BY <1>1, <1>2 DEF First, Extends

\* f, and then a.
Joined(f, a) == f \o a

\* Adding to a concatenation adds to its second part.
LEMMA WithConcat ==
  ASSUME NEW W, NEW S, NEW f \in Seq(S), NEW a \in Seq(S), NEW x \in S
  PROVE  With(W, Joined(f, a), x) = Joined(f, With(W, a, x))
<1>1. Append(f \o a, x) = f \o Append(a, x)
  OBVIOUS
<1> QED
  BY <1>1 DEF With, Joined

\* One element.
LEMMA OneElement ==
  ASSUME NEW W, NEW S, NEW x \in S, NEW s, Extends(<<>>, x, s)
  PROVE  Tail(s) = <<>> /\ First(W, s) = With(W, <<>>, x) /\ Joined(First(W, s), <<>>) = First(W, s)
<1>1. s = <<x>> /\ Head(s) = x /\ Tail(s) = <<>>
  BY DEF Extends
<1>2. Append(<<>>, x) = <<x>>
  OBVIOUS
<1>3. First(W, s) = With(W, <<>>, x)
  BY <1>1, <1>2 DEF First, With
<1>4. First(W, s) \in Seq(S)
  BY <1>1 DEF First
<1> QED
  BY <1>1, <1>3, <1>4 DEF Joined

\* What is selected of a sequence starts with what is selected of its first element.
LEMMA SelectedHead ==
  ASSUME NEW W, NEW S
  PROVE  \A s \in Seq(S) : s # <<>> => Selected(W, s) = Joined(First(W, s), Selected(W, Tail(s)))
<1> DEFINE Fits(s) == Selected(W, s) = Joined(First(W, s), Selected(W, Tail(s)))
           T == {n \in Nat : \A s \in Seq(S) : Len(s) = n => s = <<>> \/ Fits(s)}
<1>1. 0 \in T
  OBVIOUS
<1>2. ASSUME NEW n \in Nat, n \in T PROVE n + 1 \in T
  <2> SUFFICES ASSUME NEW s \in Seq(S), NEW m \in Nat, m = n + 1, Len(s) = m PROVE Fits(s)
    OBVIOUS
  <2> HIDE DEF Fits
  <2>1. PICK t \in Seq(S), x \in S : Extends(t, x, s) /\ Len(t) = n
    BY LastOf
  <2>2. Extends(t, x, s)
    BY <2>1
  <2>3. Selected(W, s) = With(W, Selected(W, t), x)
    BY <2>2, SelectedAppend
  <2>4. CASE t = <<>>
    <3>1. Extends(<<>>, x, s)
      BY <2>2, <2>4
    <3>2. Selected(W, t) = <<>>
      BY <2>4, SelectedEmpty
    <3>3. Selected(W, Tail(s)) = <<>>
      BY <3>1, OneElement, SelectedEmpty
    <3>4. Selected(W, s) = With(W, <<>>, x)
      BY <2>3, <3>2, Zenon
    <3> QED
      BY <3>1, <3>3, <3>4, OneElement, Zenon DEF Fits
  <2>5. CASE t # <<>>
    <3>1. PICK f \in Seq(S), r \in Seq(S), u \in Seq(S) :
            f = First(W, t) /\ f = First(W, s) /\ r = Tail(t) /\ u = Tail(s) /\ Extends(r, x, u)
      <4>1. /\ First(W, s) = First(W, t) /\ First(W, t) \in Seq(S)
            /\ Tail(t) \in Seq(S) /\ Extends(Tail(t), x, Tail(s))
        BY <2>2, <2>5, HeadStays
      <4>2. Tail(s) \in Seq(S)
        BY <4>1 DEF Extends
      <4> QED
        BY <4>1, <4>2
    <3>2. PICK a \in Seq(S) : a = Selected(W, r)
      BY SelectedType
    <3>3. Fits(t)
      BY <1>2, <2>1, <2>5
    <3>4. Selected(W, t) = Joined(f, a)
      BY <3>1, <3>2, <3>3 DEF Fits
    <3>5. Selected(W, u) = With(W, a, x)
      <4>1. Extends(r, x, u)
        BY <3>1
      <4> QED
        BY <3>2, <4>1, SelectedAppend
    <3>6. With(W, Joined(f, a), x) = Joined(f, With(W, a, x))
      BY WithConcat
    <3> QED
      BY <2>3, <3>1, <3>4, <3>5, <3>6 DEF Fits
  <2> QED
    BY <2>4, <2>5
<1> HIDE DEF T
<1>3. Nat \subseteq T
  BY <1>1, <1>2, SetInduction
<1> QED
  BY <1>3 DEF T
=============================================================================
