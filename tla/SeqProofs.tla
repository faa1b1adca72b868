------------------------------- MODULE SeqProofs -------------------------------
(***************************************************************************)
(* Lemmas about lists, for the proofs about BootOrder and about the lines  *)
(* on a console.  They hold for lists of any length over any set.  The     *)
(* induction they need is over the order on Nat (Least): the induction     *)
(* theorems of the library take an operator, which no prover here can be   *)
(* given, but a well-founded order has a least element of every set.       *)
(***************************************************************************)
EXTENDS SeqWithout, SequencesExt, SequenceTheorems, FiniteSetTheorems,
        WellFoundedInduction, TLAPS

\* A set of numbers that is not empty has a least one.
LEMMA Least ==
  ASSUME NEW T, T \subseteq Nat, T # {}
  PROVE  \E m \in T : \A k \in T : m <= k
<1> DEFINE R == {ss \in Nat \X Nat : ss[1] < ss[2]}
<1>1. IsWellFoundedOn(R, Nat)
  BY NatLessThanWellFounded DEF OpToRel
<1>2. PICK m \in T : \A k \in T : <<k, m>> \notin R
  <2> HIDE DEF R
  <2> QED
    BY <1>1, WFMin
<1>3. ASSUME NEW k \in T PROVE m <= k
  <2>1. <<k, m>> \notin R
    BY <1>2
  <2> QED
    BY <2>1
<1> QED
  BY <1>3

\* The least member that the choices of the code take is a member.
LEMMA MinIn ==
  ASSUME NEW T, T \subseteq Nat, T # {}
  PROVE  Min(T) \in T
BY Least DEF Min

\* What holds of 0, and of n + 1 whenever it holds of n, holds up to N.
LEMMA UpTo ==
  ASSUME NEW T, NEW N \in Nat, 0 \in T, \A n \in 0..N : n \in T /\ n < N => n + 1 \in T
  PROVE  0..N \subseteq T
<1> DEFINE D == {n \in 0..N : n \notin T}
<1> SUFFICES ASSUME D # {} PROVE FALSE
  OBVIOUS
<1>1. PICK m \in D : \A k \in D : m <= k
  <2>1. D \subseteq Nat
    OBVIOUS
  <2> HIDE DEF D
  <2> QED
    BY <2>1, Least
<1>2. m \in 0..N /\ m \notin T /\ m # 0
  OBVIOUS
<1>3. m - 1 \in 0..N /\ m - 1 < N
  BY <1>2
<1>4. m - 1 \in T
  BY <1>1, <1>3
<1> QED
  BY <1>2, <1>3, <1>4

\* What holds of the empty list, and is kept by appending, holds of every list:
\* a shortest counterexample would be Append(s, x) for an s that is none.
LEMMA SeqInduction ==
  ASSUME NEW S, NEW T, <<>> \in T,
         \A s \in Seq(S), x \in S : s \in T => Append(s, x) \in T
  PROVE  Seq(S) \subseteq T
<1> SUFFICES ASSUME NEW s0 \in Seq(S), s0 \notin T PROVE FALSE
  OBVIOUS
<1> DEFINE L == {n \in Nat : \E s \in Seq(S) : s \notin T /\ Len(s) = n}
<1>1. L \subseteq Nat /\ Len(s0) \in L
  OBVIOUS
<1>2. PICK m \in L : \A k \in L : m <= k
  <2> HIDE DEF L
  <2> QED BY <1>1, Least
<1>3. PICK s \in Seq(S) : s \notin T /\ Len(s) = m
  BY <1>2
<1>4. s # <<>>
  BY <1>3
<1>5. PICK t \in Seq(S), x \in S : s = Append(t, x)
  BY <1>4, SequenceEmptyOrAppend
<1>6. t \notin T
  BY <1>3, <1>5
<1>7. Len(t) \in L /\ Len(t) < m
  BY <1>3, <1>5, <1>6
<1> QED
  BY <1>2, <1>7

\* The functions f with f[0] = a and f[i] = g[f[i - 1], i].
Steps(S, n) == [S \X (1..n) -> S]
Solves(f, S, n, a, g) ==
  f \in [0..n -> S] /\ f[0] = a /\ \A i \in 1..n : f[i] = g[f[i - 1], i]

\* The same of a function whose values are not yet known to be in S.
Follows(f, S, n, a, g) ==
  /\ f = [i \in 0..n |-> f[i]]
  /\ f[0] = a /\ \A i \in 1..n : f[i - 1] \in S => f[i] = g[f[i - 1], i]

\* A function that is defined by what it is at 0, and by a step from each place to
\* the next, exists: one exists on 0..k for every k, built up a place at a time.
LEMMA Recursion ==
  ASSUME NEW S, NEW n \in Nat, NEW a \in S, NEW g \in Steps(S, n)
  PROVE  \E f : Solves(f, S, n, a, g)
<1> DEFINE Good(k, f) == Solves(f, S, k, a, g)
           T == {k \in 0..n : \E f : Good(k, f)}
<1>0. g \in [S \X (1..n) -> S]
  BY DEF Steps
<1>1. 0 \in T
  <2>1. Good(0, [i \in 0..0 |-> a])
    BY DEF Solves
  <2> HIDE DEF Good
  <2> QED
    BY <2>1
<1> HIDE DEF T
<1>2. ASSUME NEW k \in 0..n, k \in T, k < n PROVE k + 1 \in T
  <2>1. PICK f : Good(k, f)
    BY <1>2 DEF T
  <2>k. k \in Nat /\ k \in 0..k /\ k + 1 \in 1..n /\ k + 1 \in 0..n
    BY <1>2
  <2>2. f \in [0..k -> S] /\ f[0] = a /\ f[k] \in S
    BY <2>1, <2>k DEF Solves
  <2>3. \A i \in 1..k : f[i] = g[f[i - 1], i]
    BY <2>1 DEF Solves
  <2> DEFINE last == g[f[k], k + 1]
             h == [i \in 0..k + 1 |-> IF i = k + 1 THEN last ELSE f[i]]
  <2>4. last \in S
    BY <1>0, <2>2, <2>k
  <2> HIDE DEF Good, last
  <2>5. h \in [0..k + 1 -> S]
    <3>1. \A i \in 0..k + 1 : i # k + 1 => i \in 0..k
      BY <2>k
    <3> QED
      BY <2>2, <2>4, <3>1
  <2>6. h[0] = a /\ h[k + 1] = last /\ \A i \in 0..k : h[i] = f[i]
    BY <1>0, <2>2, <2>k
  <2> HIDE DEF h
  <2>7. ASSUME NEW i \in 1..k + 1 PROVE h[i] = g[h[i - 1], i]
    <3>1. i - 1 \in 0..k /\ (i # k + 1 => i \in 1..k /\ i \in 0..k) /\ (i = k + 1 => i - 1 = k)
      BY <2>k
    <3> QED
      BY <2>3, <2>6, <3>1 DEF last
  <2>8. Good(k + 1, h)
    BY <2>5, <2>6, <2>7 DEF Good, Solves
  <2> QED
    BY <2>k, <2>8 DEF T
<1>3. 0..n \subseteq T
  BY <1>1, <1>2, UpTo
<1>4. n \in T
  BY <1>3
<1> QED
  BY <1>4 DEF T

\* Its values are in S, since each is made of the one before it.
LEMMA RecursionTyped ==
  ASSUME NEW S, NEW n \in Nat, NEW a \in S, NEW g \in Steps(S, n), NEW f, Follows(f, S, n, a, g)
  PROVE  Solves(f, S, n, a, g)
<1> DEFINE T == {i \in 0..n : f[i] \in S}
<1>0. f[0] = a
  BY DEF Follows
<1>1. 0 \in T
  BY <1>0
<1>2. ASSUME NEW i \in 0..n, i \in T, i < n PROVE i + 1 \in T
  <2>1. i + 1 \in 1..n /\ i + 1 \in 0..n /\ (i + 1) - 1 = i /\ f[i] \in S
    BY <1>2
  <2>2. f[i + 1] = g[f[i], i + 1]
    BY <2>1 DEF Follows
  <2>3. g[f[i], i + 1] \in S
    BY <2>1 DEF Steps
  <2> QED
    BY <2>1, <2>2, <2>3
<1>3. 0..n \subseteq T
  <2> HIDE DEF T
  <2> QED
    BY <1>1, <1>2, UpTo
<1>4. \A i \in 0..n : f[i] \in S
  BY <1>3
<1>5. \A i \in 1..n : f[i] = g[f[i - 1], i]
  <2> SUFFICES ASSUME NEW i \in 1..n PROVE f[i] = g[f[i - 1], i]
    OBVIOUS
  <2>1. i - 1 \in 0..n
    OBVIOUS
  <2> QED
    BY <1>4, <2>1 DEF Follows
<1> QED
  BY <1>4, <1>5 DEF Follows, Solves

\* The recursion of Without is well defined.
Rest(s, X) ==
  CHOOSE rest : rest = [i \in 0..Len(s) |->
    IF i = 0 THEN <<>>
    ELSE IF s[i] \in X THEN rest[i - 1] ELSE Append(rest[i - 1], s[i])]

\* The recursive function of Without, named.
LEMMA WithoutIsRest == \A s, X : Without(s, X) = Rest(s, X)[Len(s)]
  BY DEF Without, Rest

\* The function is what its equation says: its type, and its values.
LEMMA RestDef ==
  ASSUME NEW S, NEW s \in Seq(S), NEW X
  PROVE  /\ Rest(s, X) \in [0..Len(s) -> Seq(S)]
         /\ Rest(s, X)[0] = <<>>
         /\ \A i \in 1..Len(s) :
              Rest(s, X)[i] = IF s[i] \in X THEN Rest(s, X)[i - 1]
                              ELSE Append(Rest(s, X)[i - 1], s[i])
<1> DEFINE n == Len(s)
           r == Rest(s, X)
           next(t, i) == IF s[i] \in X THEN t ELSE Append(t, s[i])
           g == [x \in Seq(S) \X (1..n) |-> next(x[1], x[2])]
<1>1. n \in Nat /\ <<>> \in Seq(S) /\ \A i \in 1..n : s[i] \in S
  OBVIOUS
<1>2. \A t \in Seq(S), i \in 1..n : next(t, i) \in Seq(S)
  <2> SUFFICES ASSUME NEW t \in Seq(S), NEW i \in 1..n PROVE next(t, i) \in Seq(S)
    OBVIOUS
  <2>1. s[i] \in S
    BY <1>1
  <2>2. Append(t, s[i]) \in Seq(S)
    BY <2>1
  <2> QED
    BY <2>2
<1> HIDE DEF next
<1>3. /\ g \in [Seq(S) \X (1..n) -> Seq(S)]
      /\ \A t \in Seq(S), i \in 1..n : g[t, i] = next(t, i)
  BY <1>2
<1>4. g \in Steps(Seq(S), n)
  BY <1>3 DEF Steps
<1> HIDE DEF g, n
<1>5. PICK f : Solves(f, Seq(S), n, <<>>, g)
  BY <1>1, <1>4, Recursion
<1>6. f = [i \in 0..n |-> IF i = 0 THEN <<>> ELSE next(f[i - 1], i)]
  <2>1. \A i \in 0..n : i # 0 => i \in 1..n /\ i - 1 \in 0..n
    BY <1>1
  <2> QED
    BY <1>3, <1>5, <2>1 DEF Solves
<1>7. r = [i \in 0..n |-> IF i = 0 THEN <<>> ELSE next(r[i - 1], i)]
  BY <1>6 DEF Rest, n, next
<1> HIDE DEF r
<1>8. r[0] = <<>> /\ \A i \in 1..n : r[i] = next(r[i - 1], i)
  BY <1>1, <1>7
<1>9. Follows(r, Seq(S), n, <<>>, g)
  BY <1>3, <1>7, <1>8 DEF Follows
<1>10. Solves(r, Seq(S), n, <<>>, g)
  BY <1>1, <1>4, <1>9, RecursionTyped
<1> QED
  BY <1>8, <1>10 DEF r, n, next, Solves

\* The two equations.
LEMMA RestAt ==
  ASSUME NEW S, NEW s \in Seq(S), NEW X
  PROVE  /\ Rest(s, X)[0] = <<>>
         /\ \A i \in 1..Len(s) :
              Rest(s, X)[i] = IF s[i] \in X THEN Rest(s, X)[i - 1]
                              ELSE Append(Rest(s, X)[i - 1], s[i])
BY RestDef

\* Nothing is left of the empty list.
LEMMA WithoutEmpty == \A X : Without(<<>>, X) = <<>>
<1> TAKE X
<1>1. <<>> \in Seq({}) /\ Len(<<>>) = 0
  OBVIOUS
<1>2. Rest(<<>>, X)[0] = <<>>
  BY <1>1, RestAt
<1> QED
  BY <1>1, <1>2, WithoutIsRest

\* One more member is left out, or comes last in what is left.
LEMMA WithoutAppend ==
  ASSUME NEW S, NEW s \in Seq(S), NEW x \in S, NEW X
  PROVE  /\ x \in X => Without(Append(s, x), X) = Without(s, X)
         /\ x \notin X => Without(Append(s, x), X) = Append(Without(s, X), x)
<1> DEFINE sx == Append(s, x)
           r  == Rest(s, X)
           rx == Rest(sx, X)
           T  == {i \in 0..Len(s) : rx[i] = r[i]}
<1>1. /\ sx \in Seq(S) /\ Len(sx) = Len(s) + 1 /\ Len(s) \in Nat
      /\ \A i \in 1..Len(s) : sx[i] = s[i]
      /\ sx[Len(s) + 1] = x
  OBVIOUS
<1> HIDE DEF sx
<1>2. r[0] = <<>> /\ rx[0] = <<>>
  BY <1>1, RestAt
<1>3. \A i \in 1..Len(s) : r[i] = IF s[i] \in X THEN r[i - 1] ELSE Append(r[i - 1], s[i])
  BY RestAt
<1>4. \A i \in 1..Len(sx) : rx[i] = IF sx[i] \in X THEN rx[i - 1] ELSE Append(rx[i - 1], sx[i])
  BY <1>1, RestAt
<1> HIDE DEF r, rx
<1>5. 0 \in T
  BY <1>1, <1>2
<1>6. ASSUME NEW i \in 0..Len(s), i \in T, i < Len(s) PROVE i + 1 \in T
  <2>1. /\ i + 1 \in 1..Len(s) /\ i + 1 \in 0..Len(s) /\ i + 1 \in 1..Len(sx)
        /\ (i + 1) - 1 = i
    BY <1>1, <1>6
  <2>2. rx[i + 1] = r[i + 1]
    BY <1>1, <1>3, <1>4, <1>6, <2>1
  <2> QED
    BY <2>1, <2>2
<1>7. 0..Len(s) \subseteq T
  <2> HIDE DEF T
  <2> QED
    BY <1>1, <1>5, <1>6, UpTo
<1>8. rx[Len(s)] = r[Len(s)]
  BY <1>1, <1>7
<1>9. rx[Len(s) + 1] = IF x \in X THEN r[Len(s)] ELSE Append(r[Len(s)], x)
  <2>1. Len(s) + 1 \in 1..Len(sx) /\ (Len(s) + 1) - 1 = Len(s)
    BY <1>1
  <2> QED
    BY <1>1, <1>4, <1>8, <2>1
<1>10. Without(sx, X) = rx[Len(s) + 1] /\ Without(s, X) = r[Len(s)]
  BY <1>1, WithoutIsRest DEF r, rx
<1> QED
  BY <1>9, <1>10 DEF sx

\* What is left consists of members of the list.
LEMMA WithoutType ==
  ASSUME NEW S, NEW s \in Seq(S), NEW X
  PROVE  Without(s, X) \in Seq(S)
<1>1. Len(s) \in 0..Len(s)
  OBVIOUS
<1> QED
  BY <1>1, RestDef, WithoutIsRest

\* What Append does, place by place.
LEMMA AppendFacts ==
  ASSUME NEW S, NEW s \in Seq(S), NEW x \in S
  PROVE  /\ Append(s, x) \in Seq(S)
         /\ DOMAIN s = 1..Len(s) /\ DOMAIN Append(s, x) = 1..Len(s) + 1
         /\ \A i \in 1..Len(s) : Append(s, x)[i] = s[i]
         /\ Append(s, x)[Len(s) + 1] = x
         /\ Len(s) \in Nat
OBVIOUS

\* Append adds one member.
LEMMA AppendMembers ==
  ASSUME NEW S, NEW s \in Seq(S), NEW x \in S
  PROVE  ToSet(Append(s, x)) = ToSet(s) \cup {x}
<1> DEFINE sx == Append(s, x)
<1>1. /\ DOMAIN s = 1..Len(s) /\ DOMAIN sx = 1..Len(s) + 1 /\ Len(s) \in Nat
      /\ \A i \in 1..Len(s) : sx[i] = s[i]
      /\ sx[Len(s) + 1] = x
  BY AppendFacts
<1> HIDE DEF sx
<1>2. ToSet(sx) \subseteq ToSet(s) \cup {x}
  BY <1>1 DEF ToSet
<1>3. ToSet(s) \cup {x} \subseteq ToSet(sx)
  BY <1>1 DEF ToSet
<1> QED
  BY <1>2, <1>3 DEF sx

\* A list followed by one more line is both with the line at the end.
LEMMA ConcatAppend ==
  ASSUME NEW S, NEW s \in Seq(S), NEW t \in Seq(S), NEW x \in S
  PROVE  s \o Append(t, x) = Append(s \o t, x)
<1>1. s \o t \in Seq(S) /\ <<x>> \in Seq(S)
  OBVIOUS
<1>2. Append(t, x) = t \o <<x>> /\ Append(s \o t, x) = (s \o t) \o <<x>>
  BY <1>1, AppendIsConcat
<1> QED
  BY <1>1, <1>2, ConcatAssociative

\* Leaving out distributes over concatenation: the rest of BootOrder, and what
\* a console shows, can be looked at piece by piece.
LEMMA WithoutConcat ==
  ASSUME NEW S, NEW s \in Seq(S), NEW t \in Seq(S), NEW X
  PROVE  Without(s \o t, X) = Without(s, X) \o Without(t, X)
<1> DEFINE T == {u \in Seq(S) : Without(s \o u, X) = Without(s, X) \o Without(u, X)}
<1>0. Without(s, X) \in Seq(S)
  BY WithoutType
<1>1. <<>> \in T
  BY <1>0, WithoutEmpty
<1>2. ASSUME NEW u \in Seq(S), NEW x \in S, u \in T PROVE Append(u, x) \in T
  <2>1. /\ s \o Append(u, x) = Append(s \o u, x)
        /\ s \o u \in Seq(S) /\ Append(u, x) \in Seq(S)
    BY ConcatAppend
  <2>2. Without(u, X) \in Seq(S)
    BY WithoutType
  <2>3. Without(s \o u, X) = Without(s, X) \o Without(u, X)
    BY <1>2
  <2>4. CASE x \in X
    <3>1. Without(Append(u, x), X) = Without(u, X)
      BY <2>4, WithoutAppend
    <3>2. Without(Append(s \o u, x), X) = Without(s \o u, X)
      BY <2>1, <2>4, WithoutAppend
    <3> QED
      BY <2>1, <2>3, <3>1, <3>2
  <2>5. CASE x \notin X
    <3>1. Without(Append(u, x), X) = Append(Without(u, X), x)
      BY <2>5, WithoutAppend
    <3>2. Without(Append(s \o u, x), X) = Append(Without(s \o u, X), x)
      BY <2>1, <2>5, WithoutAppend, ZenonT(30)
    <3>3. Append(Without(s, X) \o Without(u, X), x) = Without(s, X) \o Append(Without(u, X), x)
      <4> DEFINE v == Without(s, X)
                 w == Without(u, X)
      <4>1. v \in Seq(S) /\ w \in Seq(S)
        BY <1>0, <2>2
      <4> HIDE DEF v, w
      <4>2. v \o Append(w, x) = Append(v \o w, x)
        BY <4>1, ConcatAppend
      <4> QED
        BY <4>2 DEF v, w
    <3> QED
      BY <2>1, <2>3, <3>1, <3>2, <3>3
  <2> QED
    BY <2>4, <2>5
<1> HIDE DEF T
<1>3. t \in T
  BY <1>1, <1>2, SeqInduction
<1> QED
  BY <1>3 DEF T

\* What is left are the members that are not left out.
LEMMA WithoutMembers ==
  ASSUME NEW S, NEW s \in Seq(S), NEW X
  PROVE  ToSet(Without(s, X)) = ToSet(s) \ X
<1> DEFINE T == {u \in Seq(S) : ToSet(Without(u, X)) = ToSet(u) \ X}
<1>1. <<>> \in T
  BY WithoutEmpty DEF ToSet
<1>2. ASSUME NEW u \in Seq(S), NEW x \in S, u \in T PROVE Append(u, x) \in T
  <2>1. Without(u, X) \in Seq(S) /\ Append(u, x) \in Seq(S)
    BY WithoutType
  <2>2. /\ ToSet(Append(u, x)) = ToSet(u) \cup {x}
        /\ ToSet(Append(Without(u, X), x)) = ToSet(Without(u, X)) \cup {x}
    BY <2>1, AppendMembers
  <2>3. ToSet(Without(u, X)) = ToSet(u) \ X
    BY <1>2
  <2>4. CASE x \in X
    <3>1. Without(Append(u, x), X) = Without(u, X)
      BY <2>4, WithoutAppend
    <3> QED
      BY <2>1, <2>2, <2>3, <2>4, <3>1
  <2>5. CASE x \notin X
    <3>1. Without(Append(u, x), X) = Append(Without(u, X), x)
      BY <2>5, WithoutAppend
    <3> QED
      BY <2>1, <2>2, <2>3, <2>5, <3>1
  <2> QED
    BY <2>4, <2>5
<1> HIDE DEF T
<1>3. s \in T
  BY <1>1, <1>2, SeqInduction
<1> QED
  BY <1>3 DEF T

\* Appending keeps a list without repetitions exactly if the member is new.
LEMMA InjectiveAppend ==
  ASSUME NEW S, NEW s \in Seq(S), NEW x \in S
  PROVE  IsInjective(Append(s, x)) <=> IsInjective(s) /\ x \notin ToSet(s)
<1> DEFINE sx == Append(s, x)
<1>1. /\ DOMAIN s = 1..Len(s) /\ DOMAIN sx = 1..Len(s) + 1 /\ Len(s) \in Nat
      /\ \A i \in 1..Len(s) : sx[i] = s[i]
      /\ sx[Len(s) + 1] = x
  BY AppendFacts
<1> HIDE DEF sx
<1>2. ASSUME IsInjective(sx) PROVE IsInjective(s) /\ x \notin ToSet(s)
  BY <1>1, <1>2 DEF IsInjective, ToSet
<1>3. ASSUME IsInjective(s), x \notin ToSet(s) PROVE IsInjective(sx)
  BY <1>1, <1>3 DEF IsInjective, ToSet
<1> QED
  BY <1>2, <1>3 DEF sx

\* Leaving members out repeats none.
LEMMA WithoutInjective ==
  ASSUME NEW S, NEW s \in Seq(S), NEW X, IsInjective(s)
  PROVE  IsInjective(Without(s, X))
<1> DEFINE T == {u \in Seq(S) : IsInjective(u) => IsInjective(Without(u, X))}
<1>1. <<>> \in T
  BY WithoutEmpty DEF IsInjective
<1>2. ASSUME NEW u \in Seq(S), NEW x \in S, u \in T PROVE Append(u, x) \in T
  <2>1. Without(u, X) \in Seq(S) /\ Append(u, x) \in Seq(S)
    BY WithoutType
  <2>2. ToSet(Without(u, X)) = ToSet(u) \ X
    BY WithoutMembers
  <2>3. ASSUME IsInjective(Append(u, x)) PROVE IsInjective(Without(Append(u, x), X))
    <3>1. IsInjective(u) /\ x \notin ToSet(u) /\ IsInjective(Without(u, X))
      BY <1>2, <2>3, InjectiveAppend
    <3>2. IsInjective(Append(Without(u, X), x))
      BY <2>1, <2>2, <3>1, InjectiveAppend
    <3> QED
      BY <3>1, <3>2, WithoutAppend
  <2> QED
    BY <2>1, <2>3
<1> HIDE DEF T
<1>3. s \in T
  BY <1>1, <1>2, SeqInduction
<1> QED
  BY <1>3 DEF T

\* Leaving out X first makes no difference to leaving out more.
LEMMA WithoutTwice ==
  ASSUME NEW S, NEW s \in Seq(S), NEW X, NEW Y, X \subseteq Y
  PROVE  Without(Without(s, X), Y) = Without(s, Y)
<1> DEFINE T == {u \in Seq(S) : Without(Without(u, X), Y) = Without(u, Y)}
<1>1. <<>> \in T
  BY WithoutEmpty
<1>2. ASSUME NEW u \in Seq(S), NEW x \in S, u \in T PROVE Append(u, x) \in T
  <2>1. Without(u, X) \in Seq(S) /\ Append(u, x) \in Seq(S)
    BY WithoutType
  <2>2. Without(Without(u, X), Y) = Without(u, Y)
    BY <1>2
  <2>3. CASE x \in X
    <3>1. /\ Without(Append(u, x), X) = Without(u, X)
          /\ Without(Append(u, x), Y) = Without(u, Y)
      BY <2>3, WithoutAppend
    <3> QED
      BY <2>1, <2>2, <3>1
  <2>4. CASE x \notin X
    <3>1. Without(Append(u, x), X) = Append(Without(u, X), x)
      BY <2>4, WithoutAppend
    <3>2. CASE x \in Y
      <4>1. /\ Without(Append(Without(u, X), x), Y) = Without(Without(u, X), Y)
            /\ Without(Append(u, x), Y) = Without(u, Y)
        BY <2>1, <3>2, WithoutAppend
      <4> QED
        BY <2>1, <2>2, <3>1, <4>1
    <3>3. CASE x \notin Y
      <4>1. /\ Without(Append(Without(u, X), x), Y) = Append(Without(Without(u, X), Y), x)
            /\ Without(Append(u, x), Y) = Append(Without(u, Y), x)
        BY <2>1, <3>3, WithoutAppend
      <4> QED
        BY <2>1, <2>2, <3>1, <4>1
    <3> QED
      BY <3>2, <3>3
  <2> QED
    BY <2>3, <2>4
<1> HIDE DEF T
<1>3. s \in T
  BY <1>1, <1>2, SeqInduction
<1> QED
  BY <1>3 DEF T

\* Only the members that are listed matter.
LEMMA WithoutSame ==
  ASSUME NEW S, NEW s \in Seq(S), NEW X, NEW Y, \A x \in ToSet(s) : x \in X <=> x \in Y
  PROVE  Without(s, X) = Without(s, Y)
<1> DEFINE T == {u \in Seq(S) : (\A x \in ToSet(u) : x \in X <=> x \in Y)
                                   => Without(u, X) = Without(u, Y)}
<1>1. <<>> \in T
  BY WithoutEmpty
<1>2. ASSUME NEW u \in Seq(S), NEW x \in S, u \in T PROVE Append(u, x) \in T
  <2>1. ToSet(Append(u, x)) = ToSet(u) \cup {x} /\ Append(u, x) \in Seq(S)
    BY AppendMembers
  <2>2. ASSUME \A z \in ToSet(Append(u, x)) : z \in X <=> z \in Y
        PROVE  Without(Append(u, x), X) = Without(Append(u, x), Y)
    <3>1. Without(u, X) = Without(u, Y) /\ (x \in X <=> x \in Y)
      BY <1>2, <2>1, <2>2
    <3>2. CASE x \in X
      <4>1. /\ Without(Append(u, x), X) = Without(u, X)
            /\ Without(Append(u, x), Y) = Without(u, Y)
        BY <3>1, <3>2, WithoutAppend
      <4> QED
        BY <3>1, <4>1
    <3>3. CASE x \notin X
      <4>1. /\ Without(Append(u, x), X) = Append(Without(u, X), x)
            /\ Without(Append(u, x), Y) = Append(Without(u, Y), x)
        BY <3>1, <3>3, WithoutAppend
      <4> QED
        BY <3>1, <4>1
    <3> QED
      BY <3>2, <3>3
  <2> QED
    BY <2>1, <2>2
<1> HIDE DEF T
<1>3. s \in T
  BY <1>1, <1>2, SeqInduction
<1> QED
  BY <1>3 DEF T

\* A list with no member to leave out stays as it is.
LEMMA WithoutNone ==
  ASSUME NEW S, NEW s \in Seq(S), NEW X, ToSet(s) \cap X = {}
  PROVE  Without(s, X) = s
<1> DEFINE T == {u \in Seq(S) : ToSet(u) \cap X = {} => Without(u, X) = u}
<1>1. <<>> \in T
  BY WithoutEmpty
<1>2. ASSUME NEW u \in Seq(S), NEW x \in S, u \in T PROVE Append(u, x) \in T
  <2>1. ToSet(Append(u, x)) = ToSet(u) \cup {x} /\ Append(u, x) \in Seq(S)
    BY AppendMembers
  <2>2. ASSUME ToSet(Append(u, x)) \cap X = {} PROVE Without(Append(u, x), X) = Append(u, x)
    <3>1. Without(u, X) = u /\ x \notin X
      BY <1>2, <2>1, <2>2
    <3> QED
      BY <3>1, WithoutAppend
  <2> QED
    BY <2>1, <2>2
<1> HIDE DEF T
<1>3. s \in T
  BY <1>1, <1>2, SeqInduction
<1> QED
  BY <1>3 DEF T

\* One member put in front.
LEMMA ConsFacts ==
  ASSUME NEW S, NEW s \in Seq(S), NEW x \in S
  PROVE  /\ <<x>> \o s \in Seq(S) /\ <<x>> \o s # <<>>
         /\ DOMAIN (<<x>> \o s) = 1..Len(s) + 1 /\ Len(s) \in Nat
         /\ (<<x>> \o s)[1] = x /\ Head(<<x>> \o s) = x
         /\ \A i \in 2..Len(s) + 1 : (<<x>> \o s)[i] = s[i - 1] /\ s[i - 1] \in ToSet(s)
<1> DEFINE t == <<x>> \o s
<1>0. <<x>> \in Seq(S) /\ Len(<<x>>) = 1 /\ <<x>>[1] = x /\ Len(s) \in Nat
  OBVIOUS
<1>1. /\ t \in Seq(S) /\ Len(t) = Len(s) + 1
      /\ \A i \in 1..Len(s) + 1 : t[i] = IF i <= 1 THEN <<x>>[i] ELSE s[i - 1]
  BY <1>0, ConcatProperties
<1> HIDE DEF t
<1>2. t[1] = x /\ DOMAIN t = 1..Len(s) + 1 /\ t # <<>>
  BY <1>0, <1>1
<1>3. Head(t) = x
  BY <1>1, <1>2
<1>4. ASSUME NEW i \in 2..Len(s) + 1 PROVE t[i] = s[i - 1] /\ s[i - 1] \in ToSet(s)
  <2>1. i \in 1..Len(s) + 1 /\ ~(i <= 1) /\ i - 1 \in 1..Len(s)
    BY <1>0
  <2>2. i - 1 \in DOMAIN s
    BY <2>1
  <2> QED
    BY <1>1, <2>1, <2>2 DEF ToSet
<1> QED
  BY <1>0, <1>1, <1>2, <1>3, <1>4 DEF t

\* A new member in front keeps a list without repetitions.
LEMMA ConsInjective ==
  ASSUME NEW S, NEW s \in Seq(S), NEW x \in S, IsInjective(s), x \notin ToSet(s)
  PROVE  IsInjective(<<x>> \o s)
<1> DEFINE t == <<x>> \o s
<1>1. /\ DOMAIN t = 1..Len(s) + 1 /\ Len(s) \in Nat /\ t[1] = x
      /\ \A i \in 2..Len(s) + 1 : t[i] = s[i - 1] /\ s[i - 1] \in ToSet(s)
  BY ConsFacts
<1> HIDE DEF t
<1>2. ASSUME NEW a \in DOMAIN t, NEW b \in DOMAIN t, t[a] = t[b] PROVE a = b
  <2>1. (a = 1 \/ a \in 2..Len(s) + 1) /\ (b = 1 \/ b \in 2..Len(s) + 1)
    BY <1>1
  <2>2. CASE a = 1 \/ b = 1
    BY <1>1, <1>2, <2>1, <2>2
  <2>3. CASE a \in 2..Len(s) + 1 /\ b \in 2..Len(s) + 1
    <3>1. a - 1 \in DOMAIN s /\ b - 1 \in DOMAIN s /\ s[a - 1] = s[b - 1]
      BY <1>1, <1>2, <2>3
    <3>2. a - 1 = b - 1
      BY <3>1 DEF IsInjective
    <3> QED
      BY <2>3, <3>2
  <2> QED
    BY <2>1, <2>2, <2>3
<1> QED
  BY <1>2 DEF IsInjective, t

\* A list without repetitions is no longer than the set it is drawn from.
LEMMA InjectiveBounded ==
  ASSUME NEW S, IsFiniteSet(S), NEW s \in Seq(S), IsInjective(s)
  PROVE  Len(s) <= Cardinality(S)
<1>1. Len(s) \in Nat /\ s \in [1..Len(s) -> S] /\ DOMAIN s = 1..Len(s)
  OBVIOUS
<1>2. IsFiniteSet(1..Len(s)) /\ Cardinality(1..Len(s)) = Len(s)
  BY <1>1, FS_Interval
<1>3. s \in Injection(1..Len(s), S)
  BY <1>1 DEF IsInjective, Injection
<1>4. Cardinality(1..Len(s)) <= Cardinality(S)
  BY <1>2, <1>3, FS_Injection DEF ExistsInjection
<1> QED
  BY <1>2, <1>4

\* The bounded lists that TLC enumerates are the lists of that length.
LEMMA InBoundedSeq ==
  ASSUME NEW S, NEW k \in Nat, NEW s
  PROVE  s \in BoundedSeq(S, k) <=> s \in Seq(S) /\ Len(s) <= k
<1>1. ASSUME s \in BoundedSeq(S, k) PROVE s \in Seq(S) /\ Len(s) <= k
  <2>1. PICK m \in 0..k : s \in [1..m -> S]
    BY <1>1 DEF BoundedSeq, SeqOf
  <2> QED
    BY <2>1
<1>2. ASSUME s \in Seq(S), Len(s) <= k PROVE s \in BoundedSeq(S, k)
  <2>1. Len(s) \in 0..k /\ s \in [1..Len(s) -> S]
    BY <1>2
  <2> QED
    BY <2>1 DEF BoundedSeq, SeqOf
<1> QED
  BY <1>1, <1>2

===============================================================================
