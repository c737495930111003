----------------------------- MODULE TextProofs -----------------------------
(* Theorems about TypedText, for any texts and any number of edits and of   *)
(* datagrams under way, lost and overtaken.                                 *)
EXTENDS TypedText, LinkProofs, WellFoundedInduction
-----------------------------------------------------------------------------
(* Induction, of a set of numbers: the library's theorems of induction take an *)
(* operator, which no prover here can choose; the least number outside the     *)
(* set does without.                                                           *)
LEMMA NumbersInduction ==
  ASSUME NEW S \in SUBSET Nat, 0 \in S, \A n \in S : n + 1 \in S
  PROVE  S = Nat
<1> SUFFICES ASSUME Nat \ S # {} PROVE FALSE
  OBVIOUS
<1> DEFINE T == Nat \ S
           R == OpToRel(<, Nat)
<1>1. IsWellFoundedOn(R, Nat)
  BY NatLessThanWellFounded
<1> HIDE DEF R
<1>2. PICK x \in T : \A y \in T : <<y, x>> \notin R
  BY <1>1, WFMin
<1>3. x \in Nat /\ x - 1 \in T /\ x - 1 \in Nat /\ x - 1 < x
  <2>1. x \in Nat /\ x # 0
    BY <1>2
  <2>2. x - 1 \in Nat /\ (x - 1) + 1 = x
    BY <2>1
  <2> QED
    BY <1>2, <2>1, <2>2
<1>4. <<x - 1, x>> \in R
  BY <1>3 DEF R, OpToRel
<1> QED
  BY <1>2, <1>3, <1>4
-----------------------------------------------------------------------------
(* FlattenSeq, through the function that its definition chooses *)

\* f[i] is the first i sequences of ss, joined; for i up to n.
Joins(f, ss, n) ==
  \A i \in 1..n : f[i] = IF i = 1 THEN ss[i] ELSE f[i - 1] \o ss[i]

LEMMA JoinsExists ==
  ASSUME NEW X, NEW ss \in Seq(Seq(X))
  PROVE  \E f \in [1..Len(ss) -> Seq(X)] : Joins(f, ss, Len(ss))
<1> DEFINE Good(n) == n <= Len(ss) => \E f \in [1..n -> Seq(X)] : Joins(f, ss, n)
           S == {n \in Nat : Good(n)}
<1>1. Len(ss) \in Nat /\ \A i \in 1..Len(ss) : ss[i] \in Seq(X)
  OBVIOUS
<1>2. Good(0)
  <2>1. <<>> \in [1..0 -> Seq(X)] /\ Joins(<<>>, ss, 0)
    BY DEF Joins
  <2> QED
    BY <2>1
<1>3. ASSUME NEW n \in Nat, Good(n) PROVE Good(n + 1)
  <2> SUFFICES ASSUME n + 1 <= Len(ss)
               PROVE  \E g \in [1..(n + 1) -> Seq(X)] : Joins(g, ss, n + 1)
    OBVIOUS
  <2>1. n <= Len(ss)
    BY <1>1
  <2>2. PICK f \in [1..n -> Seq(X)] : Joins(f, ss, n)
    BY <1>3, <2>1
  <2> DEFINE last == IF n = 0 THEN ss[n + 1] ELSE f[n] \o ss[n + 1]
             g == [i \in 1..(n + 1) |-> IF i <= n THEN f[i] ELSE last]
  <2>3. last \in Seq(X)
    <3>1. ss[n + 1] \in Seq(X)
      BY <1>1
    <3>2. CASE n = 0
      BY <3>1, <3>2
    <3>3. CASE n # 0
      <4>1. f[n] \in Seq(X)
        BY <3>3
      <4> QED
        BY <3>1, <3>3, <4>1, ConcatProperties
    <3> QED
      BY <3>2, <3>3
  <2> HIDE DEF last
  <2>4. g \in [1..(n + 1) -> Seq(X)]
    BY <2>3
  <2>5. ASSUME NEW i \in 1..(n + 1)
        PROVE  g[i] = IF i = 1 THEN ss[i] ELSE g[i - 1] \o ss[i]
    <3>1. i # 1 => i - 1 \in 1..n /\ g[i - 1] = f[i - 1]
      OBVIOUS
    <3>2. CASE i <= n
      <4>1. i \in 1..n /\ g[i] = f[i]
        BY <3>2
      <4>2. f[i] = IF i = 1 THEN ss[i] ELSE f[i - 1] \o ss[i]
        BY <2>2, <4>1 DEF Joins
      <4> QED
        BY <3>1, <4>1, <4>2
    <3>3. CASE i = n + 1
      <4>1. g[i] = last /\ i - 1 = n
        BY <3>3
      <4>2. last = IF i = 1 THEN ss[i] ELSE f[i - 1] \o ss[i]
        BY <3>3, <4>1 DEF last
      <4> QED
        BY <3>1, <4>1, <4>2
    <3> QED
      BY <3>2, <3>3
  <2> HIDE DEF g
  <2>6. Joins(g, ss, n + 1)
    BY <2>5 DEF Joins
  <2> QED
    BY <2>4, <2>6
<1> HIDE DEF Good
<1>4. S = Nat
  <2>1. S \subseteq Nat /\ 0 \in S /\ \A n \in S : n + 1 \in S
    BY <1>2, <1>3
  <2> HIDE DEF S
  <2> QED
    BY <2>1, NumbersInduction
<1>5. Good(Len(ss))
  BY <1>1, <1>4
<1> QED
  BY <1>1, <1>5 DEF Good

LEMMA FlattenOf ==
  ASSUME NEW X, NEW ss \in Seq(Seq(X)), Len(ss) # 0,
         NEW f \in [1..Len(ss) -> Seq(X)], Joins(f, ss, Len(ss))
  PROVE  FlattenSeq(ss) = f[Len(ss)]
<1> DEFINE Body(g) == [i \in 1..Len(ss) |-> IF i = 1 THEN ss[i] ELSE g[i - 1] \o ss[i]]
           F == CHOOSE flatten : flatten = Body(flatten)
           S == {n \in Nat : n \in 1..Len(ss) => F[n] = f[n]}
<1>1. FlattenSeq(ss) = F[Len(ss)]
  BY DEF FlattenSeq
<1>2. f = Body(f)
  BY DEF Joins
<1>3. F = Body(F)
  BY <1>2
<1> HIDE DEF F
<1>4. ASSUME NEW n \in S PROVE n + 1 \in S
  <2>1. n \in Nat /\ (n \in 1..Len(ss) => F[n] = f[n])
    OBVIOUS
  <2> SUFFICES ASSUME n + 1 \in 1..Len(ss) PROVE F[n + 1] = f[n + 1]
    BY <2>1
  <2>2. (n + 1) - 1 = n /\ (n + 1 # 1 => n \in 1..Len(ss))
    BY <2>1
  <2>3. F[n + 1] = IF n + 1 = 1 THEN ss[n + 1] ELSE F[n] \o ss[n + 1]
    BY <1>3, <2>2
  <2>4. f[n + 1] = IF n + 1 = 1 THEN ss[n + 1] ELSE f[n] \o ss[n + 1]
    BY <2>2 DEF Joins
  <2> QED
    BY <2>1, <2>2, <2>3, <2>4
<1>5. 0 \in S
  OBVIOUS
<1>6. S = Nat
  <2> HIDE DEF S
  <2>1. S \subseteq Nat
    BY DEF S
  <2> QED
    BY <1>4, <1>5, <2>1, NumbersInduction
<1>7. Len(ss) \in Nat /\ Len(ss) \in 1..Len(ss)
  OBVIOUS
<1>8. F[Len(ss)] = f[Len(ss)]
  BY <1>6, <1>7
<1> QED
  BY <1>1, <1>8

LEMMA FlattenAppend ==
  ASSUME NEW X, NEW ss \in Seq(Seq(X)), NEW s \in Seq(X)
  PROVE  FlattenSeq(Append(ss, s)) = FlattenSeq(ss) \o s
<1> DEFINE n == Len(ss)
           more == Append(ss, s)
<1>1. /\ more \in Seq(Seq(X)) /\ Len(more) = n + 1 /\ n \in Nat
      /\ \A i \in 1..n : more[i] = ss[i]
      /\ more[n + 1] = s
  BY AppendProperties
<1> HIDE DEF more
<1>2. PICK f \in [1..Len(more) -> Seq(X)] : Joins(f, more, Len(more))
  BY <1>1, JoinsExists
<1>3. FlattenSeq(more) = f[n + 1]
  <2>1. Len(more) # 0
    BY <1>1
  <2> QED
    BY <1>1, <1>2, <2>1, FlattenOf
<1>4. f[n + 1] = IF n + 1 = 1 THEN more[n + 1] ELSE f[(n + 1) - 1] \o more[n + 1]
  <2>1. n + 1 \in 1..Len(more)
    BY <1>1
  <2> QED
    BY <1>2, <2>1 DEF Joins
<1>5. CASE n = 0
  <2>1. FlattenSeq(ss) = ss /\ ss = <<>>
    BY <1>5, EmptySeq DEF FlattenSeq
  <2>2. FlattenSeq(more) = s
    BY <1>1, <1>3, <1>4, <1>5
  <2>3. <<>> \o s = s
    BY ConcatEmptySeq
  <2> QED
    BY <2>1, <2>2, <2>3 DEF more
<1>6. CASE n # 0
  <2> DEFINE g == [i \in 1..n |-> f[i]]
  <2>1. g \in [1..Len(ss) -> Seq(X)]
    BY <1>1, <1>2
  <2>2. Joins(g, ss, Len(ss))
    <3> SUFFICES ASSUME NEW i \in 1..Len(ss)
                 PROVE  g[i] = IF i = 1 THEN ss[i] ELSE g[i - 1] \o ss[i]
      BY DEF Joins
    <3>1. i \in 1..Len(more) /\ (i # 1 => i - 1 \in 1..n)
      BY <1>1
    <3>2. f[i] = IF i = 1 THEN more[i] ELSE f[i - 1] \o more[i]
      BY <1>2, <3>1 DEF Joins
    <3> QED
      BY <1>1, <3>1, <3>2
  <2>3. FlattenSeq(ss) = g[n]
    BY <1>6, <2>1, <2>2, FlattenOf
  <2>4. g[n] = f[n] /\ (n + 1) - 1 = n /\ n + 1 # 1
    BY <1>1, <1>6
  <2>5. FlattenSeq(more) = f[n] \o s
    BY <1>1, <1>3, <1>4, <2>4
  <2> QED
    BY <2>3, <2>4, <2>5 DEF more
<1> QED
  BY <1>5, <1>6

\* s with each element x replaced by the sequence f[x].
Replaced(s, f) == FlattenSeq([i \in DOMAIN s |-> f[s[i]]])

\* Named, to be cited as one fact: the provers lose themselves in its instances.
Associative(S) == \A a, b, c \in S : (a \o b) \o c = a \o (b \o c)

LEMMA JoinIsAssociative == \A X : Associative(Seq(X))
BY ConcatAssociative DEF Associative

LEMMA ReplacedEmpty ==
  ASSUME NEW f
  PROVE  Replaced(<<>>, f) = <<>>
<1>1. [i \in DOMAIN <<>> |-> f[<<>>[i]]] = <<>>
  OBVIOUS
<1> QED
  BY <1>1 DEF Replaced, FlattenSeq

LEMMA ReplacedAppend ==
  ASSUME NEW X, NEW Y, NEW f \in [X -> Seq(Y)], NEW s \in Seq(X), NEW x \in X
  PROVE  Replaced(Append(s, x), f) = Replaced(s, f) \o f[x]
<1> DEFINE ss == [i \in DOMAIN s |-> f[s[i]]]
           more == [i \in DOMAIN Append(s, x) |-> f[Append(s, x)[i]]]
<1>1. Len(s) \in Nat /\ DOMAIN s = 1..Len(s) /\ \A i \in 1..Len(s) : s[i] \in X
  OBVIOUS
<1>2. ss \in Seq(Seq(Y)) /\ Len(ss) = Len(s)
  <2>1. ss \in [1..Len(s) -> Seq(Y)]
    BY <1>1
  <2> QED
    BY <1>1, <2>1
<1>3. f[x] \in Seq(Y)
  OBVIOUS
<1>4. more = Append(ss, f[x])
  <2>1. /\ DOMAIN Append(s, x) = 1..(Len(s) + 1)
        /\ \A i \in 1..Len(s) : Append(s, x)[i] = s[i]
        /\ Append(s, x)[Len(s) + 1] = x
    BY <1>1, AppendProperties
  <2>2. /\ DOMAIN Append(ss, f[x]) = 1..(Len(s) + 1)
        /\ \A i \in 1..Len(s) : Append(ss, f[x])[i] = f[s[i]]
        /\ Append(ss, f[x])[Len(s) + 1] = f[x]
    <3>1. \A i \in 1..Len(s) : ss[i] = f[s[i]]
      BY <1>1
    <3> HIDE DEF ss
    <3> QED
      BY <1>1, <1>2, <1>3, <3>1, AppendProperties, LenProperties
  <2>3. DOMAIN more = 1..(Len(s) + 1)
    BY <2>1
  <2>4. ASSUME NEW i \in 1..(Len(s) + 1) PROVE more[i] = Append(ss, f[x])[i]
    BY <1>1, <2>1, <2>2
  <2>5. Append(ss, f[x]) \in Seq(Seq(Y))
    BY <1>2, <1>3, AppendProperties
  <2>6. Append(ss, f[x]) = [i \in 1..(Len(s) + 1) |-> Append(ss, f[x])[i]]
    BY <2>2, <2>5
  <2> HIDE DEF ss
  <2> QED
    BY <2>1, <2>4, <2>6
<1> HIDE DEF ss, more
<1>5. FlattenSeq(Append(ss, f[x])) = FlattenSeq(ss) \o f[x]
  BY <1>2, <1>3, FlattenAppend
<1> QED
  BY <1>4, <1>5 DEF Replaced, ss, more

\* Every sequence is empty, or one that is a place shorter with an element more.
LEMMA LastAppended ==
  ASSUME NEW X, NEW n \in Nat, NEW s \in Seq(X), Len(s) = n + 1
  PROVE  \E t \in Seq(X), x \in X : s = Append(t, x) /\ Len(t) = n
<1>1. s # <<>>
  BY EmptySeq
<1>2. PICK t \in Seq(X), x \in X : s = Append(t, x)
  BY <1>1, SequenceEmptyOrAppend
<1>3. Len(t) = n
  BY <1>2, AppendProperties, LenProperties
<1> QED
  BY <1>2, <1>3

\* What every f[x] is, and joining keeps, the whole is.
LEMMA ReplacedIn ==
  ASSUME NEW X, NEW Y, NEW f \in [X -> Seq(Y)], NEW s \in Seq(X),
         NEW C, <<>> \in C, \A a, b \in C : a \o b \in C,
         \A x \in X : f[x] \in C
  PROVE  Replaced(s, f) \in C
<1>0. \A w \in Seq(X), x \in X : Replaced(Append(w, x), f) = Replaced(w, f) \o f[x]
  BY ReplacedAppend
<1> DEFINE S == {n \in Nat : \A t \in Seq(X) : Len(t) = n => Replaced(t, f) \in C}
<1>1. 0 \in S
  BY EmptySeq, ReplacedEmpty
<1>2. ASSUME NEW n \in S PROVE n + 1 \in S
  <2> SUFFICES ASSUME NEW t \in Seq(X), Len(t) = n + 1 PROVE Replaced(t, f) \in C
    OBVIOUS
  <2>1. n \in Nat /\ \A u \in Seq(X) : Len(u) = n => Replaced(u, f) \in C
    OBVIOUS
  <2>2. PICK u \in Seq(X), x \in X : t = Append(u, x) /\ Len(u) = n
    BY <2>1, LastAppended
  <2>3. Replaced(t, f) = Replaced(u, f) \o f[x]
    BY <1>0, <2>2
  <2> QED
    BY <2>1, <2>2, <2>3
<1>3. S \subseteq Nat
  OBVIOUS
<1> HIDE DEF S
<1>4. S = Nat
  BY <1>1, <1>2, <1>3, NumbersInduction
<1> QED
  BY <1>4, LenProperties DEF S

LEMMA ReplacedType ==
  ASSUME NEW X, NEW Y, NEW f \in [X -> Seq(Y)], NEW s \in Seq(X)
  PROVE  Replaced(s, f) \in Seq(Y)
<1>1. /\ <<>> \in Seq(Y) /\ \A x \in X : f[x] \in Seq(Y)
      /\ \A a, b \in Seq(Y) : a \o b \in Seq(Y)
  BY ConcatProperties
<1> QED
  BY <1>1, ReplacedIn

LEMMA ReplacedJoin ==
  ASSUME NEW X, NEW Y, NEW f \in [X -> Seq(Y)], NEW s \in Seq(X), NEW t \in Seq(X)
  PROVE  Replaced(s \o t, f) = Replaced(s, f) \o Replaced(t, f)
<1>0. Associative(Seq(X)) /\ Associative(Seq(Y))
  BY JoinIsAssociative
<1> DEFINE Good(u) == Replaced(s \o u, f) = Replaced(s, f) \o Replaced(u, f)
           S == {n \in Nat : \A u \in Seq(X) : Len(u) = n => Good(u)}
<1>1. 0 \in S
  <2>1. Good(<<>>)
    <3>1. Replaced(s, f) \in Seq(Y)
      BY ReplacedType
    <3> QED
      BY <3>1, ReplacedEmpty, ConcatEmptySeq
  <2> HIDE DEF Good
  <2> QED
    BY <2>1, EmptySeq
<1>2. ASSUME NEW n \in S PROVE n + 1 \in S
  <2> SUFFICES ASSUME NEW u \in Seq(X), Len(u) = n + 1 PROVE Good(u)
    OBVIOUS
  <2>1. n \in Nat /\ \A v \in Seq(X) : Len(v) = n => Good(v)
    OBVIOUS
  <2>2. PICK v \in Seq(X), x \in X : u = Append(v, x) /\ Len(v) = n
    BY <2>1, LastAppended
  <2>3. s \o u = Append(s \o v, x) /\ s \o v \in Seq(X)
    <3>1. s \o v \in Seq(X) /\ <<x>> \in Seq(X)
      BY ConcatProperties
    <3>2. u = v \o <<x>> /\ Append(s \o v, x) = (s \o v) \o <<x>>
      BY <2>2, <3>1, AppendIsConcat
    <3>3. (s \o v) \o <<x>> = s \o (v \o <<x>>)
      BY <1>0, <3>1 DEF Associative
    <3> QED
      BY <3>1, <3>2, <3>3
  <2>4. /\ Replaced(s \o u, f) = Replaced(s \o v, f) \o f[x]
        /\ Replaced(u, f) = Replaced(v, f) \o f[x]
    <3>1. \A w \in Seq(X) : Replaced(Append(w, x), f) = Replaced(w, f) \o f[x]
      BY ReplacedAppend
    <3> QED
      BY <2>2, <2>3, <3>1
  <2>5. Replaced(s \o v, f) = Replaced(s, f) \o Replaced(v, f)
    BY <2>1, <2>2
  <2>6. /\ Replaced(s, f) \in Seq(Y) /\ Replaced(v, f) \in Seq(Y)
        /\ f[x] \in Seq(Y)
    BY ReplacedType
  <2>7. (Replaced(s, f) \o Replaced(v, f)) \o f[x]
          = Replaced(s, f) \o (Replaced(v, f) \o f[x])
    BY <1>0, <2>6 DEF Associative
  <2> QED
    BY <2>4, <2>5, <2>7
<1>3. S \subseteq Nat
  OBVIOUS
<1> HIDE DEF S
<1>4. S = Nat
  BY <1>1, <1>2, <1>3, NumbersInduction
<1> QED
  BY <1>4, LenProperties DEF S

\* Typing facts, named for the same reason.
Renders(f, X, Y) == f \in [X -> Seq(Y)]
Row(s, X) == s \in Seq(X)

\* Replacing twice is replacing by what is replaced.
LEMMA ReplacedTwice ==
  ASSUME NEW X, NEW Y, NEW Z, NEW f, NEW g, NEW s,
         Renders(f, X, Y), Renders(g, Y, Z), Row(s, X)
  PROVE  Replaced(Replaced(s, f), g) = Replaced(s, [x \in X |-> Replaced(f[x], g)])
<1> DEFINE h == [x \in X |-> Replaced(f[x], g)]
<1>1. f \in [X -> Seq(Y)] /\ g \in [Y -> Seq(Z)] /\ s \in Seq(X)
  BY DEF Renders, Row
<1>2. h \in [X -> Seq(Z)] /\ \A x \in X : h[x] = Replaced(f[x], g)
  BY <1>1, ReplacedType
<1> HIDE DEF h
<1> DEFINE Good(u) == Replaced(Replaced(u, f), g) = Replaced(u, h)
           S == {n \in Nat : \A u \in Seq(X) : Len(u) = n => Good(u)}
<1>3. 0 \in S
  <2>1. Good(<<>>)
    BY ReplacedEmpty
  <2> HIDE DEF Good
  <2> QED
    BY <2>1, EmptySeq
<1>4. ASSUME NEW n \in S PROVE n + 1 \in S
  <2> SUFFICES ASSUME NEW u \in Seq(X), Len(u) = n + 1 PROVE Good(u)
    OBVIOUS
  <2>1. n \in Nat /\ \A v \in Seq(X) : Len(v) = n => Good(v)
    OBVIOUS
  <2>2. PICK v \in Seq(X), x \in X : u = Append(v, x) /\ Len(v) = n
    BY <2>1, LastAppended
  <2>3. Replaced(u, f) = Replaced(v, f) \o f[x] /\ Replaced(u, h) = Replaced(v, h) \o h[x]
    <3>1. Replaced(Append(v, x), f) = Replaced(v, f) \o f[x]
      BY <1>1, ReplacedAppend
    <3>2. Replaced(Append(v, x), h) = Replaced(v, h) \o h[x]
      BY <1>1, <1>2, ReplacedAppend
    <3> QED
      BY <2>2, <3>1, <3>2
  <2>4. Replaced(v, f) \in Seq(Y) /\ f[x] \in Seq(Y)
    BY <1>1, ReplacedType
  <2>5. Replaced(Replaced(v, f) \o f[x], g)
          = Replaced(Replaced(v, f), g) \o Replaced(f[x], g)
    <3>1. \A a, b \in Seq(Y) :
            Replaced(a \o b, g) = Replaced(a, g) \o Replaced(b, g)
      BY <1>1, ReplacedJoin
    <3> QED
      BY <2>4, <3>1
  <2>6. Replaced(Replaced(v, f), g) = Replaced(v, h)
    BY <2>1, <2>2
  <2> QED
    BY <1>2, <2>3, <2>5, <2>6
<1>5. S \subseteq Nat
  OBVIOUS
<1> HIDE DEF S
<1>6. S = Nat
  BY <1>3, <1>4, <1>5, NumbersInduction
<1> QED
  BY <1>1, <1>6, LenProperties DEF S, h
-----------------------------------------------------------------------------
(* The invariant *)

Messages == [device : {1}, control : Chars, action : {0, 1}, meta : Nat]

\* What a message prints, if it is plain; and a character, if it is plain.
Printing == [m \in Messages |->
  IF m.action = 0 /\ Plain(Server!WindowsDIConvert(m.control))
    THEN <<Server!WindowsDIConvert(m.control)>> ELSE <<>>]
Plainly == [c \in Chars |-> IF Plain(c) THEN <<c>> ELSE <<>>]

Typed == /\ typed \in Seq(Texts)
         /\ printed \in Seq(Chars)
         /\ net \in Seq(Datagrams(Messages))
         /\ keys \subseteq Server!Convertible

\* Every press is followed at once by the release of the same key.
Paired(s) == \A i \in DOMAIN s : s[i].action = 0 =>
  i + 1 \in DOMAIN s /\ s[i + 1].action = 1 /\ s[i + 1].control = s[i].control

\* A press is never the newest message about its key: its release is sent with
\* it, and after it.
NewestReleases == \A i \in DOMAIN net :
  net[i].newest => net[i].instruction.action = 1

\* The messages under way.
Under == [i \in DOMAIN net |-> net[i].instruction]

\* What was printed and what is under way make up what the user meant.
Told == Replaced(printed, Plainly) \o Replaced(Under, Printing) = Replaced(Meant, Plainly)

IInv == Typed /\ (inOrder => Told) /\ LinkInv /\ NewestReleases /\ SettledKeysUp
-----------------------------------------------------------------------------
(* What the phone sends for an edit *)

LEMMA ConvertibleIsChar ==
  /\ Server!Convertible \subseteq Chars /\ Chars \subseteq Nat
  /\ \A k : Server!WindowsDIConvert(k) \in Server!Convertible \cup {0}
  /\ 0 \notin Server!Convertible
BY DEF Server!Convertible, Server!WindowsDIConvert, Server!NoKey, Chars

LEMMA PlainlyType == Plainly \in [Chars -> Seq(Chars)]
BY DEF Plainly

LEMMA PrintingType == Printing \in [Messages -> Seq(Chars)]
<1>1. ASSUME NEW m \in Messages PROVE Printing[m] \in Seq(Chars)
  <2>1. PICK key : key = Server!WindowsDIConvert(m.control)
    OBVIOUS
  <2>2. Printing[m] = IF m.action = 0 /\ Plain(key) THEN <<key>> ELSE <<>>
    BY <2>1 DEF Printing
  <2>3. Plain(key) => key \in Chars
    BY ConvertibleIsChar DEF Plain
  <2> QED
    BY <2>2, <2>3
<1> QED
  BY <1>1 DEF Printing

LEMMA ReplacedOne ==
  ASSUME NEW X, NEW Y, NEW f \in [X -> Seq(Y)], NEW x \in X
  PROVE  Replaced(<<x>>, f) = f[x]
<1>1. <<>> \in Seq(X) /\ Append(<<>>, x) = <<x>> /\ f[x] \in Seq(Y)
  OBVIOUS
<1>2. Replaced(Append(<<>>, x), f) = Replaced(<<>>, f) \o f[x]
  <2>1. \A s \in Seq(X) : Replaced(Append(s, x), f) = Replaced(s, f) \o f[x]
    BY ReplacedAppend
  <2> QED
    BY <1>1, <2>1
<1>3. <<>> \o f[x] = f[x]
  BY <1>1, ConcatEmptySeq
<1> QED
  BY <1>1, <1>2, <1>3, ReplacedEmpty

\* The user's key is printed, if it is plain, and the release prints nothing.
LEMMA PressOf ==
  ASSUME NEW c \in Chars, NEW meta \in Nat
  PROVE  /\ Press(c, meta) \in Seq(Messages) /\ Paired(Press(c, meta))
         /\ Replaced(Press(c, meta), Printing)
              = IF Plain(c) THEN <<c>> ELSE <<>>
<1> DEFINE down == Message(c, 0, meta)
           up == Message(c, 1, meta)
<1>1. /\ down \in Messages /\ down.action = 0 /\ down.control = c
      /\ up \in Messages /\ up.action = 1 /\ up.control = c
  BY DEF Message, Messages
<1> HIDE DEF down, up
<1>2. Press(c, meta) = <<down, up>>
  BY DEF Press, down, up
<1>3. Paired(<<down, up>>)
  BY <1>1 DEF Paired
<1>4. Printing[up] = <<>> /\ Printing[down] = IF Plain(c) THEN <<c>> ELSE <<>>
  BY <1>1 DEF Printing, Plain, Server!WindowsDIConvert, Server!NoKey,
              Server!Convertible
<1>5. Replaced(<<down, up>>, Printing) = Printing[down]
  <2>1. <<down, up>> = Append(<<down>>, up) /\ <<down>> \in Seq(Messages)
    BY <1>1
  <2>2. Replaced(Append(<<down>>, up), Printing)
          = Replaced(<<down>>, Printing) \o Printing[up]
    BY <1>1, <2>1, PrintingType, ReplacedAppend
  <2>3. Replaced(<<down>>, Printing) = Printing[down]
    BY <1>1, PrintingType, ReplacedOne
  <2>4. Printing[down] \in Seq(Chars)
    BY <1>1, PrintingType
  <2> QED
    BY <1>4, <2>1, <2>2, <2>3, <2>4, ConcatEmptySeq
<1> QED
  BY <1>1, <1>2, <1>3, <1>4, <1>5

LEMMA PairedJoin ==
  ASSUME NEW s \in Seq(Messages), NEW t \in Seq(Messages), Paired(s), Paired(t)
  PROVE  Paired(s \o t)
<1>1. /\ s \o t \in Seq(Messages) /\ Len(s \o t) = Len(s) + Len(t)
      /\ \A i \in 1..(Len(s) + Len(t)) :
           (s \o t)[i] = IF i <= Len(s) THEN s[i] ELSE t[i - Len(s)]
  BY ConcatProperties
<1>2. /\ Len(s) \in Nat /\ Len(t) \in Nat /\ DOMAIN s = 1..Len(s)
      /\ DOMAIN t = 1..Len(t) /\ DOMAIN (s \o t) = 1..(Len(s) + Len(t))
  BY <1>1, LenProperties
<1> DEFINE j == s \o t
<1> HIDE DEF j
<1>3. ASSUME NEW i \in 1..(Len(s) + Len(t)), j[i].action = 0
      PROVE  /\ i + 1 \in 1..(Len(s) + Len(t))
             /\ j[i + 1].action = 1 /\ j[i + 1].control = j[i].control
  <2>1. CASE i <= Len(s)
    <3>1. i \in DOMAIN s /\ j[i] = s[i]
      BY <1>1, <1>2, <2>1 DEF j
    <3>2. i + 1 \in DOMAIN s /\ s[i + 1].action = 1 /\ s[i + 1].control = s[i].control
      BY <1>3, <3>1 DEF Paired
    <3>3. i + 1 \in 1..(Len(s) + Len(t)) /\ i + 1 <= Len(s)
      BY <1>2, <3>2
    <3> QED
      BY <1>1, <3>1, <3>2, <3>3 DEF j
  <2>2. CASE ~(i <= Len(s))
    <3> DEFINE k == i - Len(s)
    <3>1. k \in DOMAIN t /\ j[i] = t[k]
      BY <1>1, <1>2, <2>2 DEF j
    <3>2. k + 1 \in DOMAIN t /\ t[k + 1].action = 1 /\ t[k + 1].control = t[k].control
      BY <1>3, <3>1 DEF Paired
    <3>3. i + 1 \in 1..(Len(s) + Len(t)) /\ ~(i + 1 <= Len(s)) /\ (i + 1) - Len(s) = k + 1
      BY <1>2, <2>2, <3>2
    <3> QED
      BY <1>1, <3>1, <3>2, <3>3 DEF j
  <2> QED
    BY <2>1, <2>2
<1> QED
  BY <1>2, <1>3 DEF Paired, j

LEMMA SendCharOf ==
  ASSUME NEW c \in Chars
  PROVE  /\ SendChar(c) \in Seq(Messages) /\ Paired(SendChar(c))
         /\ Replaced(SendChar(c), Printing) = Plainly[c]
<1> DEFINE key == Press(c, c)
           ahead == IF c \in Shifted \cup {Tab} THEN Press(c, 0) ELSE <<>>
<1>1. c \in Nat /\ 0 \in Nat
  BY ConvertibleIsChar
<1>2. /\ key \in Seq(Messages) /\ Paired(key)
      /\ Replaced(key, Printing) = Plainly[c]
  BY <1>1, PressOf DEF Plainly
<1>3. CASE c \in Shifted \cup {Tab}
  <2>1. ~Plain(c)
    BY <1>3 DEF Plain
  <2>2. /\ ahead \in Seq(Messages) /\ Paired(ahead)
        /\ Replaced(ahead, Printing) = <<>>
    BY <1>1, <1>3, <2>1, PressOf
  <2> HIDE DEF key, ahead
  <2>3. ahead \o key \in Seq(Messages) /\ Paired(ahead \o key)
    BY <1>2, <2>2, ConcatProperties, PairedJoin
  <2>4. Replaced(ahead \o key, Printing)
          = Replaced(ahead, Printing) \o Replaced(key, Printing)
    BY <1>2, <2>2, PrintingType, ReplacedJoin
  <2>5. Plainly[c] \in Seq(Chars)
    BY PlainlyType
  <2>6. <<>> \o Plainly[c] = Plainly[c]
    BY <2>5, ConcatEmptySeq
  <2> QED
    BY <1>2, <2>2, <2>3, <2>4, <2>6 DEF SendChar, ahead, key
<1>4. CASE c \notin Shifted \cup {Tab}
  <2>1. SendChar(c) = <<>> \o key
    BY <1>4 DEF SendChar
  <2> HIDE DEF key
  <2> QED
    BY <1>2, <2>1, ConcatEmptySeq
<1> QED
  BY <1>3, <1>4

\* What sendKeys or sendKey sends for an inserted text.
Sent(text) == IF text = <<Space>> THEN SendKey(KeycodeSpace) ELSE SendKeys(text)

\* What the user meant by it.
Asked(text) == IF text = Guard THEN <<>> ELSE text

LEMMA PrintedThrough ==
  ASSUME NEW f \in [Chars -> Seq(Messages)],
         \A c \in Chars : Replaced(f[c], Printing) = Plainly[c],
         NEW text \in Seq(Chars)
  PROVE  Replaced(Replaced(text, f), Printing) = Replaced(text, Plainly)
<1>1. Plainly = [c \in Chars |-> Replaced(f[c], Printing)]
  BY PlainlyType
<1>2. Replaced(Replaced(text, f), Printing)
        = Replaced(text, [c \in Chars |-> Replaced(f[c], Printing)])
  <2>1. /\ Renders(f, Chars, Messages) /\ Renders(Printing, Messages, Chars)
        /\ Row(text, Chars)
    BY PrintingType DEF Renders, Row
  <2> QED
    BY <2>1, ReplacedTwice
<1> QED
  BY <1>1, <1>2

LEMMA SentOf ==
  ASSUME NEW text \in Seq(Chars)
  PROVE  /\ Sent(text) \in Seq(Messages) /\ Paired(Sent(text))
         /\ Replaced(Sent(text), Printing) = Replaced(Asked(text), Plainly)
<1>1. CASE text = <<Space>>
  <2>1. Space \in Chars /\ KeycodeSpace \in Chars /\ Space \in Nat
        /\ ~Plain(KeycodeSpace) /\ ~Plain(Space)
    BY DEF Space, KeycodeSpace, Chars, Plain, Shifted
  <2>2. Sent(text) = Press(KeycodeSpace, Space)
    BY <1>1 DEF Sent, SendKey
  <2>3. Asked(text) = <<Space>>
    BY <1>1 DEF Asked, Guard
  <2>4. Replaced(<<Space>>, Plainly) = <<>>
    <3>1. Replaced(<<Space>>, Plainly) = Plainly[Space]
      BY <2>1, PlainlyType, ReplacedOne
    <3> QED
      BY <2>1, <3>1 DEF Plainly
  <2> QED
    BY <2>1, <2>2, <2>3, <2>4, PressOf
<1>2. CASE text # <<Space>> /\ text = Guard
  <2>1. Sent(text) = <<>> /\ Asked(text) = <<>>
    BY <1>2 DEF Sent, SendKeys, Asked
  <2> QED
    BY <2>1, ReplacedEmpty DEF Paired
<1>3. CASE text # <<Space>> /\ text # Guard
  <2> DEFINE keys1 == [c \in Chars |-> SendChar(c)]
  <2>1. keys1 \in [Chars -> Seq(Messages)] /\ \A c \in Chars : keys1[c] = SendChar(c)
    BY SendCharOf
  <2>2. Sent(text) = Replaced(text, keys1)
    <3>1. [i \in DOMAIN text |-> SendChar(text[i])] = [i \in DOMAIN text |-> keys1[text[i]]]
      BY <2>1
    <3> QED
      BY <1>3, <3>1 DEF Sent, SendKeys, Replaced
  <2> HIDE DEF keys1
  <2>3. Sent(text) \in Seq(Messages)
    BY <2>1, <2>2, ReplacedType
  <2>4. Paired(Sent(text))
    <3> DEFINE C == {s \in Seq(Messages) : Paired(s)}
    <3>1. <<>> \in C
      BY DEF Paired
    <3>2. \A a, b \in C : a \o b \in C
      BY ConcatProperties, PairedJoin
    <3>3. \A c \in Chars : keys1[c] \in C
      BY <2>1, SendCharOf
    <3> HIDE DEF C
    <3>4. Replaced(text, keys1) \in C
      BY <2>1, <3>1, <3>2, <3>3, ReplacedIn
    <3> QED
      BY <2>2, <3>4 DEF C
  <2>5. Replaced(Replaced(text, keys1), Printing) = Replaced(text, Plainly)
    BY <2>1, SendCharOf, PrintedThrough
  <2> QED
    BY <1>3, <2>2, <2>3, <2>4, <2>5 DEF Asked
<1> QED
  BY <1>1, <1>2, <1>3

LEMMA DeletionOf ==
  /\ SendKey(KeycodeDel) \in Seq(Messages) /\ Paired(SendKey(KeycodeDel))
  /\ Replaced(SendKey(KeycodeDel), Printing) = <<>>
<1>1. KeycodeDel \in Chars /\ 0 \in Nat /\ ~Plain(KeycodeDel)
  BY DEF KeycodeDel, Chars, Plain, Server!Convertible, Shifted
<1>2. SendKey(KeycodeDel) = Press(KeycodeDel, 0)
  BY DEF SendKey, KeycodeDel, KeycodeSpace
<1> QED
  BY <1>1, <1>2, PressOf

LEMMA AskedType ==
  ASSUME NEW text \in Texts
  PROVE  text \in Seq(Chars) /\ Asked(text) \in Seq(Chars)
BY TextsAssumption DEF Asked

LEMMA MeantType ==
  ASSUME typed \in Seq(Texts)
  PROVE  Meant \in Seq(Chars)
<1> DEFINE asked == [t \in Texts |-> Asked(t)]
<1>1. asked \in [Texts -> Seq(Chars)] /\ \A t \in Texts : asked[t] = Asked(t)
  BY AskedType
<1>2. Meant = Replaced(typed, asked)
  <2>1. [i \in DOMAIN typed |-> Asked(typed[i])] = [i \in DOMAIN typed |-> asked[typed[i]]]
    BY <1>1
  <2> QED
    BY <2>1 DEF Meant, Replaced, Asked
<1> HIDE DEF asked
<1> QED
  BY <1>1, <1>2, ReplacedType

\* An edit adds to what the user meant.
LEMMA MeantOf ==
  ASSUME typed \in Seq(Texts), NEW text \in Texts, typed' = Append(typed, text)
  PROVE  Meant' = Meant \o Asked(text)
<1> DEFINE asked == [t \in Texts |-> Asked(t)]
<1>1. asked \in [Texts -> Seq(Chars)] /\ \A t \in Texts : asked[t] = Asked(t)
  BY AskedType
<1>2. Meant = Replaced(typed, asked) /\ Meant' = Replaced(Append(typed, text), asked)
  <2>1. [i \in DOMAIN typed |-> Asked(typed[i])] = [i \in DOMAIN typed |-> asked[typed[i]]]
    BY <1>1
  <2>2. PICK after \in Seq(Texts) : after = Append(typed, text)
    OBVIOUS
  <2>3. [i \in DOMAIN after |-> Asked(after[i])] = [i \in DOMAIN after |-> asked[after[i]]]
    BY <1>1
  <2>4. Meant' = FlattenSeq([i \in DOMAIN after |-> Asked(after[i])])
    BY <2>2 DEF Meant, Asked
  <2> HIDE DEF asked
  <2> QED
    BY <2>1, <2>2, <2>3, <2>4 DEF Meant, Replaced, Asked
<1> HIDE DEF asked
<1> QED
  BY <1>1, <1>2, ReplacedAppend
-----------------------------------------------------------------------------
(* What the link does to the messages under way *)

LEMMA UnderType ==
  ASSUME NEW I, net \in Seq(Datagrams(I))
  PROVE  Under \in Seq(I) /\ Len(Under) = Len(net)
<1>1. Len(net) \in Nat /\ \A i \in 1..Len(net) : net[i] \in Datagrams(I)
  OBVIOUS
<1>2. \A i \in 1..Len(net) : net[i].instruction \in I
  BY <1>1 DEF Datagrams
<1>3. Under = [i \in 1..Len(net) |-> net[i].instruction]
  BY DEF Under
<1> QED
  BY <1>1, <1>2, <1>3

\* j is a and then b.  Named, as Associative is.
Joined(j, a, b) ==
  /\ DOMAIN j = 1..(Len(a) + Len(b)) /\ j = [i \in 1..(Len(a) + Len(b)) |-> j[i]]
  /\ \A i \in 1..(Len(a) + Len(b)) :
       j[i] = IF i <= Len(a) THEN a[i] ELSE b[i - Len(a)]

LEMMA JoinOf ==
  ASSUME NEW X, NEW a \in Seq(X), NEW b \in Seq(X)
  PROVE  Joined(a \o b, a, b)
<1>0. PICK j : j = a \o b
  OBVIOUS
<1>1. /\ j \in Seq(X) /\ Len(j) = Len(a) + Len(b)
      /\ \A i \in 1..(Len(a) + Len(b)) :
           j[i] = IF i <= Len(a) THEN a[i] ELSE b[i - Len(a)]
  BY <1>0, ConcatProperties
<1>2. DOMAIN j = 1..(Len(a) + Len(b))
  BY <1>1, LenProperties
<1>3. j = [i \in 1..(Len(a) + Len(b)) |-> j[i]]
  <2>1. PICK s \in Seq(X) : s = j
    BY <1>1
  <2>2. s = [i \in 1..Len(s) |-> s[i]]
    OBVIOUS
  <2> QED
    BY <1>1, <2>1, <2>2
<1>4. Joined(j, a, b)
  BY <1>1, <1>2, <1>3 DEF Joined
<1> QED
  BY <1>0, <1>4

LEMMA UnderSend ==
  ASSUME NEW I, net \in Seq(Datagrams(I)), NEW messages \in Seq(I),
         Send(messages)
  PROVE  Under' = Under \o messages
<1> DEFINE new == [k \in DOMAIN messages |->
                     [instruction |-> messages[k], newest |-> TRUE]]
           joined == net \o new
           about(i) == Subject(joined[i].instruction)
           outdated(i) == \E j \in DOMAIN joined :
                            j > i /\ j > Len(net) /\ about(i) \cap about(j) # {}
<1>1. /\ DOMAIN messages = 1..Len(messages) /\ Len(messages) \in Nat
      /\ Len(net) \in Nat /\ DOMAIN net = 1..Len(net)
  BY LenProperties
<1>2. /\ new \in Seq(Datagrams(I)) /\ Len(new) = Len(messages)
      /\ \A k \in 1..Len(messages) : new[k].instruction = messages[k]
  <2>1. new \in [1..Len(messages) -> Datagrams(I)]
    BY <1>1 DEF Datagrams
  <2> QED
    BY <1>1, <2>1
<1>3. net' = [i \in DOMAIN joined |->
                [joined[i] EXCEPT !.newest = @ /\ ~outdated(i)]]
  BY DEF Send
<1> HIDE DEF new
<1>4. /\ joined \in Seq(Datagrams(I)) /\ DOMAIN joined = 1..(Len(net) + Len(messages))
      /\ \A i \in 1..(Len(net) + Len(messages)) :
           joined[i] = IF i <= Len(net) THEN net[i] ELSE new[i - Len(net)]
  <2>1. PICK s \in Seq(Datagrams(I)) : s = new
    BY <1>2
  <2>2. joined = net \o s /\ Len(s) = Len(messages)
    BY <1>2, <2>1
  <2>3. Joined(joined, net, s) /\ joined \in Seq(Datagrams(I))
    BY <2>2, JoinOf, ConcatProperties
  <2> HIDE DEF joined
  <2> QED
    BY <2>1, <2>2, <2>3 DEF Joined
<1>5. \A i \in DOMAIN joined : joined[i] \in Datagrams(I)
  BY <1>4
<1> HIDE DEF joined, outdated
<1>6. DOMAIN net' = 1..(Len(net) + Len(messages))
  BY <1>3, <1>4
<1>7. ASSUME NEW i \in 1..(Len(net) + Len(messages))
      PROVE  net'[i].instruction
               = IF i <= Len(net) THEN net[i].instruction ELSE messages[i - Len(net)]
  <2>1. joined[i] \in Datagrams(I)
    BY <1>4, <1>5
  <2>2. net'[i].instruction = joined[i].instruction
    <3>1. net'[i] = [joined[i] EXCEPT !.newest = @ /\ ~outdated(i)]
      BY <1>3, <1>4
    <3> QED
      BY <2>1, <3>1 DEF Datagrams
  <2>3. CASE i <= Len(net)
    BY <1>4, <2>2, <2>3
  <2>4. CASE ~(i <= Len(net))
    <3>1. i - Len(net) \in 1..Len(messages) /\ joined[i] = new[i - Len(net)]
      BY <1>1, <1>4, <2>4
    <3> QED
      BY <1>2, <2>2, <2>4, <3>1
  <2> QED
    BY <2>3, <2>4
<1>8. /\ Under \in Seq(I) /\ Len(Under) = Len(net)
      /\ \A i \in 1..Len(net) : Under[i] = net[i].instruction
  BY <1>1, UnderType DEF Under
<1>9. PICK whole : whole = Under \o messages
  OBVIOUS
<1>10. /\ whole = [i \in 1..(Len(net) + Len(messages)) |-> whole[i]]
       /\ \A i \in 1..(Len(net) + Len(messages)) :
            whole[i] = IF i <= Len(net) THEN Under[i] ELSE messages[i - Len(net)]
  <2>1. PICK u \in Seq(I) : u = Under
    BY <1>8
  <2>2. Joined(whole, u, messages)
    BY <1>9, <2>1, JoinOf
  <2>3. Len(u) = Len(net)
    BY <1>8, <2>1
  <2>4. /\ whole = [i \in 1..(Len(net) + Len(messages)) |-> whole[i]]
        /\ \A i \in 1..(Len(net) + Len(messages)) :
             whole[i] = IF i <= Len(net) THEN u[i] ELSE messages[i - Len(net)]
    BY <2>2, <2>3 DEF Joined
  <2> QED
    BY <2>1, <2>4
<1>11. Under' = [i \in 1..(Len(net) + Len(messages)) |-> net'[i].instruction]
  BY <1>6 DEF Under
<1>12. \A i \in 1..(Len(net) + Len(messages)) : whole[i] = net'[i].instruction
  BY <1>1, <1>7, <1>8, <1>10
<1> QED
  BY <1>9, <1>10, <1>11, <1>12

LEMMA UnderTakeFirst ==
  ASSUME NEW I, net \in Seq(Datagrams(I)), 1 \in DOMAIN net,
         net' = RemoveAt(net, 1)
  PROVE  Under = <<net[1].instruction>> \o Under'
<1>1. /\ net' \in Seq(Datagrams(I)) /\ Len(net') = Len(net) - 1
      /\ \A i \in DOMAIN net' : i >= 1 => net'[i] = net[i + 1]
  BY RemoveAtOf
<1>2. Len(net) \in Nat /\ DOMAIN net = 1..Len(net) /\ DOMAIN net' = 1..(Len(net) - 1)
  BY <1>1, LenProperties
<1>3. \A i \in 1..(Len(net) - 1) : net'[i] = net[i + 1]
  BY <1>1, <1>2
<1>4. Under \in Seq(I) /\ Len(Under) = Len(net)
  BY UnderType
<1>5. Under[1] = net[1].instruction
  BY DEF Under
<1>6. Under' = [i \in 1..(Len(net) - 1) |-> net[i + 1].instruction]
  BY <1>2, <1>3 DEF Under
<1>7. Tail(Under) = [i \in 1..(Len(net) - 1) |-> net[i + 1].instruction]
  <2>1. Tail(Under) = [i \in 1..(Len(Under) - 1) |-> Under[i + 1]]
    <3>1. PICK u \in Seq(I) : u = Under
      BY <1>4
    <3>2. u # <<>>
      BY <1>2, <1>4, <3>1
    <3>3. Tail(u) = [i \in 1..(Len(u) - 1) |-> u[i + 1]]
      <4>1. PICK t \in Seq(I) : /\ t = Tail(u) /\ Len(t) = Len(u) - 1
                                /\ \A i \in 1..Len(t) : t[i] = u[i + 1]
        BY <3>2, HeadTailProperties
      <4>2. t = [i \in 1..Len(t) |-> t[i]]
        OBVIOUS
      <4> QED
        BY <4>1, <4>2
    <3> QED
      BY <3>1, <3>3
  <2>2. \A i \in 1..(Len(net) - 1) : Under[i + 1] = net[i + 1].instruction
    BY <1>2 DEF Under
  <2> QED
    BY <1>4, <2>1, <2>2
<1>8. Under # <<>>
  BY <1>2, <1>4
<1>9. Under = <<Under[1]>> \o Tail(Under)
  BY <1>4, <1>8
<1> QED
  BY <1>5, <1>6, <1>7, <1>9
-----------------------------------------------------------------------------
(* The initial state, and the steps *)

LEMMA InitIInv == Init => IInv
<1> SUFFICES ASSUME Init PROVE IInv
  OBVIOUS
<1>1. typed = <<>> /\ printed = <<>> /\ net = <<>> /\ keys = {} /\ settled = {}
  BY DEF Init, LinkInit, Server!Init
<1>2. Meant = <<>>
  BY <1>1, EmptySeq DEF Meant, FlattenSeq
<1>3. Told
  <2>1. Replaced(<<>>, Plainly) = <<>> /\ Replaced(<<>>, Printing) = <<>>
    BY ReplacedEmpty
  <2>2. <<>> \o <<>> = <<>> /\ Under = <<>>
    BY <1>1 DEF Under
  <2> QED
    BY <1>1, <1>2, <2>1, <2>2 DEF Told
<1> QED
  BY <1>1, <1>3 DEF IInv, Typed, LinkInv, OneNewest, NewestUnsettled,
     NewestReleases, SettledKeysUp

\* In what is sent, a press is never the last message about its key.
LEMMA SendKeepsNewestReleases ==
  ASSUME net \in Seq(Datagrams(Messages)), NewestReleases,
         NEW messages \in Seq(Messages), Paired(messages), Send(messages)
  PROVE  NewestReleases'
<1>1. \A i \in DOMAIN net' : net'[i].newest =>
        \/ /\ i \in DOMAIN net /\ net[i].newest
           /\ net'[i].instruction = net[i].instruction
        \/ \E k \in DOMAIN messages :
             /\ net'[i].instruction = messages[k]
             /\ \A l \in DOMAIN messages :
                  l > k => Subject(messages[k]) \cap Subject(messages[l]) = {}
  BY SendOf
<1>2. ASSUME NEW k \in DOMAIN messages,
             \A l \in DOMAIN messages :
               l > k => Subject(messages[k]) \cap Subject(messages[l]) = {}
      PROVE  messages[k].action = 1
  <2>1. /\ k \in Nat
        /\ \A l \in DOMAIN messages : messages[l].device = 1 /\ messages[l].action \in {0, 1}
    <3>1. \A l \in DOMAIN messages : messages[l] \in Messages
      OBVIOUS
    <3>2. \A m \in Messages : m.device = 1 /\ m.action \in {0, 1}
      BY DEF Messages
    <3> QED
      BY <3>1, <3>2, LenProperties
  <2>2. SUFFICES ASSUME messages[k].action = 0 PROVE FALSE
    BY <2>1
  <2>3. /\ k + 1 \in DOMAIN messages /\ k + 1 > k
        /\ messages[k + 1].control = messages[k].control
    BY <2>1, <2>2 DEF Paired
  <2>4. Subject(messages[k]) = Subject(messages[k + 1]) /\ Subject(messages[k]) # {}
    BY <2>1, <2>3 DEF Subject
  <2> QED
    BY <1>2, <2>3, <2>4
<1> SUFFICES ASSUME NEW i \in DOMAIN net', net'[i].newest
             PROVE  net'[i].instruction.action = 1
  BY DEF NewestReleases
<1>3. CASE i \in DOMAIN net /\ net[i].newest /\ net'[i].instruction = net[i].instruction
  BY <1>3 DEF NewestReleases
<1> QED
  BY <1>1, <1>2, <1>3

\* Messages are sent that print what is asked for: the rest is as it was.
LEMMA SendingKeepsIInv ==
  ASSUME IInv, NEW messages \in Seq(Messages), Paired(messages),
         NEW asked \in Seq(Chars),
         Replaced(messages, Printing) = Replaced(asked, Plainly),
         typed' \in Seq(Texts), Meant' = Meant \o asked,
         Send(messages), UNCHANGED <<printed, inOrder, serverVars>>
  PROVE  IInv'
<1>1. net \in Seq(Datagrams(Messages)) /\ typed \in Seq(Texts) /\ printed \in Seq(Chars)
  BY DEF IInv, Typed
<1>2. /\ net' \in Seq(Datagrams(Messages)) /\ LinkInv'
      /\ settled' = settled \ UNION {Subject(messages[k]) : k \in DOMAIN messages}
  BY <1>1, SendOf, SendKeepsLinkInv DEF IInv
<1>3. NewestReleases'
  BY <1>1, SendKeepsNewestReleases DEF IInv
<1>4. SettledKeysUp' /\ keys' = keys
  BY <1>2 DEF IInv, SettledKeysUp, serverVars
<1>5. ASSUME Told PROVE Told'
  <2>0. Under \in Seq(Messages) /\ Under' = Under \o messages
    BY <1>1, UnderType, UnderSend
  <2>1. PICK p, n, m, a : /\ p = Replaced(printed, Plainly) /\ n = Replaced(Under, Printing)
                          /\ m = Replaced(Meant, Plainly) /\ a = Replaced(asked, Plainly)
    OBVIOUS
  <2>2. p \in Seq(Chars) /\ n \in Seq(Chars) /\ a \in Seq(Chars)
    BY <1>1, <2>0, <2>1, PlainlyType, PrintingType, ReplacedType
  <2>3. Replaced(Under \o messages, Printing) = n \o a
    <3>1. Replaced(Under \o messages, Printing)
            = Replaced(Under, Printing) \o Replaced(messages, Printing)
      BY <2>0, PrintingType, ReplacedJoin
    <3> QED
      BY <2>1, <3>1
  <2>4. Replaced(Meant \o asked, Plainly) = m \o a
    BY <1>1, <2>1, MeantType, PlainlyType, ReplacedJoin
  <2>5. p \o n = m
    BY <1>5, <2>1 DEF Told
  <2>6. p \o (n \o a) = m \o a
    <3>1. Associative(Seq(Chars))
      BY JoinIsAssociative
    <3> QED
      BY <2>2, <2>5, <3>1 DEF Associative
  <2>7. Replaced(printed', Plainly) = p
    BY <2>1
  <2> QED
    BY <2>0, <2>3, <2>4, <2>6, <2>7 DEF Told
<1> QED
  BY <1>1, <1>2, <1>3, <1>4, <1>5 DEF IInv, Typed

LEMMA InsertKeepsIInv ==
  ASSUME IInv, NEW text \in Texts, Insert(text)
  PROVE  IInv'
<1>1. typed \in Seq(Texts) /\ typed' = Append(typed, text) /\ typed' \in Seq(Texts)
  BY DEF IInv, Typed, Insert
<1>2. text \in Seq(Chars) /\ Asked(text) \in Seq(Chars)
  BY AskedType
<1>3. Meant' = Meant \o Asked(text)
  BY <1>1, MeantOf
<1>4. PICK messages \in Seq(Messages) :
        /\ Paired(messages) /\ Send(messages)
        /\ Replaced(messages, Printing) = Replaced(Asked(text), Plainly)
  <2>1. Send(Sent(text))
    BY DEF Insert, Sent
  <2> QED
    BY <1>2, <2>1, SentOf DEF Send
<1>5. UNCHANGED <<printed, inOrder, serverVars>>
  BY DEF Insert
<1> QED
  BY <1>1, <1>2, <1>3, <1>4, <1>5, SendingKeepsIInv

LEMMA DeleteKeepsIInv ==
  ASSUME IInv, Delete
  PROVE  IInv'
<1>1. typed \in Seq(Texts) /\ typed' = typed
  BY DEF IInv, Typed, Delete
<1>2. Send(SendKey(KeycodeDel)) /\ UNCHANGED <<printed, inOrder, serverVars>>
  BY DEF Delete
<1>3. Meant' = Meant \o <<>>
  <2>1. Meant' = Meant
    BY <1>1 DEF Meant
  <2> QED
    BY <1>1, <2>1, MeantType, ConcatEmptySeq
<1>4. /\ <<>> \in Seq(Chars)
      /\ Replaced(SendKey(KeycodeDel), Printing) = Replaced(<<>>, Plainly)
  BY DeletionOf, ReplacedEmpty
<1>5. PICK messages \in Seq(Messages) :
        /\ Paired(messages) /\ Send(messages)
        /\ Replaced(messages, Printing) = Replaced(<<>>, Plainly)
  BY <1>2, <1>4, DeletionOf DEF Send
<1> QED
  BY <1>1, <1>2, <1>3, <1>4, <1>5, SendingKeepsIInv

\* A press that is accepted is not the newest message about its key.
LEMMA DeliverKeepsIInv ==
  ASSUME IInv, Deliver
  PROVE  IInv'
<1>1. PICK n \in DOMAIN net :
        LET m == net[n].instruction
            key == Server!WindowsDIConvert(m.control)
        IN /\ Take(n) /\ Server!Accept(m)
           /\ printed' = IF m.action = 0 /\ key # Server!NoKey
                         THEN Append(printed, key) ELSE printed
           /\ inOrder' = (inOrder /\ n = 1)
           /\ UNCHANGED typed
  BY DEF Deliver
<1>2. /\ net \in Seq(Datagrams(Messages)) /\ printed \in Seq(Chars)
      /\ typed \in Seq(Texts) /\ typed' = typed /\ keys \subseteq Server!Convertible
      /\ LinkInv
  BY <1>1 DEF IInv, Typed
<1>3. PICK m \in Messages : m = net[n].instruction
  <2>1. net[n] \in Datagrams(Messages)
    BY <1>2
  <2> QED
    BY <2>1 DEF Datagrams
<1>4. PICK key : key = Server!WindowsDIConvert(m.control)
  OBVIOUS
<1>5. /\ Server!Accept(m)
      /\ printed' = IF m.action = 0 /\ key # 0 THEN Append(printed, key) ELSE printed
  BY <1>1, <1>3, <1>4 DEF Server!NoKey
<1>6. /\ key # 0 => key \in Chars /\ key \in Server!Convertible /\ key = m.control
      /\ m.control \in Server!Convertible => key = m.control
  BY <1>4, ConvertibleIsChar DEF Server!WindowsDIConvert, Server!NoKey
<1>7. m.device = 1 /\ m.action \in {0, 1} /\ Subject(m) = {<<1, m.control>>}
  BY DEF Messages, Subject
<1>8. /\ m.action = 0 => keys' = keys \cup ({key} \ {0})
      /\ m.action = 1 => keys' = keys \ {key}
  <2>1. Server!KeyDown(m) \/ Server!KeyUp(m)
    BY <1>5, <1>7 DEF Server!Accept, Server!MouseDown, Server!MouseUp,
       Server!MouseMove, Server!Present, Server!Ignore, Server!DeviceMouse,
       Server!DeviceKeyboard, Server!DeviceGamepad, Server!DevicePresenter,
       Server!Down, Server!Up, Server!Move
  <2> QED
    BY <1>4, <1>7, <2>1 DEF Server!KeyDown, Server!KeyUp, Server!Down, Server!Up,
       Server!NoKey
<1>9. /\ net' \in Seq(Datagrams(Messages)) /\ LinkInv'
      /\ \A i \in DOMAIN net' : \E j \in DOMAIN net : j # n /\ net'[i] = net[j]
  BY <1>1, <1>2, TakeKeepsLinkInv
<1>10. /\ net[n].newest => settled' = settled \cup {<<1, m.control>>}
       /\ ~net[n].newest => settled' = settled \ {<<1, m.control>>}
       /\ net' = RemoveAt(net, n)
  BY <1>1, <1>3, <1>7 DEF Take
<1>11. net[n].newest => m.action = 1
  BY <1>3 DEF IInv, NewestReleases
<1>12. NewestReleases'
  BY <1>9 DEF IInv, NewestReleases
<1>13. SettledKeysUp' /\ keys' \subseteq Server!Convertible
  <2>1. \A k \in keys : <<1, k>> \notin settled
    BY DEF IInv, SettledKeysUp
  <2>2. CASE m.action = 0
    <3>1. settled' = settled \ {<<1, m.control>>} /\ keys' = keys \cup ({key} \ {0})
      BY <1>8, <1>10, <1>11, <2>2
    <3> QED
      BY <1>2, <1>6, <2>1, <3>1 DEF SettledKeysUp
  <2>3. CASE m.action = 1
    <3>1. settled' \subseteq settled \cup {<<1, m.control>>} /\ keys' = keys \ {key}
      BY <1>8, <1>10, <2>3
    <3>2. ASSUME NEW k \in keys' PROVE <<1, k>> \notin settled'
      BY <1>2, <1>6, <2>1, <3>1, <3>2
    <3> QED
      BY <1>2, <3>1, <3>2 DEF SettledKeysUp
  <2> QED
    BY <1>7, <2>2, <2>3
<1>14. ASSUME Told, n = 1 PROVE Told'
  <2>0. Under \in Seq(Messages) /\ Under' \in Seq(Messages) /\ Under = <<m>> \o Under'
    <3>1. Under = <<net[1].instruction>> \o Under'
      BY <1>2, <1>10, <1>14, UnderTakeFirst
    <3>2. Under \in Seq(Messages)
      BY <1>2, UnderType
    <3>3. Under' \in Seq(Messages)
      <4>1. PICK after \in Seq(Datagrams(Messages)) : after = net'
        BY <1>9
      <4>2. \A i \in 1..Len(after) : after[i].instruction \in Messages
        <5>1. \A d \in Datagrams(Messages) : d.instruction \in Messages
          BY DEF Datagrams
        <5> HIDE DEF Datagrams, Messages
        <5> QED
          BY <5>1
      <4>3. Under' = [i \in 1..Len(after) |-> after[i].instruction]
        BY <4>1 DEF Under
      <4>4. Len(after) \in Nat
        OBVIOUS
      <4> QED
        BY <4>2, <4>3, <4>4
    <3> QED
      BY <1>3, <1>14, <3>1, <3>2, <3>3
  <2>1. PICK rest \in Seq(Messages) : rest = Under'
    BY <2>0
  <2>2. PICK p, q, one : /\ p = Replaced(printed, Plainly) /\ q = Replaced(rest, Printing)
                         /\ one = Printing[m]
    OBVIOUS
  <2>3. p \in Seq(Chars) /\ q \in Seq(Chars) /\ one \in Seq(Chars)
    BY <1>2, <2>2, PlainlyType, PrintingType, ReplacedType
  <2>4. Replaced(Under, Printing) = one \o q
    <3>1. <<m>> \in Seq(Messages)
      OBVIOUS
    <3>2. PICK first \in Seq(Messages) : first = <<m>>
      BY <3>1
    <3>3. Replaced(first \o rest, Printing)
            = Replaced(first, Printing) \o Replaced(rest, Printing)
      BY PrintingType, ReplacedJoin
    <3>4. Replaced(<<m>>, Printing) = Printing[m]
      BY PrintingType, ReplacedOne
    <3> QED
      BY <2>0, <2>1, <2>2, <3>2, <3>3, <3>4
  <2>5. Replaced(printed', Plainly) = p \o one
    <3>1. one = IF m.action = 0 /\ Plain(key) THEN <<key>> ELSE <<>>
      BY <1>4, <2>2 DEF Printing
    <3>2. CASE m.action = 0 /\ key # 0
      <4>1. printed' = Append(printed, key) /\ key \in Chars
        BY <1>5, <1>6, <3>2
      <4>2. Replaced(Append(printed, key), Plainly) = p \o Plainly[key]
        BY <1>2, <2>2, <4>1, PlainlyType, ReplacedAppend
      <4>3. Plainly[key] = one
        BY <3>1, <3>2, <4>1 DEF Plainly
      <4> QED
        BY <4>1, <4>2, <4>3
    <3>3. CASE ~(m.action = 0 /\ key # 0)
      <4>1. printed' = printed
        BY <1>5, <3>3
      <4>2. ~Plain(0)
        BY ConvertibleIsChar DEF Plain
      <4>3. one = <<>>
        BY <3>1, <3>3, <4>2
      <4> QED
        BY <2>2, <2>3, <4>1, <4>3, ConcatEmptySeq
    <3> QED
      BY <3>2, <3>3
  <2>6. (p \o one) \o q = p \o (one \o q)
    <3>1. Associative(Seq(Chars))
      BY JoinIsAssociative
    <3> QED
      BY <2>3, <3>1 DEF Associative
  <2>7. Replaced(Under', Printing) = q /\ Meant' = Meant
    BY <1>2, <2>1, <2>2 DEF Meant
  <2> QED
    BY <1>14, <2>2, <2>4, <2>5, <2>6, <2>7 DEF Told
<1>15. inOrder' => Told'
  BY <1>1, <1>14 DEF IInv
<1>16. printed' \in Seq(Chars)
  BY <1>2, <1>5, <1>6
<1> QED
  BY <1>2, <1>9, <1>12, <1>13, <1>15, <1>16 DEF IInv, Typed

LEMMA LoseKeepsIInv ==
  ASSUME IInv, Lose
  PROVE  IInv'
<1>1. PICK n \in DOMAIN net : Drop(n)
  BY DEF Lose
<1>2. inOrder' = FALSE /\ UNCHANGED <<typed, printed, keys, settled>>
  BY <1>1 DEF Lose, Drop, serverVars
<1>3. /\ net' \in Seq(Datagrams(Messages)) /\ LinkInv'
      /\ \A i \in DOMAIN net' : \E j \in DOMAIN net : j # n /\ net'[i] = net[j]
  BY <1>1, DropKeepsLinkInv DEF IInv, Typed
<1>4. NewestReleases'
  BY <1>3 DEF IInv, NewestReleases
<1> QED
  BY <1>2, <1>3, <1>4 DEF IInv, Typed, SettledKeysUp
-----------------------------------------------------------------------------
\* SettledKeysUp is inductive only beside NewestReleases, and what is printed is
\* known only together with what is under way.
THEOREM IInvHolds == Spec => []IInv
<1>1. IInv /\ [Next]_vars => IInv'
  <2> SUFFICES ASSUME IInv, [Next]_vars PROVE IInv'
    OBVIOUS
  <2>1. ASSUME NEW text \in Texts, Insert(text) PROVE IInv'
    BY <2>1, InsertKeepsIInv
  <2>2. CASE Delete
    BY <2>2, DeleteKeepsIInv
  <2>3. CASE Deliver
    BY <2>3, DeliverKeepsIInv
  <2>4. CASE Lose
    BY <2>4, LoseKeepsIInv
  <2>5. CASE UNCHANGED vars
    BY <2>5 DEF vars, serverVars, linkVars, IInv, Typed, LinkInv, OneNewest,
       NewestUnsettled, About, NewestReleases, SettledKeysUp, Told, Under, Meant
  <2> QED
    BY <2>1, <2>2, <2>3, <2>4, <2>5 DEF Next
<1> QED
  BY <1>1, InitIInv, PTL DEF Spec

(* Whatever is typed, in however many edits and with however many datagrams *)
(* under way: as long as they arrive as they were sent, the plain           *)
(* characters are printed once each and in order.                           *)
THEOREM PlainIsPrinted == Spec => []PlainPrinted
<1>1. IInv => PlainPrinted
  <2> SUFFICES ASSUME IInv, inOrder, net = <<>> PROVE PlainOf(printed) = PlainOf(Meant)
    BY DEF PlainPrinted
  <2>1. ASSUME NEW s \in Seq(Chars) PROVE PlainOf(s) = Replaced(s, Plainly)
    <3>1. \A i \in DOMAIN s : s[i] \in Chars
      OBVIOUS
    <3>2. [i \in DOMAIN s |-> IF Plain(s[i]) THEN <<s[i]>> ELSE <<>>]
            = [i \in DOMAIN s |-> Plainly[s[i]]]
      BY <3>1 DEF Plainly
    <3> QED
      BY <3>2 DEF PlainOf, Replaced
  <2>2. printed \in Seq(Chars) /\ Meant \in Seq(Chars)
    BY MeantType DEF IInv, Typed
  <2>3. Replaced(printed, Plainly) \in Seq(Chars)
    BY <2>2, PlainlyType, ReplacedType
  <2>4. Replaced(printed, Plainly) \o <<>> = Replaced(Meant, Plainly)
    <3>1. Under = <<>>
      BY DEF Under
    <3> QED
      BY <3>1, ReplacedEmpty DEF IInv, Told
  <2>5. Replaced(printed, Plainly) = Replaced(Meant, Plainly)
    BY <2>3, <2>4, ConcatEmptySeq
  <2> QED
    BY <2>1, <2>2, <2>5
<1> QED
  BY <1>1, IInvHolds, PTL

(* Whatever is typed, lost and overtaken, no key is held down of which the  *)
(* newest message was accepted, and no older one after it.                  *)
THEOREM SettledKeysAreUp == Spec => []SettledKeysUp
<1>1. IInv => SettledKeysUp
  BY DEF IInv
<1> QED
  BY <1>1, IInvHolds, PTL
=============================================================================
