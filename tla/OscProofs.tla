------------------------------ MODULE OscProofs ------------------------------
(* Theorems about OscPort, for any addresses, random numbers and texts and  *)
(* any number of datagrams.                                                 *)
EXTENDS OscPort, SequenceTheorems, TLAPS

\* The messages that senders have in mind.
HalfControls == {Message(Control, <<String(t)>>) : t \in Texts}
Controls == {Message(Control, <<String(c), String(s)>>) : c, s \in Texts}
ServerHandshakes ==
  {Message(HandshakeServer, <<String(m), String(e), String(m), String(e)>>) :
     m, e \in Texts}
ClientHandshakes ==
  {Message(HandshakeClient,
           <<String(m), String(e), String(m), String(e), Integer(k)>>) :
     m, e \in Texts, k \in Keys}

Meant == {Message(Control, <<>>)} \cup HalfControls \cup Controls
           \cup ServerHandshakes \cup ClientHandshakes

\* A datagram holds the message that was meant, on its way to who can read it.
WellSent(d) == /\ d.meant \in Meant /\ d.bytes = JavaBytes(d.meant)
               /\ d.to = Phone <=> d.meant.address = HandshakeServer
               /\ d.to # Phone => d.to = d.window[1]

IInv == /\ \A d \in net : WellSent(d)
        /\ DOMAIN serverBuffer = 0..(BufferSize - 1)
        /\ DOMAIN phoneBuffer = 0..(BufferSize - 1)
        /\ ReadAsMeant /\ CodeFindsServer /\ ArgumentsAreThere
-----------------------------------------------------------------------------
(* Bytes in a buffer *)

\* The bytes s are in the buffer b, from p on.
Holds(b, p, s) == \A i \in 1..Len(s) : p + i - 1 \in DOMAIN b /\ b[p + i - 1] = s[i]

LEMMA HoldsParts ==
  ASSUME NEW b, NEW p \in Nat, NEW s \in Seq(Int), NEW t \in Seq(Int),
         Holds(b, p, s \o t)
  PROVE  Holds(b, p, s) /\ Holds(b, p + Len(s), t)
<1>1. /\ Len(s) \in Nat /\ Len(t) \in Nat
      /\ Len(s \o t) = Len(s) + Len(t)
      /\ \A i \in 1..(Len(s) + Len(t)) :
           (s \o t)[i] = IF i <= Len(s) THEN s[i] ELSE t[i - Len(s)]
  BY ConcatProperties, LenProperties
<1>2. \A i \in 1..(Len(s) + Len(t)) :
        p + i - 1 \in DOMAIN b /\ b[p + i - 1] = (s \o t)[i]
  BY <1>1 DEF Holds
<1>3. Holds(b, p, s)
  <2> SUFFICES ASSUME NEW i \in 1..Len(s)
               PROVE  p + i - 1 \in DOMAIN b /\ b[p + i - 1] = s[i]
    BY DEF Holds
  <2>1. i \in 1..(Len(s) + Len(t)) /\ i <= Len(s)
    BY <1>1
  <2> QED
    BY <1>1, <1>2, <2>1
<1>4. Holds(b, p + Len(s), t)
  <2> SUFFICES ASSUME NEW i \in 1..Len(t)
               PROVE  /\ (p + Len(s)) + i - 1 \in DOMAIN b
                      /\ b[(p + Len(s)) + i - 1] = t[i]
    BY DEF Holds
  <2> DEFINE j == Len(s) + i
  <2>1. /\ j \in 1..(Len(s) + Len(t)) /\ ~(j <= Len(s)) /\ j - Len(s) = i
        /\ p + j - 1 = (p + Len(s)) + i - 1
    BY <1>1
  <2>2. p + j - 1 \in DOMAIN b /\ b[p + j - 1] = (s \o t)[j]
    BY <1>2, <2>1
  <2>3. (s \o t)[j] = t[j - Len(s)]
    BY <1>1, <2>1
  <2> QED
    BY <2>1, <2>2, <2>3
<1> QED
  BY <1>3, <1>4

LEMMA PaddingOf ==
  ASSUME NEW n \in Nat
  PROVE  /\ Padding(n) \in Seq(Int) /\ Len(Padding(n)) = 4 - (n % 4)
         /\ Len(Padding(n)) \in 1..4 /\ (n + Len(Padding(n))) % 4 = 0
         /\ Padding(n)[1] = 0
<1> DEFINE k == 4 - (n % 4)
<1>1. k \in 1..4 /\ (n + k) % 4 = 0
  OBVIOUS
<1>2. Padding(n) = [i \in 1..k |-> 0]
  BY DEF Padding, Zeros
<1> HIDE DEF k
<1>3. [i \in 1..k |-> 0] \in Seq(Int) /\ Len([i \in 1..k |-> 0]) = k
  BY <1>1
<1> QED
  BY <1>1, <1>2, <1>3 DEF k

\* From a place on a multiple of four, the reader moves over the padding.
LEMMA MovesOverPadding ==
  ASSUME NEW p \in Nat, p % 4 = 0, NEW n \in Nat
  PROVE  /\ MoveToFourByteBoundary(p + n) = p + (n + (4 - (n % 4)))
         /\ (p + (n + (4 - (n % 4)))) % 4 = 0
BY DEF MoveToFourByteBoundary

LEMMA WrittenString ==
  ASSUME NEW s \in Seq(Int)
  PROVE  /\ WriteString(s) \in Seq(Int)
         /\ Len(WriteString(s)) = Len(s) + (4 - (Len(s) % 4))
         /\ Len(WriteString(s)) % 4 = 0 /\ Len(WriteString(s)) <= Len(s) + 4
<1>1. Len(s) \in Nat
  OBVIOUS
<1>2. /\ Padding(Len(s)) \in Seq(Int) /\ Len(Padding(Len(s))) = 4 - (Len(s) % 4)
      /\ Len(Padding(Len(s))) \in 1..4 /\ (Len(s) + Len(Padding(Len(s)))) % 4 = 0
  BY <1>1, PaddingOf
<1>3. /\ s \o Padding(Len(s)) \in Seq(Int)
      /\ Len(s \o Padding(Len(s))) = Len(s) + Len(Padding(Len(s)))
  BY <1>2, ConcatProperties
<1> DEFINE k == Len(Padding(Len(s)))
<1>4. k = 4 - (Len(s) % 4) /\ k \in 1..4 /\ (Len(s) + k) % 4 = 0
  BY <1>2
<1> HIDE DEF k
<1>5. Len(s) + k <= Len(s) + 4
  BY <1>1, <1>4
<1>6. WriteString(s) \in Seq(Int) /\ Len(WriteString(s)) = Len(s) + k
  BY <1>3 DEF WriteString, k
<1> QED
  BY <1>4, <1>5, <1>6

\* A string that ends where the first zero is: one without a zero in it.
Printable(s) == s \in Seq(Int) /\ \A i \in 1..Len(s) : s[i] # 0

LEMMA TextsArePrintable ==
  ASSUME NEW s \in Seq(1..127)
  PROVE  Printable(s)
<1>1. s \in Seq(Int)
  <2>1. 1..127 \subseteq Int
    OBVIOUS
  <2> QED
    BY <2>1, SeqMonotonic
<1>2. ASSUME NEW i \in 1..Len(s) PROVE s[i] # 0
  <2>1. s[i] \in 1..127
    BY ElementOfSeq
  <2> DEFINE x == s[i]
  <2> HIDE DEF x
  <2>2. x \in 1..127 => x # 0
    OBVIOUS
  <2> QED
    BY <2>1, <2>2 DEF x
<1> QED
  BY <1>1, <1>2 DEF Printable

\* A string is read back up to the first byte of its padding.
LEMMA ReadsString ==
  ASSUME NEW b, DOMAIN b \subseteq Nat, NEW p \in Nat, NEW s, Printable(s),
         NEW n \in Nat, Holds(b, p, s \o Padding(n))
  PROVE  LengthOfCurrentString(b, p) = Len(s) /\ Slice(b, p, Len(s)) = s
<1>1. /\ Len(s) \in Nat /\ DOMAIN s = 1..Len(s) /\ s \in Seq(Int)
      /\ \A i \in 1..Len(s) : s[i] # 0
  BY LenProperties DEF Printable
<1>2. Padding(n) \in Seq(Int) /\ Len(Padding(n)) \in 1..4 /\ Padding(n)[1] = 0
  BY PaddingOf
<1>3. Holds(b, p, s) /\ Holds(b, p + Len(s), Padding(n))
  BY <1>1, <1>2, HoldsParts
<1>4. \A i \in 1..Len(s) : p + i - 1 \in DOMAIN b /\ b[p + i - 1] = s[i]
  BY <1>3 DEF Holds
<1> DEFINE end == p + Len(s)
           zeros == {i \in DOMAIN b : i >= p /\ b[i] = 0}
<1>5. end \in zeros
  <2>1. 1 \in 1..Len(Padding(n)) /\ end + 1 - 1 = end /\ end \in Nat /\ end >= p
    BY <1>1, <1>2
  <2>2. end + 1 - 1 \in DOMAIN b /\ b[end + 1 - 1] = Padding(n)[1]
    BY <1>3, <2>1 DEF Holds
  <2> QED
    BY <1>2, <2>1, <2>2
<1>6. ASSUME NEW i \in zeros PROVE end <= i
  <2> SUFFICES ASSUME i < end PROVE FALSE
    BY <1>1
  <2> DEFINE j == i - p + 1
  <2>1. i \in Nat /\ i >= p /\ b[i] = 0
    OBVIOUS
  <2>2. j \in 1..Len(s) /\ p + j - 1 = i
    BY <1>1, <2>1
  <2> QED
    BY <1>1, <1>4, <2>1, <2>2
<1>7. zeros \subseteq Nat /\ end \in Nat
  BY <1>1
<1> HIDE DEF zeros, end
<1>8. Min(zeros) = end
  <2> DEFINE Least(x) == \A y \in zeros : x <= y
             least == CHOOSE x \in zeros : Least(x)
  <2>1. \E x \in zeros : Least(x)
    BY <1>5, <1>6
  <2>2. Min(zeros) = least
    BY DEF Min
  <2>3. least \in zeros /\ Least(least)
    <3> HIDE DEF Least
    <3> QED
      BY <2>1
  <2> HIDE DEF least
  <2>4. least \in Nat /\ least <= end /\ end <= least
    BY <1>5, <1>6, <1>7, <2>3
  <2>5. least = end
    BY <1>7, <2>4
  <2> QED
    BY <2>2, <2>5
<1>9. LengthOfCurrentString(b, p) = Len(s)
  <2>1. Min(zeros) - p = Len(s)
    BY <1>1, <1>8 DEF end
  <2> QED
    BY <2>1 DEF LengthOfCurrentString, zeros
<1>10. Slice(b, p, Len(s)) = s
  <2>1. s = [i \in 1..Len(s) |-> s[i]]
    BY <1>1
  <2> QED
    BY <1>4, <2>1 DEF Slice
<1> QED
  BY <1>9, <1>10
-----------------------------------------------------------------------------
(* Arguments *)

\* What the programs send: digits, and keys that a signed char can hold.
Arguments == {String(s) : s \in Seq(1..127)} \cup {Integer(k) : k \in 0..126}

LEMMA ArgumentKinds ==
  ASSUME NEW a \in Arguments
  PROVE  \/ \E s : Printable(s) /\ a = String(s)
         \/ \E k \in 0..126 : a = Integer(k)
<1>1. CASE \E s \in Seq(1..127) : a = String(s)
  BY <1>1, TextsArePrintable
<1>2. CASE \E k \in 0..126 : a = Integer(k)
  BY <1>2
<1> QED
  BY <1>1, <1>2 DEF Arguments

\* A key is three zeros and itself, and both readers make it of them.
LEMMA ReadsKey ==
  ASSUME NEW k \in 0..126, NEW reader
  PROVE  /\ WriteInteger(k) = <<0, 0, 0, k>>
         /\ ReadInteger(<<0, 0, 0, k>>, reader) = k
<1> DEFINE bytes == <<0, 0, 0, k>>
<1>1. /\ k \div 16777216 = 0 /\ k \div 65536 = 0 /\ k \div 256 = 0 /\ k % 256 = k
      /\ 0 % 256 = 0
  OBVIOUS
<1>2. WriteInteger(k) = bytes
  BY <1>1 DEF WriteInteger
<1>3. bytes[1] = 0 /\ bytes[2] = 0 /\ bytes[3] = 0 /\ bytes[4] = k
  OBVIOUS
<1> HIDE DEF bytes
<1>4. JavaReadInteger(bytes) = k
  BY <1>3 DEF JavaReadInteger, Signed
<1>5. ShiftLeft(0) = 0
  BY DEF ShiftLeft
<1>6. QtReadInteger(bytes) = k
  <2>1. Signed(bytes[1]) = 0
    BY <1>3 DEF Signed
  <2>2. QtShiftIn(0, bytes[2]) = 0 /\ QtShiftIn(0, bytes[3]) = 0
    BY <1>3, <1>5 DEF QtShiftIn
  <2>3. QtShiftIn(0, bytes[4]) = k
    BY <1>3, <1>5 DEF QtShiftIn
  <2> QED
    BY <2>1, <2>2, <2>3 DEF QtReadInteger
<1> QED
  BY <1>2, <1>4, <1>6 DEF ReadInteger, bytes

LEMMA WrittenArgument ==
  ASSUME NEW a \in Arguments
  PROVE  /\ WriteArgument(a) \in Seq(Int) /\ Len(WriteArgument(a)) \in Nat
         /\ Len(WriteArgument(a)) % 4 = 0
<1>1. CASE \E s : Printable(s) /\ a = String(s)
  <2>1. PICK s : Printable(s) /\ a = String(s)
    BY <1>1
  <2>2. WriteArgument(a) = WriteString(s)
    BY <2>1 DEF WriteArgument, String
  <2>3. WriteString(s) \in Seq(Int) /\ Len(WriteString(s)) % 4 = 0
    BY <2>1, WrittenString DEF Printable
  <2> QED
    BY <2>2, <2>3, LenProperties
<1>2. CASE \E k \in 0..126 : a = Integer(k)
  <2>1. PICK k \in 0..126 : a = Integer(k)
    BY <1>2
  <2>2. WriteArgument(a) = <<0, 0, 0, k>>
    BY <2>1, ReadsKey DEF WriteArgument, Integer
  <2>3. <<0, 0, 0, k>> \in Seq(Int) /\ Len(<<0, 0, 0, k>>) = 4
    OBVIOUS
  <2> QED
    BY <2>2, <2>3
<1> QED
  BY <1>1, <1>2, ArgumentKinds

LEMMA ReadsArgument ==
  ASSUME NEW b, DOMAIN b \subseteq Nat, NEW p \in Nat, p % 4 = 0, NEW a \in Arguments,
         NEW reader, Holds(b, p, WriteArgument(a))
  PROVE  ReadArgument(b, p, TagOf[a.type], reader)
           = [arg |-> a, next |-> p + Len(WriteArgument(a))]
<1>1. CASE \E s : Printable(s) /\ a = String(s)
  <2>1. PICK s : Printable(s) /\ a = String(s)
    BY <1>1
  <2>2. WriteArgument(a) = WriteString(s) /\ TagOf[a.type] # TagOf.integer
    BY <2>1 DEF WriteArgument, String, TagOf
  <2>3. Len(s) \in Nat /\ s \in Seq(Int)
    BY <2>1, LenProperties DEF Printable
  <2>4. LengthOfCurrentString(b, p) = Len(s) /\ Slice(b, p, Len(s)) = s
    BY <2>1, <2>2, <2>3, ReadsString DEF WriteString
  <2>5. MoveToFourByteBoundary(p + Len(s)) = p + Len(WriteArgument(a))
    <3>1. MoveToFourByteBoundary(p + Len(s)) = p + (Len(s) + (4 - (Len(s) % 4)))
      BY <2>3, MovesOverPadding
    <3>2. Len(WriteString(s)) = Len(s) + (4 - (Len(s) % 4))
      BY <2>3, WrittenString
    <3> QED
      BY <2>2, <3>1, <3>2
  <2> QED
    BY <2>1, <2>2, <2>4, <2>5 DEF ReadArgument
<1>2. CASE \E k \in 0..126 : a = Integer(k)
  <2>1. PICK k \in 0..126 : a = Integer(k)
    BY <1>2
  <2> DEFINE bytes == <<0, 0, 0, k>>
  <2>2. WriteArgument(a) = bytes /\ TagOf[a.type] = TagOf.integer
    BY <2>1, ReadsKey DEF WriteArgument, Integer, TagOf
  <2>3. Len(bytes) = 4 /\ bytes = [i \in 1..4 |-> bytes[i]]
    OBVIOUS
  <2>4. ReadInteger(bytes, reader) = k
    BY ReadsKey
  <2> HIDE DEF bytes
  <2>5. Slice(b, p, 4) = bytes
    BY <2>2, <2>3 DEF Slice, Holds
  <2> QED
    BY <2>1, <2>2, <2>3, <2>4, <2>5 DEF ReadArgument
<1> QED
  BY <1>1, <1>2, ArgumentKinds
-----------------------------------------------------------------------------
(* Sequences of arguments: no message has more than five, so induction      *)
(* never needs more than five steps.                                        *)
LEMMA UpToFive ==
  ASSUME NEW S, 0 \in S, \A n \in 0..4 : n \in S => n + 1 \in S
  PROVE  \A n \in 0..5 : n \in S
<1>1. 1 \in S /\ 2 \in S
  BY 0 + 1 = 1, 1 + 1 = 2
<1>2. 3 \in S /\ 4 \in S
  BY <1>1, 2 + 1 = 3, 3 + 1 = 4
<1>3. 5 \in S
  BY <1>2, 4 + 1 = 5
<1> QED
  BY <1>1, <1>2, <1>3

\* f[i] is the first i sequences of ss, joined; for i up to n.
Joins(f, ss, n) == f[0] = <<>> /\ \A i \in 1..n : f[i] = f[i - 1] \o ss[i]

LEMMA JoinsExists ==
  ASSUME NEW X, NEW ss \in Seq(Seq(X)), Len(ss) <= 5
  PROVE  \E f \in [0..Len(ss) -> Seq(X)] : Joins(f, ss, Len(ss))
<1> DEFINE Good(n) == n <= Len(ss) => \E f \in [0..n -> Seq(X)] : Joins(f, ss, n)
           S == {n \in 0..5 : Good(n)}
<1>1. Len(ss) \in Nat /\ \A i \in 1..Len(ss) : ss[i] \in Seq(X)
  OBVIOUS
<1>2. Good(0)
  <2> DEFINE f == [i \in 0..0 |-> <<>>]
  <2>1. f \in [0..0 -> Seq(X)] /\ f[0] = <<>>
    BY EmptySeq
  <2>2. Joins(f, ss, 0)
    BY <2>1 DEF Joins
  <2> QED
    BY <2>1, <2>2
<1>3. ASSUME NEW n \in 0..4, Good(n) PROVE Good(n + 1)
  <2> SUFFICES ASSUME n + 1 <= Len(ss)
               PROVE  \E g \in [0..(n + 1) -> Seq(X)] : Joins(g, ss, n + 1)
    OBVIOUS
  <2>1. n <= Len(ss) /\ n + 1 \in 1..Len(ss)
    BY <1>1
  <2>2. PICK f \in [0..n -> Seq(X)] : Joins(f, ss, n)
    BY <1>3, <2>1
  <2> DEFINE next == f[n] \o ss[n + 1]
             g == [i \in 0..(n + 1) |-> IF i <= n THEN f[i] ELSE next]
  <2>3. next \in Seq(X)
    <3>1. ss[n + 1] \in Seq(X) /\ f[n] \in Seq(X)
      BY <1>1, <2>1
    <3> QED
      BY <3>1, ConcatProperties
  <2> HIDE DEF next
  <2>4. /\ g \in [0..(n + 1) -> Seq(X)]
        /\ g[n + 1] = next /\ \A i \in 0..n : g[i] = f[i]
    <3>1. n + 1 \in 0..(n + 1) /\ ~(n + 1 <= n) /\ \A i \in 0..n : i \in 0..(n + 1)
      OBVIOUS
    <3>2. \A i \in 0..(n + 1) : i <= n => i \in 0..n
      OBVIOUS
    <3> QED
      BY <2>2, <2>3, <3>1, <3>2
  <2> HIDE DEF g
  <2>5. ASSUME NEW i \in 1..(n + 1) PROVE g[i] = g[i - 1] \o ss[i]
    <3>1. CASE i = n + 1
      <4>1. i - 1 = n /\ n \in 0..n
        BY <3>1
      <4> QED
        BY <2>4, <3>1, <4>1 DEF next
    <3>2. CASE i # n + 1
      <4>1. i \in 1..n /\ i - 1 \in 0..n /\ i \in 0..n
        BY <3>2
      <4> QED
        BY <2>2, <2>4, <4>1 DEF Joins
    <3> QED
      BY <3>1, <3>2
  <2>6. g[0] = <<>>
    BY <2>2, <2>4 DEF Joins
  <2>7. Joins(g, ss, n + 1)
    BY <2>5, <2>6 DEF Joins
  <2> QED
    BY <2>4, <2>7
<1> HIDE DEF Good
<1>4. \A n \in 0..5 : n \in S
  <2>1. 0 \in S
    BY <1>2
  <2>2. \A n \in 0..4 : n \in S => n + 1 \in S
    BY <1>3
  <2> HIDE DEF S
  <2> QED
    BY <2>1, <2>2, UpToFive
<1>5. Good(Len(ss))
  BY <1>1, <1>4
<1> QED
  BY <1>1, <1>5 DEF Good

LEMMA FlattenOf ==
  ASSUME NEW X, NEW ss \in Seq(Seq(X)), Len(ss) <= 5,
         NEW f \in [0..Len(ss) -> Seq(X)], Joins(f, ss, Len(ss))
  PROVE  FlattenSeq(ss) = f[Len(ss)]
<1>1. Len(ss) \in 0..5 /\ f[0] = <<>>
  <2> DEFINE n == Len(ss)
  <2>1. n \in Nat /\ n <= 5
    BY LenProperties
  <2> HIDE DEF n
  <2>2. n \in 0..5
    BY <2>1
  <2> QED
    BY <2>2 DEF Joins, n
<1>2. CASE Len(ss) = 0
  <2>1. ss = <<>>
    BY <1>2, EmptySeq
  <2>2. FlattenSeq(ss) = ss
    BY <1>2 DEF FlattenSeq
  <2> QED
    BY <1>1, <1>2, <2>1, <2>2
<1>3. CASE Len(ss) # 0
  <2> DEFINE Body(g) == [i \in 1..Len(ss) |-> IF i = 1 THEN ss[i] ELSE g[i - 1] \o ss[i]]
             F == CHOOSE flatten : flatten = Body(flatten)
             h == [i \in 1..Len(ss) |-> f[i]]
             S == {n \in 0..5 : n \in 1..Len(ss) => F[n] = f[n]}
  <2>1. FlattenSeq(ss) = F[Len(ss)]
    BY <1>3 DEF FlattenSeq
  <2>2. \A i \in 1..Len(ss) : f[i] = IF i = 1 THEN ss[i] ELSE f[i - 1] \o ss[i]
    <3> SUFFICES ASSUME NEW i \in 1..Len(ss)
                 PROVE  f[i] = IF i = 1 THEN ss[i] ELSE f[i - 1] \o ss[i]
      OBVIOUS
    <3>1. f[i] = f[i - 1] \o ss[i]
      BY DEF Joins
    <3>2. i = 1 => f[i - 1] = <<>> /\ ss[i] \in Seq(X)
      BY <1>1
    <3> QED
      BY <3>1, <3>2, ConcatEmptySeq
  <2>3. h = Body(h)
    BY <2>2
  <2>4. F = Body(F)
    BY <2>3
  <2> HIDE DEF F
  <2>5. ASSUME NEW n \in 0..4, n \in S PROVE n + 1 \in S
    <3> SUFFICES ASSUME n + 1 \in 1..Len(ss) PROVE F[n + 1] = f[n + 1]
      OBVIOUS
    <3>1. (n + 1) - 1 = n /\ (n + 1 # 1 => F[n] = f[n])
      BY <2>5
    <3>2. F[n + 1] = IF n + 1 = 1 THEN ss[n + 1] ELSE F[n] \o ss[n + 1]
      BY <2>4, <3>1
    <3>3. f[n + 1] = IF n + 1 = 1 THEN ss[n + 1] ELSE f[n] \o ss[n + 1]
      BY <2>2, <3>1
    <3> QED
      BY <3>1, <3>2, <3>3
  <2>6. 0 \in S
    OBVIOUS
  <2>7. Len(ss) \in S
    <3> HIDE DEF S
    <3> QED
      BY <1>1, <2>5, <2>6, UpToFive
  <2> QED
    BY <1>1, <1>3, <2>1, <2>7
<1> QED
  BY <1>2, <1>3
\* The bytes and the tags of each argument.
Parts(args) == [i \in DOMAIN args |-> WriteArgument(args[i])]
Tags(args) == [i \in DOMAIN args |-> TagOf[args[i].type]]

\* A message's arguments: at most five of those the programs send.
Sendable(args) == args \in Seq(Arguments) /\ Len(args) <= 5

LEMMA SendableOf ==
  ASSUME NEW args, Sendable(args)
  PROVE  /\ Len(args) \in 0..5 /\ DOMAIN args = 1..Len(args)
         /\ \A i \in 1..Len(args) : args[i] \in Arguments
<1> DEFINE n == Len(args)
<1>1. /\ n \in Nat /\ n <= 5 /\ DOMAIN args = 1..n
      /\ \A i \in 1..n : args[i] \in Arguments
  BY LenProperties, ElementOfSeq DEF Sendable
<1> HIDE DEF n
<1>2. n \in 0..5
  BY <1>1
<1> QED
  BY <1>1, <1>2 DEF n

LEMMA PartsOf ==
  ASSUME NEW args, Sendable(args)
  PROVE  /\ Parts(args) \in Seq(Seq(Int)) /\ Len(Parts(args)) = Len(args)
         /\ \A i \in 1..Len(args) : Parts(args)[i] = WriteArgument(args[i])
<1> DEFINE n == Len(args)
<1>1. n \in Nat /\ DOMAIN args = 1..n /\ \A i \in 1..n : args[i] \in Arguments
  BY SendableOf
<1>2. \A i \in 1..n : WriteArgument(args[i]) \in Seq(Int)
  BY <1>1, WrittenArgument
<1> HIDE DEF n
<1>3. Parts(args) = [i \in 1..n |-> WriteArgument(args[i])]
  BY <1>1 DEF Parts
<1>4. Parts(args) \in [1..n -> Seq(Int)]
  BY <1>2, <1>3
<1>5. Parts(args) \in Seq(Seq(Int)) /\ Len(Parts(args)) = n
  BY <1>1, <1>4
<1> QED
  BY <1>3, <1>5 DEF n

\* The bytes of the arguments, joined one by one.
LEMMA PartsJoined ==
  ASSUME NEW args, Sendable(args)
  PROVE  \E f \in [0..Len(args) -> Seq(Int)] :
           /\ FlattenSeq(Parts(args)) = f[Len(args)] /\ f[0] = <<>>
           /\ \A i \in 1..Len(args) :
                /\ i - 1 \in 0..Len(args) /\ i \in 0..Len(args)
                /\ f[i] = f[i - 1] \o WriteArgument(args[i])
                /\ Len(f[i]) = Len(f[i - 1]) + Len(WriteArgument(args[i]))
                /\ Len(f[i - 1]) \in Nat
<1> DEFINE n == Len(args)
           W(i) == WriteArgument(args[i])
           ss == Parts(args)
<1>1. n \in 0..5 /\ \A i \in 1..n : args[i] \in Arguments
  BY SendableOf
<1>2. ss \in Seq(Seq(Int)) /\ Len(ss) = n /\ \A i \in 1..n : ss[i] = W(i)
  BY PartsOf
<1>3. \A i \in 1..n : W(i) \in Seq(Int) /\ Len(W(i)) \in Nat
  BY <1>1, WrittenArgument
<1> HIDE DEF n, ss, W
<1>4. PICK f \in [0..n -> Seq(Int)] : Joins(f, ss, n)
  <2>1. Len(ss) <= 5
    BY <1>1, <1>2
  <2> QED
    BY <1>2, <2>1, JoinsExists
<1>5. FlattenSeq(ss) = f[n]
  <2>1. Len(ss) <= 5 /\ f \in [0..Len(ss) -> Seq(Int)] /\ Joins(f, ss, Len(ss))
    BY <1>1, <1>2, <1>4
  <2>2. FlattenSeq(ss) = f[Len(ss)]
    BY <1>2, <2>1, FlattenOf
  <2> QED
    BY <1>2, <2>2
<1>6. ASSUME NEW i \in 1..n
      PROVE  /\ i - 1 \in 0..n /\ i \in 0..n
             /\ f[i] = f[i - 1] \o W(i)
             /\ Len(f[i]) = Len(f[i - 1]) + Len(W(i))
             /\ Len(f[i - 1]) \in Nat
  <2>1. i - 1 \in 0..n /\ i \in 0..n
    BY <1>1
  <2>2. f[i] = f[i - 1] \o W(i) /\ f[i - 1] \in Seq(Int)
    BY <1>2, <1>4, <2>1 DEF Joins
  <2>3. W(i) \in Seq(Int)
    BY <1>3
  <2>4. Len(f[i - 1] \o W(i)) = Len(f[i - 1]) + Len(W(i)) /\ Len(f[i - 1]) \in Nat
    BY <2>2, <2>3, ConcatProperties, LenProperties
  <2> QED
    BY <2>1, <2>2, <2>4
<1>7. f[0] = <<>>
  BY <1>4 DEF Joins
<1> QED
  BY <1>4, <1>5, <1>6, <1>7 DEF n, ss, W

\* Arguments that were written one after the other are read one after the other.
LEMMA ReadsArguments ==
  ASSUME NEW args, Sendable(args), NEW b, DOMAIN b \subseteq Nat,
         NEW p \in Nat, p % 4 = 0, NEW reader, Holds(b, p, FlattenSeq(Parts(args)))
  PROVE  ReadArguments(b, p, Tags(args), reader) = args
<1> DEFINE n == Len(args)
           W(i) == WriteArgument(args[i])
<1>1. /\ n \in 0..5 /\ DOMAIN args = 1..n
      /\ \A i \in 1..n : args[i] \in Arguments
  BY SendableOf
<1>2. \A i \in 1..n : W(i) \in Seq(Int) /\ Len(W(i)) \in Nat /\ Len(W(i)) % 4 = 0
  BY <1>1, WrittenArgument
<1>3. PICK f \in [0..n -> Seq(Int)] :
        /\ FlattenSeq(Parts(args)) = f[n] /\ f[0] = <<>>
        /\ \A i \in 1..n : /\ i - 1 \in 0..n /\ i \in 0..n
                           /\ f[i] = f[i - 1] \o W(i)
                           /\ Len(f[i]) = Len(f[i - 1]) + Len(W(i))
                           /\ Len(f[i - 1]) \in Nat
  BY PartsJoined
<1>4. Holds(b, p, f[n])
  BY <1>3
<1> HIDE DEF n, W
<1>5. ASSUME NEW i \in 1..n
      PROVE  /\ f[i] = f[i - 1] \o W(i) /\ i - 1 \in 0..n /\ i \in 0..n
             /\ f[i - 1] \in Seq(Int) /\ W(i) \in Seq(Int)
             /\ Len(f[i]) = Len(f[i - 1]) + Len(W(i))
             /\ Len(f[i - 1]) \in Nat /\ Len(W(i)) \in Nat /\ Len(W(i)) % 4 = 0
  BY <1>2, <1>3
<1> DEFINE Whole(i) == Len(f[i]) \in Nat /\ Len(f[i]) % 4 = 0
<1>6. \A i \in 0..n : Whole(i)
  <2> DEFINE S == {i \in 0..5 : i \in 0..n => Whole(i)}
  <2>1. Whole(0)
    <3>1. Len(f[0]) = 0
      BY <1>3, EmptySeq
    <3> QED
      BY <3>1
  <2>2. ASSUME NEW i \in 0..4, i + 1 \in 0..n, Whole(i) PROVE Whole(i + 1)
    <3> DEFINE k == Len(f[i])
               m == Len(W(i + 1))
    <3>1. i + 1 \in 1..n /\ (i + 1) - 1 = i
      BY <1>1, <2>2
    <3>2. Len(f[i + 1]) = k + m /\ m \in Nat /\ m % 4 = 0
      BY <1>5, <3>1
    <3>3. k \in Nat /\ k % 4 = 0
      BY <2>2
    <3> HIDE DEF k, m
    <3>4. k + m \in Nat /\ (k + m) % 4 = 0
      BY <3>2, <3>3
    <3> QED
      BY <3>2, <3>4
  <2> HIDE DEF Whole
  <2>3. 0 \in S /\ \A i \in 0..4 : i \in S => i + 1 \in S
    <3>1. \A i \in 0..4 : i + 1 \in 0..n => i \in 0..n
      BY <1>1
    <3> QED
      BY <2>1, <2>2, <3>1
  <2>4. \A i \in 0..5 : i \in S
    <3> HIDE DEF S
    <3> QED
      BY <2>3, UpToFive
  <2>5. \A i \in 0..n : i \in 0..5
    BY <1>1
  <2> QED
    BY <2>4, <2>5
<1>7. \A k \in 0..5 : k <= n => Holds(b, p, f[n - k])
  <2> DEFINE S == {k \in 0..5 : k <= n => Holds(b, p, f[n - k])}
  <2>1. 0 \in S
    <3>1. n - 0 = n
      BY <1>1
    <3> QED
      BY <1>4, <3>1
  <2>2. ASSUME NEW k \in 0..4, k \in S PROVE k + 1 \in S
    <3> SUFFICES ASSUME k + 1 <= n PROVE Holds(b, p, f[n - (k + 1)])
      OBVIOUS
    <3>1. n - k \in 1..n /\ (n - k) - 1 = n - (k + 1) /\ k <= n
      BY <1>1
    <3>2. /\ f[n - k] = f[n - (k + 1)] \o W(n - k)
          /\ f[n - (k + 1)] \in Seq(Int) /\ W(n - k) \in Seq(Int)
      BY <1>5, <3>1
    <3>3. Holds(b, p, f[n - (k + 1)] \o W(n - k))
      BY <2>2, <3>1, <3>2
    <3> QED
      BY <3>2, <3>3, HoldsParts
  <2>3. \A k \in 0..5 : k \in S
    <3> HIDE DEF S
    <3> QED
      BY <2>1, <2>2, UpToFive
  <2> QED
    BY <2>3
<1>8. ASSUME NEW i \in 1..n PROVE Holds(b, p + Len(f[i - 1]), W(i))
  <2>1. n - i \in 0..5 /\ n - i <= n /\ n - (n - i) = i
    BY <1>1
  <2>2. Holds(b, p, f[i])
    BY <1>7, <2>1
  <2> QED
    BY <1>5, <2>2, HoldsParts
<1>9. ASSUME NEW i \in 1..n
      PROVE  ReadArgument(b, p + Len(f[i - 1]), TagOf[args[i].type], reader)
               = [arg |-> args[i], next |-> p + Len(f[i])]
  <2> DEFINE q == p + Len(f[i - 1])
  <2>1. q \in Nat /\ q % 4 = 0 /\ q + Len(W(i)) = p + Len(f[i])
    <3> DEFINE k == Len(f[i - 1])
               m == Len(W(i))
    <3>1. k \in Nat /\ k % 4 = 0 /\ m \in Nat /\ Len(f[i]) = k + m
      BY <1>5, <1>6
    <3> HIDE DEF k, m
    <3>2. p + k \in Nat /\ (p + k) % 4 = 0 /\ (p + k) + m = p + Len(f[i])
      BY <3>1
    <3> QED
      BY <3>2 DEF k, m
  <2>2. args[i] \in Arguments /\ Holds(b, q, W(i))
    BY <1>1, <1>8
  <2> HIDE DEF q
  <2>3. ReadArgument(b, q, TagOf[args[i].type], reader)
          = [arg |-> args[i], next |-> q + Len(W(i))]
    BY <2>1, <2>2, ReadsArgument DEF W
  <2> QED
    BY <2>1, <2>3 DEF q
<1> DEFINE types == Tags(args)
           h == [i \in 0..n |-> [args |-> SubSeq(args, 1, i), next |-> p + Len(f[i])]]
           Read(g, i) == ReadArgument(b, g[i - 1].next, types[i], reader)
           Body(g) == [i \in 0..Len(types) |->
                         IF i = 0 THEN [args |-> <<>>, next |-> p]
                         ELSE [args |-> Append(g[i - 1].args, Read(g, i).arg),
                               next |-> Read(g, i).next]]
           F == CHOOSE reads : reads = Body(reads)
<1>10. Len(types) = n /\ \A i \in 1..n : types[i] = TagOf[args[i].type]
  BY <1>1 DEF Tags
<1>11. ReadArguments(b, p, types, reader) = F[n].args
  BY <1>10 DEF ReadArguments
<1> HIDE DEF types
<1>12. h[0] = [args |-> <<>>, next |-> p]
  <2>1. 0 \in 0..n /\ SubSeq(args, 1, 0) = <<>> /\ Len(f[0]) = 0
    BY <1>1, <1>3, EmptySeq, SubSeqEmpty
  <2> QED
    BY <2>1
<1>13. ASSUME NEW i \in 1..n
       PROVE  h[i] = [args |-> Append(h[i - 1].args, Read(h, i).arg), next |-> Read(h, i).next]
  <2>1. i - 1 \in 0..n /\ i \in 0..n
    BY <1>1
  <2>2. Read(h, i) = [arg |-> args[i], next |-> p + Len(f[i])]
    BY <1>9, <1>10, <2>1
  <2>3. Append(SubSeq(args, 1, i - 1), args[i]) = SubSeq(args, 1, i)
    <3>1. args \in Seq(Arguments) /\ 1 \in 1..Len(args) /\ i \in 1..Len(args)
      BY <1>1 DEF Sendable, n
    <3>2. SubSeq(args, 1, i) = SubSeq(args, 1, i - 1) \o <<args[i]>>
      BY <3>1, SubSeqRecursiveSecond
    <3>3. SubSeq(args, 1, i - 1) \in Seq(Arguments)
      BY <3>1
    <3> QED
      BY <1>1, <3>2, <3>3, AppendIsConcat
  <2>4. /\ h[i].args = SubSeq(args, 1, i) /\ h[i].next = p + Len(f[i])
        /\ h[i] = [args |-> SubSeq(args, 1, i), next |-> p + Len(f[i])]
        /\ h[i - 1].args = SubSeq(args, 1, i - 1)
    BY <2>1
  <2>5. Read(h, i).arg = args[i] /\ Read(h, i).next = p + Len(f[i])
    BY <2>2
  <2> HIDE DEF h, Read
  <2>6. Append(h[i - 1].args, Read(h, i).arg) = SubSeq(args, 1, i)
    BY <2>3, <2>4, <2>5
  <2> QED
    BY <2>4, <2>5, <2>6
<1>14. h = Body(h)
  <2>1. h = [i \in 0..n |-> h[i]]
    OBVIOUS
  <2>2. \A i \in 0..n : h[i] = IF i = 0 THEN [args |-> <<>>, next |-> p]
          ELSE [args |-> Append(h[i - 1].args, Read(h, i).arg), next |-> Read(h, i).next]
    <3>1. \A i \in 0..n : i # 0 => i \in 1..n
      BY <1>1
    <3> HIDE DEF h, Read
    <3> QED
      BY <1>12, <1>13, <3>1
  <2> HIDE DEF h, Read
  <2> QED
    BY <1>10, <2>1, <2>2
<1>15. F = Body(F)
  BY <1>14
<1> HIDE DEF F, h
<1>16. F[0] = h[0] /\ \A i \in 1..n : F[i - 1] = h[i - 1] => F[i] = h[i]
  <2>1. F[0] = h[0]
    BY <1>1, <1>10, <1>12, <1>15
  <2>2. ASSUME NEW i \in 1..n, F[i - 1] = h[i - 1] PROVE F[i] = h[i]
    <3>1. i \in 0..Len(types) /\ i # 0
      BY <1>1, <1>10
    <3>2. F[i] = [args |-> Append(F[i - 1].args, Read(F, i).arg), next |-> Read(F, i).next]
      BY <1>15, <3>1
    <3> QED
      BY <1>13, <2>2, <3>2
  <2> QED
    BY <2>1, <2>2
<1>17. F[n] = h[n]
  <2> DEFINE S == {i \in 0..5 : i \in 0..n => F[i] = h[i]}
  <2>1. 0 \in S
    BY <1>16
  <2>2. ASSUME NEW i \in 0..4, i \in S PROVE i + 1 \in S
    <3> SUFFICES ASSUME i + 1 \in 0..n PROVE F[i + 1] = h[i + 1]
      OBVIOUS
    <3>1. i + 1 \in 1..n /\ (i + 1) - 1 = i /\ i \in 0..n
      BY <1>1
    <3> QED
      BY <1>16, <2>2, <3>1
  <2>3. \A i \in 0..5 : i \in S
    <3> HIDE DEF S
    <3> QED
      BY <2>1, <2>2, UpToFive
  <2> QED
    BY <1>1, <2>3
<1>18. F[n].args = args
  <2>1. h[n].args = SubSeq(args, 1, n)
    BY <1>1 DEF h
  <2>2. SubSeq(args, 1, n) = args
    BY SubSeqFull DEF n, Sendable
  <2> QED
    BY <1>17, <2>1, <2>2
<1> QED
  BY <1>11, <1>18 DEF types
-----------------------------------------------------------------------------
(* Messages *)

LEMMA AllPresent ==
  ASSUME NEW args, Sendable(args)
  PROVE  Present(args) = args
<1> DEFINE n == Len(args)
           ss == [i \in DOMAIN args |-> IF args[i].type = "null" THEN <<>> ELSE <<args[i]>>]
           f == [i \in 0..n |-> SubSeq(args, 1, i)]
<1>1. /\ n \in 0..5 /\ DOMAIN args = 1..n
      /\ \A i \in 1..n : args[i] \in Arguments
  BY SendableOf
<1>2. \A i \in 1..n : args[i].type # "null"
  <2>1. \A a \in Arguments : a.type # "null"
    BY ArgumentKinds DEF String, Integer
  <2> QED
    BY <1>1, <2>1
<1> HIDE DEF n
<1>3. ss = [i \in 1..n |-> <<args[i]>>]
  BY <1>1, <1>2
<1> HIDE DEF ss
<1>4. ss \in Seq(Seq(Arguments)) /\ Len(ss) = n
  <2>1. ss \in [1..n -> Seq(Arguments)]
    BY <1>1, <1>3
  <2> QED
    BY <1>1, <2>1
<1>5. \A i \in 0..n : SubSeq(args, 1, i) \in Seq(Arguments)
  BY <1>1 DEF Sendable, n
<1>6. f[0] = <<>>
  <2>1. SubSeq(args, 1, 0) = <<>>
    BY SubSeqEmpty
  <2> QED
    BY <1>1, <2>1
<1>7. ASSUME NEW i \in 1..n PROVE f[i] = f[i - 1] \o ss[i]
  <2>1. i - 1 \in 0..n /\ i \in 0..n /\ ss[i] = <<args[i]>>
    BY <1>1, <1>3
  <2>2. 1 \in 1..Len(args) /\ i \in 1..Len(args) /\ args \in Seq(Arguments)
    BY <1>1 DEF Sendable, n
  <2>3. SubSeq(args, 1, i) = SubSeq(args, 1, i - 1) \o <<args[i]>>
    BY <2>2, SubSeqRecursiveSecond
  <2> QED
    BY <2>1, <2>3
<1>8. f \in [0..Len(ss) -> Seq(Arguments)] /\ Joins(f, ss, Len(ss)) /\ Len(ss) <= 5
  <2>1. f \in [0..n -> Seq(Arguments)]
    BY <1>5
  <2> HIDE DEF f
  <2>2. Joins(f, ss, n)
    BY <1>6, <1>7 DEF Joins
  <2>3. n <= 5
    BY <1>1
  <2> QED
    BY <1>4, <2>1, <2>2, <2>3
<1>9. f[n] = args
  <2>1. SubSeq(args, 1, n) = args
    BY SubSeqFull DEF Sendable, n
  <2> QED
    BY <1>1, <2>1
<1> HIDE DEF f
<1>10. FlattenSeq(ss) = f[Len(ss)]
  BY <1>4, <1>8, FlattenOf
<1> QED
  BY <1>4, <1>9, <1>10 DEF Present, ss

LEMMA TagsOf ==
  ASSUME NEW args, Sendable(args)
  PROVE  /\ Printable(Tags(args)) /\ Len(Tags(args)) = Len(args)
         /\ WriteTypes(args) = Tags(args) \o Padding(1 + Len(Tags(args)))
<1> DEFINE n == Len(args)
<1>1. /\ n \in 0..5 /\ DOMAIN args = 1..n
      /\ \A i \in 1..n : args[i] \in Arguments
  BY SendableOf
<1>2. \A a \in Arguments : TagOf[a.type] \in {105, 115}
  BY ArgumentKinds DEF String, Integer, TagOf
<1> HIDE DEF n
<1>3. Tags(args) = [i \in 1..n |-> TagOf[args[i].type]]
  BY <1>1 DEF Tags
<1>4. Tags(args) \in [1..n -> {105, 115}]
  BY <1>1, <1>2, <1>3
<1>5. /\ Tags(args) \in Seq(Int) /\ Len(Tags(args)) = n
      /\ \A i \in 1..n : Tags(args)[i] \in {105, 115}
  BY <1>1, <1>4
<1>6. Printable(Tags(args))
  BY <1>5 DEF Printable
<1>7. WriteTypes(args) = Tags(args) \o Padding(1 + Len(Tags(args)))
  BY AllPresent DEF WriteTypes, Tags
<1> QED
  BY <1>5, <1>6, <1>7 DEF n

\* The bytes of a message, in the four parts that are read one after the other.
LEMMA BytesOf ==
  ASSUME NEW address \in Seq(Int), NEW args, Sendable(args)
  PROVE  /\ WriteString(address) \in Seq(Int) /\ <<Comma>> \in Seq(Int)
         /\ WriteTypes(args) \in Seq(Int) /\ FlattenSeq(Parts(args)) \in Seq(Int)
         /\ JavaBytes(Message(address, args))
              = WriteString(address) \o <<Comma>> \o WriteTypes(args)
                  \o FlattenSeq(Parts(args))
<1>1. WriteString(address) \in Seq(Int)
  BY WrittenString
<1>2. <<Comma>> \in Seq(Int)
  BY DEF Comma
<1>3. WriteTypes(args) \in Seq(Int)
  <2>1. Len(Tags(args)) \in Nat /\ Tags(args) \in Seq(Int)
    BY TagsOf, LenProperties DEF Printable
  <2>2. Padding(1 + Len(Tags(args))) \in Seq(Int)
    BY <2>1, PaddingOf
  <2> QED
    BY <2>1, <2>2, TagsOf, ConcatProperties
<1>4. FlattenSeq(Parts(args)) \in Seq(Int)
  <2>1. PICK f \in [0..Len(args) -> Seq(Int)] : FlattenSeq(Parts(args)) = f[Len(args)]
    BY PartsJoined
  <2>2. Len(args) \in 0..Len(args)
    BY SendableOf
  <2> QED
    BY <2>1, <2>2
<1>5. JavaBytes(Message(address, args))
        = WriteString(address) \o <<Comma>> \o WriteTypes(args) \o FlattenSeq(Parts(args))
  BY DEF JavaBytes, Message, Parts
<1> QED
  BY <1>1, <1>2, <1>3, <1>4, <1>5

LEMMA BytesInSeq ==
  ASSUME NEW address \in Seq(Int), NEW args, Sendable(args)
  PROVE  JavaBytes(Message(address, args)) \in Seq(Int)
<1> DEFINE A == WriteString(address)
           T == WriteTypes(args)
           F == FlattenSeq(Parts(args))
           C == <<Comma>>
<1>1. /\ A \in Seq(Int) /\ C \in Seq(Int) /\ T \in Seq(Int) /\ F \in Seq(Int)
      /\ JavaBytes(Message(address, args)) = A \o C \o T \o F
  BY BytesOf
<1> HIDE DEF A, T, F, C
<1>2. A \o C \o T \o F \in Seq(Int)
  BY <1>1, ConcatProperties
<1> QED
  BY <1>1, <1>2

\* convertMessage gives back the message that computeByteArray was called on, by both
\* readers, whatever else the buffer holds after its bytes: padding always ends
\* a string, and the tags tell how far to read.
THEOREM WrittenIsRead ==
  ASSUME NEW address \in Seq(1..127), NEW args, Sendable(args),
         NEW b, DOMAIN b \subseteq Nat, NEW reader,
         Holds(b, 0, JavaBytes(Message(address, args)))
  PROVE  ConvertMessage(b, reader) = Message(address, args)
<1> DEFINE A == WriteString(address)
           T == WriteTypes(args)
           F == FlattenSeq(Parts(args))
           tags == Tags(args)
           n == Len(address)
           t == Len(tags)
           p == Len(A)
           q == (p + 1) + Len(T)
<1>1. Printable(address) /\ address \in Seq(Int) /\ n \in Nat
  BY TextsArePrintable, LenProperties DEF Printable
<1>2. Printable(tags) /\ t \in Nat /\ T = tags \o Padding(1 + t) /\ tags \in Seq(Int)
  BY TagsOf, LenProperties DEF Printable
<1>3. /\ A \in Seq(Int) /\ <<Comma>> \in Seq(Int) /\ T \in Seq(Int) /\ F \in Seq(Int)
      /\ Holds(b, 0, A \o <<Comma>> \o T \o F)
  BY <1>1, BytesOf
<1>4. A = address \o Padding(n)
  BY DEF WriteString
<1>5. p \in Nat /\ p % 4 = 0 /\ p = n + (4 - (n % 4))
  BY <1>1, WrittenString, LenProperties
<1>6. Len(T) = t + (4 - ((1 + t) % 4)) /\ Len(T) \in Nat
  <2>1. Padding(1 + t) \in Seq(Int) /\ Len(Padding(1 + t)) = 4 - ((1 + t) % 4)
    BY <1>2, PaddingOf
  <2>2. Len(tags \o Padding(1 + t)) = Len(tags) + Len(Padding(1 + t))
    BY <1>2, <2>1, ConcatProperties
  <2> QED
    BY <1>2, <1>3, <2>1, <2>2, LenProperties
<1> HIDE DEF A, T, F, tags, n, t, p
<1>7. /\ Holds(b, 0, A) /\ Holds(b, p, <<Comma>>) /\ Holds(b, p + 1, T)
      /\ Holds(b, q, F)
  <2>1. /\ A \o <<Comma>> \in Seq(Int) /\ (A \o <<Comma>>) \o T \in Seq(Int)
        /\ Len(A \o <<Comma>>) = p + 1
        /\ Len((A \o <<Comma>>) \o T) = (p + 1) + Len(T)
    <3>1. A \o <<Comma>> \in Seq(Int) /\ Len(A \o <<Comma>>) = p + 1
      <4>1. Len(<<Comma>>) = 1
        OBVIOUS
      <4> QED
        BY <1>3, <4>1, ConcatProperties DEF p
    <3> DEFINE AC == A \o <<Comma>>
    <3> HIDE DEF AC
    <3>2. AC \in Seq(Int) /\ Len(AC) = p + 1
      BY <3>1 DEF AC
    <3>3. AC \o T \in Seq(Int) /\ Len(AC \o T) = (p + 1) + Len(T)
      BY <1>3, <3>2, ConcatProperties
    <3> QED
      BY <3>1, <3>3 DEF AC
  <2>2. 0 \in Nat /\ 0 + (p + 1) = p + 1 /\ 0 + p = p /\ 0 + q = q
    BY <1>5, <1>6
  <2> DEFINE AC == A \o <<Comma>>
             ACT == AC \o T
  <2>3. ACT \in Seq(Int) /\ Len(ACT) = q /\ Holds(b, 0, ACT \o F)
    BY <1>3, <2>1
  <2>4. AC \in Seq(Int) /\ Len(AC) = p + 1
    BY <2>1
  <2> HIDE DEF q
  <2>5. Holds(b, 0, ACT) /\ Holds(b, q, F)
    <3> HIDE DEF ACT
    <3>1. Holds(b, 0, ACT) /\ Holds(b, 0 + Len(ACT), F)
      BY <1>3, <2>3, HoldsParts
    <3> QED
      BY <2>2, <2>3, <3>1
  <2>6. Holds(b, 0, AC) /\ Holds(b, p + 1, T)
    <3>1. Holds(b, 0, AC \o T)
      BY <2>5
    <3> HIDE DEF AC
    <3>2. Holds(b, 0, AC) /\ Holds(b, 0 + Len(AC), T)
      BY <1>3, <2>4, <3>1, HoldsParts
    <3> QED
      BY <2>2, <2>4, <3>2
  <2>7. Holds(b, 0, A) /\ Holds(b, p, <<Comma>>)
    <3>1. Holds(b, 0, A) /\ Holds(b, 0 + Len(A), <<Comma>>)
      BY <1>3, <2>6, HoldsParts
    <3> QED
      BY <2>2, <3>1 DEF p
  <2> QED
    BY <2>5, <2>6, <2>7
<1>8. LengthOfCurrentString(b, 0) = n /\ Slice(b, 0, n) = address
  BY <1>1, <1>4, <1>7, ReadsString DEF n
<1>9. MoveToFourByteBoundary(n) = p
  <2>1. MoveToFourByteBoundary(0 + n) = 0 + (n + (4 - (n % 4)))
    BY <1>1, 0 % 4 = 0, MovesOverPadding
  <2>2. 0 + n = n /\ 0 + (n + (4 - (n % 4))) = p
    BY <1>1, <1>5
  <2> QED
    BY <2>1, <2>2
<1>10. ReadTypes(b, p) = tags
  <2>1. b[p] = Comma
    <3>1. Len(<<Comma>>) = 1 /\ <<Comma>>[1] = Comma /\ p + 1 - 1 = p
      BY <1>5
    <3> QED
      BY <1>7, <3>1 DEF Holds
  <2>2. p + 1 \in Nat /\ 1 + t \in Nat
    BY <1>2, <1>5
  <2>3. LengthOfCurrentString(b, p + 1) = t /\ Slice(b, p + 1, t) = tags
    BY <1>2, <1>7, <2>2, ReadsString DEF t
  <2> QED
    BY <2>1, <2>3 DEF ReadTypes
<1>11. MoveToFourByteBoundary(p + 1 + Len(tags)) = q /\ q \in Nat /\ q % 4 = 0
  <2>1. 1 + t \in Nat
    BY <1>2
  <2>2. /\ MoveToFourByteBoundary(p + (1 + t)) = p + ((1 + t) + (4 - ((1 + t) % 4)))
        /\ (p + ((1 + t) + (4 - ((1 + t) % 4)))) % 4 = 0
    BY <1>5, <2>1, MovesOverPadding
  <2>3. p + (1 + t) = p + 1 + t /\ p + ((1 + t) + (4 - ((1 + t) % 4))) = q
    <3> DEFINE m == (1 + t) % 4
    <3>1. m \in Int /\ Len(T) = t + (4 - m)
      BY <1>2, <1>6
    <3> HIDE DEF m
    <3>2. p + ((1 + t) + (4 - m)) = (p + 1) + (t + (4 - m))
      BY <1>2, <1>5, <3>1
    <3>3. p + (1 + t) = p + 1 + t
      BY <1>2, <1>5
    <3> QED
      BY <3>1, <3>2, <3>3 DEF m
  <2>4. q \in Nat
    BY <1>5, <1>6
  <2> QED
    BY <2>2, <2>3, <2>4 DEF t
<1> HIDE DEF q
<1>12. ReadArguments(b, q, tags, reader) = args
  BY <1>7, <1>11, ReadsArguments DEF F, tags
<1> QED
  BY <1>8, <1>9, <1>10, <1>11, <1>12 DEF ConvertMessage, Message
-----------------------------------------------------------------------------
(* The code of a window *)

LEMMA HexOf ==
  ASSUME NEW n \in 0..255
  PROVE  /\ Hex(n) \in Seq(Int) /\ Len(Hex(n)) = 2
         /\ Hex(n)[1] = n \div 16 /\ Hex(n)[2] = n % 16
<1>1. n \div 16 \in Int /\ n % 16 \in Int
  OBVIOUS
<1> DEFINE x == n \div 16
           y == n % 16
<1> HIDE DEF x, y
<1>2. x \in Int /\ y \in Int => <<x, y>> \in Seq(Int) /\ Len(<<x, y>>) = 2
  OBVIOUS
<1>3. Hex(n) = <<x, y>>
  BY DEF Hex, x, y
<1> QED
  BY <1>1, <1>2, <1>3 DEF x, y

\* more is s, of k digits, and the two of n.
WithByte(more, s, k, n) ==
  /\ more \in Seq(Int) /\ Len(more) = k + 2
  /\ \A i \in 1..k : more[i] = s[i]
  /\ more[k + 1] = n \div 16 /\ more[k + 2] = n % 16

LEMMA HexJoined ==
  ASSUME NEW s \in Seq(Int), NEW k \in Nat, Len(s) = k, NEW n \in 0..255
  PROVE  WithByte(s \o Hex(n), s, k, n)
<1> DEFINE h == Hex(n)
<1>1. h \in Seq(Int) /\ Len(h) = 2 /\ h[1] = n \div 16 /\ h[2] = n % 16
  BY HexOf
<1> HIDE DEF h
<1>2. /\ s \o h \in Seq(Int) /\ Len(s \o h) = k + 2
      /\ \A i \in 1..(k + 2) : (s \o h)[i] = IF i <= k THEN s[i] ELSE h[i - k]
  <2>1. /\ s \o h \in Seq(Int) /\ Len(s \o h) = Len(s) + Len(h)
        /\ \A i \in 1..(Len(s) + Len(h)) :
             (s \o h)[i] = IF i <= Len(s) THEN s[i] ELSE h[i - Len(s)]
    BY <1>1, ConcatProperties
  <2> QED
    BY <1>1, <2>1
<1>3. \A i \in 1..k : (s \o h)[i] = s[i]
  BY <1>2
<1>4. (s \o h)[k + 1] = h[1] /\ (s \o h)[k + 2] = h[2]
  <2>1. /\ k + 1 \in 1..(k + 2) /\ ~(k + 1 <= k) /\ (k + 1) - k = 1
        /\ k + 2 \in 1..(k + 2) /\ ~(k + 2 <= k) /\ (k + 2) - k = 2
    OBVIOUS
  <2> QED
    BY <1>2, <2>1
<1> QED
  BY <1>1, <1>2, <1>3, <1>4 DEF h, WithByte

\* The ten digits of a code, one by one.
LEMMA DigitsOf ==
  ASSUME NEW ip \in [1..4 -> 0..255], NEW key \in 0..126
  PROVE  /\ ConnectionCode(ip, key) \in Seq(Int) /\ Len(ConnectionCode(ip, key)) = 10
         /\ \A i \in 1..4 : /\ ConnectionCode(ip, key)[2*i - 1] = ip[i] \div 16
                            /\ ConnectionCode(ip, key)[2*i] = ip[i] % 16
         /\ ConnectionCode(ip, key)[9] = key \div 16
         /\ ConnectionCode(ip, key)[10] = key % 16
<1> DEFINE c1 == Hex(ip[1])
           c2 == c1 \o Hex(ip[2])
           c3 == c2 \o Hex(ip[3])
           c4 == c3 \o Hex(ip[4])
           code == c4 \o Hex(key)
<1>0. \A s \in Seq(Int), k \in Nat, n \in 0..255 :
        Len(s) = k => WithByte(s \o Hex(n), s, k, n)
  BY HexJoined
<1>1. ip[1] \in 0..255 /\ ip[2] \in 0..255 /\ ip[3] \in 0..255 /\ ip[4] \in 0..255
  OBVIOUS
<1>2. key \in 0..255
  OBVIOUS
<1>3. ConnectionCode(ip, key) = code
  BY DEF ConnectionCode
<1>4. c1 \in Seq(Int) /\ Len(c1) = 2 /\ c1[1] = ip[1] \div 16 /\ c1[2] = ip[1] % 16
  BY <1>1, HexOf
<1> HIDE DEF c1
<1>5. /\ c2 \in Seq(Int) /\ Len(c2) = 4 /\ \A i \in 1..2 : c2[i] = c1[i]
      /\ c2[3] = ip[2] \div 16 /\ c2[4] = ip[2] % 16
  <2>1. WithByte(c1 \o Hex(ip[2]), c1, 2, ip[2])
    BY <1>0, <1>1, <1>4
  <2> HIDE DEF c2
  <2>2. c2 = c1 \o Hex(ip[2]) => WithByte(c2, c1, 2, ip[2])
    BY <2>1
  <2>3. 2 + 1 = 3 /\ 2 + 2 = 4
    OBVIOUS
  <2> QED
    BY <2>2, <2>3 DEF c2, WithByte
<1> HIDE DEF c2
<1>6. /\ c3 \in Seq(Int) /\ Len(c3) = 6 /\ \A i \in 1..4 : c3[i] = c2[i]
      /\ c3[5] = ip[3] \div 16 /\ c3[6] = ip[3] % 16
  <2>1. WithByte(c2 \o Hex(ip[3]), c2, 4, ip[3])
    BY <1>0, <1>1, <1>5
  <2> HIDE DEF c3
  <2>2. c3 = c2 \o Hex(ip[3]) => WithByte(c3, c2, 4, ip[3])
    BY <2>1
  <2>3. 4 + 1 = 5 /\ 4 + 2 = 6
    OBVIOUS
  <2> QED
    BY <2>2, <2>3 DEF c3, WithByte
<1> HIDE DEF c3
<1>7. /\ c4 \in Seq(Int) /\ Len(c4) = 8 /\ \A i \in 1..6 : c4[i] = c3[i]
      /\ c4[7] = ip[4] \div 16 /\ c4[8] = ip[4] % 16
  <2>1. WithByte(c3 \o Hex(ip[4]), c3, 6, ip[4])
    BY <1>0, <1>1, <1>6
  <2> HIDE DEF c4
  <2>2. c4 = c3 \o Hex(ip[4]) => WithByte(c4, c3, 6, ip[4])
    BY <2>1
  <2>3. 6 + 1 = 7 /\ 6 + 2 = 8
    OBVIOUS
  <2> QED
    BY <2>2, <2>3 DEF c4, WithByte
<1> HIDE DEF c4
<1>8. /\ code \in Seq(Int) /\ Len(code) = 10 /\ \A i \in 1..8 : code[i] = c4[i]
      /\ code[9] = key \div 16 /\ code[10] = key % 16
  <2>1. WithByte(c4 \o Hex(key), c4, 8, key)
    BY <1>0, <1>2, <1>7
  <2> HIDE DEF code
  <2>2. code = c4 \o Hex(key) => WithByte(code, c4, 8, key)
    BY <2>1
  <2>3. 8 + 1 = 9 /\ 8 + 2 = 10
    OBVIOUS
  <2> QED
    BY <2>2, <2>3 DEF code, WithByte
<1> HIDE DEF code
<1>9. /\ code[1] = c1[1] /\ code[2] = c1[2] /\ code[3] = c2[3] /\ code[4] = c2[4]
      /\ code[5] = c3[5] /\ code[6] = c3[6] /\ code[7] = c4[7] /\ code[8] = c4[8]
  <2>1. \A i \in 1..8 : code[i] = c4[i]
    BY <1>8
  <2>2. \A i \in 1..6 : code[i] = c3[i]
    BY <1>7, <2>1
  <2>3. \A i \in 1..4 : code[i] = c2[i]
    BY <1>6, <2>2
  <2>4. \A i \in 1..2 : code[i] = c1[i]
    BY <1>5, <2>3
  <2> QED
    BY <2>1, <2>2, <2>3, <2>4
<1>10. /\ code[1] = ip[1] \div 16 /\ code[2] = ip[1] % 16
       /\ code[3] = ip[2] \div 16 /\ code[4] = ip[2] % 16
       /\ code[5] = ip[3] \div 16 /\ code[6] = ip[3] % 16
       /\ code[7] = ip[4] \div 16 /\ code[8] = ip[4] % 16
  BY <1>4, <1>5, <1>6, <1>7, <1>9
<1>11. \A i \in 1..4 : code[2*i - 1] = ip[i] \div 16 /\ code[2*i] = ip[i] % 16
  <2>1. \A i \in 1..4 : i = 1 \/ i = 2 \/ i = 3 \/ i = 4
    OBVIOUS
  <2>2. /\ 2*1 - 1 = 1 /\ 2*1 = 2 /\ 2*2 - 1 = 3 /\ 2*2 = 4
        /\ 2*3 - 1 = 5 /\ 2*3 = 6 /\ 2*4 - 1 = 7 /\ 2*4 = 8
    OBVIOUS
  <2> QED
    BY <1>10, <2>1, <2>2
<1> QED
  BY <1>3, <1>8, <1>11

\* The code that ConnectNewDevice shows is parsed by connectIP to the address and the
\* key it was made of: two digits each, those of the address filled up.
THEOREM CodeHoldsWindow ==
  ASSUME NEW ip \in [1..4 -> 0..255], NEW key \in 0..126
  PROVE  /\ ServerAddress(ConnectionCode(ip, key)) = ip
         /\ SecretKey(ConnectionCode(ip, key)) = key
<1> DEFINE code == ConnectionCode(ip, key)
           front == SubSeq(code, 1, 8)
           back == SubSeq(code, 9, Len(code))
<1>1. /\ code \in Seq(Int) /\ Len(code) = 10
      /\ \A i \in 1..4 : code[2*i - 1] = ip[i] \div 16 /\ code[2*i] = ip[i] % 16
      /\ code[9] = key \div 16 /\ code[10] = key % 16
  BY DigitsOf
<1> HIDE DEF code
<1>2. Len(front) = 8 /\ \A i \in 1..8 : front[i] = code[i]
  BY <1>1
<1>3. Len(back) = 2 /\ back[1] = code[9] /\ back[2] = code[10]
  BY <1>1
<1> HIDE DEF front, back
<1>4. ServerAddress(code) = ip
  <2>1. ASSUME NEW n \in 0..255 PROVE (n \div 16) * 16 + (n % 16) = n
    OBVIOUS
  <2>2. ASSUME NEW i \in 1..4 PROVE front[2*i - 1] * 16 + front[2*i] = ip[i]
    <3>1. 2*i - 1 \in 1..8 /\ 2*i \in 1..8 /\ ip[i] \in 0..255
      OBVIOUS
    <3>2. front[2*i - 1] = ip[i] \div 16 /\ front[2*i] = ip[i] % 16
      BY <1>1, <1>2, <3>1
    <3> QED
      BY <2>1, <3>1, <3>2
  <2>3. HexStringToByteArray(front) = [i \in 1..4 |-> front[2*i - 1] * 16 + front[2*i]]
    <3>1. Len(front) % 2 # 1 /\ Len(front) \div 2 = 4
      BY <1>2
    <3> QED
      BY <3>1 DEF HexStringToByteArray
  <2>4. ip = [i \in 1..4 |-> ip[i]]
    OBVIOUS
  <2> QED
    BY <2>2, <2>3, <2>4 DEF ServerAddress, front
<1>5. SecretKey(code) = key
  <2> DEFINE Body(g) == [i \in 0..2 |-> IF i = 0 THEN 0 ELSE g[i - 1] * 16 + back[i]]
             h == [i \in 0..2 |-> IF i = 0 THEN 0 ELSE
                                   IF i = 1 THEN back[1] ELSE back[1] * 16 + back[2]]
             F == CHOOSE value : value = Body(value)
  <2>1. back[1] \in Int /\ back[2] \in Int /\ back[1] * 16 + back[2] = key
    BY <1>1, <1>3
  <2>2. HexStringToInteger(back) = F[2]
    BY <1>3 DEF HexStringToInteger
  <2>3. h = Body(h)
    <3>1. h[0] = 0 /\ h[1] = back[1]
      OBVIOUS
    <3>2. 0 * 16 + back[1] = back[1]
      BY <2>1
    <3>3. ASSUME NEW i \in 0..2 PROVE h[i] = Body(h)[i]
      BY <3>1, <3>2
    <3> QED
      BY <3>3
  <2>4. F = Body(F)
    BY <2>3
  <2> HIDE DEF F
  <2>5. F[0] = 0 /\ F[1] = F[0] * 16 + back[1] /\ F[2] = F[1] * 16 + back[2]
    BY <2>4
  <2>6. F[2] = key
    BY <2>1, <2>5
  <2> QED
    BY <2>2, <2>6 DEF SecretKey, back
<1> QED
  BY <1>4, <1>5 DEF code
-----------------------------------------------------------------------------
(* What is sent *)

LEMMA KeysFit == Keys \subseteq 1..126
<1>1. ASSUME NEW r \in Randoms PROVE KeyOf(r) \in 0..126
  <2>1. r \in Nat
    BY RandomsAssumption
  <2> QED
    BY <2>1 DEF KeyOf
<1> QED
  BY <1>1 DEF Keys

LEMMA AddressesPrintable ==
  /\ Control \in Seq(1..127) /\ Len(Control) = 4
  /\ HandshakeClient \in Seq(1..127) /\ Len(HandshakeClient) = 5
  /\ HandshakeServer \in Seq(1..127) /\ Len(HandshakeServer) = 5
  /\ Control # HandshakeClient /\ Control # HandshakeServer
  /\ HandshakeClient # HandshakeServer
BY DEF Control, HandshakeClient, HandshakeServer

LEMMA TextOf ==
  ASSUME NEW t \in Texts
  PROVE  /\ String(t) \in Arguments
         /\ Len(WriteArgument(String(t))) \in Nat
         /\ 4 * Len(WriteArgument(String(t))) + 20 <= BufferSize
<1>1. t \in Seq(1..127) /\ 4 * (Len(t) + 4) + 20 <= BufferSize
  BY TextsAssumption
<1>2. String(t) \in Arguments
  BY <1>1 DEF Arguments
<1>3. t \in Seq(Int) /\ Len(t) \in Nat
  BY <1>1, TextsArePrintable, LenProperties DEF Printable
<1>4. WriteArgument(String(t)) = WriteString(t)
  BY DEF WriteArgument, String
<1> DEFINE m == Len(WriteString(t))
           k == Len(t)
<1>5. m \in Nat /\ m <= k + 4
  BY <1>3, WrittenString, LenProperties
<1> HIDE DEF m, k
<1>6. k \in Nat /\ 4 * (k + 4) + 20 <= BufferSize
  BY <1>1, <1>3 DEF k
<1>7. 4 * m + 20 <= BufferSize
  BY <1>5, <1>6, BoundsAssumption
<1> QED
  BY <1>2, <1>4, <1>5, <1>7 DEF m

\* How long a message is, without its arguments.
LEMMA BytesLength ==
  ASSUME NEW address \in Seq(1..127), Len(address) \in {4, 5},
         NEW args, Sendable(args)
  PROVE  \E m \in Nat :
           /\ m = Len(FlattenSeq(Parts(args)))
           /\ Len(JavaBytes(Message(address, args))) <= 16 + m
<1> DEFINE A == WriteString(address)
           T == WriteTypes(args)
           F == FlattenSeq(Parts(args))
           C == <<Comma>>
           AC == A \o C
           ACT == AC \o T
<1>1. address \in Seq(Int)
  BY TextsArePrintable DEF Printable
<1>2. A \in Seq(Int) /\ Len(A) = 8
  <2>1. Len(A) = Len(address) + (4 - (Len(address) % 4)) /\ A \in Seq(Int)
    BY <1>1, WrittenString
  <2>2. 4 + (4 - (4 % 4)) = 8 /\ 5 + (4 - (5 % 4)) = 8
    OBVIOUS
  <2> QED
    BY <2>1, <2>2
<1>3. T \in Seq(Int) /\ Len(T) \in Nat /\ Len(T) <= 7
  <2> DEFINE t == Len(Tags(args))
  <2>1. t \in 0..5 /\ Tags(args) \in Seq(Int) /\ T = Tags(args) \o Padding(1 + t)
    BY TagsOf, SendableOf DEF Printable
  <2>2. Padding(1 + t) \in Seq(Int) /\ Len(Padding(1 + t)) = 4 - ((1 + t) % 4)
    BY <2>1, PaddingOf
  <2>3. T \in Seq(Int) /\ Len(T) = t + Len(Padding(1 + t))
    BY <2>1, <2>2, ConcatProperties
  <2> HIDE DEF t
  <2>4. t + (4 - ((1 + t) % 4)) \in Nat /\ t + (4 - ((1 + t) % 4)) <= 7
    <3>1. t = 0 \/ t = 1 \/ t = 2 \/ t = 3 \/ t = 4 \/ t = 5
      BY <2>1
    <3> QED
      BY <3>1
  <2> QED
    BY <2>2, <2>3, <2>4
<1>4. C \in Seq(Int) /\ Len(C) = 1
  BY DEF Comma
<1>5. F \in Seq(Int) /\ Len(F) \in Nat
  BY <1>1, BytesOf, LenProperties
<1>6. JavaBytes(Message(address, args)) = ACT \o F
  BY <1>1, BytesOf
<1> HIDE DEF A, T, F, C
<1>7. AC \in Seq(Int) /\ Len(AC) = Len(A) + Len(C)
  BY <1>2, <1>4, ConcatProperties
<1> HIDE DEF AC
<1>8. ACT \in Seq(Int) /\ Len(ACT) = Len(AC) + Len(T)
  BY <1>3, <1>7, ConcatProperties
<1> HIDE DEF ACT
<1>9. Len(ACT \o F) = Len(ACT) + Len(F)
  BY <1>5, <1>8, ConcatProperties
<1>10. Len(ACT \o F) <= 16 + Len(F)
  BY <1>2, <1>3, <1>4, <1>5, <1>7, <1>8, <1>9
<1> QED
  BY <1>5, <1>6, <1>10 DEF F

\* How long the arguments are, added up.
LEMMA LengthsOf ==
  ASSUME NEW args, Sendable(args)
  PROVE  \E l \in [0..Len(args) -> Nat] :
           /\ l[0] = 0 /\ l[Len(args)] = Len(FlattenSeq(Parts(args)))
           /\ \A i \in 1..Len(args) : l[i] = l[i - 1] + Len(WriteArgument(args[i]))
<1>1. PICK f \in [0..Len(args) -> Seq(Int)] :
        /\ FlattenSeq(Parts(args)) = f[Len(args)] /\ f[0] = <<>>
        /\ \A i \in 1..Len(args) :
             /\ i - 1 \in 0..Len(args) /\ i \in 0..Len(args)
             /\ Len(f[i]) = Len(f[i - 1]) + Len(WriteArgument(args[i]))
  BY PartsJoined
<1> DEFINE n == Len(args)
           l == [i \in 0..n |-> Len(f[i])]
<1>2. n \in 0..5
  BY SendableOf
<1>3. \A i \in 0..n : Len(f[i]) \in Nat
  BY <1>1, LenProperties
<1>4. l \in [0..n -> Nat]
  BY <1>3
<1>5. l[0] = 0 /\ l[n] = Len(FlattenSeq(Parts(args)))
  BY <1>1, <1>2, EmptySeq
<1>6. \A i \in 1..n : l[i] = l[i - 1] + Len(WriteArgument(args[i]))
  BY <1>1
<1> QED
  BY <1>4, <1>5, <1>6

LEMMA KeyArgumentOf ==
  ASSUME NEW k \in Keys
  PROVE  Integer(k) \in Arguments /\ Len(WriteArgument(Integer(k))) = 4
<1>1. k \in 0..126
  BY KeysFit
<1>2. Integer(k) \in Arguments
  BY <1>1 DEF Arguments
<1>3. WriteArgument(Integer(k)) = <<0, 0, 0, k>>
  BY <1>1, ReadsKey DEF WriteArgument, Integer
<1> QED
  BY <1>2, <1>3

\* Four texts and a key fit the buffer.
LEMMA FitsBuffer ==
  ASSUME NEW address \in Seq(1..127), Len(address) \in {4, 5},
         NEW args, Sendable(args),
         \A i \in 1..Len(args) :
           \/ i <= 4 /\ 4 * Len(WriteArgument(args[i])) + 20 <= BufferSize
           \/ i = 5 /\ Len(WriteArgument(args[i])) = 4
  PROVE  Len(JavaBytes(Message(address, args))) <= BufferSize
<1> DEFINE n == Len(args)
           Size(i) == Len(WriteArgument(args[i]))
           bytes == Len(JavaBytes(Message(address, args)))
<1>1. PICK l \in [0..n -> Nat] :
        /\ l[0] = 0 /\ l[n] = Len(FlattenSeq(Parts(args)))
        /\ \A i \in 1..n : l[i] = l[i - 1] + Size(i)
  BY LengthsOf
<1>2. PICK m \in Nat : m = Len(FlattenSeq(Parts(args))) /\ bytes <= 16 + m
  BY BytesLength
<1>3. n \in 0..5 /\ \A i \in 1..n : args[i] \in Arguments
  BY SendableOf
<1>4. \A i \in 1..n : Size(i) \in Nat
  BY <1>3, WrittenArgument
<1>5. \A i \in 1..n : \/ i <= 4 /\ 4 * Size(i) + 20 <= BufferSize
                      \/ i = 5 /\ Size(i) = 4
  OBVIOUS
<1>6. BufferSize \in Nat /\ BufferSize >= 20
  BY BoundsAssumption, BufferAssumption
<1>7. bytes \in Nat
  <2>1. address \in Seq(Int)
    BY TextsArePrintable DEF Printable
  <2>2. JavaBytes(Message(address, args)) \in Seq(Int)
    BY <2>1, BytesInSeq
  <2> QED
    BY <2>2, LenProperties
<1> HIDE DEF n, Size, bytes
<1>8. ASSUME NEW i \in 1..n, i <= 4
      PROVE  /\ l[i - 1] \in Nat /\ l[i] \in Nat
             /\ 4 * l[i] + 20 <= 4 * l[i - 1] + BufferSize
  <2>1. i - 1 \in 0..n /\ i \in 0..n /\ i # 5
    BY <1>3, <1>8
  <2>2. l[i - 1] \in Nat /\ l[i] \in Nat /\ l[i] = l[i - 1] + Size(i)
    BY <1>1, <2>1
  <2>3. Size(i) \in Nat /\ 4 * Size(i) + 20 <= BufferSize
    BY <1>4, <1>5, <2>1
  <2> DEFINE x == l[i]
             y == l[i - 1]
             z == Size(i)
  <2> HIDE DEF x, y, z
  <2>4. x \in Nat /\ y \in Nat /\ z \in Nat /\ x = y + z /\ 4 * z + 20 <= BufferSize
    BY <2>2, <2>3 DEF x, y, z
  <2>5. 4 * x + 20 <= 4 * y + BufferSize
    BY <1>6, <2>4
  <2> QED
    BY <2>2, <2>5 DEF x, y
<1> DEFINE B == BufferSize - 20
<1>9. /\ 1 <= n => l[1] \in Nat /\ 4 * l[1] <= B
      /\ 2 <= n => l[2] \in Nat /\ 4 * l[2] <= B + B
      /\ 3 <= n => l[3] \in Nat /\ 4 * l[3] <= B + B + B
      /\ 4 <= n => l[4] \in Nat /\ 4 * l[4] <= B + B + B + B
  <2>1. B \in Nat
    BY <1>6
  <2>2. ASSUME NEW i \in 1..n, i <= 4
        PROVE  l[i - 1] \in Nat /\ l[i] \in Nat /\ 4 * l[i] <= 4 * l[i - 1] + B
    <3> DEFINE x == l[i]
               y == l[i - 1]
    <3>1. x \in Nat /\ y \in Nat /\ 4 * x + 20 <= 4 * y + BufferSize
      BY <1>8, <2>2
    <3> HIDE DEF x, y
    <3>2. 4 * x <= 4 * y + B
      BY <1>6, <3>1
    <3> QED
      BY <3>1, <3>2 DEF x, y
  <2> HIDE DEF B
  <2>3. 1 <= n => l[1] \in Nat /\ 4 * l[1] <= B
    <3>1. 1 <= n => 1 \in 1..n /\ 1 - 1 = 0
      BY <1>3
    <3>2. 1 <= n => l[0] \in Nat /\ l[1] \in Nat /\ 4 * l[1] <= 4 * l[0] + B
      BY <2>2, <3>1
    <3> QED
      BY <1>1, <2>1, <3>2
  <2>4. 2 <= n => l[2] \in Nat /\ 4 * l[2] <= 4 * l[1] + B
    <3>1. 2 <= n => 2 \in 1..n /\ 2 - 1 = 1
      BY <1>3
    <3> QED
      BY <2>2, <3>1
  <2>5. 3 <= n => l[3] \in Nat /\ 4 * l[3] <= 4 * l[2] + B
    <3>1. 3 <= n => 3 \in 1..n /\ 3 - 1 = 2
      BY <1>3
    <3> QED
      BY <2>2, <3>1
  <2>6. 4 <= n => l[4] \in Nat /\ 4 * l[4] <= 4 * l[3] + B
    <3>1. 4 <= n => 4 \in 1..n /\ 4 - 1 = 3
      BY <1>3
    <3> QED
      BY <2>2, <3>1
  <2> DEFINE x1 == l[1]
             x2 == l[2]
             x3 == l[3]
             x4 == l[4]
  <2>7. /\ 1 <= n => x1 \in Nat /\ 4 * x1 <= B
        /\ 2 <= n => x2 \in Nat /\ 4 * x2 <= 4 * x1 + B
        /\ 3 <= n => x3 \in Nat /\ 4 * x3 <= 4 * x2 + B
        /\ 4 <= n => x4 \in Nat /\ 4 * x4 <= 4 * x3 + B
    BY <2>3, <2>4, <2>5, <2>6
  <2> HIDE DEF x1, x2, x3, x4
  <2>8. 2 <= n => x2 \in Nat /\ 4 * x2 <= B + B
    BY <1>3, <2>1, <2>7
  <2>9. 3 <= n => x3 \in Nat /\ 4 * x3 <= B + B + B
    BY <1>3, <2>1, <2>7, <2>8
  <2>10. 4 <= n => x4 \in Nat /\ 4 * x4 <= B + B + B + B
    <3>1. 4 <= n => 3 <= n
      BY <1>3
    <3>2. 4 <= n => x4 \in Nat /\ x3 \in Nat /\ 4 * x4 <= 4 * x3 + B
                      /\ 4 * x3 <= B + B + B
      BY <2>7, <2>9, <3>1
    <3> QED
      BY <2>1, <3>2
  <2> QED
    BY <2>7, <2>8, <2>9, <2>10 DEF x1, x2, x3, x4
<1>10. m + 16 <= BufferSize
  <2>1. CASE n <= 4
    <3>1. n = 0 \/ n = 1 \/ n = 2 \/ n = 3 \/ n = 4
      BY <1>3, <2>1
    <3>2. n = 0 => m = 0
      BY <1>1, <1>2
    <3>3. n # 0 => 4 * m <= B + B + B + B
      <4>1. /\ n = 1 => 4 * m <= B
            /\ n = 2 => 4 * m <= B + B
            /\ n = 3 => 4 * m <= B + B + B
            /\ n = 4 => 4 * m <= B + B + B + B
        <5>1. l[n] = m
          BY <1>1, <1>2
        <5> HIDE DEF B
        <5>2. \A i \in {1, 2, 3, 4} : n = i => i <= n /\ l[i] = m
          BY <5>1
        <5> QED
          BY <1>9, <5>2
      <4>2. B \in Nat
        BY <1>6
      <4> HIDE DEF B
      <4> QED
        BY <1>2, <3>1, <4>1, <4>2
    <3> QED
      BY <1>2, <1>6, <3>2, <3>3
  <2>2. CASE n = 5
    <3>1. l[4] \in Nat /\ 4 * l[4] <= B + B + B + B
      BY <1>9, <2>2
    <3>2. Size(5) = 4 /\ l[5] = l[5 - 1] + Size(5) /\ 5 - 1 = 4
      <4>1. 5 \in 1..n /\ ~(5 <= 4)
        BY <2>2
      <4> QED
        BY <1>1, <1>5, <4>1
    <3>3. m = l[4] + 4
      BY <1>1, <1>2, <2>2, <3>2
    <3> QED
      BY <1>2, <1>6, <3>1, <3>3
  <2> QED
    BY <1>3, <2>1, <2>2
<1> QED
  BY <1>2, <1>6, <1>7, <1>10 DEF bytes

\* Every message is one that can be read, and fits the buffer.
LEMMA MeantOf ==
  ASSUME NEW m \in Meant
  PROVE  \E address \in Seq(1..127), args \in Seq(Arguments) :
           /\ m = Message(address, args) /\ Sendable(args)
           /\ Len(JavaBytes(m)) <= BufferSize
           /\ \/ address = Control /\ Len(args) = 2
              \/ address = Control /\ Len(args) \in {0, 1}
              \/ address = HandshakeServer /\ Len(args) = 4
              \/ address = HandshakeClient /\ Len(args) = 5
<1> DEFINE Size(a) == Len(WriteArgument(a))
<1>0. /\ \A t \in Texts : String(t) \in Arguments /\ 4 * Size(String(t)) + 20 <= BufferSize
      /\ \A k \in Keys : Integer(k) \in Arguments /\ Size(Integer(k)) = 4
  BY TextOf, KeyArgumentOf
<1> HIDE DEF Size
<1>1. CASE m = Message(Control, <<>>)
  <2> DEFINE args == <<>>
  <2>2. args \in Seq(Arguments) /\ Len(args) = 0
    BY EmptySeq
  <2>4. m = Message(Control, args) /\ args = <<>>
    BY <1>1
  <2> HIDE DEF args
  <2>5. Sendable(args)
    BY <2>2 DEF Sendable
  <2>6. \A i \in 1..Len(args) : \/ i <= 4 /\ 4 * Size(args[i]) + 20 <= BufferSize
                                \/ i = 5 /\ Size(args[i]) = 4
    BY <2>2
  <2>7. Len(JavaBytes(Message(Control, args))) <= BufferSize
    BY <2>5, <2>6, FitsBuffer, AddressesPrintable DEF Size
  <2> QED
    BY <2>2, <2>4, <2>5, <2>7, AddressesPrintable
<1>5. CASE \E t \in Texts : m = Message(Control, <<String(t)>>)
  <2>1. PICK t \in Texts : m = Message(Control, <<String(t)>>)
    BY <1>5
  <2> DEFINE args == <<String(t)>>
  <2>2. args \in Seq(Arguments) /\ Len(args) = 1
    BY <1>0, <2>1
  <2>3. args[1] = String(t)
    OBVIOUS
  <2>4. m = Message(Control, args)
    BY <2>1
  <2> HIDE DEF args
  <2>5. Sendable(args)
    BY <2>2 DEF Sendable
  <2>6. \A i \in 1..Len(args) : \/ i <= 4 /\ 4 * Size(args[i]) + 20 <= BufferSize
                                \/ i = 5 /\ Size(args[i]) = 4
    <3>1. \A i \in 1..Len(args) : i = 1
      BY <2>2
    <3> QED
      BY <1>0, <2>1, <2>3, <3>1
  <2>7. Len(JavaBytes(Message(Control, args))) <= BufferSize
    BY <2>5, <2>6, FitsBuffer, AddressesPrintable DEF Size
  <2> QED
    BY <2>2, <2>4, <2>5, <2>7, AddressesPrintable
<1>2. CASE \E c, s \in Texts : m = Message(Control, <<String(c), String(s)>>)
  <2>1. PICK c \in Texts, s \in Texts : m = Message(Control, <<String(c), String(s)>>)
    BY <1>2
  <2> DEFINE args == <<String(c), String(s)>>
  <2>2. args \in Seq(Arguments) /\ Len(args) = 2 /\ args # <<>>
    BY <1>0, <2>1
  <2>3. /\ args[1] = String(c) /\ args[2] = String(s)
    OBVIOUS
  <2>4. m = Message(Control, args)
    BY <2>1
  <2> HIDE DEF args
  <2>5. Sendable(args)
    BY <2>2 DEF Sendable
  <2>6. \A i \in 1..Len(args) : \/ i <= 4 /\ 4 * Size(args[i]) + 20 <= BufferSize
                                \/ i = 5 /\ Size(args[i]) = 4
    <3>1. \A i \in 1..Len(args) : i = 1 \/ i = 2
      BY <2>2
    <3> QED
      BY <1>0, <2>1, <2>3, <3>1
  <2>7. Len(JavaBytes(Message(Control, args))) <= BufferSize
    BY <2>5, <2>6, FitsBuffer, AddressesPrintable DEF Size
  <2> QED
    BY <2>2, <2>4, <2>5, <2>7, AddressesPrintable
<1>3. CASE \E mo, ex \in Texts :
             m = Message(HandshakeServer, <<String(mo), String(ex), String(mo), String(ex)>>)
  <2>1. PICK mo \in Texts, ex \in Texts :
          m = Message(HandshakeServer, <<String(mo), String(ex), String(mo), String(ex)>>)
    BY <1>3
  <2> DEFINE args == <<String(mo), String(ex), String(mo), String(ex)>>
  <2>2. args \in Seq(Arguments) /\ Len(args) = 4 /\ args # <<>>
    BY <1>0, <2>1
  <2>3. /\ args[1] = String(mo) /\ args[2] = String(ex) /\ args[3] = String(mo) /\ args[4] = String(ex)
    OBVIOUS
  <2>4. m = Message(HandshakeServer, args)
    BY <2>1
  <2> HIDE DEF args
  <2>5. Sendable(args)
    BY <2>2 DEF Sendable
  <2>6. \A i \in 1..Len(args) : \/ i <= 4 /\ 4 * Size(args[i]) + 20 <= BufferSize
                                \/ i = 5 /\ Size(args[i]) = 4
    <3>1. \A i \in 1..Len(args) : i = 1 \/ i = 2 \/ i = 3 \/ i = 4
      BY <2>2
    <3> QED
      BY <1>0, <2>1, <2>3, <3>1
  <2>7. Len(JavaBytes(Message(HandshakeServer, args))) <= BufferSize
    BY <2>5, <2>6, FitsBuffer, AddressesPrintable DEF Size
  <2> QED
    BY <2>2, <2>4, <2>5, <2>7, AddressesPrintable
<1>4. CASE \E mo, ex \in Texts, k \in Keys :
             m = Message(HandshakeClient,
                          <<String(mo), String(ex), String(mo), String(ex), Integer(k)>>)
  <2>1. PICK mo \in Texts, ex \in Texts, k \in Keys :
          m = Message(HandshakeClient,
                          <<String(mo), String(ex), String(mo), String(ex), Integer(k)>>)
    BY <1>4
  <2> DEFINE args == <<String(mo), String(ex), String(mo), String(ex), Integer(k)>>
  <2>2. args \in Seq(Arguments) /\ Len(args) = 5 /\ args # <<>>
    BY <1>0, <2>1
  <2>3. /\ args[1] = String(mo) /\ args[2] = String(ex) /\ args[3] = String(mo) /\ args[4] = String(ex) /\ args[5] = Integer(k)
    OBVIOUS
  <2>4. m = Message(HandshakeClient, args)
    BY <2>1
  <2> HIDE DEF args
  <2>5. Sendable(args)
    BY <2>2 DEF Sendable
  <2>6. \A i \in 1..Len(args) : \/ i <= 4 /\ 4 * Size(args[i]) + 20 <= BufferSize
                                \/ i = 5 /\ Size(args[i]) = 4
    <3>1. \A i \in 1..Len(args) : i = 1 \/ i = 2 \/ i = 3 \/ i = 4 \/ i = 5
      BY <2>2
    <3> QED
      BY <1>0, <2>1, <2>3, <3>1
  <2>7. Len(JavaBytes(Message(HandshakeClient, args))) <= BufferSize
    BY <2>5, <2>6, FitsBuffer, AddressesPrintable DEF Size
  <2> QED
    BY <2>2, <2>4, <2>5, <2>7, AddressesPrintable
<1> QED
  BY <1>1, <1>2, <1>3, <1>4, <1>5 DEF Meant, HalfControls, Controls,
     ServerHandshakes, ClientHandshakes

LEMMA FlattenOne ==
  ASSUME NEW X, NEW s \in Seq(X)
  PROVE  FlattenSeq(<<s>>) = s
<1> DEFINE ss == <<s>>
           f == [i \in 0..1 |-> IF i = 0 THEN <<>> ELSE s]
<1>1. ss \in Seq(Seq(X)) /\ Len(ss) = 1 /\ ss[1] = s
  OBVIOUS
<1>2. f \in [0..1 -> Seq(X)] /\ f[0] = <<>> /\ f[1] = s
  BY EmptySeq
<1>3. <<>> \o s = s
  BY ConcatEmptySeq
<1> HIDE DEF ss, f
<1>4. Joins(f, ss, 1)
  <2>1. \A i \in 1..1 : i = 1 /\ i - 1 = 0
    OBVIOUS
  <2> QED
    BY <1>1, <1>2, <1>3, <2>1 DEF Joins
<1>5. f \in [0..Len(ss) -> Seq(X)] /\ Joins(f, ss, Len(ss)) /\ Len(ss) <= 5
  BY <1>1, <1>2, <1>4
<1>6. FlattenSeq(ss) = f[Len(ss)]
  BY <1>1, <1>5, FlattenOf
<1> QED
  BY <1>1, <1>2, <1>6 DEF ss

LEMMA FlattenPair ==
  ASSUME NEW X, NEW s \in Seq(X), NEW t \in Seq(X)
  PROVE  FlattenSeq(<<s, t>>) = s \o t
<1> DEFINE ss == <<s, t>>
           f == [i \in 0..2 |-> IF i = 0 THEN <<>> ELSE IF i = 1 THEN s ELSE s \o t]
<1>1. ss \in Seq(Seq(X)) /\ Len(ss) = 2 /\ ss[1] = s /\ ss[2] = t
  OBVIOUS
<1>2. /\ f[0] = <<>> /\ f[1] = s /\ f[2] = s \o t
      /\ f \in [0..2 -> Seq(X)]
  BY EmptySeq, ConcatProperties
<1>3. <<>> \o s = s
  BY ConcatEmptySeq
<1> HIDE DEF ss, f
<1>4. Joins(f, ss, 2)
  <2>1. \A i \in 1..2 : (i = 1 /\ i - 1 = 0) \/ (i = 2 /\ i - 1 = 1)
    OBVIOUS
  <2> QED
    BY <1>1, <1>2, <1>3, <2>1 DEF Joins
<1>5. f \in [0..Len(ss) -> Seq(X)] /\ Joins(f, ss, Len(ss)) /\ Len(ss) <= 5
  BY <1>1, <1>2, <1>4
<1>6. FlattenSeq(ss) = f[Len(ss)]
  BY <1>1, <1>5, FlattenOf
<1> QED
  BY <1>1, <1>2, <1>6 DEF ss

\* The datagram says nothing of an argument that is null.
LEMMA NullsAreAbsent ==
  ASSUME NEW args \in ControlArguments
  PROVE  /\ Message(Control, Present(args)) \in Meant
         /\ JavaBytes(Message(Control, args)) = JavaBytes(Message(Control, Present(args)))
<1> DEFINE Kept(x) == IF x.type = "null" THEN <<>> ELSE <<x>>
           Written(s) == FlattenSeq(Parts(s))
<1>1. PICK a, b : /\ args = <<a, b>>
                  /\ a = Null \/ \E t \in Texts : a = String(t)
                  /\ b = Null \/ \E t \in Texts : b = String(t)
  BY DEF ControlArguments
<1>2. ASSUME NEW x, x = Null \/ \E t \in Texts : x = String(t)
      PROVE  /\ x = Null => Kept(x) = <<>> /\ WriteArgument(x) = <<>>
             /\ x # Null => Kept(x) = <<x>> /\ x \in Arguments
             /\ Kept(x) \in Seq(Arguments) /\ WriteArgument(x) \in Seq(Int)
  <2>1. x = Null => Kept(x) = <<>> /\ WriteArgument(x) = <<>>
    BY DEF Null, WriteArgument
  <2>2. x # Null => Kept(x) = <<x>> /\ x \in Arguments
    BY <1>2, TextOf DEF String, Null
  <2>3. <<>> \in Seq(Arguments) /\ <<>> \in Seq(Int)
    BY EmptySeq
  <2>4. x \in Arguments => <<x>> \in Seq(Arguments) /\ WriteArgument(x) \in Seq(Int)
    BY WrittenArgument
  <2> QED
    BY <2>1, <2>2, <2>3, <2>4
<1>3. Kept(a) \in Seq(Arguments) /\ Kept(b) \in Seq(Arguments)
  BY <1>1, <1>2
<1>4. WriteArgument(a) \in Seq(Int) /\ WriteArgument(b) \in Seq(Int)
  BY <1>1, <1>2
<1>5. Present(args) = Kept(a) \o Kept(b)
  <2>1. [i \in DOMAIN args |-> IF args[i].type = "null" THEN <<>> ELSE <<args[i]>>]
          = <<Kept(a), Kept(b)>>
    BY <1>1
  <2> QED
    BY <1>3, <2>1, FlattenPair DEF Present
<1>6. ASSUME NEW c, NEW d, WriteArgument(c) \in Seq(Int), WriteArgument(d) \in Seq(Int)
      PROVE  Written(<<c, d>>) = WriteArgument(c) \o WriteArgument(d)
  <2>1. Parts(<<c, d>>) = <<WriteArgument(c), WriteArgument(d)>>
    BY DEF Parts
  <2> QED
    BY <1>6, <2>1, FlattenPair
<1>7. ASSUME NEW c, WriteArgument(c) \in Seq(Int)
      PROVE  Written(<<c>>) = WriteArgument(c)
  <2>1. Parts(<<c>>) = <<WriteArgument(c)>>
    BY DEF Parts
  <2> QED
    BY <1>7, <2>1, FlattenOne
<1>8. Written(<<>>) = <<>>
  <2>1. Sendable(<<>>) /\ Len(<<>>) = 0
    BY EmptySeq DEF Sendable
  <2> QED
    BY <2>1, PartsJoined
<1> HIDE DEF Kept, Written
<1>9. /\ Sendable(Present(args)) /\ Message(Control, Present(args)) \in Meant
      /\ Written(Present(args)) = Written(args)
  <2>1. Written(args) = WriteArgument(a) \o WriteArgument(b)
    BY <1>1, <1>4, <1>6
  <2>2. CASE a = Null /\ b = Null
    <3>1. Present(args) = <<>> /\ Written(args) = <<>>
      BY <1>1, <1>2, <1>5, <2>1, <2>2, EmptySeq, ConcatEmptySeq
    <3> QED
      BY <1>8, <3>1, EmptySeq DEF Sendable, Meant
  <2>3. CASE a # Null /\ b = Null
    <3>1. Present(args) = <<a>> /\ Written(args) = WriteArgument(a)
      BY <1>1, <1>2, <1>3, <1>4, <1>5, <2>1, <2>3, ConcatEmptySeq
    <3>2. <<a>> \in Seq(Arguments) /\ Len(<<a>>) = 1
      BY <1>1, <1>2, <2>3
    <3>3. Message(Control, <<a>>) \in Meant
      BY <1>1, <2>3 DEF Meant, HalfControls
    <3> QED
      BY <1>4, <1>7, <3>1, <3>2, <3>3 DEF Sendable
  <2>4. CASE a = Null /\ b # Null
    <3>1. Present(args) = <<b>> /\ Written(args) = WriteArgument(b)
      BY <1>1, <1>2, <1>3, <1>4, <1>5, <2>1, <2>4, ConcatEmptySeq
    <3>2. <<b>> \in Seq(Arguments) /\ Len(<<b>>) = 1
      BY <1>1, <1>2, <2>4
    <3>3. Message(Control, <<b>>) \in Meant
      BY <1>1, <2>4 DEF Meant, HalfControls
    <3> QED
      BY <1>4, <1>7, <3>1, <3>2, <3>3 DEF Sendable
  <2>5. CASE a # Null /\ b # Null
    <3>1. args \in Seq(Arguments) /\ Len(args) = 2
      BY <1>1, <1>2, <2>5
    <3>2. Sendable(args)
      BY <3>1 DEF Sendable
    <3>3. Present(args) = args
      BY <3>2, AllPresent
    <3>4. Message(Control, args) \in Meant
      BY <1>1, <2>5 DEF Meant, Controls
    <3> QED
      BY <3>2, <3>3, <3>4
  <2> QED
    BY <2>2, <2>3, <2>4, <2>5
<1>10. WriteTypes(args) = WriteTypes(Present(args))
  <2>1. Present(Present(args)) = Present(args)
    BY <1>9, AllPresent
  <2> QED
    BY <2>1 DEF WriteTypes
<1>11. JavaBytes(Message(Control, args)) = JavaBytes(Message(Control, Present(args)))
  BY <1>9, <1>10 DEF JavaBytes, Message, Parts, Written
<1> QED
  BY <1>9, <1>11
-----------------------------------------------------------------------------
(* What is received *)

\* A datagram is at the beginning of the buffer it is read into.
LEMMA ReadsDatagram ==
  ASSUME NEW buffer, DOMAIN buffer = 0..(BufferSize - 1),
         NEW bytes \in Seq(Int), Len(bytes) <= BufferSize
  PROVE  /\ DOMAIN ReadDatagram(buffer, bytes) = 0..(BufferSize - 1)
         /\ Holds(ReadDatagram(buffer, bytes), 0, bytes)
<1> DEFINE b == ReadDatagram(buffer, bytes)
           n == Len(bytes)
<1>1. n \in Nat /\ n <= BufferSize /\ BufferSize \in Nat
  BY LenProperties, BoundsAssumption
<1>2. /\ DOMAIN b = 0..(BufferSize - 1)
      /\ \A i \in 0..(BufferSize - 1) : i < n => b[i] = bytes[i + 1]
  BY DEF ReadDatagram
<1> HIDE DEF b, n
<1>3. ASSUME NEW i \in 1..n PROVE 0 + i - 1 \in DOMAIN b /\ b[0 + i - 1] = bytes[i]
  <2>1. /\ 0 + i - 1 \in 0..(BufferSize - 1) /\ 0 + i - 1 < n
        /\ (0 + i - 1) + 1 = i
    BY <1>1
  <2> QED
    BY <1>2, <2>1
<1> QED
  BY <1>2, <1>3 DEF Holds, b, n

LEMMA ReceivedAsMeant ==
  ASSUME NEW m \in Meant, NEW buffer, DOMAIN buffer = 0..(BufferSize - 1), NEW reader
  PROVE  /\ DOMAIN ReadDatagram(buffer, JavaBytes(m)) = 0..(BufferSize - 1)
         /\ ConvertMessage(ReadDatagram(buffer, JavaBytes(m)), reader) = m
<1>1. PICK address \in Seq(1..127), args \in Seq(Arguments) :
        m = Message(address, args) /\ Sendable(args) /\ Len(JavaBytes(m)) <= BufferSize
  BY MeantOf
<1>2. JavaBytes(m) \in Seq(Int)
  <2>1. address \in Seq(Int)
    BY TextsArePrintable DEF Printable
  <2> QED
    BY <1>1, <2>1, BytesInSeq
<1> DEFINE b == ReadDatagram(buffer, JavaBytes(m))
<1>3. DOMAIN b = 0..(BufferSize - 1) /\ Holds(b, 0, JavaBytes(m))
  BY <1>1, <1>2, ReadsDatagram
<1> HIDE DEF b
<1>4. DOMAIN b \subseteq Nat
  BY <1>3
<1>5. ConvertMessage(b, reader) = m
  BY <1>1, <1>3, <1>4, WrittenIsRead
<1> QED
  BY <1>3, <1>5 DEF b

\* What the listeners make of a message that somebody meant.
LEMMA DispatchOf ==
  ASSUME NEW m \in Meant
  PROVE  /\ m.address # HandshakeServer =>
              /\ ServerDispatch(m) \notin {"out of range", "no listener"}
              /\ ServerDispatch(m) = "ignored" <=> m.address = Control /\ Len(m.args) < 2
         /\ m.address = HandshakeServer => PhoneDispatch(m) = "authenticated"
         /\ HandshakeServer # Control
<1>1. PICK address \in Seq(1..127), args \in Seq(Arguments) :
        /\ m = Message(address, args)
        /\ \/ address = Control /\ Len(args) = 2
           \/ address = Control /\ Len(args) \in {0, 1}
           \/ address = HandshakeServer /\ Len(args) = 4
           \/ address = HandshakeClient /\ Len(args) = 5
  BY MeantOf
<1>2. m.address = address /\ m.args = args
  BY <1>1 DEF Message
<1>3. CASE address = Control
  <2>1. Len(args) = 2 => ServerDispatch(m) = "decrypt"
    BY <1>2, <1>3, AddressesPrintable DEF ServerDispatch
  <2>2. Len(args) # 2 => ServerDispatch(m) = "ignored"
    BY <1>2, <1>3, AddressesPrintable DEF ServerDispatch
  <2>3. PICK n : n = Len(args)
    OBVIOUS
  <2>4. n < 2 <=> n # 2
    <3>1. n = 2 \/ n = 0 \/ n = 1
      BY <1>1, <1>3, <2>3, AddressesPrintable
    <3> QED
      BY <3>1
  <2> QED
    BY <1>2, <1>3, <2>1, <2>2, <2>3, <2>4, AddressesPrintable
<1>4. CASE address = HandshakeServer
  BY <1>1, <1>2, <1>4, AddressesPrintable DEF PhoneDispatch
<1>5. CASE address = HandshakeClient
  <2>1. Len(args) = 5
    BY <1>1, <1>5, AddressesPrintable
  <2>2. ServerDispatch(m) = "checked"
    BY <1>2, <1>5, <2>1, AddressesPrintable DEF ServerDispatch
  <2> QED
    BY <1>2, <1>5, <2>1, <2>2, AddressesPrintable
<1> QED
  BY <1>1, <1>3, <1>4, <1>5
-----------------------------------------------------------------------------
(* The invariant *)

LEMMA NobodyIsThePhone == Phone \notin Addresses
<1>1. ASSUME NEW a \in [1..4 -> 0..255] PROVE a # <<>>
  <2>1. 1 \in DOMAIN a /\ 1 \notin DOMAIN <<>>
    OBVIOUS
  <2> QED
    BY <2>1
<1> QED
  BY <1>1, AddressesAssumption DEF Phone

LEMMA InitWellSent == Init => IInv
BY DEF Init, IInv, Empty, Nothing, ReadAsMeant, CodeFindsServer, ArgumentsAreThere

LEMMA SendWellSent ==
  ASSUME IInv, NEW meant \in Meant, NEW to, NEW window,
         Send(JavaBytes(meant), meant, to, window),
         to = Phone <=> meant.address = HandshakeServer,
         to # Phone => to = window[1]
  PROVE  IInv'
<1> DEFINE new == [bytes |-> JavaBytes(meant), meant |-> meant, to |-> to, window |-> window]
<1>1. WellSent(new)
  BY DEF WellSent
<1>2. /\ net' = net \cup {new} /\ serverBuffer' = serverBuffer
      /\ phoneBuffer' = phoneBuffer /\ last' = last
  BY DEF Send
<1> HIDE DEF new
<1>3. \A d \in net' : WellSent(d)
  BY <1>1, <1>2 DEF IInv
<1>4. CodeFindsServer'
  BY <1>3 DEF CodeFindsServer, WellSent
<1>5. ReadAsMeant' /\ ArgumentsAreThere'
  BY <1>2 DEF IInv, ReadAsMeant, ArgumentsAreThere
<1> QED
  BY <1>2, <1>3, <1>4, <1>5 DEF IInv, WellSent

LEMMA SendHandshakeClientWellSent ==
  ASSUME IInv, NEW mod \in Texts, NEW exp \in Texts, NEW w \in Windows,
         SendHandshakeClient(mod, exp, w)
  PROVE  IInv'
<1> DEFINE ip == w[1]
           k == w[2]
           code == ConnectionCode(ip, k)
           keys == <<String(mod), String(exp), String(mod), String(exp)>>
           m == Message(HandshakeClient, Append(keys, Integer(k)))
<1>1. ip \in Addresses /\ k \in Keys
  BY DEF Windows
<1>2. Send(JavaBytes(Message(HandshakeClient, Append(keys, Integer(SecretKey(code))))),
           m, ServerAddress(code), w)
  BY DEF SendHandshakeClient
<1> HIDE DEF ip, k
<1>3. ServerAddress(code) = ip /\ SecretKey(code) = k
  <2>1. ip \in [1..4 -> 0..255]
    BY <1>1, AddressesAssumption
  <2>2. k \in 0..126
    BY <1>1, KeysFit
  <2> QED
    BY <2>1, <2>2, CodeHoldsWindow
<1>4. Send(JavaBytes(m), m, ip, w)
  BY <1>2, <1>3
<1> DEFINE all == <<String(mod), String(exp), String(mod), String(exp), Integer(k)>>
<1>5. m = Message(HandshakeClient, all)
  <2>1. String(mod) \in Arguments /\ String(exp) \in Arguments /\ Integer(k) \in Arguments
    BY <1>1, TextOf, KeyArgumentOf
  <2>2. /\ keys \in Seq(Arguments) /\ Len(keys) = 4
        /\ \A i \in 1..4 : keys[i] = all[i]
    BY <2>1
  <2>3. /\ all \in Seq(Arguments) /\ Len(all) = 5 /\ all[5] = Integer(k)
    BY <2>1
  <2> HIDE DEF keys, all
  <2>4. Append(keys, Integer(k)) = all
    <3> DEFINE more == Append(keys, Integer(k))
    <3>1. /\ more \in Seq(Arguments) /\ Len(more) = Len(keys) + 1
          /\ \A i \in 1..Len(keys) : more[i] = keys[i]
          /\ more[Len(keys) + 1] = Integer(k)
      <4>1. ASSUME NEW t \in Seq(Arguments), NEW e \in Arguments
            PROVE  /\ Append(t, e) \in Seq(Arguments) /\ Len(Append(t, e)) = Len(t) + 1
                   /\ \A i \in 1..Len(t) : Append(t, e)[i] = t[i]
                   /\ Append(t, e)[Len(t) + 1] = e
        BY AppendProperties
      <4> QED
        BY <2>1, <2>2, <4>1
    <3> HIDE DEF more
    <3>2. Len(more) = 5 /\ \A i \in 1..4 : more[i] = all[i]
      BY <2>2, <3>1
    <3>3. more[5] = all[5]
      BY <2>2, <2>3, <3>1
    <3>4. \A i \in 1..Len(more) : more[i] = all[i]
      <4>1. \A i \in 1..5 : i \in 1..4 \/ i = 5
        OBVIOUS
      <4> QED
        BY <3>2, <3>3, <4>1
    <3> QED
      BY <2>3, <3>1, <3>2, <3>4, SeqEqual DEF more
  <2> QED
    BY <2>4
<1>6. m \in Meant
  <2>1. Message(HandshakeClient, all) \in Meant
    <3> DEFINE F(mo, ex, n) ==
          Message(HandshakeClient,
                  <<String(mo), String(ex), String(mo), String(ex), Integer(n)>>)
    <3>1. \A mo, ex \in Texts, n \in Keys : F(mo, ex, n) \in Meant
      <4>1. \A mo, ex \in Texts, n \in Keys : F(mo, ex, n) \in ClientHandshakes
        BY DEF ClientHandshakes
      <4> HIDE DEF F
      <4> QED
        BY <4>1 DEF Meant
    <3>2. Message(HandshakeClient, all) = F(mod, exp, k)
      OBVIOUS
    <3> HIDE DEF all, F
    <3> QED
      BY <1>1, <3>1, <3>2
  <2> QED
    BY <1>5, <2>1
<1>7. m.address # HandshakeServer
  BY AddressesPrintable DEF Message
<1>8. ip # Phone
  BY <1>1, NobodyIsThePhone
<1> HIDE DEF m
<1> QED
  BY <1>4, <1>6, <1>7, <1>8, SendWellSent DEF ip

LEMMA SendControlWellSent ==
  ASSUME IInv, NEW args \in ControlArguments, NEW a \in Addresses, SendControl(args, a)
  PROVE  IInv'
<1> DEFINE m == Message(Control, Present(args))
<1>1. m \in Meant /\ JavaBytes(Message(Control, args)) = JavaBytes(m)
  BY NullsAreAbsent
<1>2. Send(JavaBytes(m), m, a, <<a>>)
  BY <1>1 DEF SendControl
<1>3. m.address # HandshakeServer
  BY AddressesPrintable DEF Message
<1>4. a # Phone /\ a = <<a>>[1]
  BY NobodyIsThePhone
<1> HIDE DEF m
<1> QED
  BY <1>1, <1>2, <1>3, <1>4, SendWellSent

LEMMA SendHandshakeServerWellSent ==
  ASSUME IInv, NEW mod \in Texts, NEW exp \in Texts, SendHandshakeServer(mod, exp)
  PROVE  IInv'
<1> DEFINE args == <<String(mod), String(exp), String(mod), String(exp)>>
           m == Message(HandshakeServer, args)
<1>1. m \in Meant
  BY DEF Meant, ServerHandshakes
<1>2. m.args # <<>> /\ m.address = HandshakeServer
  BY DEF Message
<1>3. QtBytes(m) = JavaBytes(m)
  BY <1>2 DEF QtBytes
<1>4. Send(JavaBytes(m), m, Phone, <<>>)
  BY <1>3 DEF SendHandshakeServer
<1> HIDE DEF m
<1> QED
  BY <1>1, <1>2, <1>4, SendWellSent

LEMMA ServerRunWellSent ==
  ASSUME IInv, NEW d \in net, ServerRun(d)
  PROVE  IInv'
<1>1. /\ d.meant \in Meant /\ d.bytes = JavaBytes(d.meant)
      /\ d.meant.address # HandshakeServer
  BY DEF IInv, WellSent, ServerRun
<1>2. /\ DOMAIN ReadDatagram(serverBuffer, d.bytes) = 0..(BufferSize - 1)
      /\ ConvertMessage(ReadDatagram(serverBuffer, d.bytes), "server") = d.meant
  BY <1>1, ReceivedAsMeant DEF IInv
<1>3. /\ net' = net /\ phoneBuffer' = phoneBuffer
      /\ DOMAIN serverBuffer' = 0..(BufferSize - 1)
      /\ last' = Received(d, d.meant, ServerDispatch(d.meant))
  BY <1>2 DEF ServerRun, QtConvert
<1>4. last'.got = d.meant /\ last'.datagram = d /\ last'.outcome = ServerDispatch(d.meant)
  BY <1>3 DEF Received
<1>5. ReadAsMeant' /\ ArgumentsAreThere'
  BY <1>1, <1>4, DispatchOf DEF ReadAsMeant, ArgumentsAreThere
<1>6. (\A e \in net' : WellSent(e)) /\ CodeFindsServer'
  BY <1>3 DEF IInv, CodeFindsServer
<1> QED
  BY <1>3, <1>5, <1>6 DEF IInv

LEMMA PhoneRunWellSent ==
  ASSUME IInv, NEW d \in net, PhoneRun(d)
  PROVE  IInv'
<1>1. /\ d.meant \in Meant /\ d.bytes = JavaBytes(d.meant)
      /\ d.meant.address = HandshakeServer
  BY DEF IInv, WellSent, PhoneRun
<1>2. /\ DOMAIN ReadDatagram(phoneBuffer, d.bytes) = 0..(BufferSize - 1)
      /\ ConvertMessage(ReadDatagram(phoneBuffer, d.bytes), "phone") = d.meant
  BY <1>1, ReceivedAsMeant DEF IInv
<1>3. /\ net' = net /\ serverBuffer' = serverBuffer
      /\ DOMAIN phoneBuffer' = 0..(BufferSize - 1)
      /\ last' = Received(d, d.meant, PhoneDispatch(d.meant))
  BY <1>2 DEF PhoneRun, JavaConvert
<1>4. last'.got = d.meant /\ last'.datagram = d /\ last'.outcome = PhoneDispatch(d.meant)
  BY <1>3 DEF Received
<1>5. ReadAsMeant' /\ ArgumentsAreThere'
  BY <1>1, <1>4, DispatchOf DEF ReadAsMeant, ArgumentsAreThere
<1>6. (\A e \in net' : WellSent(e)) /\ CodeFindsServer'
  BY <1>3 DEF IInv, CodeFindsServer
<1> QED
  BY <1>3, <1>5, <1>6 DEF IInv

LEMMA NextWellSent == IInv /\ [Next]_vars => IInv'
<1> SUFFICES ASSUME IInv, [Next]_vars PROVE IInv'
  OBVIOUS
<1>1. CASE \E mod, exp \in Texts, w \in Windows : SendHandshakeClient(mod, exp, w)
  BY <1>1, SendHandshakeClientWellSent
<1>2. CASE \E args \in ControlArguments, a \in Addresses : SendControl(args, a)
  BY <1>2, SendControlWellSent
<1>3. CASE \E mod, exp \in Texts : SendHandshakeServer(mod, exp)
  BY <1>3, SendHandshakeServerWellSent
<1>4. CASE \E d \in net : ServerRun(d)
  BY <1>4, ServerRunWellSent
<1>5. CASE \E d \in net : PhoneRun(d)
  BY <1>5, PhoneRunWellSent
<1>6. CASE UNCHANGED vars
  BY <1>6 DEF vars, IInv, WellSent, ReadAsMeant, CodeFindsServer, ArgumentsAreThere
<1> QED
  BY <1>1, <1>2, <1>3, <1>4, <1>5, <1>6 DEF Next

LEMMA AllWellSent == Spec => []IInv
BY InitWellSent, NextWellSent, PTL DEF Spec

\* Every message that either receive loop converts is the one its sender meant,
\* for texts of any length that fits and whatever the buffer still holds of the
\* datagrams before: the padding ends every string, the tags tell the arguments
\* that are there, and the window's key is too small for signed chars to spoil.
THEOREM MessagesAreReadAsMeant == Spec => []ReadAsMeant
<1>1. IInv => ReadAsMeant
  BY DEF IInv
<1> QED
  BY <1>1, AllWellSent, PTL

\* The address that a phone makes of a window's code is that of the server which
\* shows it, for every four bytes and every key that can be drawn.
THEOREM CodesFindTheirServer == Spec => []CodeFindsServer
<1>1. IInv => CodeFindsServer
  BY DEF IInv
<1> QED
  BY <1>1, AllWellSent, PTL

\* The listeners index only arguments that are there, and ignore exactly the
\* control messages that were encrypted without keys.
THEOREM ArgumentsAreAlwaysThere == Spec => []ArgumentsAreThere
<1>1. IInv => ArgumentsAreThere
  BY DEF IInv
<1> QED
  BY <1>1, AllWellSent, PTL
=============================================================================
