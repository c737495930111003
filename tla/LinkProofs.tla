----------------------------- MODULE LinkProofs -----------------------------
(* What Link keeps of the messages it is given, for every bound and every   *)
(* set of instructions: the lemmas that both senders' proofs rest on.       *)
EXTENDS Link, SequenceTheorems, TLAPS

Datagrams(instructions) == [instruction : instructions, newest : BOOLEAN]

About(i) == Subject(net[i].instruction)

\* No two datagrams are the newest about the same key or button.
OneNewest == \A i, j \in DOMAIN net :
  net[i].newest /\ net[j].newest /\ About(i) \cap About(j) # {} => i = j

\* What is settled has no newest message on its way.
NewestUnsettled == \A i \in DOMAIN net : net[i].newest => About(i) \cap settled = {}

LinkInv == OneNewest /\ NewestUnsettled
-----------------------------------------------------------------------------
LEMMA RemoveAtOf ==
  ASSUME NEW S, NEW s \in Seq(S), NEW k \in DOMAIN s
  PROVE  /\ RemoveAt(s, k) \in Seq(S) /\ Len(RemoveAt(s, k)) = Len(s) - 1
         /\ \A i \in DOMAIN RemoveAt(s, k) :
              /\ i < k => i \in DOMAIN s /\ RemoveAt(s, k)[i] = s[i]
              /\ i >= k => i + 1 \in DOMAIN s /\ RemoveAt(s, k)[i] = s[i + 1]
<1> DEFINE a == SubSeq(s, 1, k - 1)
           b == SubSeq(s, k + 1, Len(s))
<1>1. Len(s) \in Nat /\ k \in 1..Len(s) /\ DOMAIN s = 1..Len(s)
  OBVIOUS
<1>2. a \in Seq(S) /\ Len(a) = k - 1 /\ \A i \in 1..(k - 1) : a[i] = s[i]
  BY <1>1
<1>3. /\ b \in Seq(S) /\ Len(b) = Len(s) - k
      /\ \A i \in 1..(Len(s) - k) : b[i] = s[k + i]
  BY <1>1
<1> HIDE DEF a, b
<1>4. RemoveAt(s, k) = a \o b
  BY DEF RemoveAt, a, b
<1>5. /\ a \o b \in Seq(S) /\ Len(a \o b) = Len(a) + Len(b)
      /\ \A i \in 1..(Len(a) + Len(b)) :
           (a \o b)[i] = IF i <= Len(a) THEN a[i] ELSE b[i - Len(a)]
  BY <1>2, <1>3, ConcatProperties
<1>6. Len(a \o b) = Len(s) - 1 /\ DOMAIN (a \o b) = 1..(Len(s) - 1)
  <2>1. Len(a \o b) = Len(s) - 1
    BY <1>1, <1>2, <1>3, <1>5
  <2> QED
    BY <1>5, <2>1, LenProperties
<1>7. ASSUME NEW i \in 1..(Len(s) - 1), i < k
      PROVE  i \in DOMAIN s /\ (a \o b)[i] = s[i]
  BY <1>1, <1>2, <1>3, <1>5, <1>7
<1>8. ASSUME NEW i \in 1..(Len(s) - 1), i >= k
      PROVE  i + 1 \in DOMAIN s /\ (a \o b)[i] = s[i + 1]
  <2>1. i + 1 \in DOMAIN s /\ i - (k - 1) \in 1..(Len(s) - k)
    BY <1>1, <1>8
  <2>2. (a \o b)[i] = b[i - (k - 1)]
    <3>1. Len(a) = k - 1 /\ i \in 1..(Len(a) + Len(b)) /\ ~(i <= Len(a))
      BY <1>1, <1>2, <1>3, <1>8
    <3>2. (a \o b)[i] = IF i <= Len(a) THEN a[i] ELSE b[i - Len(a)]
      BY <1>5, <3>1
    <3> QED
      BY <3>1, <3>2
  <2>3. b[i - (k - 1)] = s[k + (i - (k - 1))]
    BY <1>3, <2>1
  <2>4. k + (i - (k - 1)) = i + 1
    BY <1>1, <1>8
  <2> QED
    BY <2>1, <2>2, <2>3, <2>4
<1> QED
  BY <1>4, <1>5, <1>6, <1>7, <1>8
-----------------------------------------------------------------------------
LEMMA SubjectOf ==
  ASSUME NEW m, NEW s \in Subject(m)
  PROVE  /\ s = <<m.device, m.control>> /\ Subject(m) = {s}
         /\ m.device \in {0, 1} /\ m.action \in {0, 1}
BY DEF Subject

\* A newest datagram was the newest before and nothing sent is about its key,
\* or it is one of those sent and no later one of them is.
LEMMA SendOf ==
  ASSUME NEW I, net \in Seq(Datagrams(I)), NEW messages \in Seq(I),
         Send(messages)
  PROVE  /\ net' \in Seq(Datagrams(I))
         /\ settled' = settled \ UNION {Subject(messages[k]) : k \in DOMAIN messages}
         /\ \A i \in DOMAIN net' : net'[i].newest =>
              \/ /\ i \in DOMAIN net /\ net[i].newest
                 /\ net'[i].instruction = net[i].instruction
                 /\ \A k \in DOMAIN messages :
                      Subject(net[i].instruction) \cap Subject(messages[k]) = {}
              \/ \E k \in DOMAIN messages :
                   /\ i = Len(net) + k /\ net'[i].instruction = messages[k]
                   /\ \A l \in DOMAIN messages :
                        l > k => Subject(messages[k]) \cap Subject(messages[l]) = {}
<1> DEFINE new == [k \in DOMAIN messages |->
                     [instruction |-> messages[k], newest |-> TRUE]]
           joined == net \o new
           about(i) == Subject(joined[i].instruction)
           outdated(i) == \E j \in DOMAIN joined :
                            j > i /\ j > Len(net) /\ about(i) \cap about(j) # {}
<1>1. /\ Len(messages) \in Nat /\ DOMAIN messages = 1..Len(messages)
      /\ Len(net) \in Nat /\ DOMAIN net = 1..Len(net)
  BY LenProperties
<1>2. /\ new \in Seq(Datagrams(I)) /\ Len(new) = Len(messages)
      /\ \A k \in DOMAIN messages :
           new[k].instruction = messages[k] /\ new[k].newest = TRUE
  BY <1>1 DEF Datagrams
<1>3. /\ net' = [i \in DOMAIN joined |->
                   [joined[i] EXCEPT !.newest = @ /\ ~outdated(i)]]
      /\ settled' = settled \ UNION {Subject(messages[k]) : k \in DOMAIN messages}
  BY DEF Send
<1> HIDE DEF new
<1>4. /\ joined \in Seq(Datagrams(I))
      /\ Len(joined) = Len(net) + Len(new)
      /\ \A i \in 1..(Len(net) + Len(new)) :
           joined[i] = IF i <= Len(net) THEN net[i] ELSE new[i - Len(net)]
  <2>1. new \in Seq(Datagrams(I)) /\ joined = net \o new
    BY <1>2
  <2> HIDE DEF joined
  <2> QED
    BY <2>1, ConcatProperties
<1> HIDE DEF joined
<1>5. DOMAIN joined = 1..(Len(net) + Len(messages))
  BY <1>2, <1>4, LenProperties
<1>6. ASSUME NEW i \in DOMAIN net
      PROVE  i \in DOMAIN joined /\ joined[i] = net[i]
  BY <1>1, <1>2, <1>4, <1>5
<1>7. ASSUME NEW k \in DOMAIN messages
      PROVE  Len(net) + k \in DOMAIN joined /\ joined[Len(net) + k] = new[k]
  <2>1. /\ Len(net) + k \in 1..(Len(net) + Len(messages))
        /\ ~(Len(net) + k <= Len(net)) /\ (Len(net) + k) - Len(net) = k
    BY <1>1
  <2> QED
    BY <1>2, <1>4, <1>5, <2>1
<1> HIDE DEF outdated
<1>8. net' \in Seq(Datagrams(I)) /\ DOMAIN net' = DOMAIN joined
  <2>1. ASSUME NEW d \in Datagrams(I), NEW b \in BOOLEAN
        PROVE  [d EXCEPT !.newest = @ /\ b] \in Datagrams(I)
    BY <2>1 DEF Datagrams
  <2>2. ASSUME NEW i \in DOMAIN joined
        PROVE  [joined[i] EXCEPT !.newest = @ /\ ~outdated(i)] \in Datagrams(I)
    <3>1. joined[i] \in Datagrams(I) /\ (~outdated(i)) \in BOOLEAN
      BY <1>4
    <3> QED
      BY <2>1, <3>1
  <2>3. net' \in [1..(Len(net) + Len(messages)) -> Datagrams(I)]
    BY <1>3, <1>5, <2>2
  <2>4. Len(net) + Len(messages) \in Nat
    BY <1>1
  <2> QED
    BY <1>5, <2>3, <2>4
<1>9. ASSUME NEW i \in DOMAIN net', net'[i].newest
      PROVE  /\ joined[i].newest /\ ~outdated(i)
             /\ net'[i].instruction = joined[i].instruction
  <2>1. i \in DOMAIN joined /\ joined[i] \in Datagrams(I)
    BY <1>4, <1>8, <1>9
  <2>2. net'[i] = [joined[i] EXCEPT !.newest = @ /\ ~outdated(i)]
    BY <1>3, <2>1
  <2> QED
    BY <1>9, <2>1, <2>2 DEF Datagrams
<1>10. ASSUME NEW i \in DOMAIN net', net'[i].newest, i \in DOMAIN net
       PROVE  /\ net[i].newest /\ net'[i].instruction = net[i].instruction
              /\ \A k \in DOMAIN messages :
                   Subject(net[i].instruction) \cap Subject(messages[k]) = {}
  <2>1. /\ ~outdated(i) /\ joined[i].newest
        /\ net'[i].instruction = joined[i].instruction
    BY <1>9, <1>10
  <2>2. joined[i] = net[i]
    BY <1>6, <1>10
  <2>3. ASSUME NEW k \in DOMAIN messages
        PROVE  Subject(net[i].instruction) \cap Subject(messages[k]) = {}
    <3>1. /\ Len(net) + k \in DOMAIN joined
          /\ joined[Len(net) + k].instruction = messages[k]
      BY <1>2, <1>7
    <3>2. Len(net) + k > i /\ Len(net) + k > Len(net)
      BY <1>1, <1>10
    <3> QED
      BY <2>1, <2>2, <3>1, <3>2 DEF outdated
  <2> QED
    BY <2>1, <2>2, <2>3
<1>11. ASSUME NEW i \in DOMAIN net', net'[i].newest, i \notin DOMAIN net
       PROVE  \E k \in DOMAIN messages :
                /\ i = Len(net) + k /\ net'[i].instruction = messages[k]
                /\ \A l \in DOMAIN messages :
                     l > k => Subject(messages[k]) \cap Subject(messages[l]) = {}
  <2>1. ~outdated(i) /\ net'[i].instruction = joined[i].instruction
    BY <1>9, <1>11
  <2> DEFINE k == i - Len(net)
  <2>2. k \in DOMAIN messages /\ i = Len(net) + k
    BY <1>1, <1>5, <1>8, <1>11
  <2> HIDE DEF k
  <2>3. net'[i].instruction = messages[k] /\ joined[i].instruction = messages[k]
    BY <1>2, <1>7, <2>1, <2>2
  <2>4. ASSUME NEW l \in DOMAIN messages, l > k
        PROVE  Subject(messages[k]) \cap Subject(messages[l]) = {}
    <3>1. /\ Len(net) + l \in DOMAIN joined
          /\ joined[Len(net) + l].instruction = messages[l]
      BY <1>2, <1>7
    <3>2. Len(net) + l > i /\ Len(net) + l > Len(net)
      BY <1>1, <2>2, <2>4
    <3> QED
      BY <2>1, <2>3, <3>1, <3>2 DEF outdated
  <2> QED
    BY <2>2, <2>3, <2>4
<1> QED
  BY <1>3, <1>8, <1>10, <1>11

LEMMA SendKeepsLinkInv ==
  ASSUME NEW I, net \in Seq(Datagrams(I)), NEW messages \in Seq(I),
         LinkInv, Send(messages)
  PROVE  LinkInv'
<1>1. DOMAIN messages = 1..Len(messages) /\ DOMAIN net = 1..Len(net)
  BY LenProperties
<1> DEFINE Kept(i) ==
             /\ i \in DOMAIN net /\ net[i].newest
             /\ net'[i].instruction = net[i].instruction
             /\ \A k \in DOMAIN messages :
                  Subject(net[i].instruction) \cap Subject(messages[k]) = {}
           Sent(i, k) ==
             /\ i = Len(net) + k /\ net'[i].instruction = messages[k]
             /\ \A l \in DOMAIN messages :
                  l > k => Subject(messages[k]) \cap Subject(messages[l]) = {}
<1>2. /\ settled' = settled \ UNION {Subject(messages[k]) : k \in DOMAIN messages}
      /\ \A i \in DOMAIN net' : net'[i].newest =>
           Kept(i) \/ \E k \in DOMAIN messages : Sent(i, k)
  BY SendOf
<1>3. NewestUnsettled'
  <2> SUFFICES ASSUME NEW i \in DOMAIN net', net'[i].newest
               PROVE  Subject(net'[i].instruction) \cap settled' = {}
    BY DEF NewestUnsettled, About
  <2>1. CASE Kept(i)
    BY <1>2, <2>1 DEF LinkInv, NewestUnsettled, About
  <2>2. ASSUME NEW k \in DOMAIN messages, Sent(i, k)
        PROVE  Subject(net'[i].instruction) \cap settled' = {}
    BY <1>2, <2>2
  <2> QED
    BY <1>2, <2>1, <2>2
<1>4. OneNewest'
  <2> SUFFICES ASSUME NEW i \in DOMAIN net', NEW j \in DOMAIN net',
                      net'[i].newest, net'[j].newest,
                      Subject(net'[i].instruction)
                        \cap Subject(net'[j].instruction) # {}
               PROVE  i = j
    BY DEF OneNewest, About
  <2>1. CASE Kept(i) /\ Kept(j)
    BY <2>1 DEF LinkInv, OneNewest, About
  <2>2. ASSUME NEW k \in DOMAIN messages, Sent(i, k), Kept(j) PROVE FALSE
    BY <2>2
  <2>3. ASSUME NEW k \in DOMAIN messages, Kept(i), Sent(j, k) PROVE FALSE
    BY <2>3
  <2>4. ASSUME NEW k \in DOMAIN messages, NEW l \in DOMAIN messages,
               Sent(i, k), Sent(j, l)
        PROVE  i = j
    <3>1. ~(k > l) /\ ~(l > k)
      BY <2>4
    <3> QED
      BY <1>1, <2>4, <3>1
  <2> QED
    BY <1>2, <2>1, <2>2, <2>3, <2>4
<1> QED
  BY <1>3, <1>4 DEF LinkInv

\* A datagram leaves; the others, their order aside, are what they were.
LEMMA LeaveOf ==
  ASSUME NEW I, net \in Seq(Datagrams(I)), NEW n \in DOMAIN net,
         net' = RemoveAt(net, n), OneNewest
  PROVE  /\ net' \in Seq(Datagrams(I))
         /\ \A i \in DOMAIN net' : \E j \in DOMAIN net : j # n /\ net'[i] = net[j]
         /\ OneNewest'
<1>1. /\ net' \in Seq(Datagrams(I))
      /\ DOMAIN net = 1..Len(net) /\ DOMAIN net' = 1..Len(net')
      /\ Len(net) \in Nat /\ Len(net') \in Nat /\ n \in Nat
  BY RemoveAtOf, LenProperties
<1>2. \A i \in DOMAIN net' :
        /\ i < n => i \in DOMAIN net /\ net'[i] = net[i]
        /\ i >= n => i + 1 \in DOMAIN net /\ net'[i] = net[i + 1]
  BY RemoveAtOf
<1>3. ASSUME NEW i \in DOMAIN net'
      PROVE  \E j \in DOMAIN net : j # n /\ net'[i] = net[j]
  <2>1. CASE i < n
    BY <1>1, <1>2, <2>1
  <2>2. CASE i >= n
    <3>1. i + 1 \in DOMAIN net /\ i + 1 # n /\ net'[i] = net[i + 1]
      BY <1>1, <1>2, <2>2
    <3> QED
      BY <3>1
  <2> QED
    BY <1>1, <2>1, <2>2
<1>4. ASSUME NEW i \in DOMAIN net', NEW j \in DOMAIN net',
             net'[i].newest, net'[j].newest,
             Subject(net'[i].instruction) \cap Subject(net'[j].instruction) # {}
      PROVE  i = j
  <2>1. \A x, y \in DOMAIN net :
          /\ net[x].newest /\ net[y].newest
          /\ Subject(net[x].instruction) \cap Subject(net[y].instruction) # {}
          => x = y
    BY DEF OneNewest, About
  <2>2. CASE i < n /\ j < n
    BY <1>2, <1>4, <2>1, <2>2
  <2>3. CASE i >= n /\ j >= n
    <3>1. i + 1 = j + 1
      BY <1>2, <1>4, <2>1, <2>3
    <3> QED
      BY <1>1, <3>1
  <2>4. CASE i < n /\ j >= n
    <3>1. i = j + 1
      BY <1>2, <1>4, <2>1, <2>4
    <3> QED
      BY <1>1, <2>4, <3>1
  <2>5. CASE i >= n /\ j < n
    <3>1. i + 1 = j
      BY <1>2, <1>4, <2>1, <2>5
    <3> QED
      BY <1>1, <2>5, <3>1
  <2> QED
    BY <1>1, <2>2, <2>3, <2>4, <2>5
<1> QED
  BY <1>1, <1>3, <1>4 DEF OneNewest, About

LEMMA TakeKeepsLinkInv ==
  ASSUME NEW I, net \in Seq(Datagrams(I)), LinkInv,
         NEW n \in DOMAIN net, Take(n)
  PROVE  /\ net' \in Seq(Datagrams(I))
         /\ \A i \in DOMAIN net' : \E j \in DOMAIN net : j # n /\ net'[i] = net[j]
         /\ LinkInv'
<1>1. /\ net' = RemoveAt(net, n)
      /\ net[n].newest => settled' = settled \cup About(n)
      /\ ~net[n].newest => settled' = settled \ About(n)
  BY DEF Take, About
<1>2. /\ net' \in Seq(Datagrams(I)) /\ OneNewest'
      /\ \A i \in DOMAIN net' : \E j \in DOMAIN net : j # n /\ net'[i] = net[j]
  BY <1>1, LeaveOf DEF LinkInv
<1>3. ASSUME NEW i \in DOMAIN net', net'[i].newest
      PROVE  Subject(net'[i].instruction) \cap settled' = {}
  <2>1. PICK j \in DOMAIN net : j # n /\ net'[i] = net[j]
    BY <1>2
  <2>2. About(j) \cap settled = {} /\ (net[n].newest => About(j) \cap About(n) = {})
    BY <1>3, <2>1 DEF LinkInv, OneNewest, NewestUnsettled
  <2> QED
    BY <1>1, <2>1, <2>2 DEF About
<1> QED
  BY <1>2, <1>3 DEF LinkInv, NewestUnsettled, About

LEMMA DropKeepsLinkInv ==
  ASSUME NEW I, net \in Seq(Datagrams(I)), LinkInv,
         NEW n \in DOMAIN net, Drop(n)
  PROVE  /\ net' \in Seq(Datagrams(I))
         /\ \A i \in DOMAIN net' : \E j \in DOMAIN net : j # n /\ net'[i] = net[j]
         /\ LinkInv'
<1>1. net' = RemoveAt(net, n) /\ settled' = settled
  BY DEF Drop
<1>2. /\ net' \in Seq(Datagrams(I)) /\ OneNewest'
      /\ \A i \in DOMAIN net' : \E j \in DOMAIN net : j # n /\ net'[i] = net[j]
  BY <1>1, LeaveOf DEF LinkInv
<1>3. NewestUnsettled'
  BY <1>1, <1>2 DEF LinkInv, NewestUnsettled, About
<1> QED
  BY <1>2, <1>3 DEF LinkInv
=============================================================================
