------------------------------ MODULE PadProofs ------------------------------
(* Theorems about TouchPad, for any number of fingers and any commands, and *)
(* about PadServer, for any number of datagrams under way.                  *)
EXTENDS PadServer, LinkProofs

-----------------------------------------------------------------------------
(* Fingers in order: what inserting and removing one leaves of the others *)

LEMMA InsertAtOf ==
  ASSUME NEW S, NEW s \in Seq(S), NEW k \in 1..(Len(s) + 1), NEW e \in S
  PROVE  /\ InsertAt(s, k, e) \in Seq(S) /\ Len(InsertAt(s, k, e)) = Len(s) + 1
         /\ \A i \in DOMAIN InsertAt(s, k, e) :
              /\ i < k => i \in DOMAIN s /\ InsertAt(s, k, e)[i] = s[i]
              /\ i = k => InsertAt(s, k, e)[i] = e
              /\ i > k => i - 1 \in DOMAIN s /\ InsertAt(s, k, e)[i] = s[i - 1]
<1> DEFINE a == SubSeq(s, 1, k - 1)
           c == Append(a, e)
           b == SubSeq(s, k, Len(s))
<1>1. Len(s) \in Nat /\ k \in 1..(Len(s) + 1) /\ DOMAIN s = 1..Len(s)
  OBVIOUS
<1>2. a \in Seq(S) /\ Len(a) = k - 1 /\ \A i \in 1..(k - 1) : a[i] = s[i]
  BY <1>1
<1>3. /\ b \in Seq(S) /\ Len(b) = Len(s) + 1 - k
      /\ \A i \in 1..(Len(s) + 1 - k) : b[i] = s[k + i - 1]
  BY <1>1
<1> HIDE DEF a, b
<1>4. c \in Seq(S) /\ Len(c) = k /\ c[k] = e /\ \A i \in 1..(k - 1) : c[i] = s[i]
  BY <1>1, <1>2, AppendProperties
<1>5. InsertAt(s, k, e) = c \o b
  BY <1>2, AppendIsConcat DEF InsertAt, a, b
<1> HIDE DEF c
<1>6. /\ c \o b \in Seq(S) /\ Len(c \o b) = Len(c) + Len(b)
      /\ \A i \in 1..(Len(c) + Len(b)) :
           (c \o b)[i] = IF i <= Len(c) THEN c[i] ELSE b[i - Len(c)]
  BY <1>3, <1>4, ConcatProperties
<1>7. Len(c \o b) = Len(s) + 1 /\ DOMAIN (c \o b) = 1..(Len(s) + 1)
  <2>1. Len(c \o b) = Len(s) + 1
    BY <1>1, <1>3, <1>4, <1>6
  <2> QED
    BY <1>6, <2>1, LenProperties
<1>8. ASSUME NEW i \in 1..(Len(s) + 1), i <= k
      PROVE  (c \o b)[i] = c[i]
  BY <1>1, <1>3, <1>4, <1>6, <1>8
<1>9. ASSUME NEW i \in 1..(Len(s) + 1), i > k
      PROVE  i - 1 \in DOMAIN s /\ (c \o b)[i] = s[i - 1]
  <2>1. i - 1 \in DOMAIN s /\ i - k \in 1..(Len(s) + 1 - k)
    BY <1>1, <1>9
  <2>2. (c \o b)[i] = b[i - k]
    <3>1. Len(c) = k /\ i \in 1..(Len(c) + Len(b)) /\ ~(i <= Len(c))
      BY <1>1, <1>3, <1>4, <1>9
    <3>2. (c \o b)[i] = IF i <= Len(c) THEN c[i] ELSE b[i - Len(c)]
      BY <1>6, <3>1
    <3> QED
      BY <3>1, <3>2
  <2>3. b[i - k] = s[k + (i - k) - 1]
    BY <1>3, <2>1
  <2>4. k + (i - k) - 1 = i - 1
    BY <1>1, <1>9
  <2> QED
    BY <2>1, <2>2, <2>3, <2>4
<1> QED
  BY <1>1, <1>4, <1>5, <1>6, <1>7, <1>8, <1>9

LEMMA RemoveKeepsInjective ==
  ASSUME NEW S, NEW s \in Seq(S), IsInjective(s), NEW k \in DOMAIN s
  PROVE  IsInjective(RemoveAt(s, k))
<1> DEFINE r == RemoveAt(s, k)
<1>1. /\ DOMAIN s = 1..Len(s) /\ DOMAIN r = 1..Len(r)
      /\ Len(s) \in Nat /\ Len(r) \in Nat /\ k \in Nat
  BY RemoveAtOf, LenProperties
<1>2. \A i \in DOMAIN r :
        /\ i < k => i \in DOMAIN s /\ r[i] = s[i]
        /\ i >= k => i + 1 \in DOMAIN s /\ r[i] = s[i + 1]
  BY RemoveAtOf
<1> HIDE DEF r
<1>3. ASSUME NEW i \in DOMAIN r, NEW j \in DOMAIN r, r[i] = r[j] PROVE i = j
  BY <1>1, <1>2, <1>3 DEF IsInjective
<1> QED
  BY <1>3 DEF IsInjective, r

LEMMA InsertKeepsInjective ==
  ASSUME NEW S, NEW s \in Seq(S), IsInjective(s),
         NEW k \in 1..(Len(s) + 1), NEW e \in S, e \notin ToSet(s)
  PROVE  IsInjective(InsertAt(s, k, e))
<1> DEFINE r == InsertAt(s, k, e)
<1>1. /\ DOMAIN s = 1..Len(s) /\ DOMAIN r = 1..Len(r)
      /\ Len(s) \in Nat /\ Len(r) \in Nat /\ k \in Nat
  BY InsertAtOf, LenProperties
<1>2. \A i \in DOMAIN r :
        /\ i < k => i \in DOMAIN s /\ r[i] = s[i]
        /\ i = k => r[i] = e
        /\ i > k => i - 1 \in DOMAIN s /\ r[i] = s[i - 1]
  BY InsertAtOf
<1>3. \A i \in DOMAIN s : s[i] # e
  BY DEF ToSet
<1> HIDE DEF r
<1>4. ASSUME NEW i \in DOMAIN r, NEW j \in DOMAIN r, r[i] = r[j] PROVE i = j
  <2>1. CASE i < k
    BY <1>1, <1>2, <1>3, <1>4, <2>1 DEF IsInjective
  <2>2. CASE i = k
    BY <1>1, <1>2, <1>3, <1>4, <2>2
  <2>3. CASE i > k
    BY <1>1, <1>2, <1>3, <1>4, <2>3 DEF IsInjective
  <2> QED
    BY <1>1, <2>1, <2>2, <2>3
<1> QED
  BY <1>4 DEF IsInjective, r
-----------------------------------------------------------------------------
(* The touch pad *)

\* A tap is pending exactly while fingers are down, unless a cancelled gesture
\* left one behind.
TapPending == /\ touches # <<>> => tapstate = "first_tap"
              /\ touches = <<>> /\ before # "cancelled" => tapstate = "no_tap"

\* lastPointerCount is a count of this gesture's fingers; between gestures it
\* is more than one only beside an unfinished tap, which resets it.
Counted == /\ touches # <<>> => Len(touches) <= most /\ lastPointerCount <= most
           /\ touches = <<>> /\ tapstate = "no_tap" => lastPointerCount <= 1
           /\ before = "lifted" => lastPointerCount >= 1
           /\ ~MultiEnabled => Len(touches) <= 1

\* With the pointer count at one the histories are those of the only finger.
Tracked == touches # <<>> => /\ history \in Fingers
                             /\ lastPointerCount = 1 => touches = <<history>>

IInv == /\ TypeOK
        /\ TapPending
        /\ Counted
        /\ Tracked
        /\ NoJump
        /\ ClickOnLift
        /\ RightClickIsTwo
-----------------------------------------------------------------------------
(* What an event sends *)

LEMMA ClicksDiffer ==
  /\ LeftClick # RightClick /\ LeftClick # <<>> /\ RightClick # <<>>
BY DEF LeftClick, RightClick, Click, Message

LEMMA MoveIsNoClick ==
  ASSUME NEW meta
  PROVE  MoveBy(meta) \notin {<<>>, LeftClick, RightClick}
BY DEF MoveBy, LeftClick, RightClick, Click, Message

LEMMA MoveTellsItsMeta ==
  ASSUME NEW a, NEW b, MoveBy(a) = MoveBy(b)
  PROVE  a = b
BY DEF MoveBy, Message

LEMMA MultitouchIsOther ==
  ASSUME NEW m \in Multitouch
  PROVE  m \notin {<<>>, LeftClick, RightClick} /\ \A meta : m # MoveBy(meta)
<1>1. PICK type \in Commands : m = <<Message(3, type, 0, Still)>>
  BY DEF Multitouch
<1>2. m \notin {<<>>, LeftClick, RightClick}
  BY <1>1 DEF LeftClick, RightClick, Click
<1>3. ASSUME NEW meta, m = MoveBy(meta) PROVE FALSE
  BY <1>1, <1>3 DEF MoveBy, Message
<1> QED
  BY <1>2, <1>3

LEMMA TapClickOf ==
  ASSUME lastPointerCount \in Nat
  PROVE  /\ TapClick \in {<<>>, LeftClick, RightClick}
         /\ TapClick = RightClick =>
              tapstate = "first_tap" /\ lastPointerCount = 2
         /\ tapstate = "first_tap" /\ ~slow /\ lastPointerCount = 1 =>
              TapClick = LeftClick
BY ClicksDiffer DEF TapClick

\* Only a move can jump, and only a right click needs two fingers.
LEMMA QuietIsSafe ==
  ASSUME sent' \in {<<>>, LeftClick} \cup Multitouch
  PROVE  NoJump' /\ RightClickIsTwo'
<1>1. sent' # RightClick /\ \A meta : sent' # MoveBy(meta)
  BY ClicksDiffer, MoveIsNoClick, MultitouchIsOther
<1> QED
  BY <1>1 DEF NoJump, RightClickIsTwo
-----------------------------------------------------------------------------
LEMMA InitIInv == Init => IInv
<1> SUFFICES ASSUME Init PROVE IInv
  OBVIOUS
<1>1. TypeOK
  <2>1. touches = <<>> /\ touches \in Seq(Fingers) /\ IsInjective(touches)
    BY DEF Init, IsInjective
  <2>2. sent \in {<<>>, LeftClick, RightClick}
    BY DEF Init
  <2> QED
    BY <2>1, <2>2 DEF Init, TypeOK
<1>2. TapPending /\ Counted /\ Tracked /\ ClickOnLift
  BY DEF Init, TapPending, Counted, Tracked, ClickOnLift
<1>3. NoJump /\ RightClickIsTwo
  BY ClicksDiffer, MoveIsNoClick DEF Init, NoJump, RightClickIsTwo
<1> QED
  BY <1>1, <1>2, <1>3 DEF IInv

\* A first finger has no history but its own.
LEMMA DownKeepsIInv ==
  ASSUME IInv, NEW f \in Fingers, Down(f)
  PROVE  IInv'
<1>1. /\ touches = <<>> /\ touches' = <<f>> /\ history' = f /\ most' = 1
      /\ UNCHANGED <<pad, multiHistory, before>>
      /\ clicks' = IF sent' \in {LeftClick, RightClick} THEN 1 ELSE 0
  BY DEF Down, CountClicks
<1>2. \/ /\ tapstate = "no_tap" /\ tapstate' = "first_tap" /\ slow' = FALSE
         /\ sent' = <<>> /\ lastPointerCount' = lastPointerCount
      \/ /\ tapstate = "first_tap" /\ tapstate' = "first_tap" /\ slow' = slow
         /\ sent' = LeftClick /\ lastPointerCount' = 1
  BY DEF Down, IInv, TypeOK
<1>3. TypeOK'
  <2>1. touches' \in Seq(Fingers) /\ IsInjective(touches')
    BY <1>1 DEF IsInjective
  <2>2. clicks' \in Nat /\ sent' \in {<<>>, LeftClick}
    BY <1>1, <1>2
  <2> QED
    BY <1>1, <1>2, <2>1, <2>2 DEF IInv, TypeOK
<1>4. TapPending'
  BY <1>1, <1>2 DEF TapPending
<1>5. Counted'
  BY <1>1, <1>2 DEF Counted, IInv, TypeOK
<1>6. Tracked'
  BY <1>1 DEF Tracked
<1>7. NoJump' /\ RightClickIsTwo'
  BY <1>2, QuietIsSafe
<1>8. ClickOnLift'
  BY <1>1, <1>2, ClicksDiffer DEF ClickOnLift, IInv, TapPending
<1> QED
  BY <1>3, <1>4, <1>5, <1>6, <1>7, <1>8 DEF IInv

LEMMA UpKeepsIInv ==
  ASSUME IInv, Up
  PROVE  IInv'
<1>1. /\ Len(touches) = 1 /\ touches' = <<>> /\ lastPointerCount' = 1
      /\ before' = "lifted" /\ multiHistory' = FALSE /\ sent' = TapClick
      /\ UNCHANGED <<pad, slow, history, most>>
      /\ clicks' = IF sent' \in {LeftClick, RightClick} THEN clicks + 1 ELSE clicks
  BY DEF Up, CountClicks
<1>2. tapstate' = "no_tap"
  BY DEF Up, IInv, TypeOK
<1>3. sent' \in {<<>>, LeftClick, RightClick}
  BY <1>1, TapClickOf DEF IInv, TypeOK
<1>4. TypeOK'
  <2>1. touches' \in Seq(Fingers) /\ IsInjective(touches')
    BY <1>1 DEF IsInjective
  <2>2. clicks' \in Nat
    BY <1>1 DEF IInv, TypeOK
  <2> QED
    BY <1>1, <1>2, <1>3, <2>1, <2>2 DEF IInv, TypeOK
<1>5. TapPending' /\ Tracked' /\ ClickOnLift'
  BY <1>1, <1>2 DEF TapPending, Tracked, ClickOnLift
<1>6. Counted'
  BY <1>1 DEF Counted
<1>7. NoJump'
  BY <1>3, MoveIsNoClick DEF NoJump
<1>8. RightClickIsTwo'
  <2>1. touches # <<>>
    BY <1>1
  <2>2. lastPointerCount <= most
    BY <2>1 DEF IInv, Counted
  <2> QED
    BY <1>1, <2>2, TapClickOf DEF RightClickIsTwo, IInv, TypeOK
<1> QED
  BY <1>4, <1>5, <1>6, <1>7, <1>8 DEF IInv

\* One finger moves: what it is measured from is its own.
LEMMA MoveOneKeepsIInv ==
  ASSUME IInv, MoveOne
  PROVE  IInv'
<1>1. /\ touches # <<>> /\ PointerCount(touches) = 1
      /\ history' = Head(touches) /\ lastPointerCount' = 1
      /\ UNCHANGED <<touches, pad, tapstate, slow, multiHistory, before, clicks,
                     most>>
  BY DEF MoveOne
<1>2. /\ touches \in Seq(Fingers) /\ Len(touches) = 1
      /\ touches = <<Head(touches)>> /\ Head(touches) \in Fingers
  <2>1. touches \in Seq(Fingers)
    BY DEF IInv, TypeOK
  <2>2. MultiEnabled \/ Len(touches) <= 1
    BY DEF IInv, Counted
  <2>3. Len(touches) = 1
    <3>1. CASE MultiEnabled
      BY <1>1, <3>1 DEF PointerCount
    <3>2. CASE ~MultiEnabled
      <4>1. Len(touches) <= 1 /\ touches # <<>>
        BY <1>1, <2>2, <3>2
      <4> DEFINE n == Len(touches)
      <4>2. n \in Nat
        BY <2>1, LenProperties
      <4>3. n # 0
        BY <2>1, <4>1, EmptySeq
      <4>4. n <= 1
        BY <4>1
      <4> HIDE DEF n
      <4>5. n = 1
        BY <4>2, <4>3, <4>4
      <4> QED
        BY <4>5 DEF n
    <3> QED
      BY <3>1, <3>2
  <2>4. Head(touches) = touches[1] /\ touches[1] \in Fingers
    BY <2>1, <2>3
  <2>5. touches = <<touches[1]>>
    <3>1. <<touches[1]>> \in Seq(Fingers) /\ Len(<<touches[1]>>) = 1
      BY <2>4
    <3>2. \A i \in 1..1 : touches[i] = <<touches[1]>>[i]
      OBVIOUS
    <3> QED
      BY <2>1, <2>3, <3>1, <3>2, SeqEqual
  <2> QED
    BY <2>1, <2>3, <2>4, <2>5
<1>3. PICK meta \in Metas : sent' = MoveBy(meta) /\ meta[1] = meta[2]
  <2>1. CASE lastPointerCount = 1
    <3>1. sent' = MoveBy(<<history, Head(touches)>>)
      BY <2>1 DEF MoveOne
    <3>2. history = Head(touches)
      BY <1>1, <1>2, <2>1 DEF IInv, Tracked
    <3>3. <<history, Head(touches)>> \in Metas
      BY <1>2, <3>2 DEF Metas
    <3> QED
      BY <3>1, <3>2, <3>3
  <2>2. CASE lastPointerCount # 1
    BY <2>2 DEF MoveOne, Metas, Still
  <2> QED
    BY <2>1, <2>2
<1>4. TypeOK'
  BY <1>1, <1>2, <1>3 DEF IInv, TypeOK
<1>5. TapPending' /\ Tracked' /\ ClickOnLift'
  BY <1>1, <1>2 DEF TapPending, Tracked, ClickOnLift, IInv
<1>6. Counted'
  BY <1>1, <1>2 DEF Counted, IInv, TypeOK
<1>7. NoJump'
  <2>1. ASSUME NEW f, NEW g, sent' = MoveBy(<<f, g>>) PROVE f = g
    <3>1. meta = <<f, g>>
      BY <1>3, <2>1, MoveTellsItsMeta
    <3> QED
      BY <1>3, <3>1
  <2> QED
    BY <2>1 DEF NoJump
<1>8. RightClickIsTwo'
  <2>1. sent' # RightClick
    BY <1>3, MoveIsNoClick
  <2> QED
    BY <2>1 DEF RightClickIsTwo
<1> QED
  BY <1>4, <1>5, <1>6, <1>7, <1>8 DEF IInv

LEMMA MoveTwoKeepsIInv ==
  ASSUME IInv, MoveTwo
  PROVE  IInv'
<1>1. /\ PointerCount(touches) = 2
      /\ lastPointerCount' \in {2, lastPointerCount}
      /\ multiHistory' \in BOOLEAN /\ pad' \in {"running", "crashed"}
      /\ sent' \in {<<>>} \cup Multitouch
      /\ UNCHANGED <<touches, tapstate, slow, history, before, clicks, most>>
  <2>1. pad = "running" /\ multiHistory \in BOOLEAN
    BY DEF MoveTwo, Event, IInv, TypeOK
  <2>2. multiHistory' \in BOOLEAN
    BY <2>1 DEF MoveTwo
  <2> QED
    BY <2>1, <2>2 DEF MoveTwo
<1>2. MultiEnabled /\ Len(touches) = 2 /\ touches # <<>>
  BY <1>1 DEF PointerCount
<1>3. TypeOK'
  BY <1>1 DEF IInv, TypeOK
<1>4. TapPending' /\ ClickOnLift'
  BY <1>1 DEF TapPending, ClickOnLift, IInv
<1>5. Counted'
  BY <1>1, <1>2 DEF Counted, IInv, TypeOK
<1>6. Tracked'
  BY <1>1, <1>2 DEF Tracked, IInv
<1>7. NoJump' /\ RightClickIsTwo'
  BY <1>1, QuietIsSafe
<1> QED
  BY <1>3, <1>4, <1>5, <1>6, <1>7 DEF IInv

\* An event the listener has no case for, and the fingers it leaves.
LEMMA OtherKeepsIInv ==
  ASSUME IInv, NEW list \in Seq(Fingers), Other(list),
         touches' \in Seq(Fingers), IsInjective(touches'),
         before' \in {before, "cancelled"}, most' \in Nat,
         touches # <<>>,
         touches' # <<>> => before' = before /\ Len(list) > 1,
         touches' = <<>> => before' = "cancelled",
         Len(touches') <= most', Len(list) <= most', Len(list) >= 1,
         ~MultiEnabled => Len(touches') <= 1 /\ Len(list) <= 1
  PROVE  IInv'
<1>1. /\ lastPointerCount' = PointerCount(list) /\ sent' = <<>>
      /\ UNCHANGED <<pad, tapstate, slow, history, multiHistory, clicks>>
  BY DEF Other
<1>2. /\ lastPointerCount' \in Nat /\ lastPointerCount' >= 1
      /\ lastPointerCount' <= most'
      /\ touches' # <<>> => lastPointerCount' > 1
  BY <1>1 DEF PointerCount
<1>3. tapstate = "first_tap"
  BY DEF IInv, TapPending
<1>4. TypeOK'
  BY <1>1, <1>2 DEF IInv, TypeOK
<1>5. TapPending'
  BY <1>1, <1>3 DEF TapPending
<1>6. Counted'
  BY <1>1, <1>2, <1>3 DEF Counted
<1>7. Tracked'
  BY <1>1, <1>2 DEF Tracked, IInv
<1>8. ClickOnLift'
  BY <1>1 DEF ClickOnLift, IInv
<1>9. NoJump' /\ RightClickIsTwo'
  BY <1>1, QuietIsSafe
<1> QED
  BY <1>4, <1>5, <1>6, <1>7, <1>8, <1>9 DEF IInv

LEMMA PointerDownKeepsIInv ==
  ASSUME IInv, NEW f \in Fingers, PointerDown(f)
  PROVE  IInv'
<1>1. PICK i \in 1..(Len(touches) + 1) : touches' = InsertAt(touches, i, f)
  BY DEF PointerDown
<1>2. /\ MultiEnabled /\ touches # <<>> /\ f \notin ToSet(touches)
      /\ Other(touches') /\ before' = before
      /\ most' = IF Len(touches') > most THEN Len(touches') ELSE most
  BY DEF PointerDown
<1>3. touches \in Seq(Fingers) /\ IsInjective(touches) /\ most \in Nat
  BY DEF IInv, TypeOK
<1>4. touches' \in Seq(Fingers) /\ Len(touches') = Len(touches) + 1
  BY <1>1, <1>3, InsertAtOf
<1>5. IsInjective(touches')
  BY <1>1, <1>2, <1>3, InsertKeepsInjective
<1>6. Len(touches) \in Nat /\ Len(touches) > 0
  BY <1>2, <1>3
<1>7. Len(touches') > 1 /\ Len(touches') <= most' /\ most' \in Nat
  BY <1>2, <1>3, <1>4, <1>6
<1> QED
  BY <1>2, <1>4, <1>5, <1>7, OtherKeepsIInv

LEMMA PointerUpKeepsIInv ==
  ASSUME IInv, NEW f \in Fingers, PointerUp(f)
  PROVE  IInv'
<1>1. PICK i \in DOMAIN touches : touches' = RemoveAt(touches, i)
  BY DEF PointerUp
<1>2. Len(touches) > 1 /\ Other(touches) /\ before' = before /\ most' = most
  BY DEF PointerUp
<1>3. touches \in Seq(Fingers) /\ IsInjective(touches) /\ most \in Nat
  BY DEF IInv, TypeOK
<1>4. touches' \in Seq(Fingers) /\ Len(touches') = Len(touches) - 1
  BY <1>1, <1>3, RemoveAtOf
<1>5. IsInjective(touches')
  BY <1>1, <1>3, RemoveKeepsInjective
<1>6. touches # <<>> /\ touches' # <<>> /\ Len(touches) \in Nat
  BY <1>2, <1>3, <1>4
<1>7. Len(touches) <= most /\ MultiEnabled
  BY <1>2, <1>6 DEF IInv, Counted
<1> QED
  BY <1>2, <1>3, <1>4, <1>5, <1>6, <1>7, OtherKeepsIInv

LEMMA MoveManyKeepsIInv ==
  ASSUME IInv, MoveMany
  PROVE  IInv'
<1>1. /\ PointerCount(touches) > 2 /\ Other(touches)
      /\ UNCHANGED <<touches, before, most>>
  BY DEF MoveMany
<1>2. touches \in Seq(Fingers) /\ IsInjective(touches) /\ most \in Nat
  BY DEF IInv, TypeOK
<1>3. MultiEnabled /\ Len(touches) > 2
  BY <1>1 DEF PointerCount
<1>4. touches # <<>> /\ Len(touches) <= most
  BY <1>2, <1>3 DEF IInv, Counted
<1> QED
  BY <1>1, <1>2, <1>3, <1>4, OtherKeepsIInv

LEMMA CancelKeepsIInv ==
  ASSUME IInv, Cancel
  PROVE  IInv'
<1>1. /\ touches # <<>> /\ touches' = <<>> /\ Other(touches)
      /\ before' = "cancelled" /\ most' = most
  BY DEF Cancel
<1>2. touches \in Seq(Fingers) /\ most \in Nat
  BY DEF IInv, TypeOK
<1>3. /\ Len(touches) \in Nat /\ Len(touches) >= 1 /\ Len(touches) <= most
      /\ ~MultiEnabled => Len(touches) <= 1
  BY <1>1, <1>2 DEF IInv, Counted
<1>4. touches' \in Seq(Fingers) /\ IsInjective(touches') /\ Len(touches') = 0
  BY <1>1 DEF IsInjective
<1> QED
  BY <1>1, <1>2, <1>3, <1>4, OtherKeepsIInv

LEMMA ElapseKeepsIInv ==
  ASSUME IInv, Elapse
  PROVE  IInv'
BY DEF Elapse, IInv, TypeOK, TapPending, Counted, Tracked, NoJump,
       ClickOnLift, RightClickIsTwo

LEMMA StutterKeepsIInv ==
  ASSUME IInv, UNCHANGED vars
  PROVE  IInv'
BY DEF vars, padVars, IInv, TypeOK, TapPending, Counted, Tracked, NoJump,
       ClickOnLift, RightClickIsTwo

LEMMA NextKeepsIInv ==
  ASSUME IInv, [Next]_vars
  PROVE  IInv'
<1>1. ASSUME NEW f \in Fingers, Down(f) \/ PointerDown(f) \/ PointerUp(f)
      PROVE  IInv'
  BY <1>1, DownKeepsIInv, PointerDownKeepsIInv, PointerUpKeepsIInv
<1> QED
  BY <1>1, UpKeepsIInv, MoveOneKeepsIInv, MoveTwoKeepsIInv, MoveManyKeepsIInv,
     CancelKeepsIInv, ElapseKeepsIInv, StutterKeepsIInv DEF Next
-----------------------------------------------------------------------------
\* The properties are inductive only beside TapPending, Counted and Tracked:
\* they say what one gesture may leave behind for the next.
THEOREM IInvHolds == Spec => []IInv
<1>1. IInv /\ [Next]_vars => IInv'
  BY NextKeepsIInv
<1> QED
  BY <1>1, InitIInv, PTL DEF Spec

\* The pad's variables keep their types and no finger is counted twice.
THEOREM TypeCorrect == Spec => []TypeOK
<1>1. IInv => TypeOK
  BY DEF IInv
<1> QED
  BY <1>1, IInvHolds, PTL

\* Whatever fingers come and go, a move is the way one of them went.
THEOREM MouseNeverJumps == Spec => []NoJump
<1>1. IInv => NoJump
  BY DEF IInv
<1> QED
  BY <1>1, IInvHolds, PTL

\* While a finger is down nothing was clicked in its gesture, unless a
\* cancelled one came before it.
THEOREM NoClickUnderFinger == Spec => []ClickOnLift
<1>1. IInv => ClickOnLift
  BY DEF IInv
<1> QED
  BY <1>1, IInvHolds, PTL

\* A right click comes from a gesture that had two fingers on the pad.
THEOREM RightClickTakesTwo == Spec => []RightClickIsTwo
<1>1. IInv => RightClickIsTwo
  BY DEF IInv
<1> QED
  BY <1>1, IInvHolds, PTL

\* After a lifted gesture a quick touch of one finger is a left click.
THEOREM LaterTapsClick == Spec => LaterTapClicks
<1>1. ASSUME IInv, Up, most = 1, ~slow, before = "lifted"
      PROVE  sent' = LeftClick
  <2>1. touches # <<>> /\ sent' = TapClick /\ lastPointerCount \in Nat
    BY <1>1 DEF Up, IInv, TypeOK
  <2>2. tapstate = "first_tap" /\ lastPointerCount <= 1 /\ lastPointerCount >= 1
    BY <1>1, <2>1 DEF IInv, TapPending, Counted
  <2> QED
    BY <1>1, <2>1, <2>2, TapClickOf
<1>2. IInv => [Up /\ most = 1 /\ ~slow /\ before = "lifted" => sent' = LeftClick]_vars
  BY <1>1
<1> QED
  BY <1>2, IInvHolds, PTL DEF LaterTapClicks
-----------------------------------------------------------------------------
(* The touch pad, the datagrams and the server *)

\* The theorems of InputServer, for what this phone sends.
Injected == INSTANCE InputProofs WITH Controls <- 0..5

\* What the pad sends.
PadSendable == {Message(0, b, a, Still) : b \in {0, 1}, a \in {0, 1}}
                 \cup {Message(0, 5, 2, meta) : meta \in Metas}
                 \cup {Message(3, type, 0, Still) : type \in Commands}

PadTyped == net \in Seq(Datagrams(PadSendable))

\* A press is never the newest message about its button: its release is sent
\* with it, and after it.
NewestReleases == \A i \in DOMAIN net :
  net[i].newest /\ About(i) # {} => net[i].instruction.action = 1

PadInv == IInv /\ PadTyped /\ LinkInv /\ NewestReleases /\ SettledButtonsUp
-----------------------------------------------------------------------------
(* What the pad sends and what the server makes of it *)

LEMMA PadSendableOf ==
  ASSUME NEW m \in PadSendable
  PROVE  /\ m \in Server!Instructions
         /\ \/ /\ m.device = 0 /\ m.action \in {0, 1} /\ m.control \in {0, 1}
               /\ Subject(m) = {<<0, m.control>>}
            \/ m.device = 0 /\ m.action = 2 /\ Subject(m) = {}
            \/ m.device = 3 /\ Subject(m) = {}
<1>1. Still \in Metas
  BY DEF Metas
<1>2. CASE m \in {Message(0, b, a, Still) : b \in {0, 1}, a \in {0, 1}}
  BY <1>1, <1>2 DEF Message, Server!Instructions, Subject
<1>3. CASE m \in {Message(0, 5, 2, meta) : meta \in Metas}
  BY <1>3 DEF Message, Server!Instructions, Subject
<1>4. CASE m \in {Message(3, type, 0, Still) : type \in Commands}
  BY <1>1, <1>4, CommandsAssumption DEF Message, Server!Instructions, Subject
<1> QED
  BY <1>2, <1>3, <1>4 DEF PadSendable

LEMMA ClickOf ==
  ASSUME NEW b \in {0, 1}
  PROVE  /\ Click(b) \in Seq(PadSendable) /\ DOMAIN Click(b) = {1, 2}
         /\ Click(b)[1] = Message(0, b, 0, Still)
         /\ Click(b)[2] = Message(0, b, 1, Still)
BY DEF Click, PadSendable

\* A message about a button is a release, or its release follows it.
LEMMA SentOf ==
  ASSUME NEW s \in {<<>>, LeftClick, RightClick} \cup Multitouch
                     \cup {MoveBy(meta) : meta \in Metas}
  PROVE  /\ s \in Seq(PadSendable)
         /\ \A k \in DOMAIN s :
              \/ Subject(s[k]) = {}
              \/ s[k].action = 1
              \/ \E l \in DOMAIN s :
                   l > k /\ Subject(s[l]) = Subject(s[k])
<1>1. CASE s = <<>>
  BY <1>1
<1>2. ASSUME NEW b \in {0, 1}, s = Click(b)
      PROVE  /\ s \in Seq(PadSendable)
             /\ \A k \in DOMAIN s :
                  \/ s[k].action = 1
                  \/ \E l \in DOMAIN s :
                       l > k /\ Subject(s[l]) = Subject(s[k])
  <2> DEFINE press == Message(0, b, 0, Still)
             release == Message(0, b, 1, Still)
  <2>1. /\ press.action = 0 /\ Subject(press) = {<<0, b>>}
        /\ release.action = 1 /\ Subject(release) = {<<0, b>>}
    BY DEF Message, Subject
  <2> HIDE DEF press, release
  <2>2. /\ s \in Seq(PadSendable) /\ DOMAIN s = {1, 2}
        /\ s[1] = press /\ s[2] = release
    BY <1>2, ClickOf DEF press, release
  <2>3. ASSUME NEW k \in DOMAIN s
        PROVE  \/ s[k].action = 1
               \/ \E l \in DOMAIN s :
                    l > k /\ Subject(s[l]) = Subject(s[k])
    <3>1. CASE k = 1
      <4>1. 2 \in DOMAIN s /\ 2 > k
        BY <2>2, <3>1
      <4>2. s[k] = press /\ s[2] = release
        BY <2>2, <3>1
      <4>3. Subject(s[2]) = Subject(s[k])
        BY <2>1, <4>2
      <4> QED
        BY <4>1, <4>3
    <3>2. CASE k = 2
      BY <2>1, <2>2, <3>2
    <3> QED
      BY <2>2, <3>1, <3>2
  <2> QED
    BY <2>2, <2>3
<1>3. ASSUME NEW m \in PadSendable, Subject(m) = {}, s = <<m>>
      PROVE  /\ s \in Seq(PadSendable)
             /\ \A k \in DOMAIN s : Subject(s[k]) = {}
  BY <1>3
<1>4. ASSUME s \in Multitouch
      PROVE  \E m \in PadSendable : Subject(m) = {} /\ s = <<m>>
  <2>1. PICK type \in Commands : s = <<Message(3, type, 0, Still)>>
    BY <1>4 DEF Multitouch
  <2>2. /\ Message(3, type, 0, Still) \in PadSendable
        /\ Subject(Message(3, type, 0, Still)) = {}
    BY DEF PadSendable, Subject, Message
  <2> QED
    BY <2>1, <2>2
<1>5. ASSUME NEW meta \in Metas, s = MoveBy(meta)
      PROVE  \E m \in PadSendable : Subject(m) = {} /\ s = <<m>>
  <2>1. Message(0, 5, 2, meta) \in PadSendable /\ Subject(Message(0, 5, 2, meta)) = {}
    BY DEF PadSendable, Subject, Message
  <2> QED
    BY <1>5, <2>1 DEF MoveBy
<1>6. \/ s = <<>> \/ s = Click(0) \/ s = Click(1)
      \/ s \in Multitouch \/ \E meta \in Metas : s = MoveBy(meta)
  BY DEF LeftClick, RightClick
<1> QED
  BY <1>1, <1>2, <1>3, <1>4, <1>5, <1>6

LEMMA AcceptOf ==
  ASSUME NEW m \in PadSendable, Server!Accept(m)
  PROVE  /\ server = "running" /\ server' = "running"
         /\ m.device = 0 /\ m.action = 0 => buttons' \subseteq buttons \cup {m.control}
         /\ m.device = 0 /\ m.action = 1 => buttons' = buttons \ {m.control}
         /\ m.action = 2 \/ m.device = 3 => buttons' = buttons
<1>1. server = "running"
  BY DEF Server!Accept
<1>2. CASE Server!MouseDown(m)
  BY <1>1, <1>2 DEF Server!MouseDown, Server!Down, Server!DeviceMouse
<1>3. CASE Server!MouseUp(m)
  BY <1>1, <1>3 DEF Server!MouseUp, Server!Up, Server!DeviceMouse
<1>4. CASE Server!MouseMove(m)
  BY <1>1, <1>4 DEF Server!MouseMove, Server!Move, Server!DeviceMouse
<1>5. CASE Server!KeyDown(m) \/ Server!KeyUp(m)
  <2>1. m.device = 1
    BY <1>5 DEF Server!KeyDown, Server!KeyUp, Server!DeviceKeyboard
  <2> QED
    BY <2>1, PadSendableOf
<1>6. CASE Server!Present(m)
  <2>1. m.device = 3 /\ server' = server /\ buttons' = buttons
    BY <1>6 DEF Server!Present, Server!DevicePresenter
  <2> QED
    BY <1>1, <2>1
<1>7. CASE Server!Ignore(m)
  <2>1. UNCHANGED <<server, buttons>> /\ ~(m.device = 0 /\ m.action \in {0, 1, 2})
    BY <1>7 DEF Server!Ignore, Server!serverVars, Server!DeviceMouse,
       Server!DeviceKeyboard, Server!DeviceGamepad, Server!DevicePresenter,
       Server!Move
  <2> QED
    BY <1>1, <2>1, PadSendableOf
<1> QED
  BY <1>2, <1>3, <1>4, <1>5, <1>6, <1>7 DEF Server!Accept
-----------------------------------------------------------------------------
(* The steps *)

LEMMA InitPadInv == AllInit => PadInv
<1> SUFFICES ASSUME AllInit PROVE PadInv
  OBVIOUS
<1>1. IInv
  BY InitIInv DEF AllInit
<1>2. net = <<>> /\ settled = {} /\ DOMAIN net = {} /\ net \in Seq(Datagrams(PadSendable))
  BY DEF AllInit, LinkInit
<1> QED
  BY <1>1, <1>2 DEF PadInv, PadTyped, LinkInv, OneNewest, NewestUnsettled,
     NewestReleases, SettledButtonsUp

\* What an event sends about a button ends in its release, which is the newest.
LEMMA TouchKeepsPadInv ==
  ASSUME PadInv, Touch
  PROVE  PadInv'
<1>1. /\ Next /\ net \in Seq(Datagrams(PadSendable)) /\ LinkInv
      /\ UNCHANGED <<server, buttons>>
  BY DEF PadInv, PadTyped, Touch, serverVars
<1>2. IInv'
  BY <1>1, NextKeepsIInv DEF PadInv
<1>3. /\ sent' \in Seq(PadSendable)
      /\ \A k \in DOMAIN sent' :
           \/ Subject(sent'[k]) = {}
           \/ sent'[k].action = 1
           \/ \E l \in DOMAIN sent' : l > k /\ Subject(sent'[l]) = Subject(sent'[k])
  <2>1. sent' \in {<<>>, LeftClick, RightClick} \cup Multitouch
                   \cup {MoveBy(meta) : meta \in Metas}
    BY <1>2 DEF IInv, TypeOK
  <2> QED
    BY <2>1, SentOf
<1>4. PICK messages \in Seq(PadSendable) : messages = sent' /\ Send(messages)
  <2>1. Send(sent')
    BY DEF Touch
  <2> QED
    BY <1>3, <2>1 DEF Send
<1>5. \A k \in DOMAIN messages :
        \/ Subject(messages[k]) = {}
        \/ messages[k].action = 1
        \/ \E l \in DOMAIN messages : l > k /\ Subject(messages[l]) = Subject(messages[k])
  BY <1>3, <1>4
<1>6. /\ net' \in Seq(Datagrams(PadSendable))
      /\ settled' = settled \ UNION {Subject(messages[k]) : k \in DOMAIN messages}
      /\ \A i \in DOMAIN net' : net'[i].newest =>
           \/ /\ i \in DOMAIN net /\ net[i].newest
              /\ net'[i].instruction = net[i].instruction
           \/ \E k \in DOMAIN messages :
                /\ net'[i].instruction = messages[k]
                /\ \A l \in DOMAIN messages :
                     l > k => Subject(messages[k]) \cap Subject(messages[l]) = {}
  BY <1>1, <1>4, SendOf
<1>7. LinkInv'
  BY <1>1, <1>4, SendKeepsLinkInv
<1>8. NewestReleases'
  <2> SUFFICES ASSUME NEW i \in DOMAIN net', net'[i].newest,
                      Subject(net'[i].instruction) # {}
               PROVE  net'[i].instruction.action = 1
    BY DEF NewestReleases, About
  <2>1. CASE /\ i \in DOMAIN net /\ net[i].newest
             /\ net'[i].instruction = net[i].instruction
    BY <2>1 DEF PadInv, NewestReleases, About
  <2>2. ASSUME NEW k \in DOMAIN messages, net'[i].instruction = messages[k],
               \A l \in DOMAIN messages :
                 l > k => Subject(messages[k]) \cap Subject(messages[l]) = {}
        PROVE  messages[k].action = 1
    BY <1>5, <2>2
  <2> QED
    BY <1>6, <2>1, <2>2
<1>9. settled' \subseteq settled
  BY <1>6
<1>10. SettledButtonsUp'
  BY <1>1, <1>9 DEF PadInv, SettledButtonsUp
<1> QED
  BY <1>2, <1>6, <1>7, <1>8, <1>10 DEF PadInv, PadTyped

\* Whatever the touch pad alone does, the link and the server stay.
LEMMA WaitKeepsPadInv ==
  ASSUME PadInv, Wait \/ UNCHANGED allVars
  PROVE  PadInv'
<1>1. [Next]_vars /\ UNCHANGED <<net, settled, server, buttons>>
  BY DEF Wait, Next, allVars, linkVars, serverVars
<1>2. IInv'
  BY <1>1, NextKeepsIInv DEF PadInv
<1> QED
  BY <1>1, <1>2 DEF PadInv, PadTyped, LinkInv, OneNewest, NewestUnsettled,
     NewestReleases, About, SettledButtonsUp

\* A press that is accepted is not the newest message about its button.
LEMMA DeliverKeepsPadInv ==
  ASSUME PadInv, Deliver
  PROVE  PadInv'
<1>1. PICK n \in DOMAIN net : /\ Take(n) /\ Server!Accept(net[n].instruction)
                             /\ UNCHANGED vars
  BY DEF Deliver
<1>2. net \in Seq(Datagrams(PadSendable)) /\ LinkInv
  BY DEF PadInv, PadTyped
<1>3. PICK m \in PadSendable : m = net[n].instruction
  <2>1. net[n] \in Datagrams(PadSendable)
    BY <1>2
  <2> QED
    BY <2>1 DEF Datagrams
<1>4. Server!Accept(m)
  BY <1>1, <1>3
<1>5. /\ server = "running"
      /\ m.device = 0 /\ m.action = 0 => buttons' \subseteq buttons \cup {m.control}
      /\ m.device = 0 /\ m.action = 1 => buttons' = buttons \ {m.control}
      /\ m.action = 2 \/ m.device = 3 => buttons' = buttons
  BY <1>4, AcceptOf
<1>6. /\ net' \in Seq(Datagrams(PadSendable)) /\ LinkInv'
      /\ \A i \in DOMAIN net' : \E j \in DOMAIN net : j # n /\ net'[i] = net[j]
  BY <1>1, <1>2, TakeKeepsLinkInv
<1>7. /\ net[n].newest => settled' = settled \cup Subject(m)
      /\ ~net[n].newest => settled' = settled \ Subject(m)
  BY <1>1, <1>3 DEF Take
<1>8. \/ /\ m.device = 0 /\ m.action \in {0, 1} /\ m.control \in {0, 1}
         /\ Subject(m) = {<<0, m.control>>}
      \/ m.device = 0 /\ m.action = 2 /\ Subject(m) = {}
      \/ m.device = 3 /\ Subject(m) = {}
  BY PadSendableOf
<1>9. net[n].newest /\ Subject(m) # {} => m.action = 1
  BY <1>3 DEF PadInv, NewestReleases, About
<1>10. IInv'
  BY <1>1, StutterKeepsIInv DEF PadInv
<1>11. NewestReleases'
  BY <1>6 DEF PadInv, NewestReleases, About
<1>12. SettledButtonsUp'
  <2> SUFFICES ASSUME NEW b \in 0..5, <<0, b>> \in settled'
               PROVE  b \notin buttons'
    BY DEF SettledButtonsUp
  <2>1. <<0, b>> \in settled => b \notin buttons
    BY <1>5 DEF PadInv, SettledButtonsUp
  <2>2. CASE Subject(m) = {}
    BY <1>5, <1>7, <1>8, <2>1, <2>2
  <2>3. CASE m.device = 0 /\ m.action = 0 /\ Subject(m) = {<<0, m.control>>}
    <3>1. <<0, b>> \in settled /\ b # m.control
      BY <1>7, <1>9, <2>3
    <3> QED
      BY <1>5, <2>1, <2>3, <3>1
  <2>4. CASE m.device = 0 /\ m.action = 1 /\ Subject(m) = {<<0, m.control>>}
    BY <1>5, <1>7, <2>1, <2>4
  <2> QED
    BY <1>8, <2>2, <2>3, <2>4
<1> QED
  BY <1>6, <1>10, <1>11, <1>12 DEF PadInv, PadTyped

LEMMA LoseKeepsPadInv ==
  ASSUME PadInv, Lose
  PROVE  PadInv'
<1>1. PICK n \in DOMAIN net : Drop(n) /\ UNCHANGED <<vars, serverVars>>
  BY DEF Lose
<1>2. UNCHANGED <<settled, server, buttons>>
  BY <1>1 DEF Drop, serverVars
<1>3. IInv'
  BY <1>1, StutterKeepsIInv DEF PadInv
<1>4. net \in Seq(Datagrams(PadSendable)) /\ LinkInv
  BY DEF PadInv, PadTyped
<1>5. /\ net' \in Seq(Datagrams(PadSendable)) /\ LinkInv'
      /\ \A i \in DOMAIN net' : \E j \in DOMAIN net : j # n /\ net'[i] = net[j]
  BY <1>1, <1>4, DropKeepsLinkInv
<1>6. NewestReleases'
  BY <1>5 DEF PadInv, NewestReleases, About
<1> QED
  BY <1>2, <1>3, <1>5, <1>6 DEF PadInv, PadTyped, SettledButtonsUp

LEMMA ServerExitKeepsPadInv ==
  ASSUME PadInv, ServerExit
  PROVE  PadInv'
<1>1. server' # "running" /\ UNCHANGED <<vars, net, settled>>
  BY DEF ServerExit, linkVars, Server!Exit, Server!Kill, Server!KeyboardClear,
     Server!MouseClear
<1>2. IInv'
  BY <1>1, StutterKeepsIInv DEF PadInv
<1> QED
  BY <1>1, <1>2 DEF PadInv, PadTyped, LinkInv, OneNewest, NewestUnsettled,
     NewestReleases, About, SettledButtonsUp
-----------------------------------------------------------------------------
\* SettledButtonsUp is inductive only beside NewestReleases: a click's press is
\* outdated by its own release before either has left the phone.
THEOREM PadInvHolds == AllSpec => []PadInv
<1>1. PadInv /\ [AllNext]_allVars => PadInv'
  BY TouchKeepsPadInv, WaitKeepsPadInv, DeliverKeepsPadInv, LoseKeepsPadInv,
     ServerExitKeepsPadInv DEF AllNext
<1> QED
  BY <1>1, InitPadInv, PTL DEF AllSpec

\* No button stays down whose newest message was accepted last, whatever the
\* gestures and however they ended.
THEOREM SettledButtonsAreUp == AllSpec => []SettledButtonsUp
<1>1. PadInv => SettledButtonsUp
  BY DEF PadInv
<1> QED
  BY <1>1, PadInvHolds, PTL

\* The composition does to the server only what InputServer does, so that the
\* theorems of InputProofs hold of it.
LEMMA ServerSteps == AllSpec => Server!Spec
<1>1. AllInit => Server!Init
  BY DEF AllInit
<1>2. ASSUME PadInv, [AllNext]_allVars
      PROVE  [Server!Next]_(Server!serverVars)
  <2>1. CASE Deliver
    <3>1. PICK n \in DOMAIN net : Server!Accept(net[n].instruction)
      BY <2>1 DEF Deliver
    <3>2. net[n] \in Datagrams(PadSendable)
      BY <1>2 DEF PadInv, PadTyped
    <3>3. net[n].instruction \in Server!Instructions
      BY <3>2, PadSendableOf DEF Datagrams
    <3> QED
      BY <3>1, <3>3 DEF Server!Next
  <2>2. CASE ServerExit
    BY <2>2 DEF ServerExit, Server!Next
  <2>3. CASE UNCHANGED serverVars
    BY <2>3 DEF serverVars, Server!serverVars
  <2>4. Deliver \/ ServerExit \/ UNCHANGED serverVars
    BY <1>2 DEF AllNext, allVars, Touch, Wait, Lose
  <2> QED
    BY <2>1, <2>2, <2>3, <2>4
<1> QED
  BY <1>1, <1>2, PadInvHolds, PTL DEF AllSpec, Server!Spec

\* After the server has exited no button is down, settled or not: whatever was
\* lost or overtaken, Mouse::Deinit releases all that a click can press.
THEOREM NoButtonOutlivesServer == AllSpec => [](server = "exited" => buttons = {})
<1>1. Server!Init => Injected!Init
  BY DEF Server!Init, Injected!Init
<1>2. [Server!Next]_(Server!serverVars) => [Injected!Next]_(Injected!serverVars)
  BY DEF Server!Next, Server!serverVars, Server!Instructions, Server!Accept,
     Server!Exit, Server!Kill, Server!KeyboardClear, Server!MouseClear,
     Server!MouseDown, Server!MouseUp, Server!MouseMove, Server!KeyDown,
     Server!KeyUp, Server!Present, Server!Ignore, Server!DeviceMouse,
     Server!DeviceKeyboard, Server!DeviceGamepad, Server!DevicePresenter,
     Server!Down, Server!Up, Server!Move, Server!Buttons,
     Server!WindowsDIConvert, Server!Convertible, Server!NoKey,
     Server!DeinitKeys, Injected!Next, Injected!serverVars,
     Injected!Instructions, Injected!Accept, Injected!Exit, Injected!Kill,
     Injected!KeyboardClear, Injected!MouseClear, Injected!MouseDown,
     Injected!MouseUp, Injected!MouseMove, Injected!KeyDown, Injected!KeyUp,
     Injected!Present, Injected!Ignore, Injected!DeviceMouse,
     Injected!DeviceKeyboard, Injected!DeviceGamepad,
     Injected!DevicePresenter, Injected!Down, Injected!Up, Injected!Move,
     Injected!Buttons, Injected!WindowsDIConvert, Injected!Convertible,
     Injected!NoKey, Injected!DeinitKeys
<1>3. 0..5 \subseteq Nat
  OBVIOUS
<1>4. Injected!ExitReleasesPrinting => (server = "exited" => buttons = {})
  BY DEF Injected!ExitReleasesPrinting
<1> QED
  BY <1>1, <1>2, <1>3, <1>4, ServerSteps, Injected!ExitReleases, PTL
     DEF Server!Spec, Injected!Spec
=============================================================================
