----------------------------- MODULE TypedText -----------------------------
(***************************************************************************)
(* PadActivity's keyboard zone: what the user types into the hidden text   *)
(* field, the key messages that stand for it, the link that loses and      *)
(* reorders them, and the server that presses the keys.  Characters are    *)
(* their ASCII codes.                                                      *)
(***************************************************************************)
EXTENDS Link

CONSTANTS Texts,    \* what one edit of the text field can insert
          MaxEdits  \* bound: insertions

Space == 32
Tab == 9

\* The text field always holds "a ", so that it can tell an insertion from a
\* deletion; sendKeys ignores an insertion of just that.
Guard == <<97, 32>>

Chars == {9, 10} \cup 32..126
Upper == 65..90

\* Characters whose key needs Shift: capitals, and those sendKeys lists.
Shifted == Upper \cup {33, 34, 36, 37, 38, 40, 41, 43, 58, 60, 62, 63, 94, 95,
                       96, 123, 124, 125, 126}

ASSUME TextsAssumption == Texts \subseteq Seq(Chars) \ {<<>>}
ASSUME MaxEditsAssumption == MaxEdits \in Nat

VARIABLES
  typed,    \* history: the texts inserted
  printed,  \* the characters the pressed keys stand for
  inOrder,  \* history: no datagram was lost or overtaken
  server, keys, buttons, mouse, keyboard, presenter  \* of InputServer

serverVars == <<server, keys, buttons, mouse, keyboard, presenter>>
vars == <<typed, printed, inOrder, linkVars, serverVars>>

Server == INSTANCE InputServer WITH Controls <- Nat, Metas <- Nat

Init == /\ typed = <<>> /\ printed = <<>> /\ inOrder = TRUE
        /\ LinkInit /\ Server!Init
-----------------------------------------------------------------------------
Message(control, action, meta) ==
  [device |-> 1, control |-> control, action |-> action, meta |-> meta]

\* Mutant: the release is forgotten.
PressOnly(control, meta) == <<Message(control, 0, meta)>>

Press(control, meta) == <<Message(control, 0, meta), Message(control, 1, meta)>>

\* sendKey: the control is Android's key code, the meta its character, if any.
KeycodeSpace == 62
KeycodeDel == 67
SendKey(keycode) ==
  Press(keycode, IF keycode = KeycodeSpace THEN Space ELSE 0)

\* Mutant: a character that needs no Shift is announced like one that does.
SendCharTwice(c) == Press(c, 0) \o Press(c, c)

\* One turn of sendKeys: a heads-up when Shift or Ctrl is needed, then the key.
SendChar(c) == (IF c \in Shifted \cup {Tab} THEN Press(c, 0) ELSE <<>>)
                 \o Press(c, c)

SendKeys(text) == IF text = Guard THEN <<>>
                  ELSE FlattenSeq([i \in DOMAIN text |-> SendChar(text[i])])

\* onTextChanged of an insertion; setText puts the guard back and re-enters
\* onTextChanged, which returns because the text is the one expected.
Insert(text) ==
  /\ Len(typed) < MaxEdits
  /\ typed' = Append(typed, text)
  /\ Send(IF text = <<Space>> THEN SendKey(KeycodeSpace) ELSE SendKeys(text))
  /\ UNCHANGED <<printed, inOrder, serverVars>>

\* onTextChanged of a deletion: of the guard's own characters too.
Delete ==
  /\ Send(SendKey(KeycodeDel))
  /\ UNCHANGED <<typed, printed, inOrder, serverVars>>

\* The computer prints a character for every key that is pressed.
Deliver == \E i \in DOMAIN net :
  LET m == net[i].instruction
      key == Server!WindowsDIConvert(m.control)
  IN /\ Take(i)
     /\ Server!Accept(m)
     /\ printed' = IF m.action = 0 /\ key # Server!NoKey
                   THEN Append(printed, key) ELSE printed
     /\ inOrder' = (inOrder /\ i = 1)
     /\ UNCHANGED typed

Lose == /\ \E i \in DOMAIN net : Drop(i)
        /\ inOrder' = FALSE
        /\ UNCHANGED <<typed, printed, serverVars>>

Next == (\E text \in Texts : Insert(text)) \/ Delete \/ Deliver \/ Lose

Spec == Init /\ [][Next]_vars
-----------------------------------------------------------------------------
Plain(c) == c \in Server!Convertible \ (Shifted \cup {Space, Tab})

\* What is plain in s, and what the user meant by the edits: sendKeys takes one
\* of exactly "a " for its own guard.
PlainOf(s) == FlattenSeq([i \in DOMAIN s |-> IF Plain(s[i]) THEN <<s[i]>> ELSE <<>>])
Meant == FlattenSeq([i \in DOMAIN typed |-> IF typed[i] = Guard THEN <<>> ELSE typed[i]])

(* The conversions: of messages that arrive as they were sent, none lost and *)
(* none overtaken (which UDP does not promise), the computer prints the     *)
(* letters in lower case, the digits and the unshifted marks as they were   *)
(* typed, once each and in order, whatever was typed between them.          *)
PlainPrinted == inOrder /\ net = <<>> => PlainOf(printed) = PlainOf(Meant)

(* The link: whatever is lost or overtaken, a key is not held down once the *)
(* newest message about it has arrived and no older one after it.  What     *)
(* leaves a key down is the loss or the delay of its release, nothing else. *)
SettledKeysUp == \A key \in keys : <<1, key>> \notin settled
-----------------------------------------------------------------------------
(* "here just sending a heads up that the next character would have held    *)
(* down shift or control": the heads-up itself, a message with meta1 0,     *)
(* prints nothing.                                                          *)
HeadsUpPrintsNothing ==
  [][\A i \in DOMAIN net :
       net' = RemoveAt(net, i) /\ net[i].instruction.meta = 0
         => printed' = printed]_vars
=============================================================================
