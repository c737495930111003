# Reroot in TLA+

Reroot (also "HandWire") turns an Android phone into a keyboard, mouse and
game controller for a computer. This directory models its own logic: how a
phone pairs with the server, how input travels from the phone's gestures to the
computer's keys and buttons, and what the server leaves behind when it exits.
Paths below are relative to the repository; `Reroot/` stands for
`client/android/src/com/Cyberpad/Reroot/`.

## 1. Inventory

### The server (`server/src`, C++, Qt 4)

| component | state | operations | interacts with |
|---|---|---|---|
| `ConnectDialog` | visible, check and cross panes, a 60 s timer, pending 2 s hide timers | `ConnectNewDevice`, `ConnectionSuccess`, `ConnectionTimeout`, `closeEvent`, hide, Escape | GUI thread; sets the key in `Connector`; receives `HandshakeSuccessful` as a queued signal |
| `Connector` | mutex, connect key, device map, OSC port per device, RSA keys | `SetConnectKey`, `GetConnectKey`, `AddNewDevice`, `SendHandshake`, `RemoveDevice`, destructor | called from the GUI thread and from the receive thread |
| `HandshakeListener` | none of its own | `acceptMessage` | receive thread; reads the key twice, then `AddNewDevice` |
| `OSCPort` | socket, `ibListening`, thread | `run`, `startListening`, `stopListening`, `send`, `terminate` | one receive thread; ports of devices only send |
| `CipheredListener`, `Cipher` | keys | decrypt, then `acceptDecipheredMessage` | receive thread |
| `ControlListener` | none | switch over device and action | `Mouse`, `Keyboard`, `Presenter` |
| `Mouse`, `Keyboard`, `Presenter` | singleton, what is pressed | `Down`, `Up`, `MovePosition`; `Start`, `Stop`, `Point`; `Clear` at exit | Windows `SendInput`; the presenter is a Qt widget |
| `main`, `MainWindow` | tray icon | connect, exit | destructor order, `atexit` handlers |
| `OSCms` converters | none | bytes to messages and back | `OSCPort` |

### The client (`client/android`, Java)

| component | state | operations | interacts with |
|---|---|---|---|
| `PadActivity`, mouse zone | `tapstate`, `last_tap`, `lastPointerCount`, histories | `onMouseMove` | `Connector.SendControlMessage` |
| `PadActivity`, keyboard zone | the guard text | `onTextChanged`, `sendKey`, `sendKeys` | same |
| `dualstickActivity` | `keypress[4]` | `handle_event` | same |
| `Connector`, `Crypto` | sender, receiver, remote keys | `ConnectToServer`, `SendControlMessage`, `Authenticate` | UDP; broadcasts `AUTHENTICATED` |
| `ConnectPickerActivity`, `IPConnectActivity`, `MainMenuActivity` | broadcast receivers | QR scan, code entry, menus | `Connector` |
| JavaOSC (`com/illposed/osc`) | sockets | send, receive, convert | UDP |

### What is hard, and what makes each part correct

* **Pairing** is three actors (user and timers, receive thread, phones on UDP)
  around one key. It is correct when a code admits a phone only while its
  window is open, no window stays open unnoticed, a phone that was accepted is
  answered and reported, and the reply never goes through a dead port.
* **Exit** kills the receive thread with `QThread::terminate()` at any
  instruction. It is correct when the destructor never shares the device map
  with a live listener, when it ends, and when nothing that prints stays pressed.
* **Input** travels as unrepeated, unnumbered UDP datagrams. It is correct when
  the server's keys and buttons agree with the phone's, except by a message
  that was lost or overtaken.
* **Gestures** are sequences of events with state carried from one to the next
  (and across a cancelled gesture). They are correct when a move never jumps
  from finger to finger and a click comes from the tap that makes it.
* **Bytes** go through buffers that are never cleared, by readers that are not told
  where a datagram ends. Conversion is correct when a message is read as it was
  meant whatever was received before it.
* **Screens** outlive the process that filled them, and answers outlive the
  screen that asked. The client is correct when a menu or a pad is reached only after a
  server's answer, no pad sends without keys unless the answer's were unusable, and an
  answered screen goes away.
* **Typing** converts characters twice, on the phone and on the server. It is
  correct when of messages that arrive as they were sent the computer prints what was
  typed, and when only a lost or overtaken release leaves a key down.

`PROJECT.json` lists the hazards line by line with the properties that cover them.

## 2. Modules

| module | models | notes |
|---|---|---|
| `PairingWindow` | what pairing promises: a window with a code, devices that join only with an offered code while it is open | abstract specification |
| `Pairing` | `ConnectDialog`, `HandshakeListener`, `Connector`, the mutex of a control message, exit up to `~Connector` | one action per GUI handler; one action per mutex operation of the listener; one per call of `CloseOSCPort` |
| `PairingProperties` | properties and the refinement mapping to `PairingWindow` | |
| `PairingProofs` | theorems about `Pairing` | |
| `InputServer` | `ControlListener` with `Mouse`, `Keyboard`, `Presenter`, and the `atexit` handlers | Windows build (`OS.h` leaves `OS_LINUX` undefined) |
| `InputProofs` | theorems about `InputServer` | |
| `Link` | the datagrams from `SendControlMessage` to the receive thread: lost, reordered | history says which message about a key is the newest |
| `LinkProofs` | what `Link` keeps of the messages it is given | lemmas that both senders' proofs rest on |
| `DualStick` | `dualstickActivity` composed with `Link` and `InputServer` | |
| `StickProofs` | theorems about `DualStick` | |
| `TouchPad` | `PadActivity.onMouseMove` | |
| `PadServer` | `TouchPad`, `Link` and `InputServer` composed | |
| `PadProofs` | theorems about `TouchPad` and `PadServer` | |
| `TypedText` | `PadActivity`'s keyboard zone composed with `Link` and `InputServer` | |
| `TextProofs` | theorems about `TypedText` | |
| `OscCodec` | the OSC bytes of a message, written and read by both programs; the code of a window and its parsing | operators only |
| `OscPort` | the receive loops of server and phone over `OscCodec`, with their buffers and the dispatch to listeners | |
| `OscProofs` | theorems about `OscCodec` and `OscPort` | |
| `ClientSession` | what the screens promise: a menu is opened only by a process that a server has answered | abstract specification |
| `ClientConnector` | `Connector` and `Crypto`, and the servers they talk to | the server is its window, as in `PairingWindow` |
| `ClientActivities` | `ConnectPickerActivity`, `IPConnectActivity`, `MainMenuActivity` and the pads on the back stack, over `ClientConnector` | |
| `ClientProofs` | theorems about `ClientActivities` | |
| `MC*` | instances for TLC | |

**Pairing.** The variables carry the names of the code's fields. A GUI handler
takes the mutex at most once and otherwise touches only what the GUI thread
owns, so it is one step taken when the mutex is free. The listener is split at
every mutex operation because `terminate()` may stop it after any of them; its
program counter `lpc` names the place in `acceptMessage`, `GetConnectKey`,
`AddNewDevice` and `SendHandshake`, or, of a control message, in `GetClientSignKey`. `sent` holds every handshake a phone ever
sent: each can arrive again, late, or never. `hide()` timers are counted, since
several can be pending. `Quit` destroys the dialog (its timers and queued
signals go with it); `StopListening`, `Terminate`, `Wait`, `RemoveDevice` and `Exit` are
`~Connector`. The thread goes on between the calls: after `stopListening` it leaves its
loop at the next turn (`Return`, `Finish`), after `terminate` it dies at once or some steps
later (`Die`, Qt promises no more), and `wait` returns when it has done the one or the other.
The port of an attempt stands for the attempt, in `replied`, `reported` and the queued signals,
so that a phone that pairs twice is not reported once for both.

**InputServer.** `keys` and `buttons` are what Windows holds down. A scan code is
named by the character `WindowsDIConvert` makes it from (the conversion is
one to one on the 55 characters it knows); every other control is no key.
Instances of the singletons are created by the first use and destroyed by the
`atexit` handlers, whose destructors release a range of codes.

**DualStick.** `keypress` is the set of pressed keys. Where the stick is pulled is
an input; lifting, and events with no case in the switch, pull nothing. The
drawing, and the comparison of pixels that yields the pull, are left out: a
pull is never in opposite directions (the head is smaller than half of the
carriage, so the thresholds are on both sides of the centre). `Recreate` is
Android destroying and creating the activity.

**TouchPad.** Coordinates are replaced by the finger they were read from: a move
is a pair (from whose position, to whose position). Time is "more than 200 ms
since `last_tap`". `getX(ev, 2)` with two pointers reads past the event: the
outcome is any value or an exception, both are choices of the model.

**OscCodec, OscPort.** A byte is 0..255, a string its bytes, a buffer a function over
positions. What neither program sends (bundles, floats, arrays, times) is left out;
an argument may be null, as a control message's are without keys, or one of them when one half fails. `meant` records
what the sender had in mind: the window's key rather than the integer the phone
parsed from the code. The addresses are shortened to the lengths that matter (a
multiple of four, and one more), the keys and ciphers to two and four digits.

**ClientActivities.** The stack holds every activity of the task, the visible one last.
A receiver is registered from `onCreate` to `onDestroy`, and `Destroy` may come long
after `finish()`: a broadcast run in between still starts a menu, one run later does nothing. A broadcast is
queued once per receiver on the main thread, behind what is queued already, the receivers of one
broadcast in any order (Android promises none); `OnReceive` is
`startActivity` and `finish()`. `EndProcess` is Android ending the process and
restoring the stack: the visible activity is created again, the others when they come to
light (`Resume`), and a pad makes a new `Connector` (`CreatePad`). A new `Connector` whose port is
taken throws out of its constructor (`GetInstanceThrows`), in a pad or in the activity that
connects; the process ends with the activity, and with the one below when that was not yet
stopped (`Crash`). Keys that cannot be made of an answer (`Rejected`) leave the phone without
keys, but are broadcast like good ones. Handshakes and answers are
sets that only grow, so each arrives late, repeatedly or never. A server may be asked
after another, and the answer of the first may come last: `remoteKeys` then is not
`mSender`'s, which no comment of the code excludes.

**TypedText.** A text is a sequence of ASCII codes. One action is a whole
`onTextChanged`, with its re-entry through `setText`. The messages are single datagrams on
`Link`; the history variable `inOrder` says that so far none was lost or overtaken.

## 3. Runs

| run | what it checks | bounds |
|---|---|---|
| `pairing` | the type invariant and six others, that `Pairing` implements `PairingWindow`, and four liveness properties: windows close, feedback goes, an accepted phone is answered and reported, exit ends | 2 phones, 2 codes, 2 datagrams received (handshakes or control messages), 2 windows, 2 ports |
| `pairing_exit` | *violated*: exit always ends (comment in `main.cpp:29`) | 1 phone, 1 window |
| `pairing_waiting` | *violated*: a handshake is accepted only while a key is set (comment in `HandshakeListener.cpp:21`) | client codes 0 and 1 |
| `input` | only keys and buttons Windows knows are held; exit releases all but Tab and Enter | a control of every kind the code tells apart |
| `stick` | the replica of the stick's keys; exit releases them | w against s; 3 datagrams under way, any number in all |
| `pad` | no jump, clicks where they belong | 3 fingers |
| `pad_server` | no button stuck unless a release was lost or overtaken | 2 fingers, 3 datagrams under way |
| `pad_presenter` | *violated*: device 3 is multitouch (`message formats.txt`) | same |
| `text` | plain text is printed as typed when nothing is lost or overtaken; no key stuck unless a release was | 2 insertions, deletions, 4 datagrams under way |
| `text_shift` | *violated*: the heads-up before a shifted character prints nothing (comment in `PadActivity.java:509`) | 1 insertion, 4 datagrams under way |
| `osc` | messages are read as meant, a code leads to its server, no listener indexes a missing argument | 2 addresses, keys 73 and 126 (and 0, drawn again), 2 texts, 3 datagrams in any order and number, 64 bytes of buffer |
| `client` | no pad sends without keys unless an answer's were unusable, silence has a reason, the screens implement `ClientSession`, an answered activity leaves | 2 servers with one code, 2 activities with a receiver, 4 on the stack, 2 ends of the process |

Why the bounds are enough. Two windows and two handshakes let a message of the
first window meet the second, let a phone pair twice and let a second phone
come between; one more of each adds only repetition, since a handler keeps
nothing from the attempts before but the map, the timers and the queue (and the
invariants and the refinement are proved for every bound). Two codes tell "the
code of this window" from "another". Two ports are as many as two handshakes allocate.
Three messages in `osc` are one older and longer, one newer and one of another kind,
received any number of times; 64 bytes hold the longest of them as 1536 hold the
real ones. Two activities with a receiver are the picker and the entry above it, both
answered by one broadcast; with four places on the stack a menu, a pad and a
second menu fit above one of them. Two ends let a restored pad find its port taken. Two servers let one answer after the other was asked.
Three datagrams hold a press, its release and the next press, in
any order of arrival; four hold a shifted character with its heads-up, or two plain ones. In `stick`, `pad` and `pad_server` the number of events
is not bounded. Three fingers give events of one, two and "more" pointers.

Deadlock is not checked where the program ends: after `exited`, after the
destructor hangs, or after the touch activity has crashed.

### Fairness

`pairing` and `pairing_exit` assume weak fairness of
`ConnectionSuccess`, `ConnectionTimeout` and `HideTimer` (Qt's loop delivers
queued signals and expired timers), of the listener's steps (the scheduler runs
a thread that can move; but nothing says that a datagram comes), of the destructor's calls
(`StopListening`, `Terminate`, `Wait`, `RemoveDevice`, `Exit`) and of `Die`: a terminated
thread does end, which is all that `QThread::wait` relies on. `client` assumes weak
fairness of `OnReceive`: the looper of the main thread runs what is queued. Nothing is
assumed of the user, the phones, the network or Android ending a process. Weak fairness suffices for the mutex because
the listener takes it a bounded number of times; with an endless stream of
handshakes a GUI handler could starve in the model, as far as `QMutex` promises.

## 4. What the checks show

The safety of pairing holds: the second reading of the key decides, and it
decides under the open window; every admission is reported to the dialog after the keys were
sent through the attempt's own port (whether the dialog is still on the screen is another matter:
`Escape` or a stale hide may have dismissed it, and the check is then set on a hidden dialog); the window shuts by its timer whatever else happens. The following
disagreements between the code and its comments or documents were found.
The runs named above replay 1, 2, 4 and 5.

1. **Exit can hang.** `terminate()` may stop the listener inside a critical
   section; `RemoveDevice` then waits for the mutex forever and nothing that is
   pressed is released (`Connector.cpp:157`, `main.cpp:29`).
2. **Key 0.** If the window shuts between the two readings of the key, a
   handshake whose code is 0 is accepted (`HandshakeListener.cpp:32`).
3. **The first tap is lost**: `ACTION_DOWN` returns before it sets
   `lastPointerCount` (`PadActivity.java:225`), against the comment at `:245`;
   `LaterTapClicks` states what is true.
4. **Device 3** is multitouch for the phone and the presenter for the server
   (`message formats.txt:25`, `ControlListener.h:20`).
5. **Some characters are typed twice**: the heads-up message of a shifted
   character presses that character (`PadActivity.java:534`).
6. The 2 s hide timer of a finished attempt hides the code of the next one
   (`ConnectDialog.cpp:131`; the comment above it suspects as much). The model
   has it: `HideTimer` is enabled with a key set.
7. A phone that pairs again leaves its first port open, with nothing referring to it
   (`Connector.cpp:54`): `Insert` forgets the entry it replaces.
8. A handshake accepted as the timeout fires shows both panes.
9. Tab and Enter are not among the keys released at exit (`Keyboard.cpp:69`):
   `ExitReleasesPrinting` states exactly what is.
10. A space typed alone is sent as Android's key code 62 and presses nothing; a
    text of exactly "a " is dropped as the guard: `PlainPrinted` excepts both.
11. `readInteger` of the server sets every bit above a byte of 128 or more
    (`OSCByteArrayToMsgConverter.cpp:212`). The only integer ever sent is the
    window's key, which is below 127 (`ConnectDialog.cpp:99`); `ReadAsMeant` fails with keys up
    to 254.
12. `SendControlMessage` compares the signature with `""` where it is null
    (`Connector.java:83`): without keys a control message without arguments is
    sent, which the server ignores (`ArgumentsAreThere`). No order of screens
    makes a pad do it before an answer (`CipherUnlessRejected`), but see 15.
13. One answer can start two main menus, of the picker and of the entry above it
    (`ConnectPickerActivity.java:52`): two entries of `queue`.
14. A text or a scanned code of fewer than eight characters, or with a letter that is no
    digit, throws out of `connectIP` and `onActivityResult`, which catch
    `UnknownHostException` only (`IPConnectActivity.java:94`).
15. When no keys can be made of a server's answer, `SetRemoteKeys` clears
    `mRemoteKeysSet` and returns (`Crypto.java:71`), and `Authenticate` broadcasts all the
    same (`Connector.java:101`): the menu opens, and its pads send control messages without
    arguments, which the server ignores. So `CipherUnlessRejected` and `ClientSession` speak of
    an answer, and cannot speak of keys.
16. The signature and the cipher text of a control message fail apart (`Crypto.java:89`,
    `:99`), and only the signature is looked at: a message with one argument of two is sent,
    and ignored too.
17. When the phone's port is taken, the `Connector` goes on without a receiver and its
    constructor throws (`Connector.java:52`): the application ends, `GetInstanceThrows`.
18. Typed keys, like those of the stick, are single datagrams: a release that is lost, or
    overtakes its press, leaves the key down, and two characters may change places
    (`PadActivity.java:547`). `SettledKeysUp` says that nothing else leaves a key down, and
    `PlainPrinted` speaks only of messages that arrive as they were sent.
19. `RemoveAllDevices` looks at `empty()` and `begin()` before `RemoveDevice` takes the mutex
    (`Connector.cpp:106`), also when the thread was killed in the middle of an insertion
    (`torn`). What those reads then give is undefined; the model lets them go on to the mutex,
    which nobody frees, and `NoMapRace` says that no removal follows.

## 5. Proofs

TLAPS proves, for every value of the constants (any number of phones, codes, fingers,
pulls, texts, screens and datagrams):

* `PairingProofs`: `TypeCorrect`, `WindowsAreBounded`, `FeedbackIsPending`,
  `PortsAreLive`, `RepliesHaveTarget`, `MapIsRaceFree`, `SuccessIsSound`, and
  `ImplementsWindow` (`Spec => WindowSpec`).
* `InputProofs`: `TypeCorrect`, `ExitReleases`.
* `StickProofs`: `TypeCorrect`, `ReplicaIsExact`, `ExitReleasesTheStick`.
* `PadProofs`: of the touch pad alone, `TypeCorrect`, `MouseNeverJumps`,
  `NoClickUnderFinger`, `RightClickTakesTwo` and the action property
  `LaterTapsClick`; of pad, link and server together, `SettledButtonsAreUp`
  and `NoButtonOutlivesServer`.
* `TextProofs`: `PlainIsPrinted`, `SettledKeysAreUp`.
* `ClientProofs`: `TypeCorrect`, `PadsHaveCiphers`, `SilenceIsExplained`, and
  `ImplementsSession` (`Spec => SessionSpec`).
* `OscProofs`: of the receive loops, `MessagesAreReadAsMeant`, `CodesFindTheirServer`
  and `ArgumentsAreAlwaysThere`; of the conversions alone, `WrittenIsRead` (either
  reader gives back the message whose bytes are at the beginning of its buffer) and
  `CodeHoldsWindow` (a code is parsed back to its window).

Every safety invariant, action property and refinement that a passing run checks is
also a theorem.

What `InputProofs` says of the server holds under the senders too: `StickProofs` and
`PadProofs` take its theorems through an instance of `InputProofs` (`Injected`) and the lemma
`ServerSteps` (the composition does to the server only what `InputServer` allows, which its
definitions say), and never open the server's exit again.

Assumptions: codes drawn are nonzero naturals (the `while` loop of
`ConnectNewDevice`); `NoPort` and `NoMessage` are not a port or a message.
Texts consist of the characters the conversions know. Of the phone: `None`, `Rejected`
and `Closed` are no servers.
Of `OscPort`: an address has four bytes, a random number is a natural, and four times
the longest text fits the buffer with the address, the tags and the key. In the code the
texts are numbers of 512 bits, in up to 130 digits (Java's `toByteArray` puts a sign byte
before a modulus), and the buffer has 1536 bytes, more than two times what that needs.
`ImplementsWindow` also assumes that no phone sends the code 0: with 0 it is
false, which is what `pairing_waiting` shows.

*The invariant of `Pairing`.* None of the properties is inductive alone.
`WindowBounded` needs only the dialog's handlers. `FeedbackPending` needs that
a drawn code is nonzero. `ReplyTarget` and `PortsLive` need each other and the
listener's program counter: the port of the `Device` under construction is open
and in no entry of the map (so an insertion keeps entries distinct), the entry
of `msg.dev` exists from `Insert` on, and nothing is removed until the listener
is dead. `SuccessIsPaired` needs that a device was answered before the listener
reaches `emit`. `IInv` is their conjunction, was first checked by TLC, and is
proved inductive action by action. The refinement proof maps every listener step to a
stutter but `CheckCode`, which is `Admit`; it rests on the fact that `readKey` is the
key of the moment while the listener owns the mutex.

`NoMapRace` needs `EndedBetween` (the thread dies between `Terminate` and `Wait`, or returns by
itself after `stopListening`, and the removals come after) and `Locking` (between `lock` and
`unlock` the thread owns the mutex, dead or alive: so a map whose insertion was cut short is
never free to be removed from). A signal's port is in `replied` from `SendHandshake` on.

*The invariant of `InputServer`.* `ExitReleasesPrinting` rests on two facts: what is held has an
instance, or the destructor would do nothing (`HeldHasInstance`), and the range of codes the
destructor releases covers every key of the type of `keys` but two.

*The invariant of `Link` under a sender.* A datagram is marked `newest` when no later one
is about the same key or button. `LinkInv` says that there is at most one such
datagram for each, and none for what is settled. It is kept by sending any messages
(`SendOf`), by losing any datagram and by the arrival of any, which is proved once
for the three senders.

*The invariant of `DualStick`.* `ReplicaExact` speaks of settled keys only and is not
inductive: a key becomes settled when its newest message arrives, so that message
must already say what the phone believes. `Agrees` says so: the newest
message about a key is a press exactly when the key is in `keypress` or was
forgotten in a restart. `handle_event` must then tell every key it changes
(`ChangesOf`), which is where forgetting one of the four comparisons would show.

*The invariants of `TouchPad` and `PadServer`.* `NoJump`, `ClickOnLift` and
`RightClickIsTwo` need what the handler's variables remember of the fingers:
`Tracked` (with the pointer count at one, the histories are those of the only
finger that is down), `Counted` (`lastPointerCount` against the fingers of the
gesture, and what is left of it between gestures) and `TapPending` (a tap is pending
exactly while fingers are down, unless a cancelled gesture left one). A finger
that goes up leaves the order of the others (`RemoveAtOf`, `RemoveKeepsInjective`).
`SettledButtonsUp` needs `NewestReleases`: clicks are a press and a release in
one call, so the newest message about a button is never a press.

*The invariant of `TypedText`.* `PlainPrinted` speaks of an empty link and follows from what is
true of a full one. `Told`: while nothing was lost or overtaken, what was printed, followed by what
the messages under way will print, is what the user meant; only the first message may arrive next
then (`UnderTakeFirst`). `SettledKeysUp` needs `NewestReleases`, as the touch pad's buttons do: what
an edit sends is made of presses each followed by the release of the same key (`PairedJoin`), so
the newest message about a key is never a press. What an
edit sends is a concatenation of as many pieces as it has characters, so the lemmas
about `FlattenSeq` are proved by induction on the length: `NumbersInduction`
states it with a set of numbers, from the least element that the library's
theorem of well-founded relations gives, and `ReplacedTwice` says that rendering the
characters as messages and those as printed characters is rendering them once.
`PlainPrinted` is stated with `FlattenSeq` for that reason.

*The invariant of `ClientActivities`.* `CipherUnlessRejected` needs three facts. A server is
asked only from a screen with no menu or pad below it (`Layered`), so a new
sender never comes under an old pad; a broadcast is queued only by a process that was answered, and
the end of the process takes both (`QueueKeyed`), so `OnReceive` opens a menu after an answer;
and a process with a menu or a pad that was not answered has no sender (`ControlsKeyed`).
What a crash leaves is a beginning of the stack (`CrashOf`), which keeps all of it.
`SilentExplained` needs in addition that a first process which has no sender, and
which no socket failed, never asked any server (`Unasked`): so no menu was started. The bound of the stack in `TypeOK` needs a place
kept for every broadcast still queued. The refinement rests on `QueueKeyed`.

*The invariant of `OscPort`.* `ReadAsMeant` speaks of the datagram received last, so it
needs what is true of all that may arrive: `WellSent` says that a datagram's bytes are
those of the message its sender had in mind, that this message is one of the four kinds
the programs send, and that it is on its way to who listens for it. `CodeHoldsWindow`
establishes it for a phone's handshake, whose key and receiver come out of a code;
`NullsAreAbsent` for a control message with nulls in either place. What becomes of such a
datagram does not depend on the rest of the buffer: `Holds` says that given bytes are
at a position, `HoldsParts` splits them as the reader walks, `ReadsString` finds the
end of a string in its own padding, `MovesOverPadding` keeps the position a multiple of
four, and `ReadsKey` computes both readers' integers for a key below 127 (from 128 on the
server's is wrong, see 11). No message has more than five arguments: `UpToFive`
is the induction over them. `MeantOf` and `FitsBuffer` add up the lengths, which is
where the assumption on the texts is needed.

Every one of these invariants was checked by TLC on the bounds above before it
was proved.

*Only model-checked:* the liveness properties `WindowCloses`, `FeedbackHides`,
`PairingReported`, `ExitUnlessKilledInLock` and `AnsweredLeaves`: fairness and `ENABLED`
are out of the prover's reach. What a conversion does with messages of more than five
arguments would be an induction over data; no such message is ever sent.

## 6. Not modelled

Most of the repository's code is vendored: Crypto++ and its Visual Studio copy, the QR
encoder and the barcode scanner's integration are far more than nine tenths of its
lines, and say nothing of what Reroot does. Of Reroot's own:
cryptography (`Cipher`, `Crypto`): whether a message decrypts is
arithmetic. OSC bundles, floats, arrays and times: never sent. A code that does not
parse ends the activity with an exception (14 above): not a state of `ClientActivities`.
QR rendering and the barcode scanner:
vendored or pure I/O. `Context`, `Multitouch.cpp`, `RerootService`,
`generic_controller`, `PresentationMode`, `FakeLoadingActivity`: not built, not
registered or not reachable. The Linux
branches of `Mouse` and `Keyboard`: compiled out. Duplicated datagrams on `Link` (the pairing, `OscPort` and `ClientConnector` models have them).

## 7. Plan

1. Done: `PairingWindow`, `Pairing`, `PairingProperties`, `PairingProofs`,
   `InputServer`, `InputProofs`, `Link`, `DualStick`, `TouchPad`, `PadServer`,
   `TypedText`.
2. Done: `OscCodec`, `OscPort`, `ClientConnector`, `ClientSession`, `ClientActivities`, `ClientProofs`.
3. Done: `LinkProofs`, `StickProofs`, `PadProofs`, `TextProofs`, and
   `SilentExplained` and the types of the client.
4. Done: `OscProofs`. With it no safety property of a passing run is without a theorem.
