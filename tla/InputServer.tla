---------------------------- MODULE InputServer ----------------------------
(***************************************************************************)
(* The server's input injection: ControlListener turns an instruction into *)
(* calls of the Mouse, Keyboard and Presenter singletons on the receive    *)
(* thread; the singletons' destructors, run by atexit after that thread is *)
(* dead, release what they pressed.  This is the Windows build: OS.h       *)
(* leaves OS_LINUX undefined, so elsewhere the calls have no effect.       *)
(***************************************************************************)
EXTENDS Naturals

CONSTANTS Controls,  \* values of the Control field
          Metas      \* values of the Data1 field

\* DeviceEnum and ActionEnum, and one more value of each that is neither.
DeviceMouse == 0
DeviceKeyboard == 1
DeviceGamepad == 2
DevicePresenter == 3
Down == 0
Up == 1
Move == 2

Instructions == [device : 0..4, control : Controls, action : 0..3,
                 meta : Metas]

ASSUME ControlsAreNumbers == Controls \subseteq Nat

\* WindowsDIConvert: tab, enter, space, apostrophe, "*" to ";", "=", "@",
\* brackets and backslash, "_" to "z".  Scan code 0 is no key.
Convertible == {9, 10, 32, 39, 61, 64} \cup 42..59 \cup 91..93 \cup 95..122
NoKey == 0

\* Mutant: an unknown character is passed on as its own scan code.
WindowsDIConvertRaw(key) == key

WindowsDIConvert(key) == IF key \in Convertible THEN key ELSE NoKey

Buttons == 0..4

VARIABLES server,     \* "running", then the steps of the exit
          keys,       \* scan codes that Windows holds down
          buttons,    \* mouse buttons that Windows holds down
          mouse,      \* Mouse::sInstance # NULL
          keyboard,   \* Keyboard::sInstance # NULL
          presenter   \* "none", or the instance's mActive

serverVars == <<server, keys, buttons, mouse, keyboard, presenter>>

Init == /\ server = "running"
        /\ keys = {} /\ buttons = {}
        /\ mouse = FALSE /\ keyboard = FALSE /\ presenter = "none"
-----------------------------------------------------------------------------
(* acceptDecipheredMessage, one action per case of its switch *)
MouseDown(i) ==
  /\ i.device = DeviceMouse /\ i.action = Down
  /\ mouse' = TRUE
  /\ buttons' = buttons \cup ({i.control} \cap Buttons)
  /\ UNCHANGED <<server, keys, keyboard, presenter>>

MouseUp(i) ==
  /\ i.device = DeviceMouse /\ i.action = Up
  /\ mouse' = TRUE
  /\ buttons' = buttons \ {i.control}
  /\ UNCHANGED <<server, keys, keyboard, presenter>>

MouseMove(i) ==
  /\ i.device = DeviceMouse /\ i.action = Move
  /\ mouse' = TRUE
  /\ UNCHANGED <<server, keys, buttons, keyboard, presenter>>

\* Mutant: the key goes down before any Keyboard instance is there to free it.
KeyDownNoInstance(i) ==
  /\ i.device = DeviceKeyboard /\ i.action = Down
  /\ keys' = keys \cup ({WindowsDIConvert(i.control)} \ {NoKey})
  /\ UNCHANGED <<server, buttons, mouse, keyboard, presenter>>

KeyDown(i) ==
  /\ i.device = DeviceKeyboard /\ i.action = Down
  /\ keyboard' = TRUE
  /\ keys' = keys \cup ({WindowsDIConvert(i.control)} \ {NoKey})
  /\ UNCHANGED <<server, buttons, mouse, presenter>>

KeyUp(i) ==
  /\ i.device = DeviceKeyboard /\ i.action = Up
  /\ keyboard' = TRUE
  /\ keys' = keys \ {WindowsDIConvert(i.control)}
  /\ UNCHANGED <<server, buttons, mouse, presenter>>

\* The case has no break: it falls into default, which only logs.
Present(i) ==
  /\ i.device = DevicePresenter
  /\ presenter' = CASE i.action = Down -> "active"
                    [] i.action = Up -> "idle"
                    [] i.action = Move /\ presenter = "none" -> "idle"
                    [] OTHER -> presenter
  /\ UNCHANGED <<server, keys, buttons, mouse, keyboard>>

Ignore(i) ==
  /\ \/ i.device \in {DeviceMouse, DeviceKeyboard} /\ i.action > Move
     \/ i.device = DeviceKeyboard /\ i.action = Move
     \/ i.device = DeviceGamepad
     \/ i.device > DevicePresenter
  /\ UNCHANGED serverVars

Accept(i) == /\ server = "running"
             /\ \/ MouseDown(i) \/ MouseUp(i) \/ MouseMove(i)
                \/ KeyDown(i) \/ KeyUp(i)
                \/ Present(i)
                \/ Ignore(i)
-----------------------------------------------------------------------------
(* The exit: ~Connector kills the receive thread, then the atexit handlers *)
(* run, the last registered first.  Deleting NULL runs no destructor.      *)
Kill == /\ server = "running"
        /\ server' = "killed"
        /\ UNCHANGED <<keys, buttons, mouse, keyboard, presenter>>

\* Mutant: the loop starts one code too late.
DeinitKeysFrom33 == 33..126

\* Keyboard::Deinit: Up(i) for the printing codes (no modifier is ever down).
DeinitKeys == 32..126

KeyboardClear ==
  /\ server = "killed"
  /\ server' = "keyboardCleared"
  /\ keys' = IF keyboard THEN keys \ {WindowsDIConvert(k) : k \in DeinitKeys}
                         ELSE keys
  /\ keyboard' = FALSE
  /\ UNCHANGED <<buttons, mouse, presenter>>

\* Mouse::Deinit: Up(i) for the five buttons.
MouseClear ==
  /\ server = "keyboardCleared"
  /\ server' = "exited"
  /\ buttons' = IF mouse THEN buttons \ (0..4) ELSE buttons
  /\ mouse' = FALSE
  /\ UNCHANGED <<keys, keyboard, presenter>>

Exit == Kill \/ KeyboardClear \/ MouseClear

Next == (\E i \in Instructions : Accept(i)) \/ Exit

Spec == Init /\ [][Next]_serverVars
-----------------------------------------------------------------------------
(* The pressed inputs are scan codes and buttons Windows knows.             *)
TypeOK == /\ server \in {"running", "killed", "keyboardCleared", "exited"}
          /\ keys \subseteq Convertible
          /\ buttons \subseteq Buttons
          /\ mouse \in BOOLEAN /\ keyboard \in BOOLEAN
          /\ presenter \in {"none", "idle", "active"}

(* After exit no button and no printing key is held down, whatever was      *)
(* pressed and whenever the receive thread died.                            *)
ExitReleasesPrinting ==
  /\ server = "exited" => buttons = {}
  /\ server \in {"keyboardCleared", "exited"} => keys \subseteq {9, 10}
=============================================================================
