--------------------------- MODULE PairingWindow ---------------------------
(***************************************************************************)
(* What pairing promises, whatever the threads do: a device joins only     *)
(* while a pairing window is open and only if it has presented the code    *)
(* that this very window shows; devices leave only once the server has     *)
(* stopped.  Pairing implements this module (PairingProofs).               *)
(***************************************************************************)
EXTENDS Naturals

CONSTANTS Devices,   \* phones, named by their address
          Codes,     \* the codes a window can show
          Offers     \* the codes a phone can send

VARIABLES window,    \* the code on display, 0 when no window is open
          offered,   \* <<device, code>> pairs that were sent to the server
          admitted,  \* the paired devices
          stopped    \* the server takes no more handshakes

vars == <<window, offered, admitted, stopped>>

Init == /\ window = 0
        /\ offered = {}
        /\ admitted = {}
        /\ stopped = FALSE

Offer(d, k) == /\ offered' = offered \cup {<<d, k>>}
               /\ UNCHANGED <<window, admitted, stopped>>

Open(k) == /\ ~stopped
           /\ window' = k
           /\ UNCHANGED <<offered, admitted, stopped>>

Shut == /\ ~stopped
        /\ window' = 0
        /\ UNCHANGED <<offered, admitted, stopped>>

Admit(d) == /\ ~stopped
            /\ window # 0
            /\ <<d, window>> \in offered
            /\ admitted' = admitted \cup {d}
            /\ UNCHANGED <<window, offered, stopped>>

\* Stopping, and what happens after it, can only take devices away.
Leave == /\ admitted' \subseteq admitted
         /\ stopped'
         /\ UNCHANGED <<window, offered>>

Next == \/ \E d \in Devices, k \in Offers : Offer(d, k)
        \/ \E k \in Codes : Open(k)
        \/ Shut
        \/ \E d \in Devices : Admit(d)
        \/ Leave

Spec == Init /\ [][Next]_vars
=============================================================================
