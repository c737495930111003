------------------------------ MODULE OscPort ------------------------------
(***************************************************************************)
(* The receive loops of the server (OSCPort::run) and of the phone         *)
(* (OSCPortIn.run) over the bytes of OscCodec.  Each loop has one buffer,  *)
(* which it never clears: what a datagram does not overwrite is left from  *)
(* the ones before it.  Datagrams arrive in any order, any number of times *)
(* or never.                                                               *)
(***************************************************************************)
EXTENDS OscCodec, FiniteSets

CONSTANTS Addresses,   \* addresses servers have, four bytes each
          Randoms,     \* what qrand() returns
          Texts,       \* hexadecimal strings: keys, ciphers and signatures
          BufferSize,  \* 1536 in the code
          MaxSent      \* bound: different datagrams sent

ASSUME BoundsAssumption == BufferSize \in Nat /\ MaxSent \in Nat

ASSUME AddressesAssumption == Addresses \subseteq [1..4 -> 0..255]

ASSUME RandomsAssumption == Randoms \subseteq Nat

\* The longest message fits the buffer: four texts, the address and the tags
\* in 16 bytes, the key in 4. The texts of the code have up to 130 digits: of a
\* key of 512 bits the phone writes the byte of its sign too.
ASSUME TextsAssumption ==
  \A t \in Texts : t \in Seq(1..127) /\ 4 * (Len(t) + 4) + 20 <= BufferSize
ASSUME BufferAssumption == BufferSize >= 20

VARIABLES
  net,           \* every datagram sent
  serverBuffer,  \* datagram, in OSCPort::run
  phoneBuffer,   \* buffer, in OSCPortIn.run
  last           \* the datagram received last, with what became of it

vars == <<net, serverBuffer, phoneBuffer, last>>

\* The addresses of the messages, by length (a multiple of four, and one more).
Control == <<47, 99, 111, 110>>
HandshakeClient == <<47, 104, 115, 47, 99>>
HandshakeServer == <<47, 104, 115, 47, 115>>

Message(address, args) == [address |-> address, args |-> args]

Keys == {KeyOf(r) : r \in Randoms} \ {0}
Windows == Addresses \X Keys

Phone == <<>>  \* where a server answers to

Empty == [i \in 0..(BufferSize - 1) |-> 0]
Nothing == [outcome |-> "none"]

Init == /\ net = {}
        /\ serverBuffer = Empty /\ phoneBuffer = Empty
        /\ last = Nothing
-----------------------------------------------------------------------------
\* meant is the message the sender has in mind, to the host it is sent to and
\* window the window it is for.
Send(bytes, meant, to, window) ==
  /\ Cardinality(net) < MaxSent
  /\ net' = net \cup {[bytes |-> bytes, meant |-> meant, to |-> to, window |-> window]}
  /\ UNCHANGED <<serverBuffer, phoneBuffer, last>>

\* ConnectToServer, with the code of a window that the user typed or scanned.
SendHandshakeClient(mod, exp, window) ==
  LET code == ConnectionCode(window[1], window[2])
      keys == <<String(mod), String(exp), String(mod), String(exp)>>
  IN  Send(JavaBytes(Message(HandshakeClient, Append(keys, Integer(SecretKey(code))))),
           Message(HandshakeClient, Append(keys, Integer(window[2]))),
           ServerAddress(code), window)

\* SendControlMessage sends the two strings that Encrypt returns.
SendControl(args, address) ==
  LET m == Message(Control, args)
  IN  Send(JavaBytes(m), Message(Control, Present(args)), address, <<address>>)

\* Without the server's keys both strings are null; with them, the signature and
\* the encryption fail each on its own.  A null is not "", and is sent.
ControlArguments ==
  LET StringOrNull == {String(t) : t \in Texts} \cup {Null}
  IN  {<<c, s>> : c, s \in StringOrNull}

\* SendHandshake, to a phone.
SendHandshakeServer(mod, exp) ==
  LET m == Message(HandshakeServer, <<String(mod), String(exp), String(mod), String(exp)>>)
  IN  Send(QtBytes(m), m, Phone, <<>>)

\* The datagram overwrites the beginning of the buffer.
ReadDatagram(buffer, bytes) ==
  [i \in DOMAIN buffer |-> IF i < Len(bytes) THEN bytes[i + 1] ELSE buffer[i]]

\* What the listeners do with a message, by the arguments they index.
ServerDispatch(m) ==
  CASE m.address = Control ->
         IF Len(m.args) = 2 THEN "decrypt" ELSE "ignored"
    [] m.address = HandshakeClient ->
         IF Len(m.args) < 5 THEN "out of range" ELSE "checked"
    [] OTHER -> "no listener"

PhoneDispatch(m) ==
  IF m.address # HandshakeServer THEN "no listener"
  ELSE IF Len(m.args) = 4 THEN "authenticated" ELSE "ignored"

Received(d, got, outcome) == [datagram |-> d, got |-> got, outcome |-> outcome]

\* OSCPort::run, from readDatagram to dispatchPacket.
ServerRun(d) ==
  /\ d.to # Phone
  /\ serverBuffer' = ReadDatagram(serverBuffer, d.bytes)
  /\ LET m == QtConvert(serverBuffer') IN last' = Received(d, m, ServerDispatch(m))
  /\ UNCHANGED <<net, phoneBuffer>>

\* OSCPortIn.run
PhoneRun(d) ==
  /\ d.to = Phone
  /\ phoneBuffer' = ReadDatagram(phoneBuffer, d.bytes)
  /\ LET m == JavaConvert(phoneBuffer') IN last' = Received(d, m, PhoneDispatch(m))
  /\ UNCHANGED <<net, serverBuffer>>

Next == \/ \E mod, exp \in Texts, w \in Windows : SendHandshakeClient(mod, exp, w)
        \/ \E args \in ControlArguments, a \in Addresses : SendControl(args, a)
        \/ \E mod, exp \in Texts : SendHandshakeServer(mod, exp)
        \/ \E d \in net : ServerRun(d) \/ PhoneRun(d)

Spec == Init /\ [][Next]_vars
-----------------------------------------------------------------------------
(* A message is read as it was meant: the same address, the arguments that *)
(* are there, and the window's key, whatever shorter or longer datagram    *)
(* the buffer still holds the end of, and whatever signed chars do to the  *)
(* integers.                                                               *)
ReadAsMeant == last # Nothing => last.got = last.datagram.meant

(* A code brings the phone to the server that shows it.                    *)
CodeFindsServer == \A d \in net : d.to # Phone => d.to = d.window[1]

(* No listener indexes an argument that is not there, and what it ignores  *)
(* are the control messages of which Encrypt left a string null, without   *)
(* the server's keys or with them, and no other.                           *)
ArgumentsAreThere ==
  last # Nothing =>
    /\ last.outcome \notin {"out of range", "no listener"}
    /\ last.outcome = "ignored" <=> /\ last.datagram.meant.address = Control
                                    /\ Len(last.datagram.meant.args) < 2
=============================================================================
