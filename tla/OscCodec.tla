------------------------------ MODULE OscCodec ------------------------------
(***************************************************************************)
(* The Open Sound Control bytes of a message, as the phone and the server  *)
(* write and read them, and the code a window shows.                       *)
(*                                                                         *)
(* A string is a sequence of bytes 1..127 (both programs send hexadecimal  *)
(* digits only), an integer is a number of 32 bits, and no other argument  *)
(* is ever sent; an absent argument is Null.  The readers work on the      *)
(* receive buffer, a function over 0..size-1, and are never told where the *)
(* datagram ends.                                                          *)
(***************************************************************************)
EXTENDS Integers, Sequences, SequencesExt, FiniteSetsExt

Comma == 44
TagOf == [string |-> 115, integer |-> 105, null |-> 0]

String(s) == [type |-> "string", value |-> s]
Integer(n) == [type |-> "integer", value |-> n]
Null == [type |-> "null", value |-> 0]

Present(args) ==
  FlattenSeq([i \in DOMAIN args |-> IF args[i].type = "null" THEN <<>> ELSE <<args[i]>>])

Zeros(n) == [i \in 1..n |-> 0]
-----------------------------------------------------------------------------
(* Writing *)

\* Mutant: a string that fills its last four bytes is not terminated.
PaddingIfNeeded(n) == Zeros((4 - (n % 4)) % 4)

\* Padding is 1 to 4 bytes, so a string always ends in a zero.
Padding(n) == Zeros(4 - (n % 4))

WriteString(s) == s \o Padding(Len(s))

WriteInteger(n) == <<(n \div 16777216) % 256, (n \div 65536) % 256,
                     (n \div 256) % 256, n % 256>>

WriteArgument(a) == CASE a.type = "string"  -> WriteString(a.value)
                      [] a.type = "integer" -> WriteInteger(a.value)
                      [] OTHER              -> <<>>

\* Mutant: a null argument has a tag too.
WriteTypesOfNulls(args) ==
  LET tags == [i \in DOMAIN args |-> TagOf.string]
  IN  tags \o Padding(1 + Len(tags))

\* The tags of the arguments that are there, and their padding; the comma is
\* before them, on a multiple of four.
WriteTypes(args) ==
  LET tags == [i \in DOMAIN Present(args) |-> TagOf[Present(args)[i].type]]
  IN  tags \o Padding(1 + Len(tags))

JavaBytes(m) ==
  WriteString(m.address) \o <<Comma>> \o WriteTypes(m.args)
    \o FlattenSeq([i \in DOMAIN m.args |-> WriteArgument(m.args[i])])

\* The server's writer stops after the comma when there is no argument.
QtBytes(m) == IF m.args = <<>> THEN WriteString(m.address) \o <<Comma>>
                               ELSE JavaBytes(m)
-----------------------------------------------------------------------------
(* Reading: b is the buffer, p a position in it *)

MoveToFourByteBoundary(p) == p + 4 - (p % 4)

LengthOfCurrentString(b, p) == Min({i \in DOMAIN b : i >= p /\ b[i] = 0}) - p

Slice(b, p, n) == [i \in 1..n |-> b[p + i - 1]]

\* What a signed char holds.
Signed(byte) == IF byte < 128 THEN byte ELSE byte - 256

\* A number of 32 bits, shifted left by 8.
ShiftLeft(v) == LET low == v % 16777216
                IN  (IF low >= 8388608 THEN low - 16777216 ELSE low) * 256

\* (v << 8) | byte, where a byte of 128 or more sets every bit above it.
QtShiftIn(v, byte) == IF byte < 128 THEN ShiftLeft(v) + byte ELSE Signed(byte)

QtReadInteger(bytes) ==
  QtShiftIn(QtShiftIn(QtShiftIn(Signed(bytes[1]), bytes[2]), bytes[3]), bytes[4])

JavaReadInteger(bytes) ==
  Signed(bytes[1]) * 16777216 + bytes[2] * 65536 + bytes[3] * 256 + bytes[4]

ReadInteger(bytes, reader) ==
  IF reader = "server" THEN QtReadInteger(bytes) ELSE JavaReadInteger(bytes)

\* The argument of a tag at p, and the position after it.
ReadArgument(b, p, tag, reader) ==
  IF tag = TagOf.integer
  THEN [arg |-> Integer(ReadInteger(Slice(b, p, 4), reader)), next |-> p + 4]
  ELSE LET n == LengthOfCurrentString(b, p)
       IN  [arg |-> String(Slice(b, p, n)), next |-> MoveToFourByteBoundary(p + n)]

\* The tags from p: none without a comma.
ReadTypes(b, p) ==
  IF b[p] # Comma THEN <<>> ELSE Slice(b, p + 1, LengthOfCurrentString(b, p + 1))

\* The arguments of the first i tags from p, and the position after them.
ReadArguments(b, p, types, reader) ==
  LET reads[i \in 0..Len(types)] ==
        IF i = 0
        THEN [args |-> <<>>, next |-> p]
        ELSE LET r == ReadArgument(b, reads[i - 1].next, types[i], reader)
             IN  [args |-> Append(reads[i - 1].args, r.arg), next |-> r.next]
  IN  reads[Len(types)].args

ConvertMessage(b, reader) ==
  LET n     == LengthOfCurrentString(b, 0)
      p     == MoveToFourByteBoundary(n)
      types == ReadTypes(b, p)
      q     == MoveToFourByteBoundary(p + 1 + Len(types))
  IN  [address |-> Slice(b, 0, n), args |-> ReadArguments(b, q, types, reader)]

QtConvert(b) == ConvertMessage(b, "server")
JavaConvert(b) == ConvertMessage(b, "phone")
-----------------------------------------------------------------------------
(* The code of a window: digits 0..15; an address is four bytes *)

\* Mutant: the range of the keys is that of a byte.
KeyOfByte(random) == random % 255

\* What ConnectNewDevice makes of a random number, and draws again when it is 0.
KeyOf(random) == random % 127

\* The two digits of a byte.
Hex(byte) == <<byte \div 16, byte % 16>>

\* Mutant: the address is not filled up to eight digits.
ConnectionCodeUnfilled(ip, key) ==
  (IF ip[1] < 16 THEN <<ip[1]>> ELSE Hex(ip[1]))
    \o Hex(ip[2]) \o Hex(ip[3]) \o Hex(ip[4]) \o Hex(key)

ConnectionCode(ip, key) ==
  Hex(ip[1]) \o Hex(ip[2]) \o Hex(ip[3]) \o Hex(ip[4]) \o Hex(key)

HexStringToInteger(s) ==
  LET value[i \in 0..Len(s)] == IF i = 0 THEN 0 ELSE value[i - 1] * 16 + s[i]
  IN  value[Len(s)]

HexStringToByteArray(s) ==
  LET even == IF Len(s) % 2 = 1 THEN <<0>> \o s ELSE s
  IN  [i \in 1..(Len(even) \div 2) |-> even[2*i - 1] * 16 + even[2*i]]

\* connectIP, and onActivityResult for a scanned code.
ServerAddress(code) == HexStringToByteArray(SubSeq(code, 1, 8))
SecretKey(code) == HexStringToInteger(SubSeq(code, 9, Len(code)))
=============================================================================
