---------------------------- MODULE ClientHello ----------------------------
(***************************************************************************)
(* build_client_hello of src/src/injector.rs, byte for byte where a byte is *)
(* a length, and somebody on the path who reads what it built: a TLS       *)
(* parser, as the DPI firewall and the server's stack have one.  Bytes no  *)
(* length depends on (random, session id, host name, key share) are zero.  *)
(***************************************************************************)
EXTENDS Integers, Sequences

CONSTANT SniLengths   \* the lengths of fake_sni

ASSUME ClientHelloAssumption == SniLengths \subseteq Nat

-----------------------------------------------------------------------------
(* STATIC1, STATIC3 and STATIC4: bytes 0..10, 76..119 and 133..267 of what *)
(* TLS_CH_TEMPLATE_HEX decodes to.                                         *)

Static1 == <<22, 3, 1, 2, 0, 1, 0, 1, 252, 3, 3>>

Static3 ==
  <<0, 36, 19, 2, 19, 3, 19, 1, 192, 44, 192, 48, 192, 43, 192, 47, 204,
    169, 204, 168, 192, 36, 192, 40, 192, 35, 192, 39, 0, 159, 0, 158, 0,
    107, 0, 103, 0, 255, 1, 0, 1, 143, 0, 0>>

Static4 ==
  <<0, 11, 0, 4, 3, 0, 1, 2, 0, 10, 0, 22, 0, 20, 0, 29, 0, 23, 0, 30, 0,
    25, 0, 24, 1, 0, 1, 1, 1, 2, 1, 3, 1, 4, 0, 35, 0, 0, 0, 16, 0, 14, 0,
    12, 2, 104, 50, 8, 104, 116, 116, 112, 47, 49, 46, 49, 0, 22, 0, 0, 0,
    23, 0, 0, 0, 0, 13, 0, 42, 0, 40, 4, 3, 5, 3, 6, 3, 8, 7, 8, 8, 8, 9,
    8, 10, 8, 11, 8, 4, 8, 5, 8, 6, 4, 1, 5, 1, 6, 1, 3, 3, 3, 1, 3, 2, 4,
    2, 5, 2, 6, 2, 0, 43, 0, 5, 4, 3, 4, 3, 3, 0, 45, 0, 2, 1, 1, 0, 51,
    0, 38, 0, 36, 0, 29, 0>>

Zeros(n) == [i \in 1 .. n |-> 0]

\* u16::to_be_bytes of a usize cast to u16.
U16(n) == <<(n \div 256) % 256, n % 256>>

ServerNameExtMutant(n) == U16(n + 5) \o U16(n + 5) \o <<0>> \o U16(n) \o Zeros(n)
ServerNameExt(n) == U16(n + 5) \o U16(n + 3) \o <<0>> \o U16(n) \o Zeros(n)

PaddingLengthMutant(n) == IF n < 220 THEN 220 - n ELSE 0

\* 219usize.saturating_sub
PaddingLength(n) == IF n < 219 THEN 219 - n ELSE 0

PaddingExt(n) == U16(PaddingLength(n)) \o Zeros(PaddingLength(n))

build_client_hello(n) ==
  Static1 \o Zeros(32) \o <<32>> \o Zeros(32) \o Static3 \o ServerNameExt(n)
    \o Static4 \o Zeros(32) \o <<0, 21>> \o PaddingExt(n)

-----------------------------------------------------------------------------
(* External: the reader.  It walks record, handshake and extensions by the *)
(* lengths it finds and stops where one points outside what holds it.      *)

VARIABLES
  sni,     \* the length of this node's fake_sni
  hello,   \* what build_client_hello returned for it
  pos,     \* the reader's position in hello, from 0
  phase,   \* what it expects there; "bad" when the lengths disagree
  names    \* the lengths of the host names it has read

vars == <<sni, hello, pos, phase, names>>

Init ==
  /\ sni \in SniLengths
  /\ hello = build_client_hello(sni)
  /\ pos = 0 /\ phase = "record" /\ names = <<>>

Byte(i) == hello[i + 1]
Word(i) == 256 * Byte(i) + Byte(i + 1)
Rest    == Len(hello) - pos

\* Content type 22, a version, and a length that covers the rest.
ReadRecord ==
  /\ phase = "record"
  /\ IF Byte(0) = 22 /\ Word(3) = Rest - 5
       THEN phase' = "handshake" /\ pos' = 5
       ELSE phase' = "bad" /\ UNCHANGED pos
  /\ UNCHANGED <<sni, hello, names>>

\* Message type 1, a 24-bit length, version, random, session id, cipher suites
\* and compression methods, up to the length of the extensions.
ReadHandshake ==
  /\ phase = "handshake"
  /\ LET suites == 5 + 4 + 2 + 32 + 1 + Byte(43)
         methods == suites + 2 + Word(suites)
         extensions == methods + 1 + Byte(methods) IN
     IF /\ Byte(5) = 1 /\ 65536 * Byte(6) + Word(7) = Rest - 4
        /\ Word(extensions) = Len(hello) - extensions - 2
       THEN phase' = "extension" /\ pos' = extensions + 2
       ELSE phase' = "bad" /\ UNCHANGED pos
  /\ UNCHANGED <<sni, hello, names>>

\* The next extension: its type, its length and, for a server_name, the one
\* host name in its list.
ReadExtension ==
  /\ phase = "extension"
  /\ IF Rest = 0
       THEN phase' = "end" /\ UNCHANGED <<pos, names>>
       ELSE IF Rest < 4 \/ Word(pos + 2) > Rest - 4
         THEN phase' = "bad" /\ UNCHANGED <<pos, names>>
         ELSE /\ UNCHANGED phase
              /\ pos' = pos + 4 + Word(pos + 2)
              /\ names' =
                   IF /\ Word(pos) = 0 /\ Word(pos + 4) = Word(pos + 2) - 2
                      /\ Byte(pos + 6) = 0 /\ Word(pos + 7) = Word(pos + 4) - 3
                     THEN Append(names, Word(pos + 7)) ELSE names
  /\ UNCHANGED <<sni, hello>>

Next == ReadRecord \/ ReadHandshake \/ ReadExtension

Spec == Init /\ [][Next]_vars

-----------------------------------------------------------------------------

\* Whoever reads as far as the first extension finds the whitelisted name,
\* whole, and nothing else under that type: the fields that count the name
\* agree with each other and with the fixed lengths of the template.
NameIsRead ==
  /\ phase = "bad" => names = <<sni>>
  /\ phase = "extension" /\ pos > 120 => names = <<sni>>

\* injector.rs, on the assembly and in its assertion: 517 bytes, whatever the name,
\* as long as the padding has room for it.  Of the names of 220 bytes and more, for
\* which the subtraction saturates, this says nothing.
Always517Bytes == Len(hello) = 517

\* injector.rs, on build_client_hello: it builds a complete TLS ClientHello.
\* A complete one is one whose lengths agree to the end.
CompleteClientHello == phase # "bad"

=============================================================================
