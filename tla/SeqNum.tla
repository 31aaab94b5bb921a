------------------------------- MODULE SeqNum -------------------------------
(***************************************************************************)
(* TCP sequence numbers as src/src/injector.rs computes with them: u32     *)
(* values, wrapping_add and wrapping_sub, and the "wrong sequence number"  *)
(* of the fake ClientHello.  SeqMod is 2^32 in the program and a small     *)
(* number in the checked instances; nothing here depends on its value.     *)
(***************************************************************************)
EXTENDS Integers

CONSTANT SeqMod   \* the size of the sequence space

ASSUME SeqModAssumption == SeqMod \in Nat \ {0, 1}

SeqNums == 0 .. SeqMod - 1

WrappingSubMutant(a, b) == a - b

\* u32::wrapping_add and u32::wrapping_sub on operands of the type.
WrappingAdd(a, b) == IF a + b < SeqMod THEN a + b ELSE a + b - SeqMod
WrappingSub(a, b) == IF b <= a THEN a - b ELSE a - b + SeqMod

\* The number that follows a SYN or a SYN-ACK: both consume one number.
NextSeq(s) == WrappingAdd(s, 1)

(***************************************************************************)
(* The "critical wrong sequence formula" of inject_fake_packet:            *)
(* syn_seq + 1 - fake_payload_len, in the order the code applies it.  The  *)
(* mutant forgets that the SYN itself consumed one number.                 *)
(***************************************************************************)
WrongSeqMutant(syn_seq, len) == WrappingSub(NextSeq(NextSeq(syn_seq)), len)
WrongSeq(syn_seq, len) == WrappingSub(NextSeq(syn_seq), len)

=============================================================================
