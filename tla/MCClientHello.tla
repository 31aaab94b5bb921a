---------------------------- MODULE MCClientHello ----------------------------
(***************************************************************************)
(* The instance of ClientHello: all lengths the padding has room for.      *)
(***************************************************************************)
EXTENDS ClientHello

MCSniLengths == 0 .. 219

=============================================================================
