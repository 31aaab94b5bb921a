------------------------------ MODULE MCBypass ------------------------------
(***************************************************************************)
(* The instance of Bypass: two clients whose sockets get the same port.    *)
(***************************************************************************)
EXTENDS Bypass

CONSTANTS h1, h2, none, noPacket

MCPayloads    == {"fake", "real"} \X Handlers
MCRemotePorts == {443}

\* Next to the wrap-around, so that the first client's fake straddles it.
MCIsn == [h \in Handlers |-> IF h = h1 THEN 7 ELSE 3]

=============================================================================
