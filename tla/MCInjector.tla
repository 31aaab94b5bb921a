----------------------------- MODULE MCInjector -----------------------------
(***************************************************************************)
(* A small instance of Injector: every packet over a tiny sequence space,  *)
(* so that coincidences and wrap-around happen in most behaviours.         *)
(***************************************************************************)
EXTENDS Injector

CONSTANTS fake, data, none, noPacket, r

MCPayloads    == {fake, data}
MCRemotePorts == {r}

=============================================================================
