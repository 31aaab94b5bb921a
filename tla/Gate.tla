-------------------------------- MODULE Gate --------------------------------
(***************************************************************************)
(* What the bypass promises of every client, without saying how: its bytes *)
(* reach the network only after a fake ClientHello was sent on the same    *)
(* connection, one and no more, and the far side answered; otherwise the   *)
(* client is refused.                                                      *)
(* Bypass.tla and PyBypass.tla implement this.                             *)
(***************************************************************************)
EXTENDS Naturals

CONSTANT Clients

VARIABLES
  phase,   \* "idle", "dialing", "open" or "closed"
  fakes,   \* how many fakes were sent for each client
  acked    \* the clients whose fake was answered

vars == <<phase, fakes, acked>>

Init ==
  /\ phase = [c \in Clients |-> "idle"]
  /\ fakes = [c \in Clients |-> 0]
  /\ acked = {}

Become(c, p) == phase' = [phase EXCEPT ![c] = p]

Dial(c) == phase[c] = "idle" /\ Become(c, "dialing") /\ UNCHANGED <<fakes, acked>>

\* A fake is sent for a client that is still being dialled, and only one.
Spoof(c) ==
  /\ phase[c] = "dialing" /\ fakes[c] = 0
  /\ fakes' = [fakes EXCEPT ![c] = @ + 1]
  /\ UNCHANGED <<phase, acked>>

Confirm(c) ==
  /\ phase[c] = "dialing" /\ fakes[c] > 0
  /\ acked' = acked \cup {c}
  /\ UNCHANGED <<phase, fakes>>

Open(c) ==
  /\ phase[c] = "dialing" /\ c \in acked
  /\ Become(c, "open")
  /\ UNCHANGED <<fakes, acked>>

\* Fail closed: a refused client was never connected through.
Refuse(c) ==
  /\ phase[c] \in {"idle", "dialing"}
  /\ Become(c, "closed")
  /\ UNCHANGED <<fakes, acked>>

Next ==
  \E c \in Clients : Dial(c) \/ Spoof(c) \/ Confirm(c) \/ Open(c) \/ Refuse(c)

Spec == Init /\ [][Next]_vars

=============================================================================
