----------------------------- MODULE Gate_proofs -----------------------------
(***************************************************************************)
(* What the gate gives every client, for any number of them: whatever      *)
(* implements Gate!Spec, as Bypass and PyBypass do, inherits it.            *)
(***************************************************************************)
EXTENDS Gate, TLAPS

\* A client whose bytes are let through had its fake sent, once, and answered, in
\* that order; one that was never dialled had neither.
BehindItsFake ==
  \A c \in Clients : /\ phase[c] = "open" => c \in acked
                     /\ c \in acked => fakes[c] > 0
                     /\ fakes[c] > 0 => phase[c] # "idle"
                     /\ fakes[c] <= 1

IInv ==
  /\ phase \in [Clients -> {"idle", "dialing", "open", "closed"}]
  /\ fakes \in [Clients -> Nat]
  /\ BehindItsFake

\* Every client let through is behind its fake.
THEOREM GateHolds == Spec => []BehindItsFake
<1>1. Init => IInv
  BY DEF Init, IInv, BehindItsFake
<1>2. IInv /\ [Next]_vars => IInv'
  <2>. SUFFICES ASSUME IInv, [Next]_vars PROVE IInv'
    OBVIOUS
  <2>1. CASE UNCHANGED vars
    BY <2>1 DEF vars, IInv, BehindItsFake
  <2>2. ASSUME NEW c \in Clients, Dial(c) PROVE IInv'
    BY <2>2 DEF Dial, Become, IInv, BehindItsFake
  <2>3. ASSUME NEW c \in Clients, Spoof(c) PROVE IInv'
    <3>1. fakes[c] = 0 /\ fakes'[c] = 1 /\ \A d \in Clients \ {c} : fakes'[d] = fakes[d]
      BY <2>3 DEF Spoof, IInv
    <3>2. fakes' \in [Clients -> Nat]
      BY <2>3, <3>1 DEF Spoof, IInv
    <3>3. QED
      BY <2>3, <3>1, <3>2 DEF Spoof, IInv, BehindItsFake
  <2>4. ASSUME NEW c \in Clients, Confirm(c) PROVE IInv'
    BY <2>4 DEF Confirm, IInv, BehindItsFake
  <2>5. ASSUME NEW c \in Clients, Open(c) PROVE IInv'
    BY <2>5 DEF Open, Become, IInv, BehindItsFake
  <2>6. ASSUME NEW c \in Clients, Refuse(c) PROVE IInv'
    BY <2>6 DEF Refuse, Become, IInv, BehindItsFake
  <2>. QED
    BY <2>1, <2>2, <2>3, <2>4, <2>5, <2>6 DEF Next
<1>3. IInv => BehindItsFake
  BY DEF IInv
<1>. QED
  BY <1>1, <1>2, <1>3, PTL DEF Spec

=============================================================================
