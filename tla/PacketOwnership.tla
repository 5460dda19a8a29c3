-------------------------- MODULE PacketOwnership --------------------------
(***************************************************************************)
(* What the transmit path promises about packet ownership (spec section    *)
(* 5): at every moment a packet is held by exactly one of the caller, the  *)
(* queue, the radio or the pool; ownership moves only forward (caller to   *)
(* queue, radio or pool; queue to radio or pool); the radio and the pool   *)
(* are final, so a packet is sent or released exactly once.  One step may  *)
(* move several packets (a drain sends several at once).                   *)
(*                                                                         *)
(* The promise is stated for a radio that is up: once the radio is         *)
(* disabled (RadioInterface::disable, which is permanent) the              *)
(* specification no longer constrains ownership.  The FIFO draft breaks it *)
(* even with the radio up, when it drains a packet with an empty payload  *)
(* (see OwnershipRefined in TimeWindowRadio).                              *)
(***************************************************************************)
CONSTANTS Packets

VARIABLES
  owner,     \* packet -> who holds it
  returned,  \* packets handed back to the pool
  radioUp    \* the radio has not been disabled

vars == <<owner, returned, radioUp>>

Places == {"caller", "queue", "radio", "pool"}

\* The ownership transfers the spec allows.
Moves ==
  {<<"caller", "queue">>, <<"caller", "radio">>, <<"caller", "pool">>,
   <<"queue", "radio">>, <<"queue", "pool">>}

Init ==
  /\ owner = [p \in Packets |-> "caller"]
  /\ returned = {}
  /\ radioUp = TRUE

\* Any packets change hands along allowed moves; those that reach the pool
\* are recorded as returned.
Transfer ==
  /\ radioUp /\ radioUp'
  /\ owner' \in [Packets -> Places]
  /\ \A p \in Packets : owner'[p] = owner[p] \/ <<owner[p], owner'[p]>> \in Moves
  /\ returned' = {p \in Packets : owner'[p] = "pool"}

\* The radio is disabled; no packet changes hands in that step.
Disable ==
  /\ radioUp /\ ~radioUp'
  /\ UNCHANGED <<owner, returned>>

\* With the radio down, nothing is promised.
Unconstrained ==
  /\ ~radioUp /\ ~radioUp'
  /\ owner' \in [Packets -> Places]
  /\ returned' \in SUBSET Packets

Spec == Init /\ [][Transfer \/ Disable \/ Unconstrained]_vars

=============================================================================
