----------------------------- MODULE KeyHandover ------------------------------
(***************************************************************************)
(* What a pairing attempt promises (the contract in hub_pairing.h and      *)
(* pairing_engine.h): the device gets the key before the hub counts it as  *)
(* paired, and a failed attempt changes nothing on the hub.                *)
(***************************************************************************)
CONSTANT Devices

VARIABLES
    open,     \* a pairing attempt is running
    holders,  \* devices that have stored the system key
    paired    \* devices the hub has registered

Init == open = FALSE /\ holders = {} /\ paired = {}

Open == ~open /\ open' = TRUE /\ UNCHANGED <<holders, paired>>

Give(d) == open /\ holders' = holders \cup {d} /\ UNCHANGED <<open, paired>>

Take(d) == open /\ d \in holders /\ paired' = paired \cup {d} /\ open' = FALSE /\ UNCHANGED holders

Fail == open /\ open' = FALSE /\ UNCHANGED <<holders, paired>>

Next == Open \/ Fail \/ \E d \in Devices : Give(d) \/ Take(d)

vars == <<open, holders, paired>>

\* An attempt always comes to an end.
Spec == Init /\ [][Next]_vars /\ WF_vars(Fail \/ \E d \in Devices : Take(d))
=============================================================================
