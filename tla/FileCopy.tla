------------------------------ MODULE FileCopy ------------------------------
(***************************************************************************)
(* What a serial file transfer promises: every file of the batch is stored *)
(* whole or not at all, the next one only after the one before; and over a *)
(* line without delays and noise the sender reports success only when all  *)
(* of them are stored.                                                     *)
(***************************************************************************)
EXTENDS Naturals, Sequences

CONSTANT Untouched \* the content of a target nothing was stored in

VARIABLES goods,   \* goods[f]: the content file f is to arrive with
          stored,  \* stored[f]: what the receiver's card holds of it
          told,    \* what the sender reported: "busy", "None" or an error
          steady   \* the line delays nothing and adds nothing

cvars == <<goods, stored, told, steady>>

Begin ==
    /\ stored = [f \in DOMAIN goods |-> Untouched]
    /\ told = "busy"

Deliver(f) ==
    /\ stored[f] = Untouched
    /\ \A g \in 1..(f - 1) : stored[g] = goods[g]
    /\ stored' = [stored EXCEPT ![f] = goods[f]]
    /\ UNCHANGED <<goods, told, steady>>

Report(answer) ==
    /\ told = "busy"
    /\ (answer = "None" /\ steady) => stored = goods
    /\ told' = answer
    /\ UNCHANGED <<goods, stored, steady>>

Copying ==
    \/ \E f \in DOMAIN goods : Deliver(f)
    \/ \E answer \in {"None", "Cancelled", "Disconnected", "Gave up", "Card"} :
           Report(answer)

Spec == Begin /\ [][Copying]_cvars
=============================================================================
