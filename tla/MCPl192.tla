------------------------------ MODULE MCPl192 ------------------------------
(***************************************************************************)
(* Instances of Pl192 for TLC.                                             *)
(***************************************************************************)
EXTENDS Pl192

\* The reset values of pl192_reset.
ResetBoot ==
  {[k \in Vics |->
      [intenable |-> {}, intselect |-> {}, sw_priority_mask |-> Prio,
       daisy_priority |-> PrioLevels - 1,
       vect_priority |-> [i \in Src |-> PrioLevels - 1],
       vect_addr |-> [i \in Src |-> 0]]]}

\* Every register that concerns IRQs.
SingleRegs == Registers \ {"INTSELECT"}
=============================================================================
