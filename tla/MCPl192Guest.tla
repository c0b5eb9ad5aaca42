---------------------------- MODULE MCPl192Guest ----------------------------
(***************************************************************************)
(* Instances of Pl192Guest for TLC.                                        *)
(***************************************************************************)
EXTENDS Pl192Guest

\* Every input enabled as IRQ with a vector of its own; the inputs of
\* controller 0 at the least urgent level, the others at the most urgent one,
\* and every choice of the level of each daisy input: an input is more urgent
\* than its controller's daisy input, less urgent, or equally so.  (The last
\* controller has none.)
GuestBoot ==
  {[k \in Vics |->
      [intenable |-> Src, intselect |-> {}, sw_priority_mask |-> Prio,
       daisy_priority |-> d[k],
       vect_priority |-> [i \in Src |-> IF k = 0 THEN PrioLevels - 1 ELSE 0],
       vect_addr |-> [i \in Src |-> 1 + k * NSrc + i]]]
    : d \in {f \in [Vics -> Prio] : f[NVic - 1] = PrioLevels - 1}}

GuestAddrs == 0 .. NVic * NSrc
=============================================================================
