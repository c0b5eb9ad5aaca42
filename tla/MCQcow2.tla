------------------------------- MODULE MCQcow2 -------------------------------
(***************************************************************************)
(* An instance of Qcow2: every range of sectors, an image that is empty or *)
(* has its first cluster mapped, and one source of trouble at a time.      *)
(***************************************************************************)
EXTENDS Qcow2

MCRanges == {rg \in Sectors \X (1..GC * CS) : rg[1] + rg[2] <= GC * CS}
MCLayouts == {{}, {0}}

Quiet == [writes |-> {1, 2}, cmds |-> {}, fails |-> {}, cancels |-> {}, crash |-> FALSE,
          whole |-> FALSE]

MCEnvs == {
  [Quiet EXCEPT !.writes = {1, 2, 3}],
  [Quiet EXCEPT !.cmds = {"savevm", "loadvm"}],
  [Quiet EXCEPT !.writes = {1, 2, 3}, !.cmds = {"savevm", "delvm"}, !.whole = TRUE],
  [Quiet EXCEPT !.fails = {"link"}, !.crash = TRUE],
  [Quiet EXCEPT !.fails = {"data", "copy", "link", "alloc", "l2", "l1"}, !.cancels = {"io"}],
  [Quiet EXCEPT !.writes = {1, 2, 3}, !.cancels = {"wait"}]}
==============================================================================
