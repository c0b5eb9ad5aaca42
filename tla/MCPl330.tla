------------------------------ MODULE MCPl330 ------------------------------
(***************************************************************************)
(* Small instances of Pl330: programs of the kind drivers write.           *)
(***************************************************************************)
EXTENDS Pl330

Mov(r, v) == [op |-> "mov", r |-> r, v |-> v]
Op(o) == [op |-> o, bs |-> "any"]
Wfp(p, bs) == [op |-> "wfp", p |-> p, bs |-> bs]
Loop(r, v) == [op |-> "lp", r |-> r, v |-> v]
LoopEnd(r, back) == [op |-> "lpend", r |-> r, back |-> back, nf |-> TRUE, bs |-> "any"]
Sev(e) == [op |-> "sev", e |-> e]

\* Loads of n bursts of len bytes, stored as m bursts of size d.
Control(len, n, d, m, dinc) ==
  [slen |-> len, sn |-> n, sinc |-> TRUE, dlen |-> d, dn |-> m, dinc |-> dinc]

Setup(src, dst, cc) == <<Mov("src", src), Mov("dst", dst), Mov("control", cc)>>

\* Memory to memory, twice two bursts of two bytes.
Copy == Setup(10, 30, Control(2, 2, 1, 4, TRUE)) \o
        <<Loop("lc0", 1), Op("ld"), Op("nop"), Op("st"), LoopEnd("lc0", 3), Sev("e0"), Op("end")>>
CopyWant == [k \in 1..8 |-> [a |-> 29 + k, v |-> 9 + k]]

\* Memory to a peripheral, a burst of two bytes each time it is ready; the
\* loads and stores for single requests are skipped.
Play == Setup(50, 90, Control(2, 1, 2, 1, FALSE)) \o
        <<Loop("lc1", 1), Wfp("i2s", "burst"), [op |-> "ld", bs |-> "single"], Op("ld"),
          [op |-> "st", bs |-> "burst"], [op |-> "st", bs |-> "single"], LoopEnd("lc1", 5), Sev("e1"), Op("end")>>
PlayWant == [k \in 1..4 |-> [a |-> 90 + ((k - 1) % 2), v |-> 49 + k]]

\* Four zero bytes, after moving the destination.
Clear == Setup(0, 70, Control(1, 1, 1, 4, TRUE)) \o
         <<[op |-> "add", r |-> "dst", v |-> 4], Op("stz"), Sev("e0"), Op("end")>>
ClearWant == [k \in 1..4 |-> [a |-> 73 + k, v |-> Zero]]

\* Loads before it waits, so that its bytes stay in the ring.
Early == Setup(50, 90, Control(2, 1, 2, 1, FALSE)) \o
         <<Op("ld"), Wfp("i2s", "burst"), Op("st"), Op("end")>>
EarlyWant == [k \in 1..2 |-> [a |-> 89 + k, v |-> 49 + k]]

\* An illegal instruction, and a program that kills itself.
Wrong == <<Op("nop"), Op("bad")>>
Suicide == Setup(10, 30, Control(1, 1, 1, 1, TRUE)) \o <<Op("ld"), Op("kill")>>

ProgramsOf == [copy |-> Copy, play |-> Play, clear |-> Clear, early |-> Early,
               wrong |-> Wrong, suicide |-> Suicide]
WantOf == [copy |-> CopyWant, play |-> PlayWant, clear |-> ClearWant, early |-> EarlyWant,
           wrong |-> <<>>, suicide |-> <<>>]
RegsOf == [p \in {"i2s"} |-> 90]

Go(S) == {[ins |-> "go", c |-> c, prog |-> p] : c \in Chan, p \in S}
Kill(S) == {[ins |-> "kill", c |-> c] : c \in S}

DriverCommands == Go({"copy", "play", "clear"}) \cup {[ins |-> "sev", e |-> "e0"]}
MixedCommands == Go({"copy", "early", "wrong", "suicide"}) \cup Kill(Who)
                   \cup {[ins |-> "undef", c |-> c] : c \in Who} \cup {[ins |-> "bad", c |-> Manager]}

\* A guest that holds up one channel by another, kills it and starts it again.
HeldCommands == {[ins |-> "go", c |-> 0, prog |-> "early"],
                 [ins |-> "go", c |-> 1, prog |-> "copy"]} \cup Kill({1})

\* A small ring and a tidy guest; a ring that does not wrap and a guest that
\* kills; one that sends and resets anything; and one with five commands, since
\* it takes four to leave sequence numbers behind.
MCSetups == {
  [fifo |-> 5, commands |-> DriverCommands, events |-> Events,
   careful |-> TRUE, resets |-> FALSE, limit |-> 3],
  [fifo |-> 32, commands |-> MixedCommands, events |-> Events,
   careful |-> TRUE, resets |-> FALSE, limit |-> 3],
  [fifo |-> 32, commands |-> MixedCommands, events |-> Events,
   careful |-> FALSE, resets |-> TRUE, limit |-> 3],
  [fifo |-> 32, commands |-> HeldCommands, events |-> {},
   careful |-> TRUE, resets |-> FALSE, limit |-> 5]}
=============================================================================
