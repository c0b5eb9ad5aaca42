------------------------------ MODULE AioSpec ------------------------------
(***************************************************************************)
(* What the users of bdrv_aio_readv and its relatives may rely on.  Every  *)
(* request is executed at most once and called back at most once, after    *)
(* its I/O; a request is cancelled either before its I/O has begun or      *)
(* after it has ended, so that once the cancel has returned nobody touches *)
(* the caller's buffers.                                                   *)
(***************************************************************************)
CONSTANT Blocks     \* what identifies a request while it lives

VARIABLE state      \* where each request stands

Moves(b, from, to) == state[b] = from /\ state' = [state EXCEPT ![b] = to]

Submit(b)    == Moves(b, "free", "issued")
Start(b)     == Moves(b, "issued", "executing")
End(b)       == Moves(b, "executing", "executed")
CallBack(b)  == Moves(b, "executed", "calling")
Return(b)    == Moves(b, "calling", "free")
Cancel(b)    == Moves(b, "issued", "free") \/ Moves(b, "executed", "free")

Init == state = [b \in Blocks |-> "free"]

Next == \E b \in Blocks : \/ Submit(b) \/ Start(b) \/ End(b) \/ CallBack(b)
                          \/ Return(b) \/ Cancel(b)

Spec == Init /\ [][Next]_state
=============================================================================
