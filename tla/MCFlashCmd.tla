----------------------------- MODULE MCFlashCmd -----------------------------
(***************************************************************************)
(* Two banks: two sectors of one and two cells and, after a gap of one     *)
(* address, one sector of one cell.  The monitor is the first sector.      *)
(***************************************************************************)
EXTENDS FlashCmd, TLC

MCNSect == <<2, 1>>
MCStart == (<<1, 0>> :> 0) @@ (<<1, 1>> :> 1) @@ (<<2, 0>> :> 4)
MCEnd == (<<1, 0>> :> 0) @@ (<<1, 1>> :> 2) @@ (<<2, 0>> :> 4)

(* A cell has one bit: an erased cell has it set. *)
MCFits == {<<1, 1>>, <<1, 0>>, <<0, 0>>}

MCBootProtect == {<<1, 0>>}

MCRanges == {<<0, 2>>, <<1, 2>>, <<0, 4>>, <<2, 4>>, <<3, 4>>, <<2, 6>>, <<1, 0>>}
MCSources == {[a \in Addr |-> 0], [a \in Addr |-> a % 2]}
=============================================================================
