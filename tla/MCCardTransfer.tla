--------------------------- MODULE MCCardTransfer ---------------------------
(***************************************************************************)
(* Instances of CardTransfer for TLC: a card of three dirty sectors of two *)
(* units in front of a dev channel of four units.                          *)
(***************************************************************************)
EXTENDS CardWatch

\* Writes in one block and in two, aligned and not; on a PS1 card (4 units)
\* blocks that end beyond it, on a PS2 card (6 units) blocks that end in the dev
\* channel, and on both blocks that begin in it
MCWrite ==
    {[from |-> 0, to |-> 4], [from |-> 1, to |-> 3], [from |-> 3, to |-> 6],
     [from |-> 4, to |-> 7], [from |-> 5, to |-> 9]}
=============================================================================
