---------------------------- MODULE MCLinkLadder ----------------------------
(* A small ladder: two attempts over two units, rechecks after one and two  *)
(* units, broken links every three, blocked ones after one, doubling.       *)
EXTENDS LinkLadder

MCRecheckIntervals == <<1, 2>>
=============================================================================
