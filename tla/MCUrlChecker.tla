---------------------------- MODULE MCUrlChecker ----------------------------
(* Two URLs, one connection at a time: every request of one delays the     *)
(* other.  Hosts are interchangeable, but liveness forbids symmetry.       *)
EXTENDS UrlChecker
=============================================================================
