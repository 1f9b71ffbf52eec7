----------------------------- MODULE MCSdmLinks -----------------------------
(* The listings of three columns, tables or entities on pages of one.      *)
EXTENDS SdmLinks
=============================================================================
