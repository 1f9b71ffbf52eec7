--------------------------- MODULE MCSourceIngest ---------------------------
(* A module and a class nested under it, on two sites.                     *)
EXTENDS SourceIngest

CONSTANTS Module, Class, Source1, Site1, Site2

Nesting == [n \in {Module, Class} |-> IF n = Class THEN Module ELSE NoName]
Inventories == {{Module}, {Module, Class}}
First == {{Source1}, Sources}
Sites == [s \in Sources |-> IF s = Source1 THEN Site1 ELSE Site2]
=============================================================================
