---------------------------- MODULE MCDDXParser ----------------------------
(* The start tags of the documents TLC reads.                              *)
EXTENDS DDXParser

Whole(tag) == [tag |-> tag, type |-> "none", complete |-> TRUE, dap |-> TRUE]
Attribute(type) == [tag |-> "Attribute", type |-> type, complete |-> TRUE, dap |-> TRUE]

MCElements ==
    {Whole(tag) : tag \in {"Dataset", "Byte", "Int64", "Array", "Map", "Grid", "Structure",
                           "dimension", "value", "Alias", "blob"}}
    \cup {Attribute(type) : type \in {"Byte", "Container", "OtherXML"}}
    \cup {[Attribute("OtherXML") EXCEPT !.dap = FALSE],
          [Attribute("Container") EXCEPT !.complete = FALSE],
          [Whole("Structure") EXCEPT !.complete = FALSE]}
=============================================================================
