------------------------- MODULE MCCapabilityFilter -------------------------
(* Small instances of CapabilityFilter for TLC.                            *)
EXTENDS CapabilityFilter

Capability(name, type, oper) == [name |-> name, type |-> type, oper |-> oper]

\* Agents with the same two capabilities in the same order; each of the eight
\* operators occurs, and agents differ in the type of the second.
WarehouseLayouts ==
    {<<Capability("test_numeric", "number", 0), Capability("test_mode", "boolean", 5)>>,
     <<Capability("test_numeric", "number", 1), Capability("test_mode", "boolean", 6)>>}
    \cup {<<Capability("test_numeric", "number", o),
            Capability("test_mode", "string", 7)>> : o \in 2 .. 4}

\* The same two capabilities in different order, and one of them alone.
MixedLayouts ==
    {<<Capability("test_numeric", "number", 0), Capability("test_mode", "boolean", 5)>>,
     <<Capability("test_mode", "boolean", 5), Capability("test_numeric", "number", 0)>>,
     <<Capability("test_numeric", "number", 0)>>}

\* The warehouses among agents that list the same capabilities in another order,
\* or fewer of them, or none.
AlikeLayouts ==
    WarehouseLayouts \cup
    {<<Capability("test_mode", "boolean", 5), Capability("test_numeric", "number", 1)>>,
     <<Capability("test_numeric", "number", 2)>>,
     <<>>}

AllWishes == {"1", "true"}
WishNumbers == [w \in AllWishes |-> IF w = "1" THEN 1 ELSE 0]

AllQueries == {<<>>, <<"test_numeric">>, <<"test_mode">>,
               <<"test_mode", "test_numeric">>, <<"unknown">>, <<"None">>}
=============================================================================
