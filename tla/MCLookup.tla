------------------------------- MODULE MCLookup -------------------------------
\* Three tables, one of them the root, and an instance; one name is a slot and
\* one the metamethod of every operation.
EXTENDS Lookup

MCMetaName == [op \in Op |-> "m"]
MCClassMeta == {"get", "delete"}
=============================================================================
