-------------------------- MODULE MCSegmentedListing --------------------------
(* Four names in name order; prefix "a" matches the first two, "b" the   *)
(* last two.  Segments of one or two items, or MaxResults unset; other   *)
(* clients make up to two creates or deletes during a listing.           *)
EXTENDS SegmentedListing

MCNames == 1..4
MCPrefixes == {"a", "b"}
MCPrefixMatch == [p \in MCPrefixes |-> IF p = "a" THEN {1, 2} ELSE {3, 4}]
MCPageSizes == {1, 2, NoValue}
MCMethods == {"ListSharesSegment", "ListBlobsFlat", "ListBlobsByHierarchy"}
=============================================================================
