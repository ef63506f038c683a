------------------------- MODULE MCListSharesDecode -------------------------
(***************************************************************************)
(* ListSharesSegmentParseResponse on the List Shares documents of         *)
(* ShareXmlDocuments: up to two shares of two kinds, optional Prefix,      *)
(* MaxResults and NextMarker, every variation mode, and the empty body.   *)
(***************************************************************************)
EXTENDS TagPathDecoder, ShareXmlDocuments

MCNumerals ==
  ("2" :> [val |-> 2, bits |-> 32]) @@ ("5" :> [val |-> 5, bits |-> 32]) @@
  ("5120" :> [val |-> 5120, bits |-> 32])

(* A live share with properties and one metadata pair; a deleted snapshot *)
(* with a version and no metadata.                                        *)
ShareA == [name |-> "s1", snapshot |-> "", deleted |-> FALSE, version |-> "",
           lastModified |-> "t1", etag |-> "e1", quota |-> "5", meta |-> {<<"k1", "v1">>}]
ShareB == [name |-> "s2", snapshot |-> "t0", deleted |-> TRUE, version |-> "01",
           lastModified |-> "t2", etag |-> "e2", quota |-> "5120", meta |-> {}]

ItemLists == {<<>>, <<ShareA>>, <<ShareB>>, <<ShareA, ShareB>>}

Segments ==
  [prefix : {"", "abc"}, maxResults : {"", "2"}, items : ItemLists,
   nextMarker : {"", "m2"}]

ListSharesInputs ==
  {[root |-> "ListSharesResponse", body |-> <<>>, expected |-> ListSharesResponseDefault]} \cup
  {[root |-> "ListSharesResponse", body |-> ListSharesXml(v, m), expected |-> ExpectedListShares(v, m)] :
     v \in Segments, m \in Modes}

=============================================================================
