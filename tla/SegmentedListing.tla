--------------------------- MODULE SegmentedListing ---------------------------
(***************************************************************************)
(* A caller listing the shares of an account (ServiceClient::              *)
(* ListSharesSegment) or the blobs of a container (BlobContainerClient::   *)
(* ListBlobsFlat, ListBlobsByHierarchy) segment by segment, while other    *)
(* clients create and delete items.                                        *)
(*                                                                         *)
(* The client methods copy Prefix, Marker and MaxResults from the caller's *)
(* options into the protocol layer's options.  The service (REST contract)*)
(* answers with the items, in name order, whose name begins with Prefix    *)
(* and is not before Marker, at most MaxResults of them (5000 if unset),   *)
(* and a NextMarker naming where the next segment starts, empty when no    *)
(* item is left; it may end a segment early, but then with a NextMarker.   *)
(* The caller follows the options' documentation: it passes each           *)
(* NextMarker back as Marker until NextMarker is empty.                    *)
(*                                                                         *)
(* Names are numbers in name order; PrefixMatch[p] is the names that begin *)
(* with p (a contiguous interval of that order).  Names contain no         *)
(* delimiter, so ListBlobsByHierarchy returns no BlobPrefix entries.       *)
(***************************************************************************)
EXTENDS Integers, Sequences, SequencesExt, FiniteSets

CONSTANTS
  Names,        \* item names, ordered by <
  FilterPrefixes, \* the prefixes a caller may filter on
  PrefixMatch,  \* PrefixMatch[p]: the names beginning with p
  PageSizes,    \* the MaxResults a caller may set (NoValue: unset)
  Methods,      \* the listing methods called
  MaxChanges,   \* bound on the other clients' creates and deletes
  NoValue       \* an empty Nullable

VARIABLES
  items,     \* the names that exist on the service
  changes,   \* creates and deletes made so far by other clients
  method,    \* the listing method the caller uses
  options,   \* the caller's options: [Prefix, Marker, MaxResults]
  listed,    \* the names returned so far, in the order returned
  alive,     \* the names that existed throughout the listing so far
  done       \* the caller got an empty NextMarker

vars == <<items, changes, method, options, listed, alive, done>>

(* The protocol layer's options each method builds from the caller's.   *)
(* Bug variant: MaxResults sent as 0 instead of the caller's value.      *)
ListSharesSegmentProtocolOptionsZeroMaxResults(o) ==
  [Prefix |-> o.Prefix, Marker |-> o.Marker, MaxResults |-> 0]

ListSharesSegmentProtocolOptions(o) ==
  [Prefix |-> o.Prefix, Marker |-> o.Marker, MaxResults |-> o.MaxResults]

(* Bug variant: the Marker is not copied. *)
ListBlobsFlatProtocolOptionsNoMarker(o) ==
  [Prefix |-> o.Prefix, Marker |-> NoValue, MaxResults |-> o.MaxResults]

ListBlobsFlatProtocolOptions(o) ==
  [Prefix |-> o.Prefix, Marker |-> o.Marker, MaxResults |-> o.MaxResults]

ListBlobsByHierarchyProtocolOptions(o) ==
  [Prefix |-> o.Prefix, Marker |-> o.Marker, MaxResults |-> o.MaxResults]

ProtocolOptions(m, o) ==
  CASE m = "ListSharesSegment"    -> ListSharesSegmentProtocolOptions(o)
    [] m = "ListBlobsFlat"        -> ListBlobsFlatProtocolOptions(o)
    [] m = "ListBlobsByHierarchy" -> ListBlobsByHierarchyProtocolOptions(o)

(* The service's segment for a request: the matching names not before   *)
(* the marker, and for each allowed length k the first k of them with    *)
(* the NextMarker after them (NoValue: the empty string).  A MaxResults   *)
(* below 1 is refused with 400 InvalidQueryParameterValue: no segment.   *)
DefaultMaxResults == 5000
Matching(q) ==
  {n \in items : (q.Prefix = NoValue \/ n \in PrefixMatch[q.Prefix])
                 /\ (q.Marker = NoValue \/ n >= q.Marker)}
Segments(q) ==
  LET s == SetToSortSeq(Matching(q), <)
      cap == IF q.MaxResults = NoValue THEN DefaultMaxResults ELSE q.MaxResults
      sizes == CASE cap < 1       -> {}
                 [] Len(s) <= cap -> {Len(s)}
                 [] OTHER         -> 1..cap
  IN  {[names |-> SubSeq(s, 1, k), next |-> IF k < Len(s) THEN s[k + 1] ELSE NoValue]
        : k \in sizes}

(* Bug variant: MaxResults declared as a plain int32_t defaulting to 0    *)
(* instead of an empty Nullable.                                         *)
InitMaxResultsZero ==
  /\ items \in SUBSET Names
  /\ changes = 0
  /\ method \in Methods
  /\ options \in [Prefix : FilterPrefixes \cup {NoValue}, Marker : {NoValue},
                  MaxResults : (PageSizes \ {NoValue}) \cup {0}]
  /\ listed = <<>>
  /\ alive = items
  /\ done = FALSE

(* The caller's ListBlobsOptions / ListSharesOptions: any Prefix, no      *)
(* Marker on the first call, any MaxResults or none.                     *)
Init ==
  /\ items \in SUBSET Names
  /\ changes = 0
  /\ method \in Methods
  /\ options \in [Prefix : FilterPrefixes \cup {NoValue}, Marker : {NoValue},
                  MaxResults : PageSizes]
  /\ listed = <<>>
  /\ alive = items
  /\ done = FALSE

(* Bug variant of the caller's loop: a segment shorter than MaxResults   *)
(* is taken as the last one.                                             *)
ListSegmentStopOnShortPage ==
  /\ ~done
  /\ \E seg \in Segments(ProtocolOptions(method, options)) :
       /\ listed' = listed \o seg.names
       /\ options' = [options EXCEPT !.Marker = seg.next]
       /\ done' = (seg.next = NoValue \/ (options.MaxResults # NoValue
                                     /\ Len(seg.names) < options.MaxResults))
  /\ UNCHANGED <<items, changes, method, alive>>

(* One call of the listing method, and the caller's loop around it.      *)
ListSegment ==
  /\ ~done
  /\ \E seg \in Segments(ProtocolOptions(method, options)) :
       /\ listed' = listed \o seg.names
       /\ options' = [options EXCEPT !.Marker = seg.next]
       /\ done' = (seg.next = NoValue)
  /\ UNCHANGED <<items, changes, method, alive>>

(* Another client creates or deletes an item (ShareClient::Create/Delete, *)
(* a blob upload or delete) while the listing runs.                      *)
CreateItem(n) ==
  /\ ~done /\ changes < MaxChanges /\ n \notin items
  /\ items' = items \cup {n}
  /\ changes' = changes + 1
  /\ UNCHANGED <<method, options, listed, alive, done>>

DeleteItem(n) ==
  /\ ~done /\ changes < MaxChanges /\ n \in items
  /\ items' = items \ {n}
  /\ alive' = alive \ {n}
  /\ changes' = changes + 1
  /\ UNCHANGED <<method, options, listed, done>>

Next ==
  \/ ListSegment
  \/ \E n \in Names : CreateItem(n) \/ DeleteItem(n)

(* The caller's loop runs on its own thread and keeps calling until the  *)
(* NextMarker is empty; the service answers every call.                  *)
Spec == Init /\ [][Next]_vars /\ WF_vars(ListSegment)

-----------------------------------------------------------------------------
TypeOK ==
  /\ items \subseteq Names /\ alive \subseteq Names
  /\ changes \in 0..MaxChanges
  /\ options \in [Prefix : FilterPrefixes \cup {NoValue}, Marker : Names \cup {NoValue},
                  MaxResults : PageSizes]
  /\ listed \in Seq(Names)
  /\ done \in BOOLEAN

Wanted == IF options.Prefix = NoValue THEN Names ELSE PrefixMatch[options.Prefix]

(* Whatever the other clients do between segments, the names a listing   *)
(* returns all begin with the caller's Prefix and come in strictly       *)
(* increasing name order across segments: no item is returned twice.     *)
ListedSound ==
  /\ ToSet(listed) \subseteq Wanted
  /\ \A i, j \in DOMAIN listed : i < j => listed[i] < listed[j]

(* Once the caller has followed NextMarker to its end, every item with    *)
(* the Prefix that existed throughout the listing has been returned,     *)
(* exactly once, even when the service ended segments early and items    *)
(* before or after the marker were created or deleted meanwhile.         *)
ListingComplete ==
  done => \A n \in alive \cap Wanted :
            Cardinality({i \in DOMAIN listed : listed[i] = n}) = 1

(* Following NextMarker, the caller's loop ends. *)
ListingTerminates == <>done

=============================================================================
