------------------------------ MODULE PageBlob ------------------------------
(***************************************************************************)
(* PageBlobClient (blobs/page_blob_client.cpp) used by several clients on  *)
(* one page blob.  Each method copies its arguments and options into the  *)
(* protocol layer's options (a Range of inclusive page indices and the     *)
(* access conditions) and sends one request; the service (REST contract,  *)
(* not code of this repository) applies it atomically or answers 412/416.  *)
(* GetPageRanges turns the service's inclusive ranges back into            *)
(* (Offset, Length) pairs; given a PreviousSnapshot, the service answers  *)
(* the ranges changed since that snapshot, split into PageRanges (now     *)
(* written) and ClearRanges (now clear), and the client converts both.     *)
(* The snapshot is taken by BlobClient::CreateSnapshot (not in this        *)
(* repository): one snapshot, the bound that makes a diff possible.        *)
(*                                                                         *)
(* Offsets and lengths are counted in 512-byte pages: the byte range       *)
(* [o*512, (o+l)*512-1] the client sends covers pages o .. o+l-1, so the    *)
(* client's arithmetic is the same in either unit.  Of the access          *)
(* conditions, IfMatch stands for the group the client forwards (LeaseId,  *)
(* IfModifiedSince, IfUnmodifiedSince, IfMatch, IfNoneMatch) and           *)
(* IfSequenceNumberEqual for the three sequence-number conditions of       *)
(* PageBlobAccessConditions.                                               *)
(***************************************************************************)
EXTENDS Integers, FiniteSets

CONSTANTS
  Clients,     \* the PageBlobClient instances on the blob
  MaxLength,   \* largest blob length, in pages
  MaxSeq,      \* largest sequence number a caller sets
  MaxEtag,     \* bound on the number of successful writes
  Conditions,  \* the access conditions callers use: "IfMatch", "IfSequenceNumberEqual"
  NoValue      \* an empty Azure::Core::Nullable

VARIABLES
  blob,        \* the service's blob: [length, pages (written), seq, etag]
  seen,        \* per client: the ETag of its last GetPageRanges answer
  token,       \* per client: the sequence number it last created the blob with
  snapshot,    \* the blob's snapshot: [pages], or NoValue before it is taken
  dirty,       \* the pages a write, clear or resize has touched since the snapshot
  last         \* the last call: [client, op, offset, length, conditions, before (the
               \* blob's etag and seq when it arrived), ok, ranges and clear (GetPageRanges'
               \* PageRanges and ClearRanges), prev (its PreviousSnapshot)]

vars == <<blob, seen, token, snapshot, dirty, last>>

Pages == 0..(MaxLength - 1)
Etags == 0..MaxEtag
Opt(S) == S \cup {NoValue}

-----------------------------------------------------------------------------
(* The client side (page_blob_client.cpp). *)

(* PageBlobClient::Create *)
CreateProtocolOptions(blobContentLength, options) ==
  [BlobContentLength |-> blobContentLength, SequenceNumber |-> options.SequenceNumber,
   Range |-> NoValue, IfSequenceNumberEqual |-> NoValue,
   IfMatch |-> options.AccessConditions.IfMatch]

UploadPagesProtocolOptionsPastEnd(offset, length, options) ==
  [Range |-> <<offset, offset + length>>, IfSequenceNumberEqual |-> NoValue,
   IfMatch |-> options.AccessConditions.IfMatch]

UploadPagesProtocolOptionsNoIfMatch(offset, length, options) ==
  [Range |-> <<offset, offset + length - 1>>, IfSequenceNumberEqual |-> NoValue,
   IfMatch |-> NoValue]

(* PageBlobClient::UploadPages: the sequence-number conditions are never   *)
(* copied, so the request carries none.                                    *)
UploadPagesProtocolOptions(offset, length, options) ==
  [Range |-> <<offset, offset + length - 1>>, IfSequenceNumberEqual |-> NoValue,
   IfMatch |-> options.AccessConditions.IfMatch]

(* PageBlobClient::UploadPagesFromUri: the destination range. *)
UploadPagesFromUriProtocolOptions(sourceOffset, sourceLength, destinationoffset, options) ==
  [SourceRange |-> <<sourceOffset, sourceOffset + sourceLength - 1>>,
   Range |-> <<destinationoffset, destinationoffset + sourceLength - 1>>,
   IfSequenceNumberEqual |-> NoValue,
   IfMatch |-> options.AccessConditions.IfMatch]

(* PageBlobClient::ClearPages *)
ClearPagesProtocolOptions(offset, length, options) ==
  [Range |-> <<offset, offset + length - 1>>, IfSequenceNumberEqual |-> NoValue,
   IfMatch |-> options.AccessConditions.IfMatch]

(* PageBlobClient::Resize *)
ResizeProtocolOptions(blobContentLength, options) ==
  [BlobContentLength |-> blobContentLength, Range |-> NoValue,
   IfSequenceNumberEqual |-> NoValue,
   IfMatch |-> options.AccessConditions.IfMatch]

GetPageRangesProtocolOptionsPastEnd(options) ==
  [PreviousSnapshot |-> options.PreviousSnapshot,
   Range |-> IF options.Offset # NoValue /\ options.Length # NoValue
             THEN <<options.Offset, options.Offset + options.Length>>
             ELSE NoValue,
   IfSequenceNumberEqual |-> NoValue, IfMatch |-> options.AccessConditions.IfMatch]

(* PageBlobClient::GetPageRanges: the PreviousSnapshot, a range only when *)
(* both Offset and Length are given, and the access conditions.           *)
GetPageRangesProtocolOptions(options) ==
  [PreviousSnapshot |-> options.PreviousSnapshot,
   Range |-> IF options.Offset # NoValue /\ options.Length # NoValue
             THEN <<options.Offset, options.Offset + options.Length - 1>>
             ELSE NoValue,
   IfSequenceNumberEqual |-> NoValue, IfMatch |-> options.AccessConditions.IfMatch]

PageRangesInfoOfLengthMinusOne(ranges) ==
  {[Offset |-> r[1], Length |-> r[2] - r[1]] : r \in ranges}

(* PageBlobClient::GetPageRanges: PageRange{first, second - first + 1}. *)
PageRangesInfoOf(ranges) == {[Offset |-> r[1], Length |-> r[2] - r[1] + 1] : r \in ranges}

(* Bug variant: the ClearRanges loop is left out. *)
GetPageRangesResultNoClearRanges(pageRanges, clearRanges) ==
  [PageRanges |-> PageRangesInfoOf(pageRanges), ClearRanges |-> {}]

(* The PageRangesInfo GetPageRanges returns: both lists converted. *)
GetPageRangesResult(pageRanges, clearRanges) ==
  [PageRanges |-> PageRangesInfoOf(pageRanges), ClearRanges |-> PageRangesInfoOf(clearRanges)]

-----------------------------------------------------------------------------
(* The service (REST contract).  A write is applied only when its range   *)
(* lies inside the blob and every condition the request carries holds;    *)
(* each applied write gives the blob a new ETag.  GetPageRanges answers    *)
(* the maximal runs of written pages inside the requested range.           *)

ConditionsHold(p) ==
  /\ p.IfMatch = NoValue \/ p.IfMatch = blob.etag
  /\ p.IfSequenceNumberEqual = NoValue \/ p.IfSequenceNumberEqual = blob.seq

RangeInBlob(r) == r[1] <= r[2] /\ r[2] < blob.length

PagesIn(r) == r[1]..r[2]

Runs(P) == {r \in P \X P : r[1] <= r[2] /\ PagesIn(r) \subseteq P /\
                            r[1] - 1 \notin P /\ r[2] + 1 \notin P}

Within(P, r) == IF r = NoValue THEN P ELSE P \cap PagesIn(r)

(* The runs GetPageRanges answers: without a PreviousSnapshot the written *)
(* pages; with one, the touched pages now written and those now clear.    *)
ServicePageRanges(p) ==
  IF p.PreviousSnapshot = NoValue THEN Runs(Within(blob.pages, p.Range))
  ELSE Runs(Within(dirty \cap blob.pages, p.Range))
ServiceClearRanges(p) ==
  IF p.PreviousSnapshot = NoValue THEN {}
  ELSE Runs(Within((dirty \ blob.pages) \cap 0..(blob.length - 1), p.Range))

-----------------------------------------------------------------------------
(* The conditions a caller can put on a write: none, the ETag of its last *)
(* listing, the sequence number it created the blob with.                  *)
Used(kind, v) == IF kind \in Conditions THEN {NoValue, v} ELSE {NoValue}

(* PageBlobAccessConditions: UploadPages, UploadPagesFromUri, ClearPages. *)
PageBlobAccessConditionsOf(c) ==
  [IfMatch : Used("IfMatch", seen[c]),
   IfSequenceNumberEqual : Used("IfSequenceNumberEqual", token[c])]

(* BlobAccessConditions: Create, Resize, GetPageRanges. *)
BlobAccessConditionsOf(c) == [IfMatch : Used("IfMatch", seen[c]), IfSequenceNumberEqual : {NoValue}]

NoConditions == [IfMatch |-> NoValue, IfSequenceNumberEqual |-> NoValue]

(* The options structs of the write methods (blob_options.hpp), with the  *)
(* fields that reach the page semantics: SequenceNumber is a Nullable the *)
(* service takes as 0 when absent; ContentMd5/ContentCrc64 are content.   *)
CreatePageBlobOptionsOf(c) ==
  [SequenceNumber : Opt(0..MaxSeq), AccessConditions : BlobAccessConditionsOf(c)]
UploadPagesOptionsOf(c) == [AccessConditions : PageBlobAccessConditionsOf(c)]
UploadPagesFromUriOptionsOf(c) == [AccessConditions : PageBlobAccessConditionsOf(c)]
ClearPagesOptionsOf(c) == [AccessConditions : PageBlobAccessConditionsOf(c)]
ResizePageBlobOptionsOf(c) == [AccessConditions : BlobAccessConditionsOf(c)]

(* GetPageRangesOptions: a PreviousSnapshot once the snapshot exists. *)
GetPageRangesOptionsOf(c) ==
  [Offset : Opt(Pages), Length : Opt(0..MaxLength), PreviousSnapshot : {NoValue},
   AccessConditions : {NoConditions}] \cup
  (IF snapshot = NoValue THEN {}
   ELSE [Offset : {NoValue}, Length : {NoValue}, PreviousSnapshot : {"snapshot"},
         AccessConditions : BlobAccessConditionsOf(c)])


Answer(c, op, offset, length, ac, ok, ret, prev) ==
  last' = [client |-> c, op |-> op, offset |-> offset, length |-> length, conditions |-> ac,
           before |-> [etag |-> blob.etag, seq |-> blob.seq], ok |-> ok,
           ranges |-> ret.PageRanges, clear |-> ret.ClearRanges, prev |-> prev]

NoResult == [PageRanges |-> {}, ClearRanges |-> {}]

(* One write request of client c with the caller's arguments: the service *)
(* applies `after` if the request is valid and its conditions hold, and   *)
(* the pages it touched then differ from the snapshot's.                   *)
Request(c, op, offset, length, ac, p, valid, after, touched) ==
  LET ok == valid /\ ConditionsHold(p)
  IN /\ blob' = IF ok THEN [after EXCEPT !.etag = blob.etag + 1] ELSE blob
     /\ dirty' = IF ok /\ snapshot # NoValue THEN dirty \cup touched ELSE dirty
     /\ Answer(c, op, offset, length, ac, ok, NoResult, NoValue)

Init ==
  /\ blob \in [length : 0..MaxLength, pages : {{}}, seq : {0}, etag : {0}]
  /\ seen = [c \in Clients |-> NoValue]
  /\ token = [c \in Clients |-> NoValue]
  /\ snapshot = NoValue
  /\ dirty = {}
  /\ last = [client |-> NoValue, op |-> "none", offset |-> 0, length |-> 0,
             conditions |-> NoConditions, before |-> [etag |-> 0, seq |-> 0], ok |-> FALSE,
             ranges |-> {}, clear |-> {}, prev |-> NoValue]

Create(c) ==
  /\ blob.etag < MaxEtag
  /\ \E len \in 0..MaxLength, o \in CreatePageBlobOptionsOf(c) :
       LET p == CreateProtocolOptions(len, o)
           n == IF p.SequenceNumber = NoValue THEN 0 ELSE p.SequenceNumber
       IN /\ Request(c, "Create", 0, len, o.AccessConditions, p, TRUE,
                     [length |-> p.BlobContentLength, pages |-> {}, seq |-> n,
                      etag |-> blob.etag], Pages)
          /\ token' = IF ConditionsHold(p) THEN [token EXCEPT ![c] = n] ELSE token
  /\ UNCHANGED <<seen, snapshot>>

UploadPages(c) ==
  /\ blob.etag < MaxEtag
  /\ \E offset \in Pages, length \in 0..MaxLength, o \in UploadPagesOptionsOf(c) :
       LET p == UploadPagesProtocolOptions(offset, length, o)
       IN Request(c, "UploadPages", offset, length, o.AccessConditions, p, RangeInBlob(p.Range),
                  [blob EXCEPT !.pages = @ \cup PagesIn(p.Range)], PagesIn(p.Range))
  /\ UNCHANGED <<seen, token, snapshot>>

UploadPagesFromUri(c) ==
  /\ blob.etag < MaxEtag
  /\ \E destinationoffset \in Pages, sourceLength \in 0..MaxLength,
        o \in UploadPagesFromUriOptionsOf(c) :
       LET p == UploadPagesFromUriProtocolOptions(0, sourceLength, destinationoffset, o)
       IN Request(c, "UploadPagesFromUri", destinationoffset, sourceLength, o.AccessConditions, p,
                  RangeInBlob(p.Range), [blob EXCEPT !.pages = @ \cup PagesIn(p.Range)],
                  PagesIn(p.Range))
  /\ UNCHANGED <<seen, token, snapshot>>

ClearPages(c) ==
  /\ blob.etag < MaxEtag
  /\ \E offset \in Pages, length \in 0..MaxLength, o \in ClearPagesOptionsOf(c) :
       LET p == ClearPagesProtocolOptions(offset, length, o)
       IN Request(c, "ClearPages", offset, length, o.AccessConditions, p, RangeInBlob(p.Range),
                  [blob EXCEPT !.pages = @ \ PagesIn(p.Range)], PagesIn(p.Range))
  /\ UNCHANGED <<seen, token, snapshot>>

Resize(c) ==
  /\ blob.etag < MaxEtag
  /\ \E len \in 0..MaxLength, o \in ResizePageBlobOptionsOf(c) :
       LET p == ResizeProtocolOptions(len, o)
       IN Request(c, "Resize", 0, len, o.AccessConditions, p, TRUE,
                  [blob EXCEPT !.length = p.BlobContentLength,
                               !.pages = {q \in @ : q < p.BlobContentLength}],
                  {q \in Pages : q >= p.BlobContentLength})
  /\ UNCHANGED <<seen, token, snapshot>>

(* A range whose end precedes its start is refused (416), and so is a    *)
(* condition that fails (412); otherwise the answer carries the ETag.     *)
GetPageRanges(c) ==
  /\ \E o \in GetPageRangesOptionsOf(c) :
       LET p == GetPageRangesProtocolOptions(o)
           ok == ConditionsHold(p) /\ (p.Range = NoValue \/ p.Range[1] <= p.Range[2])
       IN /\ Answer(c, "GetPageRanges", o.Offset, o.Length, o.AccessConditions, ok,
                    IF ok THEN GetPageRangesResult(ServicePageRanges(p), ServiceClearRanges(p))
                    ELSE NoResult, o.PreviousSnapshot)
          /\ seen' = IF ok THEN [seen EXCEPT ![c] = blob.etag] ELSE seen
  /\ UNCHANGED <<blob, token, snapshot, dirty>>

(* Another client's BlobClient::CreateSnapshot: a read-only copy of the   *)
(* pages, from which the changes are counted.                             *)
CreateSnapshot ==
  /\ snapshot = NoValue
  /\ snapshot' = [pages |-> blob.pages]
  /\ dirty' = {}
  /\ UNCHANGED <<blob, seen, token, last>>

Next ==
  \/ \E c \in Clients :
       Create(c) \/ UploadPages(c) \/ UploadPagesFromUri(c) \/ ClearPages(c) \/ Resize(c) \/
       GetPageRanges(c)
  \/ CreateSnapshot

Spec == Init /\ [][Next]_vars

-----------------------------------------------------------------------------
(* Properties *)

TypeOK ==
  /\ blob \in [length : 0..MaxLength, pages : SUBSET Pages, seq : 0..MaxSeq, etag : Etags]
  /\ blob.pages \subseteq 0..(blob.length - 1)
  /\ seen \in [Clients -> Opt(Etags)]
  /\ token \in [Clients -> Opt(0..MaxSeq)]
  /\ snapshot \in {NoValue} \cup [pages : SUBSET Pages]
  /\ dirty \subseteq Pages
  /\ last.ok \in BOOLEAN
  /\ last.ranges \cup last.clear \subseteq [Offset : Pages, Length : 1..MaxLength]

(* Optimistic concurrency through PageBlobClient's AccessConditions: a     *)
(* write a caller made conditional on the ETag of its own earlier listing *)
(* succeeds only if no other client's write has been applied since.        *)
NoLostUpdate ==
  (last.ok /\ last.conditions.IfMatch # NoValue) => last.before.etag = last.conditions.IfMatch

(* Fencing through PageBlobAccessConditions: a write a caller made        *)
(* conditional on IfSequenceNumberEqual n succeeds only if the blob's      *)
(* sequence number is still n, i.e. no other client has re-created the    *)
(* blob with a new sequence number since.                                  *)
SequenceConditionHonoured ==
  (last.ok /\ last.conditions.IfSequenceNumberEqual # NoValue) =>
    last.before.seq = last.conditions.IfSequenceNumberEqual

(* GetPageRanges' PageRange{first, second - first + 1} conversion: what a  *)
(* caller is given (the blob has not changed since: any write would be the *)
(* last call) covers exactly the written pages in the range it asked  *)
(* for (the whole blob when it gave no Offset and Length), and no two      *)
(* ranges overlap or touch.                                                *)
Span(r) == r.Offset .. (r.Offset + r.Length - 1)
Window(w) == IF w.Offset # NoValue /\ w.Length # NoValue THEN Span(w) ELSE Pages

ListingMatchesBlob ==
  (last.op = "GetPageRanges" /\ last.ok /\ last.prev = NoValue) =>
    /\ UNION {Span(r) : r \in last.ranges} =
         blob.pages \cap Window([Offset |-> last.offset, Length |-> last.length])
    /\ \A r1, r2 \in last.ranges :
         r1 # r2 => r1.Offset + r1.Length < r2.Offset \/ r2.Offset + r2.Length < r1.Offset

(* A caller backing the blob up incrementally: it copies the snapshot,     *)
(* then applies a GetPageRanges diff against it (PreviousSnapshot),       *)
(* writing its PageRanges and clearing its ClearRanges.  Within the range *)
(* asked for and the blob's length, this reproduces the blob's pages, and *)
(* every page rewritten since the snapshot is among the PageRanges, even  *)
(* after other clients' writes, clears, resizes and re-creations.         *)
Spans(rs) == UNION {Span(r) : r \in rs}
DiffRestoresBlob ==
  (last.op = "GetPageRanges" /\ last.ok /\ last.prev # NoValue) =>
    LET W == Window([Offset |-> last.offset, Length |-> last.length]) \cap 0..(blob.length - 1)
    IN  /\ ((snapshot.pages \cap W) \ Spans(last.clear)) \cup Spans(last.ranges)
             = blob.pages \cap W
        /\ dirty \cap blob.pages \cap W \subseteq Spans(last.ranges)

(* PageBlobClient implements the caller-level page blob of PageBlobAbstract: *)
(* every write call either fails and changes nothing or sets exactly the   *)
(* pages its offset and length name.                                       *)
Abstract == INSTANCE PageBlobAbstract
              WITH length <- blob.length, pages <- blob.pages, seq <- blob.seq,
                   call <- [op |-> last.op, offset |-> last.offset, length |-> last.length]

RefinesAbstract == Abstract!ASpec

=============================================================================
