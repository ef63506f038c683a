# TLA+ models of the Azure Storage C++ client (`src/sdk/storage`)

This directory holds TLA+ models of the storage client library in `src/`,
the TLC configurations that check them, and `PROJECT.json`. `PROJECT.json`
maps each model definition to the source lines it translates, and lists
the runs, the mutants, the findings and the hazards.

## 1. The system

A client call passes through two parts of the library: a policy pipeline
and a response decoder.

**Clients.** `ShareServiceClient` (`shares/service_client.cpp`),
`BlobContainerClient` and `PageBlobClient` (`blobs/`), and the DataLake
`PathClient` (`datalake/path_client.cpp`) each build a policy pipeline in
their constructors (a DataLake file system is a blob container, so
`BlobContainerClient` and `PathClient` act on the same service state):

    Telemetry, PerOperationPolicies..., Retry, PerRetryPolicies...,
    CommonHeadersRequestPolicy, SharedKeyPolicy | BearerTokenAuthenticationPolicy | (none),
    TransportPolicy(CurlTransport)

Each client method copies its option struct into a protocol-layer option
struct and calls a static function of the generated protocol layer.
Examples are `ShareRestClient::Service::ListSharesSegment` in
`inc/shares/protocol/share_rest_client.hpp` and `BlobRestClient::...`.

**Protocol layer.** A protocol-layer function builds an HTTP request,
calls `pipeline.Send(context, request)`, and hands the raw response to an
`<Op>ParseResponse` function. That function does the following:

- The expected status (200, 201 or 202) gives a result; any other status
  throws `StorageError::CreateFromResponse`.
- Result fields are read from response headers.
- An XML body is decoded by a `<Type>FromXml(XmlReader&)` function; an
  empty body gives the value-initialised result.

**Decoders.** Every `<Type>FromXml` is the same loop. It calls
`reader.Read()` and keeps a `std::vector<XmlTagName> path` of tag markers,
where `c_Unknown` stands for any name it does not list. It handles each
event as follows:

- **Start tag:** pushes the marker. If the path now names a nested
  aggregate, it calls that aggregate's `<Sub>FromXml(reader)` on the *same*
  reader, then pops its own marker.
- **Text:** assigned only at an exact path, through a conversion:
  - string copy;
  - `std::stoi`;
  - `bool = const char*`, which is always true.
- **Attribute:** assigned at an exact path and name.
- **End tag:** pops the path. If the path is already empty, the loop
  ends; this is the end tag of the element the caller opened.
- **End:** ends the loop.

`MetadataFromXml` counts depth instead of keeping a path, and emplaces
each element's text under its tag name.

**azure-core.** `HttpPipeline`, `RetryPolicy`, `TransportPolicy`,
`XmlReader`/`XmlWriter` and `StorageError` are azure-core code outside this
repository. Their behaviour is modelled from `spec.md` (sections 4.1, 4.2,
5, 7) and marked `spec_modelled` in the map.

## 2. Modules

| module | models | state / actions |
|---|---|---|
| `XmlEvents` | XmlReader/XmlWriter node events | Constructors `StartTag`, `EndTag`, `Text`, `Attribute`, `End`, `Element`, `TextElement`. `ReaderEvents` drops the empty text nodes a reader never reports. Also the `Numerals` table (text to value and width), `ToDecimal` (std::to_string) and the `Unknown` marker. |
| `ShareXmlSchemas` | every `<Type>FromXml` of `ShareRestClient::Service` as a schema record | `tags`: its XmlTagName enum. `init`: `Type()`. `text`: exact path to field plus conversion. `nested`: path to the sub-decoder, assigned or `emplace_back`ed; the field `Whole` means the decoder returns the vector itself (`SignedIdentifiersFromXml`, `RangeListFromXml`). `attrs`: attribute rules. `MetadataFromXml` has kind `"metadata"`. |
| `ShareFileXmlSchemas` | every `<Type>FromXml` of `ShareRestClient::Share`, `Directory` and `File` | Same records. `ShareStatsFromXml` converts with `int32` (`std::stoi`), `RangeFromXml` with `int64` (`std::stoll`). `DirectoryItemFromXml` and `FilePropertyFromXml` have no text rules: the source has no text branch. |
| `TagPathDecoder` | the reader loop of all those functions, with nested calls on a shared reader | State: `body`, `pos` (reader position), `stack` of active decoder frames (schema, `path`, partial `result`, MetadataFromXml `key`), `outcome`, `decoded`. One action per branch: `OpenElement`, `CloseElement`, `AssignText`, `TextParseError` (the conversion throws and unwinds every frame), `EmplaceMetadata`, `IgnoreText`, `ReadAttribute`, `ReturnToCaller` (nested function returns; the caller stores or appends the result and pops), `ReturnFromRoot`. `Init` is the `<Op>ParseResponse`: it picks one of `Inputs` (`root` decoder, `body`, `expected` value); the empty body gives the default. |
| `ShareXmlDocuments` | the writers `StorageServicePropertiesToXml`, `MetricsToXml`, `CorsRuleToXml`, `ShareRetentionPolicyToXml` and the `SetProperties` body; the List Shares documents the service sends (REST contract) and what they encode | Pure operators. |
| `ShareFileXmlDocuments` | the writers `AccessPolicyToXml`, `SignedIdentifierToXml`, `SignedIdentifiersToXml` and the `SetAccessPolicy` body; the service's Get Share ACL, Get Share Stats, Get Range List, List Handles and List Directories and Files documents | Pure operators. |
| `StoragePipeline` | client pipeline construction (source) and one call through it (azure-core, from the spec), ending in `<Op>ParseResponse` | State: `policies`, `connectionString` (`<<>>`, or the parsed string reduced to whether it holds an account key, for a client made by `CreateFromConnectionString`), `body` kind, `cancelled`, `at`/`dir` (which policy runs, request going down or response coming up), `tries`, `responses` (one per transport attempt), `response`, `trace` (policy and attempt), `outcome`. Actions: `Send`, `PassDown`, `RetryStart`, `TransportSend`, `TransportCancelled`, `PassUp`, `RetryAgain`, `RetryBackoffCancelled`, `RetryGiveUp`, `ParseResponse`, and the environment's `Cancel`. `ParseResponse` classifies the final response with `ResponseOutcome`. `Call` is `StorageCall` with `attempts` the transport's `responses`. |
| `SegmentedListing` | `ServiceClient::ListSharesSegment` (`service_client.cpp`), `BlobContainerClient::ListBlobsFlat` and `ListBlobsByHierarchy` (`blob_container_client.cpp`), with the service's segments and the caller's NextMarker loop | `<Method>ProtocolOptions`: the Prefix, Marker and MaxResults each copies. `Segments`: the service's answer (REST contract, as the protocol options' comments state it): the matching names not before Marker in name order, at most MaxResults (`DefaultMaxResults` 5000 if unset), possibly fewer with a NextMarker, none for a MaxResults below 1 (400). State: `items`, `changes` (other clients' creates and deletes, bounded), `method`, `options` (the caller's, Marker updated from each NextMarker), `listed`, `alive` (items that existed throughout), `done`. Actions: `ListSegment` (one call and the loop's update, as `ListBlobsOptions::Marker` documents), `CreateItem`, `DeleteItem` (other clients). |
| `StorageCall` | what one storage operation promises its caller (spec 4.1, 5, 8), without policies | State `body`, `cancelled`, `attempts` (the answers, in order), `outcome`. Actions `AAttempt(r)` (only while `MayAttempt`: no attempt yet, or a retryable last answer with budget left and a rewindable body, and never after cancellation), `ACancel`, `AReturn(o)` (`"cancelled"` only if cancelled; the last answer, classified, only when no further attempt is allowed). Weakly fair call steps. Not code; the specification `StoragePipeline` is checked against. |
| `PageBlobAbstract` | what `PageBlobClient` promises a caller, in pages: each call fails and changes nothing, or writes, clears, re-creates or resizes exactly the pages named | State: `length`, `pages` (written pages), `seq`, `call` (last call and its arguments). Actions `ACreate`, `AUploadPages`, `AClearPages`, `AResize`, `AGetPageRanges`. Not code; the specification `PageBlob` is checked against. |
| `PageBlob` | `PageBlobClient::Create`, `UploadPages`, `UploadPagesFromUri`, `ClearPages`, `Resize`, `GetPageRanges` (`page_blob_client.cpp`) by several clients on one blob, with another client's `CreateSnapshot` to diff against, and which of `BlobAccessConditions`/`PageBlobAccessConditions` (`blob_options.hpp`) each copies into the request | The client side is one operator per method building the protocol options (`<Op>ProtocolOptions`: the offset/length to inclusive `Range` arithmetic, and the conditions forwarded) and `GetPageRangesResult` (PageRanges and ClearRanges, inclusive ranges back to offset/length, by `PageRangesInfoOf`). `GetPageRangesOptionsOf` is the `GetPageRangesOptions` a caller passes: a window or none, unconditioned; or, once the snapshot exists, a diff of the whole blob against it (`PreviousSnapshot`), with or without `IfMatch`. The service applies a request atomically if its conditions hold (REST contract). State: `blob` (`length`, `pages`, `seq`, `etag`), `seen` (the ETag each client last listed), `snapshot` (its pages, once taken), `dirty` (the pages an applied write, clear, resize or re-create has touched since the snapshot, which a diff reports), `last` (the last call: client, op, arguments, conditions sent, the blob's ETag and sequence number before it, success, PageRanges and ClearRanges returned, PreviousSnapshot). One action per method; `Abstract` is `PageBlobAbstract` under the refinement mapping `length`, `pages`, `seq` from `blob` and `call` from `last`. |
| `ResponseHeaders` | the status check and header extraction of the 40 `<Op>ParseResponse` functions of `ShareRestClient::Service`, `Share`, `Directory` and `File` | Each function is a parser table: accepted status to the sequence of reads of that branch, each `at(name)`, `find(name)`-guarded, or the body. State: `op`, `status`, `headers` (names present), `pc` (next read), `assigned` (fields set), `outcome`. Actions: `CheckStatus`, `RejectStatus` (StorageError), `ReadHeader` (which throws std::runtime_error when an `AtEnum` read gets a value outside its `<Enum>FromString` table), `MissingHeader` (std::out_of_range), `SkipAbsentOptional`, `DecodeBody`, `Return`. The service's side is the constant `Responses`. |

| `ShareRequests` | the request builders of `ShareRestClient::Service`, `Share`, `Directory` and `File`: the 40 static `<Op>(url, pipeline, context, options)` functions up to `pipeline.Send` | A builder is data: its method, the resource the URL names, whether it has a body, and the sequence of its `AddHeader`/`AddQueryParameter` calls in source order, each a literal (`Const`), an options member always sent (`Field`), a Nullable sent only if `HasValue()` (`IfSet`), the metadata loop (`Meta`, header `c_HeaderMetadata + key`), or `std::to_string(body.Length())` (`BodyLength`). `Build` folds the calls over an empty request; a later `AddHeader` of the same name replaces the earlier one. Conversions: `DecimalString` (std::to_string), the `<Enum>ToString` tables, `ListSharesIncludeTypeToString` (flags joined with commas). Options are functions from member name to value, `NoValue` for an empty Nullable. |
| `ShareRestContract` | the service's side of a request (Azure Files REST reference; environment, not code) | `Route`: the operation the service performs, chosen by resource, method, `restype`, `comp` and the selecting headers (`x-ms-lease-action`, `x-ms-write`, `x-ms-copy-source`, `x-ms-type`, ...), `InvalidRequest` unless exactly one matches. `ServiceMetadata`: the metadata the service stores (`x-ms-meta-<name>` headers). `DeclaredLength`: Content-Length. `ServeLease`: the lease rules of Lease File and of the writes to a leased file. |
| `ShareCall` | one protocol-layer call: builder, routing by the service, ParseResponse | Extends `ResponseHeaders` with `options` and `request`: `CallInit` picks an operation and options, builds the request, and starts parsing a response the service sends for that operation; `CallNext` is the parser's steps. |
| `LeaseAbstract` | what a file lease promises its callers: one holder at most; fenced writes only by the holder, unfenced ones only with no holder | State `holder`, `lastWrite`. Actions `AAcquire`, `ARelease`, `ABreak`, `AWrite`. Not code; the specification `FileLease` is checked against. |
| `BlobContainer` | `BlobContainerClient::Create`, `Delete`, `GetProperties`, `SetMetadata`, `GetAccessPolicy`, `SetAccessPolicy` (`blob_container_client.cpp`) by several clients on one container | One operator per method, `<Op>ProtocolOptions`: the `IfModifiedSince`/`IfUnmodifiedSince` it copies from `ContainerAccessConditions`. The service (REST contract) applies a request if the container is in the needed state and its conditions hold on Last-Modified, a counter that grows with every applied change, across a delete and re-create too. State: `container` (`exists`, `lastModified`), `seenModified` (the Last-Modified each client's last GetProperties gave it), `clast` (the last container call: its client, op, the caller's conditions, the container before it, success). Action `ContainerCall(c, op)`. |
| `DataLakePath` | the seven operations of the DataLake `PathClient` (`path_client.cpp`), composed with `BlobContainer` (the file system is the container) | `<Op>ProtocolOptions`/`<Op>BlobOptions`: the `IfMatch`, `IfNoneMatch` and `LeaseId` each copies, to the dfs protocol layer (Create, Delete, SetAccessControl, GetAccessControls) or to the inner `BlobClient` (SetHttpHeaders, SetMetadata, GetProperties); `FromBlobLeaseState`/`FromBlobLeaseStatus` and `PathPropertiesOf` on GetProperties' result. State: `path` (`exists`, `etag`, `lease` state and id), `seenEtag` (the ETag of each client's last result), `plast` (the last path call). Actions: `PathCall(c, op)`; `LeaseStep`, another party leasing, breaking, ending or releasing the path's lease through the blob lease API; `ContainerStep`, a container call, where deleting the container deletes the path. |
| `FileLease` | `File::AcquireLease`, `ReleaseLease`, `ChangeLease`, `BreakLease`, `UploadRange` and `SetMetadata` by several clients on one file, each a whole call: the builder (`ShareRequests`), the service's lease rules (`ServeLease`), and the ParseResponse's status check and `LeaseId` read | State: `lease` (the service's: state and id), `held` (the lease id each client's last result gave it, passed to its later calls), `lastWrite` (the last accepted write: by whom, with a lease id or not), `unsure` (a lease call of the client threw a transport exception after its last successful one). One action per operation, with a fate `f` of `Fates`: answered, request lost (the service does nothing), or answer lost (the service acted); a lost one throws from `pipeline.Send` (`NoResponse`: no status reaches ParseResponse). A call whose status is not the expected one throws and changes nothing on the client. `Abstract` is `LeaseAbstract` with `holder` the owner of the service's lease id. |

MC modules (`MC*.tla`) instantiate these modules for TLC. `MCResponseHeaders`
also holds the service's header contract per operation (Azure Files REST
reference): headers always sent on success, and headers sent only
sometimes; and the options each builder is called with: for every
operation, all Nullables empty and all set, each enum at each of its
values, metadata empty and `{owner: v}`, and for `UploadRange` a
`ContentLength` of 0 and 512.

## 3. Runs

| run | cfg | expect | what it shows |
|---|---|---|---|
| `xml_decode` | `MCShareFileDecode.cfg` | pass | Every XML-bodied ParseResponse on the service's documents. List Shares: Prefix and MaxResults present or absent, 0 to 2 shares of two kinds (one with metadata; a deleted snapshot with a version and a large quota), NextMarker empty or not, and the empty body; each in five variants (plain; an unknown element under the root carrying an attribute and children named Prefix and Share; an unknown element inside every Share; an unknown element inside every Properties holding a non-numeric Quota; non-numeric MaxResults and Quota). Also Get Share ACL with up to two identifiers, Get Share Stats, Get Range List with up to two ranges of 32- and 64-bit offsets, List Handles of a directory and of a file with up to two handles, an empty directory listing, and empty bodies. 6970 states. Checked: `TypeOK`, `DepthTracksNesting` (the markers of all active frames always equal the document's nesting depth), `OutcomeMatchesDocument` (the result is what the document encodes, and an error only for a document that must not decode), `DecodingTerminates`. |
| `page_blob_conditions` | `MCPageBlob.cfg` | pass | Two clients on a blob of up to 3 pages, every offset and length from 0 to 3, with and without a GetPageRanges window, callers conditioning writes on the ETag of their last listing, one snapshot taken at any point. The clients are symmetric. 98937 distinct states, under a minute. Checked: `TypeOK`; `ListingMatchesBlob` (the ranges GetPageRanges returns cover exactly the written pages inside the window, and no two of them overlap or touch); `NoLostUpdate` (a write conditioned on an ETag applies only to the blob version that ETag names, so a client never overwrites a change it has not seen); `DiffRestoresBlob` (a caller that applies a GetPageRanges diff to a copy of the snapshot, writing its PageRanges and clearing its ClearRanges, gets the blob's pages back within its length, and every page touched since the snapshot that is now written is among the PageRanges); `RefinesAbstract` (every step of `PageBlob` is a step of `PageBlobAbstract` for the call the caller made, so no off-by-one in either conversion can write, clear or report a neighbouring page). |
| `page_blob_fencing` | `MCPageBlobFencing.cfg` | violation | Two clients conditioning writes on the sequence number. A client fenced out by a re-create with a higher sequence number still writes. Finding 6. |
| `pipeline_retry` | `MCStoragePipeline.cfg` | pass | The shared-key, token and anonymous constructors, and `CreateFromConnectionString` with and without an account key; one user policy on each side of Retry; bodies that are none, memory (rewindable) or a stream; answers 200, 404, 503 and transport failure; 3 attempts; a cancellation before the call or at any moment during it. Checked: `TypeOK`; `EveryAttemptAuthenticated` (each attempt that reaches the transport ran CommonHeaders and the constructor's authentication policy right before it, which holds only because every constructor in `src/` emplaces them after Retry; and a connection string's account key signs every attempt); `RefinesStorageCall` (the pipeline, Retry and ParseResponse implement `StorageCall`; what `src/` contributes is `ResponseOutcome`: the expected status gives the result, any other a StorageError, and a transport exception reaches the caller as one). 5565 states. |
| `response_headers` | `MCResponseHeaders.cfg` | pass | The 34 Service, Share, Directory and File operations whose ParseResponse reads agree with the service, each called with every sampled options struct (`ShareCall`). Each op gets its success response with every sometimes-sent header present, each one absent in turn, all absent, each always-sent header missing in turn, and a 404. 2755 distinct states. Checked: `RoutedToOwnOperation` (the service performs, for the request the builder makes, the operation the function is for); `ConformingResponseParses` (a response the service sends yields the result on success and StorageError otherwise, never out_of_range or an enum conversion's runtime_error); `ResultCarriesSentHeaders` (every header sent that the branch has a field for is in the result); `RequiredHeadersPresent` (a response lacking a required header is never returned as a result). |
| `header_lookups` | `MCHeaderLookups.cfg` | violation | Share, Directory and File GetProperties, File Download, and Directory and File ForceCloseHandles on the same kinds of responses: the first successful response throws out_of_range. Finding 7. |
| `request_contents` | `MCRequestContents.cfg` | violation | All 40 builders, each with its sampled options: what goes on the wire carries the caller's options (`RequestCarriesOptions`: `MetadataDelivered`, the metadata `{owner: v}` given to the eight builders that send metadata is stored by the service, and `ContentLengthMatchesBody`, the Content-Length a request declares is its body's length). TLC stops at Share Create, whose metadata the service does not store (finding 8); with `MetadataDelivered` alone it stops there too, and with `ContentLengthMatchesBody` alone at `File::UploadRange`, which declares a ContentLength of 512 and sends no body (finding 9); every other builder satisfies that part. |
| `file_lease` | `MCFileLease.cfg` | pass | Two clients, each with two lease ids to propose, calling AcquireLease, ChangeLease, ReleaseLease, BreakLease, UploadRange and SetMetadata on one file in any order, any request or answer of which may be lost. 815 states. Checked: `TypeOK`; `ClientKnowsItsLease` (the client whose lease is on the file holds its current id, after any sequence of acquires, changes, breaks and releases, unless one of its lease calls threw a transport exception since its last successful one: an applied Acquire or Change whose answer is lost leaves the caller with its old id while the file is leased under the new one, and a later 409 does not reveal it); `RefinesLeaseAbstract` (the calls implement an exclusive write lock: a write with a lease id is accepted only from the holder and one without only when nobody holds the lease, including a client whose id another client's break has made stale). |
| `field_decode` | `MCFieldDecode.cfg` | violation | A directory listing with one directory and one file decodes with empty names and a zero Content-Length; Get Share Stats with a usage of 3000000000 bytes throws; a List Shares body cut after any event is returned as a shorter listing instead of raising (spec section 9 open question); the bodies `Service::SetProperties` and `Share::SetAccessPolicy` write, read back with their own decoders, give a metrics or retention flag written `false` as `true` and lose the access policies (`RoundTripInputs`). TLC reports the first violating input; each input set was seen violating with the others removed from `FieldInputs`. Findings 1 to 5. |
| `container_path` | `MCDataLakePath.cfg` | pass | Two clients calling the six container methods and the seven path methods in any order, while another party leases and breaks the path; `Delete` and `SetAccessPolicy` callers may fence on Last-Modified. 62261 states. Checked: `TypeOK`; `ContainerOutcomeFollowsConditions` (a container call succeeds exactly when the container is in the state it needs and every Last-Modified condition the caller set holds, so a fenced write never overwrites or deletes a container another client changed since); `PathOutcomeFollowsConditions` (a path call succeeds exactly when the file system and the path exist and the caller's ETag, IfNoneMatch and lease id conditions hold, whether it goes to the dfs or the blob endpoint, and after a delete of the whole file system); `GetPropertiesReportsLease` (the lease state and status GetProperties returns are those of the path when it was read). |
| `segmented_listing` | `MCSegmentedListing.cfg` | pass | One caller listing with each of the three listing methods, prefix "a", "b" or none, MaxResults 1, 2 or unset, over any initial set of four names, while other clients make up to two creates or deletes. 11034 states. Checked: `TypeOK`; `ListedSound` (only names with the caller's prefix, in strictly increasing order across segments, so none twice); `ListingComplete` (once NextMarker is empty, every item with the prefix that existed throughout the listing was returned exactly once, even when segments ended early); `ListingTerminates` (liveness: the loop reaches an empty NextMarker). |
| `container_set_metadata` | `MCContainerSetMetadata.cfg` | violation | As above, with SetMetadata callers fencing on IfUnmodifiedSince, which its options offer: the call overwrites a container modified since. Finding 10. |

**Mutants.** Every property of a passing run has a mutant in
`PROJECT.json`: a bug variant defined next to the definition it replaces,
which TLC must catch. The variants are:

- a caller that does not pop after a nested call;
- `atoi`-style conversion, and `std::stoi` for the 64-bit range offsets;
- a loop that does not stop at End;
- an exception that leaves frames;
- a retry budget one attempt too large;
- authentication placed outside the retry boundary;
- CreateFromConnectionString dropping the parsed key;
- a ParseResponse that reports a transport exception as a service error;
- ListBlobsFlat not copying the Marker; ListSharesSegment sending a
  MaxResults of 0; a MaxResults declared as a plain `int32_t` defaulting
  to 0; a listing loop that stops on a segment shorter than MaxResults;
- `offset + length` as the inclusive range end, in UploadPages and in
  GetPageRanges;
- `second - first` as a listed range's length;
- GetPageRanges without its ClearRanges loop;
- UploadPages not forwarding IfMatch;
- Directory Delete expecting 200 instead of 202;
- a `find` guard that skips the header even when present;
- an `at` that leaves the default when the header is absent;
- Share SetQuota without its `comp=properties` query parameter;
- File SetMetadata without its lease id header;
- a lease ParseResponse that checks for 200 OK instead of its own status;
- ChangeLease's result with `LeaseId` left unassigned;
- container Delete not forwarding IfModifiedSince;
- path SetHttpHeaders not forwarding the lease id to the blob client;
- `FromBlobLeaseState` mapping Breaking to Leased, and
  `FromBlobLeaseStatus` missing its Locked case.

## 4. Bounds and why they are enough

**Decoder.** Every branch of the loop is exercised at every nesting level
the decoders have: root, nested item, doubly nested properties or policy,
and metadata. The same holds for every kind of text/attribute/unknown-element
placement. Two items are enough to see `emplace_back` order and a second
nested call on the same reader. Strings are model-level names; only their
equality matters to the decoder.

**Numerals.** Numerals are a table from text to value and bit width, so
`std::stoi`'s int32 width is kept without TLC computing 2^31. A 64-bit
value is represented scaled down, with its width kept.

**Pipeline.** Three attempts let a call exhaust the budget with two
retries: 503, 503, 503. One user policy on each side of the boundary makes
"outer once, inner every attempt" observable. A single call is modelled.
Policies are immutable after construction, and calls share no mutable
pipeline state (spec section 5), so concurrent calls do not interact in
what is modelled.

**Page blob.** Three pages give two separate runs of written pages with a
gap, the smallest case where a listing can merge, split or shift a range.
Every offset and length up to `MaxLength` is tried, so zero lengths,
single pages and ranges ending at the blob's end all occur. Two clients
are the smallest case of a lost update or a fenced writer. `MaxEtag = 2`
bounds the number of applied writes (a named bound in every write's
guard); two are enough for list, foreign write, stale write, and for
snapshot, clear, rewrite, diff. One snapshot is enough for a diff. The
plain listings are unconditioned and the diffs cover the whole blob:
windows and the read conditions multiply the recorded calls, and the
windowed range is the same code for both kinds. `MaxSeq = 1` in the
fencing run gives one re-create with a higher sequence number; the
conditions run has `MaxSeq = 0`, since no property there reads it.

**Requests.** Each builder is called with all its Nullables empty and
with all of them set, and with every value of each enum it converts:
every `if (HasValue())` branch and every literal is taken. The calls are
independent of one another except where two add the same header
(UploadRange's content-length), so two option sets per operation are
enough for routing and for the body length. Values are one sample string
or integer: only presence and the header name matter to routing.

**Lease.** Two clients are the smallest case of a stale lease id; two
ids per client give a ChangeLease to a new id and a re-acquire with a
different one. The writes are sent with the id the client holds, or none.
Every call may lose its request or its answer: that is the end of a call
whose retries are spent, and one lost answer after an applied Acquire is
the shortest path to a caller that does not know it holds the lease.
Duplicated deliveries (a retry after an applied attempt) are left out:
the answer to a repeated ChangeLease depends on service behaviour the
REST contract modelled here does not state.

**Container and path.** Two clients are the smallest case of a fenced
write after another client's change. `MaxModified = 2` and `MaxEtag = 2`
bound the applied changes (a named bound in the guard of each applied
change; refused calls are not bounded). Two changes reach the stale-fence
case: create, which the caller reads, another client's change, then the
fenced call, which must be refused. The violation run raises
`MaxModified` to 3 so that the fenced SetMetadata that gets through can
be applied. One lease id suffices: what
matters is whether the caller names the active lease's id or none, and
an id named after the lease ended. `IfNoneMatch "*"` is offered on
Create, the one method where it decides anything. Clients are symmetric.

**Listing.** Four names, two prefixes of two names each and no prefix:
a prefix filter that cuts the name space and one that does not. Segments
of one or two items over up to four names give three or more segments,
early ends and NextMarkers that name an item another client then deletes
or that a create lands before or after. Two changes are enough for one
on each side of the marker. Names hold no delimiter: ListBlobsByHierarchy
then lists like ListBlobsFlat.

**Headers.** Header values are abstracted to presence, except for
`x-ms-copy-status` and the `x-ms-lease-*` headers. Those are converted by an
`<Enum>FromString` function that throws `std::runtime_error` on a string it
does not know. For them `ReadHeader` picks any value the REST reference says
the service sends (`ServiceValues`). The other conversions (`std::stoi`,
`std::stoll`, `== "true"`) are total on the values the service sends. Absent
headers are what make `at()` fail. One optional header absent at a time
(plus all absent) reaches every `at()` of an optional header, since reads
are independent and the first failing one ends the call.

## 5. Fairness

**Decoder and header extraction.** `WF_vars(Next)`: decoding runs
synchronously on the caller's thread.

**Pipeline.** `WF_vars(CallStep)`: the call's own steps are weakly fair for
the same reason. `Cancel` has no fairness, because the caller need not
cancel.

**Page blob.** No fairness, and no liveness property: clients call
whenever they like, and nothing in the code waits.

**Lease.** No fairness and no liveness property: clients call whenever
they like. Every call is always enabled (a refused call is a step that
returns an error), so deadlock is checked.

**Container and path.** No fairness and no liveness property, for the
same reason as the lease. Every call is always enabled, so deadlock is
checked.

**Listing.** `WF_vars(ListSegment)`: the caller's loop runs on its own
thread until NextMarker is empty, and every call is answered (faults are
the pipeline's subject). The other clients have no fairness; their
changes are bounded by `MaxChanges`, so the listing cannot be starved.
`CHECK_DEADLOCK FALSE`: the model stops when the listing is done.

**Deadlock.** The decoder, pipeline and header specs stop once the call
has returned, so their cfgs say `CHECK_DEADLOCK FALSE`. The page-blob
specs check deadlock: `GetPageRanges` is always enabled.

## 6. Findings

1. **code_bug** (`share_rest_client.hpp:1468`, also 1388, 1472, 1933).
   `result.Enabled = node.Value;` assigns a `const char*` to a `bool`, so
   the field is always true. GetProperties reports disabled metrics and
   retention as enabled, and a `<Deleted>false</Deleted>` in a List Shares
   body would read as deleted.
2. **spec_code_divergence** (`share_rest_client.hpp:1963`). The decoders
   stop at End without checking that the path is empty. A truncated
   document decodes to a partial result instead of a decode error.
3. **code_bug** (`share_rest_client.hpp:3689`). `DirectoryItemFromXml` and
   `FilePropertyFromXml` track their tags but have no text branch, so
   List Directories and Files returns every directory with an empty name
   and every file with Content-Length 0.
4. **code_bug** (`share_rest_client.hpp:2985`). `SignedIdentifierToXml`
   writes `<AccessPolicy>` and then calls `AccessPolicyToXml`, which writes
   another. `SetAccessPolicy` sends `AccessPolicy/AccessPolicy/Start`, and
   the policy's Start, Expiry and Permission are lost.
5. **code_bug** (`share_rest_client.hpp:3077`). `ShareUsageBytes` is decoded
   with `std::stoi` into an int32. A share of 2^31 bytes or more makes
   GetStatistics throw.
6. **code_bug** (`page_blob_client.cpp:87`, also 111 and 127). UploadPages,
   UploadPagesFromUri and ClearPages never copy the
   `IfSequenceNumber*` conditions of `PageBlobAccessConditions` into the
   request. A writer fenced out by a newer sequence number still writes.
7. **code_bug** (`share_rest_client.hpp:2560`, also 3574, 5451, 5503, 5565;
   and 6240, 4278). Share, Directory and File GetProperties and File
   Download do `GetHeaders().at("x-ms-meta")`. The service sends metadata
   as `x-ms-meta-<name>` and never a header named `x-ms-meta`, so every
   successful call throws `std::out_of_range`. Behind it, Download and File
   GetProperties read other headers sent only sometimes with `at()`:
   - Content-Encoding, Cache-Control, Content-Disposition and
     Content-Language;
   - the copy-* headers and x-ms-lease-duration;
   - Content-Range on a 200;
   - `x-ms-request-server-encrypted`, where the Get operations answer
     `x-ms-server-encrypted`.

   Share GetProperties reads the Provisioned* headers, which only premium
   shares send. ForceCloseHandles reads `x-ms-marker` with `at()`; the
   service sends it only while handles remain, so the response that ends a
   force-close throws.

8. **code_bug** (`share_rest_client.hpp:66`; the builders at 2106, 2228,
   2373, 3160, 3335, 4392, 4699, 5208). `c_HeaderMetadata` is
   `"x-ms-meta"`, and the builders add `c_HeaderMetadata + key`, so
   metadata `{owner: v}` is sent as the header `x-ms-metaowner`. The
   service stores no metadata from Create or SetMetadata of shares,
   directories and files, and the call still succeeds.
9. **code_bug** (`share_rest_client.hpp:4955`, 4968). `File::UploadRange`
   builds `Request(Put, url)` without a body stream, then sets
   `content-length` to `ContentLength`, replacing the `"0"` it set first.
   Its options have no member for the data, so no range can be uploaded:
   the request declares bytes it does not carry.

10. **spec_code_divergence** (`blob_container_client.cpp:176`).
    `SetBlobContainerMetadataOptions` carries `ContainerAccessConditions`,
    documented as "Optional conditions that must be met to perform this
    operation" (`blob_options.hpp:266`), which include
    `IfUnmodifiedSince`. `BlobContainerClient::SetMetadata` copies only
    `LeaseId` and `IfModifiedSince`. A caller's `IfUnmodifiedSince` is
    dropped without an error, and its fenced write overwrites a change
    another client made.

## 7. Not modelled, and why

- **Blob and DataLake request builders.** The blob protocol layer is not
  in this repository's `src/`; `PageBlob` and `BlobContainer` model which
  options the page blob and container clients copy into it.
- **BlobClient and the DataLake protocol layer.** They are not in this
  repository's `src/`. `DataLakePath` models what `PathClient` hands them
  and takes them to send it.
- **Listing payloads.** `SegmentedListing` keeps only item names: the
  Include flags, item properties and metadata, and the BlobPrefix entries
  of a hierarchy listing (names with a delimiter) are data.
- **Duplicated lease requests.** A retry of a ChangeLease the service has
  already applied names the replaced id; whether the service accepts that
  repeat is not in the REST contract modelled here, so `FileLease` loses
  requests and answers but never delivers one twice.
- **Path payloads.** ACLs, HTTP headers and metadata written are data.
  `GetAccessControls` throws when a 200 carries no ACL; the model takes the
  service to send one.
- **PageBlobClient's other methods.** `StartCopyIncremental` is a
  service-side copy. `PreviousSnapshotUrl` (a diff against a managed
  disk's snapshot) is forwarded like `PreviousSnapshot` and not modelled
  separately. The snapshot itself is taken by `BlobClient::CreateSnapshot`,
  which is not in this repository: `CreateSnapshot` models its effect on
  the service. `WithSnapshot` and the connection-string constructor
  build URLs.
- **Split text nodes in metadata.** `MetadataFromXml` moves its key on
  the first text node; a second text node of one element would land under
  an empty key. The service writes each metadata value as a single text
  node; only CDATA or comments inside a value would split it.
- **Left out for good.** Connection-string parsing (`ParseConnectionString`,
  not in `src/`) and URL building are string processing; only which
  constructor `CreateFromConnectionString` then runs is modelled. They are a non-goal of the spec. Option and response
  declarations are data.
- **Abstracted in the pipeline.** Backoff timing, token refresh and header
  contents are abstracted; only what each policy does to the order of
  steps is kept.
- **Retry, rewind and cancellation.** `RetryPolicy`, `TransportPolicy` and
  `BodyStream::Rewind` are azure-core. `StoragePipeline` runs them as the
  spec describes so that the policy order the constructors build and the
  status check of `<Op>ParseResponse` can be checked; properties that
  would only restate their guards (retry budget, no re-send of a stream
  body, no attempt after cancellation, termination of the retry loop) are
  not checked, since no code of this repository can make them fail. The
  repository only hands the caller's stream and Context on.

## 8. Plan

Done: `TagPathDecoder` with all decoder schemas and documents;
`StoragePipeline`; `PageBlob` refining `PageBlobAbstract`;
`ResponseHeaders`; `ShareRequests` with `ShareCall`; `FileLease`
refining `LeaseAbstract`; `BlobContainer` composed with `DataLakePath`;
`StoragePipeline` refining `StorageCall`; lost requests and answers on
the file lease calls; `SegmentedListing`; the enum conversions of the
header reads; GetPageRanges diffs against a snapshot.

Next, in order of importance:

1. An abstract spec of conditional access (a write applies only to the
   version the caller saw), with `PageBlob` and `DataLakePath` refining it.
2. Split text nodes in `MetadataFromXml` documents.
