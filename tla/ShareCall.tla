------------------------------ MODULE ShareCall ------------------------------
(***************************************************************************)
(* One call of a ShareRestClient operation end to end: the static         *)
(* <Op>(url, pipeline, context, options) builds the request from the      *)
(* options (ShareRequests), pipeline.Send delivers it to the service      *)
(* (ShareRestContract), and <Op>ParseResponse reads the answer            *)
(* (ResponseHeaders).                                                      *)
(***************************************************************************)
EXTENDS ResponseHeaders, ShareRestContract

CONSTANTS
  OptionsOf,      \* for each operation, the options structs a caller passes
  MetadataKeys    \* the metadata names those options use

VARIABLES options, request

callVars == <<vars, options, request>>

(* The builder runs, pipeline.Send returns the service's response, and   *)
(* ParseResponse starts on it.                                             *)
CallInit ==
  /\ op \in Ops
  /\ options \in OptionsOf[op]
  /\ request = RequestFor(op, options)
  /\ \E r \in Responses : r.op = op /\ status = r.status /\ headers = r.headers
  /\ pc = 0
  /\ assigned = {}
  /\ outcome = "running"

CallNext == Next /\ UNCHANGED <<options, request>>

CallSpec == CallInit /\ [][CallNext]_callVars /\ WF_callVars(CallNext)

-----------------------------------------------------------------------------
(* The service performs the operation the builder is for: method,        *)
(* restype, comp and the selecting headers (x-ms-type, x-ms-lease-action, *)
(* x-ms-copy-source, x-ms-copy-action, x-ms-handle-id) of every builder    *)
(* pick out exactly that operation, whichever options are set.            *)
RoutedToOwnOperation == Route(request) = op

(* Every metadata pair in the options reaches the service as metadata:   *)
(* the Create, CreateSnapshot, SetMetadata and StartCopy builders add one *)
(* header per pair of the Metadata map.                                    *)
MetadataDelivered ==
  "Metadata" \in DOMAIN options => ServiceMetadata(request, MetadataKeys) = options.Metadata

(* The request's Content-Length is the length of the body it carries: the *)
(* service reads that many bytes, and a body shorter than announced never *)
(* completes.                                                              *)
ContentLengthMatchesBody ==
  DeclaredLength(request) # NoValue => DeclaredLength(request) = DecimalString(request.bodyLength)

(* What a builder puts on the wire carries the caller's options: its     *)
(* metadata as metadata and a Content-Length that is its body's length.  *)
RequestCarriesOptions == MetadataDelivered /\ ContentLengthMatchesBody

=============================================================================
