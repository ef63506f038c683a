-------------------------- MODULE ShareRestContract --------------------------
(***************************************************************************)
(* The Azure Files service's reading of a request (REST reference): the   *)
(* operation it performs, chosen by the resource the URL names, the HTTP  *)
(* method, the restype and comp query parameters and, where those tie,    *)
(* one header; the metadata it stores; the body it reads.  This is the    *)
(* environment of the request builders, not code of the repository.       *)
(***************************************************************************)
EXTENDS ShareRequests

Q(r, n) == IF n \in DOMAIN r.query THEN r.query[n] ELSE NoValue
Hdr(r, n) == IF n \in DOMAIN r.headers THEN r.headers[n] ELSE NoValue

AnyValue == "<any value>"

(* One operation of the contract: the request parts that select it.      *)
(* "with" gives headers that must be present (with the value, or AnyValue);    *)
(* "without" headers that must be absent.                                  *)
E(o, t, m, restype, comp, with, without) ==
  [op |-> o, target |-> t, method |-> m, restype |-> restype, comp |-> comp,
   with |-> with, without |-> without]
N == NoValue
ActionIs(a) == "x-ms-lease-action" :> a

Operations ==
  {E("ServiceSetProperties", "service", "PUT", "service", "properties", <<>>, {}),
   E("ServiceGetProperties", "service", "GET", "service", "properties", <<>>, {}),
   E("ServiceListSharesSegment", "service", "GET", N, "list", <<>>, {}),
   E("ShareCreate", "share", "PUT", "share", N, <<>>, {}),
   E("ShareGetProperties", "share", "GET", "share", N, <<>>, {}),
   E("ShareDelete", "share", "DELETE", "share", N, <<>>, {}),
   E("ShareCreateSnapshot", "share", "PUT", "share", "snapshot", <<>>, {}),
   E("ShareCreatePermission", "share", "PUT", "share", "filepermission", <<>>, {}),
   E("ShareGetPermission", "share", "GET", "share", "filepermission", <<>>, {}),
   E("ShareSetQuota", "share", "PUT", "share", "properties", <<>>, {}),
   E("ShareSetMetadata", "share", "PUT", "share", "metadata", <<>>, {}),
   E("ShareGetAccessPolicy", "share", "GET", "share", "acl", <<>>, {}),
   E("ShareSetAccessPolicy", "share", "PUT", "share", "acl", <<>>, {}),
   E("ShareGetStatistics", "share", "GET", "share", "stats", <<>>, {}),
   E("ShareRestore", "share", "PUT", "share", "undelete", <<>>, {}),
   E("DirectoryCreate", "directory", "PUT", "directory", N, <<>>, {}),
   E("DirectoryGetProperties", "directory", "GET", "directory", N, <<>>, {}),
   E("DirectoryDelete", "directory", "DELETE", "directory", N, <<>>, {}),
   E("DirectorySetProperties", "directory", "PUT", "directory", "properties", <<>>, {}),
   E("DirectorySetMetadata", "directory", "PUT", "directory", "metadata", <<>>, {}),
   E("DirectoryListFilesAndDirectoriesSegment", "directory", "GET", "directory", "list", <<>>, {}),
   E("DirectoryListHandles", "directory", "GET", N, "listhandles", <<>>, {}),
   E("DirectoryForceCloseHandles", "directory", "PUT", N, "forceclosehandles",
     "x-ms-handle-id" :> AnyValue, {}),
   E("FileCreate", "file", "PUT", N, N, "x-ms-type" :> "file", {"x-ms-copy-source"}),
   E("FileDownload", "file", "GET", N, N, <<>>, {}),
   E("FileGetProperties", "file", "HEAD", N, N, <<>>, {}),
   E("FileDelete", "file", "DELETE", N, N, <<>>, {}),
   E("FileSetHTTPHeaders", "file", "PUT", N, "properties", <<>>, {}),
   E("FileSetMetadata", "file", "PUT", N, "metadata", <<>>, {}),
   E("FileAcquireLease", "file", "PUT", N, "lease", ActionIs("acquire"), {}),
   E("FileReleaseLease", "file", "PUT", N, "lease", ActionIs("release") @@ ("x-ms-lease-id" :> AnyValue), {}),
   E("FileChangeLease", "file", "PUT", N, "lease", ActionIs("change") @@ ("x-ms-lease-id" :> AnyValue), {}),
   E("FileBreakLease", "file", "PUT", N, "lease", ActionIs("break"), {}),
   E("FileUploadRange", "file", "PUT", N, "range", "x-ms-write" :> AnyValue, {"x-ms-copy-source"}),
   E("FileUploadRangeFromURL", "file", "PUT", N, "range",
     ("x-ms-write" :> "update") @@ ("x-ms-copy-source" :> AnyValue), {}),
   E("FileGetRangeList", "file", "GET", N, "rangelist", <<>>, {}),
   E("FileStartCopy", "file", "PUT", N, N, "x-ms-copy-source" :> AnyValue, {"x-ms-type"}),
   E("FileAbortCopy", "file", "PUT", N, "copy", "x-ms-copy-action" :> "abort", {}),
   E("FileListHandles", "file", "GET", N, "listhandles", <<>>, {}),
   E("FileForceCloseHandles", "file", "PUT", N, "forceclosehandles", "x-ms-handle-id" :> AnyValue, {})}

(* Every request names the service version it is written against. *)
Selects(e, r) ==
  /\ e.target = r.target /\ e.method = r.method
  /\ Q(r, "restype") = e.restype /\ Q(r, "comp") = e.comp
  /\ "x-ms-version" \in DOMAIN r.headers
  /\ \A h \in DOMAIN e.with : Hdr(r, h) # NoValue /\ (e.with[h] = AnyValue \/ Hdr(r, h) = e.with[h])
  /\ \A h \in e.without : Hdr(r, h) = NoValue

(* The operation the service performs; a request that selects none (or, *)
(* in a faulty contract, several) is answered 400 InvalidQueryParameter-  *)
(* Value / MissingRequiredHeader.                                          *)
Route(r) ==
  LET sel == {e \in Operations : Selects(e, r)}
  IN  IF Cardinality(sel) = 1 THEN (CHOOSE e \in sel : TRUE).op ELSE "InvalidRequest"

(* Metadata: one x-ms-meta-<name> header per pair.  The service reads    *)
(* the pairs whose names are among keys.                                   *)
ServiceMetadata(r, keys) ==
  [k \in {x \in keys : "x-ms-meta-" \o x \in DOMAIN r.headers} |-> r.headers["x-ms-meta-" \o k]]

(* The service reads exactly Content-Length bytes of body. *)
DeclaredLength(r) == Hdr(r, "content-length")

-----------------------------------------------------------------------------
(* Lease File and the lease checks of the file operations (REST): a file *)
(* lease is infinite; it is available, leased with an id, or broken.       *)
(* Acquire takes an available or broken lease, or re-acquires with the    *)
(* current id; Release and Change need the current id; Break ends a lease; *)
(* a write to a leased file needs its id, and a write that names an id    *)
(* fails on a file that is not leased.                                     *)
NoLease == [state |-> "available", id |-> NoValue]
Served(s, l, hs) == [status |-> s, lease |-> l, headers |-> hs]
LeaseIdHeader(id) == "x-ms-lease-id" :> id

ServeLease(l, r, success) ==
  LET o == Route(r)
      given == Hdr(r, "x-ms-lease-id")
      proposed == Hdr(r, "x-ms-proposed-lease-id")
      leased == l.state = "leased"
  IN  CASE o = "FileAcquireLease" ->
             IF proposed # NoValue /\ (~leased \/ proposed = l.id)
             THEN Served(201, [state |-> "leased", id |-> proposed], LeaseIdHeader(proposed))
             ELSE Served(409, l, <<>>)
        [] o = "FileReleaseLease" ->
             IF leased /\ given = l.id THEN Served(200, NoLease, <<>>) ELSE Served(409, l, <<>>)
        [] o = "FileChangeLease" ->
             IF leased /\ given = l.id /\ proposed # NoValue
             THEN Served(200, [l EXCEPT !.id = proposed], LeaseIdHeader(proposed))
             ELSE Served(409, l, <<>>)
        [] o = "FileBreakLease" ->
             CASE l.state = "available" -> Served(409, l, <<>>)
               [] given # NoValue /\ given # l.id -> Served(412, l, <<>>)
               [] OTHER -> Served(202, [state |-> "broken", id |-> NoValue], LeaseIdHeader(l.id))
        [] o \in {"FileUploadRange", "FileSetMetadata", "FileSetHTTPHeaders"} ->
             IF (leased /\ given = l.id) \/ (~leased /\ given = NoValue)
             THEN Served(success[o], l, <<>>) ELSE Served(412, l, <<>>)
        [] OTHER -> Served(400, l, <<>>)

=============================================================================
