-------------------------- MODULE PageBlobAbstract --------------------------
(***************************************************************************)
(* What PageBlobClient promises about a page blob's contents, stated in    *)
(* the caller's terms (offset and length in pages).  Every call either     *)
(* fails and changes nothing, or:                                          *)
(*   Create(n, len)         an empty blob of len pages, sequence number n; *)
(*   UploadPages(o, l)      pages o .. o+l-1 become written (l >= 1, the   *)
(*                          pages inside the blob);                        *)
(*   ClearPages(o, l)       pages o .. o+l-1 become clear;                 *)
(*   Resize(len)            the blob is len pages; pages past it are gone. *)
(* `call` is the caller's last call and its arguments.                     *)
(***************************************************************************)
EXTENDS Integers

CONSTANTS MaxLength, MaxSeq

VARIABLES length, pages, seq, call

avars == <<length, pages, seq, call>>

Called(op, o, l) == call' = [op |-> op, offset |-> o, length |-> l]

(* The caller's offset and length of the call being made. *)
Args(ops) == call'.op \in ops /\ call'.offset \in 0..MaxLength /\ call'.length \in 0..MaxLength

(* A call that fails leaves the blob as it was. *)
Fails == UNCHANGED <<length, pages, seq>>

Span(o, l) == o .. (o + l - 1)

InBlob(o, l) == l >= 1 /\ o >= 0 /\ o + l <= length

AInit ==
  /\ length \in 0..MaxLength /\ pages = {} /\ seq = 0
  /\ call = [op |-> "none", offset |-> 0, length |-> 0]

ACreate == \E n \in 0..MaxSeq, len \in 0..MaxLength :
             /\ Called("Create", 0, len)
             /\ \/ length' = len /\ pages' = {} /\ seq' = n
                \/ Fails

(* UploadPages and UploadPagesFromUri (at the destination offset). *)
AUploadPages == /\ Args({"UploadPages", "UploadPagesFromUri"})
                /\ LET o == call'.offset
                       l == call'.length
                   IN  \/ InBlob(o, l) /\ pages' = pages \cup Span(o, l) /\ UNCHANGED <<length, seq>>
                       \/ Fails

AClearPages == /\ Args({"ClearPages"})
               /\ LET o == call'.offset
                      l == call'.length
                  IN  \/ InBlob(o, l) /\ pages' = pages \ Span(o, l) /\ UNCHANGED <<length, seq>>
                      \/ Fails

AResize == \E len \in 0..MaxLength :
             /\ Called("Resize", 0, len)
             /\ \/ length' = len /\ pages' = {p \in pages : p < len} /\ UNCHANGED seq
                \/ Fails

(* GetPageRanges reads. *)
AGetPageRanges == call'.op = "GetPageRanges" /\ Fails

ANext == ACreate \/ AUploadPages \/ AClearPages \/ AResize \/ AGetPageRanges

ASpec == AInit /\ [][ANext]_avars

=============================================================================
