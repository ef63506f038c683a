---------------------------- MODULE TagPathDecoder ----------------------------
(***************************************************************************)
(* The streaming tag-path walker of share_rest_client.hpp.  A              *)
(* <Op>ParseResponse function hands the response body to XmlReader and     *)
(* calls the root <Type>FromXml(reader); that function loops on            *)
(* reader.Read(), keeps a vector `path` of XmlTagName markers, and on a    *)
(* start tag whose path names a nested aggregate calls that aggregate's    *)
(* <Type>FromXml with the SAME reader, then pops its own marker.  A nested *)
(* call returns when it reads an end tag with an empty path (the end tag   *)
(* of the element that started it) or the End of the document.            *)
(*                                                                         *)
(* The state is the reader position and the stack of active <Type>FromXml *)
(* frames (schema, path, partial result, and MetadataFromXml's key).       *)
(* One action per branch of the loop body.  The documents fed to the       *)
(* reader, and what they encode, are the constant Inputs.                  *)
(***************************************************************************)
EXTENDS Integers, Sequences, SequencesExt, XmlEvents

CONSTANTS
  Schemas,     \* [decoder name -> schema record], see ShareXmlSchemas
  Inputs       \* set of [root |-> the decoder the ParseResponse function calls,
               \*         body |-> reader events, expected |-> value or DecodeError]

VARIABLES
  body,      \* events the XmlReader yields for the response body
  expected,  \* what the body encodes (or DecodeError)
  pos,       \* index in body of the event the next reader.Read() returns
  stack,     \* the active <Type>FromXml frames, innermost last
  outcome,   \* "running", "done" or "error"
  decoded    \* the aggregate handed back to ParseResponse

vars == <<body, expected, pos, stack, outcome, decoded>>

Event == body[pos]
Top == stack[Len(stack)]
Schema(f) == Schemas[f.schema]

NewFrame(s) == [schema |-> s, path |-> <<>>, result |-> Schemas[s].init, key |-> ""]

(* The enum lookup of the start-tag branch: a name the function's          *)
(* XmlTagName does not list becomes c_Unknown.                             *)
Marker(f, name) == IF name \in Schema(f).tags THEN name ELSE Unknown

(***************************************************************************)
(* Text conversions, as the generated code writes them:                    *)
(*   "string"  result.X = node.Value;          (copy)                      *)
(*   "int32"   result.X = std::stoi(node.Value); throws invalid_argument   *)
(*             on text that is not a numeral and out_of_range on a value   *)
(*             beyond int32_t                                              *)
(*   "int64"   result.X = std::stoll(node.Value); the same for int64_t     *)
(*   "bool"    result.X = node.Value;  node.Value is a const char*, and a  *)
(*             pointer converts to bool as (pointer != nullptr): a text    *)
(*             node always has a value, so the field becomes true.         *)
(***************************************************************************)
IntWidth == [int32 |-> 32, int64 |-> 64]

(* Bug variant: an atoi-style conversion that yields 0 on bad text. *)
ConvertedAtoi(conv, v) ==
  CASE conv \in DOMAIN IntWidth ->
         [ok |-> TRUE, val |-> IF v \in DOMAIN Numerals THEN Numerals[v].val ELSE 0]
    [] OTHER -> [ok |-> TRUE, val |-> IF conv = "bool" THEN TRUE ELSE v]

Converted(conv, v) ==
  CASE conv = "string" -> [ok |-> TRUE, val |-> v]
    [] conv \in DOMAIN IntWidth ->
         IF v \in DOMAIN Numerals /\ Numerals[v].bits <= IntWidth[conv]
         THEN [ok |-> TRUE, val |-> Numerals[v].val]
         ELSE [ok |-> FALSE, val |-> 0]
    [] conv = "bool"   -> [ok |-> TRUE, val |-> TRUE]

TextRulesAt(f) == {r \in Schema(f).text : r.path = f.path}
CallAt(f, p) == {c \in Schema(f).nested : c.path = p}

Running == outcome = "running"

WithTop(f) == [stack EXCEPT ![Len(stack)] = f]

(***************************************************************************)
(* A frame breaks out of its loop: on End, or on an end tag read with an   *)
(* empty path.  The root frame's result goes to ParseResponse; a nested    *)
(* frame's result is stored by its caller (`result.X = ...FromXml(reader)` *)
(* or `result.X.emplace_back(...)`), which then pops its own marker.       *)
(***************************************************************************)
(* Bug variant: a loop without `if (node.Type == XmlNodeType::End) break;`. *)
BreaksWithoutEnd == Event.type = "EndTag" /\ Top.path = <<>>

Breaks == Event.type = "End" \/ (Event.type = "EndTag" /\ Top.path = <<>>)
AfterBreak == IF Event.type = "End" THEN pos ELSE pos + 1

Stored(caller, value) ==
  LET c == CHOOSE c \in CallAt(caller, caller.path) : TRUE
  IN IF c.field = Whole
     THEN Append(caller.result, value)
     ELSE [caller.result EXCEPT ![c.field] = IF c.mode = "append" THEN Append(@, value)
                                                                 ELSE value]

ReturnFromRoot ==
  /\ Running /\ Breaks /\ Len(stack) = 1
  /\ pos' = AfterBreak
  /\ outcome' = "done"
  /\ decoded' = Top.result
  /\ stack' = <<>>
  /\ UNCHANGED <<body, expected>>

(* Bug variant: the caller omits `path.pop_back()` after the nested call. *)
ReturnToCallerNoPop ==
  /\ Running /\ Breaks /\ Len(stack) > 1
  /\ pos' = AfterBreak
  /\ LET caller == stack[Len(stack) - 1]
     IN stack' = Append(SubSeq(stack, 1, Len(stack) - 2),
                        [caller EXCEPT !.result = Stored(caller, Top.result)])
  /\ UNCHANGED <<body, expected, outcome, decoded>>

ReturnToCaller ==
  /\ Running /\ Breaks /\ Len(stack) > 1
  /\ pos' = AfterBreak
  /\ LET caller == stack[Len(stack) - 1]
     IN stack' = Append(SubSeq(stack, 1, Len(stack) - 2),
                        [caller EXCEPT !.result = Stored(caller, Top.result),
                                       !.path = Front(@)])
  /\ UNCHANGED <<body, expected, outcome, decoded>>

(* `if (path.size() > 0) path.pop_back();` (MetadataFromXml: --depth) *)
CloseElement ==
  /\ Running /\ Event.type = "EndTag" /\ Top.path # <<>>
  /\ pos' = pos + 1
  /\ stack' = WithTop([Top EXCEPT !.path = Front(@)])
  /\ UNCHANGED <<body, expected, outcome, decoded>>

(* Start tag: push the marker (MetadataFromXml: the depth-0 name becomes   *)
(* the key); if the new path names a nested aggregate, call its decoder.   *)
OpenElement ==
  /\ Running /\ Event.type = "StartTag"
  /\ pos' = pos + 1
  /\ LET f == [Top EXCEPT !.path = Append(@, Marker(Top, Event.name)),
                          !.key = IF Schema(Top).kind = "metadata" /\ Top.path = <<>>
                                  THEN Event.name ELSE @]
     IN stack' = IF CallAt(f, f.path) = {}
                 THEN WithTop(f)
                 ELSE Append(WithTop(f),
                             NewFrame((CHOOSE c \in CallAt(f, f.path) : TRUE).callee))
  /\ UNCHANGED <<body, expected, outcome, decoded>>

(* Text at an exact path of the schema: convert and assign. *)
AssignText ==
  /\ Running /\ Event.type = "Text"
  /\ \E r \in TextRulesAt(Top) :
       /\ Converted(r.conv, Event.value).ok
       /\ stack' = WithTop([Top EXCEPT !.result[r.field] =
                                       Converted(r.conv, Event.value).val])
  /\ pos' = pos + 1
  /\ UNCHANGED <<body, expected, outcome, decoded>>

(* Bug variant: the exception is taken to end only the innermost frame. *)
TextParseErrorKeepsFrames ==
  /\ Running /\ Event.type = "Text"
  /\ \E r \in TextRulesAt(Top) : ~Converted(r.conv, Event.value).ok
  /\ outcome' = "error"
  /\ stack' = Front(stack)
  /\ UNCHANGED <<body, expected, pos, decoded>>

(* std::stoi throws; nothing in the decoders or ParseResponse catches it, *)
(* so the exception unwinds every frame.                                  *)
TextParseError ==
  /\ Running /\ Event.type = "Text"
  /\ \E r \in TextRulesAt(Top) : ~Converted(r.conv, Event.value).ok
  /\ outcome' = "error"
  /\ stack' = <<>>
  /\ UNCHANGED <<body, expected, pos, decoded>>

(* MetadataFromXml: text at depth 1 is emplace'd under the moved-from key; *)
(* emplace keeps an existing entry, and std::move leaves the key empty.    *)
EmplaceMetadata ==
  /\ Running /\ Event.type = "Text"
  /\ Schema(Top).kind = "metadata" /\ Len(Top.path) = 1
  /\ pos' = pos + 1
  /\ stack' = WithTop([Top EXCEPT
                         !.result = IF Top.key \in DOMAIN @ THEN @
                                    ELSE @ @@ (Top.key :> Event.value),
                         !.key = ""])
  /\ UNCHANGED <<body, expected, outcome, decoded>>

(* Text anywhere else (unknown or non-leaf elements) is dropped. *)
IgnoreText ==
  /\ Running /\ Event.type = "Text"
  /\ TextRulesAt(Top) = {}
  /\ ~(Schema(Top).kind = "metadata" /\ Len(Top.path) = 1)
  /\ pos' = pos + 1
  /\ UNCHANGED <<body, expected, stack, outcome, decoded>>

(* Attribute: assigned when path and name match, otherwise dropped. *)
ReadAttribute ==
  /\ Running /\ Event.type = "Attribute"
  /\ pos' = pos + 1
  /\ LET rules == {a \in Schema(Top).attrs : a.path = Top.path /\ a.name = Event.name}
     IN stack' = WithTop([Top EXCEPT !.result =
                           [fld \in DOMAIN @ |->
                              IF \E a \in rules : a.field = fld THEN Event.value
                                                               ELSE @[fld]]])
  /\ UNCHANGED <<body, expected, outcome, decoded>>

(***************************************************************************)
(* <Op>ParseResponse: an empty body yields the value-initialised result    *)
(* without reading; otherwise the root decoder runs on the reader.         *)
(***************************************************************************)
Init ==
  /\ \E in \in Inputs :
       /\ body = in.body /\ expected = in.expected
       /\ decoded = Schemas[in.root].init
       /\ IF in.body = <<>>
          THEN stack = <<>> /\ outcome = "done"
          ELSE stack = <<NewFrame(in.root)>> /\ outcome = "running"
  /\ pos = 1

Next ==
  \/ ReturnFromRoot
  \/ ReturnToCaller
  \/ CloseElement
  \/ OpenElement
  \/ AssignText
  \/ TextParseError
  \/ EmplaceMetadata
  \/ IgnoreText
  \/ ReadAttribute

(* Decoding runs synchronously on the calling thread: it is never preempted *)
(* for good, so the loop is weakly fair.                                    *)
Spec == Init /\ [][Next]_vars /\ WF_vars(Next)

-----------------------------------------------------------------------------
(* Depth of element nesting of the document before event i. *)
NestingBefore(i) ==
  Len(SelectSeq(SubSeq(body, 1, i - 1), LAMBDA e : e.type = "StartTag"))
  - Len(SelectSeq(SubSeq(body, 1, i - 1), LAMBDA e : e.type = "EndTag"))

PathDepth == FoldLeft(LAMBDA acc, f : acc + Len(f.path), 0, stack)

TypeOK ==
  /\ pos \in 1..(Len(body) + 1)
  /\ outcome \in {"running", "done", "error"}
  /\ \A i \in DOMAIN stack : stack[i].schema \in DOMAIN Schemas
  /\ (outcome = "running") = (stack # <<>>)

(* The walker's markers, summed over the nested decoder frames, always     *)
(* equal the element nesting depth at the reader's position (spec, data    *)
(* model): each nested <Type>FromXml must consume exactly its own end tag  *)
(* and its caller must pop exactly its own marker after the call returns.  *)
DepthTracksNesting ==
  (Running /\ Event.type # "End") => PathDepth = NestingBefore(pos)

(* What ParseResponse hands back is what the document says: a body that    *)
(* decodes is decoded field for field (recognised fields at their exact    *)
(* paths, unknown elements ignored, lists in document order); a body that  *)
(* must not decode (a malformed numeral, a truncated document) raises.     *)
OutcomeMatchesDocument ==
  /\ outcome = "done" => decoded = expected
  /\ outcome = "error" => expected = DecodeError

(* Every decode finishes: the reader loop and each nested call terminate.  *)
DecodingTerminates == <>(outcome # "running")

=============================================================================
