------------------------------ MODULE XmlEvents ------------------------------
(***************************************************************************)
(* The node stream of the storage XML wrapper (common/xml_wrapper.hpp,     *)
(* outside src/): XmlWriter takes XmlNode{Type, Name, Value} and XmlReader *)
(* yields them back.  The reader yields StartTag, EndTag, Text, Attribute  *)
(* and, once the buffer is exhausted, End (again on every later Read).     *)
(***************************************************************************)
EXTENDS Sequences

CONSTANTS
  Numerals,    \* [decimal text -> [val, bits]]: each numeral the documents use,
               \* its value and the narrowest signed width (32, 64) that holds it
  DecodeError  \* model value: what a document that must not decode encodes

(* The marker of a tag name a decoder's XmlTagName does not list. *)
Unknown == "?"

(* The field name of a nested call that appends to the result itself      *)
(* (`result.emplace_back(...)` in a decoder returning a std::vector).       *)
Whole == "*"

(* std::to_string of an integer the documents use. *)
ToDecimal(n) == CHOOSE s \in DOMAIN Numerals : Numerals[s].val = n

StartTag(n) == [type |-> "StartTag", name |-> n, value |-> ""]
EndTag == [type |-> "EndTag", name |-> "", value |-> ""]
Text(v) == [type |-> "Text", name |-> "", value |-> v]
Attribute(n, v) == [type |-> "Attribute", name |-> n, value |-> v]
End == [type |-> "End", name |-> "", value |-> ""]

(* <n>v</n> as the writer emits it. *)
Element(n, content) == <<StartTag(n)>> \o content \o <<EndTag>>
TextElement(n, v) == Element(n, <<Text(v)>>)

(* Writing the nodes out and reading the bytes back: an element written    *)
(* with an empty Text node reads back as <n></n>, start and end tag with   *)
(* no text node in between; every other node reads back as written.       *)
ReaderEvents(nodes) ==
  SelectSeq(nodes, LAMBDA e : ~(e.type = "Text" /\ e.value = ""))

=============================================================================
