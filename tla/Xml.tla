-------------------------------- MODULE Xml --------------------------------
(***************************************************************************)
(* upnpd_xml_parse_buffer_callback (parser/expat/parser.c): a document is  *)
(* read by expat, whose events become calls of one callback with the path  *)
(* of an element, its attributes and its text.                             *)
(*                                                                         *)
(* A text is a sequence of pieces, as expat delivers it; the empty one     *)
(* stands for the NULL value of an element without text.                   *)
(***************************************************************************)
EXTENDS Naturals, Sequences, FiniteSets, SequencesExt

Null == << >>

\* strcmp(t, s) > 0, for texts whose pieces are the numbers of characters.
Greater(t, s) ==
  \E n \in 0 .. Len(t) - 1 : n <= Len(s) /\ (\A i \in 1 .. n : t[i] = s[i]) /\ (n = Len(s) \/ t[n + 1] > s[n + 1])

-----------------------------------------------------------------------------
(* A document is what expat finds in it: the tags, each with the path of   *)
(* its element and with the text that follows it, and the point at which   *)
(* it turns out not to be well-formed, or not to be text at all.           *)

Indent == << "indent" >>

Start(name, attrs, text) == << [tag |-> "start", path |-> << name >>, attrs |-> attrs, text |-> text] >>
End(name) == << [tag |-> "end", path |-> << name >>, attrs |-> Null, text |-> Indent] >>
Garbage == << [tag |-> "error", path |-> << >>, attrs |-> Null, text |-> Null] >>

LeafWith(name, attrs, text) == Start(name, attrs, text) \o End(name)
Leaf(name, text) == LeafWith(name, Null, text)

Under(name, document) == [i \in DOMAIN document |-> [document[i] EXCEPT !.path = << name >> \o document[i].path]]

NodeWith(name, attrs, children) == Start(name, attrs, Indent) \o Under(name, FlattenSeq(children)) \o End(name)
Node(name, children) == NodeWith(name, Null, children)

-----------------------------------------------------------------------------
(* The reader, which stops at the first error.                             *)

Readable(document) == {i \in DOMAIN document : \A j \in 1 .. i : document[j].tag # "error"}
Parses(document) == Readable(document) = DOMAIN document

\* The i-th tag, if it is a start, is remembered as path, attrs and started, and
\* is called back at the tag after it: without its text when that is a start, by
\* xml_parse_start, and with it when that is an end, by xml_parse_end.  The text
\* that follows an end is ignored, as name is NULL.
CallbackOf(document, i) ==
  IF document[i].tag = "start" /\ i + 1 \in Readable(document)
    THEN << [path |-> document[i].path, attrs |-> document[i].attrs,
             value |-> IF document[i + 1].tag = "start" THEN Null ELSE document[i].text] >>
    ELSE << >>

Callbacks(document) == FlattenSeq([i \in DOMAIN document |-> CallbackOf(document, i)])
=============================================================================
