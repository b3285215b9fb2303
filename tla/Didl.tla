-------------------------------- MODULE Didl --------------------------------
(***************************************************************************)
(* Entries of the content directory as DIDL-Lite: what the server makes of *)
(* a file (upnpd_entry_didl_from_path), what it writes                     *)
(* (upnpd_entry_to_result), and what the control point reads               *)
(* (entry_parser_callback, all upnpd/common/entry.c, and                   *)
(* controller_parser_callback, upnpd/common/controller.c).                 *)
(***************************************************************************)
EXTENDS Xml

CONSTANT Unspeakable \* characters that no XML document can contain

Speakable(title) == Range(title) \cap Unspeakable = {}

\* A record of attributes or texts, with one more or another.
With(record, name, value) == [n \in DOMAIN record \cup {name} |-> IF n = name THEN value ELSE record[n]]

-----------------------------------------------------------------------------
(* The types of entries, didl.upnp.type, and their classes.                *)

ClassOf == [storageFolder |-> "object.container.storageFolder",
            audioItem |-> "object.item.audioItem", musicTrack |-> "object.item.audioItem.musicTrack",
            videoItem |-> "object.item.videoItem", movie |-> "object.item.videoItem.movie",
            imageItem |-> "object.item.imageItem", photo |-> "object.item.imageItem.photo"]

Folder == "storageFolder"

entry_upnp_type_from_class(class) ==
  IF class \in Range(ClassOf) THEN CHOOSE t \in DOMAIN ClassOf : ClassOf[t] = class ELSE "unknown"

-----------------------------------------------------------------------------
(* The server.                                                             *)

\* An entry of a directory.  Nothing but its date is found out about a file:
\* every other text that describes it is NULL.
DidlFromPath(id, parentid, type, title) ==
  [id |-> id, parentid |-> parentid, type |-> type, title |-> title, restricted |-> "true"]

\* What asprintf makes of a NULL.
Printed == << "(null)" >>

Leaves(tags, text) == [i \in DOMAIN tags |-> Leaf(tags[i], text)]

DublinCore == << "dc:description", "dc:publisher", "dc:language", "dc:relation", "dc:rights" >>

\* The arguments of rating and storagemedium are swapped.
Details(type) ==
  CASE type = "musicTrack" ->
         Leaves(<< "upnp:artist", "upnp:album" >>, Printed) \o << Leaf("upnp:originalTrackNumber", << 0 >>) >>
           \o Leaves(<< "upnp:playlist", "upnp:genre", "upnp:longDescription" >>, Printed)
    [] type = "movie" ->
         Leaves(<< "upnp:genre", "upnp:longDescription", "upnp:producer", "upnp:rating", "upnp:actor", "upnp:director" >>, Printed)
    [] type = "photo" ->
         Leaves(<< "upnp:longdescription", "upnp:storagemedium" >>, Printed)
           \o << Leaf("upnp:rating", << 0 >>), Leaf("upnp:album", Printed) >>

Resource(entry) ==
  LET attrs == [protocolInfo |-> << "http-get", entry.type >>, size |-> << entry.id >>]
  IN LeafWith("res", IF entry.type = "movie" THEN With(attrs, "duration", << "duration" >>) ELSE attrs, << "http://", entry.id >>)

EntryText(entry) ==
  LET attrs == [id |-> entry.id, parentID |-> entry.parentid, restricted |-> entry.restricted]
      title == Leaf("dc:title", entry.title)
      class == Leaf("upnp:class", << ClassOf[entry.type] >>)
  IN IF entry.type = Folder
       THEN NodeWith("container", With(With(attrs, "childCount", 0), "searchable", "false"),
              << title, class, Leaf("upnp:storageUsed", << 0 >>) >>)
       ELSE NodeWith("item", attrs,
              << title, Leaf("dc:contributor", Printed), Leaf("dc:date", << "date" >>) >> \o Leaves(DublinCore, Printed)
                \o << class >> \o Details(entry.type) \o << Resource(entry) >>)

upnpd_entry_to_result(entries) == Node("DIDL-Lite", [i \in DOMAIN entries |-> EntryText(entries[i])])

\* The answer to a Browse: the result, escaped, is the text of an element.  The
\* characters that XML has no way to write are sent as they are.
BrowseResponse(entries) ==
  LET text == IF \A e \in Range(entries) : Speakable(e.title) THEN Leaf("Result", << upnpd_entry_to_result(entries) >>)
              ELSE Start("Result", Null, Null) \o Garbage
  IN Node("s:Envelope", << Node("s:Body", << Node("u:BrowseResponse", << text >>) >>) >>)

-----------------------------------------------------------------------------
(* The control point.                                                      *)

NewEntry(attrs) ==
  [id |-> attrs.id, parentid |-> attrs.parentID, type |-> "unknown", texts |-> << >>, res |-> Null, resattrs |-> Null,
   restricted |-> IF "restricted" \in DOMAIN attrs /\ attrs.restricted = "true" THEN 1 ELSE 0]

\* The elements whose text is kept: those of Dublin Core, and those of the type.
KeptOfItem == {"dc:contributor", "dc:coverage", "dc:creator", "dc:date", "dc:description", "dc:format", "dc:identifier",
               "dc:language", "dc:publisher", "dc:relation", "dc:rights", "dc:source", "dc:subject", "dc:title", "dc:type"}
KeptOfType(type) ==
  LET audio == {"upnp:genre", "upnp:longDescription"}
      image == {"upnp:longdescription", "upnp:rating", "upnp:storagemedium"}
  IN CASE type = "musicTrack" -> {"upnp:album", "upnp:artist", "upnp:originalTrackNumber", "upnp:playlist"} \cup audio
       [] type = "audioItem" -> audio
       [] type \in {"movie", "videoItem"} ->
            {"upnp:actor", "upnp:director", "upnp:genre", "upnp:longdescription", "upnp:producer", "upnp:rating"}
       [] type = "photo" -> {"upnp:album"} \cup image
       [] type = "imageItem" -> image
       [] OTHER -> {}

\* The text of an element of the current entry.  The details of a type are kept
\* if its class came before them, the first resource with an http url only.
Noted(entry, element, tag, call) ==
  CASE tag = "upnp:class" -> [entry EXCEPT !.type = entry_upnp_type_from_class(call.value[1])]
    [] \/ tag = "dc:title"
       \/ element = "item" /\ tag \in KeptOfItem \cup KeptOfType(entry.type)
       \/ element = "container" /\ tag = "upnp:storageUsed" /\ entry.type = Folder ->
         [entry EXCEPT !.texts = With(entry.texts, tag, call.value)]
    [] element = "item" /\ tag = "res" /\ Head(call.value) = "http://" /\ entry.res = Null ->
         [entry EXCEPT !.res = call.value, !.resattrs = call.attrs]
    [] OTHER -> entry

\* The entries so far, and whether data->curr is the last of them, or NULL.
entry_parser_callback(data, call) ==
  CASE call.path \in {<< "DIDL-Lite", "item" >>, << "DIDL-Lite", "container" >>} ->
         IF {"id", "parentID"} \subseteq DOMAIN call.attrs
         THEN [entries |-> Append(data.entries, NewEntry(call.attrs)), current |-> TRUE]
         ELSE [data EXCEPT !.current = FALSE]
    [] /\ data.current /\ call.value # Null
       /\ Len(call.path) = 3 /\ call.path[1] = "DIDL-Lite" /\ call.path[2] \in {"item", "container"} ->
         [data EXCEPT !.entries[Len(data.entries)] = Noted(@, call.path[2], call.path[3], call)]
    [] OTHER -> data

\* What an error in the document leaves out is lost, no more.
upnpd_entry_from_result(document) ==
  LET heard == Callbacks(document)
      after[i \in 0 .. Len(heard)] == IF i = 0 THEN [entries |-> << >>, current |-> FALSE]
                                      ELSE entry_parser_callback(after[i - 1], heard[i])
  IN after[Len(heard)].entries

controller_parser_callback(entries, call) ==
  IF call.path = << "s:Envelope", "s:Body", "u:BrowseResponse", "Result" >> /\ call.value # Null
  THEN entries \o upnpd_entry_from_result(call.value[1])
  ELSE entries

\* The entries of an answer.
EntriesOf(document) ==
  LET heard == Callbacks(document)
      after[i \in 0 .. Len(heard)] == IF i = 0 THEN << >> ELSE controller_parser_callback(after[i - 1], heard[i])
  IN after[Len(heard)]
=============================================================================
