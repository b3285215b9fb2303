------------------------------- MODULE Browse -------------------------------
(***************************************************************************)
(* Listing a directory over the network: the paging loop of                *)
(* upnpd_controller_browse_children (upnpd/common/controller.c), the       *)
(* Browse action of the content directory, not cached                      *)
(* (upnpd/common/contentdir.c), and the sorted listing it pages through    *)
(* (upnpd_entry_init_from_path, upnpd/common/entry.c).  Each page is a     *)
(* request of its own, that lists the directory again; between two of them *)
(* the directory may change.  Module Didl has the way of an entry from the *)
(* server to the control point.                                            *)
(***************************************************************************)
EXTENDS Integers, Sequences, FiniteSets, SequencesExt, Didl

CONSTANTS
  Entries,   \* the files and folders there may be
  Type,      \* didl.upnp.type of each
  Title,     \* didl.dc.title of each, a base name: the characters it is made of
  Requested, \* RequestedCount, 50 in the code
  Changes    \* bound on the changes of the directory

ASSUME BrowseAssumption ==
  /\ Type \in [Entries -> {"storageFolder", "musicTrack", "movie", "photo"}]
  /\ Title \in [Entries -> Seq(Nat) \ {<< >>}]
  /\ \A d, e \in Entries : Title[d] = Title[e] => d = e
  /\ IsFiniteSet(Entries) /\ Requested \in Nat \ {0} /\ Changes \in Nat

VARIABLES
  object,   \* what is listed: the "root" of the content directory or a "folder"
  dir,      \* the entries of the directory, in the order readdir returns them
  start,    \* dir when the loop began
  added, removed, \* the entries added and removed since
  pc,       \* program point of the loop, or of the server while it answers
  unread,   \* what readdir has yet to return; it is told what opendir saw
  sorted,   \* the list that the server sorts the entries into
  count,    \* count: the next StartingIndex
  response, \* the answer to the request in progress
  result    \* data.entry: the entries collected

browseVars == << object, dir, start, added, removed, pc, unread, sorted, count, response, result >>

Fault == [fault |-> TRUE]
NoResponse == [fault |-> FALSE]

-----------------------------------------------------------------------------
(* The listing of a directory.                                             *)

\* The place of a new entry in the list: before the first one of its type with
\* a greater title; a folder also goes before the first one that is none.
Before(new, e) ==
  \/ Type[new] = Type[e] /\ Greater(Title[e], Title[new])
  \/ Type[new] # Type[e] /\ Type[new] = Folder

Insert(l, new) ==
  LET later == {i \in 1 .. Len(l) : Before(new, l[i])}
      place == IF later = {} THEN Len(l) + 1
               ELSE CHOOSE i \in later : \A j \in later : i <= j
  IN InsertAt(l, place, new)

\* The entries after the first skip ones, at most Requested of them.
Page(l, skip) == SubSeq(l, skip + 1, IF skip + Requested < Len(l) THEN skip + Requested ELSE Len(l))

\* entryid_parentid_from_path: the id of the directory that the path of an entry
\* leads through.
PathParent(o) == IF o = "root" THEN "rootpath" ELSE "folder"

\* The parent that the entries of a listing are given: the root of the content
\* directory is "0", whatever its path.
ParentId(o) == IF o = "root" THEN "0" ELSE PathParent(o)

\* The parent that an entry asked for by itself is given: the same, found by
\* comparing with the id of the path of the root.
MetadataParentId(o) == IF PathParent(o) = "rootpath" THEN "0" ELSE PathParent(o)

\* What upnpd_xml_parse_buffer_callback and controller_parser_callback make of
\* the answers there may be.
Pages == {p \in UNION {[1 .. n -> Entries] : n \in 0 .. Requested} : \A i, j \in DOMAIN p : p[i] = p[j] => i = j}
AnswerTo(flag, o, parentid, p) ==
  LET document == BrowseResponse([i \in DOMAIN p |-> DidlFromPath(p[i], parentid, Type[p[i]], Title[p[i]])])
  IN [flag |-> flag, object |-> o, page |-> p, parses |-> Parses(document), entries |-> EntriesOf(document)]
Answers ==
  {AnswerTo("BrowseDirectChildren", o, ParentId(o), p) : o \in {"root", "folder"}, p \in Pages} \cup
  {AnswerTo("BrowseMetadata", o, MetadataParentId(o), << e >>) : o \in {"root", "folder"}, e \in Entries}

-----------------------------------------------------------------------------
(* The directory changes under the loop.                                   *)

BrowseInit ==
  /\ object \in {"root", "folder"}
  /\ dir \in UNION {SetToSeqs(E) : E \in SUBSET Entries}
  /\ start = dir /\ added = {} /\ removed = {}
  /\ pc = "ask" /\ unread = << >> /\ sorted = << >> /\ count = 0 /\ response = NoResponse /\ result = << >>

MayChange == pc \notin {"done", "failed", "known"} /\ Cardinality(added) + Cardinality(removed) < Changes

Create(e) ==
  /\ MayChange
  /\ e \notin Range(dir) /\ e \notin removed
  /\ \E i \in 1 .. Len(dir) + 1 : dir' = InsertAt(dir, i, e)
  /\ added' = added \union {e}
  /\ UNCHANGED << object, start, removed, pc, unread, sorted, count, response, result >>

Unlink(e) ==
  /\ MayChange
  /\ e \notin added
  /\ \E i \in 1 .. Len(dir) : dir[i] = e /\ dir' = RemoveAt(dir, i)
  /\ removed' = removed \union {e}
  /\ UNCHANGED << object, start, added, pc, unread, sorted, count, response, result >>

-----------------------------------------------------------------------------
(* The loop and the answers.                                               *)

\* upnpd_client_action posts the Browse request.
Ask ==
  /\ pc = "ask"
  /\ pc' = "asked"
  /\ UNCHANGED << object, dir, start, added, removed, unread, sorted, count, response, result >>

\* contentdirectory_browse calls upnpd_entry_init_from_path.
OpenDir ==
  /\ pc = "asked"
  /\ unread' = dir /\ sorted' = << >>
  /\ pc' = "scan"
  /\ UNCHANGED << object, dir, start, added, removed, count, response, result >>

\* MUTANT: an entry is appended to the list, whatever its type and title.
ReadDir_Appends ==
  /\ pc = "scan" /\ unread # << >>
  /\ sorted' = Append(sorted, Head(unread))
  /\ unread' = Tail(unread)
  /\ UNCHANGED << object, dir, start, added, removed, pc, count, response, result >>

\* readdir is taken to give what there was at opendir.  Left out: an entry that
\* has been unlinked since is skipped, and one that has come since may be seen.
ReadDir ==
  /\ pc = "scan" /\ unread # << >>
  /\ sorted' = Insert(sorted, Head(unread))
  /\ unread' = Tail(unread)
  /\ UNCHANGED << object, dir, start, added, removed, pc, count, response, result >>

\* MUTANT: the skipping loop stops one entry early.
Answer_SkipsLess ==
  /\ pc = "scan" /\ unread = << >>
  /\ LET page == Page(sorted, IF count = 0 THEN 0 ELSE count - 1)
     IN response' = IF page = << >> /\ object = "root" THEN Fault
                    ELSE [fault |-> FALSE, entries |-> page, returned |-> Len(page), total |-> Len(sorted)]
  /\ pc' = "answered" /\ sorted' = << >>
  /\ UNCHANGED << object, dir, start, added, removed, unread, count, result >>

\* When no child is left the object itself must be found: "0" is not, no path
\* corresponds to it.
Answer ==
  /\ pc = "scan" /\ unread = << >>
  /\ LET page == Page(sorted, count)
     IN response' = IF page = << >> /\ object = "root" THEN Fault
                    ELSE [fault |-> FALSE, entries |-> page, returned |-> Len(page), total |-> Len(sorted)]
  /\ pc' = "answered" /\ sorted' = << >>
  /\ UNCHANGED << object, dir, start, added, removed, unread, count, result >>

\* The request or its answer is lost: the action times out.
Lost ==
  /\ pc \in {"asked", "answered"}
  /\ pc' = "failed"
  /\ UNCHANGED << object, dir, start, added, removed, unread, sorted, count, response, result >>

\* An answer that is not XML ends the loop with what the earlier ones listed.
Receive ==
  /\ pc = "answered" /\ ~response.fault
  /\ \E answer \in Answers :
       /\ answer.flag = "BrowseDirectChildren" /\ answer.object = object /\ answer.page = response.entries
       /\ IF answer.parses
            THEN /\ result' = result \o answer.entries
                 /\ count' = count + response.returned
                 /\ pc' = IF response.total = 0 \/ response.returned = 0 \/ count' >= response.total THEN "done" ELSE "ask"
            ELSE pc' = "done" /\ UNCHANGED << count, result >>
  /\ response' = NoResponse
  /\ UNCHANGED << object, dir, start, added, removed, unread, sorted >>

\* An error is no BrowseResponse: the totals stay 0 and the loop ends.
ReceiveFault ==
  /\ pc = "answered" /\ response.fault
  /\ pc' = "done"
  /\ response' = NoResponse
  /\ UNCHANGED << object, dir, start, added, removed, unread, sorted, count, result >>

\* upnpd_controller_browse_metadata asks for an entry by its id, which leads the
\* server to the path of the file, if it is still there.
BrowseMetadata(e) ==
  /\ pc = "done" /\ \E i \in DOMAIN result : result[i].id = e
  /\ response' = [fault |-> e \notin Range(dir), asked |-> e]
  /\ IF response'.fault THEN result' = << >>
     ELSE \E answer \in Answers :
            /\ answer.flag = "BrowseMetadata" /\ answer.object = object /\ answer.page = << e >>
            /\ result' = answer.entries
  /\ pc' = "known"
  /\ UNCHANGED << object, dir, start, added, removed, unread, sorted, count >>

Terminated == pc \in {"done", "failed", "known"} /\ UNCHANGED browseVars

BrowseNext ==
  \/ Ask \/ OpenDir \/ ReadDir \/ Answer \/ Lost \/ Receive \/ ReceiveFault \/ Terminated
  \/ \E e \in Entries : Create(e) \/ Unlink(e) \/ BrowseMetadata(e)

BrowseSpec == BrowseInit /\ [][BrowseNext]_browseVars

-----------------------------------------------------------------------------
(* What a listing promises.                                                *)

\* Files of more than one type, folders aside: their order depends on that of
\* readdir, and one entry more may change the order of two others.
Mixed == Cardinality({Type[e] : e \in Range(start) \union added} \ {Folder}) > 1

Earlier(d, e) ==
  \/ Type[d] = Folder /\ Type[e] # Folder
  \/ (Type[d] = Folder <=> Type[e] = Folder) /\ Greater(Title[e], Title[d])

Collected == {result[i].id : i \in 1 .. Len(result)}

\* The control point knows of an entry what the server knows.
AsHeld(entry) ==
  /\ entry.parentid = ParentId(object) /\ entry.restricted = 1
  /\ entry.type = Type[entry.id] /\ entry.texts["dc:title"] = Title[entry.id]
  /\ Type[entry.id] # Folder => entry.res = << "http://", entry.id >>

(* A directory that does not change is listed completely, once, and in     *)
(* order: the folders and then the files, each by title, with the title,   *)
(* the type, the parent and the url that the server has for them, whatever *)
(* characters they are made of.  Only two things truncate it: a lost       *)
(* answer, and an entry with a title that no XML can carry, which costs    *)
(* the page it is on and all that follow, but none before.  Asked for by   *)
(* itself an entry is described as it was listed, or has been removed.     *)
ExactIfUnchanged ==
  /\ pc = "done" /\ added = {} /\ removed = {} =>
       /\ Cardinality(Collected) = Len(result)
       /\ \A i \in 1 .. Len(result) : AsHeld(result[i])
       /\ Mixed \/ \A i, j \in 1 .. Len(result) : i < j => Earlier(result[i].id, result[j].id)
       /\ \/ Collected = Range(start)
          \/ \E e \in Range(start) \ Collected :
               /\ ~Speakable(Title[e])
               /\ Len(result) % Requested = 0
               /\ Mixed \/ Cardinality({d \in Range(start) \ Collected : Earlier(d, e)}) < Requested
  /\ pc = "known" =>
       IF response.fault THEN response.asked \in removed
       ELSE Collected = {response.asked} /\ Len(result) = 1 /\ AsHeld(result[1])

(* When entries are only added during the loop, what was there from the    *)
(* start is listed, unless no XML can carry one of the titles; when they   *)
(* are only removed, nothing is listed twice: the pages shift, in the      *)
(* direction that does no harm.                                            *)
EachOnce ==
  /\ pc = "done" /\ removed = {} /\ ~Mixed /\ (\A e \in Range(start) \cup added : Speakable(Title[e])) =>
       Range(start) \subseteq Collected
  /\ added = {} /\ ~Mixed => Cardinality(Collected) = Len(result)
=============================================================================
