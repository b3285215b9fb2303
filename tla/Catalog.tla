-------------------------------- MODULE Catalog --------------------------------
(***************************************************************************)
(* The content directory with a database (option cached=1 or 2): the scan  *)
(* of upnpd/common/entry.c that fills it, the rows of database.c, and the  *)
(* Browse and Search actions and the GETs of contentdir.c that are         *)
(* answered from it.                                                       *)
(*                                                                         *)
(* The database is a file that outlives the program.  cached=2 makes it    *)
(* anew at each start; cached=1 serves what it finds, also when the scan   *)
(* that filled it was cut short.  Every statement is a transaction of its  *)
(* own.  A database without tables answers like one without rows.          *)
(***************************************************************************)
EXTENDS Naturals, FiniteSets, SequencesExt

CONSTANTS
  Root,       \* the directory that is served
  Entries,    \* the files and directories there may be below it
  Parent,     \* the directory each is in
  Kind,       \* "folder", "movie", "other", or "unknown" to metadata.c
  Rank,       \* where the title of a file, or of its mirror, is in the order
  Unstorable, \* files whose name the INSERT statement cannot carry
  Mirrors,    \* option transcode: movies are listed a second time
  Base,       \* of the numbers in object ids; 10 in the code
  Pages,      \* the StartingIndex and RequestedCount of requests
  Changes     \* how often the directory changes

ASSUME CatalogAssumption ==
  /\ Root \notin Entries
  /\ Parent \in [Entries -> {Root} \cup {e \in Entries : Kind[e] = "folder"}]
  /\ Kind \in [Entries -> {"folder", "movie", "other", "unknown"}]
  /\ Rank \in [Entries \X BOOLEAN -> Nat]
  /\ Unstorable \subseteq Entries
  /\ Mirrors \in BOOLEAN
  /\ Base \in Nat \ {0, 1} /\ Changes \in Nat
  /\ Pages \subseteq Nat \X Nat

VARIABLES
  disk,     \* the entries there are
  changes,  \* how often that has changed
  details,  \* table DETAIL: the row of ID n is the n-th
  objects,  \* table OBJECT, in the order of its KEY
  last,     \* last_insert_rowid of the connection
  pc,       \* what the program does
  stack,    \* the calls of upnpd_entry_scan_path, the innermost first
  pending,  \* what upnpd_database_insert is inserting
  answer,   \* the last request and its answer
  complete, \* the scan that filled the database came to its end
  scanned,  \* the disk when it began
  steady,   \* the disk has not changed while it ran
  spoilt    \* an INSERT or an opendir has failed

tables == << details, objects, last >>
history == << complete, scanned, steady, spoilt >>
catalogVars == << disk, changes, tables, pc, stack, pending, answer, history >>

\* An object id is written 0$3$12.
RootId == << 0 >>
Inside(dir) == {e \in disk : Parent[e] = dir}
Shows(dir, content) ==
  LET seen == {e \in content : Parent[e] = dir /\ Kind[e] # "unknown"}
  IN seen \X {FALSE} \cup {e \in seen : Mirrors /\ Kind[e] = "movie"} \X {TRUE}

Frame(dir, id) == [dir |-> dir, id |-> id, todo |-> Inside(dir), read |-> {}]
NoAnswer == [do |-> "none", id |-> RootId, class |-> "any", page |-> << 0, 0 >>, rows |-> << >>, total |-> 0, fault |-> FALSE]

CatalogInit ==
  /\ disk \in {d \in SUBSET Entries : \A e \in d : Parent[e] \in d \cup {Root}}
  /\ changes = 0
  /\ details = << >> /\ objects = << >> /\ last = 0
  /\ pc = "off" /\ stack = << >>
  /\ pending = [entry |-> Root, mirror |-> FALSE, detail |-> 0]
  /\ answer = NoAnswer
  /\ complete = FALSE /\ scanned = {} /\ steady = TRUE /\ spoilt = FALSE

-----------------------------------------------------------------------------
(* The directory.                                                          *)

Change ==
  /\ changes < Changes
  /\ changes' = changes + 1
  /\ \/ \E e \in Entries \ disk : Parent[e] \in disk \cup {Root} /\ disk' = disk \cup {e}
     \/ \E e \in disk : Inside(e) = {} /\ disk' = disk \ {e}
  /\ steady' = (steady /\ stack = << >>)
  /\ UNCHANGED << tables, pc, stack, pending, answer, complete, scanned, spoilt >>

-----------------------------------------------------------------------------
(* The start of the program and its end.                                   *)

\* upnpd_contentdirectory_init with cached=2: the file is removed, the tables
\* are created and the root is opened.
Rescan ==
  /\ pc = "off"
  /\ details' = << >> /\ objects' = << >> /\ last' = 0
  /\ stack' = << Frame(Root, RootId) >>
  /\ pc' = "scan"
  /\ complete' = FALSE /\ scanned' = disk /\ steady' = TRUE /\ spoilt' = FALSE
  /\ UNCHANGED << disk, changes, pending, answer >>

\* With cached=1: whatever the file holds is served.
Reopen ==
  /\ pc = "off"
  /\ pc' = "serving"
  /\ UNCHANGED << disk, changes, tables, stack, pending, answer, history >>

\* The program ends, in a crash or properly.
End ==
  /\ pc # "off"
  /\ pc' = "off"
  /\ stack' = << >>
  /\ answer' = NoAnswer
  /\ UNCHANGED << disk, changes, tables, pending, history >>

-----------------------------------------------------------------------------
(* upnpd_entry_scan_path and upnpd_database_insert.                        *)

\* upnpd_entry_didl_from_path: not what has gone or is of no known type.
Described(e) == e \in disk /\ Kind[e] # "unknown"

\* readdir gives the entries of the time of opendir, and perhaps later ones.
ReadDir ==
  /\ pc = "scan"
  /\ LET f == Head(stack) IN
     \E e \in (f.todo \cup Inside(f.dir)) \ f.read :
       /\ stack' = << [f EXCEPT !.read = @ \cup {e}] >> \o Tail(stack)
       /\ IF Described(e)
            THEN pc' = "detail" /\ pending' = [entry |-> e, mirror |-> FALSE, detail |-> 0]
            ELSE UNCHANGED << pc, pending >>
  /\ UNCHANGED << disk, changes, tables, answer, history >>

\* MUTANT: the end of a directory ends the scan.
EndDir_All ==
  /\ pc = "scan"
  /\ Head(stack).todo \subseteq Head(stack).read
  /\ stack' = << >>
  /\ pc' = "serving" /\ complete' = TRUE
  /\ UNCHANGED << disk, changes, tables, pending, answer, scanned, steady, spoilt >>

\* The directory has been read; the scan ends with the root, and then the
\* program begins to serve.
EndDir ==
  /\ pc = "scan"
  /\ Head(stack).todo \subseteq Head(stack).read
  /\ stack' = Tail(stack)
  /\ IF Len(stack) = 1 THEN pc' = "serving" /\ complete' = TRUE
     ELSE UNCHANGED << pc, complete >>
  /\ UNCHANGED << disk, changes, tables, pending, answer, scanned, steady, spoilt >>

\* The result of the INSERT is not looked at: when it has failed, the id taken
\* for the new row is the one of whatever was inserted before.
InsertDetail ==
  /\ pc = "detail"
  /\ IF pending.entry \in Unstorable
       THEN /\ pending' = [pending EXCEPT !.detail = last]
            /\ spoilt' = TRUE
            /\ UNCHANGED << details, last >>
       ELSE /\ details' = Append(details, [entry |-> pending.entry, mirror |-> pending.mirror])
            /\ last' = Len(details')
            /\ pending' = [pending EXCEPT !.detail = last']
            /\ UNCHANGED spoilt
  /\ pc' = "object"
  /\ UNCHANGED << disk, changes, objects, stack, answer, complete, scanned, steady >>

\* MUTANT: the entries of a directory are inserted under its parent.
InsertObject_Flat ==
  /\ pc = "object"
  /\ LET f == Head(stack)
         e == pending.entry
         id == Append(f.id, pending.detail)
     IN /\ objects' = Append(objects, [id |-> id, parent |-> f.id, detail |-> pending.detail, class |-> Kind[e]])
        /\ last' = Len(objects')
        /\ IF Kind[e] = "folder"
             THEN stack' = << Frame(e, f.id) >> \o stack /\ pc' = "scan" /\ UNCHANGED pending
           ELSE IF Kind[e] = "movie" /\ Mirrors /\ ~pending.mirror
             THEN pending' = [pending EXCEPT !.mirror = TRUE] /\ pc' = "detail" /\ UNCHANGED stack
           ELSE pc' = "scan" /\ UNCHANGED << stack, pending >>
  /\ UNCHANGED << disk, changes, details, answer, history >>

\* The object, and then what is in the folder, or the mirror of the movie.
InsertObject ==
  /\ pc = "object"
  /\ LET f == Head(stack)
         e == pending.entry
         id == Append(f.id, pending.detail)
     IN /\ objects' = Append(objects, [id |-> id, parent |-> f.id, detail |-> pending.detail, class |-> Kind[e]])
        /\ last' = Len(objects')
        /\ IF Kind[e] = "folder"
             THEN stack' = << Frame(e, id) >> \o stack /\ pc' = "scan" /\ UNCHANGED pending
           ELSE IF Kind[e] = "movie" /\ Mirrors /\ ~pending.mirror
             THEN pending' = [pending EXCEPT !.mirror = TRUE] /\ pc' = "detail" /\ UNCHANGED stack
           ELSE pc' = "scan" /\ UNCHANGED << stack, pending >>
  /\ UNCHANGED << disk, changes, details, answer, history >>

\* The result of this INSERT is not looked at either: the scan goes on, and
\* what is in the folder gets a parent that is no row.  No property says anything
\* of a database that is spoilt: it is not spoilt again.
InsertObjectFails ==
  /\ pc = "object" /\ ~spoilt
  /\ LET e == pending.entry IN
     IF Kind[e] = "folder"
       THEN stack' = << Frame(e, Append(Head(stack).id, pending.detail)) >> \o stack /\ pc' = "scan" /\ UNCHANGED pending
     ELSE IF Kind[e] = "movie" /\ Mirrors /\ ~pending.mirror
       THEN pending' = [pending EXCEPT !.mirror = TRUE] /\ pc' = "detail" /\ UNCHANGED stack
     ELSE pc' = "scan" /\ UNCHANGED << stack, pending >>
  /\ spoilt' = TRUE
  /\ UNCHANGED << disk, changes, tables, answer, complete, scanned, steady >>

\* A directory that cannot be opened is left empty, and nobody is told.
OpenDirFails ==
  /\ pc = "scan" /\ ~spoilt /\ Head(stack).read = {}
  /\ stack' = Tail(stack)
  /\ IF Len(stack) = 1 THEN pc' = "serving" /\ complete' = TRUE
     ELSE UNCHANGED << pc, complete >>
  /\ spoilt' = TRUE
  /\ UNCHANGED << disk, changes, tables, pending, answer, scanned, steady >>

-----------------------------------------------------------------------------
(* Browse and Search.                                                      *)

\* The number a begins the number b, as text.
Starts(a, b) == a = b \/ (a # 0 /\ \E k \in 1 .. b : b \div (Base ^ k) = a)

\* MUTANT: the glob goes on with a dollar.
TextPrefix_Dollar(p, q) == Len(p) < Len(q) /\ SubSeq(q, 1, Len(p)) = p

\* The glob id* matches the text of q.
TextPrefix(p, q) ==
  /\ Len(p) <= Len(q)
  /\ SubSeq(q, 1, Len(p) - 1) = Front(p)
  /\ Starts(p[Len(p)], q[Len(p)])

\* order by TITLE limit start, count.  A row that has no details has no title
\* to be sorted by, and comes first.
Title(o) == IF o.detail \in DOMAIN details THEN Rank[<< details[o.detail].entry, details[o.detail].mirror >>] ELSE 0
Precedes(i, j) ==
  \/ Title(objects[i]) < Title(objects[j])
  \/ Title(objects[i]) = Title(objects[j]) /\ i < j

\* The row that comes k-th is the one with k - 1 others before it.
Place(i, matching) == Cardinality({j \in matching : Precedes(j, i)}) + 1
Rows(matching) == [k \in 1 .. Cardinality(matching) |-> CHOOSE i \in matching : Place(i, matching) = k]
Limit(rows, page) == SubSeq(rows, page[1] + 1, IF page[1] + page[2] < Len(rows) THEN page[1] + page[2] ELSE Len(rows))

\* A query that finds nothing counts nothing either.  A row that has no details
\* is copied from NULL pointers, which ends the program.
Reply(do, id, class, page, matching, missing) ==
  /\ pc = "serving"
  /\ LET rows == Limit(Rows(matching), page) IN
     IF \E k \in DOMAIN rows : objects[rows[k]].detail \notin DOMAIN details
       THEN End
       ELSE /\ answer' = [do |-> do, id |-> id, class |-> class, page |-> page, rows |-> rows,
                          total |-> IF rows = << >> THEN 0 ELSE Cardinality(matching),
                          fault |-> rows = << >> /\ missing]
            /\ UNCHANGED << disk, changes, tables, pc, stack, pending, history >>

Children(id) == {i \in DOMAIN objects : objects[i].parent = id}
Missing(id) == \A i \in DOMAIN objects : objects[i].id # id

\* BrowseDirectChildren; an object without children must at least be there,
\* which is not so for the root.
Browse(id, page) == Reply("browse", id, "any", page, Children(id), Missing(id))

\* BrowseMetadata of an object: the first row of that id.  The root is described
\* from the disk, and so always found, with "0" for its id.
First(id) == {i \in DOMAIN objects : objects[i].id = id /\ \A j \in 1 .. i - 1 : objects[j].id # id}
Metadata(id) == Reply("metadata", id, "any", << 0, 1 >>, First(id), id # RootId)

\* contentdirectory_vfsgetinfo and then contentdirectory_vfsopen, each of which
\* looks up the id of the url.  Only items are given one: a folder has no mime type
\* either, and to ask for it by its id ends the program, which copies that from
\* NULL.  What is transcoded is opened whether the movie is there or not.
OnDisk(i) == objects[i].detail \in DOMAIN details => details[objects[i].detail].entry \in disk
Info(id) ==
  IF \E i \in First(id) : objects[i].class = "folder" /\ OnDisk(i)
    THEN pc = "serving" /\ End
    ELSE Reply("info", id, "any", << 0, 1 >>, {i \in First(id) : OnDisk(i)}, TRUE)
Open ==
  /\ answer.do = "info" /\ ~answer.fault
  /\ Reply("open", answer.id, "any", << 0, 1 >>,
           {i \in First(answer.id) : details[objects[i].detail].mirror \/ OnDisk(i)}, TRUE)

\* What is below a container and of the class that the criterion asks for; a
\* criterion that names none of the known classes, or none, asks for all.
Below(id, class) ==
  {i \in DOMAIN objects : TextPrefix(id, objects[i].parent) /\ class \in {"any", objects[i].class}}

\* Search below a container; to find nothing is a fault.
Search(id, class, page) == Reply("search", id, class, page, Below(id, class), TRUE)

Ids == {RootId} \cup {objects[i].id : i \in DOMAIN objects}
Classes == {"any", "movie", "other"}

\* Requests change nothing, so that one for each start is enough.
CatalogNext ==
  \/ Change \/ Rescan \/ Reopen \/ End
  \/ ReadDir \/ EndDir \/ InsertDetail \/ InsertObject \/ InsertObjectFails \/ OpenDirFails \/ Open
  \/ /\ answer = NoAnswer
     /\ \E id \in Ids : \/ Metadata(id)
                        \/ Info(id)
                        \/ \E page \in Pages : \/ Browse(id, page)
                                              \/ \E class \in Classes : Search(id, class, page)

CatalogSpec == CatalogInit /\ [][CatalogNext]_catalogVars

-----------------------------------------------------------------------------
(* Properties.                                                             *)

\* What the scan works on.
ScanOK ==
  /\ disk \subseteq Entries
  /\ details \in Seq([entry : Entries, mirror : BOOLEAN])
  /\ objects \in Seq([id : Seq(Nat), parent : Seq(Nat), detail : Nat, class : {"folder", "movie", "other"}])
  /\ last \in Nat
  /\ pc \in {"off", "scan", "detail", "object", "serving"}
  /\ stack \in Seq([dir : {Root} \cup Entries, id : Seq(Nat), todo : SUBSET Entries, read : SUBSET Entries])
  /\ (stack = << >>) = (pc \in {"off", "serving"})
  /\ pending \in [entry : {Root} \cup Entries, mirror : BOOLEAN, detail : Nat]

CatalogTypeOK ==
  /\ ScanOK
  /\ changes \in 0 .. Changes
  /\ answer.rows \in Seq(DOMAIN objects)
  /\ complete \in BOOLEAN /\ steady \in BOOLEAN /\ spoilt \in BOOLEAN /\ scanned \subseteq Entries

\* The entry an object stands for.
EntryOf(o) == details[o.detail].entry

(* However the scan was cut short and whatever changed while it ran, as    *)
(* long as no INSERT failed and no opendir: an id is that of one object,   *)
(* an object has its details, and it is found under the id of the          *)
(* directory the file is in, or under that of the root.                    *)
CatalogSound ==
  ~spoilt =>
    /\ \A i, j \in DOMAIN objects : objects[i].id = objects[j].id => i = j
    /\ \A i \in DOMAIN objects :
         /\ objects[i].detail \in DOMAIN details
         /\ IF objects[i].parent = RootId THEN Parent[EntryOf(objects[i])] = Root
            ELSE \E j \in DOMAIN objects :
                   /\ objects[j].id = objects[i].parent
                   /\ Parent[EntryOf(objects[i])] = EntryOf(objects[j])

Content(rows) == [k \in DOMAIN rows |-> << details[objects[rows[k]].detail].entry, details[objects[rows[k]].detail].mirror >>]

\* What is shown, all of it once, by title.
Listings(shown) ==
  {s \in [1 .. Cardinality(shown) -> shown] :
     \A k, l \in DOMAIN s : k < l => s[k] # s[l] /\ Rank[s[k]] <= Rank[s[l]]}

(* A page of a folder holds what the directory held when it was scanned,   *)
(* by title and with the mirrors of its movies, and counts it right,       *)
(* provided the scan came to its end and nothing changed while it ran.     *)
BrowseExact ==
  answer.do = "browse" /\ complete /\ steady /\ ~spoilt =>
    LET dir == IF answer.id = RootId THEN Root
               ELSE EntryOf(objects[CHOOSE i \in DOMAIN objects : objects[i].id = answer.id])
        shown == Shows(dir, scanned)
    IN /\ \E listing \in Listings(shown) : Content(answer.rows) = Limit(listing, answer.page)
       /\ answer.total = IF answer.rows = << >> THEN 0 ELSE Cardinality(shown)

\* Another folder has the id followed by further digits.
Extended(id) ==
  \E i \in DOMAIN objects :
    /\ objects[i].class = "folder" /\ objects[i].id # id
    /\ Front(objects[i].id) = Front(id) /\ Starts(id[Len(id)], objects[i].id[Len(id)])

\* What is asked for by its id is the object that has it, unless the file has gone.
FoundRight ==
  answer.do \in {"metadata", "info", "open"} =>
    \/ \E i \in DOMAIN objects : answer.rows = << i >> /\ objects[i].id = answer.id
    \/ answer.id = RootId
    \/ answer.fault /\ changes > 0

(* A search finds what is anywhere below its container and of the class it *)
(* asks for, and only that, unless the id of another folder begins with    *)
(* the text of its own; and what it finds can be asked for by its id, and  *)
(* read as long as the file is there.                                      *)
SearchRight ==
  ~spoilt =>
    /\ answer.do = "search" /\ ~Extended(answer.id) =>
         answer.rows = Limit(Rows({i \in DOMAIN objects : /\ IsPrefix(answer.id, objects[i].parent)
                                                         /\ answer.class \in {"any", objects[i].class}}), answer.page)
    /\ FoundRight

-----------------------------------------------------------------------------
(* The inductive invariant behind CatalogSound.                            *)

\* The directory that an id leads to.
Leads(id, dir) ==
  IF id = RootId THEN dir = Root
  ELSE \E j \in DOMAIN objects : objects[j].id = id /\ EntryOf(objects[j]) = dir

\* An object has the number of its details, that no other has, and its place.
RowsInv ==
  /\ \A i \in DOMAIN objects :
       /\ objects[i].detail \in DOMAIN details
       /\ objects[i].parent # << >> /\ objects[i].id = Append(objects[i].parent, objects[i].detail)
       /\ Leads(objects[i].parent, Parent[EntryOf(objects[i])])
  /\ \A i, j \in DOMAIN objects : objects[i].detail = objects[j].detail => i = j

\* Each call of upnpd_entry_scan_path has the id of its directory.
FramesInv ==
  \A k \in DOMAIN stack :
    /\ stack[k].id # << >> /\ Leads(stack[k].id, stack[k].dir)
    /\ \A e \in stack[k].todo : Parent[e] = stack[k].dir

\* What is being inserted is in the innermost directory, and its details, once
\* inserted, are still without an object.
PendingInv ==
  /\ pc \in {"detail", "object"} => Parent[pending.entry] = stack[1].dir
  /\ pc = "object" =>
       /\ pending.detail \in DOMAIN details /\ details[pending.detail].entry = pending.entry
       /\ \A i \in DOMAIN objects : objects[i].detail # pending.detail

CatalogInv ==
  /\ ScanOK
  /\ pc \in {"detail", "object"} => pending.entry \in Entries /\ Kind[pending.entry] # "unknown"
  /\ ~spoilt => RowsInv /\ FramesInv /\ PendingInv

-----------------------------------------------------------------------------
(* The one behind SearchRight and BrowseExact.                             *)

\* What has been inserted is there as long as nothing changes.
DiskInv ==
  changes = 0 =>
    /\ \A n \in DOMAIN details : details[n].entry \in disk
    /\ pc \in {"detail", "object"} => pending.entry \in disk

\* An answer is of the program that runs, and from the rows there are.
AnswerInv ==
  /\ pc # "serving" => answer = NoAnswer
  /\ answer.id \in Ids /\ answer.page \in Nat \X Nat
  /\ answer.do = "search" => answer.rows = Limit(Rows(Below(answer.id, answer.class)), answer.page)
  /\ answer.do = "browse" =>
       /\ answer.rows = Limit(Rows(Children(answer.id)), answer.page)
       /\ answer.total = IF answer.rows = << >> THEN 0 ELSE Cardinality(Children(answer.id))
  /\ ~spoilt => FoundRight

Row(e, mirror) == [entry |-> e, mirror |-> mirror]
Has(e, mirror) == \E i \in DOMAIN objects : details[objects[i].detail] = Row(e, mirror)
Covered(e) == Has(e, FALSE) /\ (Mirrors /\ Kind[e] = "movie" => Has(e, TRUE))

\* The rows are of the class of their file, and of one that can be listed.
ClassInv ==
  /\ \A i \in DOMAIN objects : objects[i].class = Kind[EntryOf(objects[i])]
  /\ \A n \in DOMAIN details :
       Kind[details[n].entry] # "unknown" /\ (details[n].mirror => Mirrors /\ Kind[details[n].entry] = "movie")
  /\ pc \in {"detail", "object"} /\ pending.mirror =>
       Mirrors /\ Kind[pending.entry] = "movie" /\ Has(pending.entry, FALSE)
  /\ pc = "object" => details[pending.detail] = Row(pending.entry, pending.mirror)

\* Nothing is inserted twice, as each directory is opened once, and each of its
\* entries read once; what has been inserted has its object.
OnceInv ==
  /\ \A n, k \in DOMAIN details : details[n] = details[k] => n = k
  /\ \A n \in DOMAIN details : (\E i \in DOMAIN objects : objects[i].detail = n) \/ (pc = "object" /\ pending.detail = n)
  /\ \A k, l \in DOMAIN stack : stack[k].dir = stack[l].dir => k = l
  /\ \A n \in DOMAIN details : \A k \in DOMAIN stack :
       Parent[details[n].entry] = stack[k].dir => details[n].entry \in stack[k].read
  /\ pc \in {"detail", "object"} =>
       /\ pending.entry \in stack[1].read
       /\ \A n \in DOMAIN details : details[n] = Row(pending.entry, TRUE) => pc = "object" /\ pending.mirror
  /\ pc = "detail" => \A n \in DOMAIN details : details[n] # Row(pending.entry, pending.mirror)

\* What has been read of a directory is in the database, or is being inserted,
\* and so is all of a directory that has been read to its end.
WholeInv ==
  /\ stack # << >> => disk = scanned
  /\ \A n \in DOMAIN details : details[n].entry \in scanned
  /\ pc \in {"detail", "object"} => pending.entry \in scanned
  /\ \A k \in DOMAIN stack :
       /\ \A e \in scanned : Parent[e] = stack[k].dir => e \in stack[k].todo
       /\ \A e \in stack[k].read \cap scanned :
            Kind[e] # "unknown" => Covered(e) \/ (pc \in {"detail", "object"} /\ e = pending.entry)
  /\ \A e \in scanned :
       /\ Kind[e] # "unknown"
       /\ Parent[e] = Root \/ \E i \in DOMAIN objects : EntryOf(objects[i]) = Parent[e]
       /\ \A k \in DOMAIN stack : stack[k].dir # Parent[e]
       => Covered(e)

ScannedInv ==
  ~spoilt =>
    /\ ClassInv
    /\ stack # << >> \/ complete => OnceInv /\ (steady => WholeInv)

ServedInv ==
  /\ changes \in Nat /\ (complete => stack = << >>)
  /\ DiskInv /\ AnswerInv /\ ScannedInv
=============================================================================
