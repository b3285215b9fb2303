------------------------------ MODULE PathCache ------------------------------
(***************************************************************************)
(* How upnpfs turns a path into an object of a media server: do_findpath   *)
(* and its cache (upnpfs/do_findpath.c), and the operations that use it    *)
(* (op_getattr.c, op_open.c, op_readdir.c, op_destroy.c), each component   *)
(* of a path costing two calls to a server whose content changes meanwhile. *)
(*                                                                         *)
(* A path is the sequence of its components: the name of a device, and the *)
(* titles below it.  main() mounts with -s, so there is one operation at a *)
(* time; the devices are those client.c keeps under controller->mutex.     *)
(***************************************************************************)
EXTENDS Naturals, FiniteSets, SequencesExt

CONSTANTS
  Devices,    \* names of devices, each the parent of its object "0"
  Objects,    \* the objects the devices may ever have, roots apart
  Parent,     \* the device or object each is a child of
  Title,      \* its dc:title
  PathOf,     \* its path
  Containers, \* the objects of a class object.container
  Playable,   \* the items that have a res
  Hidden,     \* titles that begin with a dot
  Asked,      \* paths that are looked up
  CacheSize   \* priv.cache_size

Nothing == "nothing"

ASSUME PathCacheAssumption ==
  /\ Devices \cap Objects = {}
  /\ Parent \in [Objects -> Devices \cup Containers]
  /\ Title \in [Objects -> Range(Title)]
  /\ PathOf \in [Devices \cup Objects -> Seq(Devices \cup Range(Title)) \ {<< >>}]
  /\ Containers \subseteq Objects
  /\ Playable \subseteq Objects \ Containers
  /\ \A d \in Devices : PathOf[d] = << d >>
  /\ \A o \in Objects : PathOf[o] = Append(PathOf[Parent[o]], Title[o])
  /\ \A path \in Asked : path # << >> /\ path \in Seq(Range(path))
  /\ Nothing \notin Devices \cup Objects
  /\ CacheSize \in Nat

VARIABLES
  devices, \* controller->devices
  exist,   \* the objects the servers have now
  held,    \* controller->mutex was taken and never let go of
  cache,   \* priv.cache, from its head to its tail
  lookup,  \* program point of the operation
  op,      \* the operation, and the path it is for
  at,      \* the object do_findpath has come to
  done,    \* how many components of the path led there
  result,  \* what do_findpath returned
  listed,  \* the children that op_readdir has yet to put in the cache
  steady,  \* nothing has changed since the operation began
  failed,  \* its last call failed, or was answered only in part
  blank    \* the root was listed when no device was known

server == << devices, exist >>
walk == << op, at, done, result, listed >>
cacheVars == << devices, exist, held, cache, lookup, op, at, done, result, listed, steady, failed, blank >>

Operations == {"getattr", "open", "readdir", "readmetadata"}
Nodes == Devices \cup Objects

\* do_validatecache: an item without a source is not worth an entry.
Valid(n) == n \in Devices \cup Containers \cup Playable

CacheInit ==
  /\ devices \in SUBSET Devices
  /\ exist = {}
  /\ held = FALSE
  /\ cache = << >>
  /\ lookup = "idle"
  /\ op = [do |-> "getattr", path |-> << >>]
  /\ at = Nothing /\ done = 0 /\ result = Nothing /\ listed = {}
  /\ steady = TRUE
  /\ failed = FALSE
  /\ blank = FALSE

-----------------------------------------------------------------------------
(* The devices, and the list client.c keeps of them.                       *)

DeviceComesOrGoes(d) ==
  /\ ~held
  /\ devices' = IF d \in devices THEN devices \ {d} ELSE devices \cup {d}
  /\ steady' = FALSE
  /\ UNCHANGED << exist, held, cache, lookup, walk, failed, blank >>

Appear(o) ==
  /\ o \notin exist /\ Parent[o] \in exist \cup Devices
  /\ exist' = exist \cup {o}
  /\ steady' = FALSE
  /\ UNCHANGED << devices, held, cache, lookup, walk, failed, blank >>

\* What is below an object goes with it.
Disappear(left) ==
  /\ left \subseteq exist /\ left # exist
  /\ \A o \in left : Parent[o] \in left \cup Devices
  /\ exist' = left
  /\ steady' = FALSE
  /\ UNCHANGED << devices, held, cache, lookup, walk, failed, blank >>

-----------------------------------------------------------------------------
(* The cache.                                                              *)

Cached(path) == {i \in DOMAIN cache : cache[i].path = path}
Entry(path, n) == [path |-> path, object |-> n]

\* MUTANT: the oldest entry makes room one entry too late.
Inserted_Late(list, path, n) ==
  IF (\E i \in DOMAIN list : list[i].path = path) \/ ~Valid(n) THEN list
  ELSE << Entry(path, n) >> \o (IF Len(list) > CacheSize + 1 THEN Front(list) ELSE list)

\* do_insertcache: an entry the path already has is kept, as old as it may
\* be; the oldest one makes room; an entry that is not valid is dropped.
Inserted(list, path, n) ==
  IF \E i \in DOMAIN list : list[i].path = path THEN list
  ELSE LET room == IF Len(list) > CacheSize THEN Front(list) ELSE list
       IN IF Valid(n) THEN << Entry(path, n) >> \o room ELSE room

\* What do_insertcache returns for it.
Kept(path, n) ==
  IF Cached(path) # {} THEN cache[CHOOSE i \in Cached(path) : TRUE].object
  ELSE IF Valid(n) THEN n ELSE Nothing

-----------------------------------------------------------------------------
(* Operations.                                                             *)

\* op_getattr, op_open or op_readdir of a path of a device, of the .metadata
\* directory below it or of a file there; op_getattr and op_access of other
\* paths do nothing but answer.
Begin(do, path) ==
  /\ lookup = "idle"
  /\ op' = [do |-> do, path |-> path]
  /\ lookup' = "find"
  /\ at' = Nothing /\ done' = 0 /\ result' = Nothing
  /\ steady' = TRUE /\ failed' = FALSE
  /\ UNCHANGED << server, held, cache, listed, blank >>

\* MUTANT: the listing of the root never lets go of controller->mutex.
ListDevices_Keeps ==
  /\ lookup = "idle" /\ ~held
  /\ held' = TRUE
  /\ blank' = (blank \/ devices = {})
  /\ UNCHANGED << server, cache, lookup, walk, steady, failed >>

\* op_readdir of / and of /.devices: with no device the way out does not let
\* go of controller->mutex.  Each device found is asked for its object "0".
ListDevices ==
  /\ lookup = "idle" /\ ~held
  /\ held' = (devices = {})
  /\ blank' = (blank \/ devices = {})
  /\ UNCHANGED << server, cache, lookup, walk, steady, failed >>

\* do_findpath has the answer for op: result' is set by the caller.
Answer == lookup' = IF op.do \in {"getattr", "open"} \/ result' = Nothing THEN "idle" ELSE "list"

\* do_findpath: hidden names are not looked for, and do_findcache comes first.
FindCached ==
  /\ lookup = "find"
  /\ IF \E i \in DOMAIN op.path : op.path[i] \in Hidden
       THEN result' = Nothing /\ Answer
     ELSE IF Cached(op.path) # {}
       THEN result' = Kept(op.path, Nothing) /\ Answer
     ELSE lookup' = "root" /\ UNCHANGED result
  /\ UNCHANGED << server, held, cache, op, at, done, listed, steady, failed, blank >>

\* The walk ends: with what do_insertcache gave for the last component, or in
\* a call that failed.
Fail == result' = Nothing /\ Answer

\* upnpd_controller_browse_metadata of the object "0" of the device: there is
\* no such device, the call fails, or it is there.
FindRoot ==
  /\ lookup = "root" /\ ~held
  /\ LET d == op.path[1] IN
     \/ Fail /\ failed' = (d \in devices) /\ UNCHANGED << cache, at, done >>
     \/ /\ d \in devices /\ failed' = FALSE
        /\ at' = d /\ done' = 1
        /\ cache' = Inserted(cache, << d >>, d)
        /\ IF Len(op.path) = 1 THEN result' = Kept(<< d >>, d) /\ Answer
           ELSE lookup' = "children" /\ UNCHANGED result
  /\ UNCHANGED << server, held, op, listed, steady, blank >>

\* The children there are: none, if the device or the object is gone.
Children(n) ==
  IF Head(PathOf[n]) \in devices THEN {o \in exist : Parent[o] = n} ELSE {}

\* What upnpd_controller_browse_children returns of them: an answer that is
\* lost ends it with the pages there were before, and a page whose Result does
\* not parse leaves out its own.
Browsed(n) == SUBSET Children(n)

\* The first child with the title of the next component; which one that is,
\* when several have it, is up to the server.
FindChild ==
  /\ lookup = "children" /\ ~held
  /\ \E got \in Browsed(at) :
       /\ failed' = (got # Children(at))
       /\ LET named == {o \in got : Title[o] = op.path[done + 1]} IN
          \/ \E o \in named : at' = o /\ lookup' = "metadata" /\ UNCHANGED result
          \/ named = {} /\ Fail /\ UNCHANGED at
  /\ UNCHANGED << server, held, cache, op, done, listed, steady, blank >>

\* MUTANT: the path so far is put in the cache before the component is added.
FindMetadata_Shorter ==
  /\ lookup = "metadata" /\ ~held
  /\ LET there == at \in exist /\ Head(PathOf[at]) \in devices IN
     \/ Fail /\ failed' = there /\ UNCHANGED << cache, done >>
     \/ /\ there /\ failed' = FALSE
        /\ done' = done + 1
        /\ LET path == SubSeq(op.path, 1, done) IN
             /\ cache' = Inserted(cache, path, at)
             /\ IF done' = Len(op.path) THEN result' = Kept(path, at) /\ Answer
                ELSE lookup' = "children" /\ UNCHANGED result
  /\ UNCHANGED << server, held, op, at, listed, steady, blank >>

\* Its metadata: it is no longer there, the call fails, or the path so far is
\* put in the cache.
FindMetadata ==
  /\ lookup = "metadata" /\ ~held
  /\ LET there == at \in exist /\ Head(PathOf[at]) \in devices IN
     \/ Fail /\ failed' = there /\ UNCHANGED << cache, done >>
     \/ /\ there /\ failed' = FALSE
        /\ done' = done + 1
        /\ LET path == SubSeq(op.path, 1, done') IN
             /\ cache' = Inserted(cache, path, at)
             /\ IF done' = Len(op.path) THEN result' = Kept(path, at) /\ Answer
                ELSE lookup' = "children" /\ UNCHANGED result
  /\ UNCHANGED << server, held, op, at, listed, steady, blank >>

\* op_readdir: the children are listed; they are put in the cache, unless it is
\* the .metadata directory that is listed.
List ==
  /\ lookup = "list" /\ ~held
  /\ \E got \in Browsed(result) :
       /\ listed' = IF op.do = "readmetadata" THEN {} ELSE got
       /\ failed' = (got # Children(result))
  /\ lookup' = IF listed' = {} THEN "idle" ELSE "insert"
  /\ UNCHANGED << server, held, cache, op, at, done, result, steady, blank >>

\* A server that goes on sending the lines of a header, each of them in time,
\* keeps the call, and the one thread of the file system with it.
CallHangs ==
  /\ lookup \in {"root", "children", "metadata", "list"} /\ ~held
  /\ lookup' = "hung"
  /\ UNCHANGED << server, held, cache, walk, steady, failed, blank >>

\* The next of them, in the order of the answer.
InsertListed ==
  /\ lookup = "insert"
  /\ \E o \in listed :
       /\ cache' = Inserted(cache, Append(op.path, Title[o]), o)
       /\ listed' = listed \ {o}
  /\ lookup' = IF listed' = {} THEN "idle" ELSE "insert"
  /\ UNCHANGED << server, held, op, at, done, result, steady, failed, blank >>

\* op_destroy: the client is shut down, which takes controller->mutex.
Destroy ==
  /\ lookup = "idle"
  /\ lookup' = "destroy"
  /\ UNCHANGED << server, held, cache, walk, steady, failed, blank >>

Destroyed ==
  /\ lookup = "destroy" /\ ~held
  /\ cache' = << >>
  /\ lookup' = "unmounted"
  /\ UNCHANGED << server, held, walk, steady, failed, blank >>

Steps == FindCached \/ FindRoot \/ FindChild \/ FindMetadata \/ List \/ InsertListed \/ Destroyed

CacheNext ==
  \/ \E d \in Devices : DeviceComesOrGoes(d)
  \/ \E o \in Objects : Appear(o)
  \/ \E left \in SUBSET exist : Disappear(left)
  \/ \E do \in Operations, path \in Asked : Begin(do, path)
  \/ ListDevices \/ Destroy \/ CallHangs \/ Steps

(* The thread of the filesystem is scheduled; a call to a server returns,  *)
(* with an answer or without one, or it hangs.                             *)
CacheSpec == CacheInit /\ [][CacheNext]_cacheVars
CacheFairSpec == CacheSpec /\ WF_cacheVars(Steps)

-----------------------------------------------------------------------------
(* Properties.                                                             *)

CacheTypeOK ==
  /\ devices \subseteq Devices /\ exist \subseteq Objects
  /\ held \in BOOLEAN /\ steady \in BOOLEAN /\ failed \in BOOLEAN /\ blank \in BOOLEAN
  /\ cache \in Seq([path : {PathOf[n] : n \in Nodes}, object : Nodes])
  /\ lookup \in {"idle", "find", "root", "children", "metadata", "list", "insert", "hung", "destroy", "unmounted"}
  /\ op \in [do : Operations, path : Asked \cup {<< >>}]
  /\ at \in Nodes \cup {Nothing} /\ result \in Nodes \cup {Nothing}
  /\ done \in Nat /\ listed \subseteq Objects

(* Whatever came and went while it was filled: the cache leads no path to  *)
(* an object of another path, has a path once, and no more than one entry  *)
(* over its size.                                                          *)
CacheSound ==
  /\ \A i \in DOMAIN cache : PathOf[cache[i].object] = cache[i].path
  /\ \A i, j \in DOMAIN cache : cache[i].path = cache[j].path => i = j
  /\ Len(cache) <= CacheSize + 1

\* What an operation that found its path by walking should have found.
There == {n \in devices \cup exist : PathOf[n] = op.path /\ op.path[1] \in devices}
Due == IF \E n \in There : Valid(n) THEN There ELSE {Nothing}
Ambiguous == \E n, m \in exist : n # m /\ PathOf[n] = PathOf[m]

(* A walk during which nothing changes finds the object of the path when   *)
(* there is one that is valid, and nothing when there is none; only a call *)
(* that failed, or whose answer was not whole, lets it find nothing of a   *)
(* path that is there: op_getattr then says that there is no such file.    *)
ExactIfUnchanged ==
  [][/\ lookup \in {"root", "metadata", "children"} /\ lookup' \in {"idle", "list"}
     /\ steady /\ ~Ambiguous
     => {result'} = Due \/ (failed' /\ result' = Nothing)]_cacheVars

(* Every operation returns, and so does the unmount, unless the root has   *)
(* been listed with no device known or a server does not let a call end.   *)
OperationsReturn ==
  lookup \notin {"idle", "unmounted"} ~> lookup \in {"idle", "unmounted", "hung"} \/ blank

-----------------------------------------------------------------------------
(* The inductive invariant of the proofs.                                  *)

\* What there is has its parents.
ExistInv == \A o \in exist : Parent[o] \in exist \cup Devices

\* The walk is for a path the cache does not have, and has come to an object
\* of a prefix of it; one that is there, if nothing has changed.
WalkInv ==
  /\ lookup \in {"find", "root", "children", "metadata"} => op.path \in Asked
  /\ lookup \in {"root", "children", "metadata"} => Cached(op.path) = {}
  /\ lookup \in {"children", "metadata"} => done \in 1 .. Len(op.path) - 1
  /\ lookup = "children" => at \in Nodes /\ PathOf[at] = SubSeq(op.path, 1, done)
  /\ lookup = "metadata" => at \in Objects /\ PathOf[at] = SubSeq(op.path, 1, done + 1)
  /\ lookup \in {"children", "metadata"} /\ steady
       => op.path[1] \in devices /\ at \in devices \cup exist

\* What is listed is the object of the path, and what is put in the cache for
\* it are children of this object.
ListInv ==
  /\ lookup \in {"list", "insert"} => result \in Nodes /\ PathOf[result] = op.path
  /\ lookup = "insert" => \A o \in listed : Parent[o] = result

CacheInv == CacheTypeOK /\ CacheSound /\ ExistInv /\ WalkInv /\ ListInv
=============================================================================
