# upnpavd in TLA+

TLA+ models of upnpavd, the UPnP AV daemon of this repository, with the TLC
configurations that check them and TLAPS proofs about them. Paths are relative
to `src/`; `gena.c` is `upnpd/common/upnp/gena.c`, and so on.

Contents: the system, the plan, the modules, the runs, the fairness, the proofs,
what the models say about the code, what is left out.

## 1. The system

A media server (`upnpd --mediaserver`) announces itself by multicast, serves a
directory tree over HTTP and answers SOAP actions; a control point
(`upnpd --controller`, `upnpfs`) finds media servers, browses them and reads their
files. All of it is C with one thread per HTTP connection and one thread for each
loop (accept, ssdp, expiry timer, transcoder reader and writer).

| component | state | operations | hard part |
|---|---|---|---|
| **thread wrapper**, `platform/posix/thread.c` | `thread_arg_t` on the heap of the creator: mutex, condition, flag | create, join, mutexes, condition wait, timed wait, signal, broadcast | the argument block is freed by the creator while the new thread still uses it; failure of `pthread_create` |
| **HTTP server**, `gena.c` | `gena->running/stopped`, the list of `gena_thread_t` with their own flags, an open vfs handle per connection | init, accept loop, reaping, one thread per connection, uninit | join and free against the last steps of a thread, shutdown under a mutex, peers that stop reading or never finish a header |
| **request handling**, `gena.c` | the request line and headers in one buffer, a `gena_fileinfo_t`, an open file | GET and HEAD with ranges; SUBSCRIBE, UNSUBSCRIBE, POST | arithmetic on unsigned long long and int, files that change size |
| **SOAP exchange**, `gena.c`, `upnp.c` | one connection, read line by line | `send_recv`, `download`, POST and GET handler | pauses, cuts and broken connections at any byte |
| **start and end of the stack**, `upnp.c`, `ssdp.c` | `upnp_t`, `ssdp_t` with its list of entries and its thread | init, register, advertise, byebye, uninit | requests and searches before the device is registered, a thread that has left its loop |
| **device and eventing**, `device.c`, `service.c`, `upnp.c` | services, subscribers, three nested mutexes | subscribe, initial event, renew, unsubscribe, action, info/open/read/close, uninit | lock order, shutdown against requests, a subscriber freed while it is notified |
| **discovery**, `ssdp.c` | per device an interval that counts down; two copies of every datagram | advertise, answer a search, byebye on exit | lost, late and overtaking datagrams, byebye followed by an alive |
| **control point**, `client.c` | the sorted list of devices with their expire times, one mutex | advertisements, descriptions, timer, action, refresh, init, uninit | three threads on one list, the mutex kept over network exchanges; what a description turns into |
| **transcoding**, `contentdir.c` | ring buffer, flags of reader and writer, pid of the encoder | open, read, close; reader thread, writer thread, encoder process | a full ring reads like an end of file, blocking fifo, a pid that is not known yet |
| **browsing**, `contentdir.c`, `entry.c`, `controller.c` | nothing between two requests: the directory is listed anew for each page | Browse, paging loop of the control point | directories that change between pages, a sort that depends on `readdir` |
| **file system: reading**, `upnpfs/op_read.c` | the HTTP connection kept from one read to the next | read of a remote file, of its metadata, of a device file; reopen at another offset | polls that time out with data on the way, refused reopens |
| **file system: names**, `upnpfs/do_findpath.c`, `op_readdir.c` | a cache of paths, the controller's mutex | getattr, open, readdir | stale cache, a mutex that is not released |
| **database**, `database.c`, `entry.c` | two tables in a file that outlives the program | scan, Browse and Search from the rows | a scan cut short, statements that fail, ids that are compared as text |
| **connection manager**, `connection.c` | one connection, and the list of mime types | actions that read them | none without `ENABLE_OPTIONAL` |
| assembly and options, `mediaserver.c`, `mediarenderer.c`, `registrar.c`, `upnpd.c` | tables | option parsing | none of their own |
| text: descriptions, SOAP, DIDL, XML, urls | what a parser keeps between two tags | formatting, parsing | which text an element gets, characters that cannot be written |
| metadata, sockets, files, time | handles of libraries | calls of libraries | their failures, modelled where they are called |

How they interact. `gena.c` owns the sockets and calls back: into `upnp.c` for events
(subscribe, accept, renew, drop, action), which calls the `device_event_handler` of
`device.c`; and into a vfs (open, read, seek, close) that goes through
`device.c` to the content directory. `ssdp.c` calls `client.c` with advertisements.
`client.c` sends actions through `upnp.c` and `gena.c`'s `send_recv`. `controller.c` and
`upnpfs` are callers of `client.c`.

Lock orders, as read from the code and as the models have them:
`device->mutex`, `service->mutex`, `upnp->mutex` for a request;
`upnp->mutex`, then that of ssdp, for registration; `client->mutex`, `upnp->mutex` for
the timer. The ssdp thread releases its mutex before it calls back.

What makes each component correct, and the property that says it, is section 4.

## 2. Plan

The order is that of the consequences: threads and memory first, since every
request depends on them, then the protocols between machines, then the data paths.

| step | module | theorems | state |
|---|---|---|---|
| 1 | `Gena`, `ThreadCreate`, composed in `GenaThreads` | memory safety, clean shutdown, life of the argument block | done |
| 2 | `Device` | memory safety, service outlives use, answer before event | done |
| 3 | `Transcode`, refining `ByteStream` | ring safety, refinement | done |
| 4 | `Presence`, `Client` on top of `Xml` and `Description` | forgetting and keeping; the life of the client's stack, threads and devices; `ListedAsDescribed` for any descriptions | done |
| 5 | `RangeReply` | range arithmetic and promised length | done |
| 6 | `Browse` on top of `Xml` and `Didl` | `AnswerRight` (what is written is read back), `ExactIfUnchanged` and `EachOnce` for any directory, titles and page size | done |
| 7 | `RemoteRead` | `DataRight` and `ShortOnlyAtEnd` for any size and number of reads | done |
| 8 | `PathCache`: cache of `do_findpath.c`, lookups and listings with the controller's mutex | soundness of the cache and exactness of walks, for any tree and any size of the cache | done |
| 9 | `Stack`: init, registration and uninit with the ssdp thread and early requests | no use after free, what is announced is served, sound once registered | done |
| 10 | `Catalog`: scan, restarts, Browse, Search and GET from the database | `CatalogSound`, `SearchRight` and `BrowseExact` for any tree and any number of restarts | done |
| 11 | `Exchange`: one SOAP action, or the download of a description, over a connection that breaks and pauses | `ResultRight` for any texts and any cut or pause | done |

Every safety invariant that a run checks is proved; liveness stays with TLC (the end of section 6).

Abstract specifications worth stating: the byte stream (done); a remote file as a
function from offsets to bytes, which `RemoteRead` implements for sound connections;
a directory listing as the set of entries present throughout, for `Browse`; the tree of a scan,
which the rows of `Catalog` implement when nothing changes.

## 3. Modules

Every module opens with what it models and comments every variable with the field
or local variable it stands for. Definitions whose name has an underscore and whose comment
begins with `MUTANT` (for instance `Test_NoWait`) are faulty variants of the definition after
them, kept to show that the properties can fail; no specification uses them.

**`Gena`** models `upnpd_upnp_gena_init`/`uninit`, `gena_loop` and `gena_thread_loop` as program
counters (`main`, `loop`, `cpc[c]`). A critical section that does not block is
one step, guarded by its mutex being free; a wait on a condition is a `...sleep` point that a
signal turns into a `...wake` point; a signal without a sleeper is lost, and any
sleeper may wake by itself. Per connection the model has the flags, the
mutex, the allocation state of the `gena_thread_t` and the open file. `ChildHeld` is a
thread that stays for good in the call it is in: a `gena_send` to a peer that does not read, a header whose lines
drip in (each character has its own time out, `gena.c:215`), a callback that waits for `device->mutex`, or an
encoder that is read from. `Unborn` connections are those for which
`pthread_create` fails, which `thread.c` does not report.

**`ThreadCreate`** splits `upnpd_thread_create` and `thread_run` finer than the other modules need:
test of the flag and wait are two steps, as are setting the flag, signal and
unlock, so that the lifetime of the argument block can be checked.

**`GenaThreads`** composes the two: the owner starts and joins `gena_loop`, and `gena_loop` each
connection thread, through `upnpd_thread_create` and `upnpd_thread_join`. What `Gena` does in one step
(`OwnerCreate`, `LoopAccept`) begins a handshake during which the creator does nothing else, in the
case of `gena_loop` with the mutex of the connection held; a thread enters its function when `thread_run` calls it. A
join takes a step of both modules, as does the return of a thread. For a connection in `Unborn` the wrapper
returns an object all the same, and `gena_loop` waits for its flag.

**`Device`** has one request per thread and walks it through the handlers of `upnp.c` and
`device.c`: `Subscribe` puts the subscriber on the list, `Answer` sends it the SID,
`LookUp`, `LockDevice`, `LockService`, `Find`, `Compose`, `Connect`, `Notify`, `Await` and `Release`
send the initial event under the mutexes the code holds; `Perform` is an action; `Drop` an
unsubscription and `Renew` a renewal. A GET asks twice, for the length and for the file, and each time `Describe`
looks among the descriptions under `upnp->mutex` before `Info` or `Open` asks the services under `device->mutex`;
`Close` ends the reads, which hold nothing. What has its answer sent (`Reply`), or its header read (`Arrive`), may stay there
for good if it is in `Sluggish`: its peer holds the thread (`stalled`), or, in `Await`, the mutexes as well (`dripping`). `UninitServices`, `StopGena` and
`UninitUpnp` are `upnpd_device_uninit`. The critical sections of `upnp->mutex` are two
steps, so that a path that leaves one without unlocking blocks the others.

**`Presence`** counts time. `Iterate` is the top of `ssdp_thread_loop` with its countdown
(the interval is compared with *half* of the age), `AnswerSearch` the reply to a search, `Leave` and
`StopLoop` the byebye and the end; `HearAlive`, `HearByebye` and `TimerFires` are the
client; `Lose` drops a message and `Tick` passes a unit of time as long as no
deadline (poll, delivery, timer) is due. Messages overtake each other: `net` is a set.

**`Client`** has the owner, `client_timer` and the callbacks of the ssdp thread around
`client->mutex`. Expiry is a choice here; its times are in `Presence`. `InitStack` to `Join` are the points of
`upnpd_client_init`, `refresh`, `action` and `uninit`, `Timer...` those of the timer, `Alive`, `Downloaded` and
`Byebye` the callbacks. The download of a description happens under the mutex, as in the code, and ends in a failure or in what
`DeviceFrom` makes of a document. `Restart` is a device that comes back at another address.

**`Xml`** is the parser: a document is the sequence of the tags that expat finds in it, each with the path of its element and the
text after it, up to the error if there is one (`Garbage`); `Callbacks` are the calls of `upnpd_xml_parse_buffer_callback`, one for each start tag, made at
the tag that comes next: without a value if that is the start of a child, with the text in between if it is the end (`parser.c`). **`Description`** writes a device description as `upnp.c` and other
devices do, and reads it as `client_parser_callback`, `client_upnpd_service_init` and the end of
`client_event_advertisement_alive` do. **`Didl`** writes entries as `upnpd_entry_to_result` does and reads them as
`entry_parser_callback` does, one document escaped inside the other. The three have no state: what they compute
depends on constants, so that TLC computes it once.

**`Transcode`** has the HTTP thread (`vfsopen`, `vfsread`, `vfsclose`), reader thread, writer
thread and encoder process, with the ring of `contentdir.c` byte by byte. **`ByteStream`** is what it
promises: a stream of which a prefix has been delivered, in order, and whose end is
told only when nothing produced is withheld.

**`Browse`** composes the paging loop of `controller.c`, the Browse action of
`contentdir.c` and the sorted listing of `entry.c`; `Create` and `Unlink` change the directory
between any two steps, also while `readdir` runs. `Receive` gets each page as `Didl` reads it back (`Answers`), and
`BrowseMetadata` asks for one entry of the finished listing by its id.

**`RangeReply`** is the second half of `gena_thread_loop`: range header, `vfs.open`, header,
seek, send loop, with the header and page of an error that a failed seek sends after the file's own header (`ErrorPage`), and with `AsLong` and `AsInt` as the conversions of the code, in widths that
are constants (`LongMod`, `IntMax`). The size on disk and the size announced are two
variables, because the announced one was taken when the directory was scanned; `gone` is a file that is removed once it is open,
whose name `upnpd_file_seek` then does not find.

**`RemoteRead`** is `op_read.c` and a server: connections are records of where they stand,
what is under way and whether they are still open. One read at a time, as upnpfs
passes `-s` to FUSE. `ReadMetadata` and `ReadDevice` are the reads of the texts that are composed anew by each read, and
copied from their `Beginning`, whatever the offset (`op_read.c:322` and `:367`).

**`Stack`** is one device from `upnpd_upnp_init` to `upnpd_upnp_uninit`: the owner's program
point follows the calls, `Register` to `Registered` are `upnpd_upnp_register_device`, `Byebye` to
`FreeUpnp` the end; `LoopStart` to `LoopOut` are `ssdp_thread_loop` with the condition handshake
split at its wait; `Arrive`, `Describing`, `LookUp` and `Callback` are HTTP requests that read what
registration sets; `Callback` needs `device->mutex`, which the shutdown keeps (`DeviceHeld`), and a request may be held by its
peer (`stalled`). `Touch` is each lock of `ssdp->mutex` on the way of a notification, also of one that has been freed. `fault` records undefined behaviour that was met, after which the
program does anything, and when the request that met it had come. `Gena` has the threads of
the web server and `Device` what is behind the callbacks.

**`PathCache`** is `do_findpath` with its cache: `FindCached`, `FindRoot`, `FindChild` and `FindMetadata` are
the steps between its calls to the server, `Inserted` its bounded list; `Begin`, `Answer`, `List`, `InsertListed` and
`ListDevices` are the operations of upnpfs around it (`List` asks for the children, `InsertListed` caches one of them).
Each of its calls may fail or come back with a part of the answer (`Browsed`, and `failed` remembers it), or never end (`CallHangs`).
`PathOf` is the path of each object, which the assumption ties to that of its parent. Devices and objects come and go between any two steps.

**`Catalog`** is the database: `Rescan` and `Reopen` are a start with `cached=2` and `cached=1`, `End` a
crash or a proper end at any point, `ReadDir`, `InsertDetail`, `InsertObject` and `EndDir` the scan with one
statement per step (`stack` is that of `upnpd_entry_scan_path`; `InsertObjectFails` and `OpenDirFails` are the failures nobody
looks at, beside the one in `InsertDetail`), `Browse`, `Metadata` and `Search` the actions with
the queries of `database.c`, `Info` and `Open` the two look-ups of a GET. Ids are sequences of numbers, compared as the text they
are written as (`Starts`). A search criterion is the class it asks for; `s:Envelope` requests never give one (section 7).

**`Exchange`** has both ends of a connection: what was sent and how much of it has come (`wire`),
and what each end has read. `GetChar`, `GetLine`, `GetNothing` and `GetLate` are the outcomes of
`gena_getline` (a character, a line, the end of the connection, a poll that timed out); `Content` and `Perform` are
`gena_handler_post`, `File` and `Piece` the reply to a GET of a description, which a server that is stopped
breaks off, `Receive` and `ReceiveEnds` the two ways `upnpd_upnp_gena_send_recv` reads a body. `Header` and `Body` are the parts
of the five messages; `Break` leaves each end with a beginning of what has come.

`MC*` modules give the constants their values; `*Proofs` modules hold the theorems.

## 4. Runs

All of them are exhaustive. Deadlock is checked except where said.

| run | question | properties |
|---|---|---|
| `gena_threads` | three connections, any of which may be held for good, one thread that cannot be created, every start and join through the wrapper | `NoUseAfterFree`, `ShutdownIsClean`, `AssertNotReached`, `ArgOutlivesUse`, `UninitReturns`, `KeepsAccepting`, `CreateReturns` |
| `device_requests` | two subscribers, an unsubscription or renewal, an action, a download with its two look-ups and a shutdown; the peers of one subscriber and of the download may hold their threads | `NoUseAfterFree`, `ServiceOutlivesUse`, `Served`, `InitialEvent`, `UninitReturns` |
| `presence_lossy` | the times of the code, one lost message in a row | `ForgottenInTime`, `NeverForgotten` |
| `client_life` | three devices, two of one name, one that moves, one of a type that is not looked for, with descriptions, from init to uninit | `DeviceOutlivesAction`, `ListedAsDescribed`, `UninitReturns`, `StackUsedLive` |
| `transcode_stream` | a stream of 5 bytes through a ring of 3 | `NoOverrun`, `EndIsEnd`, `StreamInOrder`, `OpenAndCloseReturn` |
| `browse_changing` | five entries, one with a title XML cannot carry, pages of two, two changes, and the metadata of one entry | `ExactIfUnchanged`, `EachOnce` |
| `reply_get` | a 4 bit int, a 6 bit long long, sizes and ranges around their limits | `RangeAsAsked`, `BodyInRange`, `PromiseKept` |
| `remote_reads` | three reads of a file of 4 bytes, or of a text | `DataRight`, `ShortOnlyAtEnd` |
| `stack_life` | a device with one service, two requests, from init to uninit | `AnnouncedIsServed`, `SoundOnceRegistered`, `NoUseAfterFree`, `UninitReturns` |
| `paths_changing` | lookups through a cache of one entry, a directory that another of its name replaces, calls that fail or hang | `CacheSound`, `ExactIfUnchanged`, `OperationsReturn` |
| `catalog_rescan` | a tree of five, scans and restarts, one failed INSERT or `opendir`, pages of two, searches by class, a GET, one change | `CatalogSound`, `BrowseExact`, `SearchRight` |
| `exchange_action` | one action or one download over a connection that delays, cuts and breaks | `ResultRight` |

Bounds, and why they are enough:

* `GenaThreads`: two connections suffice for the list traversals (one reaped while the other runs) and for
  shutdown to wait for one after the other; the third is one that is never
  created. Any of the others may be held. All may come in any order, or not at all. With the thread of `gena_loop` four threads are started.
* `Device`: every pair of request kinds is present, and two subscribers, one of which may be
  dropped before its event (`Hasty`). That one and the download are `Sluggish`: one peer that can hold two mutexes, and
  one that can hold a thread, are enough for the rest to be in their way; held themselves they take no step. The device has one service, because the mutexes of two services are
  never held together. The run does not check deadlock: when everything is done nothing
  happens any more, and a shutdown may really hang (section 7).
* `Presence`: the unit is 2.5 s: age 100 s, expiry 100 s and timer 30 s become 40, 40 and 12;
  a turn of the ssdp loop takes up to 5 s, sending between two alives up to 2.5 s; `Horizon`
  only has to exceed the bound of `ForgottenInTime`. The proof covers the other values.
* `Client`: three devices give insertions at the front, in the middle and at the end of the list, and a tie; a media
  server that is restarted at a second address, with a URLBase; two renderers with a service that has no events and
  a second one of the same type, one of them of a type that is not looked for and with an embedded media server; each is
  advertised under its type and as a root device.
  Once uninitialised the client stops, hence no deadlock check.
* `Transcode`: 5 bytes make the ring of 3 wrap; reads of 2 and blocks of 2 make a copy
  split at the end of the ring on both sides, and reads that are short; a fifo of 2
  blocks the encoder.
* `Browse`: with a folder, three tracks and a movie there are two types besides folders; pages of
  two give up to three requests; two changes are an addition and a removal, two additions
  or two removals, at any time. The title that cannot be written is that of a track, so that it falls on any page.
* `RangeReply`: sizes and places around 0, the chunk, `IntMax`, twice `IntMax` and `LongMod`;
  `LongMod` exceeds twice `IntMax` as 2^64 does 2^32.
* `RemoteRead`: a file longer than a read, a window shorter than a file, three
  reads: one that opens, one that continues, one that moves or repairs. Texts are shorter and longer than a read.
* `Stack`: two entries, the root device and a service, are the least for which one can be announced before
  the other is registered; two requests, one before and one after any point. It stops when
  the device is gone, hence no deadlock check.
* `PathCache`: one device, two directories of one title with a file of one title in each, an item without a
  source, a hidden name and two paths that do not exist; a cache of one keeps the entry just added and
  the one to spare (see `CacheSound`), so that it overflows. The path of length three makes the walk go two servers'
  answers deep. An unmounted file system does nothing more, hence no deadlock check.
* `Catalog`: two folders, so that one id can be the beginning of another (`Base` 2 makes that happen with
  a handful of rows, as 10 does with more than ten), a name that cannot be stored, as the first of all (there is then no row to take the id of) or a later one, a movie with its
  mirror; the change comes before, during or after the scan. Requests alternate with restarts for ever, one to each, as they change nothing;
  a program that has ended may stay so, hence no deadlock check.
* `Exchange`: bodies of two words (three in a description, so that it is sent in pieces of different lengths) are the least that can be cut in the middle; the header lines the code tells
  apart are all present, and each line has a place where it can be cut. It stops when both ends have closed.

What the less obvious properties say, with the situations they leave out:

* `NoUseAfterFree` (`Device`) leaves out control points that unsubscribe before they got
  their initial event: for those the code does use the freed subscriber
  (`upnp.c:420`, after the unlock).
* `ServiceOutlivesUse` covers reads of a file only once `upnpd_device_uninit` has returned: during a shutdown a
  download may go through a service that is freed (`device.c:178`), for as long as the HTTP server takes to end it.
* `UninitReturns` (`Device` and `Stack`) leaves out shutdowns during which a request has yet to get
  `device->mutex`, as the owner keeps it while it waits for that request's thread (`device.c:474`), or during which
  a peer holds the thread of a request, by a header it does not finish or an answer it does not read.
* `UninitReturns` and `KeepsAccepting` (`Gena`) leave out `Stuck`: `gena_loop` waits for a connection thread that is
  in a call which does not return (`ChildHeld`), or for one that was never created. `UninitReturns` (`Client`) leaves out
  a description whose download never ends, which keeps `client->mutex`.
* `Served` is about requests that their own peer does not hold; it and `InitialEvent` leave out what comes after a subscriber
  that never finishes the answer to its event (`Slow`), as `device->mutex` is held over it.
* `ListedAsDescribed` says what a control point may conclude from a description, which is less than one might hope: the services
  are those of the advertisement heard first, and the address is that of the time, until the device expires.
* `StackUsedLive` leaves out a turn of the timer between the end of the stack and the clearing of `client->running` (`client.c:531`);
  the search that it may send goes through memory that is freed.
* `OpenAndCloseReturn` leaves out `Mute`, an encoder that never opens the fifo, and `Orphan`,
  an encoder that is alive but has not told its pid.
* `EndIsEnd`: the end of the stream is told only when nothing that was read from the fifo is left;
  bytes in the fifo may be lost when the last poll timed out (`why = "quiet"`) or the ring was full.
* `ExactIfUnchanged` (`Browse`) allows for two ends that are too early: a lost answer, which ends in "failed", and a page that
  cannot be parsed, which looks like the end of the folder.
* `EachOnce` is about directories with one type of file: with more (`Mixed`) the order of the list
  depends on `readdir`. That none is missed needs that nothing was removed, that none comes twice
  that nothing was added.
* `PromiseKept` leaves out files that shrank on disk, ranges longer than an int can count, and
  wrapped ranges (an empty file or a start beyond the end), for which a header is sent that the body
  does not match. `BodyInRange` allows for one more body: of a file that is now shorter than the start of the range, or that is gone, the
  body is the header and page of an error, after the header that announces the range (`gena.c:897`). `RangeAsAsked` leaves out `bytes=0-0`, which the code reads as "all".
* `DataRight` and `ShortOnlyAtEnd` hold for `Sound` reads: no poll timed out with data on the way
  and no refused reopen, after which `op_read` goes on with a connection that stands elsewhere. Of a text they speak of reads
  from its beginning only: from any other offset the code returns the beginning again (`op_read.c:322` and `:367`). Of a device's text
  `ShortOnlyAtEnd` promises all or nothing (`op_read.c:366`).
* `SoundOnceRegistered` leaves out requests and datagrams that come before the device is registered and without its
  having been announced to the sender: those can meet what is not set yet. `UninitReturns` (`Stack`)
  leaves out runs in which that happened too.
* `ExactIfUnchanged` (`PathCache`) is about walks, not about paths found in the cache, which may be stale; and it
  leaves out two objects of one path (`Ambiguous`). After a call that failed, or came back with a part of the answer, a walk may find nothing of a
  path that is there (`failed`): `op_getattr` says that there is no such file, and nothing tells the two apart. `OperationsReturn` leaves out a root listed with no
  device known (`blank`), after which the mutex is never released, and a call that its server never lets end (`hung`).
* `CatalogSound`, `BrowseExact` and `SearchRight` leave out scans in which an INSERT or an `opendir` failed (`spoilt`), and `BrowseExact` scans
  that were cut short (`complete`) or that ran while the directory changed (`steady`). `SearchRight` leaves out
  containers whose id is the beginning of another folder's (`Extended`).
* `ResultRight` leaves out an end at which a poll timed out in the middle of a header (`late`), and
  allows for an error page as the result of an action: the code never looks at the status line.

## 5. Fairness

Every fairness condition is about threads that run when they can: weak fairness of
each thread's next step, and strong fairness for the steps that
lock a mutex or come back from a wait that others can make wait again, which is what a POSIX scheduler gives to a
thread that is not starved. In `Client` it is strong for the owner on its way through the calls it has begun, for the timer and for the
callback in progress, each of which waits for `client->mutex`; no fairness is on a network exchange, neither the answer to an action nor
the download of a description. In `Gena`, `Device`, `Stack` and `PathCache` what depends on a peer goes on in one of two ways, by ending or by never ending
(`ChildHeld`, `stalled` and `dripping`, `hung`); fairness takes one of them, and the properties say what the second one keeps from happening. The time outs of
the code do not justify more: they are for each character or each block, and no loop around them has a bound. Nothing obliges a client to send a request, an
owner to shut down, a peer to read or to let go of a thread, an encoder to produce before its last byte, the network to
deliver or to lose. `Browse`, `RangeReply`, `RemoteRead`, `Catalog` and `Exchange` state no fairness: their properties are about what has come. In `Transcode` the encoder, once
started, writes on while there is room and exits after its last byte. In `GenaThreads` a creator that wakes up without reason goes back to sleep and `gena_loop` polls
without `gena->mutex`, which justifies strong fairness for `thread_run`'s lock and for the owner's waits. In `Stack` the ssdp thread gives up its
mutex around each poll, which justifies strong fairness for whoever waits for it; in `PathCache` the one thread of the
file system runs on. `Presence` has
no fairness: its properties are bounds in time, and `Tick` is guarded by the
deadlines.

## 6. Proofs

The provers check each theorem for all values of the constants under the
`ASSUME`s of the modules. Every module states an inductive invariant with named
conjuncts (`IInv`; `CacheInv`, `CatalogInv`, `ExchangeInv` and `PresenceInv` in the four whose names were needed apart), and its proof
shows that the initial states have it, that each action preserves it (`...Invariance`), and derives the rest.

Two components of one part of the program (of discovery: `Stack` and `Presence`) share a module of proofs that `EXTENDS` both, so their names are disjoint
(`CatalogSpec`, `CacheSpec`, `ExchangeSpec`, `PresenceSpec`). `ThreadCreate` comes in as the instance `T!` of `GenaThreads`.

| module | of | inductive invariant | theorems |
|---|---|---|---|
| `GenaProofs` | `Gena` | `TypeOK`, `AssertNotReached`, `OwnerInv` (the owner's point follows `running`, `stopped` and the loop's point), `LoopInv` (what the loop's locals say at each point), `ChildInv` (flags and heap of a connection follow its point and its place in the list) | `TypeCorrect`, `NoUseAfterFreeThm`, `AssertNotReachedThm`, `ShutdownIsCleanThm` |
| | `ThreadCreate`, `GenaThreads` | `T!IInv`: `T!TypeOK`, `T!Handshake` (while the creator may not free the block, the mutex or the flag says so) | `WrapperInvariance`, `ComposedIsGena`, `ComposedIsThreadCreate`, `ArgOutlivesUseThm` |
| | `Exchange` | `ExchangeTypeOK`, `ServerReads`, `ClientReads` (what a side has read and what is on its way to it make up one message), `ServerKnows`, `ClientKnows` (what follows from the headers read), `SendInv`, `ResultRight` | `ExchangeInvariance`, `ResultRightThm` |
| `DeviceProofs` | `Device` | `TypeOK`, `LockInv` (each mutex is held exactly at the points that hold it, and only files are at those of files), `SubscriptionInv`, `TargetInv` | `NoUseAfterFreeThm`, `ServiceOutlivesUseThm`, `AnswerBeforeEventThm` |
| `ContentdirProofs` | `Transcode` | `TypeOK`, `RingInv` (the ring holds the bytes `done .. got-1` in order), `RoomInv` (the reader's room is not more than the true one), `EofInv`, `PhaseInv`, `EndIsEnd` | `TypeCorrect`, `NoOverrunThm`, `EndIsEndThm`, `StreamImplemented` |
| | `Catalog` | `ScanOK` (types), and as long as no INSERT and no `opendir` has failed `RowsInv` (an object has the number of its own details and the place of its parent), `FramesInv` (each open directory has the id that leads to it), `PendingInv` (the details just inserted are without an object); from it `ServedInv`: `DiskInv`, `AnswerInv` (the answer is from the rows there are), and `ScannedInv` with `ClassInv` (a row is of the class of its file), `OnceInv` (nothing is inserted twice) and `WholeInv` (all that has been read is inserted) | `CatalogInvariance`, `CatalogSoundThm`, `ServedInvariance`, `SearchRightThm`, `BrowseExactThm` |
| `XmlProofs` | `Xml` | | none of its own: what the callbacks of a document are (`CallsOfNode`, `HeardBoth`), for the two parts of `ClientProofs` |
| `ClientProofs` | `Client` | `ThreadsOK`, `LockInv`, `LifeInv` (the points of the threads, the flags and the stack follow the point of the owner), `DevicesInv` (what is listed or in use is live, and in use only during an action); from it `ListInv`: `HandledInv` (what is downloaded is looked for and not listed) and `ListedAsDescribed` | `StackUsedLiveThm`, `NothingRunsOnThm`, `DeviceOutlivesActionThm`, `DescriptionIsParsed`, `ListedAsDescribedThm` |
| | `Browse`, `Didl`, `Xml` | `ListingInv`: `DirInv` (what has come and gone), `ScanInv` (what is sorted has been there), `ResultInv` (what is collected was there and is described as held), `UpInv` (nothing removed: what is missing is still ahead), `DownInv` (nothing added: what is collected is behind), `SameInv` (nothing changed: the pages of one list) | `AnswerRight`, `ListingInvThm`, `ExactIfUnchangedThm`, `EachOnceThm` |
| `RangeReplyProofs` | `RangeReply` | `TypeOK`, `RangeParsed`, `RangeAsAsked`, `RangeInFile`, `BodySent` (the body is what was read so far, and `offset` where the file stands; or it is the page of an error), `PromiseKept` | `TypeCorrect`, `RangeAsAskedThm`, `BodyInRangeThm`, `PromiseKeptThm` |
| `StackProofs` | `Stack` | `TypeOK`, `MutexInv`, `OverInv` (what the shutdown waits for is over), `SetUpInv` (what is set up at each point of the owner), `ListedInv`, `DatagramInv`, `RequestInv` (what is listed, announced and asked for is there) and the three properties | `AnnouncedIsServedThm`, `SoundOnceRegisteredThm`, `NoUseAfterFreeThm` |
| | `Presence` | `PresenceTypeOK`, `TurnsInv`, `DownInv` (a device that is down has at most this many turns left), `UpInv` (how long ago the last alive was heard) | `ForgottenInTimeThm`, `NeverForgottenThm` |
| `UpnpfsProofs` | `RemoteRead` | `TypeOK`, `WithinInv` (a connection delivers its header and the rest of the file), `BufInv`, `HeaderInv`, `InStep` (a connection on which no poll timed out is where `http->offset` says) and the two properties | `DataRightThm`, `ShortOnlyAtEndThm` |
| | `PathCache` | `CacheTypeOK`, `CacheSound`, `ExistInv` (what there is has its parents), `WalkInv` (the walk has come to an object of a prefix of its path, which the cache does not have), `ListInv` | `CacheInvariance`, `CacheSoundThm`, `ExactIfUnchangedThm` |

An invariant such as `NoUseAfterFree` is not inductive by itself: that a freed record is not
touched follows from where the threads are when it is freed, which is what the further conjuncts say.

How `ResultRight` is proved. What a side has is compared with the message it reads: `HasRead(s, m, k)` says that k symbols of message m
have been read by side s, and that what is on the way continues it. The first lemmas of that part of `GenaProofs` treat it as a relation of
values (`Read`) without regard to the steps: it holds of an empty wire, and is kept when a symbol of a header, the end of a line or a piece of the body is read,
when more of the message is sent and when a connection that breaks takes some of it away. A step that reads, sends or ends then instantiates one of these. The
control point does not know which of the replies it reads; `ClientReads` says that it is one of those the server may have begun, and where
the server is in it (`InStep`). When the body is whole or nothing more comes, what was read is a text, or the beginning of an error's.

How `ExactIfUnchanged` is proved. A walk that finds nothing is right because of the objects on the way: when an object with the path is
there, so is one for each prefix of it, which `PrefixIsThere` shows by taking, among the objects on its path at or below the
prefix, the one with the shortest path: it has a parent, so it is the one at the prefix (a least element instead of an induction).

How `SearchRight` is proved. The query compares the text of ids and the property their prefixes. Each prefix of an id is that of a directory
(`PrefixIsDir`: were there others, the longest of them would be the parent of an object, and that is a directory), so an id whose text the
glob matches goes on from that of the container itself or from that of another folder (`Extended`).

How `BrowseExact` is proved. `OnceInv` and `WholeInv` follow the scan: what is in the database is what has been read so far, once
each. When the scan is over, that makes the rows with one parent and what the directory held correspond one to one (`ChildrenShown`).
`Rows` chooses for each place the row with so many others before it; that there is one is not an induction over their number but
counting: no two rows have one place, and there are as many places as rows (`RowsAreOrdered`, by the pigeonhole theorem for finite sets).

How `AnswerRight` is proved, with the lemmas of `XmlProofs`. A document is a sequence of tags, and each of the texts the server writes is one that closes what it opens (`Whole`). For those
the callbacks of a sequence of documents are the callbacks of each, one after the other, and those of an element are one for itself, with the value decided by whether it has
children, and those of its children with its name before their paths. What `entry_parser_callback` does with the calls of one entry is then followed call by call
(a trace of states, the next of which each call determines), up to the last element of an item; for a page of any length it is repeated entry by entry, which is the
one place that needs an induction: over the entries of a page, through the least place at which it would fail. The outer document is read by a callback that listens to one
path only, and finds the page as the text of one element.

How `ListedAsDescribed` is proved. As for `AnswerRight`, the callbacks of a description are those of its elements, each under the path of what is around it, and what
`client_parser_callback` takes of them is followed element by element (`Reads`): an element whose path it does not look for changes nothing, and of icons, of the version
and of embedded devices no element has such a path (`QuietNode`), however many there are and however deep; the services, of any number, add one entry each (`ServicesAreRead`).
So a description is read as one device, the one that was written, with or without a base (`DescriptionIsParsed`). Of the services of that device, the first one of each type looked
for is taken, if it has events; as no type is looked for twice, these are as many as are offered (`ServicesMade`, by an induction over the types), and their urls are on the host of the
base, whichever of the two it is (`ResolvedIsUrl`). `OutcomeIs` puts this together for one advertisement. What remains is the list: whatever takes devices off it leaves the others in their order
(`WithoutIs`), and a device is inserted where its name belongs (`InsertedInNameOrder`), once, because it was not listed when its download began and nothing else lists one
(`HandledInv`).

How `ExactIfUnchanged` and `EachOnce` (`Browse`) are proved. Inserting an entry keeps a list ordered if its types are comparable (`Mixed` is not), hence the list is the
same whatever `readdir` returned first, and the rank of an entry is the number of entries before it. While entries come, ranks only grow: an entry that
was there and has not been collected has a rank of at least `count`, so a page from `count` on still meets it (`UpInv`). While entries go, ranks only
shrink: what has been collected has a rank less than `count` (`DownInv`), and no page from there on has it again. While nothing changes each page is that of one
list, `WholeList`, mixed or not (`SameInv`): what is missing at the end begins with a page that could not be written.

Assumptions. `Presence` needs the inequalities of `TimesAssumption`: three turns of the timer fit in the
expiry and four do not (90 <= 100 < 120); half an age, a loop turn and the uncounted
sending fit in two turns of the timer (50 + 5 + 2 < 60); a message takes less than a turn; at most
one message in a row is lost. `Exchange` needs that the request, the results and the description are not empty, and that a result is not
the beginning of an error page, from which the control point could not tell it; `PathCache` and `Catalog` that what is called the
parent of a thing is a container. `Client` needs that a description has the texts which `client.c` takes without a look whether they are there (the three of a device; type, id and control
url of a service), and that no address has a slash in it, which is where `upnpd_upnp_url_parse` ends one. The others only need that sets are disjoint and sizes are
positive; `RangeReply` that a long long holds more than twice an int, and that no file is as long as the largest of them.

`ComposedIsGena` and `ComposedIsThreadCreate` show that the specification of `GenaThreads` implements that of
each of its parts, step by step: what is proved of `Gena` holds of the composition, and `ArgOutlivesUseThm` is
the invariant of `ThreadCreate` (`WrapperInvariance`), carried over. For the second, that the joined thread is a thread
(`cur` is on the list) comes from the invariant of `Gena`.

`StreamImplemented` is the refinement of `ByteStream`: each initial state maps to an initial state
and each step to a step or a stutter, with the produced bytes as those taken from the fifo.

Only model-checked are the liveness properties, as the provers do not handle fairness: `UninitReturns`, `KeepsAccepting`, `CreateReturns`,
`OpenAndCloseReturn`, `Served`, `InitialEvent` and `OperationsReturn`.

Proved and in no run: `NothingRunsOn` of `Client`, the `TypeOK` of `Gena` and `AnswerBeforeEvent` of `Device`.

## 7. What the models say about the code

All runs pass. Two places where a comment says one thing and the code does another are in the models as
the code has them:

* `upnpd_thread_create` returns an object although `pthread_create` failed
  (`thread.c:249`); `platform.h:85` promises NULL. Its callers wait for a flag
  the missing thread will not set: `Unborn` in `Gena`.
* The test for HEAD (`gena.c:888`, "only header is requested") looks at a buffer that the headers have
  overwritten (`gena.c:816`), so that a body is sent: `Headers` of `RangeReply` loses the method.

The exceptions listed in section 4 are behaviours of the code as well: each names a state the
model reaches in which the unrestricted property would be false. Others were met while modelling and are not covered by a property:

* the services of a device heard as `upnp:rootdevice` are always looked for with the first entry of that type, so that a
  renderer heard that way has no RenderingControl (`controller.c:67`); a service that has no event url is left
  out, and with it any further one of its type (`client.c:259`);
* in the DIDL of a photo the rating and the storage medium change places (`entry.c:1199`), and every text that a file
  has no value for is sent as `(null)`;
* a read of a `.metadata` or `.devices` file from an offset on returns the beginning of the text again (`op_read.c:322` and `:367`
  copy from its start), so that a text longer than one read is never seen whole; a read of a device file that asks for less than
  what is left returns nothing, as the length is taken from a variable that is still 0 (`op_read.c:366`);
* when the file is shorter than the start of the range by now, or gone, the header and the HTML page of an error follow the 206 header of the file, as
  its body (`gena.c:897`);
* one peer that drips in a header or stops reading keeps a connection thread, and with it each shutdown, for ever; a subscriber that drips in its answer to
  an event keeps `device->mutex`, and a device that drips in its description `client->mutex`; a request
  whose callback waits for `device->mutex` while `upnpd_device_uninit` holds it makes both wait for ever;
* a call to a server that fails in the middle of a walk is told as "no such file" (`do_findpath.c:198`, `:216`, `:241`);
* an action without a response passes NULL to `strlen` (`gena.c:693`); a renewal is always answered with an error
  (`upnp.c:621`); a subscriber never expires;
* `op_readdir.c:49` and `:84` leave with the controller's mutex held when no device is known;
* `Stack`: the HTTP server answers before the device is registered, and then takes the length of a description that is
  NULL or walks a list that is not set up; a NOTIFY that comes then makes `upnp.c:834` call the client callback of
  the union, which in a device lies over the description; a description that cannot be read is freed at
  `upnp.c:981` and again at `upnp.c:1168`; `upnp.c:1056` frees by an index into the last device's pointer; an alive or
  an answer may follow the byebye; one failed poll ends the ssdp thread for good;
* `PathCache`: an entry is never invalidated, only displaced, so that a path can lead to an object that is gone; a
  title with a slash cannot be reached; the cache keeps one entry more than its size;
* `Catalog`: a GET of the id of a folder ends the program, which copies its mime type from NULL (`contentdir.c:984`); a name with a quote makes the INSERT fail, which nobody sees, and the entry is listed with the details of the row
  before it (`database.c:337`), or with none, which ends the program when it is listed; ids are numbered by the order of `readdir` at each
  start with `cached=2`, so that a url kept from before may lead to another file; a search below `0$1` also finds what is below `0$10` (`database.c:274`); the child
  count of a folder is asked for without quotes (`database.c:160`) and is 0; a directory that cannot be opened is left empty, and the scan counts as complete; an empty root is answered with
  NoSuchObject; the SearchCriteria of an `s:Envelope` request is looked for under `u:Browse` (`contentdir.c:303`) and
  never found; `cached=1` serves a scan that was cut short;
* `Exchange`: an error page is returned to the caller as the result of its action; when a header pauses for 20 s the rest of
  it is taken for the body at either end (`gena.c:219`), and a server may perform that; the end of a connection in the
  middle of a line leaves the line without its end (`gena.c:224`);
* `url_parse` takes port 80 for a url with a port and no path (`upnp.c:504`);
* a Browse with a RequestedCount of 0, which asks for everything, lists nothing (`entry.c:746`).

## 8. Not modelled

* The connection manager: `ENABLE_OPTIONAL` is off (`config_default.h:20`), and without it there is one connection, made by its
  init and never changed, and a list of mime types; every action reads.
* The assembly of devices from tables, option parsing, and the command line controller, which prints. Service tables are
  built before the start and never changed.
* Text other than descriptions and DIDL: service descriptions (scpd), single actions, HTTP request lines, SSDP datagrams, escaping,
  numbers. No property is about their wording; where a parser fails the models have the failure.
* The client's subscription to events, which sends nothing (`client.c`); attributes of upnpfs; NOTIFYs at
  the level of `Exchange`, where the reply they get is dropped.
* The metadata and snapshot libraries, sqlite3 behind its statements, the sockets, files, clocks and
  interfaces: wrappers, whose results and failures are choices where they are called.
* sqlite3, expat and coremake, which are third-party and nine tenths of the lines of this repository.
* In `Transcode` a pipe or a fork that fails, after which the writer closes a stream it does not have (`contentdir.c:796`); in `Browse` that an
  entry which was unlinked since `opendir` is skipped, and that one which has come since may be listed (`entry.c:703`); in `Presence` that a
  spurious wakeup of the timer's wait counts as a turn of 30 s (`client.c:432`), which `NeverForgotten` would not survive. The transcoder is part of the program
  with `ENABLE_TRANSCODE`, which `config_default.h:35` leaves off.
* Descriptions without one of the three texts of a device, or with two devices that are not embedded: the code then copies NULL, or
  frees by an index into the last device (`client.c:360`).
* Memory exhaustion (`malloc` returning NULL), clocks that are set back, and the integer overflow of
  counters other than those of `RangeReply`.
