# Verification of kitech/touse

TLA+ models of the parts of this repository that have a protocol of their own,
TLC configurations that check them on small instances, and TLAPS proofs of
what matters most for every instance.

The repository is a box of tools in C, V, Go and Emacs Lisp. Much of it is
bindings to C libraries, pure conversions and vendored code. What is left falls in
four groups, and the models follow them:

- `hturnal/`, a TURN-like relay over HTTP in Go, in which every request runs in
  its own goroutine over shared pools, tables and channels, with long polls, time
  limits and a cleanup goroutine;
- three C libraries on libcurl: `curlrq` (a request queue with a worker thread),
  `github` and `misskey` (API clients with a handle and a client that outlive a call);
- desktop programs in C: the tray icon, its notification and menu, the tray
  detector, and two readers and writers of files, `bloom` and `xml`;
- programs that follow their host and network: `netut` (addresses by netlink),
  `psutil` (processes) and `mdns` (services).

## 1. Inventory

### The hturnal server

| Part | State | Operations | Used by |
|---|---|---|---|
| client port pools (`turn/portpool.go`, `IPPortPool`) | per address: the ports taken, the next port; one mutex | `AllocateClientPort`, `ReleaseClientPort` | allocate handlers |
| relay port pool (`turn/portpool.go`, `GlobalRelayPortPool`) | the ports taken, the next port; one mutex | `Allocate`, `Release` | allocate handlers |
| allocation table (`storage/memory.go`) | relay ID to allocation pointer; one RWMutex | save, get by relay ID / client ID / port, delete, delete by client ID | all handlers |
| allocation (`storage/types.go`) | permissions, message slice, channels, connections, expiry; an RWMutex of its own | changed through pointers handed out by the table | handlers, cleanup |
| control handlers (`turn/handler.go`, `turn/tcp_handler.go`) | locals | allocate, refresh, deallocate, permission | clients |
| message plane (`turn/handler.go`, `turn/relay.go`) | `MessageQueues`, `IncomingQueue` | send, long-poll receive, POST and GET `/relay/{port}` | clients |
| TCP relay (`turn/tcp_handler.go`) | connections shared by two allocations, two channels each, a queue of offers per allocation | dial, long-poll accept, POST and GET `/relay/tcp/{port}/{conn}` | clients |
| streams (`turn/stream.go`) | chunks by number, `MaxSeq`, expiry | start, send, long-poll receive, end | clients |
| cleanup goroutine (`storage/memory.go`) | none | removes expired sessions, allocations and streams; closes and removes idle connections | ticker |
| STUN, discovery (`stun/`, `discovery/`) | a session that nothing reads | binding, server list | clients |
| client library (`client/`) | client ID, relay ID, port | allocate, dial, accept, read, write, close | programs |

The parts interact through pointers and locks. A handler looks an allocation up
under the table's lock, lets go of it, and works on the pointer under the
allocation's lock, a channel, or no lock at all. Meanwhile a deallocate or the
cleanup goroutine may take the allocation out of the table, a refresh may put it
back, and the cleanup goroutine, which holds the table's lock for a whole sweep,
may close connections that handlers are using. No handler is cancelled when its
client goes away.

### What makes each part correct

- port pools: the search visits every port once and stops; the port it returns is free.
- control plane: what is in the table can be found, by each of its three names;
  two allocations never share a name; a relay lives as long as its lifetime says;
  ports are owned by one holder and given back.
- message plane: a message acknowledged is read once, in order, by its addressee.
- TCP relay: an offered connection is accepted once and found from both ends; a
  datum is read once by the other end, or its writer is told; channels are closed
  once; idle connections, and only those, are closed.
- streams: what is cleared was received, and what was received is not received again.

### The C libraries and programs

| Part | State | Operations | What is hard |
|---|---|---|---|
| request queue (`curlrq/curlrq.c`) | engine with mutex and condition, queue, active list, worker thread, defaults | init, settings, add, wait, cleanup; worker loop, idle exit, libcurl callbacks | the worker leaves while a request arrives; cleanup drains with the lock let go; failures of thread and transfer |
| github client (`github/github.c`) | one global curl handle and its options | some seventy endpoints, upload, pages by `next_link` | options set by one endpoint are still set for the next |
| misskey client (`misskey/src/misskey_client.c`) | a client's proxy, last code and detail | raw calls, readers of structures and lists, upload, download, stream | who owns an answer's tree; what an error's detail is about |
| tray icon (`x11ut/x11tray.c`) | menu, tooltip, notification, icon, settings | X events in any order, menu callbacks, a fade a turn | a callback rebuilds the menu it was clicked in |
| icon pictures (same file) | the picture, scaled, its palette, XPM lines | load BMP, scale, quantize, look up, write | palettes and tables that are full; cut files |
| tray detector (`x11ut/tray_detect.c`) | the manager's selection, the window, retries, menu | embed, retry, events | a manager that comes late or goes |
| bloom filter (`bloom/bloom.c`) | shape, bits, the file | init, add, check, merge, save, load | writes that fail over an older file |
| XML parser (`xml/xmlc.c`) | buffer, tree | parse, descend by name, free | where a tag, an attribute and a text end |
| address monitor (`netut/ip_monitor.c`, `ipaddr_list.c`) | netlink socket, running flag, list | list, start, process, stop, free, search | changes before and during the listing; a stop from another thread |
| process listing (`psutil/*.c`) | none but the caller's; `/proc` | scans, searches, counts, watch | processes that end, and whose number is used again, between two reads |
| mdns (`mdns/mdns.c`, `mdns.h`) | sockets, records, a message in its buffer | announce, ask, answer, goodbye, dump; write and read names and records | lost datagrams; references between names; buffers that end |

They do not call each other. `curlrq`, `github` and `misskey` call libcurl, which
is external; `x11ut` the X server and the tray's manager; `netut` and `psutil` the
kernel; `mdns` its like on other hosts.

What makes each right:

- request queue: an accepted request is in one place until its callback, which is
  called once; cleanup loses none and ends; a worker is there while work is.
- github client: a request has its endpoint's method and body; all pages are reached.
- misskey client: an error's detail is that of the last request; no memory is lost.
- tray icon: what is highlighted can be clicked, and what is shown is what is in
  force; a notification goes. Detector: a late manager gets the icon.
- files: an icon keeps its picture, a filter denies nothing it was given, a document
  is read back.
- host: what a program says of addresses, processes and services is so, once the
  last message has been taken or the last read made; its waits end; a message is
  read as it was written.

### Parts that are not modelled

| Part | Why |
|---|---|
| hturnal client library (`hturnal/client`) | its requests are those of the models; short reads and its close need a module of their own (see the plan) |
| STUN and discovery (`hturnal/stun`, `hturnal/discovery`), programs, examples | stateless answers, flags and routing |
| sqlite and redis storage (`hturnal/storage`) | do not implement the `Storage` interface (`GetAllocationByPort` is missing) and are never used |
| process supervision (`psutil/supm.v`, `flock.v`, `reproc.v`) and mpv control (`mpv`, `mpvut`) | V code on the V runtime's processes and sockets; on the plan |
| language bindings of the C libraries (`*.v` beside them) | declarations and wrappers |
| `tcltk`, `pftray`, `libnotify`, `emacs`, `emlut`, `inotify`, `fswatch`, `recut` | bindings without a protocol of their own |
| `tcs`, `ffi`, `bdb`, `mgs`; cJSON, unity, stb, md5, murmurhash | vendored, or bindings to databases and system calls |
| `md4c`, `idtico`, `recapt`, `hexrgb`, `binut`, `clodev`, `log1`, `nixpkgut`, `oai` | pure conversions, and command line programs of one pass |
| Windows and macOS branches of `netut/ip_monitor.c` | hand the callback to the system |
| the fuzz program of `mdns/mdns.c` | feeds random bytes; the models speak of messages the programs write |

`mdns.h` and the bloom filter descend from public libraries but are kept and used
here as source, and are modelled as they stand.

## 2. Modules

| Module | What it is |
|---|---|
| `RotatingPool` | vocabulary of a rotating pool: wrap-around, distance in cyclic order, first free port |
| `PortPool` | abstract pool: every operation is atomic |
| `PortScan` | the search loop of both pools, an iteration per step; implements `PortPool` |
| `PortScan_proofs` | its theorems |
| `TurnAllocation` | allocate, refresh, deallocate, table, cleanup, clock; its pools answer as `PortPool` does |
| `TurnAllocation_proofs` | its theorems |
| `Duplex` | abstract connection: two queues that the two ends write and read atomically |
| `TcpRelay` | dial, accept, relay POST and GET, connection sweep; implements `Duplex` |
| `MessageRelay` | permission, send and receive, `/relay/{port}` |
| `StreamRelay` | chunked streams |
| `StreamRelay_proofs`, `MessageRelay_proofs`, `TcpRelay_proofs` | the theorems of the three data planes |
| `CurlQueue`, `CurlQueue_proofs` | curlrq: engine, callers, waiters, worker thread, cleanup |
| `GithubClient` | github: every endpoint on the shared handle, the walk over pages |
| `MisskeyClient` | misskey: calls, readers, memory, stream |
| `HttpPrograms`, `HttpPrograms_proofs` | the three libraries, one chosen at the start, and the theorems about them |
| `X11Tray`, `XpmImage`, `TrayDetect` | tray icon, its pictures, the detector |
| `BloomFilter` | filters and their file |
| `XmlParser` | the parse of a document and its descent |
| `IpMonitor`, `ProcessTable` | addresses and processes, against a host that changes |
| `DesktopPrograms`, `DesktopPrograms_proofs` | tray icon, its pictures, detector, bloom filters, address monitor, process listings and mdns programs: one of the seven, of those in `Started`, chosen at the start, and the theorems about them |
| `MdnsService`, `MdnsMessage` | services, clients and dumps; one message in its buffer |
| `MC...` | instances for TLC: symmetry sets and small values; `PortScan` needs none |
| `MCDesktopPrograms` | the seven of `DesktopPrograms`, and besides them XML and messages |

`HttpPrograms`, `DesktopPrograms` and `MCDesktopPrograms` are sums and no compositions:
the programs of a group share nothing, so a behaviour is about one of them and the
variables of the others stay as they began. Their states add up and one run asks the
same question of each. The first two keep the constants of their programs as
parameters, so that what a run asks is also what the theorems state; the third
adds to its instance of the second the XML parser and the messages, whose definitions
are recursive and are checked on instances only. Its two runs differ in the programs
they choose from.

Definitions marked "Mutant", and those that `PROJECT.json` lists as one, are
variants of an operation with a plausible slip; no specification uses them. They
show that the properties can fail.

### How steps correspond to code

A request is served once. Its `pc` says where its goroutine stands; a step is a
stretch of code under one lock, one operation on a channel, or one assignment
that other goroutines can see. Identities that the server generates are
identified with the request that causes them: an allocation with its allocate
request, a connection with its dial, a datum, message or chunk with its POST.
`generateID`, `conn_%d` and `generateStreamID` are clock readings and are taken
to be distinct.

**PortScan.** `Call` takes the mutex and remembers `start`; `Iterate` is one turn of
the loop: `TakePort`, `SkipPort`, or `Normalize` (the branch for a port out of
range, which never runs, as `TypeOK` shows). `Release` cannot happen during a
search, because the mutex is held. The per-address pool is dropped when its last port
is released (`portpool.go:80`), which is the reset of `nextPort` to 1.
`AtLimit` is the count that only the per-address pool makes before it searches:
`perIP`, which never changes, says which of the two pools a behaviour is about.

**TurnAllocation.** `TakeClientPort`, `TakeRelayPort`, `PurgeClient` and `SaveNew` are
the four stretches of an allocate; `RelayExhausted` and `ReleaseClientPort` its
failure path. `RefreshGet`, `RefreshExpiry` and `RefreshSave` are the lookup, the
two unlocked assignments and the second save of a refresh. `Deallocate` and
`CleanupExpired` are one step each, since each runs under the table's lock.
The error paths of purge and save are left out: the memory table never
reports an error. `deallocated` is a history variable.

**TcpRelay.** `DialGetCaller`, `DialGetPeer`, `DialIntoPeer`, `DialIntoCaller` and
`DialPush` or `DialTimeout` are the stretches of a dial; the permission that a dial
gives itself is in the second. `RelayGet` is the lookup both methods start with.
`PostSend`, `PostBackoff` and `PostPanic` are one turn of the retry loop,
`PostTouch` the unlocked `LastActivity = now` after it, and `GetTake`, `GetGone`,
`GetTimeout` and `GetTouch` the same for a read. `SweepStart`, `SweepVisit` and
`SweepEnd` are cleanup with the table's lock held, so that lookups wait (`Found`).
A visit to one allocation is one step: no other code writes `Closed`,
the connection maps are under the lock the visit holds, and a send that falls
between the flag and the close is the same as one before the visit. `idle` is
the set of connections that have not been used for five minutes, `active` those
whose `LastActivity` is not the zero time. `Leave` and `Return` stand for the control
plane: deallocate, and a refresh that had found the allocation before.
A client that stops waiting changes nothing here, since no handler looks at its
request's context, and is not modelled.
A client uses the port of its own allocation, as `client/tcpconn.go` does.
`Connection` maps all this to `Duplex`: a handler's `Outcome` is `called` while it tries
or polls, and what it will answer from the step that decides it; `At` is the end a client
stands at, which the code finds out by comparing the client with the owner. `Duplex`
promises nothing about when a call ends or a connection closes.
Backoff and traffic counters, which only the stats endpoint shows, are left out.

**MessageRelay.** A message, and a reader, goes over either plane. `SendFind`, `SendPermitted` / `SendForbidden`, `SendFindPeer` /
`SendNoPeer` and `SendAppend` are the stretches of `/turn/send`; `PostFind` and
`PostPush` / `PostFull` those of `POST /relay/{port}`, which asks for no
permission and does not look the sender up. `ReadFind` and `ReceiveTake`, `GetTake` or
`ReadTimeout` are the long polls. `End` forgets what a refused request had looked up.
`before` is a history variable.

**StreamRelay.** `ReceiveCount`, `ReceiveCopy` and `ReceiveClear` are the three holds of
the lock in a receive. `Copies` is what a loop over a Go map, in any order, can
have copied when it breaks at the first number that is not below `MaxSeq`. `seen` is a
history variable.

In the C programs a definition has the name of the function it stands for, where
one definition stands for one function. Requests, files, options and texts are
values with the few features the code tells apart.

**CurlQueue.** The callers' functions are one step each, since they hold the mutex
throughout: `curlrq_init`, the setters, `curlrq_add` (`Refuse`, `Accept`,
`CreateThreadFails`), `curlrq_wait`, `curlrq_cleanup` with `Joined` and `FreeEngine`. The
worker's steps are what it does between two releases of the mutex: `TakeMutex`, the
end of its idle wait (`WakeUp`, `IdleTimeout`), the loop that starts requests
(`start_request`, `StartFails`, `StartLoopEnds`), which keeps the mutex from one request
to the next, the callbacks, which do not hold it (`FailedCallback`, `DoneCallback`,
`DrainCallback`), `MultiWait`, `drain_queue` and `ThreadExits`. libcurl appears as
`write_body_cb` and `complete_request`. One condition variable serves worker and waiters
(`Broadcast`). A node freed by a failed `pthread_create` stays on the queue as
`dangling`; from the first use of it the engine is `undefined` and nothing is
claimed any more.

**GithubClient.** An endpoint is a record: the arguments it tests, those it uses
without a test, the method its documentation promises, the custom request it
sets, whether it sends a body, and, for listings, how it builds the URL of a page.
`Setopts` is what its `curl_easy_setopt` calls leave on the handle: `sticky` outlives
the call. `perform` is the call, which answers, is cut in the middle, or is refused.
`WalkStart` and `WalkStep` are a program that goes on to `next_link`, which
`header_cb` takes from what `parse_link_header` found; `Wanted` is the page each form of
URL asks for. The text of an answer is left out.

**MisskeyClient.** A raw call and a reader are rows too; a row says how its reader takes
an answer: `ack`, `strict`, `lenient`, `list` or `tidy`. `misskey_request` is what every raw call goes
through; `Headers` is the list that is lost when its second header cannot be appended; `Details` is a copy that may find no memory. `held` and `leaked` are the blocks
a program has to free and those nobody can free. Streams never connect, because
the transfer that would connect them is never performed, and every message is a
network error. Two slips of `parse_note` concern single fields and are not
kept: the visibility's string pointer is read as a number, and booleans are read
only from JSON numbers.

**X11Tray.** The functions that change the tray's structure are operators from one
structure to the next, applied by the event handlers in the code's order. An event, one
pass of `x11ut__notification_update` (`Update`), the passing of a notification's time
(`Tick`) and a call of a program's are steps. After a callback that rebuilt the menu,
`x11ut__handle_menu_click` draws and hides through the pointer to the old one: the
step may crash. `x11ut__handle_notification_click` is never called and has no step.

**XpmImage.** `Load` is the reader of each format, whole or cut; `LoadFile` the chain from
the file to the XPM lines: scaled unless it has the icon's size, its colours found, each
pixel looked up. `Truncated` is the code's product of a pixel's number and the ratio of the
sizes, in floats and cut to an integer; the run has exact values, which floats have there,
and the proof any. (For an icon of 24 a float never gives more than the exact quotient, and
at most one pixel less: so computed for every size below 600 000.) An entry of
the palette is known by the place where its colour is first met. A pixel
has one channel, as in a grey picture: the nearest of three channels is that of the least sum
of squares, which may leave one of them further off than what `PictureKept` claims of
the one. **TrayDetect.** `Embed` and `Retry` begin `x11ut__tray_embed`, which looks the
manager up; `Send` and `MapWindow` are the rest of it, up to where the icon is marked as
embedded. `ManagerComes` and `ManagerLeaves` are the manager, who may leave between any two
of them: `request` says whether its addressee still is there. The menu's window has a
height of 0, which the X server refuses, so nothing follows from showing it.

**BloomFilter.** Bits are the set of those set, hashes any functions. `Written` says
what the file holds after each of the four writes of `bloom_save` may have failed:
nothing is truncated, so old bytes stay behind. **XmlParser.** The parser is one operator per
function, each with a position, a result and the memory it has taken; documents
are written by `Text` from small trees, with spaces, tabs or nothing between the tags, a space or
a tab before an attribute, and, without gaps, also with any one symbol missing. `isspace`
holds of both, and `xml_strtok_r` splits at spaces only.

**IpMonitor.** `Turn`, `Select` and `netut__parse_netlink_message` are the turns of the
blocking thread, the other functions the calls of the thread that owns the
monitor; the kernel adds, removes, unplugs, and puts a message in the socket's buffer
if there is room. A name is an address and the scope printed behind it: `Listed` is how
`getnameinfo` prints one, `Told` the two names, without a scope, that a message about an
address is told by, its own and that of the far end (`Peer`). A start asks only whether the
monitor runs; a thread whose socket was closed under its `select` is `stale` until that
returns. `view` is what a program knows that listens first, then lists, then
follows. **ProcessTable.** A call of `todo` is several steps: a `readdir`, a file of
`/proc`, a system call; the table changes between them. A system call on the directory
returns the next `Batch` entries as of then, which `readdir` hands out one by one. `qsort` leaves
processes of equally many threads in any order, so the top list is one of a set of
results. `held` (what a process was seen to be while the call ran) and `steady` (who was there
all along) are history.
The Windows and macOS branches are calls of their own.

**MdnsService.** Datagrams wait at each node in order, and are
taken by `Serve`, a client's `query_callback` or `dump_callback`. A service answers the
questions of a datagram one by one, as it parses them: `Serve` answers the first and
`ServeRest` each of the others, which are in `reading` until then. A datagram may be lost,
and `lost` is the set of nodes that have lost one. Records have a
lifetime only in so far as a goodbye's is zero. `AskForeign` is the question of a
program that is not in the repository, asked from the mDNS port. **MdnsMessage.** `Begin`, `Write`, `Send` and
`Finish` write and send one message, an item per step, into a buffer of `capacity`
octets; `Octets` is how many of them the reader gets. A name is written label by label, or
ends in a reference to an earlier label which the ring `table` still knows.
`ReadQuestion`, `DiscoveryAnswer` and `ReadRecord` are the loops of the three
receiving functions. One that breaks off goes on with the next section from where it stood
(`LeaveSection`), one that returns ends the message (`StopReading`). `FieldsAt` is what
`mdns_records_parse` takes for a record's fields: those written there, or, since it does not
ask whether it could skip the name, any. A buffer holds a cell where each part begins, so that where the octets
lie is exact and what they spell is not.

## 3. What is checked

| Run | Instance | States | Shows |
|---|---|---|---|
| `scan` | 5 ports, either pool | 3 726 | the loop returns, passes only taken ports, refines `PortPool` |
| `allocation` | 4 requests, 1 address with 3 ports, 2 relay ports, clock to 1 | 202 374 | `IInv`, unique names, harmless purge, residence; every handler answers; what expired leaves |
| `tcp_data` | 1 connection, 3 POSTs, 1 GET, channels of 2, 2 attempts | 250 893 | exactly once, closed once, drained before 410; refines `Duplex` |
| `tcp_connect` | 2 dials, 2 accepts, queue of 1 | 319 457 | offered once; found from both ends |
| `tcp_live` | 1 dial, 2 POSTs | 35 292 | dials and POSTs are answered; idle connections are closed |
| `stream` | 2 streams, 2 chunks, 2 receives, numbers -2, 0, 1 | 195 152 | `MaxSeq` bounds the numbers; nothing is received again; every request is answered |
| `message` | 3 messages, 2 readers, answers of at most 2, channel of 2 | 1 202 552 | held once, right addressee, no overtaking, on either plane |
| `http_programs` | curlrq: 2 requests, 1 waiter, 1 option, queue limits 0 and 1, asked for -1, 1 and 5 at once; github: all endpoints, 2 bodies, 3 pages; misskey: all calls, any allocation may fail | 164 143 | requests are held once, called back once, bounded, lost by no cleanup, answered; sent as meant; errors and memory are the last call's |
| `desktop_programs` | tray: 2 sets of options, 5 heights, fade of 150; detector: 5 retries; addresses: a tunnel's with a far end and a link-local one, on 2 interfaces, buffer of 2 | 282 447 | menu, icon and screen agree with the settings; the monitor's reader has the kernel's addresses, but for the ways in which it is wrong by design; notifications fade, a late manager is asked, a stop ends the blocking call |
| `desktop_readers` | bloom: 2 filters, 2 elements, 3 shapes, 1 save; processes: 2 numbers, 2 programs, 2 changes a call, batches of 2; pictures of up to 2x2 with 4 levels, palette 2, table 3, icon 3x3; mdns: 2 services, 1 client, 1 dump, 1 loss, 1 foreign question; XML: 2 names, 2 children, spaces and tabs; messages: 7 kinds, buffers of 40 to 160 octets, tables of 2 and 16 | 415 252 | a filter denies nothing it was told, a finished listing names each process once, as it was, and leaves out none that stayed; pictures are kept; services are as they are said to be; documents and messages are read as written; a watch ends with its process, and a client with its questions |

### Where the code departs from what it says

Two runs expect a violation:

| Run | What happens |
|---|---|
| `github_reads` | `ReadsOnlyRead`: an endpoint that reads is sent with the method and body an earlier endpoint has left on the shared handle |
| `stream_clears_only_received` | `ClearsOnlyReceived`: a receive clears chunks that it has not copied |

More statements of this kind are in the modules, behind the properties that
hold. No run has them; what stands against each is this:

| Statement | What the code does |
|---|---|
| `TurnAllocation`: `DeallocatedGone` | a refresh between lookup and save brings a deallocated relay back |
| `TurnAllocation`: `RelayPortsReleased` | no relay port is ever returned after a successful allocate |
| `TcpRelay`: `ClosesOnlyIdle` | the first sweep after a dial closes the connection: its `LastActivity` is zero |
| `TcpRelay`: `NoSendOnClosed` | a POST sends on a channel that cleanup closed, and panics |
| `CurlQueue`: `WaitReturns` | a request that cannot be started empties the queue and wakes nobody |
| `CurlQueue`: `ClosedRefuses` | an add that comes while a cleanup without a worker ends is accepted (`LateAdd`) |
| `MisskeyClient`: `ProxyUsed` | uploads, and every request after a proxy URL that does not parse, go out directly |
| `MisskeyClient`: nothing is lost | nor the list of headers, when the second cannot be appended (`misskey_client.c:407`), nor the tree of an answer that is no array (`:1830`); `NothingElseLeaks` lets these two pass |
| `IpMonitor`: the view is the kernel's | a point-to-point address is told by both its ends, the far one too (`ip_monitor.c:288`, `:314`); a link-local address is listed with a scope (`ipaddr_list.c:352`) that no event's name has, and so is never removed; the removal of an address after its interface is skipped (`:310`); `CaughtUp` names each |
| `IpMonitor`: a stop ends the blocking call | not if the monitor is started again before the call has noticed (`ip_monitor.c:380`): it goes on |
| `TrayDetect`: an embedded icon was docked | it is marked as embedded 100 ms after its request, also when the manager has left since, and nobody is asked again (`tray_detect.c:348`) |
| `XmlParser`: white space is white space | a tab or line end before an attribute joins the tag's name, and the closing tag does not match (`xmlc.c:464`); `Readable` keeps it out |
| `X11Tray`: `x11tray.c:4478` announces that the pointer on a bubble pauses its fading | nothing does: no `EnterNotify` is handled for the bubble (`:3673` is for the icon, and shows the tooltip), and `FadesOut` holds whether the pointer is on the bubble or not |
| `X11Tray`: `ShownOpaque`, `InkOnPaper` | a bubble shown again keeps the opacity of its last fade; its text keeps the colours of the old theme |

Five observations have neither. A connection that
was closed while one allocation was visited stays in the map of the other
(`memory.go:187`); `SweepVisit` does what the code does. A long poll of the relay never
looks at its request's context, so a datum it takes after its client stopped
waiting reaches nobody (`tcp_handler.go:478`): "read" in this document means
handed to a handler. An accept answers with the acceptor's own ID
(`tcp_handler.go:248`). And `mdns_string_table_find` takes a stored name that merely
begins with the labels searched (`mdns.h:699`): when a host is called `local`,
an answer about its instance is written with wrong references. `WellEnded` keeps such
messages out of `ReadAsWritten`. The last: `mdns_records_parse` ignores whether a name could be
skipped (`mdns.h:782`); every name that the programs write can be.

### Bounds

Every bound is a constant. Two clients are the two ends of a connection; a third
would only be another caller. `tcp_data` has three POSTs for channels of two: two
data in one channel have an order, and a third finds it full. One GET is enough to read
the first of them out of order; two that compete for a datum are left to the proof.
Capacities of 1 or 2 stand for 1024 and 65535, so
that full queues happen within a few steps, and pools of 2 ports wrap round and run
out in a run of 4 requests: with 3 client ports and 2 relay ports the relay pool is
the one that fails after a client port was taken, while another request
allocates from the same address. `allocation` has one address, since pools of
different addresses share nothing; the proofs cover any number. `PortScan` has 5
ports: a lap that starts in the middle, wraps and meets holes. `MaxAttempts` is 2
for 10: one retry and the last. `MaxTime` bounds the clock: the default lifetime (0
there) and -1 (a negative lifetime is accepted by the server) expire within it.
`tcp_live` has no long polls: they end by `AcceptTimeout` and `GetTimeout` at any
time. Symmetry is used for safety only. Runs of
`StreamRelay` do not check for deadlock: when all requests have been served and
all streams have expired nothing happens any more. Nor do those of the C programs, which
end.

Of the C programs, two requests are one that is driven and one that waits, is refused
or is drained; `CURLRQ_MAX_CONCURRENT` is 3 as in the code, and -1, 1 and 5 lie below, at the
lower end of and above the range; with two requests 2 is no bound. Three pages are a first, a middle and a last. A fade of 150, for
10, passes one opacity between opaque and gone, at which the formula for the window is
evaluated; both sets of options start in the dark theme, and a click on the menu changes
it; the five heights meet both items that rebuild the menu, a
mark, the exit and a notification. Pictures of four pixels
overflow a palette of two and a table of three; they stand for 32 and 64. A bloom filter
of 17 bits has a byte that is not full, one of no bits is what an error near one
makes. An address buffer of two overflows with three changes. The two addresses there are
the two kinds whose names differ, one with a far end and one with a scope; the run has no loopback
interface, so that leaving addresses out of a list is by family and by what is down. Two processes are one that
stays and one that goes and comes back under its number. A second service, client or
dump adds messages that no node relates to the first's. Message buffers from 40 to 160
octets end at every place of every kind of message, and a table of two labels goes
round where sixteen do not.

### Fairness

A handler that has begun keeps running, so each of its steps is weakly fair: a
goroutine is scheduled again, its timers fire, its sleeps end. The second lookup of
a dial, which waits for the table's lock while cleanup holds it, is strongly fair:
Go's `sync.RWMutex` lets the waiting readers in when the writer leaves. The
cleanup ticker ticks for ever. Nothing is assumed of clients: no request need ever
arrive, and no wall clock need move. `MessageRelay` states no fairness and no liveness:
its long polls are loops up to a deadline, like those of `StreamRelay`.

Of the C programs, the threads and loops that have begun go on: curlrq's worker, its
join and the end of a cleanup, a waiter that was woken, the tray's update and the
detector's loop with the request it is sending, which run at every turn of a loop with a
time limit, the blocking
thread of the address monitor (`select` waits one second), the steps of a process call,
and the turns of mdns services, clients and dumps. A transfer of curlrq is strongly
fair: it ends by an answer or by libcurl's time limits, the worker looks for
finished transfers again and again, and each is reported. A program that pages
goes on as long as there is a next page. Nothing is assumed of users, of the X server, of
the kernel's changes or of the network.

## 4. What is proved

The theorems hold for every set of requests, clients, addresses, filters and elements and
for every size of the pools, channels and queues, under the named assumptions of the
modules: pools have at least one port, model values are distinct, lifetimes are
integers, hashes are natural numbers, process numbers are finitely many, a process has at
least one thread, the number of processes a program asks to be shown is positive, the
levels of a pixel are bytes, the sizes of pictures and of their tables are positive and a
palette is no longer than the table of colours, a scaled pixel's number is some natural
number (however it is rounded), and no node of mdns is of two kinds.

- `PortScan_proofs`: `Invariance`, and from it `TypeCorrect` and `NeverPassesFree`;
  `ScanImplementsPool`. The
  invariant `PassedTaken` is inductive together with the types, an operation at a time
  (`CallKeeps`, `SkipKeeps`, ...): `Ahead` counts the ports
  from `start`, `AheadStep` says that a skip adds the current port to those passed
  and no other, and `LapClosed` that a search which is back at `start` has passed
  them all. The refinement follows: taking a port is `Allocate` because
  everything ahead of it was taken (`TakeSeen`), and giving up is `Exhausted` (`SkipSeen`,
  `RefuseSeen`). The limit test of
  the per-address pool needs a counting argument, `LimitMeansFull`.
- `TurnAllocation_proofs`: `Invariance`, and from it `ClientIDUniqueAlways`,
  `RelayPortUniqueAlways`, `PurgeHarmlessAlways`, `ResidentAlways`. Uniqueness in the
  table is not inductive: it holds because every allocation, stored or not, and
  every handler on its way owns its ports. `PortsBacked` says that a port somebody
  relies on is marked in its pool, so that a search cannot return it;
  `PortsExclusive` that no two rely on the same; `PointersIssued` that only issued
  allocations are in the table or in a refresh's hands, so that a save cannot store
  something half built. `IInv` is the conjunction.
  Note that the argument uses that ports are never given back after a successful
  allocate: whoever adds the release that `memory.go:154` asks for has to release after
  the last pointer is gone, or `ClientIDUnique` and `PurgeHarmless` fail (two
  of the variants in `TurnAllocation` show it).
- `StreamRelay_proofs`: `Invariance`, `TypeCorrect`, `NeverReadAgainAlways`. That a receive
  returns nothing an earlier answer contained does not follow from what is stored
  alone. The invariant adds that a stored or copied chunk belongs to a send to that stream
  which is done (`ChunksSent`, `ReadSent`), that no stream holds a chunk of an
  answer (`AnsweredCleared`), and that what a receive saw answered when it began stays
  answered (`SeenAnswered`). It does not claim that a cleared chunk was
  copied, which the code breaks.
- `MessageRelay_proofs`: `Invariance`, `TypeCorrect`, `HeldOnceAlways`,
  `ReadByAddresseeAlways`, `NoOvertakingAlways`. Both planes are a queue per client with
  readers that take from its head, so one predicate, `Plane`, is proved for pushing,
  taking and standing still and used twice. It says that a queue holds, once each, the
  messages sent to its client and not read, and that what was acknowledged before a
  queued message was sent stands before it or has been read. The second half is what
  "no overtaking" needs and what no single read shows.
- `TcpRelay_proofs`: `Invariance`, `TypeCorrect`, one theorem for each other invariant
  of the runs `tcp_data` and `tcp_connect`, `ReadFromOtherEndAlways`, and
  `RelayImplementsDuplex`. Offers, data to the peer and data to the owner are
  three kinds of queue with the same rule, `Lane`: its elements are those whose handler
  has put them there and that nobody has taken, each in the queue of the one it is for,
  and once. `Trying` says that a POST which has not given up has
  an attempt left, so that its last try either sends or refuses. For the refinement,
  `Stands` says that a handler which has found its connection writes to the queue of the
  far end and reads from that of its own; one lemma per operation (`WriteSeen`, `ReadSeen`,
  `RefusalSeen`, ...) shows that the step which decides the answer is the operation of
  `Duplex`, and `Unseen` that any other step of a handler, of the two lookups or of the
  tables is a stutter, though a dial fills in the client that `At` is compared with.
  `CloseSeen` needs `ClosedOnce`: what a visit closes was open, because the `Closed` flag
  that cleanup looks at and the channels it closes agree. The invariant `ReadFromOtherEnd`
  of `TcpRelay` is proved, and on the instance it is part of what the refinement checks.
- `CurlQueue_proofs`: `Invariance`, `TypeCorrect`, `HeldOnceAlways`, `CalledOnceAlways`,
  `ConcurrencyBoundAlways`, `WorkNeedsWorkerAlways`, and under `~LateAdd`
  `ClosedRefusesAlways` and `CleanupLosesNothingAlways`. `HeldOnce` counts the places of a
  request; `CountAppend` and `CountTail` say what adding to a list and taking from its head
  do to the count, `MoveKeeps` and `CallKeeps` that a step which moves a request, or
  calls its callback, keeps it. That is not inductive alone: `WorkerHolds` says what the
  worker can have in its hand, in its drained list and in flight at each place in its loop,
  `NoneDue` that a worker which left idle left nothing due, and `DanglingRefused` that a
  freed node is queued only while there is no worker, so that the next accepted add
  touches it. `HttpPrograms_proofs` uses them.
- `HttpPrograms_proofs`: `Invariance`, `TypeCorrect`, and one theorem for each safety
  property of the run `http_programs`. Its `Inv` is a conjunction of one invariant for
  each library, and a step of the sum is a step of one and a stutter of the others
  (`EachSteps`). For curlrq it is that of `CurlQueue_proofs` with
  `CleanupLosesNothing`, so that `RequestsKeptAlways` is stated under `~LateAdd` as that one
  is. For github, `Caused` says of each option that is
  left on the handle (method, body, size of the body) that an endpoint which sets it was called
  before: a request inherits from the handle, so what was sent is not enough to go by. The
  argument splits the table of endpoints into three kinds of row, and is then about
  kinds and not about seventy names. For misskey, `Remembered` relates code and
  detail to the outcome of the last request; the detail is that of the last request because
  `misskey_request` forgets before it remembers, and because everything that does not go
  through it does not count as a request.
- `DesktopPrograms_proofs`: `Invariance`, `TypeCorrect`, `MenuSoundAlways` and
  `ToldIsKnownAlways`: all safety properties of the runs `desktop_programs` and
  `desktop_readers` but `ReadTrue`. (The types of the readers' variables are proved and no
  run checks them.) `Inv` is again a
  conjunction of one invariant for each program.
  - Tray icon: every structure the handlers pass on is `Sound`, which is `Nearly`
    (types, the icon's theme, the menu's language and theme, the highlight on an item that
    can be clicked, one reference to the font while there is a menu) and `Current` (what a
    visible menu's window shows is what was last drawn). `Current` alone is no invariant of the
    operators: a callback, a new theme or a checked item leaves the screen behind
    until `x11ut__menu_draw`, so the operators are proved to keep `Nearly`, and `DrawSound`,
    `HideSound` and `ShowSound` to restore the rest. `CallbackRebuilds` is the case in
    which a callback has freed the menu that was clicked: its handler goes on with the old
    pointer, and either what it draws and hides is the freed one, which leaves the new menu as it
    was made, or the step is the crash that the model has. `AlikeSound` lets bubbles and tooltips change below all that.
  - Bloom filters: the history of each filter is related to its bits
    (`FiltersHold`), and that of the file to the bytes in it (`FileHolds`), where a save that
    failed half way may have put new bits behind an old head: a save sets no claim until all
    four writes are done, and merging requires equal shapes. `Fits` says that no
    bit lies beyond the bytes of its shape, without which what `bloom_save` writes would
    not be what is loaded.
  - Address monitor: who has read all messages agrees with the kernel (`CaughtUp`), which
    says nothing while messages are under way. `QueueTells` makes it inductive: the last
    message queued for an address says whether the kernel has it; and
    `ViewTrue` that every name in the view is one the listing gave with a scope or the
    name of an address that the kernel has, that a message is queued for, or whose
    interface has lost its name (`gone`); and that an address of the kernel with no message
    queued is in the view under one of its names, unless it was changed before the listing
    (`left`) or is only known as the far end of a link. `IpPlaces` is
    that the socket is open exactly while the monitor runs, so that a thread that has
    crashed has left none open. `Reliable` is when either is claimed: the socket is open, has not
    overrun, and its thread has not ended.
  - Process listings: what a finished call says of processes was true of each at
    some moment of the call, and a process that stayed has been listed. The table moves
    under the walk, so both need its position: `WalkFine` says that who lies ahead and was not
    handed out by the last system call lies beyond all that were, so that no process is
    met twice, or passed unless it has just appeared; `GatheredFine` that what was gathered is
    `Truthful` (of `held`, which only grows) and covers `steady` as far as the walk has come.
    That a system call returns nothing only at the end (`NextOnes`) is an argument on
    the cardinality of finite sets. `Arranged` is about what `qsort` and the limit make of the list, for
    every order it may leave equals in.
  - Pictures: `PicturesInv` says of each stage between file and icon what it has kept: of
    a whole file, what is loaded is the picture in it (`LoadFine`: BMP's rows are
    stored from below, JPEG fills what it has not read), and what is drawn satisfies
    `PictureKept`. The rest is about operators. `Sources` and `Resized` say that scaling
    takes each pixel from one inside the picture, however the ratio is rounded; `EveryColour` that a palette that is
    not exhausted has each colour once, by an injection from the places where colours are
    first met into the colours; `NearestFound` that the search ends with an entry which no
    other is nearer than, because a set of distances has a least number. `IconNear` adds up: at most 31 lost by the three bits of the palette's colours, at most
    16 by taking the nearest.
  - Services, clients and dumps of mdns: `Found` and `Withdrawn` speak of a client that is
    done and a dump that has read all, and say nothing while datagrams are under way. For
    clients, `Answered` says where an answer can be until then: heard, in a response before
    the client, or still to come because the question is in a datagram before the service,
    or among those it is answering. That a service answers one question per step
    makes this inductive: what is left of a datagram bears the others (`QuestionAnswered`). For
    dumps, `Believed` is what a listener believes or will once he has read what is coming, and
    `Revoked` that from some response on, all there is about a record withdraws it: a
    goodbye is the last that a service sends, and no other service announces its records
    (`RecordsApart`). `ServiceFine` says that a service hears only on sockets
    it has, so that its answers go where its announcement and its goodbye go. `WayKnown` is
    that an answer has all that one needs to go on from it to an address.
  - Detector: its types, with the number of tries bounded by `Tries`; a loop that is asking a
    manager has a try left.

Only model-checked: liveness (fairness and `ENABLED` are outside the prover's
reach: `ScanReturns`, `RequestsFinish` of three modules, `ExpiredRemoved`, `IdleSwept`,
`AllAnswered`, `Settles`, `WaitsEnd`), and `ReadTrue`: what the recursive
definitions of `XmlParser` and `MdnsMessage` compute for every document and every message
would take induction over data, and a module that contains them can state no
theorem. For these two, `desktop_readers` is an exhaustive check of small documents and of
messages in buffers of every size from 40 to 160.

## 5. Plan

1. Client library (`client/`): a module of reads into short buffers, closes that tell
   the server nothing, and `Client.Close`, which names the relay by a field that the
   server does not decode; composed with `TcpRelay`.
2. A composition of `TurnAllocation` with `TcpRelay` and `MessageRelay`, replacing
   `Leave` and `Return` by the control plane itself.
3. Clock readings as identities (`generateID`): what happens when two requests get
   the same.
4. `psutil/supm.v` and `mpvut/cmder.v`, with the processes and sockets they drive.
