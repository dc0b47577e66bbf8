# TLA+ models of oida

oida is a tracer that lives inside a Go process: it records HTTP requests and
background jobs as traces, keeps the newest of them, and serves a live view.
This directory holds TLA+ modules translated from its source, the TLC
configurations that check them on small instances, and proofs that hold for
every instance. Paths in the modules and below are relative to the repository.

Run from this directory:

    tlc -workers 2 -config TracerRegistry.cfg MCTracer.tla
    tlapm TracerProofs.tla

## The system

| Component | Source | State | Operations | Modules |
| --- | --- | --- | --- | --- |
| tracer | `tracer.go` | enabled flag; active traces by ID; lifetime counters, counts per host, state times; all but the flag under `t.mu` | Middleware, StartTrace, Observe, Finish, Snapshot, Live, Trace, Reset, SetEnabled | `Tracer` |
| trace, span | `model/trace.go`, `span.go`, `debug_span.go`, `log.go`, `clock.go` | state, times, spans, log lines, error; a lock per trace and one per span | StartSpan, End, SetDebug, SetState, RecordError, Info to Error, Finish, CloneInto | `TraceRecording` |
| trace pool | `model/tracebox.go` | pooled boxes, their slots, the armed flag | take a box, reset, Release, ReleaseOnCollect | `Serving` |
| response writer | `internal/response_writer.go` | status, bytes, whether a header was written | WriteHeader, Write, ReadFrom, Flush, Hijack | `Serving` |
| ring buffer | `internal/ring/ring.go` | slots, cursor, full flag | New, Push, List, Find, Reset | `Ring` over `BoundedLog` |
| memory storage | `storage/memory_storage.go` | a ring under a mutex | Save, Load, List, Reset | `Retention`, `BoundedLog` |
| disk storage | `storage/disk_storage.go` | folder of documents; a memory storage | Save, Load, List, Reset, Prune, Restore | `DiskStorage` |
| broker | `internal/broker.go` | set of subscriber channels | Subscribe, release, Notify | `Broker` |
| live stream | `frontend/handler.go`, `frontend/drain.go` | per connection: the page last written | serveEvents | `LiveStream` over `Tracer` |
| options, environment | `model/options.go`, `internal/options_from_env.go` | none | NewOptions, defaults, the variables, validation, New | `Settings` |
| authentication | `model/auth.go`, `frontend/login.go`, `negotiate.go` | the signing secret of a process | allow list, sign in, check | `Access` |
| request attributes | `internal/remote_addr.go`, `ignored_path.go`, `route_pattern.go`, `request_id.go` | none | read off one request | `Requests` |
| front end pages, statistics | `frontend/view/page.go`, `filter.go`, `sort.go`, `model/stats.go` | the filters, in the URL | the views, their links and forms, the lists and groups | `Listing` |
| timeline | `frontend/view/timeline.go`, `memory.go` | none | the detail page of one trace | `Timeline` |
| samplers, attributes, deltas | `internal/rate_sampler.go`, `model/attributes.go`, `internal/memory_limit.go` | the sampler's counter | Sample, conversions | `Numbers` |
| command line tool | `cmd/oida` | none of its own | a demonstration server | not modelled |
| templates, assets | `*.templ` and the Go generated from them, `assets.go` | none | markup | their links, rows and graph in `Listing`, `Timeline` |

How they interact. Every request runs Middleware on its own goroutine; jobs run
StartTrace and Finish, or Observe. `begin` and `Finish` change the tracer under
the write lock, `Finish` then saves a clone into the storage, and both notify
the broker after they let the lock go. Dashboard goroutines call Snapshot and
Trace, which clone active traces under the read lock and ask the storage outside
it. A live stream is woken by the broker and renders a Snapshot. The traced code
writes into its trace under the trace's own lock, from any goroutine, while
readers clone it. A trace, its lock and its first spans lie in a box that goes
back to a pool when the unit of work is over.

What is hard. A trace is in three places in turn, the active map, nowhere, and
the storage, and readers look at these at different moments. Two locks guard a
trace and its spans, and calls take them in both orders. The memory of a
finished request's trace is reused. IDs may be chosen by clients. Reset runs in
two halves next to everything else. Notifications coalesce. The disk storage
coordinates nothing between concurrent writes, prunes and resets, and outlives
the process. On the request side the difficulty is in sequences and boundaries:
which of code, variable and default wins; tokens that outlive a process; filters
that only the URL carries; spans that overlap and tie; integers at the end of
their width. `PROJECT.json` lists each hazard with its line and its properties.

What makes each component correct:

- the registry leads only to traces in flight, a unit is counted once under each
  counter, a reader never touches released memory, a snapshot counts nothing
  twice;
- a trace orders its spans by recorded readings, counts what it drops, keeps a
  failure it was told of, and stands still when it is finished; a clone is
  consistent in itself;
- a box has one owner and keeps nothing of the last one; what is retained is the
  answer the client was sent;
- a storage lists the newest traces, newest first, once each; on disk it keeps
  them over a restart;
- every change reaches every subscriber, no call hangs on one, and no page that
  waits is stale;
- a setting made in code wins; nothing recorded is shown without credentials; a
  page shows what its reader asked for, and all of it.

## Modules

### Retention and storage

`Retention` says what a save does to a list with a limit, what a loop keeps of a
list, and where a stable sort puts its elements: each at the number of those
that belong before it. `BoundedLog` is the
abstract storage built on it: a log, a limit, Save and Clear, which is what the
comments of `model.Storage` promise.

`Ring` is the ring buffer with its real index arithmetic: `slots`, `next` and
`full` are `items`, `next` and `full`; `Advance`, `Index` and `Evicts` are the
expressions of Push and List. `evicted` is what the last Push returned.
`ImplementsBoundedLog` is `BoundedLog` under the mapping that reads the log out
of the ring as List does.

`DiskStorage` has one step per operation on the folder: the rename, the listing,
each removal, each look of Prune. The ring is `Retention`'s list. Crash ends the
process at any moment and Restart opens the folder again.

### The tracer

`Tracer` has one step per locked section and one per unlocked step between them.
A unit of work `w` walks through `pc[w]`:

    idle, admitted, begun, running, ended, judged, settled, saved, closed, released

by Admit (Enabled and the sampler), Begin (the write lock in `begin`),
NotifyBegun, EndWork (the handler returns, fails or panics, and `finalize` or
Observe records it), Judge (`trace.Finish` and `trace.Failed`), Settle (the
write lock in `Finish`), Save, NotifyFinished, and Release or Collect.
CountUnsampled and PassThrough leave at the admission. A reader `r` walks
through `rpc[r]`: it holds the read lock while it is `cloning`, one trace at a
time, so `Unlocked` guards every write-locked step. Snapshot then lists the
storage in a step of its own; Trace asks the storage first and takes the lock
after a miss. Reset is ResetStorage, then ResetCounters.
`Recording` is what all this is for, without locks, IDs, readers and
notifications: a sampled unit is counted when it starts, finishes, is offered to
the storage, each once, and Reset drops the log and the counters at two moments.
`ImplementsRecording` reads the unit's stage off `pc`.
The storage is the bounded log that `Ring` implements; with `StorageMayFail`
each of its calls may fail, as a driver's may. `timed[w]` stands for the state
times, samples and allocated bytes a trace adds, which are added together.

`Broker` breaks a Notify into its sends, with the lock held from the first to the
last, while subscribers receive and other goroutines run release functions
through their `sync.Once`.

`LiveStream` EXTENDS `Tracer`: each stream owns the reader and the channel of
the same name, and its steps drive that reader. A notification is one step here;
`Broker` shows why a subscriber cannot tell.

### One trace

`TraceRecording` opens up what is one step in `Tracer`: the trace itself, with
any goroutines recording on it and any cloning it. `owner` is the trace's lock
where a call holds it over several steps, `held` are the spans' locks. `pc[g]`
says where a goroutine is between two sections of its call: `filter` (a debug
span ended too short and must leave the list), `blame` (a span is marked as
failed, its trace not yet), `append` (the innermost open span is found, the log
line not yet written), `current` (the same for an error without a log),
`finishing` (Finish walks the spans it found), `copying` and `copied` (CloneInto
goes over the spans). `Readings` is what `time()` may record, one more than the
last reading or later; `Peeks` what `peek()` may return. `asked`, `written` and
`cause` observe the calls and change nothing.

`Serving` is one unit from the box it draws to the box it gives back:
`where`, `owner`, `slots`, `used`, `heap`, `armed`, `finished` and `failed` are
the box, with a slot holding the unit that started the span in it; `finalizer`
is what the runtime has registered. `writer`, `sent` and `wanted` are the
response writer, what net/http sent, and what the handler first wrote. A
handler writes statuses and bodies, flushes, hijacks, records errors, panics or
returns in any order, and a goroutine that a job left behind records errors too,
before or after the storage takes its copy (`reported` observes the first
kind); finalize records, Finish saves, serve releases. `pc[w] = "stuck"` is a
unit whose RouteFunc panicked in finalize. The pool and the collector are
external: the pool may forget a box, the collector takes one nobody holds.

### The request side and the pages

These keep no state of the tracer's; each is a function of its input, or a small
machine of its own.

`Settings` builds the options as New does: code, variables by kind and by the
way they fail to parse, defaults, the driver the variables name, validation, and
the copy the front end defaults once more. `UsersFrom` is the user of
`OIDA_AUTH`, with each of its guards, after `TextsFrom` has read the users
file's name.

`Access` has a clock, a process number, and tokens that are their claims and
their key. Login, Mint (a deployment signs a token), Restart, and
requests from any peer with any known token. `streams` are the event streams
that are open, as the requests that opened them: Push writes to one whatever
has become of its token, HangUp and Restart end it.

`Requests` passes a request through proxies that each append to its forwarding
header, then reads client, path and identifier off it as the middleware does.

`Listing` lets a reader follow the links and forms of each view, while a load of
traces begins, finishes (Unregister), is saved or not (Store), is displaced, and
is dropped by a Reset in its two halves. `page` is what the handler makes of the
URL, `wanted` what the reader asked for. `early` is the first half of the page's
Snapshot, read under the tracer's lock; the log is read later, so every property
of a page is stated with `early` of one moment and the log of any later one.
Stream is an event of a live page: it draws the section anew, at an address that
has no host. SubmitUnscripted is the filter form without scripting, whose
dropdowns send their old values first.

`Timeline` builds traces span by span and then draws the segments, rows, waves
and the memory graph. `Numbers` has two's complement words of `Width` bits, and
the sampler's counter with its wrap.

### Checking and proving

`MCTracer`, `MCLiveStream`, `MCDiskStorage`, `MCTraceRecording` and `MCServing`
add model values, and symmetry where a run uses it. `MCInternal` puts `Ring` and
`Broker` next to each other, which do not call each other, and `MCFrontEnd` the
six modules of the request side: the variable `part` chooses at the start which
of them moves. Definitions commented as mutants are plausible bugs; no
specification uses them.

## What the runs check

| Run | Instance | Properties |
| --- | --- | --- |
| `internal` | rings of sizes -1 to 3, two IDs, two tags; a broker with 2 channels, 2 Notify goroutines, 2 releasing goroutines | RingTypeOK, ImplementsBoundedLog, EvictionReported, NoPanic, NotifyReaches, CallsReturn |
| `tracer_registry` | 2 requests that may share an ID, 1 reader, one host, limit 1, 1 Reset | CloneSafe, RegisteredIsOpen, RetainedOnce, CountersAgree, ImplementsRecording |
| `tracer_snapshot` | 1 request, 1 job that leaves a goroutine behind, 1 reader, failing storage, 1 Reset | SnapshotBalances, LookupFindsInFlight |
| `live_stream` | 1 request, 1 job, 1 stream, limit 1 | WaitingIsCurrent |
| `live_stream_liveness` | 1 request, 1 stream, 1 Reset | FinishedIsShown, BegunIsRetained |
| `disk_storage` | 3 saves, limit 2, 1 Reset, 1 Prune, 1 crash, failing disk | FolderBounded, ResetDropsSaved, PruneDropsOld, ServedIsPersistedOrOld, RestoredInOrder |
| `trace_recording` | 2 recording goroutines, 1 cloner, 3 spans asked, limit 2, 3 log lines, clock to 3 | SpansOrdered, SpansAccounted, StateTimesAddUp, FinishEndsSpans, FailureReachesTrace, CloneExplainsError, CloneFits, NoDeadlock, FinishedStands |
| `serving` | 1 request, 2 jobs of which one leaves a goroutine behind, 2 boxes of 1 slot, 2 spans a unit | BoxHeldOnce, ArmedMirrors, AnswerRecorded, FailureRecorded |
| `front_end` | the six parts, see below | SettingsHold, AccessNeedsCredentials, ClientFound, ListHolds, TimelineHolds, NumbersHold |

Three more runs, `tracer_negative_sla`, `disk_restored` and `live_host`, end in a
violation, see below. Each property is stated in words at its definition.

The bounds. A ring wraps several times within its size of at most three, and
size one makes the newest slot the oldest. Two requests are enough to share an ID
and for one to displace and unregister the other; a second reader adds no step a
first one does not take, because readers change nothing, and the proofs cover
any number. A retention limit of one evicts at the second save. One Reset lets
each of its halves meet each step of a unit. In `internal` two of each kind meet
in every pair, and Notify is called again and again. Three saves with a limit of
two make prunes overlap, and tell the oldest document from the newest.

In `trace_recording` two goroutines meet in every pair of sections, with each
other and with a clone. Three spans are one more than the limit, so one is
refused, and enough for the filter to take one out from between two others; a
reading advances by one or two, so a debug span may run shorter than the minimum
of three or not. No call begins after the clock passes three, calls under way go
on. In `serving` three units and two boxes make every box change hands, two
spans overflow one slot to the heap, and one job may leave a goroutine behind,
so its box meets the collector while the other units release theirs.

In `front_end` the inputs are: one variable at a time and every combination of
the storage's, over four kinds of options; two users, two networks, four
configurations, two processes and a lifetime of one tick of two, so a token
expires within a process and over a restart, and one open stream
(`MaxStreams`), which outlives either; two proxies and five headers; traces of up to
three spans out of six shapes that overlap, tie, start early and end late; words
of five bits, every value on both sides of each operator.

For the pages there is a load of three traces in three groups, which is one more
than `TopLimit` shows, with ties in every column, and a load of a job and a
request without a host, which make one group. A log may hold the first trace of
a load from an earlier process (`Restored`). Three traces fit the storage, so
nothing is displaced in this run: `ListsAgree` covers that. The sampler rejects
one request of a host (`MaxSkipped`); a page has up to two filters at a time
(`MaxFilters`), any pair of them and in any order of clicks, and `FiltersFollow`
covers any number. A Reset may come at any moment and as often as it likes.

Runs that end when everything happened once do not check for deadlock:
`disk_storage`, `trace_recording`, `serving`, `front_end` and `live_host`. In
`trace_recording` NoDeadlock takes its place: while a call is under way some
call can go on, so what stops is only the bounded clock.

Fairness. Units, in `live_stream_liveness`: one that was admitted goes on
whenever it can, strongly fair because Begin and Settle wait for readers: a
`sync.RWMutex` admits no new reader while a writer waits. Starting a request or
a Reset is never assumed to happen, and neither is RecordError. It is assumed
that the traced code ends. A stream goes on by itself, weakly fair: readers that
wait are let in after each writer. No connection is assumed to open or close.
`internal`: a Notify or release that can go on does, strongly for the mutex,
which is fair to a waiter; nothing is assumed of subscribers. The other runs
check safety and assume no fairness.

### Where the code and its documentation part

Three runs state a sentence of a comment as a property and show a behaviour in
which the code does not do it; the finding in `PROJECT.json` quotes the sentence.

| Run | Sentence | What happens |
| --- | --- | --- |
| `tracer_negative_sla` | `model/model.go:247` | failures of traces in flight across a Reset outnumber the sampled ones |
| `disk_restored` | `model/trace.go:28` | a restored trace is listed as in flight |
| `live_host` | `frontend/view/page.go:171` | the first event of the stream widens a live page of one host to all hosts, because `EventsURL` (`page.go:371`) has no query |

CountersAgree, RestoredInOrder and ListHolds say what does hold there: the
address of a live page keeps its host, and a reload is of that host again.

The models also show where a property had to be stated with a condition:

- Trace asks the storage, then the active map, and misses a trace that finishes
  in between (`tracer.go:443-466`): LookupFindsInFlight is about traces that are
  still in flight when the lookup ends;
- an error recorded between Judge and Save is retained and not counted
  (`tracer.go:255`): CountersAgree compares what is retained as failed with the
  counter for work that leaves no goroutine behind (`Outliving` empty) and until
  the first Reset;
- a trace that finishes during a Snapshot may be both live and retained in it
  (`tracer.go:350`), and the feed then has two rows of it, where
  `frontend/events_test.go:128` has it that the feed "does not list a trace
  twice"; one that has finished and is not saved is in neither. ListHolds
  allows just these;
- of the two fields a dropdown renders both are sent without scripting, the old
  value first (`frontend/view/select.templ:23`), where the comment above it has
  it that "only one submits": what is picked there is not counted as asked for;
- an event stream is asked for once and served until the connection ends
  (`frontend/handler.go:296-322`), past the expiry of the session it was
  asked for with: AccessNeedsCredentials is about the moment of the request;
- `OIDA_AUTH` makes a user only where the options have no users, users file or
  callback (`internal/options_from_env.go:204`): SettingsHold claims the variable
  for those alone;
- documents are ordered by when traces began, so a save may prune the document it
  has just written (`disk_storage.go:286`): ServedIsPersistedOrOld;
- Prune gives up with an error at a document that a Save removed meanwhile
  (`disk_storage.go:246`): PruneDropsOld is about calls that returned without one;
- an unbounded disk storage has a ring of no slots and lists nothing
  (`disk_storage.go:73`);
- RecordError on a finished trace still sets its error and its state
  (`trace.go`): FinishedStands claims the lists and the duration only, and after
  Finish the state times may exceed the duration;
- an informational status written first is recorded as the answer
  (`response_writer.go:81`): AnswerRecorded excludes it;
- an Options literal takes its defaults only after the environment was read, so
  nothing is claimed of variables there, and a nil list of ignored paths stands
  for the default, which no variable replaces; with ReadEnv and the disk driver its
  limit is zero. A second trailing slash of the path survives the first
  defaulting and not the second. A New that fails may have opened and pruned the
  folder already. The sample rate is rounded to a whole period: 67 traces
  everything, 40 one in three, where `options.go:47` calls it the percentage
  traced. Entries of the allow list are validated by New, while NewAuth alone
  leaves invalid ones out;
- the client is claimed to be found when it is outside the local network or sent
  no addresses of its own, in one kind of header;
- a memory reading from before the trace starts widens its neighbour's hover
  target: the tiling is claimed without one;
- the dot of an HTTP trace with a status shows that status alone
  (`frontend/view/funcs.go:386`), where the comment above it speaks of a recorded
  failure as well.

## What is proved

The proofs hold for every value of the constants, under the assumptions the
modules name (`RingAssumption`, `TracerAssumption`, `BrokerAssumption`,
`AccessAssumption`, `ServingAssumption`, `RecordingAssumption`,
`DiskAssumption`, `StreamAssumption`, `SettingsAssumption`,
`RequestsAssumption`, `ListingAssumption`, `TimelineAssumption`,
`NumbersAssumption`), which say what the constants are: sets, limits that are
natural numbers, identifiers that differ, options, variables, traces and spans
of their types. `PowersAssumption` states facts of arithmetic that follow from
`NumbersAssumption`, about the powers of the widths and the units of a size,
none of which the provers compute. `Work` and `Hosts` are
finite of any size, as what a process starts and the keys of a Go map are. TLC
evaluates the assumptions in each run.

Four theorems have a hypothesis of their own, each one of the conditions above
without which the property does not hold of the code: `ClientIds = {}`
(TracerLookup, TracerSnapshots; a client that repeats an ID takes another
trace's entry), `Outliving = {}` (TracerCounters; a goroutine left behind records
an error after Judge) and `~StorageMayFail` (LiveWaiting; a page rendered from a
storage that fails lacks what is retained).

`DataProofs` is about the data the modules share:

- what a save returns, entry by entry;
- what a loop keeps of a list: the places it keeps, in their order (`KeptOrder`);
- orders of finite sets, and that the place of an element, the number of those
  before it, runs through each number once (`Ranks`, `PlacedInOrder`): from this
  follows what a stable sort returns;
- the sum of a function over a finite set: that it exists, changes by what one
  argument changes by, and is the number of all elements when it adds up the
  sizes of classes (`SumOfClasses`);
- that a function defined by recursion along a loop exists (`LoopExists`), which
  each definition of that form needs before anything can be said of its values.

The library's induction theorems take an operator, so these go by the least
number, or the smallest part of a set, for which the claim fails.

`RingProofs`: `RingType`, `RingUnwritten`, `RingImplementsBoundedLog` and
`RingEvictions`. The
inductive invariant adds to the types that unwritten slots are zero and written
ones are not, since List and the result of Push tell them apart by the ID. The
refinement step needs that Index moves by one when the cursor advances, which is
the arithmetic of the wrap; it is proved as lemmas about `%` once. For
EvictionReported, a Push saves into that log, which then has the oldest entry no
more when it was full (`KeptSaved` counts those with an ID).

`TracerProofs`: `TracerType`; `TracerRegistered`, `TracerCloneSafe`,
`TracerRetainedOnce` and `TracerLookup`. RegisteredIsOpen is inductive given the
types: Begin adds a unit that was not registered, and Settle, which removes by
ID, removes the unit's entry if it has one. CloneSafe is not: ReadersHold adds
that a reader with traces left to clone holds the lock and that these are
registered, so no writer runs, and a registered trace is not released.
RetainedOnce needs LogIsSettled: a retained trace's goroutine is past Save, so
it does not save again and is not registered. TracerLookup assumes `ClientIds =
{}`, without which one ID may replace another's entry. Its invariant needs two
more parts: a unit in flight is registered under its own ID, and what Trace
looks for, while it is in flight, is still to be cloned, is cloned, or was found
stored.

`TracerTotals` and `TracerCounters` are CountersAgree: the first holds
whatever happens, the second adds the failures retained. FailuresCounted
says what `failed` counts, the units past Settle whose error is set; the retained
failures map into these one to one, by RetainedOnce. `TracerSnapshots`:
TimedOnce and Balanced relate `sampled`, the state times settled and the traces
registered in every state; Balances says the same of what a reader has copied
and still has to clone, which only the read lock keeps from changing between. A unit
that settles afterwards is in the reader's clones and not in its times.

`LiveWaiting` is about `LiveStream`. Shows follows a stream through its
rendering: unless it is behind, which means a notification is in its channel or
about to be sent, the clones are the registered traces, the log it listed is the
log, and what a waiting stream has shown is current. Every step that changes
what a page shows leaves all streams behind.

Two refinements need no more than the types. `TracerImplementsRecording`: Begin,
Settle, Save and the halves of Reset are the five actions of `Recording`, and
every other step leaves each unit's stage alone; it holds for client-chosen IDs
too, since a unit's course does not depend on what is registered.
`TracerRetains`: the log is a behaviour of `BoundedLog`, which joins the tracer to
`RingImplementsBoundedLog`; no run checks this one.
`LiveImplementsRecording` says the first of the tracer with streams attached.

`DiskStorageProofs`: `DiskType`, `ResetDrops`, `PruneDrops`, `RestoredOrder`,
`ServedPersisted`, `FolderFits`, all invariants of the run. `Base` says which
documents and entries there can be while each call is where it is. `Resetting`
and `Pruning`: what was there at the call is in the listing still to be removed
or is gone, since a document is written once. `Serving`: each document a prune
is going to remove, and each one removed, has a limit of newer ones in the
folder, and still has after the next removal: what that one takes from them has
as many newer ones itself. `Counting` is the bound on the folder, stated for every
set of prunes whose removals are taken as done: a prune's listing may be old,
and what it removes may be what another has removed.

`BrokerProofs`: `BrokerNoPanic` and `BrokerReaches`. A channel is in
`subscribers` only before it is closed, and a Notify has only such channels
before it, because the deletion waits for its lock. What a Notify owes is
before it while it sends, and pending afterwards.

`FrontEndProofs` has seven theorems, each of one of the modules of the
`front_end` run under a specification of its own; between them they state all
its properties:

- `NeedsCredentials` (`Access`): every token there is was minted with the shared
  secret, or its subject signed in a lifetime before it expires, to the process
  whose key signed it; and every open stream was asked for by someone entitled
  (`StreamsEntitled`), which stays true because nobody is signed out.
- `SettingsFollow` (`Settings`) is a case analysis on `Source`, what code and
  variables come to before the defaults, field by field. TLC tries the variables
  one at a time; the theorem is about all of them together. It needed the
  exception for a nil list of ignored paths, which no caller of the model had
  before.
- `ClientsFound` (`Requests`): `Travelled`, the header is what the client sent
  followed by one entry per proxy, its own address first.
- `FiltersFollow` (`Listing`): `IsPage`, what a page filters by is on offer, so
  that its link, which leaves out the defaults, leads to the same filters. It is
  about the address of the page: the section a stream redraws is another matter,
  and so are dropdowns without scripting.
- `ListsAgree` (`Listing`) is the whole of ListHolds. `LogInv` is all the pages
  need of the past. `RecordInv`: what has begun is in flight, on its way to the
  storage or in the log, in one of them and once. `EarlyInv`: what a page has
  read in its first half was begun, once each, and has all that was in flight
  then and still is. A trace is thus at most once in each half, and one that is
  in neither is not in flight or retained now (`AllTwice`). The rest is about
  any such log. The places of a stable sort are ranks of an order, so the rows
  of a column tie as the log has them; the table of hosts is sorted by an order
  in which no two hosts tie, so it does not depend on how the map of hosts was
  walked; the groups and the hosts are classes of the log, so their counts add
  up.
- `PagesRight` (`Timeline`) is the whole of TimelineHolds. The loop over the
  boundaries keeps `Draws`: up to its boundary, each moment something ran is in
  one segment of an innermost span, since what runs changes nowhere between two
  boundaries, and neighbours of one kind have been joined. The moments of a
  segment are its duration, and the segments of a kind are classes of the
  moments, so the totals add up. The walk is found from the last span back to
  the first; `Under` and `InWalk` say which spans it has below one of them and
  in what order. `Plots` is the order of the readings. The invariant
  `TimelineInv` keeps these for what is shown.
- `NumbersRead` (`Numbers`): arithmetic on words for what is asked, and a size
  is divided by its unit until it is below one, with a letter left
  (`ClimbExists`); for the sampler `Period`, the gap since the last sample is
  the remainder of the counter until the counter starts over, and below the
  period afterwards too.

`ServingProofs`: `BoxesHeldOnce`, `FlagMirrorsRuntime`, `AnswersRecorded`,
`FailuresRecorded`. What a unit holds depends on its position; the invariant adds
who can still reach a box, what reset leaves in the slots beyond `used`, and
where status and failure are between the writer, the trace and the storage, of
which the failure may come from the unit's own code at any time before it is saved.

`TraceRecordingProofs`: `RecordingType`, and all properties of the run but one.
`Base` (types, pointers name spans that were started, nothing is ahead of the
clock) is preserved by each action, one lemma each. `Grows` says what no step
takes back: the clock, the numbers given out, the start of a span, its end, its
failure. On these stand

- `FinishedTraceStands`: `Locking`, a line on its way belongs to the holder of
  the lock of an unfinished trace;
- `FailuresReachTrace`: `Failing`, a failed span's error is with its trace or
  with a goroutine between its two locks, and the error state is not left;
- `ClonesExplainErrors`: `Explaining`, the error a clone begins with names a span
  that had failed by then, so a later copy shows it as failed;
- `FinishEndsAll`: `Ending`, what a finished trace lists has ended or is in the
  walk of the goroutine that finished it; only walks hold spans;
- `OrderedByTheClock`: `Started`, `ListAscends` and `Lined`; the filter keeps
  the order of those it leaves;
- `ClonesFit`: `Extents` and `Fitting`, what a clone shows of a span is what the
  span keeps, and the span keeps within the clock and within a finished trace;
- `NothingUncounted`: `ListKept` and `LogsKept`; at most one line is on its way;
- `StateTimesSum`: `Timed`, the states together have been given the time of the
  last change of state, and a finished trace's duration is not past it;
- `NobodyWaitsForEver`: `Holding`, the trace lock belongs to a call that is
  writing its line or copying, and no span's lock is kept between two steps.

The operators of sequences they need (removing an element, taking the front, the
maximum of a set of numbers) are lemmas at the top.

Only model-checked: NoDeadlock as it stands, with ENABLED, and all liveness; both
are out of the provers' reach. `NobodyWaitsForEver` is NoDeadlock with the guards
of the steps (`MayGoOn`) in ENABLED's place; that a step with an open guard can be
taken rests on the run. Every other invariant, action property and refinement
of a passing run is a theorem.

## What is not modelled

- Memory samples of a live trace: RecordMemory writes fields without the trace's
  lock while Snapshot may clone it. The code promises nothing of such a copy.
- A caller that calls Finish twice on a trace: it is saved and counted twice, and
  nothing documents what should happen.
- The growth of the counts per host, which only Reset ends (`tracer.go:234`):
  no bound is documented. That Reset and an unsampled request notify nobody
  (`tracer.go:470`): both are in the model, but how long a page may go on showing
  the counters of before is documented nowhere, so no property speaks of it.
- Cancelled contexts; two processes in one folder; a Restore while traces are
  recorded; a second save under one ID on disk.
- Names, attributes and sources of spans, which are written under the locks of
  `TraceRecording` and read by nothing in it.
- HTTP beyond status and body, hashing, cookies, the file of users, addresses as
  text, markup, styles and texts.
- The command line tool, a demonstration whose handlers only ask the tracer.

## Plan

1. A stream that shows some recent state, which `LiveStream` implements.
2. `TraceRecording` inside `Tracer`: the unit's trace as one of many, so that
   SnapshotBalances speaks of real state times.
3. A second Save of one ID, and a Restore beside recording, in `DiskStorage`.
