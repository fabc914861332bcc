# TLA+ verification of USBPcap and its capture service

This directory holds TLA+ models of the USBPcap sources beside it, the TLC
configurations that check them on small instances, and proofs that the TLA+
proof system checks for every instance. `PROJECT.json` is the index: which
definition models which lines, what every run and theorem is about, which
hazards of the code each property is aimed at.

## The system

USB traffic flows upwards through three programs:

    USB stack -> USBPcap.sys --(read, IOCTL)--> USBPcapCMD.exe --(.pcap, JSON)-->
      USBPcapService.exe --(named pipe)--> usbpcap-mcp.exe -> an AI client

| Part | State it keeps | Operations | How it meets the others | What makes it correct |
|---|---|---|---|---|
| Capture buffer (`USBPcapBuffer.c`) | ring, offsets, snaplen, pended reads | set up, resize, remove, set snaplen, read, store a packet | filled by URB analysis at DISPATCH level, drained by reads of the control device; all under `bufferLock` | the reader gets one well-formed pcap stream: nothing lost, repeated or torn, whatever wraps |
| Control device (`USBPcapGenReq.c`, `USBPcapDeviceControl.c`, `USBPcapQueue.c`) | `pCaptureObject`, filter, cancel-safe queue | create, read, IOCTLs, cleanup, close | called by the I/O manager in any thread, with no lock around a request | one capturing client; nothing of a capture outlives it; a closed handle is released |
| URB analysis (`USBPcapURB.c`, `USBPcapTables.c`) | endpoint table, table of URBs on their way | one packet per URB on submission and completion | calls the buffer | each packet says what the URB did; a URB on its way is forgotten once |
| Filter manager and PnP (`USBPcapFilterManager.c`, `USBPcapPnP.c`, `USBPcapPower.c`, `USBPcapRootHubControl.c`) | reference counts, remove locks, list of children | attach, detach, remove | every dispatch path takes a remove lock | removal neither hangs nor frees what is in use |
| Helpers, entry (`USBPcapHelperFunctions.c`, `USBPcapMain.c`) | none | descriptor queries, the address filter test | called by the above | a device is filtered exactly when it was asked for |
| Capture thread (`USBPcapCMD/thread.c`) | one outstanding read, pending bytes of a partial record | event loop, record parser, application filter | reads the control device, writes the file | what is written is a pcap of the records that match |
| Command line (`cmd.c`, `iocontrol.c`) | options, exit events, elevated worker | interface choice, start and stop of a capture | child process of the service | the JSON answer tells what happened |
| Enumeration (`enum.c`, `roothubs.c`, `descriptors.c`, `filters.c`), `getopt.c` | none of their own | walks of the device tree and the registry | called by the command line | - |
| Capture service (`internal/service/server.go`) | task map, the active capture, the history, one done channel and context per task | start, stop, monitor, finalize, list, wait, clean up, shut down | a goroutine per connection, two per capture; runs the command line as a child | one capture at a time; every task ends, and says truly how |
| Runner (`internal/usbpcapcmd`) | the child process and its job object | build arguments, run, parse the answer | called by the service | a stop is told from a failure |
| pcap reader (`internal/pcap`) | none | read, summarize, analyze | called by the service | agrees with the file format |
| IPC client, launcher, MCP adapter, service program | a connection | start the service on demand, translate requests | named pipe | a call is answered once |

The hard behaviours are: the ring at its boundaries (exactly full, exactly at
the end, resized while wrapped); requests of several threads to a driver whose
tests and acts are not under one lock; cleanup racing requests; handlers,
capture goroutines, monitors and shutdown of the service interleaving at every
release of `s.mu`; a monitor that outlives its task; a stop that races the
natural end of the child; URBs whose IRPs, pipe handles and device objects are
used again while tables still name the old ones; the removal of a device with
URBs below its filter; files removed by one task while the next one writes. `PROJECT.json` lists each at its line.

## Modules

| Module | Models | Uses |
|---|---|---|
| `CaptureStream` | what the buffer promises a reader: a FIFO of bytes that grows by whole records (abstract) | |
| `USBPcapBuffer` | `USBPcapBuffer.c` | `CaptureStream` (refinement) |
| `USBPcapBuffer_proofs` | theorems about it | `USBPcapBuffer` |
| `USBPcapControl` | the control device and its queue | |
| `USBPcapControl_proofs` | theorems about it | `USBPcapControl` |
| `USBPcapPackets` | the packets that `USBPcapURB.c` writes for each URB function, as operators | |
| `USBPcapURB` | URBs of a device on their way down and up, `USBPcapTables.c`, the address filter | `USBPcapPackets` |
| `USBPcapURB_proofs` | theorems about it and about the packets | `USBPcapURB`, `RecursionTheorems` |
| `FilterManager` | filters, control device, remove locks: `USBPcapFilterManager.c`, `USBPcapPnP.c`, `USBPcapPower.c`, `USBPcapRootHubControl.c` | |
| `FilterManager_proofs` | theorems about it | `FilterManager` |
| `CaptureService` | tasks and capture files of `server.go` and when the runner's child returns | |
| `CaptureService_proofs` | theorems about it | `CaptureService` |
| `PcapReader` | the reader of `internal/pcap`, as operators | |
| `CaptureThread` | `read_thread` of `thread.c` and `start_capture` of `cmd.c` | `CaptureStream` (its other end), `PcapReader` (who reads its file) |
| `CaptureThread_proofs` | theorems about its parser and its counts | `CaptureThread` |
| `CaptureOutput_proofs` | theorems about what it writes and what is read back | `CaptureThread_proofs`, `RecursionTheorems` |
| `RecursionTheorems` | lemmas: induction, and functions defined by recursion on natural numbers | |
| `MCBuffer`, `MCControl`, `MCURB`, `MCFilters`, `MCService`, `MCThread` | small instances for TLC | the above |

Definitions named `Faulty...` stand directly before the definition they vary.
Each is a plausible mistake in the code it stands for (a missing wrap, a dropped
guard, a missing `endCapture`), and for every property there is one that breaks
it; `PROJECT.json`, "mutants", pairs them.

### USBPcapBuffer

`pData` holds the fields of `USBPCAP_ROOTHUB_DATA` that the buffer code uses,
`pended` the lengths of the reads in the queue. `last` (last byte delivered) and
`declared` (snaplen in the global header) are history variables. The ring is
modelled byte for byte with the code's own arithmetic; what a byte *is* is
abstracted to `[id, at, of]`: byte `at` of a chunk (global header or record)
that announces `of` bytes. That is exactly what a parser needs to know in order
to stay in step, and nothing else. A packet is its header length, its data
length, and how many bytes its payload entries really hold.

Every action is one critical section under `bufferLock`. `SetUpFirstBuffer` and
`ReplaceBuffer` are the two halves of `USBPcapSetUpBuffer`;
`USBPcapBufferWriteTimestampedPayload` includes completing the oldest pended
read, whose MDL may fail to map. `Cleanup` is the part of `IRP_MJ_CLEANUP` that
concerns the buffer, in one step; its parts are separate steps in
`USBPcapControl`. Lengths are natural numbers: the code's are 32 bit, and a
buffer has at most 2^27 bytes.

### USBPcapControl

Here the ring is just a number of unread chunks with an owner, and the steps are
finer: the test of `pCaptureObject` (`AllowCapture`), the act it allows, the
unlocked test for a buffer in a read (`ReadCheckBuffer`) and the locked part
(`ReadLocked`), each round of `DkCsqCleanUpQueue`, `ClearFilter`, and
`USBPcapBufferRemoveBuffer` interleave freely with other requests and with URBs,
which pass the filter in one step and are stored in another. `filter` is the set
of captures that have bits in it. Besides the requests it has a second writer, the
start of a device: `TestNewDevice`, `LoadWord` and `USBPcapSetDeviceFiltered` are
the test of the new-device bit and the read and the write of the plain `|=`, and
another writer's step may fall between any two; `late` remembers the bits that are
back for that reason. The I/O manager is
external: `IRP_MJ_CLEANUP` comes when the last handle is closed, `IRP_MJ_CLOSE`
when no request of the file object is left. `MultiThreaded` says whether a
client uses or closes a handle while one of its requests is inside the driver (a
pended read is not). The root hub stays present.

### USBPcapPackets and USBPcapURB

`USBPcapPackets` says which packet a URB gets. A packet is its direction
(`post` on the way up), length of data, endpoint, transfer type, the first byte
of the setup packet (-1 if there is none) and, for isochronous transfers, the
offsets and the bytes themselves. `StandardType` and `VendorClassType` are the
two tables of `bmRequestType` in `USBPcapAnalyzeURB`; `ParsedPipes` is the walk
over the interface information with its two bounds, `Compacted` and `Gathered`
the compaction of isochronous data. Left out: status, bus, timestamps, and the
contents of the setup packet beyond its first byte.

`USBPcapURB` runs them. The state is that of one device (`deviceAddress`,
`endpointTable`, `URBIrpTable`, the stored configuration descriptor as the set of
its interface settings), the root hub's filter, whether there is a buffer, and
every IRP with its place. Neither a dispatch nor a completion routine holds a
lock between the test of the filter and the write of a packet, so an IRP goes
through `Submit` (test), `AnalyzeSubmit` (packet or note), `BusCompletes`,
`AnalyzeComplete` (note taken, selection analyzed, test), `LogUnknownSubmit`,
`LogComplete` and `Return`, and anything may happen in between: the other IRP's
steps, `StartFiltering`, the two parts of cleanup, a device start whose
`addresses[range] |= bit` keeps the bits of a filter that is gone.
`IRP_MN_START_DEVICE` is completed before the address is asked for (`StartDevice`,
then `GetDeviceUSBInfo`, which may fail), so URBs and selections pass while the
address is still 255 or that of an earlier start. Allocations fail, and any packet
may find the ring full. `asked`, `late`, `lost` and `early` are history: what the
client asked for, whose test a new filter or address overtook, which handles found
no memory, which entries were made before the address was known; `whole` and
`dropped` say of an IRP whether one filter and address covered its whole way and
whether a packet of it was lost.

External are the function driver (it uses a pipe only while it is open, has one
selection on its way at a time, stops the device when nothing is left on its way)
and the USB stack (it opens the pipes of a well-formed selection with any free
handles, fails other selections, fills isochronous packets to lengths of `IsoLengths` with
any total up to the buffer's, and may
turn an unknown function into a control transfer). IRPs and handles are used
again and again.

### FilterManager

The hub filter (`Root`), the control device, a target filter on every device
below, and hubs below the root hub, which get their own list of children once
`USBPcapGetDeviceUSBInfo` told them that they are hubs. `lock` is each device's
remove lock, `refCount` that of the root hub's data, `req` the requests inside
the driver with what they hold. `Dispatch`, `DkPower` and `DkInDevCtl` enter;
a URB takes the lock a second time (`DkTgtInDevCtl`), which a removal may have
closed since; `Pended` and `DkTgtInDevCtlCompletion` come in either order.
`QueryForward` and `QueryDone` are the two halves of
`DkHubFltPnpHandleQryDevRels` around the hub driver's answer: attaching may fail
for any of the new children, and the allocation of the list for any of the
filters. Removal is as many steps as it has waits. A device may have several
filters, because a list that is lost makes its devices new ones in the next pass
(the comment at `USBPcapPnP.c:314` expects no check for new devices then); the
model keeps such stacks, and all filters of a stack see an IRP.

External is the PnP manager: one operation at a time on the tree, children
removed before their parent, a device removed when its hub no longer reports it
(`Removable`) or its hub is missing itself (`Vanish`); and the drivers below, which complete every request and send none to a stack whose
`AddDevice` failed. PDOs are used again. `AddDeviceFails` undoes what a failing
`AddDevice` did, but for the attach: a hub filter whose control device could not be
made is deleted while it is `dangling` on the stack, until the stack goes
(`DropStack`). `DkPower` on the control device, which has no device below it, keeps
its lock for good (`kept`); then the removal of the hub really stops, which is why
the run does not count it as a deadlock.

### CaptureService

A step is a critical section under `s.mu` or `taskMu`, or the return of the
child. `at` is the place a task's handler and goroutine have reached; the other
variables are fields of `Server` and `captureTaskState`. `finalizeTask` is
cut where another goroutine can look: setting the status, turning "completed"
into "idle" for an empty capture, `endCapture` (with `recordHistory` and the TTL
clean-up, which it calls under the same lock), the listing of the capture files,
each removal, and the deferred
`close(task.done)`. `StatusOf` folds `failed`, `stopped`, `no_device` and `no_match`
into one status, and the two limits a monitor watches are one stop code: no property
tells them apart. Time is abstracted: a monitor may find its limit exceeded at
any tick, the TTL may have expired for any number of the oldest snapshots. The two
tests of `cleanupHistory` differ for a snapshot exactly as old as the TTL: it leaves
the history (`server.go:388`), its task stays in the map (`server.go:392`) until the
next `recordHistory`. A name in `Tasks` is used again once the task map, the history
and the directory are without it, so behaviours do not end when the names run out.

`files` holds the `.pcap` files in the capture directory, each with the set of
files last written before it: the order by modification time is all that
`cleanupCaptureFiles` looks at. It runs after `endCapture` and before `done` is
closed, without a lock, when the next capture may have begun: the files are listed
in one step, as far as they can be read, and those in excess (`doomed`) are removed
one by one (`removeFile`). `os.Remove` may fail, and does while `USBPcapCMD` has the
file open, which it shares with nobody. A path is used again once its file is gone
(`CREATE_NEW` refuses it before). What is deleted by hand belongs to a capture that
is over.

### CaptureThread

One capture by `USBPcapCMD`, with two threads. The main thread runs
`start_capture`: `RejectCapture` and `RejectWorker` are its early returns, the action
`start_capture` everything up to the wait, then `wait_for_exit_signal`,
`SetExitEvent`, `CloseHandles`, which waits for the thread and terminates a worker
that has no pipe, and `Report`, which waits for the worker process and prints the
answer. `worker` is that process: another `USBPcapCMD`, elevated, that writes to the
pipe of this one (source `pipe`) or to the file itself (source `worker`; then there
is no thread here). `thread` is where
`read_thread` is: `CheckProcess` is the loop's test of `data->process`, which the
other thread writes without a lock; after it the thread waits for an event and
handles it. `ParseRecord` is one round of the loop in `process_data`, so that a
stop can fall between two records; `process_data_raw` is the path without filter
and trigger. `CaptureStream` is the driver at the other end of the read handle,
the specification the ring is proved to implement. Through a worker's pipe
reads return any prefix of what is unread; a direct read has the size of the
driver's buffer and returns all of it. `cfg` enumerates the options and whether
the output path is free, taken or refused; every write may fail with or without
stopping the capture, after which the contents are no longer followed.
Every state in which the file has
contents is also one in which the service may read it, with `PcapReader`: after
the capture for its summary, or at a client's request.
`received` and `broken` are history. A packet is a name
that passes `app_packet_matches` or does not. Left out:
flushing, a write that blocks for ever, and the `exit(-1)` of a process that cannot
query its job or assign itself to one (`cmd.c:1674`, `cmd.c:1728`), which ends
without an answer.

## Runs

| Run | Result | What it shows |
|---|---|---|
| `buffer` | holds, 7 621 states | with up to two pended reads: `TypeOK`, `StreamFramed`, `RecordsComplete`, `SnaplenHonoured`, `SpaceAccounted`, `NoStarvedReader`, and the refinement `ImplementsStream` |
| `buffer_unmapped` | **violated** | `RecordsComplete`, when a transfer buffer cannot be mapped |
| `control` | holds, 26 832 states | for clients that do not use a handle while closing it: `TypeOK` (the queue is exactly the pended reads), `CaptureExclusive`, `CleanSlate` (but for what a device start puts back), `ReadsHaveBuffer`, `CaptureReleased` |
| `control_race` | **violated** | `CleanSlate` for multi-threaded clients |
| `urb` | holds, 2 554 002 states | `TypeOK`, `NotesInFlight`, `EndpointsTrue`, `Paired`, `DataOnce`, `SetupAgrees`, `IsoReadable`, `WantedOnly` |
| `filters` | holds, 162 452 states | `TypeOK`, `LocksOwed`, `NoUseAfterFree`, `RootHoldsLast`, `OneFilterPerDevice`, `ChildrenFiltered`, `RemovalEnds` |
| `service` | holds, 460 364 states | `TypeOK`, `SingleCapture`, `DoneIsFinal`, `HistoryFinal`, `TasksBounded`, `CaptureKeepsFile`, `EveryTaskEnds` |
| `service_shutdown` | **violated** | `ShutdownWaits` |
| `service_monitor` | **violated** | `LimitIsOwn` |
| `service_evict` | **violated** | `StartedIsKnown` |
| `thread` | holds, 636 403 states | `TypeOK`, `OutputIsFilteredStream`, `EndsWithRecord`, `SummaryAgrees`, `DroppedCounted`, `CaptureEnds` |
| `thread_report` | **violated** | `TriggeredMeansWritten` |

### Bounds, and why they are enough

- Buffer: rings of 6 to 8 bytes, with sizes just outside refused; both headers
  2 bytes; packets that fit exactly, miss by one byte, and are cut by the
  snaplen; reads of 0, 1 and 3 bytes. Reads shorter than a chunk put the read
  offset at every place of the ring, so every combination of offsets, wrap and
  fill of such a ring is reached. The proofs lift the sizes.
- Control: two file objects, two requests, one URB, one device start at a time, at
  most two unread chunks.
  A race takes one request that is ahead and one client that closes; a second
  file object is the next capture that would inherit something.
- URB: one device with two IRPs, one pipe handle and one address. The first IRP is
  used for every kind of URB but OUT transfers, the second one for these: two URBs
  meet in the tables only pairwise, and a selection while another URB is on its way
  is one of them. The one handle comes back for an interrupt, a bulk and an
  isochronous endpoint, in both directions; several handles at once are left to the
  proofs. Two IRPs are on their way together only once the device is started and
  while the capture runs (`Bound`): the window of the start and the cleanup are met
  by one IRP at a time. The selections are a complete one, one
  whose header leaves no room for its second interface, and two alternate
  settings. One request has a setup packet of the function driver's own. Two
  isochronous packets with room for 2 and 3 bytes, of which 0 or 2 arrive, so that
  one of them may be partly filled, with any total up to 5. Filters: all, and new
  devices only.
- Filters: two devices, the first of them a hub the second may hang on, two
  target filters and one request. A filter stack of two needs both filters on one
  device; a request and the PnP manager are the two that race for a lock. With a
  second request or a third filter the run does not end in five minutes.
- Service: two tasks at a time, a history of one and one file kept, so that
  ending a task evicts and removes, a monitor outlives its task while another one
  runs, and two handlers compete for `s.active`. Tasks interact pairwise only,
  through `active`, `tasks`, `history` and `files`; the proofs lift the number.
- Thread: a global header of two bytes and up to two records of two or three, one
  kind wanted and one not, cut anywhere, also inside a record header and right
  after one. The parser's state is the bytes of at most one incomplete chunk, so
  two records give every transition between a wanted and an unwanted one, with
  the first cut in any place.

### Fairness

- Control: weak fairness of `Proceed(i)` and `CleanUpAndClose(f)`. A request in
  the driver waits for nothing but spin locks, and the I/O manager sends
  `IRP_MJ_CLOSE` once the last request is completed. Nothing is assumed of
  clients (open, cancel, close) or of USB traffic.
- Filters: weak fairness of `RequestStep(r)` for each request, since the drivers
  below owe a completion and dispatch routines wait for nothing, and of
  `PnpStep`, the steps of a removal that has begun. A power IRP that the control
  device failed is over; the lock it kept is nobody's to return. Nobody has to plug anything
  in or out or send a request.
- Service: weak fairness of `Advance(t)`, what a task's own goroutines do: they
  are scheduled, `s.mu` is held for short sections, and the child ends: every
  request gets a duration (10 s by default, a day at most), which the runner
  passes as `--duration`. Clients, monitors, clean-up and shutdown
  are never obliged to do anything.
- Thread: weak fairness of the thread's steps (it is scheduled, and every wait
  of it has the exit event in its table), of `SetExitEvent`, `CloseHandles` and
  `Report`, of `wait_for_exit_signal` once the exit event is set, `data->process` was
  cleared before the call or the worker has ended, and of the end of a worker whose
  pipe is broken and who reads from it (`WorkerTold`). Not assumed: that anything is
  ever read, that the worker connects or ends by itself, a key, the duration.

### Findings

1. `USBPcapBuffer.c:564`: the sanity check of the payload entries subtracts the
   record header from `incl_len`, which does not include it. A payload entry
   that is missing because its MDL could not be mapped goes unnoticed for up to
   16 bytes, and the record is then shorter than it announces: every parser
   loses step.
2. `USBPcapGenReq.c:83`: a request that passed the test of `pCaptureObject` may
   set up a buffer or start filtering after `IRP_MJ_CLEANUP` has undone both.
   The next client then inherits a foreign stream or filter.
3. `server.go:189`: `shutdown()` says it waits for the child; the `default` case
   of its `select` makes it return at once.
4. `server.go:487`: a capture that ends by itself does not cancel its context, so
   its monitor goes on watching a file that no longer changes, and eventually
   stops whichever capture is active by then, reporting an idle timeout.
5. `server.go:370`: `recordHistory` forgets tasks that are registered but not yet
   running. Such a task is started all the same, cannot be queried by its id,
   and is not told why it was stopped.
6. `cmd.c:1830`: a path that exists at the end counts as created by this capture,
   and in on-match mode `main` concludes that the trigger fired. If the path
   existed before, `CREATE_NEW` refused it, or nothing matched, the answer says
   `triggered` and names the old file. With standard output as the output the same
   answer comes whether or not anything matched, because `cmd.c:1572` sets
   `output_created` at once.

Seen while modelling, not among the runs:

- `reader.go:115`: "truncated record" wraps `io.EOF` when not one byte of the body
  is there, so the callers take a file that ends right after a record header for a
  complete one. The count is right all the same, which `SummaryAgrees` states.
- `USBPcapPnP.c:311`: see FilterManager; `OneFilterPerDevice` excepts exactly
  that case.
- `USBPcapPnP.c:153`: IRP_MN_START_DEVICE is completed before the address is asked
  for, so URBs can pass with address 255, which every filter lets through, and a
  selection completed then leaves entries with device 255 in the endpoint table that
  nothing corrects. `WantedOnly` and `EndpointsTrue` except exactly that.
- `USBPcapHelperFunctions.c:1024`: a device start that has read a word of the filter
  writes it back after `USBPcapGenReq.c:81` ("Stop filtering", line 78) has cleared
  it, also when the client has a single thread. The bits stay until the filter is
  overwritten as a whole; `CleanSlate` excepts exactly them.
- `USBPcapFilterManager.c:288`: when the control device cannot be made, `AddDevice`
  deletes a hub filter that is attached, without detaching it.
- `USBPcapPower.c:70`: a power IRP on a device without one below it is failed with
  the remove lock kept. Only the control device is such a device; its removal, and
  that of its hub, would wait for ever. `RemovalEnds` excepts exactly that.
- `cmd.c:1823`: the wait for the worker process has no end when the worker captures
  on match into a pipe: it opens the pipe on the first match only, so that
  `thread.c:529` has not started the read that would tell it of a broken pipe.
  `CaptureEnds` excepts exactly that wait (`WorkerUntold`).
- `server.go:519`: a listing of files may be stale. If a file on it is deleted by
  someone else and a new capture makes one of the same name, as `profileDevice` may,
  the new file is removed once `USBPcapCMD` has closed it, before it is summarized.
  `CaptureKeepsFile` excepts exactly that.
- `cleanupCaptureFiles` may take the file of the capture whose `done` is about to
  be closed, if `MaxCaptureFiles` newer ones were written since `endCapture`;
  `CaptureKeepsFile` covers a capture up to `endCapture` only.

## Proofs

All proofs hold for every value of the constants that satisfies the `ASSUME`s of
the component modules: sizes are natural numbers, the smallest buffer holds the
global header, headers are not empty, `MaxHistoryTasks` and `MaxCaptureFiles` are
positive, names are distinct, devices and requests are finitely many, filters name
addresses of the device, and every URB is one a function driver may send (`IsUrb`: its
fields have their types, a transfer names a pipe and a selection none, a selection
describes the interface it selects, and the setup packet of a control transfer has the
direction of its flags; the last is a rule of the USB stack that nothing in this driver
checks, and `SetupAgrees` depends on it). Each invariant below was first checked
by TLC on the component's run.

What a recursive function computes is proved with `RecursionTheorems`. The
library's induction takes a predicate as a parameter, which the provers cannot
instantiate; that a nonempty set of natural numbers has a least element takes a set
(`WFMin`), and from it follow induction upwards and downwards (`UpTo`, `DownTo`),
and that a function given by a recursion exists and satisfies its equation
(`Recursion`, `Descent`).

**The ring** (`USBPcapBuffer_proofs`). The argument goes through `Unread(d)`,
the sequence of bytes between the offsets. `ReadAt`, `WriteRing`, `WriteAppends`
and `ReadTakes` show, case by case of the wrap, that a write that fits appends
to it and a read removes a prefix; `WriteConcatenation` that writing piece by
piece is writing the concatenation; `StoreAppends` that a stored packet is one
run of bytes of its record; `NewBufferRing` that resizing keeps it. From there:

- `TypeCorrect` (`TypeOK`) and `SpaceAlwaysAccounted` (`SpaceAccounted`) without
  further assumption.
- `StreamAlwaysFramed`, `RecordsAlwaysComplete`, `SnaplenAlwaysHonoured` under
  `MappedPayloads`: payload entries hold the data they announce. The run
  `buffer_unmapped` shows that the assumption is needed. None of the three is
  inductive: that a new record may follow needs the last one to be complete,
  and that needs to know where the unread bytes end when nothing is unread. The
  invariant `StreamOK` joins framing, completeness and the snaplen, on top of
  `IInv` (types, and the snaplen in the global header is the one in force).
- `ReadersNeverStarve` (`NoStarvedReader`): a read joins the queue only when
  nothing is unread, and every stored packet shortens the queue. `ReadersOK`
  adds the bound of the queue, and that it is empty while there is no buffer.
- `RingImplementsStream` (`ImplementsStream`), under the same assumption: each
  step of the ring is a step of `CaptureStream`, or none.

**The control device** (`USBPcapControl_proofs`). `CaptureAlwaysExclusive` holds
for all clients, also multi-threaded ones: `IRP_MJ_CLOSE` comes after the last
request, so a request that was let in keeps its file object capturing. `ExclInv`
adds that the capturing file object exists. `ControlTypes` (`TypeOK`) includes
that the queue holds exactly the pended reads, each once; `Dequeued`, what
`DkCsqRemoveIrp` leaves, is the lemma it needs. `SlateAlwaysClean` (`CleanSlate`) and
`ReadsAlwaysHaveBuffer` (`ReadsHaveBuffer`) assume
`~MultiThreaded`; `SlateInv` adds that requests run on open handles only and
that what cleanup has undone stays undone until close, as far as no device start puts
it back. `WaitInv` adds for the reads that the queue is empty of the handle's reads
once cleanup has emptied it, and that a read that found a buffer still has it when it
pends.

**The service** (`CaptureService_proofs`). `ServiceTypes`, `OneCaptureAtATime`,
`DoneAlwaysFinal`, `HistoryAlwaysFinal` and `TasksStayBounded` (`TasksBounded`)
follow from `TaskInv`. For the last one every ending task passes `recordHistory`, after
which the finished tasks in the map are among those the history named before the TTL
took snapshots out of it, so that there are no more than `MaxHistoryTasks` (`TasksFew`).
`SingleCapture` alone is not inductive across `shutdown()`, which lets go of the
active capture while it still runs; `ActiveCaptures` keeps the direction that
survives, and `StatusFollows` carries the final status from `finalizeTask` to the
snapshot. `FilesOfCapturesStay` (`CaptureKeepsFile`) rests on it: `FileInv` says that no
file is newer than that of the task that is capturing, which a write preserves
because `SingleCapture` leaves no other writer, and `NewestStays` that such a file is not
in excess, whatever part of the directory was seen, `MaxCaptureFiles` being positive.
So no clean-up lists it, and what is taken was on an older list.

**Filters and remove locks** (`FilterManager_proofs`). `LocksBalance`
(`LocksOwed`) is the centre: each lock is held exactly `Owed(d)` times, by
requests, by target filters that keep their root hub's, by the control device and
by the PnP operation under way. It is not inductive: whether a path still owes a
lock depends on the tree of devices and on how far a removal has come. `LockInv`
adds `Idle` (what is not in use has no trace), `Tree` (a device hangs on a working
hub), `RootThere`, `PnpSound` (what the operation under way is about), `Closing`
(a lock is closed only by the removal that waits for it) and `RequestsLive`. All
steps of a request are instances of one move that changes request and lock
together (`RequestMovesInv`); the counts are cardinalities of sets that differ in
one element (`Recount`). `RequestsSafe` (`NoUseAfterFree`), `LastReference`
(`RootHoldsLast`) and `FilterTypes` follow from it. `KnownChildrenFiltered`
(`ChildrenFiltered`) and `OneFilter` (`OneFilterPerDevice`) rest on `KidsInv`,
which follows the lists of children: the list of a hub that is not itself missing
names only devices that hang on it, since a device leaves it in the pass in which
the hub no longer reports it, before it can be removed and its object used again
(`KidsThere`); and a device
with a filter is in the list of the filter's parent unless that list was lost
(`Expected`), so no pass attaches twice (`NoTwins`).

**URBs** (`USBPcapURB_proofs`). `NotesStayInFlight` (`NotesInFlight`) needs
`UrbInv`: a note is only of an unknown function, an unknown function never comes
back as a selection, and nothing is on its way while the device is stopped.
`OnlyWantedLogged` (`WantedOnly`) needs `TestedInv`, what an IRP that passed the
test may rely on: the capture asked for the device, or the address was not known or a
filter or an address was replaced since, and then the IRP is excused; `LogInv`
carries that to what is stored. `AlwaysPaired`
(`Paired`) needs `PairInv`, which says for each place of an IRP how far its log
is: nothing, the submission, both (`Halfway`), as long as no packet was lost. The interesting cases are an
unknown function, whose submission is logged on the way up, and a selection
whose analysis writes nothing on both ways (`Mute`).

`EndpointsAlwaysTrue` (`EndpointsTrue`) needs `PipeInv`. That the table is right
about every pipe outside a selection (`KnownInv`) is not inductive: it needs to know
that URBs on their way are what the function driver made them (`FlightInv`), that
while an IRP uses a pipe no selection covers it (`PinnedInv`), that a
selection that came back names exactly the pipes it opened (`FreshInv`),
that nothing is open while the device is off (`OffInv`), and that the table holds
nothing for the handles it had no memory for (`TableInv`). The
step that matters is the analysis of a selection: the walk over the interfaces does
not stop early when the selection is well-formed (`NeverStops`), so `ParsedPipes` finds
every pipe that was opened (`Walks`), and filling the table pipe by pipe, failures
included, leaves the last entry for each handle (`Holds`). `UrbTypes` (`TypeOK`)
adds the bits of the filter (`BitsInv`).

`DataAlwaysOnce` (`DataOnce`), `SetupAlwaysAgrees` (`SetupAgrees`) and
`IsoAlwaysReadable` (`IsoReadable`) need `StoryInv`, which says what the packets
logged so far tell of the URB: `Down` of the submission, `Up` of the completion. Their
common part is which way the data of the pipe goes (`Way`), and the two packets are
written at different times, so the pipe must keep its endpoint and its entry from
one to the other; `WaySteady` draws that from `PipeInv`. Of the packets,
`Direction` shows that the request type which the driver makes up for each function has
the direction of the data, and `Readable` that compacting isochronous data puts
the bytes of each packet where its new offset says, by induction over the sums of
the lengths (`Before`).

**The capture thread** (`CaptureThread_proofs`). `ThreadInv` follows `Unseen`,
the pending bytes of the parser with what was read and what the driver still
holds. As long as the thread may parse, that is the rest of a well-formed stream
(`Rest`: the header unless it was taken, then whole records), and a read that
moves bytes from one part to the next leaves it alone. `Aligned` says of any byte
where its record lies; from it `RecordsStore` and `RecordsTake` show that a record
may be added at the end, and that the first one, by the length it declares, is
exactly what `NextRecord` cuts off. `CountInv` counts first bytes of packets:
those rejected and those unseen are never more than were stored. From it
`FileEndsWithRecord` (`EndsWithRecord`), `DroppedExactly` (`DroppedCounted`) and
`ThreadTypes` (`TypeOK`, with the bound of the header buffer).

`CaptureOutput_proofs` is about what is written. `OutputIsWhatWasWanted`
(`OutputIsFilteredStream`) needs `OutputInv`: the wanted part of what was received is
some sequence, of which the file is the image with descriptors, followed by the
wanted part of what the parser holds, and the file is at a record boundary unless
the stream is copied raw. That keeping the wanted bytes goes through concatenation
(`ChosenConcat`), keeps a record whole or drops it whole (`WantedRecord`) and keeps
everything in a raw copy (`WantedRaw`) are the lemmas. `ReaderCountsRecords`
(`SummaryAgrees`) needs in addition that a raw copy is the beginning of a well-formed
stream (`RawInv`), so that every file is the header, the descriptors, and records
of which only the last may be torn (`Packed`); the walk of `SummarizeReader` is then
right about what lies behind each record boundary (`RightFrom`), by induction
from the end of the file.

Checked by TLC only: liveness, that is `CaptureReleased`, `EveryTaskEnds`,
`CaptureEnds` and `RemovalEnds` (fairness is out of the prover's reach). Every other
property of a run that holds is also proved.

## Not modelled

- Enumeration, descriptors, the registry: walks of data that belong to Windows.
- `getopt.c`: third-party. `DriverEntry`: a dispatch table.
- Driver helpers other than the address filter and `USBPcapGetDeviceUSBInfo`:
  queries of ports, names, the registry and the clock, without state.
- `USBPcapRemoveEndpointInfo`, `DkGetHubDevName`: nothing calls them.
- What the device extension holds between `IoDeleteDevice` and the return of the handler.
- The unchecked allocation of the stored descriptor in `USBPcapURB.c`.
- What a waiting handler answers when its task was evicted meanwhile (`TASK_LOST`),
  statistics of `analyze.go`, the building of the child's arguments.
- `USBPcapBufferInitializeBuffer`: nothing calls it.
- Wording of messages, hints and JSON, logging.
- Data races on `stopCode` and `task.task` in `server.go`: reads without the lock
  are read as atomic.

## Plan

Left to prove: for `USBPcapControl`, what multi-threaded clients can still rely on (the
violation of `control_race` has one cause; everything else of `CleanSlate` should
hold).

Left to model: the rest of `cmd.c` and `iocontrol.c` (the list of addresses,
interface choice, the job object of the elevated worker), the launcher's
start on demand, `smartCapture` and `profileDevice` beyond the capture they begin.
