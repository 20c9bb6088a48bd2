# A formal model of idf-remote

`idf-remote` is a daemon that owns ESP devices on serial ports and lets clients
flash, reset, monitor and talk to them over HTTP. These TLA+ modules model the
part of it where several threads, or two computers, meet: admission of
operations, the thread that owns a device, the stream scheduler it drives, the
application session between the daemon and the firmware on the board, the
registry of devices that come and go, the event log that clients follow, the
command line client that follows it, and the way of an image from the client's
disk through upload, worker and USB lease to the chip. TLC checks them on small
instances; TLAPS proves most of the invariants, and that the worker implements the
abstract service, for every instance.

Source references are to the repository (`src/server.rs` and so on, with line
numbers of the modelled commit); `PROJECT.json` maps every definition to lines.

## 1. Inventory

| component | where | state it keeps | operations |
|---|---|---|---|
| Operation admission, history, idempotency | `server.rs` `Service::submit`, `Store` | retained operations, key records, artifacts and their files, admission flags per device, job channels | submit (two looks at the key around an `await`), retention, failed send, shutdown |
| Device worker | `server.rs` `Service::worker` | reader and baud, reconnect plan, boot handoff deadline, status | stream job, exclusive job, tick, read, reconnect, exit |
| Stream scheduler | `duplex.rs` `Duplex` | session, pending request, transfers with frames and deadlines | start, tick, expire, feed, abort |
| Event log and readers | `server.rs` `Store::emit`, `events_after`; handlers `events`, `wait`, `stream`, `logs` | ring of events, byte count, sequence, epoch; a cursor per request | emit, long poll, wait for a line, server-sent events |
| HTTP API | `server.rs` router and handlers, `wire.rs` | none between requests | authorize, validate, parse uploads, serve artifacts |
| Registry and discovery | `server.rs` discovery thread, `sync_discovered`; `backend/espflash.rs`; `device.rs` | known devices, their identity, address and availability | scan, reconcile, adopt an address, refresh, open |
| Application protocol, host | `application.rs`, `mux.rs` | nonce, next request id, decoder, validity | hello, request, console frames, decode |
| Application protocol, firmware | `firmware/components/idf_remote` | session, transmit and command queues, console buffers | hello, command task, transmit task, console |
| Flashing backend | `backend/flashing.rs`, `backend/mod.rs`, `plan.rs` | the connection to the loader during a job | validate plan, flash, read, erase, probe, hand the port over |
| Android backend and gateway | `backend/android.rs`, `android/` | attached device, port lease, two input buffers, running session | attach, detach, open, read, clear, start, stop |
| Log decoder | `logs.rs` | unfinished line | feed |
| Client | `main.rs` | request key, cursor, printed events, queued input, output file | retry, wait for an operation, follow a flash, capture, download |
| Image conversion | `elf.rs`, `idf.rs` | none | convert ELF files and `flasher_args.json` |

How they interact. An HTTP handler turns a request into `submit`, which checks
the device, admits the operation under the store lock and sends a job through
the device's bounded channel. The device's worker takes jobs between turns of
its own loop, in which it writes one frame, reads one chunk and otherwise looks
after the port. It reports through the same store lock: completions, status,
events. Readers poll the event ring. A discovery thread, and every availability
check, write the device status from outside the worker. Nothing is persisted: a
restart begins with an empty store and a new epoch.

What is hard here, and what must hold in spite of it:

* A handler looks a key up, awaits the backend, and decides later under the
  lock: one key, one operation; a replay returns its own operation.
* Retention drops operation, key record and artifact together and never touches
  what is running.
* Four flags admit operations; they are written at admission, at a failed send,
  at completion and at the end of exclusive work, and must say what is running.
* A request has a deadline of its own while its frame may be unsent, half sent
  or answered too late; every operation must end exactly once, and end.
* The port may be lost at any step, by a read, a write, a deadline or a boot
  handoff; status, session announcements and reconnection must follow.
* A cursor may be old, ahead, evicted or from another run; a reader must hear
  every event once and in order, or be told that it cannot.
* Firmware queues drop, a session is replaced while a handler runs, the chip
  resets in mid-frame: a request gets its own answer or none, and is not run
  twice; input and output stay in their session.
* Boards move between ports and some look alike: no two workers may open one
  board, and what the daemon lists must become right once nothing moves.
* A poller must not sleep through a publication; a wait must not skip a line.
* The client posts again what may already run, prints one history from two
  loops that give up requests, forwards keys in pieces, and exits with a
  verdict: each must be true whatever the daemon forgot or lost meanwhile.
* Files change between preflight, form and upload; segments are padded and
  erased in whole sectors; loader and firmware share one line and two input
  buffers; six error paths must give the port back.

`PROJECT.json` lists these hazards one by one, each at the line where it bites.

## 2. Plan

All but item 9 are done.

1. `OperationStore`, `DeviceOperations`: shared store and the abstract service.
2. `DeviceOperationsProofs`: its invariants, proved.
3. `DeviceWorker`: the real worker, scheduler and callers on the same store,
   shown to implement `DeviceOperations`; status and liveness.
4. `EventLog`: ring, cursors and the three readers.
5. `DeviceRegistry`: discovery scans, identity reconciliation, address adoption,
   creation of workers, static and dynamic mode.
6. `AppSession`: host session and the firmware's tasks over one serial line.
7. `LineDecoder` and `Client`: one command against a daemon reduced to what
   `DeviceOperations` and `EventLog` promise.
8. `FlashPlan` and `FlashSession`: the pure plan, manifest and range checks, and
   the protocol that carries a plan to the chip, with the Android attachment.
9. `MuxCodec`, left: the frame decoder byte by byte against a reference, chunked
   at every place. In `AppSession` a frame is one item.
10. Proofs of one property of each component that is safe by a small invariant:
    `DeviceRegistryProofs`, `DeviceWorkerRefinement`, `EventLogProofs`,
    `AppSessionProofs`, `ClientProofs`.
11. `DeviceWorkerRefinement`: the step refinement of `DeviceOperations` by
    `DeviceWorker`, and with it `HardwareOwnsPort` and `NothingSentAfterTheEnd`.
12. Every invariant of `AppSession`, `EventLog` and `DeviceRegistry`, and the
    action property of the registry, from one inductive invariant per component;
    `SequenceLemmas` for what their proofs need of numbers and sequences.
13. `InputInOrder` and `SuccessMeansDone` of `Client`, from an invariant on what
    was told and what is in flight.
14. `FlashSessionProofs`: `HandoffIsClean`, over all the paths an operation can
    take through a port.
15. `WaitSeesEveryLine`, from what the decoder computes byte by byte and what
    `FlattenSeq` makes of the events.
16. `EventsShown`, from what the log holds of a flash to what a reader has seen.
17. `FlashIsFaithful`, from the files through plan, manifest and upload to the
    cells of the chip.

## 3. The modules

**`OperationStore`** declares the shared state and the steps of `submit`. A call
goes `idle -> checked -> answered`: `Begin` is everything before the `await`
(shutdown check, first replay), `Reject` a failed check, and `LateReplay`,
`DeviceBusy`, `Admit` and `AdmitUnsent` are the four outcomes of the locked
half. `Admit` includes the eviction by `push_operation` (`Expired`, `Kept`,
`IdemKept`, `FilesKept`), the flags (`LanesAdmitted`) and the send. Operations
are named by an admission ticket: the code names them by event sequence, which
`emit` has just advanced, so neither reuses a name and history order is ticket
order. `FinishStream` and `FinishHardware` are the two places that end
operations. The store's mutex makes each of these one step. A worker leaves in
two: `WorkerLeaves` is its last look at the busy flag, `WorkerGone` its return,
which drops the receiver and with it the jobs sent in between.

**`DeviceOperations`** adds workers reduced to a contract: take jobs in order,
end every job taken exactly once. It is the abstract specification.

**`DeviceWorker`** is the worker loop. A step runs from one place where another
thread or the device can act to the next; `pc` names the places. A turn is
`top` (`AbortLost`, `Leave`, `Receive`), or the job (`stream`; `hardware`, then
`opened`, `reused` or `failed`), or with no job `TickOverdue`/`TickInTime`,
`Write`, then `BootHandoff`, `Read...` or `Reopen...`, then `Publish...`. Frames are
counted, not spelled out (`left`, and `mid` inside a frame); an Instant deadline
is a member of `late` once it has passed, so every order of deadlines, replies
and ticks is explored; a serial read brings any member of `Readable`. The
availability check of `submit` is split as in the code: `Look` at the hardware
without a lock, `Record` later with it, or `Shortcut` past both when the monitor
is live. `announced` is what a subscriber last heard of the session, and `shown`
records that output of the device was published since an operation that replaces
the monitor was admitted: `Publishes` is the look at `discard_monitor_read`, in
`application_output` for framed output and in the loop for plain.

**`EventLog`** keeps the ring as a function from retained numbers to sizes.
`Emit` is the whole of `emit`, `Refused`/`After`/`Batch` are `events_after`; the
long poll registers before it looks, sleeps and wakes in separate steps; the
stream fetches a batch and sends it event by event; `wait` scans, pauses and
scans again. A reader keeps `from`, where its account starts, and `heard`, what
it was given since. On an error it starts again from the cursor of a fresh
device list, as clients do. `Restart` is a new daemon: empty ring, new epoch,
requests gone, cursors kept by the clients. Each client has one request at a
time and handlers share no state but the log, so one client covers them.

**`AppSession`** composes the host's `Session` and `Duplex` with the four parties
of the firmware component: `rx_task`, `command_task`, `tx_task`, and the
application, which writes console output, publishes events, reads input and
runs the handler. The line carries items: a whole frame, a frame cut short
(`transmit` gave up, or the chip reset inside it), the open front of such a
frame, and raw text. `Decode` is the decoder of either end over these items:
what follows an open frame is taken for its rest until a delimiter comes. A
read takes up to `MaxRead` items, since one chunk may hold a reply and what
ended the session. The host's steps are `Connect`, `Request`, `ConsoleInput`,
`Expire`, `Read` and `PortLost`; those of the firmware end wherever it locks a
mutex, touches a queue or may be preempted: `tx_task` looks at the control
queue, at the console queue, sleeps, checks the session of a console chunk,
and sends, in steps of their own, and `command_task` takes, checks, calls and
replies likewise. A reset (`Reboot`) empties the firmware and may cut the
frame being sent. A reply that finds its queue full is dropped and counted.

**`DeviceRegistry`** has the boards behind the ports (`wired`), the registry's
records, and what the service says of them in its device map (`runtimes`) and
in its store (`statuses`). An identity is what a scan can tell of a board; a
strong one has a serial number. A port has a group (macOS shows a board twice)
and a kind. `Reconcile` is `reconcile_record`; `Scan` is `devices` (reconcile,
insert new groups in order, reconcile again) under the registry's lock, after
which the discovery thread publishes device by device (`UpsertKnown`,
`UpsertNew`, `UpsertFails`) until `RoundEnds`. A refresh reads in one step and
writes the map and the store in two more. `OpenValidates` is a worker that
opens its port. Of a descriptor only the availability is published here. With
`Configured` not empty it is `serve --port`: records from the start, no
discovery.

**`LineDecoder`** is `LineDecoder::feed` byte by byte: a line ends at a newline,
or as a fragment when it is full. `AreLinesOf` says the same without the decoder.

**`Client`** is one command from its post to its exit. The daemon in it is what
the other modules establish: `Admit`, `Replay`, `Refuse` answer a post, `Finish`
ends an operation together with its event, `Publish` decodes a read into lines
with `LineDecoder`, `Forget`, `Evict` and `Restart` are retention, the ring and
a new process. Posts are `flights`, handled late, or lost with their answers;
one post may be in flight twice under one key (`Resend`), and an answer reaches
the client only if it still waits for that attempt. `Submit`, `Submitted`,
`Poll`, `Waited` are `run` and the waiting loop; `TakeFlashEvents` and `Drain`
the flash waiter with `FlashProgressWriter` (`view`); `TakeEvents`, `ReadInput`,
`ReceiveInput`, `StartWrite`, `Wrote`, `Leave`, `Elapsed`, `Interrupt` the
`select!` of the capture loop, whose input thread sends through a bounded
channel; `OpenOutput`, `Transfer`, `StopTransfer` the download of an artifact,
beside which somebody else may create the file. `Repeat` is a user who runs a
failed command again with the same `--request-key`. The worker's port is there
as far as it decides what the decoder sees (`Port`): a job closes or opens it
(`TakeJob`), a read, a tick or a chip that boots loses it (`LosePort`,
`PortAfter`), it comes back (`ReopenPort`), or other clients close it and open it
at another rate (`OtherTakesPort`). Whenever the code makes a new `LineDecoder`
the model does (`FreshDecoder`): the line that had begun is dropped, although its
bytes are out as a raw event. `fresh` remembers where in the log that was.

**`FlashPlan`** has the pure checks, each as an operator that returns a result
or `Refused`: `Import` of a build, `Prepare` with padding and sector overlap,
`Validate` of chip and capacity against the bootloader header, `Manifest`,
`Admissible` and `IntoPlan` of the upload. A byte is the pair of a file revision
and a position, so that equal digests are equal data.

**`FlashSession`** carries a plan from the disk to the chip. On the client's
side `Load`, `Preflight`, `OpenForm` (sizes looked at anew for every attempt)
and `SendPart`, with `Edit` changing a file in between; in the daemon the
multipart handler stages and checks part by part (`Part`, `EndBody`) and admits
(`Submit`); the worker goes `open -> claim -> connect -> check ->` its
operation `-> baud -> clear -> reset`, one step per call that can fail, with
`IoFails` at each. `usb` is an Android attachment with its lease and UsbIo's two
input buffers, `boards` what the cable leads to: cells of flash, and a firmware
that writes as soon as it is started. Attachments are made, detached and
unplugged at any time, also under a running job.

## 4. The runs

| run | properties | what it shows |
|---|---|---|
| `DeviceOperations` | `TypeOK`, `OneOperationPerKey`, `ReplayIsFaithful`, `LanesMatchOperations`, `JobsAreAccountedFor`, `OnlyLateJobsAreLost`, `QueueHasRoom`, `ArtifactsMatchFiles`, `OperationsAreFinal` | two racing callers, three keys, two devices on one history, and workers that return while calls arrive |
| `DeviceWorker` | `NothingSentAfterTheEnd`, `SessionIsAnnounced`, `HardwareOwnsPort`, `ImplementsService` | the worker implements the abstract service under every interleaving of ticks, replies, timeouts, lost ports and shutdown |
| `DeviceWorkerLive` | `OperationsEnd`, `LostPortReturns` | every admitted operation ends; a lost port comes back |
| `EventLog` | `RingFits`, `HeardInOrder`, `NoLostWakeup`, `WaitIsExact`, `RequestsEnd`, `StreamsFollow` | readers and ring across eviction, shutdown and restart |
| `AppSession` | `AnswersAreOwn`, `NothingRunsTwice`, `SessionIsCurrent` | two sessions of two requests with timeouts at any point, and a reset or a lost port |
| `AppSessionTasks` | `ConsoleKeepsSession`, `NoFrameStranded`, `RepliesArrive` | the firmware's tasks, queues and notifications with output beside replies, and a frame cut short |
| `DeviceRegistry` | `OneWorkerPerPort`, `ListedHaveOneWorker`, `MigratesUnambiguously`, `StatusConverges` | boards that come, go, move and look alike, against discovery, a refresh and workers that open |
| `Client` | `RunsOnce`, `EventsShown`, `InputInOrder`, `WaitSeesEveryLine`, `SuccessMeansDone`, `CommandEnds` | one command of each kind against a daemon that loses answers, forgets, evicts, loses its port or lends it, and restarts; each ends |
| `FlashSession` | `FlashIsFaithful`, `HandoffIsClean`, `PortComesBack` | from files that change to the started chip, through uploads that break off and boards that leave |
| `DeviceWorkerMonitoring` | `MonitoringHasReader` (violated) | finding 1 |
| `AppSessionUnframed` | `UnframedEndsSession` (violated) | finding 2 |
| `DeviceRegistryStatic` | `OneWorkerPerPort` (violated) | finding 3 |

`ImplementsService` is a refinement: `claimed` of the abstract service is the
job in the worker's hand, the pending request and the console inputs in its
write queue. It says that a completion never comes twice, never for an operation
that was not taken, and never from nowhere; the code's `expect("running
operations are retained")` rests on it.

`HardwareOwnsPort` speaks of the log, not of the flag: from the admission of an
operation that replaces the monitor to its end nothing the device said is
published, on either path and whatever had been read before. `WaitSeesEveryLine`
speaks of one decoder at a time: between two makings of it the log lines are
exactly the lines of the raw bytes. Across a reconnect they are not, and no line
mixes what came before with what came after; that a wait may miss a line which a
reconnect cuts in two is what the code does.

Bounds. `Retain` is 2 instead of 64 and `QueueCap` is the code's 2. With three admissions
the history overflows, a key is forgotten and used again, both lanes of a device
run together while another device works, and the channel would be overfull if
the lanes allowed it. Two callers are enough for the race of one key: a third
meets the same state as the second. `DeviceWorker` has three admissions and
inputs of up to two frames, so a command and an input share the write queue and
alternate there, and an operation follows one that left frames behind; the live
run has two admissions and two baud rates, since temporal checking is dearer.
In the worker runs callers bring a fresh key each; racing on one key and
replaying a retained one is the business of `DeviceOperations`. The
event ring holds two events or three bytes with events of one or two bytes, so
each limit evicts alone and together; four events per run and two runs let a
cursor be current, behind, evicted, ahead or of the earlier run. Bounds on
tickets, events and epochs (`MaxTicket`, `MaxSeq`, `MaxEpoch`) exist only for
TLC. In `AppSession` every firmware queue holds one item, so each is full while
its task is busy; two sessions and two requests per session let an answer be of
this request, of an earlier one, or of an earlier session; reads of two items
put a reply and the end of its session in one chunk. One reset or lost port,
one cut frame and one console write are shared out between the two runs,
because no property needs all of them at once. In `DeviceRegistry` there are two
groups of two aliases, a board with and one without a serial number, and two
changes after a start with both: a board that moves, a clone that comes and the
original that goes, a replacement at the same port, an alias alone. The limit is
two devices, which a scan of the moved boards reaches. `Client` runs seven
commands: a flash with and without a capture, a monitor on a terminal with the
exit byte among its keys, one that waits for a line, one with piped input, an
erase and a read. Lines hold two bytes and reads bring one or two, so that a
line is cut and a fragment is full; the input channel holds one read and a write
one byte, so that typing is always ahead of posting. One fault is enough to
forget, evict, restart, repeat, lose the port or lend it at any step; `MaxFaults`
counts them together. The piped monitor hears nothing, its input is the point.
`FlashSession` has sectors of four bytes aligned to two, boards of two and four
sectors, two clients and two attachments; among its inputs are segments that
share a sector without overlapping, one behind the address space, one too large
for the smaller board, an empty file and a chip of another kind. One edit and
one fault meet every step of the two requests. Deadlock checking is off: a daemon with no calls, and one that was shut
down, rests. Symmetry (callers, keys) is used only in the safety run.

Fairness. `WF(WorkerStep)`: the worker is a thread of its own whose loop never
blocks for ever (the serial read and write have short timeouts).
`WF(DeadlinePasses)`: time passes. `SF(ReopenSucceeds)`: a device that is present
again and again when it is tried does not refuse for ever; without it
nothing could promise a reopened port. Callers, discovery and the device itself
need not do anything. In `EventLog` handlers are scheduled (`WF` of poll, stream
and wait) and time passes; nobody has to ask, and nothing has to be emitted.
In `AppSession` the firmware's tasks are scheduled, a handler returns as
`idf_remote.h` demands of it, and the worker keeps reading; neither host nor
application has to send anything. In `Client` deadlines pass and the runtime
polls what is ready (`WF(Proceed)`, `WF(ReceiveInput)`: `select!` is fair among
its branches), while the daemon may never answer and nobody has to type. In
`FlashSession` each worker thread runs (`WF(Work(d))`); calls on a board that is
gone return an error, since every transfer there has a timeout. In `DeviceRegistry` the discovery thread runs
and a refresh that has begun ends. Boards stop moving there because
`MaxChanges` ends them, which is the premise of convergence.

## 5. Findings

1. *Monitoring without a port.* A request whose deadline passes while its frame
   is still in the write queue is completed by `expire`; its frame stays. The
   next tick finds the overdue frame and closes the port, but the abort has
   nothing left to complete, so nobody corrects the activity: the device is
   reported as monitoring with no reader and no reconnect planned.
   `NothingSentAfterTheEnd` shows the good side of the same path: the bytes
   never reach the device.
2. *A session that the board has forgotten.* Text after a reset is meant to end
   the host's session. When the reset cuts a frame, the text is taken for the
   rest of that frame until a delimiter comes, which plain output need not
   send: the session stays, its requests time out, and the text stays hidden.
   A reset right after the acknowledgement has the same effect when text and
   acknowledgement are read in one chunk.
3. *Two devices at one port.* `serve --port A --port B` with boards that report
   one vendor, product and serial makes two records of one identity. Both are
   ambiguous while both are there; when A goes, its record finds one match and
   adopts B. Two workers may then open B. Discovery makes no such second record,
   and there `OneWorkerPerPort` holds.

Three more things are visible in the model and have no run of their own. An
operation admitted while the worker retries a lost port overwrites
`reconnecting` by `busy`, and when it fails without opening the port leaves
`error` although the worker still retries, where `docs/ARCHITECTURE.md:88` has
such a device in `reconnecting`. Attaching a monitor to an application session
keeps port and session, yet output read between its admission and the moment the
worker takes the job is discarded, where the comment at `src/server.rs:145`
speaks of "only operations that replace the monitor". And `erase-flash` ends
without a monitor and leaves the chip in its loader, as designed.

A job may be lost at shutdown. A call admitted between the worker's last look at
the busy flag and its return (`src/server.rs:1130`) is answered as running, its
job goes with the receiver, and its operation is never ended. No document
promises otherwise, so this is no finding; `OnlyLateJobsAreLost` says that it is
the only way and that nothing admitted before that look shares the fate.

## 6. The proofs

`DeviceOperationsProofs` proves, for any devices, callers, keys, requests and any
positive `Retain` and `QueueCap`, under the named assumptions of
`OperationStore` (requests name known devices and kinds, the bounds are naturals,
`NoKey` and `NoRequest` are no keys and requests):

| theorem | states | rests on |
|---|---|---|
| `TypeCorrect` | `[]TypeOK` | `Typed` |
| `KeysAreUnique` | `[]OneOperationPerKey` | itself, with `Typed` |
| `FlagsAreExact` | `[]LanesMatchOperations` | `Accounted` |
| `JobsAreSafe` | `[]JobsAreAccountedFor` | `Accounted` |
| `LateJobsOnly` | `OnlyLateJobsAreLost` | `Accounted`, lemma `HandsEmptied` |
| `EndingsAreFinal` | `OperationsAreFinal` | `Accounted`, lemma `HistorySteps` |
| `ReplaysAreFaithful` | `[]ReplayIsFaithful` | itself, with `OneOperationPerKey` |
| `ArtifactsAreKept` | `[]ArtifactsMatchFiles` | itself, with `Accounted` |
| `ChannelHasRoom` | `[]QueueHasRoom`, for `QueueCap >= 2` | `Accounted` |

Of the other components, each in a module of its own and for any constants that
meet the assumptions of the component's module:

| theorem | states | rests on |
|---|---|---|
| `WorkerKeepsItsPromise` (`DeviceWorkerRefinement`) | `ImplementsService` | `ContractInv` |
| `EndedOperationsStaySilent` (`DeviceWorkerRefinement`) | `[]NothingSentAfterTheEnd` | `ContractInv` |
| `HardwareHasThePort` (`DeviceWorkerRefinement`) | `[]HardwareOwnsPort` | `ContractInv`, `Silent` |
| `SubscribersAreRight` (`DeviceWorkerRefinement`) | `[]SessionIsAnnounced` | `Told`: it holds between all steps, not only where the worker looks for work |
| `RequestsRunOnce` (`AppSessionProofs`) | `[]NothingRunsTwice` | `SessionInv` |
| `AnswersAreTheirOwn` (`AppSessionProofs`) | `[]AnswersAreOwn` | `SessionInv` |
| `SessionsAgree` (`AppSessionProofs`) | `[]SessionIsCurrent` | `SessionInv` |
| `ConsoleIsHarmless` (`AppSessionProofs`) | `[]ConsoleKeepsSession` | `SessionInv` |
| `FramesAreSent` (`AppSessionProofs`) | `[]NoFrameStranded` | `Watched`: between its two looks, what the first missed is announced |
| `RingIsExact` (`EventLogProofs`) | `[]RingFits` | `LogHolds` |
| `ReadersHearInOrder` (`EventLogProofs`) | `[]HeardInOrder` | `LogInv` |
| `WaitsAreExact` (`EventLogProofs`) | `[]WaitIsExact` | `LogInv` |
| `PollersAreWoken` (`EventLogProofs`) | `[]NoLostWakeup` | `Wakeful`: a poller that has looked at the ring is still registered |
| `MovesAreUnambiguous` (`DeviceRegistryProofs`) | `MigratesUnambiguously` | `RegistryInv` |
| `PortsAreOwned` (`DeviceRegistryProofs`) | `[]OneWorkerPerPort`, if `ConfiguredApart` | `RegistryInv` |
| `ListedAreServed` (`DeviceRegistryProofs`) | `[]ListedHaveOneWorker` | itself: `upsert_discovered` writes map, store and thread together or none of them |
| `PostsRunOnce` (`ClientProofs`) | `[]RunsOnce` | `Retained`: a request was admitted as often as it was forgotten, and once more while it is retained |
| `InputIsInOrder` (`ClientProofs`) | `[]InputInOrder` | `ClientInv` |
| `SuccessIsTrue` (`ClientProofs`) | `[]SuccessMeansDone` | `ClientInv` |
| `WaitMissesNothing` (`ClientProofs`) | `[]WaitSeesEveryLine` | `SeenInv` |
| `EventsAreShown` (`ClientProofs`) | `[]EventsShown` | `ShownInv` |
| `ReadersHearTheFirmware` (`FlashSessionProofs`) | `[]HandoffIsClean` | `HandoffInv` |
| `FlashArrivesAsPlanned` (`FlashSessionProofs`) | `[]FlashIsFaithful` | `FlashInv` |

The small strengthenings say of the steps in between what the property says only
of the place where it matters. All proofs go action by action, and the actions
that touch none of the variables concerned are dismissed together.

The argument in `DeviceOperationsProofs`. `TypeOK` is not inductive: `Admit` records the key and request of
a call past its first replay, so `Typed` adds that such a call carries both. It
is split by what a step may disturb (`HistoryTyped`, `DevicesTyped`,
`CallsTyped`). `OneOperationPerKey` is inductive relative to `Typed`: an admission
removes exactly the records of what it evicts (`IdemKept`), and adds the one for
its own, whose key was not in use (`Fresh`). Flags and jobs cannot be
separated: a completion clears a lane because the operation it completes is
claimed, hence running, hence the only one of its lane; a job is claimed
because it was running and waiting. `Accounted` states both per device
(`JobsFit`, `FlagsFit`, with the device's state as arguments, so that the other
devices of a step are dismissed at once), and is inductive relative to `Typed`.
That every running operation has a job is part of it only until the worker has
returned: `WorkerGone` takes the jobs still in the channel along. `LateJobsOnly`
says how many that can be: at the look that ends the loop no lane is taken, so
nothing runs (`HandsEmpty`), and no other step parts a running operation
from its job.
`EndingsAreFinal` follows step by step from both.
`ReplaysAreFaithful` needs that a recorded key names an operation of its own
(`OneOperationPerKey`) and that no later operation takes an old name (`Faithful`:
what a step adds is named by the new ticket). `ArtifactsAreKept` needs that an
operation that ends was running, so that its file was nobody's artifact.
`ChannelHasRoom` is the arithmetic behind the constant 2 of `sync_channel(2)`:
beside an admissible call at most one operation runs, so at most one job waits.
TLC checks each of these properties in the run `DeviceOperations`; the theorems
say the same of every instance.

The refinement (`DeviceWorkerRefinement`). `Contract` instantiates the proofs of
`DeviceOperations` with the mapping of `ImplementsService`, so that everything
proved of the abstract service, `Accounted` above all, is there for the store of
the worker too. What has to be added, `WorkerInv`, says how the worker's own
state speaks of the operations claimed: the job in its hand is claimed
(`JobHeld`), a queued transfer is of the one console input, of the pending request
or of one that has timed out (`TransfersOwned`), and the worker writes only when
none of the last kind is queued (`RequestPending`). Two
lemmas for every action: the step is one the contract allows (`EveryStepAllowed`: a
completion ends exactly what was claimed, everything else leaves the contract's
variables or moves a job into the hand), and it keeps `WorkerInv`
(`EveryStepKeeps`). The two are proved in this order because the second uses the
contract's invariant after the step. `NothingSentAfterTheEnd` is what
`TransfersOwned` says where the worker writes; it depends on `expire` leaving its
frame behind and on the next tick finding it overdue before anything is written.
`HardwareOwnsPort` rests on `Silent`: the flag is set while an operation that
replaces the monitor runs, so the only steps that set `shown` cannot happen then,
and the step that admits one clears it.

The session (`AppSessionProofs`). `SessionInv` has a forward and a backward half.
Forward, hellos and requests pass wire, decoder, `rx_task` and request queue in
the order they were made in, by session and then by request ID (`PathInOrder`);
cuts, drops and resets only take items out of a place (`Lossy`), and each task
moves the first of one place behind the last of the next. As what was run is
before everything not yet called, nothing is run twice. Backward, every frame on
its way to the host is true whenever it arrives (`RepliesAreTrue`): an
acknowledgement of `s` means that no hello of `s` or an earlier session is still
to come, a response that its own request has run, a refusal that it has not and
will not. This is not what the frame's sender knew but what stays true while the
frame waits, and needs the forward half for that. `FramedSince` orders the two
directions: behind an acknowledgement of the present session there is no text.

The log (`EventLogProofs`). `Total` is a recursive function of the retained
events; that eviction takes from it exactly what it drops (`TotalSplit`) is an
induction over the numbers, which `SequenceLemmas` provides in a form the provers
can use: as a statement about a set of numbers (`Induction`) and about a function
from pairs (`Recursion`) in place of a predicate. `LogHolds` says that the ring is
an interval ending at the last event, never empty after one, since no event is
larger than the ring (`NewestFits`). On it rest the readers: an account has no
hole because it stands where the cursor stands (`Heard`), and a scan has passed no
match (`Scanned`).

The registry (`DeviceRegistryProofs`). The core of `RegistryInv` is `Apart`: two
records of one identity are neither strong nor at one group. A record moves only
to the single group of its strong identity (`OnePlace`), so a move cannot meet
another record (`ReconcileKeeps`), and a group is inserted only when no record
claims it before or after the two reconciliations of a scan (`DiscoveredKeeps`,
by induction over the groups in their order). `PortsAreOwned` has the hypothesis
`ConfiguredApart`: no two configured addresses ever show boards of one strong
identity. It holds whenever devices are discovered, as nothing is configured
then; with `serve --port` it can fail, and finding 3 shows that the conclusion
fails with it. `RegistryAssumption` says what operating systems guarantee: all
addresses have aliases or none has, and the aliases of a group show one board.

The client (`ClientProofs`). `ClientInv` has three parts. `Retained` counts
admissions. `ReportInv` says that what the client was told stays true. Within an
epoch the log only grows (`Grows`), and a new epoch starts an empty one
(`Restarts`), so a last event that was in the log behind a cursor is still there
(`Kept`), whether the operation's record, an answer on its way or the client
carries the news. A batch is what follows its cursor in the log (`BatchTrue`),
which is why the line a command was waiting for is one the board printed since
the command's start, although the ring may have evicted it by now. `InputInv`
cuts the input that was read at four places: delivered by earlier pieces, by the
last piece, waiting in `pending_input`, and read by read in the channel. The
last piece is in flight, in the daemon's record and in the client's hand at once,
each time the same bytes, and it is written at most once because `Retained` says
so; hence the condition `NothingForgotten`, without which a piece posted again
may run again. The proof of a step names the new cuts. Only a command that still
waits may post again or give up (`InFlight`). For `ClientInv` only the type of
what `LineDecoder` computes matters (`FeedTyped`).

`SeenInv` adds the log lines. `FeedIsFaithful` says that a read of any length
keeps lines and rest what the bytes spell: by induction over the bytes, with one
byte's case analysis in `ByteIsKept` (a newline, the byte that fills a line, any
other). The log interleaves raw events with lines and with everything else
that happens, so its bytes and its lines are each a `FlattenSeq` over all events
since the decoder was made (`fresh`); `FlattenJoin` makes that a homomorphism, and a
publication appends its bytes to one and its lines to the other. Where the worker
makes a new decoder both start from nothing (`LinesFresh`, `PortSteps`). `WaitTrue` says
that what a waiting capture has taken did not match; it starts with nothing taken.

`ShownInv` adds what was shown. `FlashTrue` says that a flash that runs has put
the script's first `flashed` steps into the log behind the operation's start, and
that whoever knows it to have succeeded (the record, the call, a poller's answer)
knows of all of them there. `ViewTrue` carries that to the reader: every step
that ends a segment's writing or its verification and that the reader has read
past is in `view`. For one event this is `ShowStep`: the rules that leave out a percentage leave
out a complete one only if `last_percent` says it was shown (`Lasting`), and
`segment_started` of the same offset takes that back; `Showing` adds it up over a
batch. `FinalTrue` follows the verdict: a client that is through with its flash
has drained the log past the operation's last event. With `--json` the numbers printed are a row from
the operation's start (`PrintedTrue`); a batch adds those past `through`, and two
rows that meet are one (`RowsMeet`). `RawTrue` is `RawBytes` as a homomorphism
along the cursor. `ScriptAssumption` says of a script what `Callback` reports of a
flash that succeeds: `with_flasher` connects with `verify` and without `skip`, so
each segment that was started is written to its last block and verified.

The handoff (`FlashSessionProofs`). `HandoffInv` says, of each attachment with its
worker and its board (`Sound`), what is on the wire where the worker is. A port
that is open without a loader session (`Listening`) already holds what its reader
will get. After `Connect` anything may be on the wire, also of the firmware
before and of the loader, and nothing is said of it until `ClearInput`; between
that and `Reset` a firmware that still runs may be heard, so all that is there
then is of an earlier run (`Streams`). That needs `Placed`: the places between are
passed only by operations that reset the chip, so `SetBaud` never leaves protocol
bytes to a monitor that was only attached. A byte of a board reaches every
attachment that has it open, and a reset through one is heard by the others; the
proof dismisses these because attachments are made in order and the last alone
works (`InOrder`, `OneWorks`): an attachment whose board was taken over hears
nothing any more. What this asks of the constants is that attachments are numbered
from 1 and no board is called `NoBoard` (`SessionAssumption`).

The flash (same module). `FlashInv` is `HandoffInv`, `FlowInv` and `ChipInv`.
`FlowInv` follows the plan from hand to hand (`Bringing`, `Checking`): what the
command line holds after its preflight was prepared from the files of that moment,
its manifest was made of that (`Preflighted`), and what the daemon has staged of
its upload is as the manifest announces (`Sent`). For any client, an operation
carries a plan that `IntoPlan` made of an admissible manifest (`Planned`). A file
that was edited in between can only make the upload fail; a retry stages from the
beginning. `ChipInv` follows the
segments (`Flashing`): when `erased` of them are erased and `written` of them
written, each written one stands at its place and every cell outside the erased
sectors is as it was when the operation began (`Upto`, `Spares`). Another
attachment cannot disturb that, as the last one alone works (`OneWorks`).
A step of writing keeps it because the sectors of segments do not meet: the check
compares neighbours in the sorted order, and the order makes that a statement about
all pairs (`ByOffsetIs`, `SortedSegments`). The functions of `FlashPlan` have
lemmas of their own: the sort exists and is the only one (`SortsAll`,
`SortedAlike`), sums grow with each part (`TotalLess`), padding and rounding.
`InputAssumption` says that what is read from files and requests has the shape
that parsing gives it (offsets and sizes are numbers, lists are lists), and that
a chip's capacity is a positive number of whole sectors, as flash sizes are:
otherwise the last sector would reach past the chip, where addresses wrap to its
beginning.

Each invariant was also checked by TLC on an instance, but for `FlowInv`: the files
and parts it speaks of are those of an earlier moment, which no set bounds.

Only model-checked: all liveness, `PortComesBack` of `FlashSession` with it, which the proof system cannot
do under fairness. The library's induction theorems take an operator and cannot be
used here; `Induction` and `Recursion` of `SequenceLemmas` take their place.

## 7. What is not modelled

* The HTTP layer beyond uploads, reads of events and exclusive requests:
  authorization, headers and JSON are stateless; the models take their refusals
  as given.
* The frame codec byte by byte (`mux.rs`): COBS groups, checksums, the buffer
  limit. `AppSession` has frames that are whole, cut or open instead.
* `DeviceWorker` has the availability writes of discovery (`Discover`) and the
  session's states, not their detail: all reasons for a device being unavailable
  are one.
* In the firmware: running out of heap while a reply is built (it is then lost
  and not counted), and the checks of JSON fields a conforming host never fails.
* In the registry: scans that fail (nothing changes), devices that are not USB
  beyond their being left out of discovery, the address in a published descriptor.
* In the flash session: what espflash and the ROM loader say on the wire, baud
  rates, the progress callback (its events are `Client`'s `Script`), connecting
  without a reset before; of USB, descriptors and control transfers. A chip with
  security enabled is in the module (`Suits`) and in no instance.
* In the client: argument parsing, tables, colours, the discovery of a daemon,
  and what a board says while no command listens. `Client` has other clients only
  as refusals, forgotten operations and a port that is taken and given back; the
  events of their operations are left out, and so is a monitor that attaches to an
  application session and keeps its port and decoder.
* `logs::capture`, which the program does not call, and the colour and level of
  a line.
* The content of frames and results; the back-off between reopen attempts (an
  attempt may come at any time); the bytes of an artifact, which are counted in
  chunks.
* Panics: the code's `expect`s are covered by the invariants they rest on.
* `elf.rs`, which lays out images with espflash's own writers and keeps no state;
  the Android views, the test firmware, scripts and release tooling.
