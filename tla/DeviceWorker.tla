---------------------------- MODULE DeviceWorker ----------------------------
(***************************************************************************)
(* The thread that owns one device (src/src/server.rs, `Service::worker`)  *)
(* with the stream scheduler it drives (src/src/duplex.rs, `Duplex`), the  *)
(* callers that race with it, and the device and the clock around it.      *)
(*                                                                         *)
(* A step of the worker runs from one place where another thread or the    *)
(* device can act to the next: a store lock, a serial read or write, a     *)
(* refresh.  Frames are counted, not spelled out; an Instant deadline is a *)
(* member of `late` once it has passed.                                    *)
(***************************************************************************)
EXTENDS OperationStore

CONSTANTS
  Dev,       \* the device of this worker
  Bauds,     \* monitor baud rates; every request has a field baud
  NoBaud,    \* no port open, no reopen planned
  Discovering, \* does a discovery thread run (no --port was given)
  MaxFrames  \* frames of one console input

ASSUME WorkerAssumption ==
  /\ Devices = {Dev}
  /\ \A r \in Requests : r.baud \in Bauds
  /\ NoBaud \notin Bauds
  /\ Discovering \in BOOLEAN
  /\ MaxFrames \in Nat \ {0}

VARIABLES
  avail,      \* DeviceState::status.availability: is the device Available
  activity,   \* DeviceState::status.activity
  gate,       \* how far each submit call is with its availability check
  present,    \* the device is there and answers (environment)
  pc,         \* where the worker is in its loop
  job,        \* the job it has received and not yet handed to the duplex
  reader,     \* reader and reader_baud: the baud of the open port
  reconnect,  \* MonitorReconnect: the baud to reopen with
  boot,       \* boot_reopen_at: unset, set, or set and passed
  session,    \* Duplex::session: absent, negotiating, or valid
  pending,    \* Duplex::pending: the operation awaiting a reply
  tx,         \* Duplex::tx: transfers, with the frames left of each
  late,       \* operations of the duplex whose deadline has passed
  chunk,      \* what the last serial read returned
  announced,  \* the last application_connected or application_disconnected
              \* event, "superseded" once a later hello has been queued,
              \* which on purpose tells subscribers nothing
  shown       \* history: output of the device has reached the event log since
              \* the last operation that replaces the monitor was admitted

statusVars == <<avail, activity>>
duplexVars == <<session, pending, tx, late, announced>>
portVars == <<reader, reconnect, boot>>
outputVars == <<chunk, shown>>
workerVars == <<pc, job, outputVars, portVars, duplexVars>>
vars == <<sharedVars, statusVars, gate, present, workerVars>>

Init ==
  /\ InitStore
  /\ present \in BOOLEAN
  /\ avail = present
  /\ activity = "idle"
  /\ gate = [c \in Callers |-> "none"]
  /\ pc = "top" /\ job = NoOp /\ chunk = "none"
  /\ reader = NoBaud /\ reconnect = NoBaud /\ boot = "off"
  /\ session = "none" /\ pending = NoOp /\ tx = <<>>
  /\ late = {} /\ announced = "none" /\ shown = FALSE

-----------------------------------------------------------------------------
(* Views of the duplex. *)

Transfers == {tx[n].op : n \in 1 .. Len(tx)}
Inputs == {tx[n].op : n \in {m \in 1 .. Len(tx) : tx[m].lane = "input"}}
HasPending == pending # NoOp \/ tx # <<>>

\* Operations the duplex has still to complete: the awaited reply and the inputs.
Open == ({pending} \ {NoOp}) \cup Inputs

Claimed == Open \cup ({job} \ {NoOp})

Baud(i) == ops[i].req.baud

-----------------------------------------------------------------------------
(* finish_stream(done, has_reader): the last of the completions decides the *)
(* activity.  Each is judged after its own lane is cleared, so the first of *)
(* two still sees a busy device and overwrites Reconnecting.                *)
StreamActivity(done, hasReader) ==
  IF LanesStreamDone(lanes[Dev], done).busy THEN "busy"
  ELSE IF hasReader THEN "monitoring"
  ELSE IF activity = "reconnecting" /\ Cardinality(done) = 1 THEN "reconnecting"
  ELSE "error"

Complete(done, good, hasReader) ==
  /\ FinishStream(Dev, done, good)
  /\ activity' = IF done = {} THEN activity ELSE StreamActivity(done, hasReader)

(* Duplex::abort: everything open fails, unsent frames are forgotten.       *)
Abort(hasReader) ==
  /\ Complete(Open, {}, hasReader)
  /\ session' = "none" /\ pending' = NoOp /\ tx' = <<>> /\ late' = {}

\* Mutant: the loss of the session is not told to the subscribers.
AnnounceNothing == UNCHANGED announced

(* emit("application_disconnected") when there was a session.               *)
AnnounceLoss == announced' = IF session = "none" THEN announced ELSE "disconnected"

(* begin_monitor_reconnect, when a port was open.                           *)
BeginReconnect ==
  /\ reader' = NoBaud
  /\ reconnect' = reader
  /\ avail' = FALSE
  /\ activity' = "reconnecting"

(* refresh_device_blocking: what the backend sees becomes the availability. *)
Refresh == avail' = present

(* It finds the device missing, or fails and leaves the availability alone. *)
Unavailable == (~present /\ Refresh) \/ UNCHANGED avail

(* Left alone by every step of the worker's loop. *)
callerVars == <<running, worker, calls, gate, present>>

(* Left alone by the steps that hold no store lock. *)
lockedVars == <<historyVars, lanes, statusVars, queue>>

-----------------------------------------------------------------------------
(* submit: availability check between the two looks at the key.             *)

InCall(c, g) == calls[c].pc = "checked" /\ gate[c] = g

MoveGate(c, g) == gate' = [gate EXCEPT ![c] = g]

(* active_monitor_status: a live stream is used without asking the backend. *)
ActiveMonitor ==
  /\ avail
  /\ activity = "monitoring" \/ lanes[Dev].app \/ lanes[Dev].input

UsesActiveMonitor(c) == calls[c].req.kind \in {"command", "connect", "input"} /\ ActiveMonitor

Shortcut(c) ==
  /\ InCall(c, "none")
  /\ UsesActiveMonitor(c)
  /\ MoveGate(c, "open")
  /\ UNCHANGED <<sharedVars, statusVars, present, workerVars>>

(* refresh_device looks at the hardware first ...                           *)
Look(c) ==
  /\ InCall(c, "none")
  /\ ~UsesActiveMonitor(c)
  /\ MoveGate(c, IF present THEN "there" ELSE "missing")
  /\ UNCHANGED <<sharedVars, statusVars, present, workerVars>>

(* ... and writes what it saw under the lock, however old that is by now.   *)
Record(c) ==
  /\ InCall(c, "there")
  /\ avail' = TRUE
  /\ MoveGate(c, "open")
  /\ UNCHANGED <<sharedVars, activity, present, workerVars>>

(* A device that was missing, or could not be looked for, ends the call.    *)
RecordMissing(c) ==
  /\ InCall(c, "missing")
  /\ avail' \in {avail, FALSE}
  /\ Reject(c)
  /\ MoveGate(c, "none")
  /\ UNCHANGED <<activity, present, workerVars>>

(* The locked half of submit.                                               *)
Locked(c) ==
  /\ InCall(c, "open")
  /\ MoveGate(c, "none")
  /\ \/ (LateReplay(c) \/ DeviceBusy(c)) /\ UNCHANGED activity
     \/ Admit(c) /\ activity' = "busy"
     \/ /\ AdmitUnsent(c)
        /\ activity' = IF lanes'[Dev].busy THEN "busy" ELSE "error"
  /\ shown' = (shown /\ ~\E i \in Running(Dev)' \ Running(Dev) : Kind(i)' \in HardwareKinds)
  /\ UNCHANGED <<avail, present, pc, job, chunk, portVars, duplexVars>>

(* Clients generate a key per request; two callers can still bring the same *)
(* one.  Replays of retained keys are DeviceOperations' subject.            *)
NextKey == CHOOSE k \in Keys : k \notin DOMAIN idem

Caller(c) ==
  \/ /\ \/ /\ ticket < MaxTicket
           /\ \E k \in Keys, r \in Requests : k = NextKey /\ Begin(c, k, r)
        \/ Return(c)
     /\ UNCHANGED <<statusVars, gate, present, workerVars>>
  \/ Shortcut(c)
  \/ Look(c)
  \/ Record(c)
  \/ RecordMissing(c)
  \/ Locked(c)

-----------------------------------------------------------------------------
(* The top of the loop and the job channel.                                 *)

(* A port lost since the last turn takes the duplex with it.                *)
PortLost == reader = NoBaud /\ (session # "none" \/ HasPending)

AbortLost ==
  /\ pc = "top"
  /\ PortLost
  /\ Abort(FALSE)
  /\ AnnounceLoss
  /\ UNCHANGED <<callerVars, queue, avail, pc, job, outputVars, portVars>>

Leave ==
  /\ pc = "top"
  /\ ~PortLost
  /\ WorkerLeaves(Dev)
  /\ UNCHANGED <<statusVars, gate, present, workerVars>>

Exit ==
  /\ WorkerGone(Dev)
  /\ UNCHANGED <<statusVars, gate, present, workerVars>>

(* Past the shutdown check, at the job channel.                             *)
AtChannel ==
  /\ pc = "top"
  /\ ~PortLost
  /\ worker[Dev] = "loop"
  /\ running \/ lanes[Dev].busy

Receive ==
  /\ AtChannel
  /\ queue[Dev] # <<>>
  /\ job' = Head(queue[Dev])
  /\ queue' = [queue EXCEPT ![Dev] = Tail(@)]
  /\ pc' = IF Kind(job') \in StreamKinds THEN "stream" ELSE "hardware"
  /\ UNCHANGED <<callerVars, historyVars, lanes, statusVars, outputVars, portVars, duplexVars>>

(* TryRecvError::Empty: the worker turns to its port.                       *)
NoJob == AtChannel /\ queue[Dev] = <<>>

NoPort ==
  /\ NoJob
  /\ reader = NoBaud
  /\ pc' = "read"
  /\ UNCHANGED <<callerVars, lockedVars, job, outputVars, portVars, duplexVars>>

-----------------------------------------------------------------------------
(* A stream job: application connect, application command or console input. *)

(* A different baud is refused while the stream is in use.                  *)
BaudInUse ==
  /\ reader # Baud(job)
  /\ HasPending \/ (session # "none" /\ Kind(job) # "connect")

(* start_application and start_input.                                       *)
CanStart ==
  \/ Kind(job) = "command" /\ pending = NoOp /\ session = "valid"
  \/ Kind(job) = "connect" /\ pending = NoOp /\ tx = <<>>
  \/ /\ Kind(job) = "input"
     /\ Inputs = {}
     /\ session # "hello"

(* Only connect and console input may open the port.                        *)
NeedsPort == reader # Baud(job) /\ Kind(job) = "command"

(* The closure fails: finish_stream with this one failed completion.        *)
StreamFails ==
  /\ Complete({job}, {}, reader' # NoBaud)
  /\ UNCHANGED <<reconnect, boot, duplexVars>>

StreamRefused ==
  /\ BaudInUse \/ NeedsPort \/ (reader = Baud(job) /\ ~CanStart)
  /\ UNCHANGED <<avail, reader>>
  /\ StreamFails

MayOpen == reader # Baud(job) /\ ~BaudInUse /\ ~NeedsPort

StreamUnavailable ==
  /\ MayOpen
  /\ Unavailable
  /\ UNCHANGED reader
  /\ StreamFails

StreamOpenFails ==
  /\ MayOpen
  /\ present
  /\ Refresh
  /\ reader' = NoBaud
  /\ StreamFails

StreamStarts ==
  /\ \/ reader = Baud(job) /\ ~BaudInUse /\ UNCHANGED <<avail, reader>>
     \/ MayOpen /\ present /\ Refresh /\ reader' = Baud(job)
  /\ CanStart
  /\ reconnect' = NoBaud
  /\ boot' = "off"
  /\ \/ /\ Kind(job) = "input"
        /\ \E n \in 1 .. MaxFrames : 
             tx' = Append(tx, [op |-> job, lane |-> "input", left |-> n, mid |-> FALSE])
        /\ UNCHANGED <<session, pending, announced>>
     \/ /\ Kind(job) # "input"
        /\ tx' = Append(tx, [op |-> job, lane |-> "app", left |-> 1, mid |-> FALSE])
        /\ pending' = job
        /\ IF Kind(job) = "connect"
           THEN session' = "hello" /\ announced' = "superseded"
           ELSE UNCHANGED <<session, announced>>
  /\ UNCHANGED <<historyVars, lanes, activity, late>>

StreamJob ==
  /\ pc = "stream"
  /\ pc' = "top"
  /\ job' = NoOp
  /\ StreamRefused \/ StreamUnavailable \/ StreamOpenFails \/ StreamStarts
  /\ UNCHANGED <<callerVars, queue, outputVars>>

-----------------------------------------------------------------------------
(* An exclusive job: probe, flash, read, erase, reset or monitor.           *)

(* Attaching a monitor to an application session keeps port and session.    *)
PreservesMonitor == Kind(job) = "monitor" /\ session # "none"

(* Everything before the port is opened.  Transfers left in tx stay there.  *)
HardwareBegins ==
  /\ pc = "hardware"
  /\ reconnect' = NoBaud
  /\ boot' = "off"
  /\ IF PreservesMonitor
     THEN /\ UNCHANGED <<reader, session, announced>>
          /\ IF reader = Baud(job)
             THEN pc' = "reused" /\ UNCHANGED avail
             ELSE pc' = "failed" /\ (Refresh \/ Unavailable)
     ELSE /\ reader' = NoBaud
          /\ session' = "none"
          /\ AnnounceLoss
          /\ \/ pc' = "opened" /\ present /\ Refresh
             \/ pc' = "failed" /\ Unavailable
  /\ UNCHANGED <<callerVars, historyVars, lanes, queue, activity, job, outputVars, pending, tx, late>>

(* read_flash creates the artifact's file.                                  *)
HardwareWritesFile ==
  /\ pc = "opened"
  /\ job \notin files
  /\ CreateFile(job)
  /\ UNCHANGED <<callerVars, ticket, ops, idem, artifacts, lanes, queue, statusVars, workerVars>>

(* The hardware session ends, with the port handed to the monitor unless it *)
(* failed or left the chip in download mode, and the operation with it.     *)
HardwareEnds(ok) ==
  /\ \/ pc = "opened" /\ (ok /\ Kind(job) = "read" => job \in files)
     \/ pc = "reused" /\ ok
     \/ pc = "failed" /\ ~ok
  /\ reader' = IF pc # "opened" THEN reader
               ELSE IF ok /\ Kind(job) # "erase" THEN Baud(job) ELSE NoBaud
  /\ FinishHardware(Dev, job, ok)
  /\ activity' = IF reader' # NoBaud THEN "monitoring" ELSE IF ok THEN "idle" ELSE "error"
  /\ job' = NoOp
  /\ pc' = "top"
  /\ UNCHANGED <<callerVars, queue, avail, reconnect, boot, outputVars, duplexVars>>

-----------------------------------------------------------------------------
(* Duplex::tick.                                                            *)

(* Overdue in the write queue: the port is closed and everything fails.     *)
Overdue == \E i \in Transfers : i \in late

DropPort ==
  /\ reader' = NoBaud
  /\ Abort(FALSE)
  /\ AnnounceLoss
  /\ pc' = "top"
  /\ UNCHANGED <<callerVars, queue, avail, job, outputVars, reconnect, boot>>

TickOverdue ==
  /\ NoJob
  /\ reader # NoBaud
  /\ Overdue
  /\ DropPort

\* Mutant: the deadline of a transfer is not looked at before writing.
TickUnchecked ==
  /\ NoJob
  /\ reader # NoBaud
  /\ pc' = "write"
  /\ UNCHANGED <<callerVars, lockedVars, job, outputVars, portVars, duplexVars>>

TickInTime ==
  /\ NoJob
  /\ reader # NoBaud
  /\ ~Overdue
  /\ pc' = "write"
  /\ UNCHANGED <<callerVars, lockedVars, job, outputVars, portVars, duplexVars>>

\* Mutants: an input in transfer expires too; a request never expires.
ExpiredAll == late
ExpiredNever == {}

(* expire: an overdue request ends, and an overdue hello takes its session  *)
(* along.  Its frame may still be waiting in tx.                            *)
ExpiredRequest == {pending} \cap late

AfterExpiry(written, left) ==
  /\ Complete(written \cup ExpiredRequest, written, TRUE)
  /\ tx' = left
  /\ pending' = IF ExpiredRequest = {} THEN pending ELSE NoOp
  /\ session' = IF session = "hello" /\ ExpiredRequest # {} THEN "none" ELSE session
  /\ late' = late \cap {left[n].op : n \in 1 .. Len(left)}

(* Nothing to write, or the driver takes nothing now.                       *)
WriteNothing ==
  /\ AfterExpiry({}, tx)
  /\ pc' = "read"
  /\ UNCHANGED <<callerVars, queue, avail, job, outputVars, portVars, announced>>

MoreFrames(t) == t.left > 1

(* The driver takes part of the first frame, or all of it: then the sender  *)
(* is done, or goes to the back of the queue with its remaining frames.     *)
WriteSome ==
  /\ tx # <<>>
  /\ LET t == Head(tx) IN
     \/ ~t.mid /\ AfterExpiry({}, <<[t EXCEPT !.mid = TRUE]>> \o Tail(tx))
     \/ /\ MoreFrames(t)
        /\ AfterExpiry({}, Append(Tail(tx), [t EXCEPT !.left = @ - 1, !.mid = FALSE]))
     \/ /\ ~MoreFrames(t)
        /\ AfterExpiry({t.op} \cap Inputs, Tail(tx))
  /\ pc' = "read"
  /\ UNCHANGED <<callerVars, queue, avail, job, outputVars, portVars, announced>>

WriteFails ==
  /\ tx # <<>>
  /\ DropPort

Write ==
  /\ pc = "write"
  /\ WriteNothing \/ WriteSome \/ WriteFails

-----------------------------------------------------------------------------
(* Reading the port and putting it back.                                    *)

(* A native USB chip re-enumerates when it boots: reopen after a pause.     *)
BootHandoff ==
  /\ pc = "read"
  /\ boot = "due"
  /\ pc' = "top"
  /\ boot' = "off"
  /\ IF reader = NoBaud
     THEN UNCHANGED <<reader, reconnect, statusVars>>
     ELSE BeginReconnect
  /\ UNCHANGED <<callerVars, historyVars, lanes, queue, job, outputVars, duplexVars>>

AtRead == pc = "read" /\ boot # "due"

(* No bytes before the short read timeout, or no port and nothing due.      *)
ReadNothing ==
  /\ AtRead
  /\ pc' = "top"
  /\ UNCHANGED <<callerVars, lockedVars, job, outputVars, portVars, duplexVars>>

(* End of stream leaves boot_reopen_at alone, an error clears it.           *)
ReadFails ==
  /\ AtRead
  /\ reader # NoBaud
  /\ BeginReconnect
  /\ boot' \in {boot, "off"}
  /\ pc' = "top"
  /\ UNCHANGED <<callerVars, historyVars, lanes, queue, job, outputVars, duplexVars>>

(* What one read can bring.  Without a session everything is plain output,  *)
(* possibly ending in the ROM's entry line; with one there are console and  *)
(* event frames, the reply to the pending request once that was sent, and   *)
(* what ends a session: unframed output, a reply that is not JSON.          *)
Readable ==
  IF session = "none" THEN {"raw", "entry"}
  ELSE {"raw", "console"} \cup
       (IF pending # NoOp /\ pending \notin Transfers
        THEN {"reply", "refusal", "garbled"} ELSE {})

ReadChunk ==
  /\ AtRead
  /\ reader # NoBaud
  /\ present
  /\ chunk' \in Readable
  /\ boot' = "off"
  /\ pc' = "publish"
  /\ UNCHANGED <<callerVars, lockedVars, job, shown, reader, reconnect, duplexVars>>

\* Mutant: the worker gives up after the first failed attempt.
ReopenGivesUp ==
  /\ AtRead
  /\ reader = NoBaud /\ reconnect # NoBaud
  /\ Refresh
  /\ reconnect' = NoBaud
  /\ pc' = "top"
  /\ UNCHANGED <<callerVars, historyVars, lanes, queue, activity, job, outputVars, reader, boot,
                 duplexVars>>

(* One passive reopen attempt.                                              *)
ReopenFails ==
  /\ AtRead
  /\ reader = NoBaud /\ reconnect # NoBaud
  /\ Refresh \/ Unavailable
  /\ pc' = "top"
  /\ UNCHANGED <<callerVars, historyVars, lanes, queue, activity, job, outputVars, portVars, duplexVars>>

ReopenSucceeds ==
  /\ AtRead
  /\ reader = NoBaud /\ reconnect # NoBaud
  /\ present
  /\ Refresh
  /\ pc' = "reopened"
  /\ UNCHANGED <<callerVars, historyVars, lanes, queue, activity, job, outputVars, portVars, duplexVars>>

(* finish_monitor_reconnect.                                                *)
Reopened ==
  /\ pc = "reopened"
  /\ reader' = reconnect
  /\ reconnect' = NoBaud
  /\ boot' = "off"
  /\ avail' = TRUE
  /\ activity' = "monitoring"
  /\ pc' = "top"
  /\ UNCHANGED <<callerVars, historyVars, lanes, queue, job, outputVars, duplexVars>>

-----------------------------------------------------------------------------
(* Duplex::feed, and the plain monitor path, on the bytes just read.        *)

(* A reply counts only until its deadline.                                  *)
Expected == pending # NoOp /\ pending \notin late

FedBy == <<callerVars, queue, avail, job, portVars>>

(* What is output goes to the log, unless an operation that replaces the    *)
(* monitor was admitted since it was read.                                  *)
Output == chunk \in {"raw", "entry", "console"}

\* Mutant: the flag is not looked at under the lock of the publication.
PublishesAlways == Output

Publishes == Output /\ ~lanes[Dev].discard

(* Output nobody framed ends a valid session, so does a reply that is not   *)
(* JSON; the port stays open and becomes a plain monitor.                   *)
FeedEndsSession ==
  /\ \/ chunk = "raw" /\ session = "valid"
     \/ chunk = "garbled" /\ Expected
  /\ Abort(TRUE)
  /\ announced' = "disconnected"
  /\ UNCHANGED FedBy

FeedReply ==
  /\ Expected
  /\ chunk \in {"reply", "refusal"}
  /\ LET good == chunk = "reply" IN
     /\ Complete({pending}, IF good THEN {pending} ELSE {}, TRUE)
     /\ session' = IF session # "hello" THEN session ELSE IF good THEN "valid" ELSE "none"
     /\ announced' = IF session = "hello" /\ good THEN "connected" ELSE announced
  /\ pending' = NoOp
  /\ UNCHANGED <<FedBy, tx, late>>

(* Console output, events, output during a negotiation, and replies that    *)
(* come too late: none of them completes an operation by itself.            *)
FeedOther ==
  /\ \/ chunk = "console"
     \/ chunk = "raw" /\ session = "hello"
     \/ chunk \in {"reply", "refusal", "garbled"} /\ ~Expected
  /\ AfterExpiry({}, tx)
  /\ UNCHANGED <<FedBy, announced>>

PublishFed ==
  /\ pc = "publish"
  /\ session # "none"
  /\ FeedEndsSession \/ FeedReply \/ FeedOther
  /\ shown' = (shown \/ Publishes)
  /\ chunk' = "none"
  /\ pc' = "top"

(* A plain monitor.  Bytes read before an operation that replaces the       *)
(* monitor was admitted are dropped; an entry line arms the boot handoff.   *)
PublishPlain ==
  /\ pc = "publish"
  /\ session = "none"
  /\ boot' \in IF chunk = "entry" /\ Publishes THEN {boot, "armed"} ELSE {boot}
  /\ shown' = (shown \/ Publishes)
  /\ chunk' = "none"
  /\ pc' = "top"
  /\ UNCHANGED <<callerVars, lockedVars, job, reader, reconnect, duplexVars>>

-----------------------------------------------------------------------------
(* The device, the clock and the discovery thread.                          *)

Replug ==
  /\ present' = ~present
  /\ UNCHANGED <<sharedVars, statusVars, gate, workerVars>>

DeadlinePasses ==
  \E i \in (({pending} \ {NoOp}) \cup Transfers) \ late :
    /\ late' = late \cup {i}
    /\ UNCHANGED <<sharedVars, statusVars, gate, present, pc, job, outputVars, portVars,
                   session, pending, tx, announced>>

BootDelayPasses ==
  /\ boot = "armed"
  /\ boot' = "due"
  /\ UNCHANGED <<sharedVars, statusVars, gate, present, pc, job, outputVars, reader, reconnect,
                 duplexVars>>

(* sync_discovered writes the availability its scan found, which may be     *)
(* older than the device's last change.                                     *)
Discover ==
  /\ Discovering
  /\ avail' \in BOOLEAN \ {avail}
  /\ UNCHANGED <<sharedVars, activity, gate, present, workerVars>>

Environment ==
  \/ Replug
  \/ BootDelayPasses
  \/ Discover
  \/ Shutdown /\ UNCHANGED <<statusVars, gate, present, workerVars>>

WorkerStep ==
  \/ AbortLost
  \/ Leave
  \/ Exit
  \/ Receive
  \/ NoPort
  \/ StreamJob
  \/ HardwareBegins
  \/ HardwareWritesFile
  \/ \E ok \in BOOLEAN : HardwareEnds(ok)
  \/ TickOverdue
  \/ TickInTime
  \/ Write
  \/ BootHandoff
  \/ ReadNothing
  \/ ReadFails
  \/ ReadChunk
  \/ ReopenFails
  \/ ReopenSucceeds
  \/ Reopened
  \/ PublishFed
  \/ PublishPlain

Next ==
  \/ WorkerStep
  \/ DeadlinePasses
  \/ Environment
  \/ \E c \in Callers : Caller(c)

Spec == Init /\ [][Next]_vars

(* The worker thread is scheduled, time passes, and a device that is there  *)
(* does not refuse to be reopened forever.  Nobody has to call.             *)
Fairness ==
  /\ WF_vars(WorkerStep)
  /\ WF_vars(DeadlinePasses)
  /\ SF_vars(ReopenSucceeds)

FairSpec == Spec /\ Fairness

-----------------------------------------------------------------------------
(* The worker keeps the promise of DeviceOperations: what it has claimed is *)
(* its job, the pending reply and the inputs in its write queue; each ends  *)
(* exactly once, however ticks, replies, timeouts and lost ports interleave.*)
Service == INSTANCE DeviceOperations WITH claimed <- [d \in Devices |-> Claimed]
ImplementsService == Service!Spec

(* Never replayed: bytes reach the driver only for an operation that is     *)
(* still running, also when a request has timed out with its frame unsent.  *)
NothingSentAfterTheEnd ==
  pc = "write" => Transfers \subseteq Running(Dev)

(* The subscribers' view of the application session is the truth whenever   *)
(* the worker looks for work: connected is what they heard last, with no    *)
(* negotiation begun since, exactly when a valid session is held, and a     *)
(* session is held on an open port only.                                    *)
SessionIsAnnounced ==
  AtChannel =>
    /\ announced = "connected" <=> session = "valid"
    /\ session # "none" => reader # NoBaud

(* While an operation that replaces the monitor runs, the log holds no      *)
(* output of the device after its operation_started: what the old monitor   *)
(* had read before the admission is dropped where it would be published,    *)
(* framed (application_output) or plain.  And when it has opened the port,  *)
(* nobody waits for a reply from it or has input to write to it.            *)
HardwareOwnsPort ==
  /\ (\E i \in Running(Dev) : Kind(i) \in HardwareKinds) => ~shown
  /\ pc = "opened" => Open = {}

(* Every operation the live worker has admitted ends.                       *)
OperationsEnd ==
  \A i \in Tickets :
    i \in Running(Dev) /\ worker[Dev] = "loop" ~> i \notin Running(Dev)

(* A port lost by the worker is open again once the device stays present,   *)
(* unless a new job takes over first.                                       *)
LostPortReturns ==
  reconnect # NoBaud /\ [](present /\ worker[Dev] = "loop") ~> reader # NoBaud \/ job # NoOp

-----------------------------------------------------------------------------
(* What a document says and the code does not keep; a run finds it violated.*)

(* docs/ARCHITECTURE.md, Monitor lifecycle: "The monitor keeps the serial   *)
(* connection inside the device worker".  A device reported as monitoring   *)
(* has an open port when its worker looks for work.                         *)
MonitoringHasReader == AtChannel /\ activity = "monitoring" => reader # NoBaud

=============================================================================
