---------------------------- MODULE FlashSession ----------------------------
(***************************************************************************)
(* An exclusive operation from the files on the client's disk to the chip: *)
(* import, preflight and upload (src/src/main.rs, idf.rs, plan.rs,         *)
(* wire.rs), the multipart handler (src/src/server.rs, `flash`), the       *)
(* worker's job with its bootloader session (src/src/backend/flashing.rs)  *)
(* over a leased USB attachment (src/src/backend/android.rs), and the      *)
(* handoff of the port to the monitor (src/src/backend/mod.rs).            *)
(*                                                                         *)
(* Client c makes one request under its own key, so that ops[c] is the     *)
(* operation of that key.  The device is an attachment, the board what the *)
(* cable leads to.  espflash, the ROM loader and usbfs are external.       *)
(***************************************************************************)
EXTENDS FlashPlan

CONSTANTS
  Clients, Cli,   \* all clients; Cli runs `idf-remote flash`, others the API
  Builds, Selections, Plans, \* what Cli can be given: a build, or a plan file
  Manifests, Requests, Parts, \* what an API client can post
  FirstDisk, Revisions, \* Cli's files, and what an edit can make of each
  Devices,        \* attachments 1 .. n, in the order they are made
  Boards, Kind,   \* Kind[b] is [chip, capacity, secure]
  MaxSaid,        \* bytes a firmware writes after each start
  MaxEdits, MaxFaults

NoBoard == "no board"

ASSUME SessionAssumption ==
  /\ Cli \in Clients /\ NoBoard \notin Boards
  /\ \E n \in Devices : Devices = 1 .. n
  /\ \A r \in Requests : r.kind \in {"read", "erase", "probe", "reset", "monitor"}

\* A list of what goes where, as a build's, a plan's and a manifest's are.
Listing(list) ==
  list \in Seq(ToSet(list)) /\ \A n \in DOMAIN list : list[n].offset \in Nat
FilesAre(list) == Listing(list) /\ \A n \in DOMAIN list : list[n].file \in DOMAIN FirstDisk

ASSUME InputAssumption ==
  /\ FirstDisk = [f \in DOMAIN FirstDisk |-> FirstDisk[f]]
  /\ \A f \in DOMAIN FirstDisk : \A r \in {FirstDisk[f]} \cup Revisions[f] : r.size \in Nat
  /\ \A b \in Builds : FilesAre(b.files)
  /\ \A selected \in Selections : selected \in Seq(ToSet(selected))
  /\ \A plan \in Plans : FilesAre(plan.segments)
  /\ \A m \in Manifests :
       /\ Listing(m.segments)
       /\ \A n \in DOMAIN m.segments :
            LET part == m.segments[n]
            IN part.size \in Nat /\ part.sha256 \in Seq(ToSet(part.sha256))
  /\ \A b \in Boards : /\ Kind[b].capacity \in Nat \ {0}
                       /\ RoundDown(Kind[b].capacity, Sector) = Kind[b].capacity

VARIABLES
  disk,      \* Cli's files
  client,    \* [pc, plan, prepared, manifest, tries, why]
  staged,    \* the upload handler of each client: none, or the parts it has
  ops,       \* the operation of each client's key
  worker,    \* of each attachment: [pc, op, holds, proto, at, from, seen, before]
  usb,       \* [board, attached, leased, wired, pending, incoming]
  boards,    \* [cells, mode, run, said]
  used       \* edits and faults so far

vars == <<disk, client, staged, ops, worker, usb, boards, used>>
clientVars == <<disk, client, staged>>
hardware == <<worker, usb, boards>>

NoOp == [status |-> "none"]
Nothing == [nothing |-> TRUE]
NewClient == [pc |-> "start", plan |-> Nothing, prepared |-> Nothing, manifest |-> Nothing,
              tries |-> 0, why |-> "none"]
Closed == [open |-> FALSE]

IdleWorker == [pc |-> "idle", op |-> "none", holds |-> FALSE, proto |-> FALSE, at |-> 0,
               from |-> <<0, 0>>, seen |-> <<>>, before |-> <<>>]
Attachment(b) == [board |-> b, attached |-> b # NoBoard, leased |-> FALSE,
                  wired |-> b # NoBoard, pending |-> <<>>, incoming |-> <<>>]

Init ==
  /\ disk = FirstDisk
  /\ client = [c \in Clients |-> NewClient]
  /\ staged = [c \in Clients |-> Closed]
  /\ ops = [c \in Clients |-> NoOp]
  /\ worker = [d \in Devices |-> IdleWorker]
  /\ \E b \in Boards :
       /\ usb = [d \in Devices |-> Attachment(IF d = 1 THEN b ELSE NoBoard)]
       /\ boards = [x \in Boards |->
            [cells |-> [i \in 0 .. Kind[x].capacity - 1 |-> <<"old", i>>],
             mode |-> IF x = b THEN "app" ELSE "off", run |-> 1, said |-> 0]]
  /\ used = [edit |-> 0, fault |-> 0]

Fault == used["fault"] < MaxFaults /\ used' = [used EXCEPT !["fault"] = @ + 1]

-----------------------------------------------------------------------------
(* The command line client: load, preflight, and the form of each attempt.  *)

Proceed(c, pc) == client' = [client EXCEPT ![c].pc = pc]

\* What it had is of interest as long as an operation was made of it.
GiveUp(c, why) ==
  LET had == IF ops[c] = NoOp THEN NewClient ELSE client[c]
  IN client' = [client EXCEPT ![c] = [had EXCEPT !.pc = "failed", !.why = why]]
At(c, pc) == client[c].pc = pc

(* load, first half: the manifest of a build, or a plan file.               *)
Load ==
  /\ At(Cli, "start")
  /\ \E plan \in {Import(b, s, disk) : b \in Builds, s \in Selections} \cup Plans :
       IF Ok(plan) THEN client' = [client EXCEPT ![Cli].pc = "loaded", ![Cli].plan = plan]
       ELSE GiveUp(Cli, "import")
  /\ UNCHANGED <<disk, staged, ops, hardware, used>>

(* load, second half: prepare and validate; then resolve_device, from_plan. *)
Preflight ==
  /\ At(Cli, "loaded")
  /\ LET prepared == Prepare(client[Cli].plan, disk) IN
     \E d \in Devices :
       /\ usb[d].attached
       /\ LET manifest == Manifest(d, prepared) IN
          IF Ok(prepared) /\ Validate(prepared) /\ Ok(manifest)
            THEN client' = [client EXCEPT ![Cli].pc = "ready", ![Cli].prepared = prepared,
                                           ![Cli].manifest = manifest]
          ELSE GiveUp(Cli, "preflight")
  /\ UNCHANGED <<disk, staged, ops, hardware, used>>

(* A client of the API brings a manifest and data of its own.               *)
BringManifest(c) ==
  /\ c # Cli /\ At(c, "start")
  /\ \E m \in Manifests : client' = [client EXCEPT ![c].pc = "ready", ![c].manifest = m]
  /\ UNCHANGED <<disk, staged, ops, hardware, used>>

\* Which file has that part: flash_form finds it by its offset.
FileOf(part) ==
  LET segments == client[Cli].plan.segments
      n == CHOOSE m \in DOMAIN segments : segments[m].offset = part.offset
  IN segments[n].file

(* flash_form, and the metadata part: the files' sizes are looked at anew   *)
(* for each attempt; validate is the daemon's first answer.                 *)
OpenForm(c) ==
  /\ At(c, "ready")
  /\ LET parts == client[c].manifest.segments IN
     IF c = Cli /\ \E n \in DOMAIN parts : disk[FileOf(parts[n])].size # parts[n].size
       THEN GiveUp(c, "file changed") /\ UNCHANGED staged
     ELSE IF ~Admissible(client[c].manifest)
       THEN GiveUp(c, "metadata") /\ UNCHANGED staged
     ELSE /\ client' = [client EXCEPT ![c].pc = "sending", ![c].tries = @ + 1]
          /\ staged' = [staged EXCEPT ![c] = [open |-> TRUE, parts |-> <<>>]]
  /\ UNCHANGED <<disk, ops, hardware, used>>

-----------------------------------------------------------------------------
(* server.rs, flash: the parts are staged one by one, each once, and what   *)
(* the file holds by now is what is sent.                                   *)

Received(c) == staged[c].parts
Close(c) == staged' = [staged EXCEPT ![c] = Closed]

Part(c, n, data) ==
  IF n \notin DOMAIN Received(c) /\ Announced(client[c].manifest.segments[n], data)
    THEN /\ staged' = [staged EXCEPT ![c].parts =
              [m \in DOMAIN @ \cup {n} |-> IF m = n THEN data ELSE @[m]]]
         /\ UNCHANGED client
  ELSE GiveUp(c, "part") /\ Close(c)

SendPart(c) ==
  /\ At(c, "sending") /\ staged[c].open
  /\ LET parts == client[c].manifest.segments IN
     IF c = Cli
       THEN /\ Len(Received(c)) < Len(parts)
            /\ LET n == Len(Received(c)) + 1 IN Part(c, n, Data(disk[FileOf(parts[n])]))
     ELSE \E n \in DOMAIN parts, file \in Parts : Part(c, n, Data(file))
  /\ UNCHANGED <<disk, ops, hardware, used>>

(* submit, for an exclusive action: a known key is answered with its        *)
(* operation; otherwise the device must be there and have no operation.     *)
Busy(d) == \E c \in Clients : ops[c].status \in {"queued", "running"} /\ ops[c].device = d

Submit(c, d, action) ==
  IF ops[c] # NoOp THEN Proceed(c, "accepted") /\ UNCHANGED ops
  ELSE IF ~usb[d].attached THEN GiveUp(c, "unavailable") /\ UNCHANGED ops
  ELSE IF Busy(d) THEN GiveUp(c, "device_busy") /\ UNCHANGED ops
  ELSE /\ Proceed(c, "accepted")
       /\ ops' = [ops EXCEPT ![c] =
            [status |-> "queued", device |-> d, action |-> action, why |-> "none"]]

(* The body ends: all parts must be there, and the plan they make valid.    *)
EndBody(c) ==
  /\ At(c, "sending") /\ staged[c].open
  /\ LET manifest == client[c].manifest
         prepared == IntoPlan(manifest, Received(c))
     IN /\ c = Cli => Len(Received(c)) = Len(manifest.segments)
        /\ IF ~Ok(prepared) \/ ~Validate(prepared) THEN GiveUp(c, "plan") /\ UNCHANGED ops
           ELSE Submit(c, manifest.device, [kind |-> "flash", plan |-> prepared])
  /\ Close(c)
  /\ UNCHANGED <<disk, hardware, used>>

(* The other exclusive requests, with their validation.                     *)
Request(c) ==
  /\ c # Cli /\ At(c, "start")
  /\ \E r \in Requests, d \in Devices :
       IF r.kind = "read" /\ ~Readable(r.offset, r.size)
         THEN GiveUp(c, "request") /\ UNCHANGED ops
       ELSE Submit(c, d, r)
  /\ UNCHANGED <<disk, staged, hardware, used>>

(* The connection breaks, before or after the daemon has accepted: the      *)
(* client opens its files again and posts once more under the same key.     *)
Lose(c) ==
  /\ client[c].pc \in {"sending", "accepted"} /\ client[c].tries > 0
  /\ Fault
  /\ IF client[c].tries < 2 THEN Proceed(c, "ready") ELSE GiveUp(c, "lost")
  /\ Close(c)
  /\ UNCHANGED <<disk, ops, hardware>>

(* A file changes while the client still has it to read.                    *)
Edit ==
  /\ used["edit"] < MaxEdits
  /\ client[Cli].pc \in {"start", "loaded", "ready", "sending"}
  /\ \E f \in DOMAIN disk : \E r \in Revisions[f] :
       disk[f] # r /\ disk' = [disk EXCEPT ![f] = r]
  /\ used' = [used EXCEPT !["edit"] = @ + 1]
  /\ UNCHANGED <<client, staged, ops, hardware>>

-----------------------------------------------------------------------------
(* The worker of an attachment, and what it holds.                          *)

Live(d) == usb[d].attached /\ usb[d].wired
Board(d) == boards[usb[d].board]
Op(d) == ops[worker[d].op]
Action(d) == Op(d).action
Doing(d, pc) == worker[d].pc = pc

SetPc(d, pc) == worker' = [worker EXCEPT ![d].pc = pc]
Goto(d, pc) == SetPc(d, pc) /\ UNCHANGED <<usb, ops>>
Started(board) == [board EXCEPT !.mode = "app", !.run = @ + 1, !.said = 0]
SetCells(d, cells) == boards' = [boards EXCEPT ![usb[d].board].cells = cells]

\* Mutant: an error between the swap and the end of open forgets the lease.
DroppedForgetful(d) ==
  [usb[d] EXCEPT !.leased = @ /\ ~worker[d].holds, !.pending = <<>>, !.incoming = <<>>]

\* Drop of UsbIo: the endpoints first, then the Lease.
Dropped(d) == [usb[d] EXCEPT !.leased = FALSE, !.pending = <<>>, !.incoming = <<>>]

(* The job's closure returns an error: whatever it held is dropped, and the *)
(* chip is left as it is.                                                   *)
Fail(d, why) ==
  /\ worker' = [worker EXCEPT ![d] = IdleWorker]
  /\ usb' = [usb EXCEPT ![d] = Dropped(d)]
  /\ ops' = [ops EXCEPT ![worker[d].op] = [@ EXCEPT !.status = "failed", !.why = why]]

(* I/O of a step: it can fail, and does so on what is not there any more.   *)
Broken(d) == (Live(d) /\ Fault) \/ (~Live(d) /\ UNCHANGED used)

(* The next job: the monitor's port is dropped before the chip is opened.   *)
TakeJob(d) ==
  /\ Doing(d, "idle")
  /\ \E c \in Clients :
       /\ ops[c].status = "queued" /\ ops[c].device = d
       /\ worker' = [worker EXCEPT ![d] = [IdleWorker EXCEPT !.pc = "open", !.op = c, !.at = 1]]
       /\ ops' = [ops EXCEPT ![c] = [@ EXCEPT !.status = "running"]]
  /\ usb' = [usb EXCEPT ![d] = Dropped(d)]
  /\ UNCHANGED <<clientVars, boards, used>>

(* AndroidUsbBackend::open, as far as the lease.                            *)
Lease(d) ==
  /\ Doing(d, "open")
  /\ IF ~usb[d].attached THEN Fail(d, "disconnected")
     ELSE IF usb[d].leased THEN Fail(d, "already has an owner")
     ELSE /\ usb' = [usb EXCEPT ![d].leased = TRUE]
          /\ SetPc(d, "claim")
          /\ UNCHANGED ops
  /\ UNCHANGED <<clientVars, boards, used>>

\* usbfs lets one descriptor claim an interface.
Claimed(d) == \E x \in Devices \ {d} :
  worker[x].holds /\ usb[x].wired /\ usb[x].board = usb[d].board

NeedsLoader(d) == Action(d).kind \in {"flash", "read", "erase", "probe"}

(* The rest of open.  The board's output is heard from here on.             *)
Claim(d) ==
  /\ Doing(d, "claim")
  /\ \/ /\ usb[d].wired /\ ~Claimed(d)
        /\ worker' = [worker EXCEPT ![d].pc = IF NeedsLoader(d) THEN "connect" ELSE "baud",
                                    ![d].holds = TRUE,
                                    ![d].from = <<Board(d).run, Board(d).said>>,
                                    ![d].before = Board(d).cells]
        /\ UNCHANGED <<usb, ops, used>>
     \/ (IF Claimed(d) THEN UNCHANGED used ELSE Broken(d)) /\ Fail(d, "claim")
  /\ UNCHANGED <<clientVars, boards>>

-----------------------------------------------------------------------------
(* flashing.rs: with_flasher, and the work of each operation.  Where a step *)
(* fails, the connection is recovered, and dropped with the session.        *)

IoFails(d) ==
  /\ worker[d].pc \in {"connect", "check", "erase", "write", "read", "wipe",
                       "baud", "clear", "reset"}
  /\ Broken(d)
  /\ Fail(d, "io")
  /\ UNCHANGED <<clientVars, boards>>

Proto == <<0, 0>>
Replies == {<<>>, <<Proto>>}

(* Flasher::try_connect: the chip is reset into its loader and synchronized;*)
(* replies beyond the one awaited stay behind, in the driver or, once       *)
(* bytes_to_read has looked, in `pending`.                                  *)
Connect(d) ==
  /\ Doing(d, "connect") /\ Live(d)
  /\ boards' = [boards EXCEPT ![usb[d].board].mode = "loader"]
  /\ LET fits == Action(d).kind = "flash" => Action(d).plan.chip = Kind[usb[d].board].chip IN
     IF fits
       THEN /\ worker' = [worker EXCEPT ![d].pc = "check", ![d].proto = TRUE]
            /\ \E p, q \in Replies : usb' = [usb EXCEPT ![d].pending = p, ![d].incoming = q]
            /\ UNCHANGED ops
     ELSE Fail(d, "chip")
  /\ UNCHANGED <<clientVars, used>>

(* What each operation asks of the chip before it touches it.               *)
Suits(action, kind) ==
  CASE action.kind = "flash" -> ~kind.secure /\ FitsBoard(action.plan, kind.capacity)
    [] action.kind = "read"  -> action.offset + action.size <= kind.capacity
    [] action.kind = "erase" -> ~kind.secure
    [] OTHER -> TRUE

Check(d) ==
  /\ Doing(d, "check") /\ Live(d)
  /\ LET next == [flash |-> "erase", read |-> "read", erase |-> "wipe", probe |-> "baud"] IN
     IF Suits(Action(d), Kind[usb[d].board]) THEN Goto(d, next[Action(d).kind])
     ELSE Fail(d, "unsuitable")
  /\ UNCHANGED <<clientVars, boards, used>>

Segment(d) == Action(d).plan.segments[worker[d].at]

\* An address behind the end of the chip comes out at its beginning.
Cells(d, addresses) == {a % Kind[usb[d].board].capacity : a \in addresses}

(* write_bins_to_flash, segment by segment.                                 *)
EraseSegment(d) ==
  /\ Doing(d, "erase") /\ Live(d)
  /\ LET gone == Cells(d, Erased(Segment(d).offset, Len(Segment(d).data))) IN
     SetCells(d, [a \in DOMAIN Board(d).cells |-> IF a \in gone THEN Blank ELSE Board(d).cells[a]])
  /\ Goto(d, "write")
  /\ UNCHANGED <<clientVars, used>>

WriteSegment(d) ==
  /\ Doing(d, "write") /\ Live(d)
  /\ LET s == Segment(d)
         put == Cells(d, s.offset .. s.offset + Len(s.data) - 1)
         byte(a) == s.data[((a - s.offset) % Kind[usb[d].board].capacity) + 1]
     IN SetCells(d, [a \in DOMAIN Board(d).cells |->
                      IF a \in put THEN byte(a) ELSE Board(d).cells[a]])
  /\ IF worker[d].at < Len(Action(d).plan.segments)
       THEN worker' = [worker EXCEPT ![d].pc = "erase", ![d].at = @ + 1]
     ELSE SetPc(d, "baud")
  /\ UNCHANGED <<clientVars, usb, ops, used>>

ReadFlash(d) ==
  /\ Doing(d, "read") /\ Live(d)
  /\ Goto(d, "baud")
  /\ UNCHANGED <<clientVars, boards, used>>

Succeed(d) == ops' = [ops EXCEPT ![worker[d].op] = [@ EXCEPT !.status = "succeeded"]]

(* erase_flash leaves the chip in its loader and returns without a monitor. *)
EraseChip(d) ==
  /\ Doing(d, "wipe") /\ Live(d)
  /\ SetCells(d, [a \in DOMAIN Board(d).cells |-> Blank])
  /\ worker' = [worker EXCEPT ![d] = IdleWorker]
  /\ usb' = [usb EXCEPT ![d] = Dropped(d)]
  /\ Succeed(d)
  /\ UNCHANGED <<clientVars, used>>

-----------------------------------------------------------------------------
(* into_monitor and prepare_monitor.                                        *)

Resets(d) == Action(d).kind # "monitor"

(* The operation has succeeded, and its port is the worker's reader.        *)
Monitor(d, from) ==
  /\ worker' = [worker EXCEPT ![d] = [IdleWorker EXCEPT !.holds = TRUE, !.from = from]]
  /\ Succeed(d)

SetBaud(d) ==
  /\ Doing(d, "baud") /\ Live(d)
  /\ IF worker[d].proto \/ Resets(d) THEN Goto(d, "clear")
     ELSE Monitor(d, worker[d].from) /\ UNCHANGED usb
  /\ UNCHANGED <<clientVars, boards, used>>

\* Mutant: only the driver's, what bytes_to_read has put aside is kept.
EmptiedDriver(io) == [io EXCEPT !.incoming = <<>>]

(* clear(Input): `pending`, and all that the driver has read by now.        *)
Emptied(io) == [io EXCEPT !.pending = <<>>, !.incoming = <<>>]

ClearInput(d) ==
  /\ Doing(d, "clear") /\ Live(d)
  /\ usb' = [usb EXCEPT ![d] = Emptied(@)]
  /\ IF Resets(d) THEN SetPc(d, "reset") /\ UNCHANGED ops
     ELSE Monitor(d, worker[d].from)
  /\ UNCHANGED <<clientVars, boards, used>>

(* release_boot_pin and reset: the firmware starts with the last of them.   *)
Reset(d) ==
  /\ Doing(d, "reset") /\ Live(d)
  /\ boards' = [boards EXCEPT ![usb[d].board] = Started(@)]
  /\ Monitor(d, <<Board(d).run + 1, 0>>)
  /\ UNCHANGED <<clientVars, usb, used>>

(* UsbIo::read by the idle worker: what was put aside, then the driver's.   *)
Listen(d) ==
  /\ Doing(d, "idle") /\ worker[d].holds /\ Live(d)
  /\ LET aside == usb[d].pending # <<>>
         heard == IF aside THEN usb[d].pending ELSE usb[d].incoming
     IN /\ heard # <<>>
        /\ worker' = [worker EXCEPT ![d].seen = @ \o heard]
        /\ usb' = [usb EXCEPT ![d] = IF aside THEN [@ EXCEPT !.pending = <<>>]
                                     ELSE [@ EXCEPT !.incoming = <<>>]]
  /\ UNCHANGED <<clientVars, ops, boards, used>>

(* A read that fails drops the port.                                        *)
LosePort(d) ==
  /\ Doing(d, "idle") /\ worker[d].holds
  /\ Broken(d)
  /\ worker' = [worker EXCEPT ![d] = IdleWorker]
  /\ usb' = [usb EXCEPT ![d] = Dropped(d)]
  /\ UNCHANGED <<clientVars, ops, boards>>

Work(d) ==
  \/ TakeJob(d) \/ Lease(d) \/ Claim(d) \/ IoFails(d) \/ Connect(d) \/ Check(d)
  \/ EraseSegment(d) \/ WriteSegment(d) \/ ReadFlash(d) \/ EraseChip(d)
  \/ SetBaud(d) \/ ClearInput(d) \/ Reset(d)
  \/ Listen(d) \/ LosePort(d)

-----------------------------------------------------------------------------
(* The boards and the cables.                                               *)

(* A firmware writes; what nobody has a port open for is lost, and left out.*)
Speak(b) ==
  /\ boards[b].mode = "app" /\ boards[b].said < MaxSaid
  /\ \E d \in Devices : usb[d].board = b /\ usb[d].wired /\ worker[d].holds
  /\ boards' = [boards EXCEPT ![b].said = @ + 1]
  /\ usb' = [d \in Devices |->
       IF usb[d].board = b /\ usb[d].wired /\ worker[d].holds
         THEN [usb[d] EXCEPT !.incoming = Append(@, <<boards[b].run, boards[b].said + 1>>)]
       ELSE usb[d]]
  /\ UNCHANGED <<clientVars, ops, worker, used>>

Unplug(b) ==
  /\ boards[b].mode # "off"
  /\ Fault
  /\ usb' = [d \in Devices |-> IF usb[d].board = b THEN [usb[d] EXCEPT !.wired = FALSE]
                               ELSE usb[d]]
  /\ boards' = [boards EXCEPT ![b].mode = "off"]
  /\ UNCHANGED <<clientVars, ops, worker>>

(* AndroidUsbBackend::attach: every descriptor gets an identity of its own, *)
(* also that of a board still in use through the one before, detached by    *)
(* now.                                                                     *)
Attach(d, b) ==
  /\ usb[d].board = NoBoard
  /\ \A x \in 1 .. d - 1 : usb[x].board # NoBoard /\ ~Live(x)
  /\ usb' = [usb EXCEPT ![d] = Attachment(b)]
  /\ boards' = IF boards[b].mode # "off" THEN boards
               ELSE [boards EXCEPT ![b] = Started(@)]
  /\ UNCHANGED <<clientVars, ops, worker, used>>

(* AndroidUsbBackend::detach, also without the board being unplugged.       *)
Detach(d) ==
  /\ usb[d].attached
  /\ Fault
  /\ usb' = [usb EXCEPT ![d].attached = FALSE]
  /\ UNCHANGED <<clientVars, ops, worker, boards>>

Next ==
  \/ Load \/ Preflight \/ Edit
  \/ \E c \in Clients : BringManifest(c) \/ OpenForm(c) \/ SendPart(c) \/ EndBody(c)
                        \/ Request(c) \/ Lose(c)
  \/ \E d \in Devices : Work(d) \/ Detach(d) \/ \E b \in Boards : Attach(d, b)
  \/ \E b \in Boards : Speak(b) \/ Unplug(b)

Spec == Init /\ [][Next]_vars

(* Threads run; users, files, cables and firmware do what they like.        *)
FairSpec == Spec /\ \A d \in Devices : WF_vars(Work(d))

-----------------------------------------------------------------------------
(* Properties. *)

(* What the client has checked and hashed is what the daemon plans,         *)
(* whatever becomes of the files meanwhile; and without a change of a file, *)
(* it is not turned down for what preflight has checked.                    *)
PreflightHolds ==
  /\ ops[Cli] # NoOp => ops[Cli].action.plan = client[Cli].prepared
  /\ client[Cli].why \notin {"metadata", "plan"}
  /\ client[Cli].why \in {"part", "file changed"} => used["edit"] > 0

Handoff == {"baud", "clear", "reset"}

(* The chip that is handed to the monitor, and so started, has every        *)
(* segment as announced, none spoiled by a neighbour, and the rest as it    *)
(* was but for the sectors that had to be erased.                           *)
WrittenAsPlanned ==
  \A d \in Devices :
    (worker[d].pc \in Handoff /\ Action(d).kind = "flash" /\ Live(d)) =>
      LET parts == client[worker[d].op].manifest.segments
          cells == Board(d).cells
          length(n) == RoundUp(parts[n].size, Align)
      IN /\ \A n \in DOMAIN parts : \A i \in 1 .. parts[n].size :
              LET a == parts[n].offset + i - 1
              IN a \in DOMAIN cells /\ cells[a] = parts[n].sha256[i]
         /\ \A a \in DOMAIN cells :
              (\A n \in DOMAIN parts : a \notin Erased(parts[n].offset, length(n))) =>
                cells[a] = worker[d].before[a]

(* load, flash_form, flash, Session::flash: from the files the client read  *)
(* to the chip that is started, nothing changes what is flashed; a file     *)
(* that changes after preflight ends the flash instead.                     *)
FlashIsFaithful == PreflightHolds /\ WrittenAsPlanned

(* A port opened or started at first = <<run, said>> has delivered in order *)
(* all that its firmware wrote since, behind bytes of earlier runs only.    *)
Heard(stream, first, run, said) ==
  LET old == Len(stream) - (said - first[2]) IN
  /\ first[1] = run /\ old \in 0 .. Len(stream)
  /\ \A i \in 1 .. Len(stream) :
       IF i <= old THEN stream[i][1] \in 1 .. run - 1
       ELSE stream[i] = <<run, first[2] + i - old>>

(* prepare_monitor: the reader of a port that works gets all that the       *)
(* firmware has written since it was started, or since the port was opened  *)
(* if it was not, in order; and nothing of the loader's protocol.           *)
HandoffIsClean ==
  \A d \in Devices :
    (worker[d].pc = "idle" /\ worker[d].holds /\ Live(d)) =>
      Heard(worker[d].seen \o usb[d].pending \o usb[d].incoming, worker[d].from,
            Board(d).run, Board(d).said)

(* Lease, with_flasher: on whichever path an operation ends, its worker     *)
(* comes back, with a reader or with a port that can be leased again, and   *)
(* no operation is ever turned away by a lease nobody has.                  *)
PortComesBack ==
  /\ []<>(\A d \in Devices :
           worker[d].pc = "idle" /\ ~Busy(d) /\ (usb[d].leased <=> worker[d].holds))
  /\ [](\A c \in Clients : ops[c] # NoOp => ops[c].why # "already has an owner")
=============================================================================
