-------------------------- MODULE FlashSessionProofs --------------------------
(***************************************************************************)
(* The monitor that follows an operation hears the firmware it has started *)
(* from its first byte, in order, and nothing that was on the wire before  *)
(* its loader was left; and the chip that is started has every part of     *)
(* what the client has checked, where it was announced, and the rest as it *)
(* was.  Both for any boards, attachments, files, requests and bounds.     *)
(***************************************************************************)
EXTENDS FlashSession, SequenceLemmas, TLAPS

-----------------------------------------------------------------------------
(* The parts of a state, each with its fields. *)

WorkerIs(w) ==
  w = [pc |-> w.pc, op |-> w.op, holds |-> w.holds, proto |-> w.proto, at |-> w.at,
       from |-> w.from, seen |-> w.seen, before |-> w.before]
UsbIs(u) ==
  u = [board |-> u.board, attached |-> u.attached, leased |-> u.leased, wired |-> u.wired,
       pending |-> u.pending, incoming |-> u.incoming]
OpIs(o) == o = [status |-> o.status, device |-> o.device, action |-> o.action, why |-> o.why]
BoardIs(b) ==
  /\ b = [cells |-> b.cells, mode |-> b.mode, run |-> b.run, said |-> b.said]
  /\ b.run \in Nat \ {0} /\ b.said \in Nat

Bytes == Nat \X Nat

-----------------------------------------------------------------------------
(* An attachment, its worker and the board. *)

(* These places are before the port is claimed, and these are passed only   *)
(* by operations that reset the chip.                                       *)
Opening == {"open", "claim"}
LoaderKinds == {"flash", "read", "erase", "probe"}
ForReset == {"connect", "check", "erase", "write", "read", "wipe", "clear", "reset"}

(* What the worker has says where it is.                                    *)
Placed(w, u, kind) ==
  /\ w.pc \in {"idle", "baud"} \cup Opening \cup ForReset
  /\ w.pc \in Opening => ~w.holds
  /\ w.pc # "idle" => w.seen = <<>>
  /\ w.pc = "idle" => ~w.proto
  /\ w.pc \notin Opening \cup {"idle"} => w.holds
  /\ w.pc \in ForReset \/ w.proto => kind # "monitor"
  /\ w.pc \in {"connect", "check"} => kind \in LoaderKinds
  /\ w.holds => u.board # NoBoard
  /\ ~w.holds => u.pending = <<>> /\ u.incoming = <<>>

(* Where what is heard already is what the reader will get.                 *)
Listening(w, kind) == w.holds /\ (w.pc = "idle" \/ (w.pc = "baud" /\ kind = "monitor"))

(* Between clear and reset a firmware that runs may still be heard.         *)
Streams(w, u, b, kind) ==
  /\ Listening(w, kind) => Heard(w.seen \o u.pending \o u.incoming, w.from, b.run, b.said)
  /\ w.pc = "reset" =>
       /\ u.pending = <<>>
       /\ \A i \in 1 .. Len(u.incoming) : u.incoming[i][1] \in 1 .. b.run

Here(u) == u.attached /\ u.wired

Sound(w, u, b, kind) ==
  /\ WorkerIs(w) /\ w.holds \in BOOLEAN /\ w.proto \in BOOLEAN
  /\ w.from \in Bytes /\ w.seen \in Seq(Bytes)
  /\ UsbIs(u) /\ u.board \in Boards \cup {NoBoard}
  /\ u.attached \in BOOLEAN /\ u.wired \in BOOLEAN
  /\ u.pending \in Seq(Bytes) /\ u.incoming \in Seq(Bytes)
  /\ u.attached \/ u.wired => u.board # NoBoard
  /\ Placed(w, u, kind)
  /\ Here(u) => Streams(w, u, b, kind)

KindOf(d) == ops[worker[d].op].action.kind

(* Every job is of an operation that was asked for.                         *)
Asked(c) == c \in Clients /\ ops[c] # NoOp
OpsKnown ==
  /\ ops = [c \in Clients |-> ops[c]]
  /\ \A c \in Clients : ops[c] # NoOp => OpIs(ops[c]) /\ ops[c].status # "none"

(* Attachments are made in their order, and the one that works is the last. *)
InOrder ==
  \A d \in Devices : \A x \in Devices :
    x < d /\ usb[d].board # NoBoard => usb[x].board # NoBoard /\ ~Live(x)

HandoffInv ==
  /\ worker = [d \in Devices |-> worker[d]] /\ usb = [d \in Devices |-> usb[d]]
  /\ boards = [b \in Boards |-> boards[b]] /\ \A b \in Boards : BoardIs(boards[b])
  /\ OpsKnown /\ InOrder
  /\ \A d \in Devices :
       /\ Sound(worker[d], usb[d], Board(d), KindOf(d))
       /\ worker[d].pc # "idle" => Asked(worker[d].op)

-----------------------------------------------------------------------------
(* What a stream holds. *)

LEMMA HeardNothing ==
  ASSUME NEW run, NEW said \in Nat PROVE Heard(<<>>, <<run, said>>, run, said)
BY DEF Heard

LEMMA HeardMore ==
  ASSUME NEW s \in Seq(Bytes), NEW first \in Bytes, NEW run \in Nat, NEW said \in Nat,
         Heard(s, first, run, said)
  PROVE  Heard(Append(s, <<run, said + 1>>), first, run, said + 1)
<1>1. PICK from \in Nat : from = first[2]
  BY DEF Bytes
<1>2. PICK len \in Nat : len = Len(s)
  OBVIOUS
<1>3. PICK old \in 0 .. len : old = len - (said - from)
  BY <1>1, <1>2 DEF Heard
<1>4. /\ first[1] = run
      /\ \A i \in 1 .. len : IF i <= old THEN s[i][1] \in 1 .. run - 1
                             ELSE s[i] = <<run, from + i - old>>
  BY <1>1, <1>2, <1>3 DEF Heard
<1>5. PICK t : t = Append(s, <<run, said + 1>>)
  OBVIOUS
<1>6. Len(t) = len + 1 /\ t[len + 1] = <<run, said + 1>> /\ \A i \in 1 .. len : t[i] = s[i]
  BY <1>2, <1>5 DEF Bytes
<1>7. old = (len + 1) - ((said + 1) - from) /\ old \in 0 .. len + 1 /\ said + 1 = from + (len + 1) - old
  BY <1>3
<1>8. ASSUME NEW i \in 1 .. len + 1
      PROVE  IF i <= old THEN t[i][1] \in 1 .. run - 1 ELSE t[i] = <<run, from + i - old>>
  <2>1. CASE i \in 1 .. len
    BY <1>4, <1>6, <2>1
  <2>2. CASE i = len + 1
    <3>1. ~(i <= old)
      BY <1>3, <2>2
    <3> QED BY <1>6, <1>7, <2>2, <3>1
  <2> QED BY <2>1, <2>2
<1>9. Heard(t, first, run, said + 1)
  BY <1>1, <1>4, <1>6, <1>7, <1>8 DEF Heard
<1> QED BY <1>5, <1>9

LEMMA HeardAnew ==
  ASSUME NEW s \in Seq(Bytes), NEW run \in Nat, \A i \in 1 .. Len(s) : s[i][1] \in 1 .. run
  PROVE  Heard(s, <<run + 1, 0>>, run + 1, 0)
<1>1. Len(s) - (0 - 0) = Len(s) /\ (run + 1) - 1 = run /\ Len(s) \in 0 .. Len(s)
  OBVIOUS
<1> QED BY <1>1 DEF Heard

LEMMA ConcatAppend ==
  ASSUME NEW S, NEW s \in Seq(S), NEW t \in Seq(S), NEW e \in S
  PROVE  s \o Append(t, e) = Append(s \o t, e)
OBVIOUS

LEMMA ConcatEmpty ==
  ASSUME NEW S, NEW s \in Seq(S) PROVE s \o <<>> = s /\ <<>> \o s = s
OBVIOUS

-----------------------------------------------------------------------------
(* What an attachment keeps. *)

(* Only what the firmware of a working attachment said matters of a board.  *)
LEMMA SoundStays ==
  ASSUME NEW w, NEW u, NEW b, NEW kind, Sound(w, u, b, kind), NEW c, NEW other,
         w.pc # "idle" => other = kind,
         Here(u) => c.run = b.run /\ c.said = b.said
  PROVE  Sound(w, u, c, other)
<1>1. Placed(w, u, other)
  BY DEF Sound, Placed, Opening, ForReset
<1>2. Here(u) => Streams(w, u, c, other)
  <2>1. SUFFICES ASSUME Here(u) PROVE Streams(w, u, c, other)
    OBVIOUS
  <2>2. Streams(w, u, b, kind) /\ c.run = b.run /\ c.said = b.said
    BY <2>1 DEF Sound
  <2>3. Listening(w, other) <=> Listening(w, kind)
    BY DEF Listening
  <2> QED BY <2>2, <2>3 DEF Streams
<1> QED BY <1>1, <1>2 DEF Sound

LEMMA IdleIs ==
  /\ WorkerIs(IdleWorker) /\ IdleWorker.pc = "idle" /\ IdleWorker.seen = <<>>
  /\ IdleWorker.holds = FALSE /\ IdleWorker.proto = FALSE /\ IdleWorker.from = <<0, 0>>
BY DEF IdleWorker, WorkerIs

(* An attachment whose port was dropped.                                    *)
LEMMA DroppedIs ==
  ASSUME NEW d \in Devices, UsbIs(usb[d]), NEW u, u = Dropped(d)
  PROVE  /\ UsbIs(u) /\ u.board = usb[d].board /\ u.attached = usb[d].attached
         /\ u.wired = usb[d].wired /\ u.pending = <<>> /\ u.incoming = <<>>
<1>1. u = [board |-> usb[d].board, attached |-> usb[d].attached, leased |-> FALSE,
           wired |-> usb[d].wired, pending |-> <<>>, incoming |-> <<>>]
  BY DEF Dropped, UsbIs
<1> QED BY <1>1 DEF UsbIs

LEMMA SoundDropped ==
  ASSUME NEW d \in Devices, NEW w, NEW b, NEW kind, Sound(w, usb[d], b, kind),
         NEW u, u = Dropped(d), NEW v, WorkerIs(v), v.pc \in {"idle", "open"}, v.seen = <<>>,
         v.holds = FALSE, v.proto = FALSE, v.from = <<0, 0>>, NEW c, NEW other
  PROVE  Sound(v, u, c, other)
<1>1. /\ UsbIs(u) /\ u.board = usb[d].board /\ u.attached = usb[d].attached
      /\ u.wired = usb[d].wired /\ u.pending = <<>> /\ u.incoming = <<>>
  BY DroppedIs DEF Sound
<1>2. Placed(v, u, other)
  BY <1>1 DEF Placed, Opening, ForReset
<1>3. Streams(v, u, c, other)
  BY DEF Streams, Listening
<1>4. v.from \in Bytes /\ v.seen \in Seq(Bytes) /\ u.pending \in Seq(Bytes) /\ u.incoming \in Seq(Bytes)
  BY <1>1 DEF Bytes
<1> QED BY <1>1, <1>2, <1>3, <1>4 DEF Sound

-----------------------------------------------------------------------------
(* The operations. *)

Later(c) == c \in Clients /\ ops'[c] # NoOp
ActionsStay == \A c : Asked(c) => Later(c) /\ ops'[c].action = ops[c].action

LEMMA OpsSame == ASSUME OpsKnown, ops' = ops PROVE OpsKnown' /\ ActionsStay
BY DEF OpsKnown, ActionsStay, Asked, Later

LEMMA OpsSet ==
  ASSUME OpsKnown, NEW c \in Clients, NEW o, OpIs(o), o.status # "none",
         ops[c] # NoOp => o.action = ops[c].action, ops' = [ops EXCEPT ![c] = o]
  PROVE  OpsKnown' /\ ActionsStay
<1>1. o # NoOp
  BY DEF NoOp
<1>2. ops'[c] = o /\ \A x \in Clients : x # c => ops'[x] = ops[x]
  BY DEF OpsKnown
<1>3. ops' = [x \in Clients |-> ops'[x]]
  BY DEF OpsKnown
<1> QED BY <1>1, <1>2, <1>3 DEF OpsKnown, ActionsStay, Asked, Later

(* An operation that was asked for comes to another status.                 *)
LEMMA OpsStatus ==
  ASSUME OpsKnown, NEW c, Asked(c), NEW status, status # "none", NEW why,
         ops' = [ops EXCEPT ![c] = [@ EXCEPT !.status = status, !.why = why]]
  PROVE  OpsKnown' /\ ActionsStay
<1>1. c \in Clients /\ OpIs(ops[c]) /\ c \in DOMAIN ops
  BY DEF OpsKnown, Asked
<1>2. PICK o : o = [ops[c] EXCEPT !.status = status, !.why = why]
  OBVIOUS
<1>3. o = [status |-> status, device |-> ops[c].device, action |-> ops[c].action, why |-> why]
  BY <1>1, <1>2 DEF OpIs
<1>4. OpIs(o) /\ o.status = status /\ o.action = ops[c].action
  BY <1>3 DEF OpIs
<1>5. ops' = [ops EXCEPT ![c] = o]
  BY <1>2
<1> QED BY <1>1, <1>4, <1>5, OpsSet

LEMMA OpsStatusOnly ==
  ASSUME OpsKnown, NEW c, Asked(c), NEW status, status # "none",
         ops' = [ops EXCEPT ![c] = [@ EXCEPT !.status = status]]
  PROVE  OpsKnown' /\ ActionsStay
<1>1. c \in Clients /\ OpIs(ops[c]) /\ c \in DOMAIN ops
  BY DEF OpsKnown, Asked
<1>2. PICK o : o = [ops[c] EXCEPT !.status = status]
  OBVIOUS
<1>3. o = [status |-> status, device |-> ops[c].device, action |-> ops[c].action, why |-> ops[c].why]
  BY <1>1, <1>2 DEF OpIs
<1>4. OpIs(o) /\ o.status = status /\ o.action = ops[c].action
  BY <1>3 DEF OpIs
<1>5. ops' = [ops EXCEPT ![c] = o]
  BY <1>2
<1> QED BY <1>1, <1>4, <1>5, OpsSet

-----------------------------------------------------------------------------
(* Of two attachments at most one works. *)

DevicesAre == \E n \in Devices : Devices = 1 .. n

LEMMA DevicesOrdered ==
  ASSUME DevicesAre, NEW d \in Devices, NEW x \in Devices, x # d PROVE x < d \/ d < x
BY DEF DevicesAre

LEMMA OneWorks ==
  ASSUME SessionAssumption, InOrder, NEW d \in Devices, NEW x \in Devices, Live(d), x # d,
         usb[d].board # NoBoard, Live(x) => usb[x].board # NoBoard
  PROVE  ~Live(x)
<1>1. x < d \/ d < x
  BY DevicesOrdered DEF SessionAssumption, DevicesAre
<1> QED BY <1>1 DEF InOrder

-----------------------------------------------------------------------------
(* A step of one worker. *)

BoardsKnown == boards = [b \in Boards |-> boards[b]] /\ \A b \in Boards : BoardIs(boards[b])
Devised ==
  \A d \in Devices :
    /\ Sound(worker[d], usb[d], Board(d), KindOf(d))
    /\ worker[d].pc # "idle" => Asked(worker[d].op)

(* Which firmwares a step of d lets go on as they are.                      *)
SameTalk(d) ==
  \A b \in Boards : \/ boards'[b].run = boards[b].run /\ boards'[b].said = boards[b].said
                    \/ Live(d) /\ usb[d].board = b

LEMMA TalkSame == ASSUME NEW d, boards' = boards PROVE SameTalk(d)
BY DEF SameTalk

(* The others go on with what they have.                                    *)
LEMMA OthersKeep ==
  ASSUME SessionAssumption, HandoffInv, NEW d \in Devices, ActionsStay, SameTalk(d),
         NEW x \in Devices, x # d, worker'[x] = worker[x], usb'[x] = usb[x]
  PROVE  /\ Sound(worker'[x], usb'[x], boards'[usb'[x].board], ops'[worker'[x].op].action.kind)
         /\ worker'[x].pc # "idle" => Later(worker'[x].op)
<1>1. /\ Sound(worker[x], usb[x], Board(x), KindOf(x)) /\ InOrder
      /\ worker[x].pc # "idle" => Asked(worker[x].op)
  BY DEF HandoffInv
<1>2. worker[x].pc # "idle" =>
        Later(worker[x].op) /\ ops'[worker[x].op].action.kind = KindOf(x)
  BY <1>1 DEF ActionsStay, KindOf
<1>3. /\ usb[x].board \in Boards \cup {NoBoard}
      /\ Here(usb[x]) => usb[x].board # NoBoard
      /\ Here(usb[d]) => usb[d].board # NoBoard
  BY <1>1 DEF HandoffInv, Sound, Here
<1>4. Here(usb[x]) => Live(x) /\ usb[x].board \in Boards
  BY <1>3 DEF Here, Live
<1>5. Live(d) => usb[d].board # NoBoard /\ (Live(x) => usb[x].board # NoBoard)
  BY <1>3 DEF Here, Live
<1>6. Live(d) => ~Live(x)
  BY <1>1, <1>5, OneWorks
<1>7. Here(usb[x]) => /\ boards'[usb[x].board].run = Board(x).run
                      /\ boards'[usb[x].board].said = Board(x).said
  BY <1>4, <1>6 DEF SameTalk, Board
<1>8. Sound(worker[x], usb[x], boards'[usb[x].board], ops'[worker[x].op].action.kind)
  BY <1>1, <1>2, <1>7, SoundStays
<1>9. worker[x].op = worker'[x].op
  OBVIOUS
<1> QED BY <1>2, <1>8, <1>9

LEMMA WorkKeeps ==
  ASSUME SessionAssumption, HandoffInv, NEW d \in Devices, NEW w, NEW u,
         worker' = [worker EXCEPT ![d] = w], usb' = [usb EXCEPT ![d] = u],
         u.board = usb[d].board, u.attached = usb[d].attached, u.wired = usb[d].wired,
         OpsKnown', ActionsStay, BoardsKnown', SameTalk(d),
         Sound(w, u, boards'[usb[d].board], ops'[w.op].action.kind),
         w.pc # "idle" => Later(w.op)
  PROVE  HandoffInv'
<1>1. /\ worker' = [x \in Devices |-> worker'[x]] /\ usb' = [x \in Devices |-> usb'[x]]
      /\ worker'[d] = w /\ usb'[d] = u
      /\ \A x \in Devices : x # d => worker'[x] = worker[x] /\ usb'[x] = usb[x]
  BY DEF HandoffInv
<1>2. \A x \in Devices : /\ usb'[x].board = usb[x].board /\ usb'[x].attached = usb[x].attached
                         /\ usb'[x].wired = usb[x].wired
  BY <1>1
<1>3. InOrder'
  BY <1>2 DEF HandoffInv, InOrder, Live
<1>4. ASSUME NEW x \in Devices
      PROVE  /\ Sound(worker'[x], usb'[x], boards'[usb'[x].board], ops'[worker'[x].op].action.kind)
             /\ worker'[x].pc # "idle" => Later(worker'[x].op)
  <2>1. CASE x = d
    BY <1>1, <2>1
  <2>2. CASE x # d
    BY <1>1, <2>2, OthersKeep
  <2> QED BY <2>1, <2>2
<1>5. Devised'
  BY <1>4 DEF Devised, Board, KindOf, Asked, Later
<1> QED BY <1>1, <1>3, <1>5 DEF HandoffInv, BoardsKnown, Devised

-----------------------------------------------------------------------------
(* What the actions of a worker do. *)

LEMMA DeviceHas ==
  ASSUME HandoffInv, NEW d \in Devices
  PROVE  /\ Sound(worker[d], usb[d], Board(d), KindOf(d))
         /\ worker[d].pc # "idle" => Asked(worker[d].op)
         /\ OpsKnown /\ BoardsKnown /\ WorkerIs(worker[d]) /\ UsbIs(usb[d])
         /\ d \in DOMAIN worker /\ d \in DOMAIN usb
BY DEF HandoffInv, Sound, BoardsKnown

LEMMA BoardsSame == ASSUME BoardsKnown, boards' = boards PROVE BoardsKnown'
BY DEF BoardsKnown, BoardIs

(* A working attachment has a board, and only that is changed.              *)
LEMMA BoardSet ==
  ASSUME HandoffInv, NEW d \in Devices, Live(d), NEW b, BoardIs(b),
         boards' = [boards EXCEPT ![usb[d].board] = b]
  PROVE  BoardsKnown' /\ SameTalk(d) /\ boards'[usb[d].board] = b
<1>1. usb[d].board \in Boards \cup {NoBoard} /\ usb[d].board # NoBoard
  BY DeviceHas DEF Sound, Live
<1>2. usb[d].board \in Boards /\ boards = [x \in Boards |-> boards[x]]
  BY <1>1 DEF HandoffInv
<1>3. boards'[usb[d].board] = b /\ \A x \in Boards : x # usb[d].board => boards'[x] = boards[x]
  BY <1>2
<1>4. boards' = [x \in Boards |-> boards'[x]]
  BY <1>2
<1>5. \A x \in Boards : BoardIs(boards'[x])
  BY <1>3 DEF HandoffInv
<1> QED BY <1>3, <1>4, <1>5 DEF BoardsKnown, SameTalk, BoardIs

LEMMA BoardHas ==
  ASSUME HandoffInv, NEW d \in Devices, Live(d)
  PROVE  BoardIs(Board(d)) /\ usb[d].board \in DOMAIN boards
<1>1. usb[d].board \in Boards \cup {NoBoard} /\ usb[d].board # NoBoard
  BY DeviceHas DEF Sound, Live
<1> QED BY <1>1 DEF HandoffInv, Board

LEMMA FailKeeps ==
  ASSUME SessionAssumption, HandoffInv, NEW d \in Devices, worker[d].pc # "idle",
         NEW why, Fail(d, why), BoardsKnown', SameTalk(d)
  PROVE  HandoffInv'
<1>1. /\ Sound(worker[d], usb[d], Board(d), KindOf(d)) /\ Asked(worker[d].op)
      /\ OpsKnown /\ BoardsKnown /\ UsbIs(usb[d])
  BY DeviceHas
<1>2. OpsKnown' /\ ActionsStay
  BY <1>1, OpsStatus DEF Fail
<1>3. PICK w, u : w = IdleWorker /\ u = Dropped(d)
  OBVIOUS
<1>4. /\ u.board = usb[d].board /\ u.attached = usb[d].attached /\ u.wired = usb[d].wired
      /\ worker' = [worker EXCEPT ![d] = w] /\ usb' = [usb EXCEPT ![d] = u]
  BY <1>1, <1>3, DroppedIs DEF Fail
<1>5. Sound(w, u, boards'[usb[d].board], ops'[w.op].action.kind) /\ w.pc = "idle"
  BY <1>1, <1>3, SoundDropped, IdleIs
<1> QED BY <1>2, <1>4, <1>5, WorkKeeps

(* The worker goes on from place to place on the way to a reset.            *)
LEMMA SoundWorks ==
  ASSUME NEW v, NEW u, NEW b, NEW kind, Sound(v, u, b, kind), kind # "monitor",
         v.pc \in ForReset \cup {"baud"}, NEW w, WorkerIs(w),
         w.pc \in ForReset \cup {"baud"}, w.pc # "reset",
         w.pc \in {"connect", "check"} => kind \in LoaderKinds, w.proto \in BOOLEAN,
         w.holds = v.holds, w.seen = v.seen, w.from = v.from, NEW c
  PROVE  Sound(w, u, c, kind)
<1>1. Placed(w, u, kind)
  BY DEF Sound, Placed, Opening, ForReset
<1>2. Streams(w, u, c, kind)
  BY DEF Streams, Listening, ForReset
<1> QED BY <1>1, <1>2 DEF Sound

LEMMA PcIs ==
  ASSUME NEW d \in Devices, WorkerIs(worker[d]), NEW pc, NEW w, w = [worker[d] EXCEPT !.pc = pc]
  PROVE  /\ WorkerIs(w) /\ w.pc = pc /\ w.op = worker[d].op /\ w.holds = worker[d].holds
         /\ w.proto = worker[d].proto /\ w.seen = worker[d].seen /\ w.from = worker[d].from
<1>1. w = [pc |-> pc, op |-> worker[d].op, holds |-> worker[d].holds, proto |-> worker[d].proto,
           at |-> worker[d].at, from |-> worker[d].from, seen |-> worker[d].seen,
           before |-> worker[d].before]
  BY DEF WorkerIs
<1> QED BY <1>1 DEF WorkerIs

(* All of these steps together: nothing but the place, and what is planned  *)
(* to be written there, changes.                                            *)
LEMMA WorksKeeps ==
  ASSUME SessionAssumption, HandoffInv, NEW d \in Devices,
         worker[d].pc \in ForReset \cup {"baud"}, KindOf(d) # "monitor",
         NEW w, WorkerIs(w), w.pc \in ForReset \cup {"baud"}, w.pc # "reset",
         w.pc \in {"connect", "check"} => KindOf(d) \in LoaderKinds,
         w.proto \in BOOLEAN, w.op = worker[d].op, w.holds = worker[d].holds,
         w.seen = worker[d].seen, w.from = worker[d].from,
         worker' = [worker EXCEPT ![d] = w], usb' = usb, ops' = ops, BoardsKnown', SameTalk(d)
  PROVE  HandoffInv'
<1>1. /\ Sound(worker[d], usb[d], Board(d), KindOf(d)) /\ Asked(worker[d].op)
      /\ OpsKnown
  BY DeviceHas DEF ForReset
<1>2. OpsKnown' /\ ActionsStay
  BY <1>1, OpsSame
<1>3. PICK u : u = usb[d]
  OBVIOUS
<1>4. usb' = [usb EXCEPT ![d] = u]
  BY <1>3 DEF HandoffInv
<1>5. Sound(w, u, boards'[usb[d].board], KindOf(d))
  BY <1>1, <1>3, SoundWorks
<1>6. ops'[w.op].action.kind = KindOf(d) /\ Later(w.op)
  BY <1>1 DEF KindOf, Asked, Later
<1> QED BY <1>2, <1>3, <1>4, <1>5, <1>6, WorkKeeps

LEMMA TakeJobKeeps ==
  ASSUME SessionAssumption, HandoffInv, NEW d \in Devices, TakeJob(d) PROVE HandoffInv'
<1>1. PICK c \in Clients :
        /\ ops[c].status = "queued"
        /\ worker' = [worker EXCEPT ![d] = [IdleWorker EXCEPT !.pc = "open", !.op = c, !.at = 1]]
        /\ ops' = [ops EXCEPT ![c] = [@ EXCEPT !.status = "running"]]
  BY DEF TakeJob
<1>2. /\ Sound(worker[d], usb[d], Board(d), KindOf(d)) /\ OpsKnown /\ BoardsKnown /\ UsbIs(usb[d])
  BY DeviceHas
<1>3. Asked(c)
  BY <1>1 DEF NoOp, Asked
<1>4. OpsKnown' /\ ActionsStay
  BY <1>1, <1>2, <1>3, OpsStatusOnly
<1>5. PICK w, u : w = [IdleWorker EXCEPT !.pc = "open", !.op = c, !.at = 1] /\ u = Dropped(d)
  OBVIOUS
<1>6. /\ WorkerIs(w) /\ w.pc = "open" /\ w.op = c /\ w.seen = <<>> /\ w.holds = FALSE
      /\ w.proto = FALSE /\ w.from = <<0, 0>>
  BY <1>5 DEF IdleWorker, WorkerIs
<1>7. /\ u.board = usb[d].board /\ u.attached = usb[d].attached /\ u.wired = usb[d].wired
      /\ worker' = [worker EXCEPT ![d] = w] /\ usb' = [usb EXCEPT ![d] = u] /\ boards' = boards
  BY <1>1, <1>2, <1>5, DroppedIs DEF TakeJob
<1>8. Sound(w, u, boards'[usb[d].board], ops'[w.op].action.kind)
  BY <1>2, <1>5, <1>6, SoundDropped
<1>9. Later(w.op) /\ BoardsKnown' /\ SameTalk(d)
  BY <1>2, <1>3, <1>4, <1>6, <1>7, BoardsSame, TalkSame DEF ActionsStay
<1> QED BY <1>4, <1>7, <1>8, <1>9, WorkKeeps

LEMMA LeaseKeeps ==
  ASSUME SessionAssumption, HandoffInv, NEW d \in Devices, Lease(d) PROVE HandoffInv'
<1>1. /\ Sound(worker[d], usb[d], Board(d), KindOf(d)) /\ OpsKnown /\ BoardsKnown
      /\ worker[d].pc = "open" /\ Asked(worker[d].op) /\ WorkerIs(worker[d]) /\ UsbIs(usb[d])
      /\ boards' = boards
  BY DeviceHas DEF Lease, Doing
<1>2. BoardsKnown' /\ SameTalk(d)
  BY <1>1, BoardsSame, TalkSame
<1>3. CASE \E why : Fail(d, why)
  BY <1>1, <1>2, <1>3, FailKeeps
<1>4. CASE usb' = [usb EXCEPT ![d].leased = TRUE] /\ SetPc(d, "claim") /\ UNCHANGED ops
  <2>1. PICK w, u : w = [worker[d] EXCEPT !.pc = "claim"] /\ u = [usb[d] EXCEPT !.leased = TRUE]
    OBVIOUS
  <2>2. /\ WorkerIs(w) /\ w.pc = "claim" /\ w.op = worker[d].op /\ w.holds = worker[d].holds
        /\ w.proto = worker[d].proto /\ w.seen = worker[d].seen /\ w.from = worker[d].from
    BY <1>1, <2>1, PcIs
  <2>3. u = [board |-> usb[d].board, attached |-> usb[d].attached, leased |-> TRUE,
             wired |-> usb[d].wired, pending |-> usb[d].pending, incoming |-> usb[d].incoming]
    BY <1>1, <2>1 DEF UsbIs
  <2>4. /\ UsbIs(u) /\ u.board = usb[d].board /\ u.attached = usb[d].attached
        /\ u.wired = usb[d].wired /\ u.pending = usb[d].pending /\ u.incoming = usb[d].incoming
    BY <2>3 DEF UsbIs
  <2>5. worker' = [worker EXCEPT ![d] = w] /\ usb' = [usb EXCEPT ![d] = u]
    BY <1>4, <2>1, DeviceHas DEF SetPc
  <2>6. OpsKnown' /\ ActionsStay
    BY <1>1, <1>4, OpsSame
  <2>7. Placed(w, u, KindOf(d))
    BY <1>1, <2>2, <2>4 DEF Sound, Placed, Opening, ForReset
  <2>8. Streams(w, u, Board(d), KindOf(d))
    BY <1>1, <2>2 DEF Sound, Placed, Opening, Streams, Listening
  <2>9. Sound(w, u, Board(d), KindOf(d))
    BY <1>1, <2>2, <2>4, <2>7, <2>8 DEF Sound
  <2>10. /\ ops'[w.op].action.kind = KindOf(d) /\ Later(w.op)
         /\ boards'[usb[d].board] = Board(d)
    BY <1>1, <1>4, <2>2 DEF KindOf, Asked, Later, Board
  <2> QED BY <1>2, <2>4, <2>5, <2>6, <2>9, <2>10, WorkKeeps
<1> QED BY <1>3, <1>4 DEF Lease

(* The board is heard from here on.                                         *)
LEMMA ClaimKeeps ==
  ASSUME SessionAssumption, HandoffInv, NEW d \in Devices, Claim(d) PROVE HandoffInv'
<1>1. /\ Sound(worker[d], usb[d], Board(d), KindOf(d)) /\ OpsKnown /\ BoardsKnown
      /\ worker[d].pc = "claim" /\ Asked(worker[d].op) /\ WorkerIs(worker[d]) /\ UsbIs(usb[d])
      /\ boards' = boards
  BY DeviceHas DEF Claim, Doing
<1>2. BoardsKnown' /\ SameTalk(d)
  BY <1>1, BoardsSame, TalkSame
<1>3. CASE Fail(d, "claim")
  BY <1>1, <1>2, <1>3, FailKeeps
<1>4. CASE /\ usb[d].wired /\ UNCHANGED <<usb, ops>>
           /\ worker' = [worker EXCEPT ![d].pc = IF NeedsLoader(d) THEN "connect" ELSE "baud",
                                       ![d].holds = TRUE,
                                       ![d].from = <<Board(d).run, Board(d).said>>,
                                       ![d].before = Board(d).cells]
  <2>1. PICK pc : pc = IF NeedsLoader(d) THEN "connect" ELSE "baud"
    OBVIOUS
  <2>2. PICK v, from, before : /\ v = worker[d] /\ from = <<Board(d).run, Board(d).said>>
                               /\ before = Board(d).cells
    OBVIOUS
  <2>3. PICK w : w = [v EXCEPT !.pc = pc, !.holds = TRUE, !.from = from, !.before = before]
    OBVIOUS
  <2>4. worker' = [worker EXCEPT ![d] = w]
    BY <1>4, <2>1, <2>2, <2>3, DeviceHas
  <2>5. /\ WorkerIs(w) /\ w.pc = pc /\ w.holds = TRUE /\ w.op = worker[d].op
        /\ w.from = <<Board(d).run, Board(d).said>> /\ w.seen = <<>> /\ w.proto = worker[d].proto
    <3>1. w = [pc |-> pc, op |-> v.op, holds |-> TRUE, proto |-> v.proto, at |-> v.at,
               from |-> from, seen |-> v.seen, before |-> before]
      <4>1. PICK x : x = [v EXCEPT !.pc = pc]
        OBVIOUS
      <4>2. x = [pc |-> pc, op |-> v.op, holds |-> v.holds, proto |-> v.proto, at |-> v.at,
                 from |-> v.from, seen |-> v.seen, before |-> v.before]
        BY <1>1, <2>2, <4>1 DEF WorkerIs
      <4>3. PICK y : y = [x EXCEPT !.holds = TRUE]
        OBVIOUS
      <4>4. y = [pc |-> pc, op |-> v.op, holds |-> TRUE, proto |-> v.proto, at |-> v.at,
                 from |-> v.from, seen |-> v.seen, before |-> v.before]
        BY <4>2, <4>3
      <4>5. PICK z : z = [y EXCEPT !.from = from]
        OBVIOUS
      <4>6. z = [pc |-> pc, op |-> v.op, holds |-> TRUE, proto |-> v.proto, at |-> v.at,
                 from |-> from, seen |-> v.seen, before |-> v.before]
        BY <4>4, <4>5
      <4>7. w = [z EXCEPT !.before = before]
        BY <2>3, <4>1, <4>3, <4>5
      <4> QED BY <4>6, <4>7
    <3>2. WorkerIs(w)
      BY <3>1 DEF WorkerIs
    <3>3. v.seen = <<>>
      BY <1>1, <2>2 DEF Sound, Placed
    <3> QED BY <2>2, <3>1, <3>2, <3>3
  <2>6. PICK u : u = usb[d]
    OBVIOUS
  <2>7. usb' = [usb EXCEPT ![d] = u]
    BY <1>4, <2>6 DEF HandoffInv
  <2>8. /\ usb[d].board # NoBoard /\ usb[d].board \in Boards
        /\ u.pending = <<>> /\ u.incoming = <<>>
    BY <1>1, <1>4, <2>6 DEF Sound, Placed, Opening
  <2>9. Board(d).run \in Nat /\ Board(d).said \in Nat
    BY <1>1, <2>8 DEF BoardsKnown, BoardIs, Board
  <2>10. pc \in {"connect", "baud"} /\ (pc = "connect" => KindOf(d) \in LoaderKinds)
    BY <2>1 DEF NeedsLoader, LoaderKinds, KindOf, Action, Op
  <2>11. Placed(w, u, KindOf(d))
    <3>1. worker[d].proto => KindOf(d) # "monitor"
      BY <1>1 DEF Sound, Placed
    <3>2. KindOf(d) \in LoaderKinds => KindOf(d) # "monitor"
      BY DEF LoaderKinds
    <3> QED BY <2>5, <2>6, <2>8, <2>10, <3>1, <3>2 DEF Placed, Opening, ForReset
  <2>12. Streams(w, u, Board(d), KindOf(d))
    <3>1. w.seen \o u.pending \o u.incoming = <<>>
      BY <2>5, <2>8
    <3>2. Heard(<<>>, w.from, Board(d).run, Board(d).said)
      BY <2>5, <2>9, HeardNothing
    <3> QED BY <2>5, <2>10, <3>1, <3>2 DEF Streams
  <2>13. w.from \in Bytes /\ w.seen \in Seq(Bytes)
    BY <2>5, <2>9 DEF Bytes
  <2>14. Sound(w, u, Board(d), KindOf(d))
    BY <1>1, <2>5, <2>6, <2>11, <2>12, <2>13 DEF Sound
  <2>15. OpsKnown' /\ ActionsStay
    BY <1>1, <1>4, OpsSame
  <2>16. /\ ops'[w.op].action.kind = KindOf(d) /\ Later(w.op)
         /\ boards'[usb[d].board] = Board(d)
    BY <1>1, <1>4, <2>5 DEF KindOf, Asked, Later, Board
  <2> QED BY <1>2, <2>4, <2>6, <2>7, <2>14, <2>15, <2>16, WorkKeeps
<1> QED BY <1>3, <1>4 DEF Claim

LEMMA IoFailsKeeps ==
  ASSUME SessionAssumption, HandoffInv, NEW d \in Devices, IoFails(d) PROVE HandoffInv'
<1>1. worker[d].pc # "idle" /\ Fail(d, "io") /\ boards' = boards /\ BoardsKnown
  BY DeviceHas DEF IoFails
<1> QED BY <1>1, FailKeeps, BoardsSame, TalkSame

LEMMA CellsIs ==
  ASSUME NEW b, BoardIs(b), NEW cells, NEW c, c = [b EXCEPT !.cells = cells]
  PROVE  BoardIs(c) /\ c.run = b.run /\ c.said = b.said
<1>1. c = [cells |-> cells, mode |-> b.mode, run |-> b.run, said |-> b.said]
  BY DEF BoardIs
<1> QED BY <1>1 DEF BoardIs

LEMMA ModeIs ==
  ASSUME NEW b, BoardIs(b), NEW mode, NEW c, c = [b EXCEPT !.mode = mode]
  PROVE  BoardIs(c) /\ c.run = b.run /\ c.said = b.said
<1>1. c = [cells |-> b.cells, mode |-> mode, run |-> b.run, said |-> b.said]
  BY DEF BoardIs
<1> QED BY <1>1 DEF BoardIs

LEMMA SetCellsKeeps ==
  ASSUME HandoffInv, NEW d \in Devices, Live(d), NEW cells, SetCells(d, cells)
  PROVE  BoardsKnown' /\ SameTalk(d)
<1>1. BoardIs(Board(d)) /\ usb[d].board \in DOMAIN boards
  BY BoardHas
<1>2. PICK b : b = [Board(d) EXCEPT !.cells = cells]
  OBVIOUS
<1>3. boards' = [boards EXCEPT ![usb[d].board] = b]
  BY <1>1, <1>2 DEF SetCells, Board
<1> QED BY <1>1, <1>2, <1>3, CellsIs, BoardSet

(* The chip is in its loader, and replies of it stay behind.                *)
LEMMA ConnectKeeps ==
  ASSUME SessionAssumption, HandoffInv, NEW d \in Devices, Connect(d) PROVE HandoffInv'
<1>1. /\ Sound(worker[d], usb[d], Board(d), KindOf(d)) /\ OpsKnown /\ BoardsKnown
      /\ worker[d].pc = "connect" /\ Asked(worker[d].op) /\ WorkerIs(worker[d]) /\ UsbIs(usb[d])
      /\ Live(d)
  BY DeviceHas DEF Connect, Doing
<1>2. BoardsKnown' /\ SameTalk(d)
  <2>1. BoardIs(Board(d)) /\ usb[d].board \in DOMAIN boards
    BY <1>1, BoardHas
  <2>2. PICK b : b = [Board(d) EXCEPT !.mode = "loader"]
    OBVIOUS
  <2>3. boards' = [boards EXCEPT ![usb[d].board] = b]
    BY <2>1, <2>2 DEF Connect, Board
  <2> QED BY <1>1, <2>1, <2>2, <2>3, ModeIs, BoardSet
<1>3. CASE Fail(d, "chip")
  BY <1>1, <1>2, <1>3, FailKeeps
<1>4. ASSUME NEW p \in Replies, NEW q \in Replies, UNCHANGED ops,
             worker' = [worker EXCEPT ![d].pc = "check", ![d].proto = TRUE],
             usb' = [usb EXCEPT ![d].pending = p, ![d].incoming = q]
      PROVE  HandoffInv'
  <2>1. PICK v, o : v = worker[d] /\ o = usb[d]
    OBVIOUS
  <2>2. PICK w : w = [v EXCEPT !.pc = "check", !.proto = TRUE]
    OBVIOUS
  <2>3. worker' = [worker EXCEPT ![d] = w]
    BY <1>4, <2>1, <2>2, DeviceHas
  <2>4. w = [pc |-> "check", op |-> v.op, holds |-> v.holds, proto |-> TRUE, at |-> v.at,
             from |-> v.from, seen |-> v.seen, before |-> v.before]
    <3>1. PICK x : x = [v EXCEPT !.pc = "check"]
      OBVIOUS
    <3>2. x = [pc |-> "check", op |-> v.op, holds |-> v.holds, proto |-> v.proto, at |-> v.at,
               from |-> v.from, seen |-> v.seen, before |-> v.before]
      BY <1>1, <2>1, <3>1 DEF WorkerIs
    <3>3. w = [x EXCEPT !.proto = TRUE]
      BY <2>2, <3>1
    <3> QED BY <3>2, <3>3
  <2>5. PICK u : u = [o EXCEPT !.pending = p, !.incoming = q]
    OBVIOUS
  <2>6. usb' = [usb EXCEPT ![d] = u]
    BY <1>4, <2>1, <2>5, DeviceHas
  <2>7. u = [board |-> o.board, attached |-> o.attached, leased |-> o.leased, wired |-> o.wired,
             pending |-> p, incoming |-> q]
    <3>1. PICK x : x = [o EXCEPT !.pending = p]
      OBVIOUS
    <3>2. x = [board |-> o.board, attached |-> o.attached, leased |-> o.leased, wired |-> o.wired,
               pending |-> p, incoming |-> o.incoming]
      BY <1>1, <2>1, <3>1 DEF UsbIs
    <3>3. u = [x EXCEPT !.incoming = q]
      BY <2>5, <3>1
    <3> QED BY <3>2, <3>3
  <2>8. /\ WorkerIs(w) /\ w.pc = "check" /\ w.op = worker[d].op /\ w.holds = worker[d].holds
        /\ w.proto = TRUE /\ w.seen = worker[d].seen /\ w.from = worker[d].from
    BY <2>1, <2>4 DEF WorkerIs
  <2>9. /\ UsbIs(u) /\ u.board = usb[d].board /\ u.attached = usb[d].attached
        /\ u.wired = usb[d].wired /\ u.pending = p /\ u.incoming = q
    BY <2>1, <2>7 DEF UsbIs
  <2>10. p \in Seq(Bytes) /\ q \in Seq(Bytes)
    <3>1. Proto \in Bytes
      BY DEF Proto, Bytes
    <3>2. <<Proto>> \in Seq(Bytes) /\ <<>> \in Seq(Bytes)
      BY <3>1
    <3>3. (p = <<>> \/ p = <<Proto>>) /\ (q = <<>> \/ q = <<Proto>>)
      BY DEF Replies
    <3> QED BY <3>2, <3>3
  <2>11. /\ worker[d].holds = TRUE /\ KindOf(d) # "monitor" /\ KindOf(d) \in LoaderKinds
         /\ worker[d].seen = <<>> /\ usb[d].board # NoBoard
    BY <1>1 DEF Sound, Placed, Opening, ForReset
  <2>12. Placed(w, u, KindOf(d))
    BY <2>8, <2>9, <2>11 DEF Placed, Opening, ForReset
  <2>13. Streams(w, u, boards'[usb[d].board], KindOf(d))
    BY <2>8 DEF Streams, Listening
  <2>14. Sound(w, u, boards'[usb[d].board], KindOf(d))
    BY <1>1, <2>8, <2>9, <2>10, <2>12, <2>13 DEF Sound
  <2>15. OpsKnown' /\ ActionsStay /\ ops'[w.op].action.kind = KindOf(d) /\ Later(w.op)
    BY <1>1, <1>4, <2>8, OpsSame DEF KindOf, Asked, Later
  <2> QED BY <1>2, <2>3, <2>6, <2>9, <2>14, <2>15, WorkKeeps
<1> QED BY <1>3, <1>4 DEF Connect


(* The kind of an operation says where its worker goes from check.          *)
LEMMA CheckKeeps ==
  ASSUME SessionAssumption, HandoffInv, NEW d \in Devices, Check(d) PROVE HandoffInv'
<1>1. /\ Sound(worker[d], usb[d], Board(d), KindOf(d)) /\ BoardsKnown
      /\ worker[d].pc = "check" /\ WorkerIs(worker[d]) /\ boards' = boards
  BY DeviceHas DEF Check, Doing
<1>2. BoardsKnown' /\ SameTalk(d)
  BY <1>1, BoardsSame, TalkSame
<1>3. CASE Fail(d, "unsuitable")
  BY <1>1, <1>2, <1>3, FailKeeps
<1>4. PICK next : next = [flash |-> "erase", read |-> "read", erase |-> "wipe", probe |-> "baud"]
  OBVIOUS
<1>5. CASE Goto(d, next[KindOf(d)])
  <2>1. KindOf(d) \in LoaderKinds /\ worker[d].proto \in BOOLEAN
    BY <1>1 DEF Sound, Placed
  <2>2. PICK pc : pc = next[KindOf(d)]
    OBVIOUS
  <2>3. pc \in {"erase", "read", "wipe", "baud"}
    BY <1>4, <2>1, <2>2 DEF LoaderKinds
  <2>4. PICK w : w = [worker[d] EXCEPT !.pc = pc]
    OBVIOUS
  <2>5. /\ WorkerIs(w) /\ w.pc = pc /\ w.op = worker[d].op /\ w.holds = worker[d].holds
        /\ w.proto = worker[d].proto /\ w.seen = worker[d].seen /\ w.from = worker[d].from
    BY <1>1, <2>4, PcIs
  <2>6. worker' = [worker EXCEPT ![d] = w] /\ usb' = usb /\ ops' = ops
    BY <1>5, <2>2, <2>4, DeviceHas DEF Goto, SetPc
  <2>7. /\ worker[d].pc \in ForReset \cup {"baud"} /\ KindOf(d) # "monitor"
        /\ w.pc \in ForReset \cup {"baud"} /\ w.pc # "reset" /\ w.pc \notin {"connect", "check"}
    BY <1>1, <2>1, <2>3, <2>5 DEF ForReset, LoaderKinds
  <2> QED BY <1>2, <2>1, <2>5, <2>6, <2>7, WorksKeeps
<1> QED BY <1>3, <1>4, <1>5 DEF Check, KindOf, Action, Op

(* The steps from one place of the work on the chip to the next.            *)
LEMMA StepKeeps ==
  ASSUME SessionAssumption, HandoffInv, NEW d \in Devices,
         worker[d].pc \in {"erase", "write", "read", "baud"}, KindOf(d) # "monitor",
         NEW pc \in {"erase", "write", "baud", "clear"},
         SetPc(d, pc), usb' = usb, ops' = ops, BoardsKnown', SameTalk(d)
  PROVE  HandoffInv'
<1>1. Sound(worker[d], usb[d], Board(d), KindOf(d)) /\ WorkerIs(worker[d])
  BY DeviceHas
<1>2. PICK w : w = [worker[d] EXCEPT !.pc = pc]
  OBVIOUS
<1>3. /\ WorkerIs(w) /\ w.pc = pc /\ w.op = worker[d].op /\ w.holds = worker[d].holds
      /\ w.proto = worker[d].proto /\ w.seen = worker[d].seen /\ w.from = worker[d].from
  BY <1>1, <1>2, PcIs
<1>4. worker' = [worker EXCEPT ![d] = w]
  BY <1>2, DeviceHas DEF SetPc
<1>5. /\ worker[d].pc \in ForReset \cup {"baud"} /\ w.proto \in BOOLEAN
      /\ w.pc \in ForReset \cup {"baud"} /\ w.pc # "reset" /\ w.pc \notin {"connect", "check"}
  BY <1>1, <1>3 DEF ForReset, Sound
<1> QED BY <1>3, <1>4, <1>5, WorksKeeps

LEMMA OnTheWay ==
  ASSUME HandoffInv, NEW d \in Devices, worker[d].pc \in ForReset PROVE KindOf(d) # "monitor"
BY DeviceHas DEF Sound, Placed

LEMMA EraseSegmentKeeps ==
  ASSUME SessionAssumption, HandoffInv, NEW d \in Devices, EraseSegment(d) PROVE HandoffInv'
<1>1. PICK cells : SetCells(d, cells)
  BY DEF EraseSegment
<1>2. worker[d].pc = "erase" /\ Live(d) /\ SetPc(d, "write") /\ usb' = usb /\ ops' = ops
  BY DEF EraseSegment, Goto, Doing
<1>3. KindOf(d) # "monitor"
  BY <1>2, OnTheWay DEF ForReset
<1>4. BoardsKnown' /\ SameTalk(d)
  BY <1>1, <1>2, SetCellsKeeps
<1> QED BY <1>2, <1>3, <1>4, StepKeeps

LEMMA ReadFlashKeeps ==
  ASSUME SessionAssumption, HandoffInv, NEW d \in Devices, ReadFlash(d) PROVE HandoffInv'
<1>1. worker[d].pc = "read" /\ SetPc(d, "baud") /\ usb' = usb /\ ops' = ops /\ boards' = boards
  BY DEF ReadFlash, Goto, Doing
<1>2. KindOf(d) # "monitor"
  BY <1>1, OnTheWay DEF ForReset
<1>3. BoardsKnown' /\ SameTalk(d)
  BY <1>1, DeviceHas, BoardsSame, TalkSame
<1> QED BY <1>1, <1>2, <1>3, StepKeeps

LEMMA WriteSegmentKeeps ==
  ASSUME SessionAssumption, HandoffInv, NEW d \in Devices, WriteSegment(d) PROVE HandoffInv'
<1>1. PICK cells : SetCells(d, cells)
  BY Zenon DEF WriteSegment
<1>2. /\ worker[d].pc = "write" /\ Live(d) /\ usb' = usb /\ ops' = ops
      /\ \/ worker' = [worker EXCEPT ![d].pc = "erase", ![d].at = @ + 1]
         \/ SetPc(d, "baud")
  BY Zenon DEF WriteSegment, Doing
<1>3. KindOf(d) # "monitor"
  BY <1>2, OnTheWay DEF ForReset
<1>4. BoardsKnown' /\ SameTalk(d)
  BY <1>1, <1>2, SetCellsKeeps
<1>5. CASE SetPc(d, "baud")
  BY <1>2, <1>3, <1>4, <1>5, StepKeeps
<1>6. CASE worker' = [worker EXCEPT ![d].pc = "erase", ![d].at = @ + 1]
  <2>1. PICK v, at : v = [worker[d] EXCEPT !.pc = "erase"] /\ at = worker[d].at + 1
    OBVIOUS
  <2>2. Sound(worker[d], usb[d], Board(d), KindOf(d)) /\ WorkerIs(worker[d])
    BY DeviceHas
  <2>3. v = [pc |-> "erase", op |-> worker[d].op, holds |-> worker[d].holds,
             proto |-> worker[d].proto, at |-> worker[d].at, from |-> worker[d].from,
             seen |-> worker[d].seen, before |-> worker[d].before]
    BY <2>1, <2>2 DEF WorkerIs
  <2>4. PICK w : w = [v EXCEPT !.at = at]
    OBVIOUS
  <2>5. w = [pc |-> "erase", op |-> worker[d].op, holds |-> worker[d].holds,
             proto |-> worker[d].proto, at |-> at, from |-> worker[d].from,
             seen |-> worker[d].seen, before |-> worker[d].before]
    BY <2>3, <2>4
  <2>6. worker' = [worker EXCEPT ![d] = w]
    BY <1>6, <2>1, <2>4, DeviceHas
  <2>7. /\ WorkerIs(w) /\ w.pc = "erase" /\ w.op = worker[d].op /\ w.holds = worker[d].holds
        /\ w.proto = worker[d].proto /\ w.seen = worker[d].seen /\ w.from = worker[d].from
    BY <2>5 DEF WorkerIs
  <2>8. /\ worker[d].pc \in ForReset \cup {"baud"} /\ w.proto \in BOOLEAN
        /\ w.pc \in ForReset \cup {"baud"} /\ w.pc # "reset" /\ w.pc \notin {"connect", "check"}
    BY <1>2, <2>2, <2>7 DEF ForReset, Sound
  <2> QED BY <1>2, <1>3, <1>4, <2>6, <2>7, <2>8, WorksKeeps
<1> QED BY <1>2, <1>5, <1>6

(* A job that ends without a reader.                                        *)
LEMMA EraseChipKeeps ==
  ASSUME SessionAssumption, HandoffInv, NEW d \in Devices, EraseChip(d) PROVE HandoffInv'
<1>1. /\ Sound(worker[d], usb[d], Board(d), KindOf(d)) /\ Asked(worker[d].op)
      /\ OpsKnown /\ BoardsKnown /\ UsbIs(usb[d])
  BY DeviceHas DEF EraseChip, Doing
<1>2. PICK cells : SetCells(d, cells)
  BY DEF EraseChip
<1>3. BoardsKnown' /\ SameTalk(d)
  BY <1>2, SetCellsKeeps DEF EraseChip
<1>4. OpsKnown' /\ ActionsStay
  BY <1>1, OpsStatusOnly DEF EraseChip, Succeed
<1>5. PICK w, u : w = IdleWorker /\ u = Dropped(d)
  OBVIOUS
<1>6. /\ u.board = usb[d].board /\ u.attached = usb[d].attached /\ u.wired = usb[d].wired
      /\ worker' = [worker EXCEPT ![d] = w] /\ usb' = [usb EXCEPT ![d] = u]
  BY <1>1, <1>5, DroppedIs DEF EraseChip
<1>7. Sound(w, u, boards'[usb[d].board], ops'[w.op].action.kind) /\ w.pc = "idle"
  BY <1>1, <1>5, SoundDropped, IdleIs
<1> QED BY <1>3, <1>4, <1>6, <1>7, WorkKeeps

-----------------------------------------------------------------------------
(* The handoff, and the reader. *)

(* An operation ends with a reader, which is to hear what is on the wire.   *)
LEMMA MonitorKeeps ==
  ASSUME SessionAssumption, HandoffInv, NEW d \in Devices, worker[d].pc # "idle",
         worker[d].holds, NEW from \in Bytes, Monitor(d, from), NEW u, UsbIs(u),
         u.board = usb[d].board, u.attached = usb[d].attached, u.wired = usb[d].wired,
         u.pending \in Seq(Bytes), u.incoming \in Seq(Bytes), usb' = [usb EXCEPT ![d] = u],
         BoardsKnown', SameTalk(d), NEW b, b = boards'[usb[d].board],
         Heard(u.pending \o u.incoming, from, b.run, b.said)
  PROVE  HandoffInv'
<1>1. /\ Sound(worker[d], usb[d], Board(d), KindOf(d)) /\ Asked(worker[d].op) /\ OpsKnown
  BY DeviceHas
<1>2. PICK w : w = [IdleWorker EXCEPT !.holds = TRUE, !.from = from]
  OBVIOUS
<1>3. worker' = [worker EXCEPT ![d] = w]
  BY <1>2 DEF Monitor
<1>4. /\ WorkerIs(w) /\ w.pc = "idle" /\ w.holds = TRUE /\ w.proto = FALSE
      /\ w.from = from /\ w.seen = <<>>
  BY <1>2 DEF IdleWorker, WorkerIs
<1>5. OpsKnown' /\ ActionsStay
  BY <1>1, OpsStatusOnly DEF Monitor, Succeed
<1>6. PICK kind : kind = ops'[w.op].action.kind
  OBVIOUS
<1>7. Placed(w, u, kind)
  BY <1>1, <1>4 DEF Sound, Placed, Opening, ForReset
<1>8. Streams(w, u, b, kind)
  <2>1. w.seen \o u.pending = u.pending
    BY <1>4
  <2>2. Heard(w.seen \o u.pending \o u.incoming, w.from, b.run, b.said)
    BY <1>4, <2>1
  <2> QED BY <1>4, <2>2 DEF Streams
<1>9. Sound(w, u, b, kind)
  <2>1. w.seen \in Seq(Bytes)
    BY <1>4
  <2> QED BY <1>1, <1>4, <1>7, <1>8, <2>1 DEF Sound
<1> QED BY <1>3, <1>4, <1>5, <1>6, <1>9, WorkKeeps

LEMMA SetBaudKeeps ==
  ASSUME SessionAssumption, HandoffInv, NEW d \in Devices, SetBaud(d) PROVE HandoffInv'
<1>1. /\ Sound(worker[d], usb[d], Board(d), KindOf(d)) /\ BoardsKnown /\ UsbIs(usb[d])
      /\ worker[d].pc = "baud" /\ Live(d) /\ boards' = boards
  BY DeviceHas DEF SetBaud, Doing
<1>2. BoardsKnown' /\ SameTalk(d)
  BY <1>1, BoardsSame, TalkSame
<1>3. CASE (worker[d].proto \/ Resets(d)) /\ Goto(d, "clear")
  <2>1. KindOf(d) # "monitor"
    BY <1>1, <1>3 DEF Sound, Placed, Resets, KindOf, Action, Op
  <2> QED BY <1>1, <1>2, <1>3, <2>1, StepKeeps DEF Goto
<1>4. CASE ~Resets(d) /\ Monitor(d, worker[d].from) /\ UNCHANGED usb
  <2>1. KindOf(d) = "monitor"
    BY <1>4 DEF Resets, KindOf, Action, Op
  <2>2. worker[d].holds /\ worker[d].seen = <<>> /\ worker[d].from \in Bytes
    BY <1>1 DEF Sound, Placed, Opening
  <2>3. Heard(worker[d].seen \o usb[d].pending \o usb[d].incoming, worker[d].from,
              Board(d).run, Board(d).said)
    BY <1>1, <2>1, <2>2 DEF Sound, Streams, Listening, Here, Live
  <2>4. PICK u : u = usb[d]
    OBVIOUS
  <2>5. usb' = [usb EXCEPT ![d] = u]
    BY <1>4, <2>4 DEF HandoffInv
  <2>6. Heard(u.pending \o u.incoming, worker[d].from, Board(d).run, Board(d).said)
    <3>1. u.pending \in Seq(Bytes)
      BY <1>1, <2>4 DEF Sound
    <3>2. worker[d].seen \o u.pending = u.pending
      BY <2>2, <3>1
    <3> QED BY <2>3, <2>4, <3>2
  <2>7. Board(d) = boards'[usb[d].board] /\ u.pending \in Seq(Bytes) /\ u.incoming \in Seq(Bytes)
    BY <1>1, <2>4 DEF Board, Sound
  <2> QED BY <1>1, <1>2, <1>4, <2>2, <2>4, <2>5, <2>6, <2>7, MonitorKeeps
<1> QED BY <1>3, <1>4 DEF SetBaud

LEMMA EmptiedIs ==
  ASSUME NEW io, UsbIs(io), NEW u, u = Emptied(io)
  PROVE  /\ UsbIs(u) /\ u.board = io.board /\ u.attached = io.attached /\ u.wired = io.wired
         /\ u.pending = <<>> /\ u.incoming = <<>>
<1>1. u = [board |-> io.board, attached |-> io.attached, leased |-> io.leased,
           wired |-> io.wired, pending |-> <<>>, incoming |-> <<>>]
  BY DEF Emptied, UsbIs
<1> QED BY <1>1 DEF UsbIs

(* Nothing of the loader is left; a firmware of before may be heard still.  *)
LEMMA ClearInputKeeps ==
  ASSUME SessionAssumption, HandoffInv, NEW d \in Devices, ClearInput(d) PROVE HandoffInv'
<1>1. /\ Sound(worker[d], usb[d], Board(d), KindOf(d)) /\ BoardsKnown /\ UsbIs(usb[d])
      /\ OpsKnown /\ Asked(worker[d].op) /\ WorkerIs(worker[d])
      /\ worker[d].pc = "clear" /\ boards' = boards
  BY DeviceHas DEF ClearInput, Doing
<1>2. BoardsKnown' /\ SameTalk(d)
  BY <1>1, BoardsSame, TalkSame
<1>3. KindOf(d) # "monitor" /\ worker[d].holds /\ worker[d].seen = <<>> /\ usb[d].board # NoBoard
  BY <1>1 DEF Sound, Placed, ForReset, Opening
<1>4. SetPc(d, "reset") /\ ops' = ops
  BY <1>3 DEF ClearInput, Resets, KindOf, Action, Op
<1>5. PICK w, u : w = [worker[d] EXCEPT !.pc = "reset"] /\ u = Emptied(usb[d])
  OBVIOUS
<1>6. /\ WorkerIs(w) /\ w.pc = "reset" /\ w.op = worker[d].op /\ w.holds = worker[d].holds
      /\ w.proto = worker[d].proto /\ w.seen = worker[d].seen /\ w.from = worker[d].from
  BY <1>1, <1>5, PcIs
<1>7. /\ UsbIs(u) /\ u.board = usb[d].board /\ u.attached = usb[d].attached
      /\ u.wired = usb[d].wired /\ u.pending = <<>> /\ u.incoming = <<>>
  BY <1>1, <1>5, EmptiedIs
<1>8. worker' = [worker EXCEPT ![d] = w] /\ usb' = [usb EXCEPT ![d] = u]
  BY <1>4, <1>5, DeviceHas DEF SetPc, ClearInput
<1>9. Placed(w, u, KindOf(d))
  BY <1>3, <1>6, <1>7 DEF Placed, Opening, ForReset
<1>10. Streams(w, u, Board(d), KindOf(d))
  BY <1>6, <1>7 DEF Streams, Listening
<1>11. Sound(w, u, Board(d), KindOf(d))
  BY <1>1, <1>6, <1>7, <1>9, <1>10 DEF Sound
<1>12. /\ OpsKnown' /\ ActionsStay
       /\ ops'[w.op].action.kind = KindOf(d) /\ Later(w.op)
       /\ boards'[usb[d].board] = Board(d)
  BY <1>1, <1>4, <1>6, OpsSame DEF KindOf, Asked, Later, Board
<1> QED BY <1>2, <1>7, <1>8, <1>11, <1>12, WorkKeeps

(* The firmware starts with a run of its own.                               *)
LEMMA StartedIs ==
  ASSUME NEW c, BoardIs(c), NEW b, b = Started(c)
  PROVE  BoardIs(b) /\ b.run = c.run + 1 /\ b.said = 0
<1>1. b = [cells |-> c.cells, mode |-> "app", run |-> c.run + 1, said |-> 0]
  BY DEF BoardIs, Started
<1> QED BY <1>1 DEF BoardIs

(* The firmware starts: all on the wire is of runs before.                  *)
LEMMA ResetKeeps ==
  ASSUME SessionAssumption, HandoffInv, NEW d \in Devices, Reset(d) PROVE HandoffInv'
<1>1. /\ Sound(worker[d], usb[d], Board(d), KindOf(d)) /\ UsbIs(usb[d])
      /\ worker[d].pc = "reset" /\ Live(d) /\ usb' = usb
  BY DeviceHas DEF Reset, Doing
<1>2. BoardIs(Board(d)) /\ usb[d].board \in DOMAIN boards
  BY <1>1, BoardHas
<1>3. PICK run \in Nat : run = Board(d).run
  BY <1>2 DEF BoardIs
<1>4. PICK b : b = Started(Board(d))
  OBVIOUS
<1>6. BoardIs(b) /\ b.run = run + 1 /\ b.said = 0
  BY <1>2, <1>3, <1>4, StartedIs
<1>7. boards' = [boards EXCEPT ![usb[d].board] = b]
  BY <1>2, <1>4 DEF Reset, Board
<1>8. BoardsKnown' /\ SameTalk(d) /\ boards'[usb[d].board] = b
  BY <1>1, <1>6, <1>7, BoardSet
<1>9. Monitor(d, <<run + 1, 0>>) /\ <<run + 1, 0>> \in Bytes
  BY <1>3 DEF Reset, Bytes
<1>10. PICK u : u = usb[d]
  OBVIOUS
<1>11. usb' = [usb EXCEPT ![d] = u]
  BY <1>1, <1>10 DEF HandoffInv
<1>12. /\ worker[d].holds /\ u.incoming \in Seq(Bytes) /\ u.pending = <<>>
       /\ \A i \in 1 .. Len(u.incoming) : u.incoming[i][1] \in 1 .. run
  BY <1>1, <1>3, <1>10 DEF Sound, Placed, Opening, Streams, Here, Live
<1>13. Heard(u.pending \o u.incoming, <<run + 1, 0>>, b.run, b.said) /\ u.pending \in Seq(Bytes)
  <2>1. u.pending \o u.incoming = u.incoming /\ u.pending \in Seq(Bytes)
    BY <1>12
  <2> QED BY <1>6, <1>12, <2>1, HeardAnew
<1> QED BY <1>1, <1>8, <1>9, <1>10, <1>11, <1>12, <1>13, MonitorKeeps

LEMMA ConcatMoves ==
  ASSUME NEW S, NEW r \in Seq(S), NEW s \in Seq(S), NEW t \in Seq(S)
  PROVE  /\ (r \o s) \o <<>> \o t = r \o s \o t
         /\ s = <<>> => (r \o t) \o <<>> \o <<>> = r \o s \o t
<1>1. (r \o s) \o <<>> = r \o s
  OBVIOUS
<1>2. s = <<>> => r \o s = r
  OBVIOUS
<1>3. (r \o t) \o <<>> = r \o t
  OBVIOUS
<1> QED BY <1>1, <1>2, <1>3

(* What the reader takes is where it was to come.                           *)
LEMMA ListenKeeps ==
  ASSUME SessionAssumption, HandoffInv, NEW d \in Devices, Listen(d) PROVE HandoffInv'
<1>1. /\ Sound(worker[d], usb[d], Board(d), KindOf(d)) /\ BoardsKnown /\ UsbIs(usb[d])
      /\ OpsKnown /\ WorkerIs(worker[d]) /\ worker[d].pc = "idle" /\ worker[d].holds
      /\ boards' = boards /\ ops' = ops
  BY DeviceHas DEF Listen, Doing
<1>2. BoardsKnown' /\ SameTalk(d) /\ OpsKnown' /\ ActionsStay
  BY <1>1, BoardsSame, TalkSame, OpsSame
<1>3. PICK seen, pending, incoming : seen = worker[d].seen /\ pending = usb[d].pending /\ incoming = usb[d].incoming
  OBVIOUS
<1>4. seen \in Seq(Bytes) /\ pending \in Seq(Bytes) /\ incoming \in Seq(Bytes)
  BY <1>1, <1>3 DEF Sound
<1>5. PICK heard : heard = IF pending # <<>> THEN pending ELSE incoming
  OBVIOUS
<1>6. /\ worker' = [worker EXCEPT ![d].seen = @ \o heard]
      /\ usb' = [usb EXCEPT ![d] = IF pending # <<>> THEN [@ EXCEPT !.pending = <<>>]
                                   ELSE [@ EXCEPT !.incoming = <<>>]]
  BY <1>3, <1>5 DEF Listen
<1>7. PICK w : w = [worker[d] EXCEPT !.seen = seen \o heard]
  OBVIOUS
<1>8. PICK u : u = IF pending # <<>> THEN [usb[d] EXCEPT !.pending = <<>>]
                   ELSE [usb[d] EXCEPT !.incoming = <<>>]
  OBVIOUS
<1>9. worker' = [worker EXCEPT ![d] = w] /\ usb' = [usb EXCEPT ![d] = u]
  BY <1>3, <1>6, <1>7, <1>8, DeviceHas
<1>10. /\ WorkerIs(w) /\ w.pc = "idle" /\ w.holds = worker[d].holds /\ w.proto = worker[d].proto
       /\ w.from = worker[d].from /\ w.seen = seen \o heard
  <2>1. w = [pc |-> worker[d].pc, op |-> worker[d].op, holds |-> worker[d].holds,
             proto |-> worker[d].proto, at |-> worker[d].at, from |-> worker[d].from,
             seen |-> seen \o heard, before |-> worker[d].before]
    BY <1>1, <1>7 DEF WorkerIs
  <2> QED BY <1>1, <2>1 DEF WorkerIs
<1>11. /\ UsbIs(u) /\ u.board = usb[d].board /\ u.attached = usb[d].attached
       /\ u.wired = usb[d].wired
       /\ u.pending = <<>> /\ u.incoming = IF pending # <<>> THEN incoming ELSE <<>>
  <2>1. u = [board |-> usb[d].board, attached |-> usb[d].attached, leased |-> usb[d].leased,
             wired |-> usb[d].wired, pending |-> <<>>,
             incoming |-> IF pending # <<>> THEN incoming ELSE <<>>]
    BY <1>1, <1>3, <1>8 DEF UsbIs
  <2> QED BY <2>1 DEF UsbIs
<1>12. w.seen \o u.pending \o u.incoming = seen \o pending \o incoming
  <2>1. CASE pending # <<>>
    <3>1. w.seen = seen \o pending /\ u.pending = <<>> /\ u.incoming = incoming
      BY <1>5, <1>10, <1>11, <2>1
    <3>2. (seen \o pending) \o <<>> \o incoming = seen \o pending \o incoming
      BY <1>4, ConcatMoves
    <3> QED BY <3>1, <3>2
  <2>2. CASE pending = <<>>
    <3>1. w.seen = seen \o incoming /\ u.pending = <<>> /\ u.incoming = <<>>
      BY <1>5, <1>10, <1>11, <2>2
    <3>2. (seen \o incoming) \o <<>> \o <<>> = seen \o pending \o incoming
      BY <1>4, <2>2, ConcatMoves
    <3> QED BY <3>1, <3>2
  <2> QED BY <2>1, <2>2
<1>13. w.seen \in Seq(Bytes) /\ u.pending \in Seq(Bytes) /\ u.incoming \in Seq(Bytes)
  BY <1>4, <1>5, <1>10, <1>11
<1>14. PICK kind : kind = ops'[w.op].action.kind
  OBVIOUS
<1>15. Placed(w, u, kind)
  BY <1>1, <1>10, <1>11 DEF Sound, Placed, Opening, ForReset
<1>16. Here(u) => Streams(w, u, Board(d), kind)
  <2>1. SUFFICES ASSUME Here(u) PROVE Streams(w, u, Board(d), kind)
    OBVIOUS
  <2>2. Heard(seen \o pending \o incoming, worker[d].from, Board(d).run, Board(d).said)
    BY <1>1, <1>3, <1>11, <2>1 DEF Sound, Streams, Listening, Here
  <2> QED BY <1>10, <1>12, <2>2 DEF Streams
<1>17. Sound(w, u, Board(d), kind)
  BY <1>1, <1>10, <1>11, <1>13, <1>15, <1>16 DEF Sound
<1>18. boards'[usb[d].board] = Board(d)
  BY <1>1 DEF Board
<1> QED BY <1>2, <1>9, <1>10, <1>11, <1>14, <1>17, <1>18, WorkKeeps

LEMMA LosePortKeeps ==
  ASSUME SessionAssumption, HandoffInv, NEW d \in Devices, LosePort(d) PROVE HandoffInv'
<1>1. /\ Sound(worker[d], usb[d], Board(d), KindOf(d)) /\ BoardsKnown /\ UsbIs(usb[d])
      /\ OpsKnown /\ boards' = boards /\ ops' = ops
  BY DeviceHas DEF LosePort
<1>2. BoardsKnown' /\ SameTalk(d) /\ OpsKnown' /\ ActionsStay
  BY <1>1, BoardsSame, TalkSame, OpsSame
<1>3. PICK w, u : w = IdleWorker /\ u = Dropped(d)
  OBVIOUS
<1>4. /\ u.board = usb[d].board /\ u.attached = usb[d].attached /\ u.wired = usb[d].wired
      /\ worker' = [worker EXCEPT ![d] = w] /\ usb' = [usb EXCEPT ![d] = u]
  BY <1>1, <1>3, DroppedIs DEF LosePort
<1>5. Sound(w, u, boards'[usb[d].board], ops'[w.op].action.kind) /\ w.pc = "idle"
  BY <1>1, <1>3, SoundDropped, IdleIs
<1> QED BY <1>2, <1>4, <1>5, WorkKeeps

LEMMA WorkSteps ==
  ASSUME SessionAssumption, HandoffInv, NEW d \in Devices, Work(d) PROVE HandoffInv'
BY TakeJobKeeps, LeaseKeeps, ClaimKeeps, IoFailsKeeps, ConnectKeeps, CheckKeeps,
   EraseSegmentKeeps, WriteSegmentKeeps, ReadFlashKeeps, EraseChipKeeps, SetBaudKeeps,
   ClearInputKeeps, ResetKeeps, ListenKeeps, LosePortKeeps DEF Work

-----------------------------------------------------------------------------
(* The boards and the cables. *)

LEMMA CablesKeep ==
  ASSUME HandoffInv, worker' = worker, ops' = ops, BoardsKnown', InOrder',
         usb' = [x \in Devices |-> usb'[x]],
         \A x \in Devices : Sound(worker[x], usb'[x], boards'[usb'[x].board], KindOf(x))
  PROVE  HandoffInv'
<1>1. OpsKnown' /\ worker' = [x \in Devices |-> worker'[x]]
  BY OpsSame DEF HandoffInv
<1>2. \A x \in Devices : worker[x].pc # "idle" => Asked(worker[x].op)
  BY DEF HandoffInv
<1>3. Devised'
  BY <1>2 DEF Devised, Board, KindOf, Asked
<1> QED BY <1>1, <1>3 DEF HandoffInv, BoardsKnown, Devised

(* A board is nothing to an attachment whose port nobody has.               *)
LEMMA SoundDeaf ==
  ASSUME NEW w, NEW u, NEW b, NEW kind, Sound(w, u, b, kind), ~w.holds, NEW c
  PROVE  Sound(w, u, c, kind)
<1>1. Streams(w, u, c, kind)
  BY DEF Sound, Placed, Streams, Listening, Opening
<1> QED BY <1>1 DEF Sound

(* A port that is open takes a byte of the firmware behind the others.      *)
LEMMA SoundHears ==
  ASSUME NEW w, NEW u, NEW b, NEW kind, Sound(w, u, b, kind), w.holds, BoardIs(b),
         NEW v, UsbIs(v), v.board = u.board, v.attached = u.attached, v.wired = u.wired,
         v.pending = u.pending, v.incoming = Append(u.incoming, <<b.run, b.said + 1>>),
         NEW c, c.run = b.run, c.said = b.said + 1
  PROVE  Sound(w, v, c, kind)
<1>1. PICK run \in Nat \ {0}, said \in Nat : run = b.run /\ said = b.said
  BY DEF BoardIs
<1>2. PICK new : new = <<run, said + 1>>
  OBVIOUS
<1>3. new \in Bytes /\ new[1] = run
  BY <1>1, <1>2 DEF Bytes
<1>4. u.incoming \in Seq(Bytes) /\ u.pending \in Seq(Bytes) /\ w.seen \in Seq(Bytes) /\ w.from \in Bytes
  BY DEF Sound
<1>5. PICK more : more = Append(u.incoming, new)
  OBVIOUS
<1>6. v.incoming = more /\ more \in Seq(Bytes)
  BY <1>1, <1>2, <1>3, <1>4, <1>5
<1>7. v.incoming \in Seq(Bytes)
  BY <1>6
<1>8. Placed(w, v, kind)
  BY DEF Sound, Placed
<1>9. Here(v) => Streams(w, v, c, kind)
  <2>1. SUFFICES ASSUME Here(v) PROVE Streams(w, v, c, kind)
    OBVIOUS
  <2>2. Streams(w, u, b, kind)
    BY <2>1 DEF Sound, Here
  <2>3. ASSUME Listening(w, kind)
        PROVE  Heard(w.seen \o v.pending \o v.incoming, w.from, c.run, c.said)
    <3>1. PICK s : s = w.seen \o u.pending
      OBVIOUS
    <3>2. PICK t : t = s \o u.incoming
      OBVIOUS
    <3>3. s \in Seq(Bytes) /\ t \in Seq(Bytes)
      BY <1>4, <3>1, <3>2
    <3>4. Heard(t, w.from, run, said)
      BY <1>1, <2>2, <2>3, <3>1, <3>2 DEF Streams
    <3>5. Heard(Append(t, new), w.from, run, said + 1)
      BY <1>2, <1>4, <3>3, <3>4, HeardMore
    <3>6. s \o Append(u.incoming, new) = Append(t, new)
      BY SMTT(30), <1>3, <1>4, <3>2, <3>3, ConcatAppend
    <3> QED BY <1>1, <1>5, <1>6, <3>1, <3>5, <3>6
  <2>4. ASSUME w.pc = "reset"
        PROVE  v.pending = <<>> /\ \A i \in 1 .. Len(v.incoming) : v.incoming[i][1] \in 1 .. c.run
    <3>1. u.pending = <<>> /\ \A i \in 1 .. Len(u.incoming) : u.incoming[i][1] \in 1 .. run
      BY <1>1, <2>2, <2>4 DEF Streams
    <3>2. PICK t, s : t = u.incoming /\ s = Append(t, new)
      OBVIOUS
    <3>3. ASSUME NEW i \in 1 .. Len(s) PROVE s[i][1] \in 1 .. run
      <4>1. CASE i \in 1 .. Len(t)
        BY <1>3, <1>4, <3>1, <3>2, <4>1
      <4>2. CASE i = Len(t) + 1
        BY <1>1, <1>3, <1>4, <3>2, <4>2
      <4>3. Len(s) = Len(t) + 1 /\ Len(t) \in Nat
        BY <1>3, <1>4, <3>2
      <4> QED BY <4>1, <4>2, <4>3
    <3> QED BY <1>1, <1>5, <1>6, <3>1, <3>2, <3>3
  <2> QED BY <2>3, <2>4 DEF Streams
<1> QED BY <1>6, <1>7, <1>8, <1>9 DEF Sound

LEMMA SpeakKeeps ==
  ASSUME SessionAssumption, HandoffInv, NEW b \in Boards, Speak(b) PROVE HandoffInv'
<1>1. BoardIs(boards[b]) /\ b \in DOMAIN boards /\ b # NoBoard /\ worker' = worker /\ ops' = ops
  BY DEF HandoffInv, Speak, SessionAssumption
<1>2. PICK run \in Nat, said \in Nat : run = boards[b].run /\ said = boards[b].said
  BY <1>1 DEF BoardIs
<1>3. PICK c : c = [boards[b] EXCEPT !.said = said + 1]
  OBVIOUS
<1>4. c = [cells |-> boards[b].cells, mode |-> boards[b].mode, run |-> boards[b].run, said |-> said + 1]
  BY <1>1, <1>3 DEF BoardIs
<1>5. BoardIs(c) /\ c.run = boards[b].run /\ c.said = boards[b].said + 1
  BY <1>1, <1>2, <1>4 DEF BoardIs
<1>6. boards' = [boards EXCEPT ![b] = c]
  BY <1>1, <1>2, <1>3 DEF Speak
<1>7. boards'[b] = c /\ \A x \in Boards : x # b => boards'[x] = boards[x]
  BY <1>6 DEF HandoffInv
<1>8. BoardsKnown'
  <2>1. boards' = [x \in Boards |-> boards'[x]]
    BY <1>6 DEF HandoffInv
  <2> QED BY <1>5, <1>7, <2>1 DEF BoardsKnown, HandoffInv, BoardIs
<1>9. \A x \in Devices : usb'[x] =
        IF usb[x].board = b /\ usb[x].wired /\ worker[x].holds
          THEN [usb[x] EXCEPT !.incoming = Append(usb[x].incoming, <<boards[b].run, boards[b].said + 1>>)]
        ELSE usb[x]
  BY DEF Speak
<1>10. usb' = [x \in Devices |-> usb'[x]]
  BY DEF Speak
<1>11. ASSUME NEW x \in Devices
       PROVE  /\ Sound(worker[x], usb'[x], boards'[usb'[x].board], KindOf(x))
              /\ usb'[x].board = usb[x].board /\ usb'[x].attached = usb[x].attached
              /\ usb'[x].wired = usb[x].wired
  <2>1. Sound(worker[x], usb[x], boards[usb[x].board], KindOf(x))
    BY DeviceHas DEF Board
  <2>2. CASE usb[x].board = b /\ usb[x].wired /\ worker[x].holds
    <3>1. PICK w, u, o, kind : w = worker[x] /\ u = usb[x] /\ o = boards[b] /\ kind = KindOf(x)
      OBVIOUS
    <3>2. PICK more : more = Append(u.incoming, <<o.run, o.said + 1>>)
      OBVIOUS
    <3>3. PICK v : v = [u EXCEPT !.incoming = more]
      OBVIOUS
    <3>4. usb'[x] = v
      BY <1>9, <2>2, <3>1, <3>2, <3>3
    <3>5. Sound(w, u, o, kind) /\ w.holds /\ BoardIs(o) /\ c.run = o.run /\ c.said = o.said + 1
      BY <1>1, <1>5, <2>1, <2>2, <3>1
    <3>6. /\ UsbIs(v) /\ v.board = u.board /\ v.attached = u.attached /\ v.wired = u.wired
          /\ v.pending = u.pending /\ v.incoming = more
      <4>1. UsbIs(u)
        BY <3>5 DEF Sound
      <4>2. v = [board |-> u.board, attached |-> u.attached, leased |-> u.leased,
                 wired |-> u.wired, pending |-> u.pending, incoming |-> more]
        BY <3>3, <4>1 DEF UsbIs
      <4> QED BY <4>2 DEF UsbIs
    <3>7. Sound(w, v, c, kind)
      BY <3>2, <3>5, <3>6, SoundHears
    <3> QED BY <1>7, <2>2, <3>1, <3>4, <3>6, <3>7
  <2>3. CASE ~(usb[x].board = b /\ usb[x].wired /\ worker[x].holds)
    <3>1. usb'[x] = usb[x]
      BY <1>9, <2>3
    <3>2. CASE ~worker[x].holds
      BY <2>1, <3>1, <3>2, SoundDeaf
    <3>3. CASE ~(usb[x].board = b /\ usb[x].wired)
      <4>1. Here(usb[x]) => usb[x].board \in Boards /\ usb[x].board # b
        BY <2>1, <3>3 DEF Sound, Here
      <4>2. Here(usb[x]) => boards'[usb[x].board] = boards[usb[x].board]
        BY <1>7, <4>1
      <4>3. Sound(worker[x], usb[x], boards'[usb[x].board], KindOf(x))
        BY <2>1, <4>2, SoundStays
      <4> QED BY <3>1, <4>3
    <3> QED BY <2>3, <3>1, <3>2, <3>3
  <2> QED BY <2>2, <2>3
<1>12. InOrder'
  BY <1>11 DEF HandoffInv, InOrder, Live
<1> QED BY <1>1, <1>8, <1>10, <1>11, <1>12, CablesKeep

(* An attachment that does not work is sound whatever becomes of the board. *)
LEMMA UnpluggedIs ==
  ASSUME NEW u, UsbIs(u), NEW v, v = [u EXCEPT !.wired = FALSE]
  PROVE  /\ UsbIs(v) /\ v.board = u.board /\ v.attached = u.attached /\ v.wired = FALSE
         /\ v.pending = u.pending /\ v.incoming = u.incoming
<1>1. v = [board |-> u.board, attached |-> u.attached, leased |-> u.leased, wired |-> FALSE,
           pending |-> u.pending, incoming |-> u.incoming]
  BY DEF UsbIs
<1> QED BY <1>1 DEF UsbIs

LEMMA SoundOff ==
  ASSUME NEW w, NEW u, NEW b, NEW kind, Sound(w, u, b, kind), NEW v, UsbIs(v),
         v.board = u.board, v.pending = u.pending, v.incoming = u.incoming,
         v.attached \in BOOLEAN, v.wired \in BOOLEAN, v.attached => u.attached,
         v.wired => u.wired, ~Here(v), NEW c
  PROVE  Sound(w, v, c, kind)
<1>1. Placed(w, v, kind)
  BY DEF Sound, Placed
<1> QED BY <1>1 DEF Sound

LEMMA UnplugKeeps ==
  ASSUME SessionAssumption, HandoffInv, NEW b \in Boards, Unplug(b) PROVE HandoffInv'
<1>1. BoardIs(boards[b]) /\ b \in DOMAIN boards /\ worker' = worker /\ ops' = ops
  BY DEF HandoffInv, Unplug
<1>2. PICK c : c = [boards[b] EXCEPT !.mode = "off"]
  OBVIOUS
<1>3. BoardIs(c)
  BY <1>1, <1>2, ModeIs
<1>4. boards' = [boards EXCEPT ![b] = c]
  BY <1>1, <1>2 DEF Unplug
<1>5. boards'[b] = c /\ \A x \in Boards : x # b => boards'[x] = boards[x]
  BY <1>4 DEF HandoffInv
<1>6. BoardsKnown'
  <2>1. boards' = [x \in Boards |-> boards'[x]]
    BY <1>4 DEF HandoffInv
  <2> QED BY <1>3, <1>5, <2>1 DEF BoardsKnown, HandoffInv, BoardIs
<1>7. /\ usb' = [x \in Devices |-> usb'[x]]
      /\ \A x \in Devices :
           usb'[x] = IF usb[x].board = b THEN [usb[x] EXCEPT !.wired = FALSE] ELSE usb[x]
  BY DEF Unplug
<1>8. ASSUME NEW x \in Devices
      PROVE  /\ Sound(worker[x], usb'[x], boards'[usb'[x].board], KindOf(x))
             /\ usb'[x].board = usb[x].board /\ usb'[x].attached = usb[x].attached
             /\ usb'[x].wired => usb[x].wired
  <2>1. Sound(worker[x], usb[x], boards[usb[x].board], KindOf(x))
    BY DeviceHas DEF Board
  <2>2. CASE usb[x].board = b
    <3>1. PICK u : u = usb[x]
      OBVIOUS
    <3>2. PICK v : v = [u EXCEPT !.wired = FALSE]
      OBVIOUS
    <3>3. usb'[x] = v
      BY <1>7, <2>2, <3>1, <3>2
    <3>4. UsbIs(u) /\ u.attached \in BOOLEAN
      BY <2>1, <3>1 DEF Sound
    <3>5. /\ UsbIs(v) /\ v.board = u.board /\ v.attached = u.attached /\ v.wired = FALSE
          /\ v.pending = u.pending /\ v.incoming = u.incoming
      BY <3>2, <3>4, UnpluggedIs
    <3>6. ~Here(v) /\ v.wired \in BOOLEAN /\ v.attached \in BOOLEAN
      BY <3>4, <3>5 DEF Here
    <3>7. Sound(worker[x], v, boards'[v.board], KindOf(x))
      BY <2>1, <3>1, <3>5, <3>6, SoundOff
    <3> QED BY <3>1, <3>3, <3>5, <3>7
  <2>3. CASE usb[x].board # b
    <3>1. usb'[x] = usb[x]
      BY <1>7, <2>3
    <3>2. Here(usb[x]) => usb[x].board \in Boards
      BY <2>1 DEF Sound, Here
    <3>3. Here(usb[x]) => boards'[usb[x].board] = boards[usb[x].board]
      BY <1>5, <2>3, <3>2
    <3>4. Sound(worker[x], usb[x], boards'[usb[x].board], KindOf(x))
      BY <2>1, <3>3, SoundStays
    <3> QED BY <3>1, <3>4
  <2> QED BY <2>2, <2>3
<1>9. InOrder'
  BY <1>8 DEF HandoffInv, InOrder, Live
<1> QED BY <1>1, <1>6, <1>7, <1>8, <1>9, CablesKeep

LEMMA DetachKeeps ==
  ASSUME SessionAssumption, HandoffInv, NEW d \in Devices, Detach(d) PROVE HandoffInv'
<1>1. /\ worker' = worker /\ ops' = ops /\ boards' = boards /\ BoardsKnown'
  BY BoardsSame DEF HandoffInv, BoardsKnown, Detach
<1>2. PICK u : u = usb[d]
  OBVIOUS
<1>3. Sound(worker[d], u, Board(d), KindOf(d)) /\ UsbIs(u) /\ u.wired \in BOOLEAN
  BY <1>2, DeviceHas DEF Sound
<1>4. PICK v : v = [u EXCEPT !.attached = FALSE]
  OBVIOUS
<1>5. /\ UsbIs(v) /\ v.board = u.board /\ v.attached = FALSE /\ v.wired = u.wired
      /\ v.pending = u.pending /\ v.incoming = u.incoming
  <2>1. v = [board |-> u.board, attached |-> FALSE, leased |-> u.leased, wired |-> u.wired,
             pending |-> u.pending, incoming |-> u.incoming]
    BY <1>3, <1>4 DEF UsbIs
  <2> QED BY <2>1 DEF UsbIs
<1>6. usb' = [usb EXCEPT ![d] = v]
  BY <1>2, <1>4, DeviceHas DEF Detach
<1>7. /\ usb' = [x \in Devices |-> usb'[x]] /\ usb'[d] = v
      /\ \A x \in Devices : x # d => usb'[x] = usb[x]
  BY <1>6 DEF HandoffInv
<1>8. ASSUME NEW x \in Devices
      PROVE  /\ Sound(worker[x], usb'[x], boards'[usb'[x].board], KindOf(x))
             /\ usb'[x].board = usb[x].board /\ usb'[x].wired = usb[x].wired
             /\ usb'[x].attached => usb[x].attached
  <2>1. CASE x = d
    <3>1. ~Here(v) /\ v.attached \in BOOLEAN /\ v.wired \in BOOLEAN
      BY <1>3, <1>5 DEF Here
    <3>2. Sound(worker[d], v, Board(d), KindOf(d))
      BY <1>3, <1>5, <3>1, SoundOff
    <3>3. boards'[v.board] = Board(d)
      BY <1>1, <1>2, <1>5 DEF Board
    <3> QED BY <1>2, <1>5, <1>7, <2>1, <3>2, <3>3
  <2>2. CASE x # d
    BY <1>1, <1>7, <2>2, DeviceHas DEF Board
  <2> QED BY <2>1, <2>2
<1>9. InOrder'
  BY <1>8 DEF HandoffInv, InOrder, Live
<1> QED BY <1>1, <1>7, <1>8, <1>9, CablesKeep

(* A new attachment: nothing that was open before works any more.           *)
LEMMA AttachKeeps ==
  ASSUME SessionAssumption, HandoffInv, NEW d \in Devices, NEW b \in Boards, Attach(d, b)
  PROVE  HandoffInv'
<1>1. /\ worker' = worker /\ ops' = ops /\ b # NoBoard
      /\ usb[d].board = NoBoard /\ usb' = [usb EXCEPT ![d] = Attachment(b)]
      /\ \A x \in 1 .. d - 1 : usb[x].board # NoBoard /\ ~Live(x)
  BY DEF Attach, SessionAssumption
<1>2. PICK n \in Devices : Devices = 1 .. n
  BY DEF SessionAssumption
<1>3. n \in Nat /\ \A x \in Devices : x \in Nat /\ x >= 1
  <2>1. n \in 1 .. n
    BY <1>2
  <2> QED BY <1>2, <2>1
<1>4. \A x \in Devices : x < d => usb[x].board # NoBoard /\ ~Live(x)
  BY <1>1, <1>3
<1>5. \A x \in Devices : d < x => usb[x].board = NoBoard
  BY <1>1 DEF HandoffInv, InOrder
<1>6. \A x \in Devices : x # d => ~Here(usb[x])
  <2>1. SUFFICES ASSUME NEW x \in Devices, x # d PROVE ~Here(usb[x])
    OBVIOUS
  <2>2. x < d \/ d < x
    BY <1>3, <2>1
  <2>3. Here(usb[x]) => usb[x].board # NoBoard
    BY DeviceHas DEF Sound, Here
  <2> QED BY <1>4, <1>5, <2>2, <2>3 DEF Live, Here
<1>7. PICK v : v = Attachment(b)
  OBVIOUS
<1>8. /\ UsbIs(v) /\ v.board = b /\ v.attached = TRUE /\ v.wired = TRUE
      /\ v.pending = <<>> /\ v.incoming = <<>>
  <2>1. v = [board |-> b, attached |-> TRUE, leased |-> FALSE, wired |-> TRUE,
             pending |-> <<>>, incoming |-> <<>>]
    BY <1>1, <1>7 DEF Attachment
  <2> QED BY <2>1 DEF UsbIs
<1>9. /\ usb' = [x \in Devices |-> usb'[x]] /\ usb'[d] = v
      /\ \A x \in Devices : x # d => usb'[x] = usb[x]
  BY <1>1, <1>7 DEF HandoffInv
<1>10. BoardsKnown'
  <2>1. CASE boards' = boards
    BY <2>1, BoardsSame DEF HandoffInv, BoardsKnown
  <2>2. CASE boards' = [boards EXCEPT ![b] = Started(@)]
    <3>1. PICK c : c = Started(boards[b])
      OBVIOUS
    <3>2. BoardIs(c)
      BY <3>1, StartedIs DEF HandoffInv
    <3>3. boards' = [boards EXCEPT ![b] = c]
      BY <2>2, <3>1
    <3>4. boards'[b] = c /\ \A x \in Boards : x # b => boards'[x] = boards[x]
      BY <3>3 DEF HandoffInv
    <3>5. boards' = [x \in Boards |-> boards'[x]]
      BY <3>3 DEF HandoffInv
    <3> QED BY <3>2, <3>4, <3>5 DEF BoardsKnown, HandoffInv, BoardIs
  <2> QED BY <2>1, <2>2 DEF Attach
<1>11. ASSUME NEW x \in Devices
       PROVE  Sound(worker[x], usb'[x], boards'[usb'[x].board], KindOf(x))
  <2>1. Sound(worker[x], usb[x], Board(x), KindOf(x))
    BY DeviceHas
  <2>2. CASE x # d
    <3>1. ~Here(usb[x]) /\ usb'[x] = usb[x]
      BY <1>6, <1>9, <2>2
    <3>2. Sound(worker[x], usb[x], boards'[usb[x].board], KindOf(x))
      BY <2>1, <3>1, SoundStays
    <3> QED BY <3>1, <3>2
  <2>3. CASE x = d
    <3>1. ~worker[d].holds
      BY <1>1, <2>1, <2>3 DEF Sound, Placed
    <3>2. Placed(worker[d], v, KindOf(d))
      BY <1>8, <2>1, <2>3, <3>1 DEF Sound, Placed
    <3>3. Streams(worker[d], v, boards'[v.board], KindOf(d))
      BY <1>8, <2>1, <2>3, <3>1 DEF Sound, Placed, Opening, Streams, Listening
    <3>4. v.pending \in Seq(Bytes) /\ v.incoming \in Seq(Bytes) /\ v.board \in Boards \cup {NoBoard}
      BY <1>8
    <3>5. Sound(worker[d], v, boards'[v.board], KindOf(d))
      BY <1>1, <1>8, <2>1, <2>3, <3>2, <3>3, <3>4 DEF Sound
    <3> QED BY <1>9, <2>3, <3>5
  <2> QED BY <2>2, <2>3
<1>12. InOrder'
  <2>1. SUFFICES ASSUME NEW e \in Devices, NEW x \in Devices, x < e, usb'[e].board # NoBoard
                 PROVE  usb'[x].board # NoBoard /\ ~(usb'[x].attached /\ usb'[x].wired)
    BY DEF InOrder, Live
  <2>2. CASE e = d
    <3>1. x # d
      BY <1>3, <2>1, <2>2
    <3> QED BY <1>4, <1>9, <2>1, <2>2, <3>1 DEF Live
  <2>3. CASE e # d
    <3>1. usb[e].board # NoBoard
      BY <1>9, <2>1, <2>3
    <3>2. e < d
      BY <1>3, <1>5, <2>3, <3>1
    <3>3. x # d
      BY <1>3, <2>1, <3>2
    <3> QED BY <1>9, <2>1, <3>1, <3>3 DEF HandoffInv, InOrder, Live
  <2> QED BY <2>2, <2>3
<1> QED BY <1>1, <1>9, <1>10, <1>11, <1>12, CablesKeep

-----------------------------------------------------------------------------
(* The clients: they only ask for operations. *)

LEMMA OpsKnownKeep ==
  ASSUME HandoffInv, worker' = worker, usb' = usb, boards' = boards, OpsKnown', ActionsStay
  PROVE  HandoffInv'
<1>1. BoardsKnown'
  BY BoardsSame DEF HandoffInv, BoardsKnown
<1>2. InOrder'
  BY DEF HandoffInv, InOrder, Live
<1>3. ASSUME NEW x \in Devices
      PROVE  /\ Sound(worker'[x], usb'[x], boards'[usb'[x].board], ops'[worker'[x].op].action.kind)
             /\ worker'[x].pc # "idle" => Later(worker'[x].op)
  <2>1. /\ Sound(worker[x], usb[x], Board(x), KindOf(x))
        /\ worker[x].pc # "idle" => Asked(worker[x].op)
    BY DeviceHas
  <2>2. worker[x].pc # "idle" =>
          Later(worker[x].op) /\ ops'[worker[x].op].action.kind = KindOf(x)
    BY <2>1 DEF ActionsStay, KindOf
  <2>3. Sound(worker[x], usb[x], Board(x), ops'[worker[x].op].action.kind)
    BY <2>1, <2>2, SoundStays
  <2> QED BY <2>2, <2>3 DEF Board
<1>4. Devised'
  BY <1>3 DEF Devised, Board, KindOf, Asked, Later
<1> QED BY <1>1, <1>2, <1>4 DEF HandoffInv, BoardsKnown, Devised

LEMMA SubmitKeeps ==
  ASSUME HandoffInv, NEW c \in Clients, NEW d, NEW action, Submit(c, d, action)
  PROVE  OpsKnown' /\ ActionsStay
<1>1. OpsKnown
  BY DEF HandoffInv
<1>2. CASE UNCHANGED ops
  BY <1>1, <1>2, OpsSame
<1>3. CASE /\ ops[c] = NoOp
           /\ ops' = [ops EXCEPT ![c] =
                [status |-> "queued", device |-> d, action |-> action, why |-> "none"]]
  <2>1. PICK o : o = [status |-> "queued", device |-> d, action |-> action, why |-> "none"]
    OBVIOUS
  <2>2. OpIs(o) /\ o.status # "none" /\ ops' = [ops EXCEPT ![c] = o]
    BY <1>3, <2>1 DEF OpIs
  <2> QED BY <1>1, <1>3, <2>2, OpsSet
<1> QED BY <1>2, <1>3 DEF Submit

LEMMA ClientKeeps ==
  ASSUME HandoffInv, NEW c \in Clients,
         BringManifest(c) \/ OpenForm(c) \/ SendPart(c) \/ EndBody(c) \/ Request(c) \/ Lose(c)
  PROVE  HandoffInv'
<1>1. worker' = worker /\ usb' = usb /\ boards' = boards
  BY DEF BringManifest, OpenForm, SendPart, EndBody, Request, Lose, hardware
<1>2. UNCHANGED ops \/ \E d, action : Submit(c, d, action)
  <2>1. BringManifest(c) \/ OpenForm(c) \/ SendPart(c) \/ Lose(c) => UNCHANGED ops
    BY Zenon DEF BringManifest, OpenForm, SendPart, Lose
  <2>2. EndBody(c) => UNCHANGED ops \/ \E d, action : Submit(c, d, action)
    BY DEF EndBody
  <2>3. Request(c) => UNCHANGED ops \/ \E d, action : Submit(c, d, action)
    BY DEF Request
  <2> QED BY <2>1, <2>2, <2>3
<1>3. OpsKnown' /\ ActionsStay
  BY <1>2, OpsSame, SubmitKeeps DEF HandoffInv
<1> QED BY <1>1, <1>3, OpsKnownKeep

-----------------------------------------------------------------------------
(* All together. *)

LEMMA HandoffStarts == ASSUME SessionAssumption, Init PROVE HandoffInv
<1>1. PICK on \in Boards :
        /\ usb = [d \in Devices |-> Attachment(IF d = 1 THEN on ELSE NoBoard)]
        /\ boards = [x \in Boards |->
             [cells |-> [i \in 0 .. Kind[x].capacity - 1 |-> <<"old", i>>],
              mode |-> IF x = on THEN "app" ELSE "off", run |-> 1, said |-> 0]]
  BY DEF Init
<1>2. worker = [d \in Devices |-> IdleWorker] /\ ops = [c \in Clients |-> NoOp]
  BY DEF Init
<1>3. boards = [b \in Boards |-> boards[b]] /\ usb = [d \in Devices |-> usb[d]]
      /\ worker = [d \in Devices |-> worker[d]]
  BY <1>1, <1>2
<1>4. ASSUME NEW b \in Boards PROVE BoardIs(boards[b])
  <2>1. PICK cells, mode : boards[b] = [cells |-> cells, mode |-> mode, run |-> 1, said |-> 0]
    BY <1>1
  <2> QED BY <2>1 DEF BoardIs
<1>5. OpsKnown
  BY <1>2 DEF OpsKnown
<1>6. ASSUME NEW d \in Devices
      PROVE  /\ UsbIs(usb[d]) /\ usb[d].board = IF d = 1 THEN on ELSE NoBoard
             /\ usb[d].attached = (usb[d].board # NoBoard)
             /\ usb[d].wired = (usb[d].board # NoBoard)
             /\ usb[d].pending = <<>> /\ usb[d].incoming = <<>>
  <2>1. PICK b : b = IF d = 1 THEN on ELSE NoBoard
    OBVIOUS
  <2>2. usb[d] = Attachment(b)
    BY <1>1, <2>1
  <2> QED BY <2>1, <2>2 DEF Attachment, UsbIs
<1>7. ASSUME NEW d \in Devices PROVE Sound(worker[d], usb[d], Board(d), KindOf(d))
  <2>1. worker[d] = IdleWorker
    BY <1>2
  <2>2. /\ WorkerIs(worker[d]) /\ worker[d].pc = "idle" /\ worker[d].seen = <<>>
        /\ worker[d].holds = FALSE /\ worker[d].proto = FALSE /\ worker[d].from = <<0, 0>>
    BY <2>1, IdleIs
  <2>3. PICK w, u : w = worker[d] /\ u = usb[d]
    OBVIOUS
  <2>4. Placed(w, u, KindOf(d)) /\ Streams(w, u, Board(d), KindOf(d))
    BY <1>6, <2>2, <2>3 DEF Placed, Opening, ForReset, Streams, Listening
  <2>5. w.from \in Bytes /\ w.seen \in Seq(Bytes) /\ u.pending \in Seq(Bytes) /\ u.incoming \in Seq(Bytes)
    <3>1. /\ w.from = <<0, 0>> /\ w.seen = <<>> /\ u.pending = <<>> /\ u.incoming = <<>>
      BY <1>6, <2>2, <2>3
    <3>2. <<0, 0>> \in Bytes /\ <<>> \in Seq(Bytes)
      BY DEF Bytes
    <3> QED BY <3>1, <3>2
  <2> QED BY <1>6, <2>2, <2>3, <2>4, <2>5 DEF Sound
<1>8. InOrder
  <2>1. PICK n \in Devices : Devices = 1 .. n
    BY DEF SessionAssumption
  <2>2. \A d \in Devices : d \in Nat /\ d >= 1
    <3>1. n \in 1 .. n
      BY <2>1
    <3> QED BY <2>1, <3>1
  <2>3. ASSUME NEW d \in Devices, NEW x \in Devices, x < d PROVE d # 1
    BY <2>2, <2>3
  <2> QED BY <1>6, <2>3 DEF InOrder
<1>9. \A d \in Devices : worker[d].pc = "idle"
  BY <1>2, IdleIs
<1> QED BY <1>3, <1>4, <1>5, <1>7, <1>8, <1>9 DEF HandoffInv

LEMMA HandoffSteps == ASSUME SessionAssumption, HandoffInv, [Next]_vars PROVE HandoffInv'
<1>1. CASE Load \/ Preflight \/ Edit \/ UNCHANGED vars
  <2>1. worker' = worker /\ usb' = usb /\ boards' = boards /\ ops' = ops
    BY <1>1 DEF Load, Preflight, Edit, vars, hardware
  <2> QED BY <2>1, OpsSame, OpsKnownKeep DEF HandoffInv
<1>2. CASE \E c \in Clients : BringManifest(c) \/ OpenForm(c) \/ SendPart(c) \/ EndBody(c)
                              \/ Request(c) \/ Lose(c)
  BY <1>2, ClientKeeps
<1>3. CASE \E d \in Devices : Work(d) \/ Detach(d) \/ \E b \in Boards : Attach(d, b)
  BY <1>3, WorkSteps, DetachKeeps, AttachKeeps
<1>4. CASE \E b \in Boards : Speak(b) \/ Unplug(b)
  BY <1>4, SpeakKeeps, UnplugKeeps
<1> QED BY <1>1, <1>2, <1>3, <1>4 DEF Next

LEMMA HandoffShows == ASSUME HandoffInv PROVE HandoffIsClean
BY DEF HandoffInv, HandoffIsClean, Sound, Streams, Listening, Here, Live

(* prepare_monitor (src/src/backend/flashing.rs), UsbIo and the worker's    *)
(* reader: whatever was on the wire when an operation came to its end, and  *)
(* whoever unplugs, detaches or attaches meanwhile, a reader that works has *)
(* got all that the firmware wrote since it was started, or since the port  *)
(* was opened, in order, and nothing of the loader's protocol with it.      *)
THEOREM ReadersHearTheFirmware == Spec => []HandoffIsClean
<1>1. Init => HandoffInv
  BY SessionAssumption, HandoffStarts
<1>2. HandoffInv /\ [Next]_vars => HandoffInv'
  BY SessionAssumption, HandoffSteps
<1>3. HandoffInv => HandoffIsClean
  BY HandoffShows
<1> QED BY <1>1, <1>2, <1>3, PTL DEF Spec

-----------------------------------------------------------------------------
(* Numbers and data. *)

IsData(x) == x \in Seq(ToSet(x))

LEMMA Rounds ==
  ASSUME NEW n \in Nat, NEW k \in Nat \ {0}
  PROVE  /\ RoundUp(n, k) \in Nat /\ n <= RoundUp(n, k)
         /\ RoundDown(n, k) \in Nat /\ RoundDown(n, k) <= n
<1>1. ASSUME NEW m \in Nat PROVE m \div k \in Nat /\ (m \div k) * k <= m /\ m < (m \div k) * k + k
  OBVIOUS
<1>2. PICK m \in Nat : m = (n + k) - 1
  OBVIOUS
<1>3. PICK q \in Nat : q = m \div k
  BY <1>1
<1>4. q * k \in Nat /\ m < q * k + k
  BY <1>1, <1>3
<1>5. n <= q * k
  BY <1>2, <1>4
<1>6. RoundUp(n, k) = q * k
  BY <1>2, <1>3 DEF RoundUp
<1>7. PICK r \in Nat : r = n \div k
  BY <1>1
<1>8. r * k \in Nat /\ r * k <= n
  BY <1>1, <1>7
<1>9. RoundDown(n, k) = r * k
  BY <1>7 DEF RoundDown
<1> QED BY <1>4, <1>5, <1>6, <1>8, <1>9

LEMMA SetOf ==
  ASSUME NEW S, NEW s \in Seq(S)
  PROVE  /\ IsData(s) /\ \A i \in 1 .. Len(s) : s[i] \in ToSet(s)
         /\ \A x \in ToSet(s) : \E i \in 1 .. Len(s) : x = s[i]
<1>1. DOMAIN s = 1 .. Len(s) /\ Len(s) \in Nat
  OBVIOUS
<1>2. \A i \in 1 .. Len(s) : s[i] \in ToSet(s)
  BY <1>1 DEF ToSet
<1>3. s \in Seq(ToSet(s))
  <2>1. PICK T : T = ToSet(s)
    OBVIOUS
  <2>2. s \in Seq(T)
    BY <1>2, <2>1
  <2> QED BY <2>1, <2>2
<1> QED BY <1>1, <1>2, <1>3 DEF IsData, ToSet

LEMMA MadeIs ==
  ASSUME NEW n \in Nat, NEW f, f = [i \in 1 .. n |-> f[i]]
  PROVE  IsData(f) /\ Len(f) = n /\ DOMAIN f = 1 .. n
<1>1. PICK S : S = {f[i] : i \in 1 .. n}
  OBVIOUS
<1>2. f \in [1 .. n -> S]
  BY <1>1
<1>3. f \in Seq(S) /\ Len(f) = n
  BY <1>2
<1> QED BY <1>2, <1>3, SetOf

LEMMA DataIs ==
  ASSUME NEW file, file.size \in Nat PROVE IsData(Data(file)) /\ Len(Data(file)) = file.size
<1>1. PICK f : f = Data(file)
  OBVIOUS
<1>2. f = [i \in 1 .. file.size |-> f[i]]
  BY <1>1 DEF Data
<1> QED BY <1>1, <1>2, MadeIs

LEMMA PadIs ==
  ASSUME NEW data, IsData(data)
  PROVE  /\ IsData(Pad(data)) /\ Len(Pad(data)) = RoundUp(Len(data), Align)
         /\ Len(data) \in Nat /\ Len(Pad(data)) \in Nat /\ Len(data) <= Len(Pad(data))
         /\ \A i \in 1 .. Len(data) : Pad(data)[i] = data[i]
         /\ SubSeq(Pad(data), 1, Len(data)) = data
<1>1. PICK S : S = ToSet(data) \cup {Blank}
  OBVIOUS
<1>2. PICK l \in Nat : l = Len(data)
  BY DEF IsData
<1>3. PICK m \in Nat : m = RoundUp(l, Align) /\ l <= m
  BY Rounds, PlanAssumption
<1>4. PICK t : t = [i \in 1 .. m - l |-> Blank]
  OBVIOUS
<1>5. m - l \in Nat
  BY <1>3
<1>6. t \in [1 .. m - l -> S]
  BY <1>1, <1>4
<1>7. t \in Seq(S) /\ Len(t) = m - l
  BY <1>5, <1>6
<1>8. data \in Seq(S)
  BY <1>1 DEF IsData
<1>9. PICK p : p = data \o t
  OBVIOUS
<1>10. /\ p \in Seq(S) /\ Len(p) = l + (m - l)
       /\ \A i \in 1 .. l : p[i] = data[i]
  BY <1>2, <1>7, <1>8, <1>9
<1>11. Len(p) = m
  BY <1>3, <1>10
<1>12. Pad(data) = p
  BY <1>2, <1>3, <1>4, <1>9 DEF Pad
<1>13. IsData(p)
  BY <1>10, SetOf
<1>14. SubSeq(p, 1, l) = data
  <2>1. l \in 0 .. Len(p)
    BY <1>3, <1>11
  <2>2. PICK q : q = SubSeq(p, 1, l)
    OBVIOUS
  <2>3. q \in Seq(S) /\ Len(q) = l /\ \A i \in 1 .. l : q[i] = p[i]
    BY <1>10, <2>1, <2>2
  <2>4. q = data
    BY <1>2, <1>8, <1>10, <2>3
  <2> QED BY <2>2, <2>4
<1> QED BY <1>2, <1>3, <1>10, <1>11, <1>12, <1>13, <1>14

-----------------------------------------------------------------------------
(* Sorting, and sums. *)

(* What a permutation p of 1 .. n does that sorts different numbers.        *)
Sorts(p, n, o) ==
  /\ p \in [1 .. n -> 1 .. n] /\ \A j \in 1 .. n : \E i \in 1 .. n : p[i] = j
  /\ \A i, j \in 1 .. n : i < j => o[p[i]] < o[p[j]]

LEMMA Between == ASSUME NEW x \in Nat, NEW y \in Nat, NEW z \in Nat, x < y, y < z PROVE x < z
OBVIOUS

LEMMA SortsMore ==
  ASSUME NEW N \in Nat, NEW o \in [1 .. N -> Nat], \A i, j \in 1 .. N : i # j => o[i] # o[j],
         NEW n \in Nat, n + 1 <= N, NEW p, Sorts(p, n, o)
  PROVE  \E q : Sorts(q, n + 1, o)
<1>1. /\ p \in [1 .. n -> 1 .. n] /\ \A j \in 1 .. n : \E i \in 1 .. n : p[i] = j
      /\ \A i, j \in 1 .. n : i < j => o[p[i]] < o[p[j]]
  BY DEF Sorts
<1>2. PICK e \in 1 .. N : e = n + 1
  OBVIOUS
<1>3. ASSUME NEW i \in 1 .. n
      PROVE  p[i] \in 1 .. n /\ p[i] \in 1 .. N /\ p[i] # e /\ o[p[i]] \in Nat
  <2>1. p[i] \in 1 .. n
    BY <1>1
  <2>2. p[i] \in 1 .. N /\ p[i] # e
    BY <1>2, <2>1
  <2> QED BY <2>1, <2>2
<1>4. PICK K : K = {k \in 1 .. n + 1 : k = n + 1 \/ o[e] < o[p[k]]}
  OBVIOUS
<1>5. K \in SUBSET Nat /\ n + 1 \in K
  BY <1>4
<1>6. PICK k \in K : \A x \in K : k <= x
  <2>1. K # {}
    BY <1>5
  <2> QED BY <1>5, <2>1, LeastNumber
<1>7. k \in 1 .. n + 1
  BY <1>4
<1>8. ASSUME NEW i \in 1 .. n, i < k PROVE o[p[i]] < o[e]
  <2>1. i \notin K /\ i \in 1 .. n + 1
    BY <1>6, <1>7, <1>8
  <2>2. ~(o[e] < o[p[i]])
    BY <1>4, <2>1
  <2>3. o[p[i]] # o[e] /\ o[e] \in Nat
    BY <1>3
  <2> QED BY <1>3, <2>2, <2>3
<1>9. ASSUME NEW i \in 1 .. n, i >= k PROVE o[e] < o[p[i]]
  <2>1. k \in 1 .. n /\ o[e] < o[p[k]]
    BY <1>4, <1>6, <1>7, <1>9
  <2>2. i = k \/ o[p[k]] < o[p[i]]
    <3>1. k < i \/ i = k
      BY <1>9, <2>1
    <3> QED BY <1>1, <2>1, <3>1
  <2>3. o[p[k]] \in Nat /\ o[p[i]] \in Nat /\ o[e] \in Nat
    BY <1>3, <2>1
  <2>4. CASE i = k
    BY <2>1, <2>4
  <2>5. CASE o[p[k]] < o[p[i]]
    BY Zenon, <2>1, <2>3, <2>5, Between
  <2> QED BY <2>2, <2>4, <2>5
<1>10. PICK q : q = [i \in 1 .. n + 1 |-> IF i < k THEN p[i] ELSE IF i = k THEN e ELSE p[i - 1]]
  OBVIOUS
<1>11. /\ \A i \in 1 .. n + 1 : i < k => i \in 1 .. n /\ q[i] = p[i]
       /\ q[k] = e
       /\ \A i \in 1 .. n + 1 : i > k => i - 1 \in 1 .. n /\ i - 1 >= k /\ q[i] = p[i - 1]
  BY <1>7, <1>10
<1>12. q \in [1 .. n + 1 -> 1 .. n + 1]
  <2>1. ASSUME NEW i \in 1 .. n + 1 PROVE q[i] \in 1 .. n + 1
    <3>1. CASE i < k
      <4>1. q[i] = p[i] /\ p[i] \in 1 .. n
        BY <1>3, <1>11, <3>1
      <4> QED BY <4>1
    <3>2. CASE i = k
      BY <1>2, <1>11, <3>2
    <3>3. CASE i > k
      <4>1. q[i] = p[i - 1] /\ p[i - 1] \in 1 .. n
        BY <1>3, <1>11, <3>3
      <4> QED BY <4>1
    <3> QED BY <1>7, <3>1, <3>2, <3>3
  <2> QED BY <1>10, <2>1
<1>13. ASSUME NEW j \in 1 .. n + 1 PROVE \E i \in 1 .. n + 1 : q[i] = j
  <2>1. CASE j = e
    BY <1>7, <1>11, <2>1
  <2>2. CASE j # e
    <3>1. PICK i \in 1 .. n : p[i] = j
      BY <1>1, <1>2, <2>2
    <3>2. CASE i < k
      BY <1>11, <3>1, <3>2
    <3>3. CASE i >= k
      <4>1. PICK x \in 1 .. n + 1 : x = i + 1
        BY <3>1
      <4>2. x > k /\ x - 1 = i
        BY <1>7, <3>1, <3>3, <4>1
      <4> QED BY <1>11, <3>1, <4>1, <4>2
    <3> QED BY <1>7, <3>2, <3>3
  <2> QED BY <2>1, <2>2
<1>14. ASSUME NEW i \in 1 .. n + 1, NEW j \in 1 .. n + 1, i < j PROVE o[q[i]] < o[q[j]]
  <2>1. CASE i < k /\ j < k
    BY <1>1, <1>11, <1>14, <2>1
  <2>2. CASE i < k /\ j = k
    BY <1>8, <1>11, <2>2
  <2>3. CASE i < k /\ j > k
    <3>1. o[p[i]] < o[e] /\ o[e] < o[p[j - 1]] /\ i \in 1 .. n /\ j - 1 \in 1 .. n
      BY <1>8, <1>9, <1>11, <2>3
    <3>2. q[i] = p[i] /\ q[j] = p[j - 1]
      BY <1>11, <2>3
    <3>3. o[p[i]] \in Nat /\ o[e] \in Nat /\ o[p[j - 1]] \in Nat
      BY <1>3, <3>1
    <3>4. o[p[i]] < o[p[j - 1]]
      BY Zenon, <3>1, <3>3, Between
    <3> QED BY <3>2, <3>4
  <2>4. CASE i = k /\ j > k
    BY <1>9, <1>11, <2>4
  <2>5. CASE i > k /\ j > k
    <3>1. i - 1 < j - 1 /\ i - 1 \in 1 .. n /\ j - 1 \in 1 .. n
      BY <1>11, <1>14, <2>5
    <3>2. o[p[i - 1]] < o[p[j - 1]]
      BY <1>1, <3>1
    <3> QED BY <1>11, <2>5, <3>2
  <2> QED BY <1>7, <1>14, <2>1, <2>2, <2>3, <2>4, <2>5
<1> QED BY <1>12, <1>13, <1>14 DEF Sorts

LEMMA SortsAll ==
  ASSUME NEW N \in Nat, NEW o \in [1 .. N -> Nat], \A i, j \in 1 .. N : i # j => o[i] # o[j]
  PROVE  \E p : Sorts(p, N, o)
<1> DEFINE T == {n \in Nat : n <= N => \E p : Sorts(p, n, o)}
<1>1. 0 \in T
  <2>1. PICK p : p = [i \in 1 .. 0 |-> i]
    OBVIOUS
  <2>2. Sorts(p, 0, o)
    BY <2>1 DEF Sorts
  <2> QED BY <2>2
<1>2. ASSUME NEW n \in T PROVE n + 1 \in T
  <2>1. n \in Nat /\ (n <= N => \E p : Sorts(p, n, o))
    OBVIOUS
  <2>2. ASSUME n + 1 <= N PROVE \E q : Sorts(q, n + 1, o)
    <3>1. n <= N
      BY <2>1, <2>2
    <3>2. PICK p : Sorts(p, n, o)
      BY <2>1, <3>1
    <3> QED BY <2>1, <2>2, <3>2, SortsMore
  <2>3. n + 1 \in Nat
    BY <2>1
  <2> QED BY <2>2, <2>3
<1>3. T = Nat
  <2>1. T \in SUBSET Nat
    OBVIOUS
  <2> HIDE DEF T
  <2> QED BY <1>1, <1>2, <2>1, Induction
<1>4. \A n \in T : n <= N => \E p : Sorts(p, n, o)
  OBVIOUS
<1>5. N \in T /\ N <= N
  <2> HIDE DEF T
  <2> QED BY <1>3
<1> HIDE DEF T
<1> QED BY <1>4, <1>5

Rises(t) == \A i, j \in DOMAIN t : i < j => t[i].offset < t[j].offset

(* What sort_by_key returns of a list that has no offset twice.             *)
LEMMA ByOffsetIs ==
  ASSUME NEW s, Listing(s), \A i, j \in DOMAIN s : i # j => s[i].offset # s[j].offset
  PROVE  /\ Listing(ByOffset(s)) /\ Len(ByOffset(s)) = Len(s)
         /\ ToSet(ByOffset(s)) = ToSet(s) /\ Rises(ByOffset(s))
<1>1. PICK N \in Nat : N = Len(s) /\ DOMAIN s = 1 .. N
  BY DEF Listing
<1>2. PICK o : o = [i \in 1 .. N |-> s[i].offset]
  OBVIOUS
<1>3. o \in [1 .. N -> Nat] /\ \A i, j \in 1 .. N : i # j => o[i] # o[j]
  BY <1>1, <1>2 DEF Listing
<1>4. PICK p : Sorts(p, N, o)
  BY <1>3, SortsAll
<1>5. PICK S : S = ToSet(s)
  OBVIOUS
<1>6. /\ \A i \in 1 .. N : s[i] \in S
      /\ \A x \in S : \E i \in 1 .. N : x = s[i]
  BY <1>1, <1>5 DEF ToSet
<1> DEFINE ThatSort(t) == /\ t \in [DOMAIN s -> ToSet(s)] /\ ToSet(t) = ToSet(s)
                          /\ \A i, j \in DOMAIN t : i < j => t[i].offset < t[j].offset
<1>7. PICK t : t = [i \in 1 .. N |-> s[p[i]]]
  OBVIOUS
<1>8. /\ \A i \in 1 .. N : p[i] \in 1 .. N /\ t[i] = s[p[i]] /\ t[i].offset = o[p[i]]
      /\ DOMAIN t = 1 .. N
  BY <1>2, <1>4, <1>7 DEF Sorts
<1>9. t \in [1 .. N -> S]
  BY <1>6, <1>7, <1>8
<1>10. ToSet(t) = S
  <2>1. ASSUME NEW x \in S PROVE x \in ToSet(t)
    <3>1. PICK j \in 1 .. N : x = s[j]
      BY <1>6
    <3>2. PICK i \in 1 .. N : p[i] = j
      BY <1>4 DEF Sorts
    <3> QED BY <1>8, <3>1, <3>2 DEF ToSet
  <2>2. ASSUME NEW x \in ToSet(t) PROVE x \in S
    BY <1>8, <1>9, <2>2 DEF ToSet
  <2> QED BY <2>1, <2>2
<1>11. ThatSort(t)
  <2>1. \A i, j \in DOMAIN t : i < j => t[i].offset < t[j].offset
    <3>1. \A i, j \in 1 .. N : i < j => o[p[i]] < o[p[j]]
      BY <1>4 DEF Sorts
    <3>2. DOMAIN t = 1 .. N /\ \A i \in 1 .. N : t[i].offset = o[p[i]]
      BY <1>8
    <3> HIDE DEF ThatSort
    <3> QED BY <3>1, <3>2
  <2> QED BY <1>1, <1>5, <1>9, <1>10, <2>1
<1>12. PICK u : u = ByOffset(s)
  OBVIOUS
<1>13. ThatSort(u)
  <2>1. u = CHOOSE v : ThatSort(v)
    BY <1>12 DEF ByOffset
  <2> HIDE DEF ThatSort
  <2> QED BY <1>11, <2>1
<1>14. u \in [1 .. N -> S] /\ ToSet(u) = S
  BY <1>1, <1>5, <1>13
<1>15. u \in Seq(S) /\ Len(u) = N
  BY <1>14
<1>16. \A n \in DOMAIN u : u[n].offset \in Nat
  BY <1>1, <1>6, <1>14 DEF Listing
<1>17. Listing(u) /\ Rises(u)
  BY <1>13, <1>14, <1>15, <1>16 DEF Listing, Rises
<1> QED BY <1>1, <1>5, <1>12, <1>14, <1>15, <1>17

(* Two sorted lists of the same are the same.                               *)
LEMMA SortedAlike ==
  ASSUME NEW s, NEW t, Listing(s), Listing(t), Rises(s), Rises(t), Len(s) = Len(t),
         ToSet(s) = ToSet(t)
  PROVE  s = t
<1>1. PICK N \in Nat : Len(s) = N /\ Len(t) = N /\ DOMAIN s = 1 .. N /\ DOMAIN t = 1 .. N
  BY DEF Listing
<1>2. /\ \A i \in 1 .. N : \E j \in 1 .. N : s[i] = t[j]
      /\ \A i \in 1 .. N : \E j \in 1 .. N : t[i] = s[j]
  BY <1>1 DEF ToSet
<1>3. \A i \in 1 .. N : s[i].offset \in Nat /\ t[i].offset \in Nat
  BY <1>1 DEF Listing
<1>4. \A i, j \in 1 .. N : i < j => s[i].offset < s[j].offset /\ t[i].offset < t[j].offset
  BY <1>1 DEF Rises
<1>5. PICK D : D = {i \in 1 .. N : s[i] # t[i]}
  OBVIOUS
<1>6. ASSUME D # {} PROVE FALSE
  <2>1. PICK x \in D : \A y \in D : x <= y
    <3>1. D \in SUBSET Nat
      BY <1>5
    <3> QED BY <1>6, <3>1, LeastNumber
  <2>2. x \in 1 .. N /\ s[x] # t[x] /\ \A i \in 1 .. N : i < x => s[i] = t[i]
    BY <1>5, <2>1
  <2>3. PICK j \in 1 .. N : s[x] = t[j]
    BY <1>2, <2>2
  <2>4. PICK k \in 1 .. N : t[x] = s[k]
    BY <1>2, <2>2
  <2>5. j > x
    <3>1. ~(j < x)
      BY <1>3, <1>4, <2>2, <2>3
    <3> QED BY <2>2, <2>3, <3>1
  <2>6. k > x
    <3>1. ~(k < x)
      BY <1>3, <1>4, <2>2, <2>4
    <3> QED BY <2>2, <2>4, <3>1
  <2>7. t[x].offset < t[j].offset /\ s[x].offset < s[k].offset
    BY <1>4, <2>2, <2>5, <2>6
  <2> QED BY <1>3, <2>2, <2>3, <2>4, <2>7
<1>7. \A i \in 1 .. N : s[i] = t[i]
  BY <1>5, <1>6
<1>8. PICK S : S = ToSet(s)
  OBVIOUS
<1>9. s \in Seq(S) /\ t \in Seq(S)
  BY <1>8 DEF Listing
<1> QED BY <1>1, <1>7, <1>9

(* What Total computes, by its recursion.                                   *)
LEMMA TotalSteps ==
  ASSUME NEW s \in Seq(Nat)
  PROVE  \E u \in [0 .. Len(s) -> Nat] :
           /\ u[0] = 0 /\ \A n \in 1 .. Len(s) : u[n] = u[n - 1] + s[n]
           /\ Total(s) = u[Len(s)]
<1>1. PICK last \in Nat : last = Len(s)
  OBVIOUS
<1>2. \A n \in 1 .. last : s[n] \in Nat
  BY <1>1
<1> DEFINE g == [p \in Nat \X (1 .. last) |-> p[1] + s[p[2]]]
           IsTotal(u) == u = [n \in 0 .. last |-> IF n = 0 THEN 0 ELSE u[n - 1] + s[n]]
<1>3. g \in [Nat \X (1 .. last) -> Nat]
  BY <1>2
<1>4. PICK f \in [0 .. last -> Nat] : Recurs(f, 0, last, g)
  <2> HIDE DEF g
  <2> QED BY <1>3, Recursion
<1>5. f[0] = 0 /\ \A n \in 1 .. last : f[n] = f[n - 1] + s[n]
  <2>1. \A n \in 1 .. last : <<f[n - 1], n>> \in Nat \X (1 .. last)
    <3>1. \A n \in 1 .. last : n - 1 \in 0 .. last
      OBVIOUS
    <3> QED BY <3>1
  <2>2. \A p \in Nat \X (1 .. last) : g[p] = p[1] + s[p[2]]
    OBVIOUS
  <2>3. f[0] = 0 /\ \A n \in 1 .. last : f[n] = g[<<f[n - 1], n>>]
    BY <1>4 DEF Recurs
  <2> HIDE DEF g
  <2> QED BY <2>1, <2>2, <2>3
<1>6. IsTotal(f)
  <2>1. \A n \in 0 .. last : n # 0 => n \in 1 .. last
    OBVIOUS
  <2> QED BY <1>5, <2>1
<1>7. PICK u : u = CHOOSE h : IsTotal(h)
  OBVIOUS
<1>8. IsTotal(u)
  <2> HIDE DEF IsTotal
  <2> QED BY <1>6, <1>7
<1>9. Total(s) = u[last]
  BY <1>1, <1>7 DEF Total
<1>10. u[0] = 0 /\ \A n \in 1 .. last : u[n] = u[n - 1] + s[n]
  <2>1. 0 \in 0 .. last /\ \A n \in 1 .. last : n \in 0 .. last /\ n # 0
    OBVIOUS
  <2> QED BY <1>8, <2>1
<1> DEFINE T == {n \in Nat : n <= last => u[n] \in Nat}
<1>11. T = Nat
  <2>1. 0 \in T
    BY <1>10
  <2>2. ASSUME NEW n \in T PROVE n + 1 \in T
    <3>1. SUFFICES ASSUME n + 1 <= last PROVE u[n + 1] \in Nat
      OBVIOUS
    <3>2. n + 1 \in 1 .. last /\ (n + 1) - 1 = n /\ u[n] \in Nat
      BY <3>1
    <3>3. u[n + 1] = u[n] + s[n + 1] /\ s[n + 1] \in Nat
      BY <1>2, <1>10, <3>2
    <3> QED BY SMTT(30), <3>2, <3>3
  <2>3. T \in SUBSET Nat
    OBVIOUS
  <2> HIDE DEF T
  <2> QED BY <2>1, <2>2, <2>3, Induction
<1>12. \A n \in 0 .. last : u[n] \in Nat
  <2>1. \A n \in T : n <= last => u[n] \in Nat
    OBVIOUS
  <2> HIDE DEF T
  <2> QED BY <1>11, <2>1
<1>13. u \in [0 .. last -> Nat]
  BY <1>8, <1>12
<1> QED BY <1>1, <1>9, <1>10, <1>13

(* What is padded is not less than what was there.                          *)
LEMMA TotalLess ==
  ASSUME NEW s \in Seq(Nat), NEW t \in Seq(Nat), Len(s) = Len(t),
         \A n \in 1 .. Len(s) : s[n] <= t[n]
  PROVE  Total(s) \in Nat /\ Total(t) \in Nat /\ Total(s) <= Total(t)
<1>1. PICK last \in Nat : last = Len(s) /\ last = Len(t)
  OBVIOUS
<1>2. \A n \in 1 .. last : s[n] \in Nat /\ t[n] \in Nat /\ s[n] <= t[n]
  BY <1>1
<1>3. PICK u \in [0 .. last -> Nat] :
        /\ u[0] = 0 /\ \A n \in 1 .. last : u[n] = u[n - 1] + s[n]
        /\ Total(s) = u[last]
  BY <1>1, TotalSteps
<1>4. PICK v \in [0 .. last -> Nat] :
        /\ v[0] = 0 /\ \A n \in 1 .. last : v[n] = v[n - 1] + t[n]
        /\ Total(t) = v[last]
  BY <1>1, TotalSteps
<1> DEFINE T == {n \in Nat : n <= last => u[n] <= v[n]}
<1>5. T = Nat
  <2>1. 0 \in T
    BY <1>3, <1>4
  <2>2. ASSUME NEW n \in T PROVE n + 1 \in T
    <3>1. SUFFICES ASSUME n + 1 <= last PROVE u[n + 1] <= v[n + 1]
      OBVIOUS
    <3>2. /\ n + 1 \in 1 .. last /\ (n + 1) - 1 = n /\ u[n] <= v[n]
          /\ n \in 0 .. last /\ n + 1 \in 0 .. last
      BY <3>1
    <3>3. u[n + 1] = u[n] + s[n + 1] /\ v[n + 1] = v[n] + t[n + 1]
      BY <1>3, <1>4, <3>2
    <3>4. s[n + 1] \in Nat /\ t[n + 1] \in Nat /\ s[n + 1] <= t[n + 1]
      BY <1>2, <3>2
    <3>5. \A a, b, x, y \in Nat : a <= b /\ x <= y => a + x <= b + y
      OBVIOUS
    <3>6. u[n] \in Nat /\ v[n] \in Nat
      BY <3>2
    <3> HIDE DEF T
    <3>7. u[n] + s[n + 1] <= v[n] + t[n + 1]
      BY <3>2, <3>4, <3>5, <3>6
    <3> QED BY <3>3, <3>7
  <2>3. T \in SUBSET Nat
    OBVIOUS
  <2> HIDE DEF T
  <2> QED BY <2>1, <2>2, <2>3, Induction
<1>6. u[last] <= v[last]
  <2>1. \A n \in T : n <= last => u[n] <= v[n]
    OBVIOUS
  <2>2. last \in T /\ last <= last
    <3> HIDE DEF T
    <3> QED BY <1>5
  <2> HIDE DEF T
  <2> QED BY <2>1, <2>2
<1>7. last \in 0 .. last
  OBVIOUS
<1> QED BY <1>3, <1>4, <1>6, <1>7

-----------------------------------------------------------------------------
(* What is prepared, and what comes of a manifest. *)

SegmentIs(s) ==
  /\ s = [offset |-> s.offset, data |-> s.data, size |-> s.size] /\ s.offset \in Nat
  /\ \E content : /\ IsData(content) /\ Len(content) > 0
                  /\ s.data = Pad(content) /\ s.size = Len(content)

Apart(segments) ==
  \A i, j \in DOMAIN segments :
    i # j /\ segments[i].offset <= segments[j].offset
      => RoundUp(segments[i].offset + Len(segments[i].data), Sector)
           <= RoundDown(segments[j].offset, Sector)

SegmentsAre(segments) ==
  Listing(segments) /\ (\A n \in DOMAIN segments : SegmentIs(segments[n])) /\ Apart(segments)

LEMMA SegmentHas ==
  ASSUME NEW s, SegmentIs(s)
  PROVE  /\ IsData(s.data) /\ Len(s.data) \in Nat \ {0}
         /\ s.size \in Nat \ {0} /\ s.size <= Len(s.data)
         /\ Len(s.data) = RoundUp(s.size, Align)
         /\ s.offset + Len(s.data) \in Nat
<1>1. PICK content : IsData(content) /\ Len(content) > 0 /\ s.data = Pad(content) /\ s.size = Len(content)
  BY DEF SegmentIs
<1>2. s.offset \in Nat
  BY DEF SegmentIs
<1>3. IsData(s.data) /\ Len(s.data) = RoundUp(s.size, Align) /\ s.size <= Len(s.data)
  BY <1>1, PadIs
<1>4. s.size \in Nat \ {0}
  BY <1>1 DEF IsData
<1>5. Len(s.data) \in Nat
  BY <1>3 DEF IsData
<1> QED BY <1>2, <1>3, <1>4, <1>5

LEMMA ApartDiffer ==
  ASSUME NEW segments, SegmentsAre(segments),
         NEW i \in DOMAIN segments, NEW j \in DOMAIN segments, i # j
  PROVE  segments[i].offset # segments[j].offset
<1>1. PICK s, t : s = segments[i] /\ t = segments[j]
  OBVIOUS
<1>2. SegmentIs(s) /\ SegmentIs(t)
  BY <1>1 DEF SegmentsAre
<1>3. s.offset \in Nat /\ t.offset \in Nat /\ Len(s.data) \in Nat \ {0} /\ s.offset + Len(s.data) \in Nat
  BY <1>2, SegmentHas DEF SegmentIs
<1>4. /\ s.offset + Len(s.data) <= RoundUp(s.offset + Len(s.data), Sector)
      /\ RoundUp(s.offset + Len(s.data), Sector) \in Nat
      /\ RoundDown(t.offset, Sector) <= t.offset /\ RoundDown(t.offset, Sector) \in Nat
  BY <1>3, Rounds, PlanAssumption
<1>5. s.offset <= t.offset => RoundUp(s.offset + Len(s.data), Sector) <= RoundDown(t.offset, Sector)
  BY <1>1 DEF SegmentsAre, Apart
<1> QED BY <1>1, <1>3, <1>4, <1>5

LEMMA SortedSegments ==
  ASSUME NEW s, SegmentsAre(s)
  PROVE  /\ SegmentsAre(ByOffset(s)) /\ Rises(ByOffset(s))
         /\ Len(ByOffset(s)) = Len(s) /\ ToSet(ByOffset(s)) = ToSet(s)
<1>1. Listing(s) /\ \A i, j \in DOMAIN s : i # j => s[i].offset # s[j].offset
  BY ApartDiffer DEF SegmentsAre
<1>2. PICK t : t = ByOffset(s)
  OBVIOUS
<1>3. Listing(t) /\ Len(t) = Len(s) /\ ToSet(t) = ToSet(s) /\ Rises(t)
  BY <1>1, <1>2, ByOffsetIs
<1>4. \A i \in DOMAIN t : \E k \in DOMAIN s : t[i] = s[k]
  BY <1>3 DEF ToSet
<1>5. \A i \in DOMAIN t : SegmentIs(t[i])
  BY <1>4 DEF SegmentsAre
<1>6. ASSUME NEW i \in DOMAIN t, NEW j \in DOMAIN t, i # j, t[i].offset <= t[j].offset
      PROVE  RoundUp(t[i].offset + Len(t[i].data), Sector) <= RoundDown(t[j].offset, Sector)
  <2>1. PICK k \in DOMAIN s : t[i] = s[k]
    BY <1>4
  <2>2. PICK l \in DOMAIN s : t[j] = s[l]
    BY <1>4
  <2>3. t[i].offset # t[j].offset
    <3>1. i \in Nat /\ j \in Nat
      BY <1>3 DEF Listing
    <3>2. t[i].offset \in Nat /\ t[j].offset \in Nat
      BY <1>3 DEF Listing
    <3> QED BY <1>3, <1>6, <3>1, <3>2 DEF Rises
  <2>4. k # l
    BY <2>1, <2>2, <2>3
  <2> QED BY <1>6, <2>1, <2>2, <2>4 DEF SegmentsAre, Apart
<1> QED BY <1>2, <1>3, <1>5, <1>6 DEF SegmentsAre, Apart

LEMMA SortedOnce ==
  ASSUME NEW s, SegmentsAre(s), Rises(s) PROVE ByOffset(s) = s
<1>1. Listing(s) /\ Listing(ByOffset(s)) /\ Rises(ByOffset(s))
  BY SortedSegments DEF SegmentsAre
<1>2. Len(ByOffset(s)) = Len(s) /\ ToSet(ByOffset(s)) = ToSet(s)
  BY SortedSegments
<1> QED BY <1>1, <1>2, SortedAlike

(* FlashPlan::prepare.                                                      *)
DiskIs(held) ==
  held = [f \in DOMAIN FirstDisk |-> held[f]] /\ \A f \in DOMAIN FirstDisk : held[f].size \in Nat

PreparedIs(p, plan, held) ==
  /\ p = [chip |-> plan.chip, capacity |-> plan.capacity, segments |-> p.segments]
  /\ SegmentsAre(p.segments) /\ Rises(p.segments) /\ Len(p.segments) \in 1 .. MaxSegments
  /\ \A n \in DOMAIN p.segments :
       /\ p.segments[n].offset % Align = 0
       /\ p.segments[n].offset + Len(p.segments[n].data) <= AddressSpace
       /\ \E m \in DOMAIN plan.segments :
            /\ p.segments[n].offset = plan.segments[m].offset
            /\ p.segments[n].data = Pad(Data(held[plan.segments[m].file]))
            /\ p.segments[n].size = held[plan.segments[m].file].size
  /\ \A i, j \in DOMAIN plan.segments : i # j => plan.segments[i].offset # plan.segments[j].offset

LEMMA PrepareIs ==
  ASSUME NEW plan, FilesAre(plan.segments), NEW held, DiskIs(held),
         NEW p, p = Prepare(plan, held), Ok(p)
  PROVE  PreparedIs(p, plan, held)
<1>1. PICK N \in Nat : N = Len(plan.segments) /\ DOMAIN plan.segments = 1 .. N
  BY DEF FilesAre, Listing
<1>2. PICK read : read = [n \in DOMAIN plan.segments |->
                            [offset |-> plan.segments[n].offset,
                             data |-> Pad(Data(held[plan.segments[n].file])),
                             size |-> held[plan.segments[n].file].size]]
  OBVIOUS
<1>3. PICK lengths : lengths = [n \in DOMAIN read |->
                                  [offset |-> read[n].offset, length |-> Len(read[n].data)]]
  OBVIOUS
<1>4. /\ Len(read) \in 1 .. MaxSegments
      /\ \A n \in DOMAIN read :
           /\ read[n].offset % Align = 0 /\ read[n].size > 0
           /\ read[n].offset + Len(read[n].data) <= AddressSpace
      /\ SectorsApart(lengths)
      /\ p = [chip |-> plan.chip, capacity |-> plan.capacity, segments |-> ByOffset(read)]
  BY Zenon, <1>2, <1>3 DEF Prepare, Ok
<1>5. DOMAIN read = 1 .. N /\ \A n \in 1 .. N :
        /\ read[n] = [offset |-> plan.segments[n].offset,
                      data |-> Pad(Data(held[plan.segments[n].file])),
                      size |-> held[plan.segments[n].file].size]
        /\ plan.segments[n].offset \in Nat /\ plan.segments[n].file \in DOMAIN FirstDisk
  BY <1>1, <1>2 DEF FilesAre, Listing
<1>6. Listing(read) /\ Len(read) = N
  <2>1. read = [n \in 1 .. N |-> read[n]]
    BY <1>2, <1>5
  <2>2. IsData(read) /\ Len(read) = N
    BY <2>1, MadeIs
  <2> QED BY <1>5, <2>2 DEF IsData, Listing
<1>7. ASSUME NEW n \in DOMAIN read PROVE SegmentIs(read[n])
  <2>1. PICK content : content = Data(held[plan.segments[n].file])
    OBVIOUS
  <2>2. held[plan.segments[n].file].size \in Nat
    BY <1>5, <1>7 DEF DiskIs
  <2>3. IsData(content) /\ Len(content) = read[n].size
    BY <1>5, <1>7, <2>1, <2>2, DataIs
  <2>4. read[n].size > 0 /\ read[n].data = Pad(content) /\ read[n].offset \in Nat
    BY <1>4, <1>5, <1>7, <2>1
  <2>5. read[n] = [offset |-> read[n].offset, data |-> read[n].data, size |-> read[n].size]
    BY <1>5, <1>7
  <2> QED BY <2>3, <2>4, <2>5 DEF SegmentIs
<1>8. Apart(read)
  <2>1. DOMAIN lengths = DOMAIN read
        /\ \A n \in DOMAIN read : /\ lengths[n].offset = read[n].offset
                                  /\ lengths[n].length = Len(read[n].data)
    BY <1>3
  <2> QED BY <1>4, <2>1 DEF Apart, SectorsApart
<1>9. SegmentsAre(read)
  BY <1>6, <1>7, <1>8 DEF SegmentsAre
<1>10. PICK s : s = ByOffset(read)
  OBVIOUS
<1>11. SegmentsAre(s) /\ Rises(s) /\ Len(s) = Len(read) /\ ToSet(s) = ToSet(read)
  BY <1>9, <1>10, SortedSegments
<1>12. \A n \in DOMAIN s : \E m \in DOMAIN read : s[n] = read[m]
  BY <1>11 DEF ToSet
<1>13. p.segments = s /\ p = [chip |-> plan.chip, capacity |-> plan.capacity, segments |-> s]
  BY <1>4, <1>10
<1>14. ASSUME NEW n \in DOMAIN s
       PROVE  /\ s[n].offset % Align = 0 /\ s[n].offset + Len(s[n].data) <= AddressSpace
              /\ \E m \in DOMAIN plan.segments :
                   /\ s[n].offset = plan.segments[m].offset
                   /\ s[n].data = Pad(Data(held[plan.segments[m].file]))
                   /\ s[n].size = held[plan.segments[m].file].size
  <2>1. PICK m \in DOMAIN read : s[n] = read[m]
    BY <1>12
  <2>2. m \in DOMAIN plan.segments
    BY <1>1, <1>5
  <2>3. s[n].offset % Align = 0 /\ s[n].offset + Len(s[n].data) <= AddressSpace
    BY Zenon, <1>4, <2>1
  <2>4. s[n] = [offset |-> plan.segments[m].offset,
                data |-> Pad(Data(held[plan.segments[m].file])),
                size |-> held[plan.segments[m].file].size]
    BY Zenon, <1>5, <2>1
  <2> QED BY <2>2, <2>3, <2>4
<1>15. \A i, j \in DOMAIN plan.segments : i # j => plan.segments[i].offset # plan.segments[j].offset
  <2>1. ASSUME NEW n \in DOMAIN plan.segments
        PROVE  n \in DOMAIN read /\ read[n].offset = plan.segments[n].offset
    <3>1. n \in 1 .. N /\ DOMAIN read = 1 .. N
      BY <1>1, <1>5, <2>1
    <3>2. read[n] = [offset |-> plan.segments[n].offset,
                     data |-> Pad(Data(held[plan.segments[n].file])),
                     size |-> held[plan.segments[n].file].size]
      BY <1>5, <3>1
    <3> QED BY <3>1, <3>2
  <2>2. \A i, j \in DOMAIN read : i # j => read[i].offset # read[j].offset
    BY <1>9, ApartDiffer
  <2> QED BY <2>1, <2>2
<1> QED BY <1>4, <1>11, <1>13, <1>14, <1>15 DEF PreparedIs

(* FlashUploadManifest.                                                     *)
Announces(m) ==
  /\ Listing(m.segments)
  /\ \A n \in DOMAIN m.segments :
       LET part == m.segments[n]
       IN part.size \in Nat /\ part.sha256 \in Seq(ToSet(part.sha256))

ManifestIs(m, p) ==
  /\ m.chip = p.chip /\ m.capacity = p.capacity
  /\ Announces(m) /\ DOMAIN m.segments = DOMAIN p.segments
  /\ \A n \in DOMAIN m.segments :
       LET part == m.segments[n]
       IN /\ part.offset = p.segments[n].offset /\ part.size = p.segments[n].size
          /\ Len(part.sha256) = part.size /\ Pad(part.sha256) = p.segments[n].data

LEMMA ManifestHas ==
  ASSUME NEW plan, NEW held, NEW p, PreparedIs(p, plan, held), NEW d, NEW m, m = Manifest(d, p), Ok(m)
  PROVE  /\ ManifestIs(m, p)
         /\ Total([n \in DOMAIN p.segments |-> Len(p.segments[n].data)]) <= MaxUpload
<1>1. PICK s, N : s = p.segments /\ N = Len(s)
  OBVIOUS
<1>2. N \in Nat /\ DOMAIN s = 1 .. N /\ Listing(s) /\ \A n \in 1 .. N : SegmentIs(s[n])
  BY <1>1 DEF PreparedIs, SegmentsAre, Listing
<1>3. PICK parts : parts = [n \in DOMAIN s |-> [offset |-> s[n].offset, size |-> s[n].size,
                                               sha256 |-> SubSeq(s[n].data, 1, s[n].size)]]
  OBVIOUS
<1>4. /\ ~(Total([n \in DOMAIN s |-> Len(s[n].data)]) > MaxUpload)
      /\ m = [device |-> d, chip |-> p.chip, capacity |-> p.capacity, segments |-> parts]
  BY <1>1, <1>3 DEF Manifest, Ok
<1>5. ASSUME NEW n \in 1 .. N
      PROVE  /\ parts[n].offset = s[n].offset /\ parts[n].size = s[n].size
             /\ parts[n].offset \in Nat /\ parts[n].size \in Nat
             /\ parts[n].sha256 \in Seq(ToSet(parts[n].sha256))
             /\ Len(parts[n].sha256) = parts[n].size /\ Pad(parts[n].sha256) = s[n].data
  <2>1. PICK content : /\ IsData(content) /\ s[n].data = Pad(content)
                       /\ s[n].size = Len(content)
    BY <1>2 DEF SegmentIs
  <2>2. SubSeq(Pad(content), 1, Len(content)) = content /\ Len(content) \in Nat
    BY <2>1, PadIs
  <2>3. parts[n].sha256 = content /\ parts[n].offset = s[n].offset /\ parts[n].size = s[n].size
    BY <1>2, <1>3, <2>1, <2>2
  <2>4. s[n].offset \in Nat
    BY <1>2 DEF SegmentIs
  <2> QED BY <2>1, <2>2, <2>3, <2>4 DEF IsData
<1>6. DOMAIN parts = 1 .. N /\ Listing(parts)
  <2>1. parts = [n \in 1 .. N |-> parts[n]]
    BY <1>2, <1>3
  <2>2. IsData(parts) /\ DOMAIN parts = 1 .. N
    BY <1>2, <2>1, MadeIs
  <2> QED BY <1>5, <2>2 DEF IsData, Listing
<1>7. m.segments = parts /\ m.chip = p.chip /\ m.capacity = p.capacity
  BY <1>4
<1>8. Announces(m)
  BY <1>5, <1>6, <1>7 DEF Announces
<1>9. ManifestIs(m, p)
  BY <1>1, <1>2, <1>5, <1>6, <1>7, <1>8 DEF ManifestIs
<1>10. Total([n \in DOMAIN s |-> Len(s[n].data)]) <= MaxUpload
  <2>1. PICK sizes : sizes = [n \in DOMAIN s |-> Len(s[n].data)]
    OBVIOUS
  <2>2. sizes \in [1 .. N -> Nat]
    <3>1. \A n \in 1 .. N : Len(s[n].data) \in Nat
      BY <1>2, SegmentHas
    <3> QED BY <1>2, <2>1, <3>1
  <2>3. sizes \in Seq(Nat)
    BY <1>2, <2>2
  <2>4. Total(sizes) \in Nat
    BY <2>3, TotalLess
  <2> QED BY <1>4, <2>1, <2>4, PlanAssumption
<1> QED BY <1>1, <1>9, <1>10

(* A part, and the segment it is in the plan.                               *)
Carries(s, part) ==
  /\ s.offset = part.offset /\ s.data = Pad(part.sha256)
  /\ IsData(part.sha256) /\ Len(part.sha256) = part.size /\ part.size > 0

LEMMA IntoPlanIs ==
  ASSUME NEW m, Announces(m), NEW received, NEW p, p = IntoPlan(m, received), Ok(p)
  PROVE  /\ SegmentsAre(p.segments) /\ Rises(p.segments)
         /\ \A n \in DOMAIN m.segments : \E k \in DOMAIN p.segments : Carries(p.segments[k], m.segments[n])
         /\ \A k \in DOMAIN p.segments : \E n \in DOMAIN m.segments : Carries(p.segments[k], m.segments[n])
<1>1. PICK parts : parts = m.segments
  OBVIOUS
<1>0. PICK N \in Nat : N = Len(parts) /\ DOMAIN parts = 1 .. N
  BY <1>1 DEF Announces, Listing
<1>2. PICK ranges : ranges = [n \in DOMAIN parts |->
                  [offset |-> parts[n].offset, length |-> RoundUp(parts[n].size, Align)]]
  OBVIOUS
<1>3. PICK list : list = [n \in DOMAIN received |->
                  [offset |-> parts[n].offset, data |-> Pad(received[n]),
                   size |-> Len(received[n])]]
  OBVIOUS
<1>4. /\ Admissible(m) /\ DOMAIN received = DOMAIN parts
      /\ \A n \in DOMAIN received : Announced(parts[n], received[n])
      /\ p = [chip |-> m.chip, capacity |-> m.capacity, segments |-> ByOffset(list)]
  BY <1>0, <1>1, <1>3 DEF IntoPlan, Ok
<1>5. SectorsApart(ranges) /\ \A n \in DOMAIN parts : parts[n].size > 0
  BY <1>0, <1>1, <1>2, <1>4 DEF Admissible
<1>6. ASSUME NEW n \in 1 .. N
      PROVE  /\ list[n] = [offset |-> parts[n].offset, data |-> Pad(parts[n].sha256),
                           size |-> Len(parts[n].sha256)]
             /\ Len(parts[n].sha256) = parts[n].size
             /\ IsData(parts[n].sha256) /\ parts[n].size > 0 /\ parts[n].offset \in Nat
  <2>1. n \in DOMAIN received /\ n \in DOMAIN parts
    BY <1>0, <1>1, <1>4
  <2>2. received[n] = parts[n].sha256 /\ Len(received[n]) = parts[n].size
    BY <1>4, <2>1 DEF Announced
  <2>3. list[n] = [offset |-> parts[n].offset, data |-> Pad(received[n]),
                   size |-> Len(received[n])]
    BY <1>3, <2>1
  <2>4. IsData(parts[n].sha256) /\ parts[n].offset \in Nat
    BY <1>1, <2>1 DEF Announces, Listing, IsData
  <2> QED BY <1>5, <2>1, <2>2, <2>3, <2>4
<1>7. DOMAIN list = 1 .. N /\ Listing(list)
  <2>1. list = [n \in 1 .. N |-> list[n]]
    BY <1>0, <1>1, <1>3, <1>4
  <2>2. IsData(list) /\ DOMAIN list = 1 .. N
    BY <2>1, MadeIs
  <2>3. ASSUME NEW n \in 1 .. N PROVE list[n].offset \in Nat
    <3>1. PICK part : part = parts[n]
      OBVIOUS
    <3>2. list[n] = [offset |-> part.offset, data |-> Pad(part.sha256), size |-> Len(part.sha256)]
          /\ part.offset \in Nat
      BY <1>6, <3>1
    <3> QED BY <3>2
  <2> QED BY <2>2, <2>3 DEF IsData, Listing
<1>8. ASSUME NEW n \in 1 .. N
      PROVE  /\ SegmentIs(list[n]) /\ Carries(list[n], parts[n])
             /\ Len(list[n].data) = RoundUp(parts[n].size, Align)
  <2>1. PICK content : content = parts[n].sha256
    OBVIOUS
  <2>2. list[n] = [offset |-> parts[n].offset, data |-> Pad(content), size |-> Len(content)]
    BY <1>6, <2>1
  <2>3. Len(content) = parts[n].size /\ IsData(content) /\ Len(content) > 0 /\ parts[n].offset \in Nat
    BY <1>6, <2>1
  <2>4. SegmentIs(list[n])
    BY <2>2, <2>3 DEF SegmentIs
  <2>5. Len(list[n].data) = RoundUp(parts[n].size, Align)
    <3>1. Len(Pad(content)) = RoundUp(Len(content), Align)
      BY <2>3, PadIs
    <3> QED BY <2>2, <2>3, <3>1
  <2>6. Carries(list[n], parts[n])
    BY <2>1, <2>2, <2>3 DEF Carries
  <2> QED BY <2>4, <2>5, <2>6
<1>9. Apart(list)
  <2>1. SUFFICES ASSUME NEW i \in 1 .. N, NEW j \in 1 .. N, i # j, list[i].offset <= list[j].offset
                 PROVE  RoundUp(list[i].offset + Len(list[i].data), Sector)
                          <= RoundDown(list[j].offset, Sector)
    BY <1>7 DEF Apart
  <2>2. /\ i \in DOMAIN ranges /\ j \in DOMAIN ranges
        /\ ranges[i].offset = list[i].offset /\ ranges[j].offset = list[j].offset
        /\ ranges[i].length = Len(list[i].data)
    <3>1. /\ list[i].offset = parts[i].offset /\ list[j].offset = parts[j].offset
          /\ Len(list[i].data) = RoundUp(parts[i].size, Align)
      BY <1>8 DEF Carries
    <3>2. i \in DOMAIN parts /\ j \in DOMAIN parts
      BY <1>0
    <3> QED BY <1>2, <3>1, <3>2
  <2> QED BY <1>5, <2>1, <2>2 DEF SectorsApart
<1>10. SegmentsAre(list)
  BY <1>7, <1>8, <1>9 DEF SegmentsAre
<1>11. PICK s : s = ByOffset(list) /\ s = p.segments
  BY <1>4
<1>12. SegmentsAre(s) /\ Rises(s) /\ ToSet(s) = ToSet(list)
  BY <1>10, <1>11, SortedSegments
<1>13. /\ \A k \in DOMAIN s : \E n \in 1 .. N : s[k] = list[n]
       /\ \A n \in 1 .. N : \E k \in DOMAIN s : s[k] = list[n]
  BY <1>7, <1>12 DEF ToSet
<1>14. /\ \A k \in DOMAIN s : \E n \in 1 .. N : Carries(s[k], parts[n])
       /\ \A n \in 1 .. N : \E k \in DOMAIN s : Carries(s[k], parts[n])
  BY <1>8, <1>13
<1> QED BY <1>0, <1>1, <1>11, <1>12, <1>14

(* What a client that has prepared its plan announces is taken, and once    *)
(* the parts are as announced, the plan is the one prepared.                *)
LEMMA PlanIsBack ==
  ASSUME NEW plan, NEW held, NEW p, PreparedIs(p, plan, held), NEW m, ManifestIs(m, p),
         Total([n \in DOMAIN p.segments |-> Len(p.segments[n].data)]) <= MaxUpload,
         NEW received, received = [n \in DOMAIN m.segments |-> m.segments[n].sha256]
  PROVE  Admissible(m) /\ IntoPlan(m, received) = p /\ Ok(p)
<1>1. PICK parts, s : parts = m.segments /\ s = p.segments
  OBVIOUS
<1>0. PICK N \in Nat : /\ DOMAIN parts = 1 .. N /\ DOMAIN s = 1 .. N
                      /\ Len(parts) = N /\ Len(s) = N
  <2>1. Listing(parts) /\ Listing(s) /\ DOMAIN parts = DOMAIN s
    BY <1>1 DEF PreparedIs, ManifestIs, Announces, SegmentsAre
  <2> QED BY <2>1 DEF Listing
<1>2. N \in 1 .. MaxSegments /\ SegmentsAre(s) /\ Rises(s)
  BY <1>0, <1>1 DEF PreparedIs
<1>3. ASSUME NEW n \in 1 .. N
      PROVE  /\ parts[n].offset = s[n].offset /\ parts[n].size = s[n].size
             /\ Len(parts[n].sha256) = parts[n].size /\ Pad(parts[n].sha256) = s[n].data
             /\ s[n].size \in Nat \ {0} /\ s[n].size <= Len(s[n].data) /\ Len(s[n].data) \in Nat
             /\ Len(s[n].data) = RoundUp(s[n].size, Align) /\ s[n].offset % Align = 0
             /\ s[n].offset + Len(s[n].data) <= AddressSpace
             /\ s[n] = [offset |-> s[n].offset, data |-> s[n].data, size |-> s[n].size]
  <2>1. SegmentIs(s[n])
    BY <1>0, <1>1, <1>2 DEF SegmentsAre
  <2>2. /\ s[n].size \in Nat \ {0} /\ s[n].size <= Len(s[n].data) /\ Len(s[n].data) \in Nat
        /\ Len(s[n].data) = RoundUp(s[n].size, Align)
    BY <2>1, SegmentHas
  <2>3. s[n].offset % Align = 0 /\ s[n].offset + Len(s[n].data) <= AddressSpace
    BY <1>0, <1>1 DEF PreparedIs
  <2>4. /\ parts[n].offset = s[n].offset /\ parts[n].size = s[n].size
        /\ Len(parts[n].sha256) = parts[n].size /\ Pad(parts[n].sha256) = s[n].data
    BY <1>0, <1>1 DEF ManifestIs
  <2> QED BY <2>1, <2>2, <2>3, <2>4 DEF SegmentIs
<1>4. Total([n \in DOMAIN parts |-> parts[n].size]) <= MaxUpload
  <2>1. PICK sizes, lengths : /\ sizes = [n \in DOMAIN parts |-> parts[n].size]
                              /\ lengths = [n \in DOMAIN s |-> Len(s[n].data)]
    OBVIOUS
  <2>2. \A n \in 1 .. N : /\ sizes[n] = s[n].size /\ lengths[n] = Len(s[n].data)
                          /\ sizes[n] \in Nat /\ lengths[n] \in Nat /\ sizes[n] <= lengths[n]
    BY <1>0, <1>1, <1>3, <2>1
  <2>3. sizes \in [1 .. N -> Nat] /\ lengths \in [1 .. N -> Nat]
    BY <1>0, <1>1, <2>1, <2>2
  <2>4. sizes \in Seq(Nat) /\ lengths \in Seq(Nat) /\ Len(sizes) = N /\ Len(lengths) = N
    BY <2>3
  <2>5. Total(sizes) \in Nat /\ Total(lengths) \in Nat /\ Total(sizes) <= Total(lengths)
    BY <2>2, <2>4, TotalLess
  <2>6. Total(lengths) <= MaxUpload
    BY <1>0, <1>1, <2>1
  <2> QED BY <2>1, <2>5, <2>6, PlanAssumption
<1>5. PICK ranges : ranges = [n \in DOMAIN parts |->
                  [offset |-> parts[n].offset, length |-> RoundUp(parts[n].size, Align)]]
  OBVIOUS
<1>6. DOMAIN ranges = 1 .. N /\ \A n \in 1 .. N : ranges[n].offset = s[n].offset /\ ranges[n].length = Len(s[n].data)
  BY <1>0, <1>1, <1>3, <1>5
<1>7. SectorsApart(ranges)
  BY <1>0, <1>1, <1>2, <1>6 DEF SectorsApart, SegmentsAre, Apart
<1>8. ASSUME NEW n \in 1 .. N
      PROVE  /\ parts[n].offset % Align = 0 /\ parts[n].size > 0
             /\ ranges[n].offset + ranges[n].length <= AddressSpace
  <2>1. parts[n].offset = s[n].offset /\ parts[n].size = s[n].size /\ s[n].size \in Nat \ {0}
    BY <1>3
  <2>2. s[n].offset % Align = 0 /\ s[n].offset + Len(s[n].data) <= AddressSpace
    BY <1>3
  <2>3. ranges[n].offset = s[n].offset /\ ranges[n].length = Len(s[n].data)
    BY <1>6
  <2> QED BY <2>1, <2>2, <2>3
<1>9. Admissible(m)
  BY <1>0, <1>1, <1>2, <1>4, <1>5, <1>7, <1>8 DEF Admissible
<1>10. PICK list : list = [n \in DOMAIN received |->
                  [offset |-> parts[n].offset, data |-> Pad(received[n]),
                   size |-> Len(received[n])]]
  OBVIOUS
<1>11. DOMAIN received = 1 .. N /\ \A n \in 1 .. N : received[n] = parts[n].sha256
  BY <1>0, <1>1
<1>12. list = s
  <2>1. \A n \in 1 .. N : list[n] = s[n]
    <3>1. SUFFICES ASSUME NEW n \in 1 .. N PROVE list[n] = s[n]
      OBVIOUS
    <3>2. received[n] = parts[n].sha256 /\ n \in DOMAIN received
      BY <1>11
    <3>3. list[n] = [offset |-> parts[n].offset, data |-> Pad(received[n]), size |-> Len(received[n])]
      BY <1>10, <3>2
    <3>4. s[n] = [offset |-> s[n].offset, data |-> s[n].data, size |-> s[n].size]
      BY <1>3 DEF SegmentIs
    <3>5. /\ parts[n].offset = s[n].offset /\ Pad(parts[n].sha256) = s[n].data
          /\ Len(parts[n].sha256) = s[n].size
      BY Zenon, <1>3
    <3> QED BY <3>2, <3>3, <3>4, <3>5
  <2>2. list = [n \in 1 .. N |-> list[n]]
    BY <1>10, <1>11
  <2>3. s = [n \in 1 .. N |-> s[n]]
    <3>1. PICK S : S = ToSet(s)
      OBVIOUS
    <3>2. s \in Seq(S)
      BY <1>2, <3>1 DEF SegmentsAre, Listing
    <3> QED BY <1>0, <1>1, <3>2
  <2> QED BY <2>1, <2>2, <2>3
<1>13. ByOffset(list) = s
  BY <1>2, <1>12, SortedOnce
<1>14. \A n \in DOMAIN received : Announced(parts[n], received[n])
  BY <1>3, <1>11 DEF Announced
<1>15. IntoPlan(m, received) = [chip |-> m.chip, capacity |-> m.capacity, segments |-> s]
  BY <1>0, <1>1, <1>9, <1>10, <1>11, <1>13, <1>14 DEF IntoPlan
<1>16. p = [chip |-> m.chip, capacity |-> m.capacity, segments |-> s]
  <2>1. m.chip = p.chip /\ m.capacity = p.capacity
    BY DEF ManifestIs
  <2> QED BY <1>0, <1>1, <2>1 DEF PreparedIs
<1>17. Ok(p)
  BY <1>16 DEF Ok, Refused
<1> QED BY <1>9, <1>15, <1>16, <1>17

-----------------------------------------------------------------------------
(* idf.rs, import. *)

LEMMA FilesOf ==
  ASSUME NEW list, FilesAre(list), NEW s \in Seq(ToSet(list)) PROVE FilesAre(s)
<1>1. PICK S : S = ToSet(list)
  OBVIOUS
<1>2. \A e \in S : e.offset \in Nat /\ e.file \in DOMAIN FirstDisk
  BY <1>1 DEF ToSet, FilesAre, Listing
<1>3. s \in Seq(S)
  BY <1>1
<1>4. \A n \in DOMAIN s : s[n] \in S
  BY <1>3
<1>5. IsData(s)
  BY <1>3, SetOf
<1> QED BY <1>2, <1>4, <1>5 DEF FilesAre, Listing, IsData

LEMMA ImportIs ==
  ASSUME InputAssumption, NEW b \in Builds, NEW selected \in Selections, NEW held,
         NEW plan, plan = Import(b, selected, held), Ok(plan)
  PROVE  FilesAre(plan.segments)
<1>1. PICK files, S : files = b.files /\ S = ToSet(b.files)
  OBVIOUS
<1>2. FilesAre(files) /\ files \in Seq(S)
  BY <1>1 DEF InputAssumption, FilesAre, Listing
<1>3. CASE selected = <<>>
  <2>1. PICK rows : rows = [n \in DOMAIN files |-> IF held[files[n].file].size > 0 THEN <<files[n]>> ELSE <<>>]
    OBVIOUS
  <2>2. plan.segments = FlattenSeq(rows)
    BY <1>1, <1>3, <2>1 DEF Import, Ok
  <2>3. PICK Q : Q = Seq(S)
    OBVIOUS
  <2>4. PICK N \in Nat : DOMAIN files = 1 .. N /\ \A n \in 1 .. N : files[n] \in S
    BY <1>2
  <2>5. <<>> \in Q /\ \A e \in S : <<e>> \in Q
    BY <2>3
  <2>6. rows \in [1 .. N -> Q]
    BY <2>1, <2>4, <2>5
  <2>7. rows \in Seq(Q)
    BY <2>6
  <2>8. rows \in Seq(Seq(S))
    BY <2>3, <2>7, Zenon
  <2>9. FlattenSeq(rows) \in Seq(S)
    BY <2>8, FlattenIn
  <2> QED BY <1>1, <1>2, <2>2, <2>9, FilesOf
<1>4. CASE selected # <<>>
  <2>1. PICK named : named = [n \in DOMAIN selected |-> b.images[selected[n]]]
    OBVIOUS
  <2>2. plan.segments = named /\ \A n \in DOMAIN named : named[n] \in S
    BY <1>1, <1>4, <2>1 DEF Import, Ok
  <2>3. PICK N \in Nat : DOMAIN selected = 1 .. N
    BY DEF InputAssumption
  <2>4. named \in [1 .. N -> S]
    BY <2>1, <2>2, <2>3
  <2>5. named \in Seq(S)
    BY <2>4
  <2> QED BY <1>1, <1>2, <2>2, <2>5, FilesOf
<1> QED BY <1>3, <1>4

-----------------------------------------------------------------------------
(* From the files to the chip: what holds in every state. *)

ClientIs(cl) ==
  cl = [pc |-> cl.pc, plan |-> cl.plan, prepared |-> cl.prepared, manifest |-> cl.manifest,
        tries |-> cl.tries, why |-> cl.why]

(* A client cl whose operation is o: what it posts has a manifest, and what *)
(* is flashed for it is the plan which that manifest and its parts make.    *)
Planned(cl, o) ==
  /\ Announces(cl.manifest)
  /\ \E received : o.action.plan = IntoPlan(cl.manifest, received) /\ Ok(o.action.plan)

Bringing(cl, o) ==
  /\ ClientIs(cl)
  /\ cl.pc \in {"ready", "sending"} \/ cl.tries > 0 => Announces(cl.manifest)
  /\ o # NoOp => cl.pc \notin {"start", "loaded"}
  /\ o # NoOp /\ o.action.kind = "flash" => Planned(cl, o)

(* Cli has prepared, checked and announced its files as they were held.     *)
Preflighted(cl, held) ==
  /\ DiskIs(held) /\ PreparedIs(cl.prepared, cl.plan, held) /\ Validate(cl.prepared)
  /\ ManifestIs(cl.manifest, cl.prepared)
  /\ Total([n \in DOMAIN cl.prepared.segments |-> Len(cl.prepared.segments[n].data)]) <= MaxUpload

(* So many parts of an open upload have come, each as announced.            *)
Sent(parts, st) ==
  \E k \in 0 .. Len(parts) : st = [open |-> TRUE, parts |-> [n \in 1 .. k |-> parts[n].sha256]]

Past == {"ready", "sending", "accepted"}

Checking(cl, o, st, edits, files) ==
  /\ cl.pc = "loaded" => FilesAre(cl.plan.segments)
  /\ cl.pc \in Past \/ o # NoOp =>
       \E held : Preflighted(cl, held) /\ (edits = 0 => held = files)
  /\ o # NoOp => o.action.plan = cl.prepared
  /\ cl.why \notin {"metadata", "plan"} /\ (cl.why \in {"part", "file changed"} => edits > 0)
  /\ st.open => cl.pc = "sending" /\ Sent(cl.manifest.segments, st)

FlowInv ==
  /\ client = [c \in Clients |-> client[c]] /\ staged = [c \in Clients |-> staged[c]]
  /\ DiskIs(disk)
  /\ used = [edit |-> used["edit"], fault |-> used["fault"]] /\ used["edit"] \in Nat
  /\ \A c \in Clients : Bringing(client[c], ops[c])
  /\ Checking(client[Cli], ops[Cli], staged[Cli], used["edit"], disk)

(* Of the segments so many have been erased and so many written, and what   *)
(* was not erased is as it was.                                             *)
PutIn(cells, s) == \A i \in 1 .. Len(s.data) : cells[s.offset + i - 1] = s.data[i]
Spares(cells, before, segments, erased) ==
  \A a \in DOMAIN cells :
    (\A n \in 1 .. erased : a \notin Erased(segments[n].offset, Len(segments[n].data)))
      => cells[a] = before[a]
Upto(cells, before, segments, erased, written) ==
  (\A n \in 1 .. written : PutIn(cells, segments[n])) /\ Spares(cells, before, segments, erased)

Below(segments, capacity) ==
  \A n \in DOMAIN segments : segments[n].offset + Len(segments[n].data) <= capacity

Progress(w, cells, segments, capacity) ==
  /\ w.pc \in {"connect", "check"} => cells = w.before
  /\ w.pc = "erase" => Upto(cells, w.before, segments, w.at - 1, w.at - 1)
  /\ w.pc = "write" => Upto(cells, w.before, segments, w.at, w.at - 1)
  /\ w.pc \in {"erase", "write"} => w.at \in DOMAIN segments
  /\ w.pc \in {"erase", "write"} \cup Handoff => Below(segments, capacity)
  /\ w.pc \in Handoff => Upto(cells, w.before, segments, Len(segments), Len(segments))

Begun == ForReset \cup {"baud"}

(* What a worker w with board b and action a has done so far.               *)
Flashing(w, b, a, live, capacity) ==
  /\ w.pc \in Opening \cup {"connect", "check"} => w.at = 1
  /\ w.pc \in {"read", "wipe"} => a.kind # "flash"
  /\ live /\ w.pc \in Begun /\ a.kind = "flash" =>
       Progress(w, b.cells, a.plan.segments, capacity)

OfSize(cells, capacity) == cells = [a \in 0 .. capacity - 1 |-> cells[a]]
CellsAre(b, capacity) == OfSize(b.cells, capacity)

ChipInv ==
  /\ \A b \in Boards : CellsAre(boards[b], Kind[b].capacity)
  /\ \A d \in Devices :
       Flashing(worker[d], Board(d), Action(d), Live(d), Kind[usb[d].board].capacity)

FlashInv == HandoffInv /\ FlowInv /\ ChipInv

-----------------------------------------------------------------------------
(* The steps of a client. *)

LEMMA FlowHas ==
  ASSUME FlowInv
  PROVE  /\ client = [c \in Clients |-> client[c]] /\ staged = [c \in Clients |-> staged[c]]
         /\ DiskIs(disk) /\ used["edit"] \in Nat
         /\ \A c \in Clients : Bringing(client[c], ops[c]) /\ ClientIs(client[c])
         /\ Checking(client[Cli], ops[Cli], staged[Cli], used["edit"], disk)
BY DEF FlowInv, Bringing

(* Only client c goes on, and the files stay.                               *)
SameFiles == disk' = disk /\ (used' = used \/ used' = [used EXCEPT !["fault"] = @ + 1])
OthersOps(c) == \A x \in Clients : x # c => ops'[x] = ops[x]

LEMMA FilesStay ==
  ASSUME FlowInv, SameFiles
  PROVE  /\ DiskIs(disk') /\ disk' = disk /\ used'["edit"] = used["edit"]
         /\ used' = [edit |-> used'["edit"], fault |-> used'["fault"]] /\ used'["edit"] \in Nat
<1>1. used = [edit |-> used["edit"], fault |-> used["fault"]] /\ used["edit"] \in Nat /\ DiskIs(disk)
  BY DEF FlowInv
<1>2. disk' = disk /\ DiskIs(disk')
  BY <1>1 DEF SameFiles
<1>3. CASE used' = used
  BY <1>1, <1>2, <1>3
<1>4. CASE used' = [used EXCEPT !["fault"] = @ + 1]
  <2>1. used' = [edit |-> used["edit"], fault |-> used["fault"] + 1]
    BY <1>1, <1>4
  <2> QED BY <1>1, <1>2, <2>1
<1> QED BY <1>3, <1>4 DEF SameFiles

LEMMA ClientGoesOn ==
  ASSUME SessionAssumption, FlowInv, NEW c \in Clients, SameFiles, OthersOps(c),
         NEW cl, client' = [client EXCEPT ![c] = cl], NEW st, staged' = [staged EXCEPT ![c] = st],
         Bringing(cl, ops'[c]), c = Cli => Checking(cl, ops'[c], st, used["edit"], disk)
  PROVE  FlowInv'
<1>1. /\ client = [x \in Clients |-> client[x]] /\ staged = [x \in Clients |-> staged[x]]
      /\ \A x \in Clients : Bringing(client[x], ops[x])
      /\ Checking(client[Cli], ops[Cli], staged[Cli], used["edit"], disk)
  BY FlowHas
<1>2. /\ client' = [x \in Clients |-> client'[x]] /\ client'[c] = cl
      /\ \A x \in Clients : x # c => client'[x] = client[x]
  BY <1>1
<1>3. /\ staged' = [x \in Clients |-> staged'[x]] /\ staged'[c] = st
      /\ \A x \in Clients : x # c => staged'[x] = staged[x]
  BY <1>1
<1>4. \A x \in Clients : x # c => ops'[x] = ops[x]
  BY DEF OthersOps
<1>5. \A x \in Clients : Bringing(client'[x], ops'[x])
  BY <1>1, <1>2, <1>4
<1>6. /\ DiskIs(disk') /\ disk' = disk /\ used'["edit"] = used["edit"]
      /\ used' = [edit |-> used'["edit"], fault |-> used'["fault"]] /\ used'["edit"] \in Nat
  BY FilesStay
<1>7. Checking(client'[Cli], ops'[Cli], staged'[Cli], used'["edit"], disk')
  <2>1. CASE c = Cli
    BY <1>2, <1>3, <1>6, <2>1
  <2>2. CASE c # Cli
    <3>1. /\ client'[Cli] = client[Cli] /\ staged'[Cli] = staged[Cli] /\ ops'[Cli] = ops[Cli]
      BY <1>2, <1>3, <1>4, <2>2 DEF SessionAssumption
    <3> QED BY <1>1, <1>6, <3>1
  <2> QED BY <2>1, <2>2
<1> QED BY <1>2, <1>3, <1>5, <1>6, <1>7 DEF FlowInv

(* A field that no property is about changes.                               *)
LEMMA PcOf ==
  ASSUME NEW cl, ClientIs(cl), NEW pc, NEW why, NEW new, new = [cl EXCEPT !.pc = pc, !.why = why]
  PROVE  /\ ClientIs(new) /\ new.pc = pc /\ new.why = why /\ new.plan = cl.plan
         /\ new.prepared = cl.prepared /\ new.manifest = cl.manifest /\ new.tries = cl.tries
<1>1. new = [pc |-> pc, plan |-> cl.plan, prepared |-> cl.prepared, manifest |-> cl.manifest,
             tries |-> cl.tries, why |-> why]
  BY DEF ClientIs
<1> QED BY <1>1 DEF ClientIs

LEMMA PreflightedAlike ==
  ASSUME NEW cl, NEW new, new.plan = cl.plan, new.prepared = cl.prepared,
         new.manifest = cl.manifest, NEW held, Preflighted(cl, held)
  PROVE  Preflighted(new, held)
<1>1. PICK plan, prepared, manifest : /\ plan = cl.plan /\ prepared = cl.prepared /\ manifest = cl.manifest
                                      /\ plan = new.plan /\ prepared = new.prepared /\ manifest = new.manifest
  OBVIOUS
<1>2. /\ DiskIs(held) /\ PreparedIs(prepared, plan, held) /\ Validate(prepared)
      /\ ManifestIs(manifest, prepared)
      /\ Total([n \in DOMAIN prepared.segments |-> Len(prepared.segments[n].data)]) <= MaxUpload
  BY <1>1 DEF Preflighted
<1> QED BY <1>1, <1>2 DEF Preflighted

LEMMA NewClientIs ==
  ASSUME NEW cl, cl = NewClient
  PROVE  ClientIs(cl) /\ cl.pc = "start" /\ cl.tries = 0 /\ cl.why = "none"
BY DEF NewClient, ClientIs

(* A client that gives up keeps what its operation was made of.             *)
GivenUp(cl, o, why) == [(IF o = NoOp THEN NewClient ELSE cl) EXCEPT !.pc = "failed", !.why = why]

LEMMA GivenUpIs ==
  ASSUME NEW cl, NEW o, Bringing(cl, o), NEW why
  PROVE  LET new == GivenUp(cl, o, why)
         IN /\ Bringing(new, o) /\ new.pc = "failed" /\ new.why = why
            /\ o # NoOp => /\ new.plan = cl.plan /\ new.prepared = cl.prepared
                           /\ new.manifest = cl.manifest
<1>0. PICK new : new = GivenUp(cl, o, why)
  OBVIOUS
<1>1. ClientIs(cl)
  BY DEF Bringing
<1>2. PICK had : had = IF o = NoOp THEN NewClient ELSE cl
  OBVIOUS
<1>3. ClientIs(had)
  BY <1>1, <1>2, NewClientIs
<1>4. new = [had EXCEPT !.pc = "failed", !.why = why]
  BY <1>0, <1>2 DEF GivenUp
<1>5. /\ ClientIs(new) /\ new.pc = "failed" /\ new.why = why /\ new.plan = had.plan
      /\ new.prepared = had.prepared /\ new.manifest = had.manifest /\ new.tries = had.tries
  <2>1. new = [pc |-> "failed", plan |-> had.plan, prepared |-> had.prepared,
               manifest |-> had.manifest, tries |-> had.tries, why |-> why]
    BY <1>3, <1>4 DEF ClientIs
  <2> QED BY <2>1 DEF ClientIs
<1>6. CASE o = NoOp
  <2>1. new.tries = 0
    BY <1>2, <1>5, <1>6, NewClientIs
  <2> QED BY <1>0, <1>5, <1>6, <2>1 DEF Bringing
<1>7. CASE o # NoOp
  <2>1. /\ new.manifest = cl.manifest /\ new.tries = cl.tries
        /\ new.plan = cl.plan /\ new.prepared = cl.prepared
    BY <1>2, <1>5, <1>7
  <2>2. o.action.kind = "flash" => Planned(new, o)
    BY <1>7, <2>1 DEF Bringing, Planned
  <2>3. new.tries > 0 => Announces(new.manifest)
    BY <2>1 DEF Bringing
  <2> QED BY <1>0, <1>5, <1>7, <2>1, <2>2, <2>3 DEF Bringing
<1> QED BY <1>6, <1>7

LEMMA GivenUpChecked ==
  ASSUME NEW cl, NEW o, Bringing(cl, o), NEW why,
         NEW st, NEW edits, NEW files, NEW old
  PROVE  /\ Checking(cl, o, old, edits, files) /\ ~st.open
         /\ why \notin {"metadata", "plan"} /\ (why \in {"part", "file changed"} => edits > 0)
         => Checking(GivenUp(cl, o, why), o, st, edits, files)
<1>1. PICK new : new = GivenUp(cl, o, why)
  OBVIOUS
<1>2. /\ new.pc = "failed" /\ new.why = why
      /\ o # NoOp => /\ new.plan = cl.plan /\ new.prepared = cl.prepared
                     /\ new.manifest = cl.manifest
  BY <1>1, GivenUpIs
<1>3. SUFFICES ASSUME Checking(cl, o, old, edits, files), ~st.open,
                      why \notin {"metadata", "plan"}, why \in {"part", "file changed"} => edits > 0
               PROVE  Checking(new, o, st, edits, files)
  BY <1>1
<1>4. ASSUME o # NoOp
      PROVE  /\ \E held : Preflighted(new, held) /\ (edits = 0 => held = files)
             /\ o.action.plan = new.prepared
  <2>1. new.plan = cl.plan /\ new.prepared = cl.prepared /\ new.manifest = cl.manifest
    BY <1>2, <1>4
  <2>2. PICK held : Preflighted(cl, held) /\ (edits = 0 => held = files)
    BY <1>3, <1>4 DEF Checking
  <2>3. Preflighted(new, held)
    BY <2>1, <2>2, PreflightedAlike
  <2>4. o.action.plan = cl.prepared
    BY <1>3, <1>4 DEF Checking
  <2> QED BY <2>1, <2>2, <2>3, <2>4
<1> QED BY <1>2, <1>3, <1>4 DEF Checking, Past

LEMMA GivesUp ==
  ASSUME SessionAssumption, FlowInv, NEW c \in Clients, SameFiles, ops' = ops, NEW why, GiveUp(c, why),
         NEW st, staged' = [staged EXCEPT ![c] = st], c = Cli => ~st.open,
         c = Cli => why \notin {"metadata", "plan"},
         c = Cli => (why \in {"part", "file changed"} => used["edit"] > 0)
  PROVE  FlowInv'
<1>1. PICK cl : cl = GivenUp(client[c], ops[c], why)
  OBVIOUS
<1>2. client' = [client EXCEPT ![c] = cl]
  BY <1>1 DEF GiveUp, GivenUp
<1>3. Bringing(client[c], ops[c]) /\ Checking(client[Cli], ops[Cli], staged[Cli], used["edit"], disk)
  BY FlowHas
<1>4. Bringing(cl, ops[c])
  BY <1>1, <1>3, GivenUpIs
<1>5. c = Cli => Checking(cl, ops[c], st, used["edit"], disk)
  <2>1. SUFFICES ASSUME c = Cli PROVE Checking(cl, ops[c], st, used["edit"], disk)
    OBVIOUS
  <2>2. Checking(client[c], ops[c], staged[c], used["edit"], disk)
    BY <1>3, <2>1
  <2>3. ~st.open /\ why \notin {"metadata", "plan"} /\ (why \in {"part", "file changed"} => used["edit"] > 0)
    BY <2>1
  <2> QED BY <1>1, <1>3, <2>2, <2>3, GivenUpChecked
<1>6. OthersOps(c) /\ ops'[c] = ops[c]
  BY DEF OthersOps
<1> QED BY <1>2, <1>4, <1>5, <1>6, ClientGoesOn

LEMMA StagedSame ==
  ASSUME FlowInv, NEW c \in Clients, staged' = staged PROVE staged' = [staged EXCEPT ![c] = staged[c]]
BY DEF FlowInv
LEMMA ClosedIs == ~Closed.open
BY DEF Closed

LEMMA PcAlone ==
  ASSUME NEW cl, ClientIs(cl), NEW pc
  PROVE  LET new == [cl EXCEPT !.pc = pc]
         IN /\ ClientIs(new) /\ new.pc = pc /\ new.why = cl.why /\ new.plan = cl.plan
            /\ new.prepared = cl.prepared /\ new.manifest = cl.manifest /\ new.tries = cl.tries
<1>1. PICK new : new = [cl EXCEPT !.pc = pc]
  OBVIOUS
<1>2. new = [pc |-> pc, plan |-> cl.plan, prepared |-> cl.prepared, manifest |-> cl.manifest,
             tries |-> cl.tries, why |-> cl.why]
  BY <1>1 DEF ClientIs
<1>3. /\ ClientIs(new) /\ new.pc = pc /\ new.why = cl.why /\ new.plan = cl.plan
      /\ new.prepared = cl.prepared /\ new.manifest = cl.manifest /\ new.tries = cl.tries
  BY <1>2 DEF ClientIs
<1> QED BY <1>1, <1>3

(* A client goes on to another place, and its operation may come to be.     *)
LEMMA Proceeds ==
  ASSUME SessionAssumption, FlowInv, NEW c \in Clients, SameFiles, OthersOps(c),
         NEW pc \in {"accepted", "ready"}, Proceed(c, pc),
         pc = "ready" => client[c].tries > 0, c = Cli => client[c].pc \in Past,
         NEW st, staged' = [staged EXCEPT ![c] = st], c = Cli => ~st.open,
         ops'[c] = ops[c] \/
           (/\ ops'[c].action.kind = "flash" => Planned(client[c], ops'[c])
            /\ c = Cli => ops'[c].action.plan = client[c].prepared)
  PROVE  FlowInv'
<1>1. PICK old, cl, o : old = client[c] /\ cl = [client[c] EXCEPT !.pc = pc] /\ o = ops'[c]
  OBVIOUS
<1>2. client' = [client EXCEPT ![c] = cl]
  BY <1>1 DEF Proceed
<1>3. /\ Bringing(old, ops[c]) /\ ClientIs(old)
      /\ Checking(client[Cli], ops[Cli], staged[Cli], used["edit"], disk)
  BY <1>1, FlowHas
<1>4. /\ ClientIs(cl) /\ cl.pc = pc /\ cl.why = old.why /\ cl.plan = old.plan
      /\ cl.prepared = old.prepared /\ cl.manifest = old.manifest /\ cl.tries = old.tries
  BY <1>1, <1>3, PcAlone
<1>5. o # NoOp /\ o.action.kind = "flash" => Planned(old, o)
  BY <1>1, <1>3 DEF Bringing
<1>6. o # NoOp /\ o.action.kind = "flash" => Planned(cl, o)
  BY <1>4, <1>5 DEF Planned
<1>7. cl.pc \in {"ready", "sending"} \/ cl.tries > 0 => Announces(cl.manifest)
  BY <1>1, <1>3, <1>4 DEF Bringing
<1>8. Bringing(cl, o)
  BY <1>4, <1>6, <1>7 DEF Bringing
<1>9. c = Cli => Checking(cl, o, st, used["edit"], disk)
  <2>1. SUFFICES ASSUME c = Cli PROVE Checking(cl, o, st, used["edit"], disk)
    OBVIOUS
  <2>2. Checking(old, ops[c], staged[c], used["edit"], disk) /\ old.pc \in Past /\ ~st.open
    BY <1>1, <1>3, <2>1
  <2>3. PICK held : Preflighted(old, held) /\ (used["edit"] = 0 => held = disk)
    BY <2>2 DEF Checking
  <2>4. Preflighted(cl, held)
    BY <1>4, <2>3, PreflightedAlike
  <2>5. o # NoOp => o.action.plan = cl.prepared
    BY <1>1, <1>4, <2>1, <2>2 DEF Checking
  <2>6. /\ cl.why \notin {"metadata", "plan"}
        /\ cl.why \in {"part", "file changed"} => used["edit"] > 0
    BY <1>4, <2>2 DEF Checking
  <2>7. cl.pc # "loaded"
    BY <1>4
  <2> QED BY <2>2, <2>3, <2>4, <2>5, <2>6, <2>7 DEF Checking
<1> QED BY <1>1, <1>2, <1>8, <1>9, ClientGoesOn

LEMMA Submits ==
  ASSUME SessionAssumption, HandoffInv, FlowInv, NEW c \in Clients, SameFiles,
         NEW d, NEW action, Submit(c, d, action),
         action.kind = "flash" =>
           /\ Announces(client[c].manifest)
           /\ \E received : action.plan = IntoPlan(client[c].manifest, received) /\ Ok(action.plan),
         c = Cli => client[c].pc \in Past /\ action.plan = client[c].prepared,
         NEW st, staged' = [staged EXCEPT ![c] = st], c = Cli => ~st.open
  PROVE  FlowInv'
<1>1. CASE ops' = ops /\ Proceed(c, "accepted")
  BY <1>1, Proceeds DEF OthersOps
<1>2. CASE ops' = ops /\ (GiveUp(c, "unavailable") \/ GiveUp(c, "device_busy"))
  <2>1. PICK why \in {"unavailable", "device_busy"} : GiveUp(c, why)
    BY <1>2
  <2>2. why \notin {"metadata", "plan"} /\ why \notin {"part", "file changed"}
    OBVIOUS
  <2> QED BY <1>2, <2>1, <2>2, GivesUp
<1>3. CASE /\ Proceed(c, "accepted")
           /\ ops' = [ops EXCEPT ![c] =
                [status |-> "queued", device |-> d, action |-> action, why |-> "none"]]
  <2>1. ops = [x \in Clients |-> ops[x]]
    BY DEF HandoffInv, OpsKnown
  <2>2. /\ ops'[c] = [status |-> "queued", device |-> d, action |-> action, why |-> "none"]
        /\ \A x \in Clients : x # c => ops'[x] = ops[x]
    BY <1>3, <2>1
  <2>3. ops'[c].action = action /\ OthersOps(c)
    BY <2>2 DEF OthersOps
  <2>4. ops'[c].action.kind = "flash" => Planned(client[c], ops'[c])
    BY <2>3 DEF Planned
  <2>5. c = Cli => ops'[c].action.plan = client[c].prepared
    BY <2>3
  <2>6. Proceed(c, "accepted") /\ (c = Cli => client[c].pc \in Past)
    BY <1>3
  <2> QED BY <2>3, <2>4, <2>5, <2>6, Proceeds
<1> QED BY <1>1, <1>2, <1>3 DEF Submit

LEMMA LoadFlows ==
  ASSUME SessionAssumption, InputAssumption, HandoffInv, FlowInv, Load PROVE FlowInv'
<1>1. Cli \in Clients /\ client[Cli].pc = "start" /\ ops' = ops /\ staged' = staged /\ SameFiles
  BY DEF Load, At, SessionAssumption, SameFiles
<1>2. staged' = [staged EXCEPT ![Cli] = staged[Cli]]
  BY <1>1, StagedSame
<1>3. /\ Bringing(client[Cli], ops[Cli]) /\ ClientIs(client[Cli])
      /\ Checking(client[Cli], ops[Cli], staged[Cli], used["edit"], disk)
  BY <1>1, FlowHas
<1>4. ~staged[Cli].open /\ ops[Cli] = NoOp
  BY <1>1, <1>3 DEF Checking, Bringing
<1>5. CASE GiveUp(Cli, "import")
  <2>1. PICK why : why = "import"
    OBVIOUS
  <2>2. why \notin {"metadata", "plan"} /\ why \notin {"part", "file changed"}
    BY <2>1
  <2>3. GiveUp(Cli, why)
    BY <1>5, <2>1
  <2> QED BY <1>1, <1>2, <1>4, <2>2, <2>3, GivesUp
<1>6. ASSUME NEW plan, Ok(plan),
             plan \in {Import(b, s, disk) : b \in Builds, s \in Selections} \cup Plans,
             client' = [client EXCEPT ![Cli].pc = "loaded", ![Cli].plan = plan]
      PROVE  FlowInv'
  <2>1. FilesAre(plan.segments)
    <3>1. CASE plan \in Plans
      BY <3>1 DEF InputAssumption
    <3>2. CASE plan \notin Plans
      <4>1. PICK b \in Builds, s \in Selections : plan = Import(b, s, disk)
        BY <1>6, <3>2
      <4> QED BY <1>6, <4>1, ImportIs
    <3> QED BY <3>1, <3>2
  <2>2. PICK old, cl : old = client[Cli] /\ cl = [old EXCEPT !.pc = "loaded", !.plan = plan]
    OBVIOUS
  <2>3. client' = [client EXCEPT ![Cli] = cl]
    BY <1>6, <2>2
  <2>4. cl = [pc |-> "loaded", plan |-> plan, prepared |-> old.prepared, manifest |-> old.manifest,
              tries |-> old.tries, why |-> old.why]
    BY <1>3, <2>2 DEF ClientIs
  <2>5. /\ ClientIs(cl) /\ cl.pc = "loaded" /\ cl.plan = plan /\ cl.manifest = old.manifest
        /\ cl.tries = old.tries /\ cl.why = old.why
    BY <2>4 DEF ClientIs
  <2>6. Bringing(cl, ops[Cli])
    <3>1. cl.tries > 0 => Announces(cl.manifest)
      BY <1>3, <2>2, <2>5 DEF Bringing
    <3> QED BY <1>4, <2>5, <3>1 DEF Bringing
  <2>7. Checking(cl, ops[Cli], staged[Cli], used["edit"], disk)
    <3>1. /\ old.why \notin {"metadata", "plan"}
          /\ old.why \in {"part", "file changed"} => used["edit"] > 0
      BY <1>3, <2>2 DEF Checking
    <3> QED BY <1>4, <2>1, <2>5, <3>1 DEF Checking, Past
  <2>8. OthersOps(Cli) /\ ops'[Cli] = ops[Cli]
    BY <1>1 DEF OthersOps
  <2> QED BY <1>1, <1>2, <2>3, <2>6, <2>7, <2>8, ClientGoesOn
<1> QED BY <1>5, <1>6 DEF Load

LEMMA PreflightFlows ==
  ASSUME SessionAssumption, HandoffInv, FlowInv, Preflight PROVE FlowInv'
<1>1. Cli \in Clients /\ client[Cli].pc = "loaded" /\ ops' = ops /\ staged' = staged /\ SameFiles
  BY DEF Preflight, At, SessionAssumption, SameFiles
<1>2. staged' = [staged EXCEPT ![Cli] = staged[Cli]]
  BY <1>1, StagedSame
<1>3. /\ Bringing(client[Cli], ops[Cli]) /\ ClientIs(client[Cli]) /\ DiskIs(disk)
      /\ Checking(client[Cli], ops[Cli], staged[Cli], used["edit"], disk)
  BY <1>1, FlowHas
<1>4. ~staged[Cli].open /\ ops[Cli] = NoOp /\ FilesAre(client[Cli].plan.segments)
  BY <1>1, <1>3 DEF Checking, Bringing
<1>5. CASE GiveUp(Cli, "preflight")
  <2>1. PICK why : why = "preflight"
    OBVIOUS
  <2>2. why \notin {"metadata", "plan"} /\ why \notin {"part", "file changed"}
    BY <2>1
  <2>3. GiveUp(Cli, why)
    BY <1>5, <2>1
  <2> QED BY <1>1, <1>2, <1>4, <2>2, <2>3, GivesUp
<1>6. ASSUME NEW d \in Devices, NEW prepared, prepared = Prepare(client[Cli].plan, disk),
             NEW manifest, manifest = Manifest(d, prepared), Ok(prepared), Validate(prepared), Ok(manifest),
             client' = [client EXCEPT ![Cli].pc = "ready", ![Cli].prepared = prepared,
                                      ![Cli].manifest = manifest]
      PROVE  FlowInv'
  <2>1. PICK old, cl : /\ old = client[Cli]
                       /\ cl = [old EXCEPT !.pc = "ready", !.prepared = prepared, !.manifest = manifest]
    OBVIOUS
  <2>2. client' = [client EXCEPT ![Cli] = cl]
    BY <1>6, <2>1
  <2>3. cl = [pc |-> "ready", plan |-> old.plan, prepared |-> prepared, manifest |-> manifest,
              tries |-> old.tries, why |-> old.why]
    BY <1>3, <2>1 DEF ClientIs
  <2>4. /\ ClientIs(cl) /\ cl.pc = "ready" /\ cl.plan = old.plan /\ cl.manifest = manifest
        /\ cl.tries = old.tries /\ cl.why = old.why /\ cl.prepared = prepared
    BY <2>3 DEF ClientIs
  <2>5. PreparedIs(prepared, old.plan, disk)
    BY <1>3, <1>4, <1>6, <2>1, PrepareIs
  <2>6. /\ ManifestIs(manifest, prepared)
        /\ Total([n \in DOMAIN prepared.segments |-> Len(prepared.segments[n].data)]) <= MaxUpload
    BY <1>6, <2>5, ManifestHas
  <2>7. Preflighted(cl, disk)
    BY <1>3, <1>6, <2>4, <2>5, <2>6 DEF Preflighted
  <2>8. Bringing(cl, ops[Cli])
    BY <1>4, <2>4, <2>6 DEF Bringing, ManifestIs
  <2>9. Checking(cl, ops[Cli], staged[Cli], used["edit"], disk)
    <3>1. /\ old.why \notin {"metadata", "plan"}
          /\ old.why \in {"part", "file changed"} => used["edit"] > 0
      BY <1>3, <2>1 DEF Checking
    <3> QED BY <1>4, <2>4, <2>7, <3>1 DEF Checking
  <2>10. OthersOps(Cli) /\ ops'[Cli] = ops[Cli]
    BY <1>1 DEF OthersOps
  <2> QED BY <1>1, <1>2, <2>2, <2>8, <2>9, <2>10, ClientGoesOn
<1> QED BY <1>5, <1>6 DEF Preflight

LEMMA BringManifestFlows ==
  ASSUME SessionAssumption, InputAssumption, HandoffInv, FlowInv, NEW c \in Clients, BringManifest(c)
  PROVE  FlowInv'
<1>1. c # Cli /\ client[c].pc = "start" /\ ops' = ops /\ staged' = staged /\ SameFiles
  BY DEF BringManifest, At, SameFiles
<1>2. staged' = [staged EXCEPT ![c] = staged[c]]
  BY <1>1, StagedSame
<1>3. PICK m \in Manifests : client' = [client EXCEPT ![c].pc = "ready", ![c].manifest = m]
  BY DEF BringManifest
<1>4. Announces(m)
  BY DEF InputAssumption, Announces
<1>5. PICK old, cl : old = client[c] /\ cl = [old EXCEPT !.pc = "ready", !.manifest = m]
  OBVIOUS
<1>6. client' = [client EXCEPT ![c] = cl]
  BY <1>3, <1>5
<1>7. Bringing(old, ops[c]) /\ ClientIs(old)
  BY <1>5, FlowHas
<1>8. cl = [pc |-> "ready", plan |-> old.plan, prepared |-> old.prepared, manifest |-> m,
            tries |-> old.tries, why |-> old.why]
  BY <1>5, <1>7 DEF ClientIs
<1>9. ClientIs(cl) /\ cl.pc = "ready" /\ cl.manifest = m
  BY <1>8 DEF ClientIs
<1>10. ops[c] = NoOp
  BY <1>1, <1>5, <1>7 DEF Bringing
<1>11. Bringing(cl, ops[c])
  BY <1>4, <1>9, <1>10 DEF Bringing
<1>12. OthersOps(c) /\ ops'[c] = ops[c]
  BY <1>1 DEF OthersOps
<1> QED BY <1>1, <1>2, <1>6, <1>11, <1>12, ClientGoesOn

LEMMA RequestFlows ==
  ASSUME SessionAssumption, HandoffInv, FlowInv, NEW c \in Clients, Request(c) PROVE FlowInv'
<1>1. c # Cli /\ staged' = staged /\ SameFiles
  BY DEF Request, SameFiles
<1>2. staged' = [staged EXCEPT ![c] = staged[c]]
  BY <1>1, StagedSame
<1>3. PICK r \in Requests, d \in Devices :
        (GiveUp(c, "request") /\ ops' = ops) \/ Submit(c, d, r)
  BY DEF Request
<1>4. r.kind # "flash"
  <2>1. r.kind \in {"read", "erase", "probe", "reset", "monitor"}
    BY DEF SessionAssumption
  <2> QED BY <2>1
<1>5. CASE GiveUp(c, "request") /\ ops' = ops
  BY <1>1, <1>2, <1>5, GivesUp
<1>6. CASE Submit(c, d, r)
  BY <1>1, <1>2, <1>4, <1>6, Submits
<1> QED BY <1>3, <1>5, <1>6

LEMMA LoseFlows ==
  ASSUME SessionAssumption, HandoffInv, FlowInv, NEW c \in Clients, Lose(c) PROVE FlowInv'
<1>1. /\ client[c].pc \in {"sending", "accepted"} /\ client[c].tries > 0 /\ ops' = ops
      /\ staged' = [staged EXCEPT ![c] = Closed] /\ ~Closed.open
  BY ClosedIs DEF Lose, Close
<1>2. SameFiles
  BY DEF Lose, Fault, SameFiles
<1>3. client[c].pc \in Past /\ OthersOps(c) /\ ops'[c] = ops[c]
  BY <1>1 DEF Past, OthersOps
<1>4. CASE Proceed(c, "ready")
  <2>1. PICK pc \in {"accepted", "ready"} : pc = "ready"
    OBVIOUS
  <2>2. Proceed(c, pc)
    BY <1>4, <2>1
  <2> QED BY <1>1, <1>2, <1>3, <2>2, Proceeds
<1>5. CASE GiveUp(c, "lost")
  <2>1. PICK why : why = "lost"
    OBVIOUS
  <2>2. why \notin {"metadata", "plan"} /\ why \notin {"part", "file changed"}
    BY <2>1
  <2>3. GiveUp(c, why)
    BY <1>5, <2>1
  <2> QED BY <1>1, <1>2, <2>2, <2>3, GivesUp
<1> QED BY <1>4, <1>5 DEF Lose

LEMMA EditFlows ==
  ASSUME SessionAssumption, InputAssumption, FlowInv, Edit PROVE FlowInv'
<1>1. client' = client /\ staged' = staged /\ ops' = ops
  BY DEF Edit
<1>2. PICK f \in DOMAIN disk : \E r \in Revisions[f] : disk' = [disk EXCEPT ![f] = r]
  BY DEF Edit
<1>0. PICK r \in Revisions[f] : disk' = [disk EXCEPT ![f] = r]
  BY <1>2
<1>3. /\ client = [c \in Clients |-> client[c]] /\ staged = [c \in Clients |-> staged[c]]
      /\ DiskIs(disk) /\ \A c \in Clients : Bringing(client[c], ops[c])
      /\ Checking(client[Cli], ops[Cli], staged[Cli], used["edit"], disk)
  BY FlowHas
<1>4. DiskIs(disk')
  <2>1. disk = [x \in DOMAIN FirstDisk |-> disk[x]] /\ \A x \in DOMAIN FirstDisk : disk[x].size \in Nat
    BY <1>3 DEF DiskIs
  <2>2. f \in DOMAIN FirstDisk
    BY <2>1
  <2>3. r.size \in Nat
    BY <2>2 DEF InputAssumption
  <2>4. /\ disk' = [x \in DOMAIN FirstDisk |-> disk'[x]] /\ disk'[f] = r
        /\ \A x \in DOMAIN FirstDisk : x # f => disk'[x] = disk[x]
    BY <1>0, <2>1, <2>2
  <2>5. \A x \in DOMAIN FirstDisk : disk'[x].size \in Nat
    BY <2>1, <2>3, <2>4
  <2> QED BY <2>4, <2>5 DEF DiskIs
<1>5. PICK edits \in Nat : edits = used["edit"]
  BY FlowHas
<1>6. used' = [edit |-> edits + 1, fault |-> used["fault"]]
  BY <1>5 DEF FlowInv, Edit
<1>7. /\ used' = [edit |-> used'["edit"], fault |-> used'["fault"]]
      /\ used'["edit"] = edits + 1 /\ used'["edit"] \in Nat
  BY <1>6
<1>8. Checking(client[Cli], ops[Cli], staged[Cli], edits + 1, disk')
  <2>1. PICK cl, o, st : cl = client[Cli] /\ o = ops[Cli] /\ st = staged[Cli]
    OBVIOUS
  <2>2. Checking(cl, o, st, edits, disk)
    BY <1>3, <1>5, <2>1
  <2>3. edits + 1 # 0 /\ edits + 1 > 0
    OBVIOUS
  <2>4. cl.pc \in Past \/ o # NoOp => \E held : Preflighted(cl, held)
    BY <2>2 DEF Checking
  <2>5. Checking(cl, o, st, edits + 1, disk')
    BY <2>2, <2>3, <2>4 DEF Checking
  <2> QED BY <2>1, <2>5
<1>9. Checking(client'[Cli], ops'[Cli], staged'[Cli], used'["edit"], disk')
  BY <1>1, <1>7, <1>8
<1>10. \A c \in Clients : Bringing(client'[c], ops'[c])
  BY <1>1, <1>3
<1>11. client' = [c \in Clients |-> client'[c]] /\ staged' = [c \in Clients |-> staged'[c]]
  BY <1>1, <1>3
<1> QED BY <1>4, <1>7, <1>9, <1>10, <1>11 DEF FlowInv

-----------------------------------------------------------------------------
(* What the client has checked is what it sends. *)

LEMMA FileIs ==
  ASSUME NEW cl, NEW held, Preflighted(cl, held), cl = client[Cli],
         NEW n \in DOMAIN cl.manifest.segments
  PROVE  LET part == cl.manifest.segments[n]
         IN held[FileOf(part)].size = part.size /\ Announced(part, Data(held[FileOf(part)]))
<1>1. PICK plan, p, m, part : /\ plan = cl.plan /\ p = cl.prepared /\ m = cl.manifest
                              /\ part = m.segments[n]
  OBVIOUS
<1>2. PreparedIs(p, plan, held) /\ ManifestIs(m, p)
  BY <1>1 DEF Preflighted
<1>3. n \in DOMAIN m.segments /\ n \in DOMAIN p.segments
  BY <1>1, <1>2 DEF ManifestIs
<1>4. /\ part.offset = p.segments[n].offset /\ part.size = p.segments[n].size
      /\ Len(part.sha256) = part.size /\ Pad(part.sha256) = p.segments[n].data
      /\ IsData(part.sha256)
  BY <1>1, <1>2, <1>3 DEF ManifestIs, Announces, IsData
<1>5. PICK k \in DOMAIN plan.segments :
            /\ p.segments[n].offset = plan.segments[k].offset
            /\ p.segments[n].data = Pad(Data(held[plan.segments[k].file]))
            /\ p.segments[n].size = held[plan.segments[k].file].size
  BY <1>2, <1>3 DEF PreparedIs
<1>6. \A i, j \in DOMAIN plan.segments : i # j => plan.segments[i].offset # plan.segments[j].offset
  BY <1>2 DEF PreparedIs
<1>7. PICK l : l = CHOOSE i \in DOMAIN plan.segments : plan.segments[i].offset = part.offset
  OBVIOUS
<1>8. l \in DOMAIN plan.segments /\ plan.segments[l].offset = part.offset
  BY <1>4, <1>5, <1>7
<1>9. l = k
  BY <1>4, <1>5, <1>6, <1>8
<1>10. FileOf(part) = plan.segments[k].file
  <2>1. FileOf(part) = client[Cli].plan.segments[
          CHOOSE i \in DOMAIN client[Cli].plan.segments :
            client[Cli].plan.segments[i].offset = part.offset].file
    BY Zenon DEF FileOf
  <2>2. plan = client[Cli].plan
    BY <1>1
  <2> QED BY Zenon, <1>7, <1>9, <2>1, <2>2
<1>11. PICK file : file = held[FileOf(part)]
  OBVIOUS
<1>12. file.size = part.size /\ Pad(Data(file)) = Pad(part.sha256)
  BY <1>4, <1>5, <1>10, <1>11
<1>13. part.size \in Nat
  BY <1>1, <1>2, <1>3 DEF ManifestIs, Announces
<1>14. IsData(Data(file)) /\ Len(Data(file)) = part.size
  BY <1>12, <1>13, DataIs
<1>15. /\ SubSeq(Pad(Data(file)), 1, part.size) = Data(file)
       /\ SubSeq(Pad(part.sha256), 1, part.size) = part.sha256
  BY <1>4, <1>14, PadIs
<1>16. Data(file) = part.sha256
  BY <1>12, <1>15
<1>17. Announced(part, Data(file))
  BY <1>4, <1>14, <1>16 DEF Announced
<1> QED BY <1>1, <1>11, <1>12, <1>17

LEMMA Preflights ==
  ASSUME SessionAssumption, FlowInv, client[Cli].pc \in Past
  PROVE  \E held : /\ Preflighted(client[Cli], held) /\ (used["edit"] = 0 => held = disk)
<1>1. Checking(client[Cli], ops[Cli], staged[Cli], used["edit"], disk)
  BY FlowHas
<1> QED BY <1>1 DEF Checking

LEMMA OpenFormFlows ==
  ASSUME SessionAssumption, HandoffInv, FlowInv, NEW c \in Clients, OpenForm(c) PROVE FlowInv'
<1>1. client[c].pc = "ready" /\ ops' = ops /\ SameFiles
  BY DEF OpenForm, At, SameFiles
<1>2. /\ Bringing(client[c], ops[c]) /\ ClientIs(client[c])
      /\ Checking(client[Cli], ops[Cli], staged[Cli], used["edit"], disk)
  BY FlowHas
<1>3. c = Cli => ~staged[c].open
  BY <1>1, <1>2 DEF Checking
<1>4. CASE /\ GiveUp(c, "file changed") /\ staged' = staged /\ c = Cli
           /\ \E n \in DOMAIN client[c].manifest.segments :
                disk[FileOf(client[c].manifest.segments[n])].size # client[c].manifest.segments[n].size
  <2>1. PICK held : Preflighted(client[Cli], held) /\ (used["edit"] = 0 => held = disk)
    BY <1>1, <1>4, Preflights DEF Past
  <2>2. held # disk
    <3>1. PICK cl : cl = client[Cli]
      OBVIOUS
    <3>2. Preflighted(cl, held)
      BY <2>1, <3>1
    <3>3. \A n \in DOMAIN cl.manifest.segments :
            held[FileOf(cl.manifest.segments[n])].size = cl.manifest.segments[n].size
      BY <3>1, <3>2, FileIs
    <3> QED BY <1>4, <3>1, <3>3
  <2>3. used["edit"] > 0
    BY <2>1, <2>2, FlowHas
  <2>4. PICK why : why = "file changed"
    OBVIOUS
  <2>5. why \notin {"metadata", "plan"} /\ GiveUp(c, why)
    BY <1>4, <2>4
  <2>6. staged' = [staged EXCEPT ![c] = staged[c]]
    BY <1>4, StagedSame
  <2> QED BY <1>1, <1>3, <2>3, <2>5, <2>6, GivesUp
<1>5. CASE GiveUp(c, "metadata") /\ staged' = staged /\ ~Admissible(client[c].manifest)
  <2>1. c # Cli
    <3>1. SUFFICES ASSUME c = Cli PROVE FALSE
      OBVIOUS
    <3>2. PICK held : Preflighted(client[Cli], held)
      BY <1>1, <3>1, Preflights DEF Past
    <3>3. PICK plan, p, m, received :
            /\ plan = client[Cli].plan /\ p = client[Cli].prepared /\ m = client[Cli].manifest
            /\ received = [n \in DOMAIN m.segments |-> m.segments[n].sha256]
      OBVIOUS
    <3>4. /\ PreparedIs(p, plan, held) /\ ManifestIs(m, p)
          /\ Total([n \in DOMAIN p.segments |-> Len(p.segments[n].data)]) <= MaxUpload
      BY <3>2, <3>3 DEF Preflighted
    <3>5. Admissible(m)
      BY <3>3, <3>4, PlanIsBack
    <3> QED BY <1>5, <3>1, <3>3, <3>5
  <2>2. staged' = [staged EXCEPT ![c] = staged[c]]
    BY <1>5, StagedSame
  <2> QED BY <1>1, <1>5, <2>1, <2>2, GivesUp
<1>6. CASE /\ client' = [client EXCEPT ![c].pc = "sending", ![c].tries = @ + 1]
           /\ staged' = [staged EXCEPT ![c] = [open |-> TRUE, parts |-> <<>>]]
  <2>1. PICK old, cl, st : /\ old = client[c] /\ cl = [old EXCEPT !.pc = "sending", !.tries = @ + 1]
                           /\ st = [open |-> TRUE, parts |-> <<>>]
    OBVIOUS
  <2>2. client' = [client EXCEPT ![c] = cl] /\ staged' = [staged EXCEPT ![c] = st]
    BY <1>6, <2>1
  <2>3. cl = [pc |-> "sending", plan |-> old.plan, prepared |-> old.prepared,
              manifest |-> old.manifest, tries |-> old.tries + 1, why |-> old.why]
    BY <1>2, <2>1 DEF ClientIs
  <2>4. /\ ClientIs(cl) /\ cl.pc = "sending" /\ cl.plan = old.plan /\ cl.prepared = old.prepared
        /\ cl.manifest = old.manifest /\ cl.why = old.why
    BY <2>3 DEF ClientIs
  <2>5. Announces(old.manifest) /\ (ops[c] # NoOp /\ ops[c].action.kind = "flash" => Planned(old, ops[c]))
    BY <1>1, <1>2, <2>1 DEF Bringing
  <2>6. Bringing(cl, ops[c])
    <3>1. ops[c] # NoOp /\ ops[c].action.kind = "flash" => Planned(cl, ops[c])
      BY <2>4, <2>5 DEF Planned
    <3> QED BY <2>4, <2>5, <3>1 DEF Bringing
  <2>7. c = Cli => Checking(cl, ops[c], st, used["edit"], disk)
    <3>1. SUFFICES ASSUME c = Cli PROVE Checking(cl, ops[c], st, used["edit"], disk)
      OBVIOUS
    <3>2. Checking(old, ops[c], staged[c], used["edit"], disk) /\ old.pc = "ready"
      BY <1>1, <1>2, <2>1, <3>1
    <3>3. PICK held : Preflighted(old, held) /\ (used["edit"] = 0 => held = disk)
      BY <3>2 DEF Checking, Past
    <3>4. Preflighted(cl, held)
      BY <2>4, <3>3, PreflightedAlike
    <3>5. Sent(cl.manifest.segments, st)
      <4>1. PICK parts : parts = cl.manifest.segments
        OBVIOUS
      <4>2. Len(parts) \in Nat
        BY <2>4, <2>5, <4>1 DEF Announces, Listing
      <4>3. [n \in 1 .. 0 |-> parts[n].sha256] = <<>>
        BY SMT
      <4>4. 0 \in 0 .. Len(parts)
        BY <4>2
      <4>5. st = [open |-> TRUE, parts |-> [n \in 1 .. 0 |-> parts[n].sha256]]
        BY <2>1, <4>3
      <4>6. Sent(parts, st)
        BY Zenon, <4>4, <4>5 DEF Sent
      <4> QED BY <4>1, <4>6
    <3>6. /\ ops[c] # NoOp => ops[c].action.plan = cl.prepared
          /\ cl.why \notin {"metadata", "plan"}
          /\ cl.why \in {"part", "file changed"} => used["edit"] > 0
      BY <2>4, <3>2 DEF Checking
    <3> QED BY <2>4, <3>3, <3>4, <3>5, <3>6 DEF Checking
  <2>8. OthersOps(c) /\ ops'[c] = ops[c]
    BY <1>1 DEF OthersOps
  <2> QED BY <1>1, <2>2, <2>6, <2>7, <2>8, ClientGoesOn
<1> QED BY <1>4, <1>5, <1>6 DEF OpenForm

Longer(old, n, data) == [m \in DOMAIN old \cup {n} |-> IF m = n THEN data ELSE old[m]]
Taken(st, n, data) == [st EXCEPT !.parts = Longer(@, n, data)]

LEMMA TakenIs ==
  ASSUME NEW old, NEW n, NEW data
  PROVE  Taken([open |-> TRUE, parts |-> old], n, data) =
           [open |-> TRUE, parts |-> Longer(old, n, data)]
<1>1. PICK st : st = [open |-> TRUE, parts |-> old]
  OBVIOUS
<1>2. PICK new : new = Longer(old, n, data)
  OBVIOUS
<1>3. st.parts = old
  BY <1>1
<1>4. Longer(st.parts, n, data) = new
  BY <1>2, <1>3
<1>5. Taken(st, n, data) = [st EXCEPT !.parts = new]
  BY <1>4 DEF Taken
<1>6. [st EXCEPT !.parts = new] = [open |-> TRUE, parts |-> new]
  <2>1. PICK yes : yes = TRUE
    OBVIOUS
  <2>2. st = [open |-> yes, parts |-> old]
    BY <1>1, <2>1
  <2>3. [st EXCEPT !.parts = new] = [open |-> yes, parts |-> new]
    BY <2>2
  <2> QED BY <2>1, <2>3
<1> QED BY <1>1, <1>2, <1>5, <1>6

LEMMA PartTaken ==
  ASSUME NEW c, NEW n, NEW data, Part(c, n, data), n \notin DOMAIN staged[c].parts,
         Announced(client[c].manifest.segments[n], data)
  PROVE  client' = client /\ staged' = [staged EXCEPT ![c] = Taken(staged[c], n, data)]
BY DEF Part, Received, Taken, Longer

(* The next part of the client that has checked its files.                  *)
LEMMA SentMore ==
  ASSUME NEW parts, Len(parts) \in Nat, NEW st, Sent(parts, st), NEW n, n = Len(st.parts) + 1,
         Len(st.parts) < Len(parts)
  PROVE  /\ n \in 1 .. Len(parts) /\ n \notin DOMAIN st.parts
         /\ Sent(parts, Taken(st, n, parts[n].sha256))
<1>1. PICK k \in 0 .. Len(parts) :
        st = [open |-> TRUE, parts |-> [i \in 1 .. k |-> parts[i].sha256]]
  BY DEF Sent
<1>2. PICK old : old = [i \in 1 .. k |-> parts[i].sha256] /\ old = st.parts
  BY <1>1
<1>3. Len(old) = k /\ DOMAIN old = 1 .. k
  <2>1. old = [i \in 1 .. k |-> old[i]]
    BY <1>2
  <2> QED BY <1>1, <2>1, MadeIs
<1>4. k + 1 \in 1 .. Len(parts) /\ k + 1 \in 0 .. Len(parts) /\ n = k + 1 /\ n \notin 1 .. k
  BY <1>1, <1>2, <1>3
<1>5. 1 .. k \cup {n} = 1 .. k + 1
  BY <1>1, <1>4
<1>0. PICK data : data = parts[n].sha256
  OBVIOUS
<1>6. PICK new : new = Longer(old, n, data)
  OBVIOUS
<1>7. new = [i \in 1 .. k + 1 |-> parts[i].sha256]
  <2>1. \A i \in 1 .. k + 1 : (IF i = n THEN data ELSE old[i]) = parts[i].sha256
    <3>1. \A i \in 1 .. k : old[i] = parts[i].sha256
      BY <1>2
    <3>2. \A i \in 1 .. k + 1 : i = n \/ i \in 1 .. k
      BY <1>5
    <3> QED BY <1>0, <3>1, <3>2
  <2>2. new = [i \in 1 .. k + 1 |-> IF i = n THEN data ELSE old[i]]
    BY <1>3, <1>5, <1>6 DEF Longer
  <2> QED BY <2>1, <2>2
<1>8. Taken(st, n, data) = [open |-> TRUE, parts |-> new]
  <2>1. st = [open |-> TRUE, parts |-> old]
    BY <1>1, <1>2
  <2> QED BY <1>6, <2>1, TakenIs
<1>9. Sent(parts, Taken(st, n, data))
  BY <1>4, <1>7, <1>8 DEF Sent
<1> QED BY <1>0, <1>2, <1>3, <1>4, <1>9

LEMMA CliSends ==
  ASSUME SendPart(Cli), NEW n, n = Len(staged[Cli].parts) + 1
  PROVE  /\ Len(staged[Cli].parts) < Len(client[Cli].manifest.segments)
         /\ Part(Cli, n, Data(disk[FileOf(client[Cli].manifest.segments[n])]))
BY Zenon DEF SendPart, Received

LEMMA SendPartFlows ==
  ASSUME SessionAssumption, HandoffInv, FlowInv, NEW c \in Clients, SendPart(c) PROVE FlowInv'
<1>1. client[c].pc = "sending" /\ staged[c].open /\ ops' = ops /\ SameFiles
  BY DEF SendPart, At, SameFiles
<1>2. /\ Bringing(client[c], ops[c]) /\ ClientIs(client[c])
      /\ Checking(client[Cli], ops[Cli], staged[Cli], used["edit"], disk)
      /\ client = [x \in Clients |-> client[x]]
  BY FlowHas
<1>3. OthersOps(c) /\ ops'[c] = ops[c]
  BY <1>1 DEF OthersOps
<1>4. ASSUME NEW n, NEW data, Part(c, n, data), c # Cli PROVE FlowInv'
  <2>1. CASE /\ client' = client
             /\ staged' = [staged EXCEPT ![c].parts =
                  [m \in DOMAIN @ \cup {n} |-> IF m = n THEN data ELSE @[m]]]
    <3>1. PICK st : staged' = [staged EXCEPT ![c] = st]
      BY <2>1
    <3>2. client' = [client EXCEPT ![c] = client[c]]
      BY <1>2, <2>1
    <3> QED BY <1>1, <1>2, <1>3, <1>4, <3>1, <3>2, ClientGoesOn
  <2>2. CASE GiveUp(c, "part") /\ Close(c)
    <3>1. staged' = [staged EXCEPT ![c] = Closed]
      BY <2>2 DEF Close
    <3> QED BY <1>1, <1>4, <2>2, <3>1, GivesUp
  <2> QED BY <1>4, <2>1, <2>2 DEF Part
<1>5. ASSUME c = Cli PROVE FlowInv'
  <2>1. PICK cl, st, parts, n, data :
          /\ cl = client[c] /\ st = staged[c] /\ parts = cl.manifest.segments
          /\ n = Len(st.parts) + 1 /\ data = Data(disk[FileOf(parts[n])])
    OBVIOUS
  <2>9. cl = client[c] /\ st = staged[c] /\ parts = cl.manifest.segments
    BY Zenon, <2>1
  <2>2. Len(st.parts) < Len(parts) /\ Part(c, n, data)
    BY Zenon, <1>5, <2>1, CliSends
  <2>3. Announces(cl.manifest) /\ Len(parts) \in Nat /\ DOMAIN parts = 1 .. Len(parts)
    <3>1. Announces(cl.manifest)
      BY Zenon, <1>1, <1>2, <2>9 DEF Bringing
    <3> QED BY <2>9, <3>1 DEF Announces, Listing
  <2>4. Checking(cl, ops[c], st, used["edit"], disk)
    BY Zenon, <1>2, <1>5, <2>9
  <2>5. Sent(parts, st) /\ cl.pc = "sending"
    BY <1>1, <2>1, <2>4 DEF Checking
  <2>6. n \in 1 .. Len(parts) /\ n \notin DOMAIN st.parts
    <3>1. n = Len(st.parts) + 1
      BY <2>1
    <3> QED BY <2>2, <2>3, <2>5, <3>1, SentMore
  <2>7. CASE Announced(parts[n], data)
    <3>1. data = parts[n].sha256
      BY <2>7 DEF Announced
    <3>2. PICK new : new = Taken(st, n, data)
      OBVIOUS
    <3>3. Sent(parts, new)
      <4>1. n = Len(st.parts) + 1
        BY <2>1
      <4>2. Sent(parts, Taken(st, n, parts[n].sha256))
        BY <2>2, <2>3, <2>5, <4>1, SentMore
      <4> QED BY <3>1, <3>2, <4>2
    <3>4. client' = client /\ staged' = [staged EXCEPT ![c] = Taken(staged[c], n, data)]
      <4>1. /\ Part(c, n, data) /\ n \notin DOMAIN staged[c].parts
            /\ Announced(client[c].manifest.segments[n], data)
        BY Zenon, <2>2, <2>6, <2>7, <2>9
      <4> QED BY <4>1, PartTaken
    <3>5. staged' = [staged EXCEPT ![c] = new]
      BY Zenon, <2>9, <3>2, <3>4
    <3>6. client' = [client EXCEPT ![c] = cl]
      BY <1>2, <2>9, <3>4
    <3>7. Checking(cl, ops[c], new, used["edit"], disk)
      BY <2>4, <2>5, <2>9, <3>3 DEF Checking
    <3> QED BY <1>1, <1>2, <1>3, <2>9, <3>5, <3>6, <3>7, ClientGoesOn
  <2>8. CASE ~Announced(parts[n], data)
    <3>1. GiveUp(c, "part") /\ staged' = [staged EXCEPT ![c] = Closed]
      <4>1. ~Announced(client[c].manifest.segments[n], data)
        BY <2>8, <2>9
      <4> QED BY Zenon, <2>2, <4>1 DEF Part, Close
    <3>2. PICK held : Preflighted(cl, held) /\ (used["edit"] = 0 => held = disk)
      BY <1>5, <2>1, <2>5, Preflights DEF Past
    <3>3. Announced(parts[n], Data(held[FileOf(parts[n])]))
      BY <1>5, <2>3, <2>6, <2>9, <3>2, FileIs
    <3>4. used["edit"] > 0
      <4>1. held # disk
        <5>1. data = Data(disk[FileOf(parts[n])])
          BY <2>1
        <5> QED BY <2>8, <3>3, <5>1
      <4>2. used["edit"] # 0
        BY <3>2, <4>1
      <4>3. used["edit"] \in Nat
        BY FlowHas
      <4> QED BY <4>2, <4>3
    <3>5. PICK why : why = "part"
      OBVIOUS
    <3>6. why \notin {"metadata", "plan"} /\ GiveUp(c, why)
      BY <3>1, <3>5
    <3> QED BY <1>1, <3>1, <3>4, <3>6, ClosedIs, GivesUp
  <2> QED BY <2>7, <2>8
<1>6. CASE c # Cli
  <2>1. PICK n, data : Part(c, n, data)
    BY <1>6 DEF SendPart
  <2> QED BY <1>4, <1>6, <2>1
<1> QED BY <1>5, <1>6

LEMMA EndBodyFlows ==
  ASSUME SessionAssumption, HandoffInv, FlowInv, NEW c \in Clients, EndBody(c) PROVE FlowInv'
<1>1. PICK cl, m, received, prepared, action :
        /\ cl = client[c] /\ m = cl.manifest /\ received = staged[c].parts
        /\ prepared = IntoPlan(m, received) /\ action = [kind |-> "flash", plan |-> prepared]
  OBVIOUS
<1>2. /\ cl.pc = "sending" /\ staged[c].open /\ SameFiles
      /\ staged' = [staged EXCEPT ![c] = Closed]
  BY <1>1 DEF EndBody, At, SameFiles, Close
<1>3. /\ Bringing(cl, ops[c])
      /\ Checking(client[Cli], ops[Cli], staged[Cli], used["edit"], disk)
  BY <1>1, FlowHas
<1>4. Announces(m)
  BY <1>1, <1>2, <1>3 DEF Bringing
<1>5. c = Cli => Len(received) = Len(m.segments)
  BY <1>1 DEF EndBody, Received
<1>6. \/ (~Ok(prepared) \/ ~Validate(prepared)) /\ GiveUp(c, "plan") /\ ops' = ops
      \/ Ok(prepared) /\ Validate(prepared) /\ Submit(c, m.device, action)
  BY <1>1 DEF EndBody, Received
<1>7. c = Cli => Ok(prepared) /\ Validate(prepared) /\ prepared = cl.prepared
  <2>1. SUFFICES ASSUME c = Cli PROVE Ok(prepared) /\ Validate(prepared) /\ prepared = cl.prepared
    OBVIOUS
  <2>2. PICK held : Preflighted(cl, held)
    BY <1>1, <1>2, <2>1, Preflights DEF Past
  <2>3. PICK plan, p : plan = cl.plan /\ p = cl.prepared
    OBVIOUS
  <2>4. /\ PreparedIs(p, plan, held) /\ ManifestIs(m, p) /\ Validate(p)
        /\ Total([n \in DOMAIN p.segments |-> Len(p.segments[n].data)]) <= MaxUpload
    BY <1>1, <2>2, <2>3 DEF Preflighted
  <2>5. received = [n \in DOMAIN m.segments |-> m.segments[n].sha256]
    <3>1. Checking(cl, ops[c], staged[c], used["edit"], disk)
      BY <1>1, <1>3, <2>1
    <3>2. Sent(m.segments, staged[c])
      BY <1>1, <1>2, <3>1 DEF Checking
    <3>3. PICK k \in 0 .. Len(m.segments) :
            staged[c] = [open |-> TRUE, parts |-> [n \in 1 .. k |-> m.segments[n].sha256]]
      BY <3>2 DEF Sent
    <3>4. received = [n \in 1 .. k |-> m.segments[n].sha256]
      BY <1>1, <3>3
    <3>5. received = [n \in 1 .. k |-> received[n]]
      BY <3>4
    <3>6. Len(m.segments) \in Nat /\ DOMAIN m.segments = 1 .. Len(m.segments)
      BY <1>4 DEF Announces, Listing
    <3>7. Len(received) = k
      BY <3>5, <3>6, MadeIs
    <3> QED BY <1>5, <2>1, <3>4, <3>6, <3>7
  <2>6. IntoPlan(m, received) = p /\ Ok(p)
    BY <2>4, <2>5, PlanIsBack
  <2> QED BY <1>1, <2>3, <2>4, <2>6
<1>8. CASE (~Ok(prepared) \/ ~Validate(prepared)) /\ GiveUp(c, "plan") /\ ops' = ops
  <2>1. c # Cli
    BY <1>7, <1>8
  <2> QED BY <1>2, <1>8, <2>1, GivesUp
<1>9. CASE Ok(prepared) /\ Validate(prepared) /\ Submit(c, m.device, action)
  <2>1. action.kind = "flash" /\ action.plan = prepared
    BY <1>1
  <2>2. /\ Announces(client[c].manifest)
        /\ \E r : action.plan = IntoPlan(client[c].manifest, r) /\ Ok(action.plan)
    BY <1>1, <1>4, <1>9, <2>1
  <2>3. c = Cli => client[c].pc \in Past /\ action.plan = client[c].prepared
    BY <1>1, <1>2, <1>7, <2>1 DEF Past
  <2> QED BY <1>2, <1>9, <2>2, <2>3, ClosedIs, Submits
<1> QED BY <1>6, <1>8, <1>9

-----------------------------------------------------------------------------
(* What erasing and writing a segment do to a flash of whole sectors. *)

LEMMA Times ==
  ASSUME NEW p \in Nat, NEW q \in Nat, p < q, NEW k \in Nat PROVE p * k + k <= q * k
OBVIOUS

LEMMA SmallRemains ==
  ASSUME NEW a \in Nat, NEW k \in Nat, a < k PROVE a % k = a
OBVIOUS

(* What ends within whole sectors leaves no part of one behind.             *)
LEMMA RoundUpWithin ==
  ASSUME NEW n \in Nat, NEW k \in Nat \ {0}, NEW c \in Nat, n <= c, RoundDown(c, k) = c
  PROVE  RoundUp(n, k) <= c
<1>1. ASSUME NEW m \in Nat PROVE m \div k \in Nat /\ (m \div k) * k <= m
  OBVIOUS
<1>2. PICK m \in Nat : m = (n + k) - 1
  OBVIOUS
<1>3. PICK q \in Nat : q = m \div k
  BY <1>1
<1>4. q * k \in Nat /\ q * k <= m
  BY <1>1, <1>3
<1>5. PICK p \in Nat : p = c \div k
  BY <1>1
<1>6. p * k = c
  BY <1>5 DEF RoundDown
<1>7. ~(p < q)
  <2>1. SUFFICES ASSUME p < q PROVE FALSE
    OBVIOUS
  <2>2. p * k + k <= q * k
    BY <2>1, Times
  <2> QED BY <1>2, <1>4, <1>6, <2>2
<1>8. q * k <= p * k
  <2>1. q < p \/ q = p
    BY <1>7
  <2>2. CASE q < p
    <3>1. q * k + k <= p * k
      BY <2>2, Times
    <3> QED BY <1>4, <1>6, <3>1
  <2>3. CASE q = p
    BY <1>4, <2>3
  <2> QED BY <2>1, <2>2, <2>3
<1>9. RoundUp(n, k) = q * k
  BY <1>2, <1>3 DEF RoundUp
<1> QED BY <1>6, <1>8, <1>9

Whole(capacity) == capacity \in Nat \ {0} /\ RoundDown(capacity, Sector) = capacity
Round(capacity, addresses) == {a % capacity : a \in addresses}

LEMMA RoundIs ==
  ASSUME NEW c \in Nat, NEW A, \A a \in A : a \in Nat /\ a < c PROVE Round(c, A) = A
<1>1. \A a \in A : a % c = a
  BY SmallRemains
<1> QED BY <1>1 DEF Round

(* Where a segment is, and what is erased for it.                           *)
LEMMA SegmentWhere ==
  ASSUME NEW c, Whole(c), NEW s, SegmentIs(s), s.offset + Len(s.data) <= c
  PROVE  /\ Round(c, Erased(s.offset, Len(s.data))) = Erased(s.offset, Len(s.data))
         /\ Round(c, s.offset .. s.offset + Len(s.data) - 1) = s.offset .. s.offset + Len(s.data) - 1
         /\ \A a \in s.offset .. s.offset + Len(s.data) - 1 :
              /\ a \in 0 .. c - 1 /\ a \in Erased(s.offset, Len(s.data))
              /\ (a - s.offset) % c = a - s.offset
<1>1. PICK o \in Nat, l \in Nat : o = s.offset /\ l = Len(s.data) /\ l > 0
  BY SegmentHas DEF SegmentIs
<1>2. PICK n \in Nat : n = o + l /\ n <= c
  BY <1>1
<1>3. c \in Nat /\ c > 0
  BY DEF Whole
<1>4. PICK r \in Nat : r = RoundUp(n, Sector) /\ n <= r /\ r <= c
  <2>1. RoundUp(n, Sector) <= c
    BY <1>2, <1>3, RoundUpWithin, PlanAssumption DEF Whole
  <2> QED BY <2>1, Rounds, PlanAssumption
<1>5. PICK f \in Nat : f = RoundDown(o, Sector) /\ f <= o
  BY Rounds, PlanAssumption
<1>6. Erased(o, l) = f .. r - 1
  BY <1>2, <1>4, <1>5 DEF Erased
<1>7. Round(c, Erased(o, l)) = Erased(o, l)
  <2>1. \A a \in Erased(o, l) : a \in Nat /\ a < c
    BY <1>3, <1>4, <1>6
  <2> QED BY <1>3, <2>1, RoundIs
<1>8. ASSUME NEW a \in o .. o + l - 1
      PROVE  a \in Nat /\ a < c /\ a \in 0 .. c - 1 /\ a \in Erased(o, l) /\ (a - o) % c = a - o
  <2>1. a \in Nat /\ a < n /\ a < c /\ a \in 0 .. c - 1 /\ a \in f .. r - 1
    BY <1>2, <1>3, <1>4, <1>5
  <2>2. a - o \in Nat /\ a - o < c
    <3>1. PICK b \in Nat, e \in Nat : b = a /\ e = c
      BY <1>3, <2>1
    <3>2. o <= b /\ b < e
      BY <2>1, <3>1
    <3>3. b - o \in Nat /\ b - o < e
      BY <3>2
    <3> QED BY <3>1, <3>3
  <2>3. (a - o) % c = a - o
    BY <1>3, <2>2, SmallRemains
  <2> QED BY <1>6, <2>1, <2>3
<1>9. Round(c, o .. o + l - 1) = o .. o + l - 1
  BY <1>3, <1>8, RoundIs
<1> QED BY <1>1, <1>7, <1>8, <1>9

(* What is erased for a segment is of no segment before it.                 *)
LEMMA ErasedApart ==
  ASSUME NEW segments, SegmentsAre(segments), Rises(segments),
         NEW i \in DOMAIN segments, NEW j \in DOMAIN segments, i < j,
         NEW a \in segments[i].offset .. segments[i].offset + Len(segments[i].data) - 1
  PROVE  a \notin Erased(segments[j].offset, Len(segments[j].data))
<1>1. PICK s, t : s = segments[i] /\ t = segments[j]
  OBVIOUS
<1>2. SegmentIs(s) /\ SegmentIs(t) /\ i \in Nat /\ j \in Nat
  BY <1>1 DEF SegmentsAre, Listing
<1>3. PICK o \in Nat, l \in Nat, p \in Nat, m \in Nat :
        o = s.offset /\ l = Len(s.data) /\ p = t.offset /\ m = Len(t.data)
  BY <1>2, SegmentHas DEF SegmentIs
<1>4. o < p
  BY <1>1, <1>3 DEF Rises
<1>5. RoundUp(o + l, Sector) <= RoundDown(p, Sector)
  BY <1>1, <1>2, <1>3, <1>4 DEF SegmentsAre, Apart
<1>6. PICK n \in Nat : n = o + l
  OBVIOUS
<1>7. /\ RoundUp(n, Sector) \in Nat /\ n <= RoundUp(n, Sector)
      /\ RoundDown(p, Sector) \in Nat
  BY Rounds, PlanAssumption
<1>8. a \in o .. n - 1
  BY <1>1, <1>3, <1>6
<1>9. a < RoundDown(p, Sector)
  BY <1>5, <1>6, <1>7, <1>8
<1>10. PICK q \in Nat : q = p + m
  OBVIOUS
<1>11. RoundUp(q, Sector) \in Nat
  BY Rounds, PlanAssumption
<1>12. a \notin Erased(p, m)
  BY <1>7, <1>8, <1>9, <1>10, <1>11 DEF Erased
<1> QED BY <1>1, <1>3, <1>12

(* A segment and where its bytes are.                                       *)
LEMMA PutAt ==
  ASSUME NEW c, Whole(c), NEW segments, SegmentsAre(segments), Below(segments, c),
         NEW i \in DOMAIN segments, NEW k \in 1 .. Len(segments[i].data), NEW a,
         a = segments[i].offset + k - 1
  PROVE  /\ a \in segments[i].offset .. segments[i].offset + Len(segments[i].data) - 1
         /\ a \in 0 .. c - 1 /\ ((a - segments[i].offset) % c) + 1 = k
<1>1. PICK s : s = segments[i]
  OBVIOUS
<1>2. SegmentIs(s) /\ s.offset + Len(s.data) <= c
  BY <1>1 DEF SegmentsAre, Below
<1>3. PICK o \in Nat, l \in Nat : o = s.offset /\ l = Len(s.data)
  BY <1>2, SegmentHas DEF SegmentIs
<1>4. PICK h \in Nat : k = h + 1 /\ h < l
  <2>1. k \in 1 .. l
    BY <1>1, <1>3
  <2>2. k - 1 \in Nat /\ k = (k - 1) + 1 /\ k - 1 < l
    BY <2>1
  <2> QED BY <2>2
<1>5. a = o + h /\ a \in o .. o + l - 1 /\ a - o = h
  BY <1>1, <1>3, <1>4
<1>6. a \in 0 .. c - 1 /\ (a - o) % c = a - o
  BY <1>2, <1>3, <1>5, SegmentWhere
<1> QED BY <1>1, <1>3, <1>4, <1>5, <1>6

LEMMA BeforeIs ==
  ASSUME NEW segments, Listing(segments), NEW n \in DOMAIN segments
  PROVE  /\ n \in Nat /\ n \in 1 .. Len(segments) /\ 1 .. n - 1 \subseteq DOMAIN segments
         /\ \A i \in 1 .. n - 1 : i < n
         /\ 1 .. n = (1 .. n - 1) \cup {n}
<1>1. DOMAIN segments = 1 .. Len(segments) /\ Len(segments) \in Nat
  BY DEF Listing
<1>2. PICK m \in 1 .. Len(segments) : m = n
  BY <1>1
<1>3. /\ m \in Nat /\ 1 .. m - 1 \subseteq 1 .. Len(segments) /\ \A i \in 1 .. m - 1 : i < m
      /\ 1 .. m = (1 .. m - 1) \cup {m}
  BY <1>1
<1> QED BY <1>1, <1>2, <1>3

(* What erasing and writing make of the cells.                              *)
Blanked(cells, gone) == [a \in DOMAIN cells |-> IF a \in gone THEN Blank ELSE cells[a]]
Written(cells, put, s, c) ==
  [a \in DOMAIN cells |-> IF a \in put THEN s.data[((a - s.offset) % c) + 1] ELSE cells[a]]

LEMMA SizeStays ==
  ASSUME NEW cells, NEW c, OfSize(cells, c)
  PROVE  /\ \A gone : OfSize(Blanked(cells, gone), c)
         /\ \A put, s : OfSize(Written(cells, put, s, c), c)
<1>1. DOMAIN cells = 0 .. c - 1
  BY DEF OfSize
<1>2. ASSUME NEW gone PROVE OfSize(Blanked(cells, gone), c)
  <2>1. PICK new : new = Blanked(cells, gone)
    OBVIOUS
  <2>2. new = [a \in 0 .. c - 1 |-> new[a]]
    BY <1>1, <2>1 DEF Blanked
  <2> QED BY <2>1, <2>2 DEF OfSize
<1>3. ASSUME NEW put, NEW s PROVE OfSize(Written(cells, put, s, c), c)
  <2>1. PICK new : new = Written(cells, put, s, c)
    OBVIOUS
  <2>2. new = [a \in 0 .. c - 1 |-> new[a]]
    BY <1>1, <2>1 DEF Written
  <2> QED BY <2>1, <2>2 DEF OfSize
<1> QED BY <1>2, <1>3

LEMMA EraseKept ==
  ASSUME NEW c, Whole(c), NEW segments, SegmentsAre(segments), Rises(segments), Below(segments, c),
         NEW n \in DOMAIN segments, NEW cells, OfSize(cells, c), NEW before,
         Upto(cells, before, segments, n - 1, n - 1), NEW s, s = segments[n]
  PROVE  Upto(Blanked(cells, Round(c, Erased(s.offset, Len(s.data)))), before, segments, n, n - 1)
<1>0. PICK gone : gone = Round(c, Erased(s.offset, Len(s.data)))
  OBVIOUS
<1>1. PICK new : new = Blanked(cells, gone) /\ s = segments[n]
  OBVIOUS
<1>2. SegmentIs(s) /\ s.offset + Len(s.data) <= c
  BY <1>1 DEF SegmentsAre, Below
<1>3. gone = Erased(s.offset, Len(s.data))
  BY <1>0, <1>2, SegmentWhere
<1>4. DOMAIN cells = 0 .. c - 1 /\ DOMAIN new = 0 .. c - 1
  BY <1>1 DEF OfSize, Blanked
<1>5. \A a \in 0 .. c - 1 : a \notin gone => new[a] = cells[a]
  BY <1>1, <1>4 DEF Blanked
<1>6. /\ \A i \in 1 .. n - 1 : i \in DOMAIN segments /\ i < n
      /\ n \in 1 .. n /\ 1 .. n - 1 \subseteq 1 .. n
  BY BeforeIs DEF SegmentsAre
<1>7. ASSUME NEW i \in 1 .. n - 1, NEW k \in 1 .. Len(segments[i].data)
      PROVE  new[segments[i].offset + k - 1] = segments[i].data[k]
  <2>1. PICK a : a = segments[i].offset + k - 1
    OBVIOUS
  <2>2. i \in DOMAIN segments /\ i < n
    BY <1>6
  <2>3. a \in segments[i].offset .. segments[i].offset + Len(segments[i].data) - 1 /\ a \in 0 .. c - 1
    BY <2>1, <2>2, PutAt
  <2>4. a \notin gone
    BY <1>1, <1>3, <2>2, <2>3, ErasedApart
  <2>5. cells[segments[i].offset + k - 1] = segments[i].data[k]
    BY DEF Upto, PutIn
  <2> QED BY <1>5, <2>1, <2>3, <2>4, <2>5
<1>8. ASSUME NEW a \in DOMAIN new,
             \A i \in 1 .. n : a \notin Erased(segments[i].offset, Len(segments[i].data))
      PROVE  new[a] = before[a]
  <2>1. a \in 0 .. c - 1 /\ a \in DOMAIN cells
    BY <1>4, <1>8
  <2>2. a \notin gone
    BY <1>1, <1>3, <1>6, <1>8
  <2>3. cells[a] = before[a]
    BY <1>6, <1>8, <2>1 DEF Upto, Spares
  <2> QED BY <1>5, <2>1, <2>2, <2>3
<1>9. Upto(new, before, segments, n, n - 1)
  BY <1>7, <1>8 DEF Upto, PutIn, Spares
<1> QED BY <1>0, <1>1, <1>9

LEMMA WriteKept ==
  ASSUME NEW c, Whole(c), NEW segments, SegmentsAre(segments), Rises(segments), Below(segments, c),
         NEW n \in DOMAIN segments, NEW cells, OfSize(cells, c), NEW before,
         Upto(cells, before, segments, n, n - 1), NEW s, s = segments[n]
  PROVE  Upto(Written(cells, Round(c, s.offset .. s.offset + Len(s.data) - 1), s, c),
              before, segments, n, n)
<1>0. PICK put, new : /\ put = Round(c, s.offset .. s.offset + Len(s.data) - 1)
                      /\ new = Written(cells, put, s, c)
  OBVIOUS
<1>1. SegmentIs(s) /\ s.offset + Len(s.data) <= c
  BY DEF SegmentsAre, Below
<1>2. /\ put = s.offset .. s.offset + Len(s.data) - 1
      /\ \A a \in put : a \in Erased(s.offset, Len(s.data))
  BY <1>0, <1>1, SegmentWhere
<1>3. DOMAIN cells = 0 .. c - 1 /\ DOMAIN new = 0 .. c - 1
  BY <1>0 DEF OfSize, Written
<1>4. \A a \in 0 .. c - 1 :
        /\ a \notin put => new[a] = cells[a]
        /\ a \in put => new[a] = s.data[((a - s.offset) % c) + 1]
  BY <1>0, <1>3 DEF Written
<1>5. /\ \A i \in 1 .. n - 1 : i \in DOMAIN segments /\ i < n
      /\ \A i \in 1 .. n : i \in 1 .. n - 1 \/ i = n
      /\ n \in 1 .. n
  BY BeforeIs DEF SegmentsAre
<1>6. ASSUME NEW i \in 1 .. n - 1, NEW k \in 1 .. Len(segments[i].data)
      PROVE  new[segments[i].offset + k - 1] = segments[i].data[k]
  <2>1. PICK a : a = segments[i].offset + k - 1
    OBVIOUS
  <2>2. i \in DOMAIN segments /\ i < n
    BY <1>5
  <2>3. a \in segments[i].offset .. segments[i].offset + Len(segments[i].data) - 1 /\ a \in 0 .. c - 1
    BY <2>1, <2>2, PutAt
  <2>4. a \notin put
    BY <1>2, <2>2, <2>3, ErasedApart
  <2>5. cells[segments[i].offset + k - 1] = segments[i].data[k]
    BY DEF Upto, PutIn
  <2> QED BY <1>4, <2>1, <2>3, <2>4, <2>5
<1>7. ASSUME NEW k \in 1 .. Len(s.data)
      PROVE  new[s.offset + k - 1] = s.data[k]
  <2>1. PICK a : a = s.offset + k - 1
    OBVIOUS
  <2>2. /\ a \in s.offset .. s.offset + Len(s.data) - 1 /\ a \in 0 .. c - 1
        /\ ((a - s.offset) % c) + 1 = k
    BY <2>1, PutAt
  <2>3. a \in put
    BY <1>2, <2>2
  <2> QED BY <1>4, <2>1, <2>2, <2>3
<1>8. ASSUME NEW i \in 1 .. n PROVE PutIn(new, segments[i])
  BY <1>5, <1>6, <1>7 DEF PutIn
<1>9. ASSUME NEW a \in DOMAIN new,
             \A i \in 1 .. n : a \notin Erased(segments[i].offset, Len(segments[i].data))
      PROVE  new[a] = before[a]
  <2>1. a \in 0 .. c - 1 /\ a \in DOMAIN cells
    BY <1>3, <1>9
  <2>2. a \notin put
    BY <1>2, <1>5, <1>9
  <2>3. cells[a] = before[a]
    BY <1>9, <2>1 DEF Upto, Spares
  <2> QED BY <1>4, <2>1, <2>2, <2>3
<1>10. Upto(new, before, segments, n, n)
  BY <1>8, <1>9 DEF Upto, Spares
<1> QED BY <1>0, <1>10

-----------------------------------------------------------------------------
(* What the workers and the cables leave to the clients. *)

OpsOn ==
  \A c \in Clients : /\ ops'[c] # NoOp => ops[c] # NoOp
                     /\ ops[c] # NoOp => ops'[c] # NoOp /\ ops'[c].action = ops[c].action

LEMMA OpsOnSame == ASSUME ops' = ops PROVE OpsOn
BY DEF OpsOn

LEMMA OpsOnStays == ASSUME OpsOn PROVE ActionsStay
BY DEF OpsOn, ActionsStay, Asked, Later

LEMMA OpsOnSet ==
  ASSUME OpsKnown, NEW c, Asked(c), ActionsStay, \A x \in Clients : x # c => ops'[x] = ops[x]
  PROVE  OpsOn
BY DEF OpsOn, ActionsStay, Asked, Later

LEMMA OpsOnStatus ==
  ASSUME OpsKnown, NEW c, Asked(c), NEW status, status # "none", NEW why,
         ops' = [ops EXCEPT ![c] = [@ EXCEPT !.status = status, !.why = why]]
  PROVE  OpsOn
<1>1. ActionsStay
  BY OpsStatus
<1>2. \A x \in Clients : x # c => ops'[x] = ops[x]
  BY DEF OpsKnown
<1> QED BY <1>1, <1>2, OpsOnSet

LEMMA OpsOnStatusOnly ==
  ASSUME OpsKnown, NEW c, Asked(c), NEW status, status # "none",
         ops' = [ops EXCEPT ![c] = [@ EXCEPT !.status = status]]
  PROVE  OpsOn
<1>1. ActionsStay
  BY OpsStatusOnly
<1>2. \A x \in Clients : x # c => ops'[x] = ops[x]
  BY DEF OpsKnown
<1> QED BY <1>1, <1>2, OpsOnSet

LEMMA FailOps ==
  ASSUME HandoffInv, NEW d \in Devices, worker[d].pc # "idle", NEW why, Fail(d, why) PROVE OpsOn
<1>1. OpsKnown /\ Asked(worker[d].op)
  BY DeviceHas
<1>2. PICK status : status = "failed"
  OBVIOUS
<1>3. /\ status # "none"
      /\ ops' = [ops EXCEPT ![worker[d].op] = [@ EXCEPT !.status = status, !.why = why]]
  BY <1>2 DEF Fail
<1> QED BY <1>1, <1>3, OpsOnStatus

LEMMA SucceedOps ==
  ASSUME HandoffInv, NEW d \in Devices, worker[d].pc # "idle", Succeed(d) PROVE OpsOn
<1>1. OpsKnown /\ Asked(worker[d].op)
  BY DeviceHas
<1>2. PICK status : status = "succeeded"
  OBVIOUS
<1>3. status # "none" /\ ops' = [ops EXCEPT ![worker[d].op] = [@ EXCEPT !.status = status]]
  BY <1>2 DEF Succeed
<1> QED BY <1>1, <1>3, OpsOnStatusOnly

LEMMA WorkOps ==
  ASSUME HandoffInv, NEW d \in Devices, Work(d) PROVE OpsOn
<1>1. OpsKnown
  BY DeviceHas
<1>2. CASE TakeJob(d)
  <2>1. PICK c \in Clients : /\ ops[c].status = "queued"
                             /\ ops' = [ops EXCEPT ![c] = [@ EXCEPT !.status = "running"]]
    BY <1>2 DEF TakeJob
  <2>2. Asked(c)
    BY <2>1 DEF Asked, NoOp
  <2>3. PICK status : status = "running"
    OBVIOUS
  <2>4. status # "none" /\ ops' = [ops EXCEPT ![c] = [@ EXCEPT !.status = status]]
    BY <2>1, <2>3
  <2> QED BY <1>1, <2>2, <2>4, OpsOnStatusOnly
<1>3. CASE Lease(d)
  BY <1>3, FailOps, OpsOnSame DEF Lease, Doing
<1>4. CASE Claim(d)
  BY <1>4, FailOps, OpsOnSame DEF Claim, Doing
<1>5. CASE IoFails(d)
  <2>1. worker[d].pc # "idle" /\ Fail(d, "io")
    BY <1>5 DEF IoFails
  <2> QED BY <2>1, FailOps
<1>6. CASE Connect(d)
  BY <1>6, FailOps, OpsOnSame DEF Connect, Doing
<1>7. CASE Check(d)
  BY <1>7, FailOps, OpsOnSame DEF Check, Doing, Goto
<1>8. CASE EraseSegment(d) \/ WriteSegment(d) \/ ReadFlash(d) \/ Listen(d) \/ LosePort(d)
  BY Zenon, <1>8, OpsOnSame DEF EraseSegment, WriteSegment, ReadFlash, Goto, Listen, LosePort
<1>9. CASE EraseChip(d)
  BY <1>9, SucceedOps DEF EraseChip, Doing
<1>10. CASE SetBaud(d)
  BY <1>10, SucceedOps, OpsOnSame DEF SetBaud, Doing, Monitor, Goto
<1>11. CASE ClearInput(d)
  BY <1>11, SucceedOps, OpsOnSame DEF ClearInput, Doing, Monitor
<1>12. CASE Reset(d)
  BY <1>12, SucceedOps DEF Reset, Doing, Monitor
<1> QED BY <1>2, <1>3, <1>4, <1>5, <1>6, <1>7, <1>8, <1>9, <1>10, <1>11, <1>12 DEF Work

LEMMA WorkLeaves == ASSUME NEW d \in Devices, Work(d) PROVE UNCHANGED <<client, staged>> /\ SameFiles
BY Zenon
DEF Work, TakeJob, Lease, Claim, IoFails, Connect, Check, EraseSegment, WriteSegment, ReadFlash,
    EraseChip, SetBaud, ClearInput, Reset, Listen, LosePort, Broken, Fault, SameFiles, clientVars

LEMMA FlowStays ==
  ASSUME SessionAssumption, FlowInv, UNCHANGED <<client, staged>>, SameFiles, OpsOn PROVE FlowInv'
<1>1. /\ client = [x \in Clients |-> client[x]] /\ staged = [x \in Clients |-> staged[x]]
      /\ \A x \in Clients : Bringing(client[x], ops[x])
      /\ Checking(client[Cli], ops[Cli], staged[Cli], used["edit"], disk)
  BY FlowHas
<1>2. /\ DiskIs(disk') /\ disk' = disk /\ used'["edit"] = used["edit"]
      /\ used' = [edit |-> used'["edit"], fault |-> used'["fault"]] /\ used'["edit"] \in Nat
  BY FilesStay
<1>3. ASSUME NEW cl, NEW o, NEW p, Bringing(cl, o), o # NoOp <=> p # NoOp,
             o # NoOp => p.action = o.action
      PROVE  Bringing(cl, p)
  <2>1. p # NoOp /\ p.action.kind = "flash" => Planned(cl, p)
    BY <1>3 DEF Bringing, Planned
  <2> QED BY <1>3, <2>1 DEF Bringing
<1>4. \A x \in Clients : Bringing(client[x], ops'[x])
  BY <1>1, <1>3 DEF OpsOn
<1>5. Checking(client[Cli], ops'[Cli], staged[Cli], used["edit"], disk)
  BY <1>1 DEF Checking, OpsOn, SessionAssumption
<1> QED BY <1>1, <1>2, <1>4, <1>5 DEF FlowInv

-----------------------------------------------------------------------------
(* What the chip has, step by step of a worker. *)

LEMMA FlashingIdle ==
  ASSUME NEW w, w.pc = "idle", NEW b, NEW a, NEW live, NEW c PROVE Flashing(w, b, a, live, c)
BY DEF Flashing, Begun, ForReset, Opening

LEMMA FlashingOpens ==
  ASSUME NEW w, w.pc \in Opening, w.at = 1, NEW b, NEW a, NEW live, NEW c
  PROVE  Flashing(w, b, a, live, c)
BY DEF Flashing, Begun, ForReset, Opening

(* As long as an attachment works, its worker's board is what counts.       *)
LEMMA FlashingStays ==
  ASSUME NEW w, NEW b, NEW a, NEW live, NEW c, Flashing(w, b, a, live, c), NEW other, NEW act, NEW now,
         w.pc # "idle" => act = a, now => live /\ other.cells = b.cells
  PROVE  Flashing(w, other, act, now, c)
<1>1. CASE w.pc = "idle"
  BY <1>1, FlashingIdle
<1>2. CASE w.pc # "idle"
  BY <1>2 DEF Flashing
<1> QED BY <1>1, <1>2

SameCells(d) ==
  \A b \in Boards : boards'[b].cells = boards[b].cells \/ (Live(d) /\ usb[d].board = b)
CellsKnown == \A b \in Boards : CellsAre(boards[b], Kind[b].capacity)
Flashes(d) == Flashing(worker[d], Board(d), Action(d), Live(d), Kind[usb[d].board].capacity)

LEMMA ChipHas ==
  ASSUME ChipInv, NEW d \in Devices PROVE Flashes(d) /\ CellsKnown
BY DEF ChipInv, Flashes, CellsKnown

LEMMA CellsSame == ASSUME NEW d, boards' = boards PROVE SameCells(d) /\ (CellsKnown => CellsKnown')
BY DEF SameCells, CellsKnown, CellsAre

LEMMA ChipOthers ==
  ASSUME SessionAssumption, HandoffInv, ChipInv, NEW d \in Devices, ActionsStay, SameCells(d),
         NEW x \in Devices, x # d, worker'[x] = worker[x], usb'[x] = usb[x]
  PROVE  Flashing(worker[x], boards'[usb[x].board], ops'[worker[x].op].action, Live(x),
                  Kind[usb[x].board].capacity)
<1>1. /\ Sound(worker[x], usb[x], Board(x), KindOf(x)) /\ Sound(worker[d], usb[d], Board(d), KindOf(d))
      /\ worker[x].pc # "idle" => Asked(worker[x].op)
      /\ InOrder /\ Flashes(x)
  BY DeviceHas, ChipHas DEF HandoffInv
<1>2. worker[x].pc # "idle" => ops'[worker[x].op].action = Action(x)
  BY <1>1 DEF ActionsStay, Action, Op
<1>3. /\ usb[x].board \in Boards \cup {NoBoard} /\ (Live(x) => usb[x].board # NoBoard)
      /\ Live(d) => usb[d].board # NoBoard
  BY <1>1 DEF Sound, Live
<1>4. Live(d) => ~Live(x)
  BY <1>1, <1>3, OneWorks
<1>5. Live(x) => boards'[usb[x].board].cells = Board(x).cells
  BY <1>3, <1>4 DEF SameCells, Board
<1>6. PICK b, a, c, other, act :
        /\ b = Board(x) /\ a = Action(x) /\ c = Kind[usb[x].board].capacity
        /\ other = boards'[usb[x].board] /\ act = ops'[worker[x].op].action
  OBVIOUS
<1>7. PICK w, live : w = worker[x] /\ live = Live(x)
  OBVIOUS
<1>8. Flashing(w, b, a, live, c)
  BY <1>1, <1>6, <1>7 DEF Flashes
<1>9. (w.pc # "idle" => act = a) /\ (live => live /\ other.cells = b.cells)
  BY <1>2, <1>5, <1>6, <1>7
<1>10. Flashing(w, other, act, live, c)
  BY <1>8, <1>9, FlashingStays
<1> QED BY <1>6, <1>7, <1>10

LEMMA ChipKeeps ==
  ASSUME SessionAssumption, HandoffInv, ChipInv, NEW d \in Devices, NEW w, NEW u,
         worker' = [worker EXCEPT ![d] = w], usb' = [usb EXCEPT ![d] = u],
         u.board = usb[d].board, u.attached = usb[d].attached, u.wired = usb[d].wired,
         ActionsStay, SameCells(d), CellsKnown',
         Flashing(w, boards'[usb[d].board], ops'[w.op].action, Live(d), Kind[usb[d].board].capacity)
  PROVE  ChipInv'
<1>1. /\ worker'[d] = w /\ usb'[d] = u
      /\ \A x \in Devices : x # d => worker'[x] = worker[x] /\ usb'[x] = usb[x]
  BY DEF HandoffInv
<1>2. \A x \in Devices : /\ usb'[x].board = usb[x].board
                         /\ (usb'[x].attached /\ usb'[x].wired) = Live(x)
  <2>1. ASSUME NEW x \in Devices
        PROVE  usb'[x].board = usb[x].board /\ (usb'[x].attached /\ usb'[x].wired) = Live(x)
    <3>1. CASE x = d
      BY <1>1, <3>1 DEF Live
    <3>2. CASE x # d
      BY <1>1, <3>2 DEF Live
    <3> QED BY <3>1, <3>2
  <2> QED BY <2>1
<1>3. ASSUME NEW x \in Devices
      PROVE  Flashing(worker'[x], boards'[usb[x].board], ops'[worker'[x].op].action, Live(x),
                      Kind[usb[x].board].capacity)
  <2>1. CASE x = d
    BY <1>1, <2>1
  <2>2. CASE x # d
    BY <1>1, <2>2, ChipOthers
  <2> QED BY <2>1, <2>2
<1>4. ASSUME NEW x \in Devices PROVE Flashes(x)'
  BY <1>2, <1>3 DEF Flashes, Board, Action, Op, Live
<1> QED BY <1>4 DEF ChipInv, CellsKnown, Flashes

(* A job that ends, or is broken off, has nothing more to do with the chip. *)
LEMMA ChipLeft ==
  ASSUME SessionAssumption, HandoffInv, ChipInv, NEW d \in Devices, NEW w, w.pc = "idle", NEW u,
         worker' = [worker EXCEPT ![d] = w], usb' = [usb EXCEPT ![d] = u],
         u.board = usb[d].board, u.attached = usb[d].attached, u.wired = usb[d].wired,
         OpsOn, SameCells(d), CellsKnown'
  PROVE  ChipInv'
<1>1. Flashing(w, boards'[usb[d].board], ops'[w.op].action, Live(d), Kind[usb[d].board].capacity)
  BY FlashingIdle
<1> QED BY <1>1, OpsOnStays, ChipKeeps

LEMMA ChipFails ==
  ASSUME SessionAssumption, HandoffInv, ChipInv, NEW d \in Devices, NEW why, Fail(d, why),
         OpsOn, SameCells(d), CellsKnown'
  PROVE  ChipInv'
<1>1. PICK w, u : w = IdleWorker /\ u = Dropped(d)
  OBVIOUS
<1>2. /\ u.board = usb[d].board /\ u.attached = usb[d].attached /\ u.wired = usb[d].wired
      /\ worker' = [worker EXCEPT ![d] = w] /\ usb' = [usb EXCEPT ![d] = u] /\ w.pc = "idle"
  BY <1>1, DroppedIs, DeviceHas, IdleIs DEF Fail
<1> QED BY <1>2, ChipLeft

LEMMA ChipMonitors ==
  ASSUME SessionAssumption, HandoffInv, ChipInv, NEW d \in Devices, NEW from, Monitor(d, from), NEW u,
         usb' = [usb EXCEPT ![d] = u],
         u.board = usb[d].board, u.attached = usb[d].attached, u.wired = usb[d].wired,
         OpsOn, SameCells(d), CellsKnown'
  PROVE  ChipInv'
<1>1. PICK w : w = [IdleWorker EXCEPT !.holds = TRUE, !.from = from]
  OBVIOUS
<1>2. worker' = [worker EXCEPT ![d] = w] /\ w.pc = "idle"
  BY <1>1 DEF Monitor, IdleWorker
<1> QED BY <1>2, ChipLeft

LEMMA FieldsOf ==
  ASSUME NEW v, WorkerIs(v), NEW pc, NEW w, w = [v EXCEPT !.pc = pc]
  PROVE  w.pc = pc /\ w.op = v.op /\ w.at = v.at /\ w.before = v.before
<1>1. w = [pc |-> pc, op |-> v.op, holds |-> v.holds, proto |-> v.proto, at |-> v.at,
           from |-> v.from, seen |-> v.seen, before |-> v.before]
  BY DEF WorkerIs
<1> QED BY <1>1

(* The job goes on: its operation stays.                                    *)
LEMMA ChipWorks ==
  ASSUME SessionAssumption, HandoffInv, ChipInv, NEW d \in Devices, NEW w, NEW u,
         worker' = [worker EXCEPT ![d] = w], usb' = [usb EXCEPT ![d] = u],
         u.board = usb[d].board, u.attached = usb[d].attached, u.wired = usb[d].wired,
         ops' = ops, w.op = worker[d].op, SameCells(d), CellsKnown',
         Flashing(w, boards'[usb[d].board], Action(d), Live(d), Kind[usb[d].board].capacity)
  PROVE  ChipInv'
<1>1. ops'[w.op].action = Action(d)
  BY DEF Action, Op
<1>2. Flashing(w, boards'[usb[d].board], ops'[w.op].action, Live(d), Kind[usb[d].board].capacity)
  BY <1>1
<1> QED BY <1>2, OpsOnSame, OpsOnStays, ChipKeeps

LEMMA ChipBoard ==
  ASSUME HandoffInv, ChipInv, NEW d \in Devices, Live(d), NEW b,
         CellsAre(b, Kind[usb[d].board].capacity), boards' = [boards EXCEPT ![usb[d].board] = b]
  PROVE  SameCells(d) /\ CellsKnown' /\ boards'[usb[d].board] = b
<1>1. usb[d].board \in Boards /\ boards = [x \in Boards |-> boards[x]]
  BY BoardHas, DeviceHas DEF BoardsKnown
<1>2. boards'[usb[d].board] = b /\ \A x \in Boards : x # usb[d].board => boards'[x] = boards[x]
  BY <1>1
<1>3. SameCells(d)
  BY <1>2 DEF SameCells
<1>4. ASSUME NEW x \in Boards PROVE CellsAre(boards'[x], Kind[x].capacity)
  <2>1. CASE x = usb[d].board
    BY <1>2, <2>1
  <2>2. CASE x # usb[d].board
    BY <1>2, <2>2, ChipHas DEF CellsKnown
  <2> QED BY <2>1, <2>2
<1> QED BY <1>2, <1>3, <1>4 DEF CellsKnown

(* Where a working attachment leads, and what the chip there is.            *)
LEMMA ChipAt ==
  ASSUME InputAssumption, HandoffInv, ChipInv, NEW d \in Devices, Live(d)
  PROVE  /\ usb[d].board \in Boards /\ BoardIs(Board(d))
         /\ Whole(Kind[usb[d].board].capacity) /\ CellsAre(Board(d), Kind[usb[d].board].capacity)
<1>1. BoardIs(Board(d)) /\ usb[d].board \in Boards
  BY BoardHas, DeviceHas DEF BoardsKnown
<1>2. Whole(Kind[usb[d].board].capacity)
  BY <1>1 DEF InputAssumption, Whole
<1>3. CellsAre(Board(d), Kind[usb[d].board].capacity)
  BY <1>1, ChipHas DEF CellsKnown, Board
<1> QED BY <1>1, <1>2, <1>3

(* The same, where nothing changes of the attachment.                       *)
LEMMA ChipGoesOn ==
  ASSUME SessionAssumption, HandoffInv, ChipInv, NEW d \in Devices, NEW w,
         worker' = [worker EXCEPT ![d] = w], usb' = usb,
         ops' = ops, w.op = worker[d].op, SameCells(d), CellsKnown',
         Flashing(w, boards'[usb[d].board], Action(d), Live(d), Kind[usb[d].board].capacity)
  PROVE  ChipInv'
<1>1. PICK u : u = usb[d]
  OBVIOUS
<1>2. usb' = [usb EXCEPT ![d] = u]
  BY <1>1 DEF HandoffInv
<1>3. u.board = usb[d].board /\ u.attached = usb[d].attached /\ u.wired = usb[d].wired
  BY <1>1
<1> QED BY <1>2, <1>3, ChipWorks

LEMMA TakeJobChips ==
  ASSUME SessionAssumption, HandoffInv, ChipInv, NEW d \in Devices, TakeJob(d) PROVE ChipInv'
<1>1. PICK c \in Clients :
        worker' = [worker EXCEPT ![d] = [IdleWorker EXCEPT !.pc = "open", !.op = c, !.at = 1]]
  BY DEF TakeJob
<1>2. PICK w, u : w = [IdleWorker EXCEPT !.pc = "open", !.op = c, !.at = 1] /\ u = Dropped(d)
  OBVIOUS
<1>3. w.pc = "open" /\ w.at = 1
  BY <1>2 DEF IdleWorker
<1>4. /\ u.board = usb[d].board /\ u.attached = usb[d].attached /\ u.wired = usb[d].wired
      /\ worker' = [worker EXCEPT ![d] = w] /\ usb' = [usb EXCEPT ![d] = u]
  BY <1>1, <1>2, DroppedIs, DeviceHas DEF TakeJob
<1>5. ActionsStay /\ SameCells(d) /\ CellsKnown'
  <2>1. boards' = boards
    BY DEF TakeJob
  <2>2. Work(d)
    BY DEF Work
  <2> QED BY <2>1, <2>2, WorkOps, OpsOnStays, CellsSame, ChipHas
<1>6. Flashing(w, boards'[usb[d].board], ops'[w.op].action, Live(d), Kind[usb[d].board].capacity)
  BY <1>3, FlashingOpens DEF Opening
<1> QED BY <1>4, <1>5, <1>6, ChipKeeps

LEMMA LeaseChips ==
  ASSUME SessionAssumption, HandoffInv, ChipInv, NEW d \in Devices, Lease(d) PROVE ChipInv'
<1>1. Sound(worker[d], usb[d], Board(d), KindOf(d)) /\ Flashes(d) /\ worker[d].pc = "open"
      /\ WorkerIs(worker[d]) /\ UsbIs(usb[d])
  BY DeviceHas, ChipHas DEF Lease, Doing
<1>2. OpsOn /\ SameCells(d) /\ CellsKnown'
  <2>1. boards' = boards
    BY DEF Lease
  <2>2. Work(d)
    BY DEF Work
  <2> QED BY <2>1, <2>2, WorkOps, CellsSame, ChipHas
<1>3. CASE \E why : Fail(d, why)
  BY <1>2, <1>3, ChipFails
<1>4. CASE usb' = [usb EXCEPT ![d].leased = TRUE] /\ SetPc(d, "claim") /\ UNCHANGED ops
  <2>1. PICK w, u : w = [worker[d] EXCEPT !.pc = "claim"] /\ u = [usb[d] EXCEPT !.leased = TRUE]
    OBVIOUS
  <2>2. w.pc = "claim" /\ w.op = worker[d].op /\ w.at = worker[d].at
    BY <1>1, <2>1, FieldsOf
  <2>3. u = [board |-> usb[d].board, attached |-> usb[d].attached, leased |-> TRUE,
             wired |-> usb[d].wired, pending |-> usb[d].pending, incoming |-> usb[d].incoming]
    BY <1>1, <2>1 DEF UsbIs
  <2>4. u.board = usb[d].board /\ u.attached = usb[d].attached /\ u.wired = usb[d].wired
    BY <2>3
  <2>5. worker' = [worker EXCEPT ![d] = w] /\ usb' = [usb EXCEPT ![d] = u]
    BY <1>4, <2>1, DeviceHas DEF SetPc
  <2>6. w.at = 1
    BY <1>1, <2>2 DEF Flashes, Flashing, Opening
  <2>7. Flashing(w, boards'[usb[d].board], Action(d), Live(d), Kind[usb[d].board].capacity)
    BY <2>2, <2>6, FlashingOpens DEF Opening
  <2> QED BY <1>2, <1>4, <2>2, <2>4, <2>5, <2>7, ChipWorks
<1> QED BY <1>3, <1>4 DEF Lease

(* From here on it is known what the chip had before.                       *)
LEMMA ClaimChips ==
  ASSUME SessionAssumption, HandoffInv, ChipInv, NEW d \in Devices, Claim(d) PROVE ChipInv'
<1>1. Sound(worker[d], usb[d], Board(d), KindOf(d)) /\ Flashes(d) /\ worker[d].pc = "claim"
      /\ WorkerIs(worker[d]) /\ boards' = boards
  BY DeviceHas, ChipHas DEF Claim, Doing
<1>2. OpsOn /\ SameCells(d) /\ CellsKnown'
  <2>1. Work(d)
    BY DEF Work
  <2> QED BY <1>1, <2>1, WorkOps, CellsSame, ChipHas
<1>3. CASE Fail(d, "claim")
  BY <1>2, <1>3, ChipFails
<1>4. CASE /\ usb' = usb /\ ops' = ops
           /\ worker' = [worker EXCEPT ![d].pc = IF NeedsLoader(d) THEN "connect" ELSE "baud",
                                       ![d].holds = TRUE,
                                       ![d].from = <<Board(d).run, Board(d).said>>,
                                       ![d].before = Board(d).cells]
  <2>1. PICK pc : pc = IF NeedsLoader(d) THEN "connect" ELSE "baud"
    OBVIOUS
  <2>2. PICK v, from, before : /\ v = worker[d] /\ from = <<Board(d).run, Board(d).said>>
                               /\ before = Board(d).cells
    OBVIOUS
  <2>3. PICK x, y : x = [v EXCEPT !.pc = pc] /\ y = [x EXCEPT !.holds = TRUE]
    OBVIOUS
  <2>0. PICK z : z = [y EXCEPT !.from = from]
    OBVIOUS
  <2>10. PICK w : w = [z EXCEPT !.before = before]
    OBVIOUS
  <2>4. worker' = [worker EXCEPT ![d] = w]
    BY <1>4, <2>0, <2>1, <2>2, <2>3, <2>10, DeviceHas
  <2>5. w.pc = pc /\ w.op = worker[d].op /\ w.at = worker[d].at /\ w.before = before
    <3>1. x = [pc |-> pc, op |-> v.op, holds |-> v.holds, proto |-> v.proto, at |-> v.at,
               from |-> v.from, seen |-> v.seen, before |-> v.before]
      BY <1>1, <2>2, <2>3 DEF WorkerIs
    <3>2. y = [pc |-> pc, op |-> v.op, holds |-> TRUE, proto |-> v.proto, at |-> v.at,
               from |-> v.from, seen |-> v.seen, before |-> v.before]
      BY <2>3, <3>1
    <3>3. z = [pc |-> pc, op |-> v.op, holds |-> TRUE, proto |-> v.proto, at |-> v.at,
               from |-> from, seen |-> v.seen, before |-> v.before]
      BY <2>0, <3>2
    <3>4. w = [pc |-> pc, op |-> v.op, holds |-> TRUE, proto |-> v.proto, at |-> v.at,
               from |-> from, seen |-> v.seen, before |-> before]
      BY <2>10, <3>3
    <3> QED BY <2>2, <3>4
  <2>6. w.at = 1
    BY <1>1, <2>5 DEF Flashes, Flashing, Opening
  <2>7. boards'[usb[d].board].cells = w.before
    BY <1>1, <2>2, <2>5 DEF Board
  <2>8. CASE pc = "connect"
    <3>1. Progress(w, boards'[usb[d].board].cells, Action(d).plan.segments, Kind[usb[d].board].capacity)
      BY <2>5, <2>7, <2>8 DEF Progress, Handoff
    <3>2. Flashing(w, boards'[usb[d].board], Action(d), Live(d), Kind[usb[d].board].capacity)
      BY <2>5, <2>6, <2>8, <3>1 DEF Flashing
    <3> QED BY <1>2, <1>4, <2>4, <2>5, <3>2, ChipGoesOn
  <2>9. CASE pc = "baud" /\ ~NeedsLoader(d)
    <3>1. Action(d).kind # "flash"
      BY <2>9 DEF NeedsLoader
    <3>2. Flashing(w, boards'[usb[d].board], Action(d), Live(d), Kind[usb[d].board].capacity)
      BY <2>5, <2>9, <3>1 DEF Flashing, Opening
    <3> QED BY <1>2, <1>4, <2>4, <2>5, <3>2, ChipGoesOn
  <2> QED BY <2>1, <2>8, <2>9
<1> QED BY <1>3, <1>4 DEF Claim

LEMMA IoFailsChips ==
  ASSUME SessionAssumption, HandoffInv, ChipInv, NEW d \in Devices, IoFails(d) PROVE ChipInv'
<1>1. Fail(d, "io") /\ boards' = boards /\ Work(d)
  BY DEF IoFails, Work
<1>2. OpsOn /\ SameCells(d) /\ CellsKnown'
  BY <1>1, WorkOps, CellsSame, ChipHas
<1> QED BY <1>1, <1>2, ChipFails

LEMMA ConnectChips ==
  ASSUME SessionAssumption, InputAssumption, HandoffInv, ChipInv, NEW d \in Devices, Connect(d)
  PROVE  ChipInv'
<1>1. /\ Flashes(d) /\ worker[d].pc = "connect" /\ WorkerIs(worker[d]) /\ UsbIs(usb[d])
      /\ Live(d) /\ BoardIs(Board(d)) /\ usb[d].board \in Boards /\ OpsOn
      /\ CellsAre(Board(d), Kind[usb[d].board].capacity)
  <2>1. Work(d) /\ worker[d].pc = "connect" /\ Live(d)
    BY DEF Connect, Doing, Work
  <2> QED BY <2>1, DeviceHas, ChipHas, ChipAt, WorkOps
<1>2. PICK b : b = [Board(d) EXCEPT !.mode = "loader"]
  OBVIOUS
<1>3. b.cells = Board(d).cells
  <2>1. b = [cells |-> Board(d).cells, mode |-> "loader", run |-> Board(d).run, said |-> Board(d).said]
    BY <1>1, <1>2 DEF BoardIs
  <2> QED BY <2>1
<1>4. boards' = [boards EXCEPT ![usb[d].board] = b]
  BY <1>1, <1>2, BoardHas DEF Connect, Board
<1>5. CellsAre(b, Kind[usb[d].board].capacity)
  BY <1>1, <1>3 DEF CellsAre
<1>6. SameCells(d) /\ CellsKnown' /\ boards'[usb[d].board] = b
  BY <1>1, <1>4, <1>5, ChipBoard
<1>7. CASE Fail(d, "chip")
  BY <1>1, <1>6, <1>7, ChipFails
<1>8. ASSUME NEW p \in Replies, NEW q \in Replies, UNCHANGED ops,
             worker' = [worker EXCEPT ![d].pc = "check", ![d].proto = TRUE],
             usb' = [usb EXCEPT ![d].pending = p, ![d].incoming = q]
      PROVE  ChipInv'
  <2>1. PICK v, o : v = worker[d] /\ o = usb[d]
    OBVIOUS
  <2>2. PICK x, w : x = [v EXCEPT !.pc = "check"] /\ w = [x EXCEPT !.proto = TRUE]
    OBVIOUS
  <2>3. worker' = [worker EXCEPT ![d] = w]
    BY <1>8, <2>1, <2>2, DeviceHas
  <2>4. w.pc = "check" /\ w.op = v.op /\ w.at = v.at /\ w.before = v.before
    <3>1. x = [pc |-> "check", op |-> v.op, holds |-> v.holds, proto |-> v.proto, at |-> v.at,
               from |-> v.from, seen |-> v.seen, before |-> v.before]
      BY <1>1, <2>1, <2>2 DEF WorkerIs
    <3>2. w = [pc |-> "check", op |-> v.op, holds |-> v.holds, proto |-> TRUE, at |-> v.at,
               from |-> v.from, seen |-> v.seen, before |-> v.before]
      BY <2>2, <3>1
    <3> QED BY <3>2
  <2>5. PICK y, u : y = [o EXCEPT !.pending = p] /\ u = [y EXCEPT !.incoming = q]
    OBVIOUS
  <2>6. usb' = [usb EXCEPT ![d] = u]
    BY <1>8, <2>1, <2>5, DeviceHas
  <2>7. u.board = usb[d].board /\ u.attached = usb[d].attached /\ u.wired = usb[d].wired
    <3>1. y = [board |-> o.board, attached |-> o.attached, leased |-> o.leased, wired |-> o.wired,
               pending |-> p, incoming |-> o.incoming]
      BY <1>1, <2>1, <2>5 DEF UsbIs
    <3>2. u = [board |-> o.board, attached |-> o.attached, leased |-> o.leased, wired |-> o.wired,
               pending |-> p, incoming |-> q]
      BY <2>5, <3>1
    <3> QED BY <2>1, <3>2
  <2>8. w.at = 1
    BY <1>1, <2>1, <2>4 DEF Flashes, Flashing, Opening
  <2>9. PICK a, c, live : a = Action(d) /\ c = Kind[usb[d].board].capacity /\ live = Live(d)
    OBVIOUS
  <2>10. a.kind = "flash" => b.cells = w.before
    <3>1. a.kind = "flash" => Progress(v, Board(d).cells, a.plan.segments, c)
      BY <1>1, <2>1, <2>9 DEF Flashes, Flashing, Begun, ForReset
    <3> QED BY <1>1, <1>3, <2>1, <2>4, <3>1 DEF Progress
  <2>11. a.kind = "flash" => Progress(w, b.cells, a.plan.segments, c)
    BY <2>4, <2>10 DEF Progress, Handoff
  <2>12. Flashing(w, b, a, live, c)
    BY <2>4, <2>8, <2>11 DEF Flashing
  <2>13. Flashing(w, boards'[usb[d].board], Action(d), Live(d), Kind[usb[d].board].capacity)
    BY <1>6, <2>9, <2>12
  <2>14. w.op = worker[d].op
    BY <2>1, <2>4
  <2> QED BY <1>6, <1>8, <2>3, <2>6, <2>7, <2>13, <2>14, ChipWorks
<1> QED BY <1>7, <1>8 DEF Connect

(* A plan that is flashed, as EndBody has made it.                          *)
LEMMA PlanHas ==
  ASSUME SessionAssumption, HandoffInv, FlowInv, NEW d \in Devices, worker[d].pc # "idle",
         NEW a, a = Action(d), a.kind = "flash", NEW segments, segments = a.plan.segments
  PROVE  /\ SegmentsAre(segments) /\ Rises(segments)
         /\ DOMAIN segments = 1 .. Len(segments) /\ Len(segments) \in Nat /\ 1 \in DOMAIN segments
<1>1. Asked(worker[d].op)
  BY DeviceHas
<1>2. PICK c \in Clients : c = worker[d].op /\ ops[c] # NoOp /\ ops[c].action = a
  BY <1>1 DEF Asked, Action, Op
<1>3. Bringing(client[c], ops[c])
  BY FlowHas
<1>4. Planned(client[c], ops[c])
  BY <1>2, <1>3 DEF Bringing
<1>5. PICK m : m = client[c].manifest
  OBVIOUS
<1>6. PICK received : a.plan = IntoPlan(m, received) /\ Announces(m) /\ Ok(a.plan)
  BY <1>2, <1>4, <1>5 DEF Planned
<1>7. PICK p : p = a.plan
  OBVIOUS
<1>8. Announces(m) /\ p = IntoPlan(m, received) /\ Ok(p)
  BY <1>6, <1>7
<1>9. /\ SegmentsAre(p.segments) /\ Rises(p.segments)
      /\ \A n \in DOMAIN m.segments : \E k \in DOMAIN p.segments : Carries(p.segments[k], m.segments[n])
  BY <1>8, IntoPlanIs
<1>10. Len(m.segments) \in 1 .. MaxSegments
  BY <1>8 DEF IntoPlan, Ok, Admissible
<1>11. 1 \in DOMAIN m.segments
  <2>1. DOMAIN m.segments = 1 .. Len(m.segments) /\ Len(m.segments) \in Nat
    BY <1>8 DEF Announces, Listing
  <2> QED BY <1>10, <2>1, PlanAssumption
<1>12. DOMAIN segments = 1 .. Len(segments) /\ Len(segments) \in Nat
  BY <1>7, <1>9 DEF SegmentsAre, Listing
<1>13. PICK k \in DOMAIN segments : TRUE
  BY <1>7, <1>9, <1>11
<1>14. 1 \in DOMAIN segments
  BY <1>12, <1>13
<1> QED BY <1>7, <1>9, <1>12, <1>14

LEMMA CheckChips ==
  ASSUME SessionAssumption, HandoffInv, FlowInv, ChipInv, NEW d \in Devices, Check(d) PROVE ChipInv'
<1>1. /\ Flashes(d) /\ worker[d].pc = "check" /\ WorkerIs(worker[d]) /\ boards' = boards /\ Live(d)
      /\ Sound(worker[d], usb[d], Board(d), KindOf(d)) /\ OpsOn /\ SameCells(d) /\ CellsKnown'
  <2>1. Work(d) /\ boards' = boards /\ worker[d].pc = "check" /\ Live(d)
    BY DEF Check, Work, Doing
  <2> QED BY <2>1, DeviceHas, ChipHas, WorkOps, CellsSame
<1>2. CASE Fail(d, "unsuitable")
  BY <1>1, <1>2, ChipFails
<1>3. PICK next : next = [flash |-> "erase", read |-> "read", erase |-> "wipe", probe |-> "baud"]
  OBVIOUS
<1>4. PICK a, c : a = Action(d) /\ c = Kind[usb[d].board].capacity
  OBVIOUS
<1>5. CASE Suits(a, Kind[usb[d].board]) /\ Goto(d, next[a.kind])
  <2>1. a.kind \in LoaderKinds
    BY <1>1, <1>4 DEF Sound, Placed, KindOf, Action, Op
  <2>2. PICK pc : pc = next[a.kind]
    OBVIOUS
  <2>3. /\ pc \in {"erase", "read", "wipe", "baud"}
        /\ a.kind = "flash" <=> pc = "erase"
    BY <1>3, <2>1, <2>2 DEF LoaderKinds
  <2>4. PICK v, w : v = worker[d] /\ w = [v EXCEPT !.pc = pc]
    OBVIOUS
  <2>5. w.pc = pc /\ w.op = v.op /\ w.at = v.at /\ w.before = v.before
    BY <1>1, <2>4, FieldsOf
  <2>6. worker' = [worker EXCEPT ![d] = w] /\ usb' = usb /\ ops' = ops /\ w.op = worker[d].op
    BY <1>5, <2>2, <2>4, <2>5, DeviceHas DEF Goto, SetPc
  <2>7. w.at = 1
    BY <1>1, <2>4, <2>5 DEF Flashes, Flashing, Opening
  <2>8. PICK cells : cells = boards'[usb[d].board].cells
    OBVIOUS
  <2>9. CASE a.kind = "flash"
    <3>1. PICK segments : segments = a.plan.segments
      OBVIOUS
    <3>2. 1 \in DOMAIN segments
      BY <1>1, <1>4, <2>9, <3>1, PlanHas
    <3>3. cells = w.before
      <4>1. Progress(v, Board(d).cells, segments, c)
        BY <1>1, <1>4, <2>4, <2>9, <3>1 DEF Flashes, Flashing, Begun, ForReset
      <4>2. Board(d).cells = v.before
        BY <1>1, <2>4, <4>1 DEF Progress
      <4> QED BY <1>1, <2>5, <2>8, <4>2 DEF Board
    <3>4. Below(segments, c)
      BY <1>4, <1>5, <2>9, <3>1 DEF Suits, FitsBoard, Fits, Below
    <3>5. Upto(cells, w.before, segments, w.at - 1, w.at - 1)
      <4>1. \A n : n \notin 1 .. w.at - 1
        BY <2>7
      <4>2. Spares(cells, w.before, segments, w.at - 1)
        BY <3>3, <4>1 DEF Spares
      <4> QED BY <4>1, <4>2 DEF Upto
    <3>6. Progress(w, cells, segments, c)
      BY <2>3, <2>5, <2>7, <2>9, <3>2, <3>4, <3>5 DEF Progress, Handoff
    <3>7. Flashing(w, boards'[usb[d].board], a, Live(d), c)
      BY <2>3, <2>5, <2>8, <2>9, <3>1, <3>6 DEF Flashing, Opening
    <3> QED BY <1>1, <1>4, <2>6, <3>7, ChipGoesOn
  <2>10. CASE a.kind # "flash"
    <3>1. Flashing(w, boards'[usb[d].board], a, Live(d), c)
      BY <2>3, <2>5, <2>10 DEF Flashing, Opening
    <3> QED BY <1>1, <1>4, <2>6, <3>1, ChipGoesOn
  <2> QED BY <2>9, <2>10
<1> QED BY <1>2, <1>3, <1>4, <1>5 DEF Check

LEMMA SetCellsChips ==
  ASSUME HandoffInv, ChipInv, NEW d \in Devices, Live(d), NEW cells, SetCells(d, cells),
         OfSize(cells, Kind[usb[d].board].capacity)
  PROVE  SameCells(d) /\ CellsKnown' /\ boards'[usb[d].board].cells = cells
<1>1. BoardIs(Board(d)) /\ usb[d].board \in DOMAIN boards
  BY BoardHas
<1>2. PICK b : b = [Board(d) EXCEPT !.cells = cells]
  OBVIOUS
<1>3. boards' = [boards EXCEPT ![usb[d].board] = b]
  BY <1>1, <1>2 DEF SetCells, Board
<1>4. b.cells = cells
  <2>1. b = [cells |-> cells, mode |-> Board(d).mode, run |-> Board(d).run, said |-> Board(d).said]
    BY <1>1, <1>2 DEF BoardIs
  <2> QED BY <2>1
<1>5. CellsAre(b, Kind[usb[d].board].capacity)
  BY <1>4 DEF CellsAre
<1> QED BY <1>3, <1>4, <1>5, ChipBoard

(* A worker that erases or writes, and its plan.                            *)
LEMMA ChipFlashing ==
  ASSUME SessionAssumption, InputAssumption, HandoffInv, FlowInv, ChipInv, NEW d \in Devices, Live(d),
         worker[d].pc \in {"erase", "write"}, NEW a, a = Action(d), a.kind = "flash",
         NEW segments, segments = a.plan.segments, NEW c, c = Kind[usb[d].board].capacity,
         NEW v, v = worker[d], NEW cells, cells = Board(d).cells
  PROVE  /\ SegmentsAre(segments) /\ Rises(segments) /\ Below(segments, c)
         /\ DOMAIN segments = 1 .. Len(segments) /\ Len(segments) \in Nat /\ v.at \in DOMAIN segments
         /\ Whole(c) /\ OfSize(cells, c)
         /\ v.pc = "erase" => Upto(cells, v.before, segments, v.at - 1, v.at - 1)
         /\ v.pc = "write" => Upto(cells, v.before, segments, v.at, v.at - 1)
<1>1. Progress(v, cells, segments, c)
  BY ChipHas DEF Flashes, Flashing, Begun, ForReset
<1>2. v.at \in DOMAIN segments /\ Below(segments, c)
  BY <1>1 DEF Progress
<1>3. Whole(c) /\ OfSize(cells, c)
  BY ChipAt DEF CellsAre
<1>4. worker[d].pc # "idle"
  OBVIOUS
<1>5. /\ SegmentsAre(segments) /\ Rises(segments)
      /\ DOMAIN segments = 1 .. Len(segments) /\ Len(segments) \in Nat
  BY <1>4, PlanHas
<1>6. /\ v.pc = "erase" => Upto(cells, v.before, segments, v.at - 1, v.at - 1)
      /\ v.pc = "write" => Upto(cells, v.before, segments, v.at, v.at - 1)
  BY <1>1 DEF Progress
<1> QED BY <1>2, <1>3, <1>5, <1>6

LEMMA EraseSegmentChips ==
  ASSUME SessionAssumption, InputAssumption, HandoffInv, FlowInv, ChipInv, NEW d \in Devices,
         EraseSegment(d)
  PROVE  ChipInv'
<1>1. PICK a, c, v, cells : /\ a = Action(d) /\ c = Kind[usb[d].board].capacity /\ v = worker[d]
                            /\ cells = Board(d).cells
  OBVIOUS
<1>2. PICK segments, s : segments = a.plan.segments /\ s = segments[v.at]
  OBVIOUS
<1>3. PICK gone : gone = Round(c, Erased(s.offset, Len(s.data)))
  OBVIOUS
<1>4. PICK new : new = Blanked(cells, gone)
  OBVIOUS
<1>5. /\ v.pc = "erase" /\ Live(d) /\ SetPc(d, "write") /\ usb' = usb /\ ops' = ops
      /\ WorkerIs(v)
  BY <1>1, DeviceHas DEF EraseSegment, Goto, Doing
<1>6. SetCells(d, new)
  <2>1. Cells(d, Erased(Segment(d).offset, Len(Segment(d).data))) = gone
    BY <1>1, <1>2, <1>3 DEF Cells, Round, Segment
  <2> QED BY <1>1, <1>4, <2>1 DEF EraseSegment, Blanked
<1>7. OfSize(cells, c)
  BY <1>1, <1>5, ChipAt DEF CellsAre
<1>8. OfSize(new, Kind[usb[d].board].capacity)
  BY <1>1, <1>4, <1>7, SizeStays
<1>9. SameCells(d) /\ CellsKnown' /\ boards'[usb[d].board].cells = new
  BY <1>5, <1>6, <1>8, SetCellsChips
<1>10. PICK w : w = [v EXCEPT !.pc = "write"]
  OBVIOUS
<1>11. w.pc = "write" /\ w.op = v.op /\ w.at = v.at /\ w.before = v.before
  BY <1>5, <1>10, FieldsOf
<1>12. worker' = [worker EXCEPT ![d] = w] /\ w.op = worker[d].op
  BY <1>1, <1>5, <1>10, <1>11 DEF SetPc
<1>13. CASE a.kind = "flash"
  <2>1. /\ SegmentsAre(segments) /\ Rises(segments) /\ Below(segments, c)
        /\ v.at \in DOMAIN segments /\ Whole(c) /\ Upto(cells, v.before, segments, v.at - 1, v.at - 1)
    <3>1. worker[d].pc \in {"erase", "write"}
      BY <1>1, <1>5
    <3> QED BY <1>1, <1>2, <1>5, <1>13, <3>1, ChipFlashing
  <2>2. Upto(new, v.before, segments, v.at, v.at - 1)
    <3>1. Upto(Blanked(cells, Round(c, Erased(s.offset, Len(s.data)))), v.before, segments, v.at, v.at - 1)
      BY <1>2, <1>7, <2>1, EraseKept
    <3> QED BY <1>3, <1>4, <3>1
  <2>3. Progress(w, new, segments, c)
    BY <1>11, <2>1, <2>2 DEF Progress, Handoff
  <2>4. Flashing(w, boards'[usb[d].board], Action(d), Live(d), Kind[usb[d].board].capacity)
    BY <1>1, <1>2, <1>9, <1>11, <2>3 DEF Flashing, Opening
  <2> QED BY <1>5, <1>9, <1>12, <2>4, ChipGoesOn
<1>14. CASE a.kind # "flash"
  <2>1. Flashing(w, boards'[usb[d].board], Action(d), Live(d), Kind[usb[d].board].capacity)
    BY <1>1, <1>11, <1>14 DEF Flashing, Opening
  <2> QED BY <1>5, <1>9, <1>12, <2>1, ChipGoesOn
<1> QED BY <1>13, <1>14

LEMMA WriteSegmentDoes ==
  ASSUME NEW d \in Devices, WriteSegment(d)
  PROVE  /\ worker[d].pc = "write" /\ Live(d) /\ usb' = usb /\ ops' = ops
         /\ IF worker[d].at < Len(Action(d).plan.segments)
              THEN worker' = [worker EXCEPT ![d].pc = "erase", ![d].at = @ + 1]
            ELSE SetPc(d, "baud")
BY Zenon DEF WriteSegment, Doing

LEMMA WriteSegmentChips ==
  ASSUME SessionAssumption, InputAssumption, HandoffInv, FlowInv, ChipInv, NEW d \in Devices,
         WriteSegment(d)
  PROVE  ChipInv'
<1>1. PICK a, c, v, cells : /\ a = Action(d) /\ c = Kind[usb[d].board].capacity /\ v = worker[d]
                            /\ cells = Board(d).cells
  OBVIOUS
<1>2. PICK segments, s : segments = a.plan.segments /\ s = segments[v.at]
  OBVIOUS
<1>3. PICK put : put = Round(c, s.offset .. s.offset + Len(s.data) - 1)
  OBVIOUS
<1>4. PICK new : new = Written(cells, put, s, c)
  OBVIOUS
<1>5. /\ v.pc = "write" /\ Live(d) /\ usb' = usb /\ ops' = ops /\ WorkerIs(v)
      /\ IF v.at < Len(segments) THEN worker' = [worker EXCEPT ![d].pc = "erase", ![d].at = @ + 1]
         ELSE SetPc(d, "baud")
  BY <1>1, <1>2, DeviceHas, WriteSegmentDoes
<1>6. SetCells(d, new)
  <2>1. Segment(d) = s
    BY <1>1, <1>2 DEF Segment
  <2>2. Cells(d, s.offset .. s.offset + Len(s.data) - 1) = put
    BY <1>1, <1>3 DEF Cells, Round
  <2> QED BY Zenon, <1>1, <1>4, <2>1, <2>2 DEF WriteSegment, Written
<1>7. OfSize(cells, c)
  BY <1>1, <1>5, ChipAt DEF CellsAre
<1>8. OfSize(new, Kind[usb[d].board].capacity)
  BY <1>1, <1>4, <1>7, SizeStays
<1>9. SameCells(d) /\ CellsKnown' /\ boards'[usb[d].board].cells = new
  BY <1>5, <1>6, <1>8, SetCellsChips
<1>10. a.kind = "flash" =>
         /\ Below(segments, c) /\ DOMAIN segments = 1 .. Len(segments) /\ Len(segments) \in Nat
         /\ v.at \in DOMAIN segments /\ Upto(new, v.before, segments, v.at, v.at)
  <2>1. SUFFICES ASSUME a.kind = "flash"
                 PROVE  /\ Below(segments, c) /\ v.at \in DOMAIN segments
                        /\ DOMAIN segments = 1 .. Len(segments) /\ Len(segments) \in Nat
                        /\ Upto(new, v.before, segments, v.at, v.at)
    OBVIOUS
  <2>2. /\ SegmentsAre(segments) /\ Rises(segments) /\ Below(segments, c)
        /\ DOMAIN segments = 1 .. Len(segments) /\ Len(segments) \in Nat
        /\ v.at \in DOMAIN segments /\ Whole(c) /\ Upto(cells, v.before, segments, v.at, v.at - 1)
    <3>1. worker[d].pc \in {"erase", "write"}
      BY <1>1, <1>5
    <3> QED BY <1>1, <1>2, <1>5, <2>1, <3>1, ChipFlashing
  <2>3. Upto(Written(cells, Round(c, s.offset .. s.offset + Len(s.data) - 1), s, c),
             v.before, segments, v.at, v.at)
    BY <1>2, <1>7, <2>2, WriteKept
  <2>4. Upto(new, v.before, segments, v.at, v.at)
    BY <1>3, <1>4, <2>3
  <2> QED BY <2>2, <2>4
<1>11. CASE v.at < Len(segments)
  <2>1. PICK at : at = v.at + 1
    OBVIOUS
  <2>2. PICK x : x = [v EXCEPT !.pc = "erase"]
    OBVIOUS
  <2>3. PICK w : w = [x EXCEPT !.at = at]
    OBVIOUS
  <2>4. worker' = [worker EXCEPT ![d] = w]
    BY <1>1, <1>5, <1>11, <2>1, <2>2, <2>3, DeviceHas
  <2>5. w.pc = "erase" /\ w.op = v.op /\ w.at = at /\ w.before = v.before
    <3>1. x = [pc |-> "erase", op |-> v.op, holds |-> v.holds, proto |-> v.proto, at |-> v.at,
               from |-> v.from, seen |-> v.seen, before |-> v.before]
      BY <1>5, <2>2 DEF WorkerIs
    <3>2. w = [pc |-> "erase", op |-> v.op, holds |-> v.holds, proto |-> v.proto, at |-> at,
               from |-> v.from, seen |-> v.seen, before |-> v.before]
      BY <2>3, <3>1
    <3> QED BY <3>2
  <2>6. a.kind = "flash" => Progress(w, new, segments, c)
    <3>1. SUFFICES ASSUME a.kind = "flash" PROVE Progress(w, new, segments, c)
      OBVIOUS
    <3>2. PICK n \in Nat, m \in Nat : n = v.at /\ m = Len(segments) /\ n \in 1 .. m
      BY <1>10, <3>1
    <3>3. at - 1 = v.at /\ at \in DOMAIN segments
      BY <1>10, <1>11, <2>1, <3>1, <3>2
    <3>4. Upto(new, w.before, segments, w.at - 1, w.at - 1)
      BY <1>10, <2>5, <3>1, <3>3
    <3> QED BY <1>10, <2>5, <3>1, <3>3, <3>4 DEF Progress, Handoff
  <2>7. Flashing(w, boards'[usb[d].board], Action(d), Live(d), Kind[usb[d].board].capacity)
    BY <1>1, <1>2, <1>9, <2>5, <2>6 DEF Flashing, Opening
  <2>8. w.op = worker[d].op
    BY <1>1, <2>5
  <2> QED BY <1>5, <1>9, <2>4, <2>7, <2>8, ChipGoesOn
<1>12. CASE ~(v.at < Len(segments))
  <2>1. PICK w : w = [v EXCEPT !.pc = "baud"]
    OBVIOUS
  <2>2. w.pc = "baud" /\ w.op = v.op /\ w.at = v.at /\ w.before = v.before
    BY <1>5, <2>1, FieldsOf
  <2>3. worker' = [worker EXCEPT ![d] = w] /\ w.op = worker[d].op
    BY <1>1, <1>5, <1>12, <2>1, <2>2 DEF SetPc
  <2>4. a.kind = "flash" => Progress(w, new, segments, c)
    <3>1. SUFFICES ASSUME a.kind = "flash" PROVE Progress(w, new, segments, c)
      OBVIOUS
    <3>2. PICK n \in Nat, m \in Nat : n = v.at /\ m = Len(segments) /\ n \in 1 .. m
      BY <1>10, <3>1
    <3>3. v.at = Len(segments)
      BY <1>12, <3>2
    <3>4. Upto(new, w.before, segments, Len(segments), Len(segments))
      BY <1>10, <2>2, <3>1, <3>3
    <3> QED BY <1>10, <2>2, <3>1, <3>4 DEF Progress
  <2>5. Flashing(w, boards'[usb[d].board], Action(d), Live(d), Kind[usb[d].board].capacity)
    BY <1>1, <1>2, <1>9, <2>2, <2>4 DEF Flashing, Opening
  <2> QED BY <1>5, <1>9, <2>3, <2>5, ChipGoesOn
<1> QED BY <1>11, <1>12

(* Only a flash erases and writes segment by segment, so that no other job  *)
(* has anything to show.                                                    *)
LEMMA ReadFlashChips ==
  ASSUME SessionAssumption, HandoffInv, ChipInv, NEW d \in Devices, ReadFlash(d) PROVE ChipInv'
<1>1. /\ Flashes(d) /\ worker[d].pc = "read" /\ SetPc(d, "baud") /\ usb' = usb /\ ops' = ops
      /\ WorkerIs(worker[d]) /\ SameCells(d) /\ CellsKnown'
  BY DeviceHas, ChipHas, CellsSame DEF ReadFlash, Goto, Doing
<1>2. PICK w : w = [worker[d] EXCEPT !.pc = "baud"]
  OBVIOUS
<1>3. w.pc = "baud" /\ w.op = worker[d].op
  BY <1>1, <1>2, FieldsOf
<1>4. worker' = [worker EXCEPT ![d] = w]
  BY <1>1, <1>2 DEF SetPc
<1>5. Action(d).kind # "flash"
  BY <1>1 DEF Flashes, Flashing
<1>6. Flashing(w, boards'[usb[d].board], Action(d), Live(d), Kind[usb[d].board].capacity)
  BY <1>3, <1>5 DEF Flashing, Opening
<1> QED BY <1>1, <1>3, <1>4, <1>6, ChipGoesOn

LEMMA EraseChipChips ==
  ASSUME SessionAssumption, InputAssumption, HandoffInv, ChipInv, NEW d \in Devices, EraseChip(d)
  PROVE  ChipInv'
<1>1. PICK cells, new : cells = Board(d).cells /\ new = [a \in DOMAIN cells |-> Blank]
  OBVIOUS
<1>2. SetCells(d, new) /\ Live(d) /\ OpsOn
  <2>1. Work(d)
    BY DEF Work
  <2> QED BY <1>1, <2>1, WorkOps DEF EraseChip
<1>3. OfSize(cells, Kind[usb[d].board].capacity)
  BY <1>1, <1>2, ChipAt DEF CellsAre
<1>4. OfSize(new, Kind[usb[d].board].capacity)
  <2>1. PICK c : c = Kind[usb[d].board].capacity
    OBVIOUS
  <2>2. new = [a \in 0 .. c - 1 |-> new[a]]
    BY <1>1, <1>3, <2>1 DEF OfSize
  <2> QED BY <2>1, <2>2 DEF OfSize
<1>5. SameCells(d) /\ CellsKnown'
  BY <1>2, <1>4, SetCellsChips
<1>6. PICK w, u : w = IdleWorker /\ u = Dropped(d)
  OBVIOUS
<1>7. /\ u.board = usb[d].board /\ u.attached = usb[d].attached /\ u.wired = usb[d].wired
      /\ worker' = [worker EXCEPT ![d] = w] /\ usb' = [usb EXCEPT ![d] = u] /\ w.pc = "idle"
  BY <1>6, DroppedIs, DeviceHas, IdleIs DEF EraseChip
<1> QED BY <1>2, <1>5, <1>7, ChipLeft

(* What is on the chip when it is handed over stays there.                  *)
LEMMA HandsOn ==
  ASSUME NEW v, NEW w, NEW b, NEW a, NEW live, NEW c, NEW other, Flashing(v, b, a, live, c),
         v.pc \in Handoff, w.pc \in Handoff, w.before = v.before, other.cells = b.cells
  PROVE  Flashing(w, other, a, live, c)
<1>1. live /\ a.kind = "flash" => Progress(v, b.cells, a.plan.segments, c)
  BY DEF Flashing, Begun, ForReset, Handoff
<1>2. live /\ a.kind = "flash" => Progress(w, other.cells, a.plan.segments, c)
  BY <1>1 DEF Progress, Handoff
<1> QED BY <1>2 DEF Flashing, Opening, Handoff

LEMMA SetBaudChips ==
  ASSUME SessionAssumption, HandoffInv, ChipInv, NEW d \in Devices, SetBaud(d) PROVE ChipInv'
<1>1. /\ Flashes(d) /\ worker[d].pc = "baud" /\ usb' = usb /\ boards' = boards
      /\ WorkerIs(worker[d]) /\ SameCells(d) /\ CellsKnown' /\ OpsOn
  <2>1. Work(d) /\ boards' = boards /\ worker[d].pc = "baud" /\ usb' = usb
    BY DEF Work, SetBaud, Doing, Goto
  <2> QED BY <2>1, DeviceHas, ChipHas, WorkOps, CellsSame
<1>2. CASE Goto(d, "clear")
  <2>1. PICK v, w : v = worker[d] /\ w = [v EXCEPT !.pc = "clear"]
    OBVIOUS
  <2>2. w.pc = "clear" /\ w.op = v.op /\ w.before = v.before
    BY <1>1, <2>1, FieldsOf
  <2>3. worker' = [worker EXCEPT ![d] = w] /\ w.op = worker[d].op /\ ops' = ops
    BY <1>2, <2>1, <2>2 DEF Goto, SetPc
  <2>4. PICK b, a, c, live : /\ b = Board(d) /\ a = Action(d) /\ c = Kind[usb[d].board].capacity
                             /\ live = Live(d)
    OBVIOUS
  <2>5. Flashing(v, b, a, live, c)
    BY <1>1, <2>1, <2>4 DEF Flashes
  <2>6. v.pc \in Handoff /\ w.pc \in Handoff
    BY <1>1, <2>1, <2>2 DEF Handoff
  <2>7. Flashing(w, b, a, live, c)
    BY <2>2, <2>5, <2>6, HandsOn
  <2>8. Flashing(w, boards'[usb[d].board], Action(d), Live(d), Kind[usb[d].board].capacity)
    BY <1>1, <2>4, <2>7 DEF Board
  <2> QED BY <1>1, <2>3, <2>8, ChipGoesOn
<1>3. CASE Monitor(d, worker[d].from)
  <2>1. PICK u, from : u = usb[d] /\ from = worker[d].from
    OBVIOUS
  <2>2. usb' = [usb EXCEPT ![d] = u] /\ Monitor(d, from)
    BY <1>1, <1>3, <2>1 DEF HandoffInv
  <2>3. u.board = usb[d].board /\ u.attached = usb[d].attached /\ u.wired = usb[d].wired
    BY <2>1
  <2> QED BY <1>1, <2>2, <2>3, ChipMonitors
<1> QED BY <1>2, <1>3 DEF SetBaud

LEMMA ClearInputChips ==
  ASSUME SessionAssumption, HandoffInv, ChipInv, NEW d \in Devices, ClearInput(d) PROVE ChipInv'
<1>1. /\ Flashes(d) /\ worker[d].pc = "clear" /\ boards' = boards
      /\ WorkerIs(worker[d]) /\ UsbIs(usb[d]) /\ SameCells(d) /\ CellsKnown' /\ OpsOn
  <2>1. Work(d) /\ boards' = boards /\ worker[d].pc = "clear"
    BY DEF Work, ClearInput, Doing
  <2> QED BY <2>1, DeviceHas, ChipHas, WorkOps, CellsSame
<1>2. PICK u : u = Emptied(usb[d])
  OBVIOUS
<1>3. u.board = usb[d].board /\ u.attached = usb[d].attached /\ u.wired = usb[d].wired
  BY <1>1, <1>2, EmptiedIs
<1>4. usb' = [usb EXCEPT ![d] = u]
  BY <1>2, DeviceHas DEF ClearInput
<1>5. CASE SetPc(d, "reset") /\ ops' = ops
  <2>1. PICK v, w : v = worker[d] /\ w = [v EXCEPT !.pc = "reset"]
    OBVIOUS
  <2>2. w.pc = "reset" /\ w.op = v.op /\ w.before = v.before
    BY <1>1, <2>1, FieldsOf
  <2>3. worker' = [worker EXCEPT ![d] = w] /\ w.op = worker[d].op
    BY <1>5, <2>1, <2>2 DEF SetPc
  <2>4. PICK b, a, c, live : /\ b = Board(d) /\ a = Action(d) /\ c = Kind[usb[d].board].capacity
                             /\ live = Live(d)
    OBVIOUS
  <2>5. Flashing(v, b, a, live, c)
    BY <1>1, <2>1, <2>4 DEF Flashes
  <2>6. v.pc \in Handoff /\ w.pc \in Handoff
    BY <1>1, <2>1, <2>2 DEF Handoff
  <2>7. Flashing(w, b, a, live, c)
    BY <2>2, <2>5, <2>6, HandsOn
  <2>8. Flashing(w, boards'[usb[d].board], Action(d), Live(d), Kind[usb[d].board].capacity)
    BY <1>1, <2>4, <2>7 DEF Board
  <2> QED BY <1>1, <1>3, <1>4, <1>5, <2>3, <2>8, ChipWorks
<1>6. CASE Monitor(d, worker[d].from)
  <2>1. PICK from : from = worker[d].from
    OBVIOUS
  <2>2. Monitor(d, from)
    BY <1>6, <2>1
  <2> QED BY <1>1, <1>3, <1>4, <2>2, ChipMonitors
<1> QED BY <1>5, <1>6 DEF ClearInput

LEMMA ResetChips ==
  ASSUME SessionAssumption, InputAssumption, HandoffInv, ChipInv, NEW d \in Devices, Reset(d)
  PROVE  ChipInv'
<1>1. /\ Live(d) /\ usb' = usb /\ OpsOn /\ BoardIs(Board(d))
      /\ CellsAre(Board(d), Kind[usb[d].board].capacity)
  <2>1. Work(d) /\ Live(d) /\ usb' = usb
    BY DEF Work, Reset
  <2> QED BY <2>1, WorkOps, ChipAt
<1>2. PICK b : b = Started(Board(d))
  OBVIOUS
<1>3. CellsAre(b, Kind[usb[d].board].capacity)
  <2>1. b = [cells |-> Board(d).cells, mode |-> "app", run |-> Board(d).run + 1, said |-> 0]
    BY <1>1, <1>2 DEF BoardIs, Started
  <2> QED BY <1>1, <2>1 DEF CellsAre
<1>4. boards' = [boards EXCEPT ![usb[d].board] = b]
  BY <1>1, <1>2, BoardHas DEF Reset, Board
<1>5. SameCells(d) /\ CellsKnown'
  BY <1>1, <1>3, <1>4, ChipBoard
<1>6. PICK from : Monitor(d, from)
  BY DEF Reset
<1>7. PICK u : u = usb[d]
  OBVIOUS
<1>8. usb' = [usb EXCEPT ![d] = u]
  BY <1>1, <1>7 DEF HandoffInv
<1>9. u.board = usb[d].board /\ u.attached = usb[d].attached /\ u.wired = usb[d].wired
  BY <1>7
<1> QED BY <1>1, <1>5, <1>6, <1>8, <1>9, ChipMonitors

LEMMA ListenChips ==
  ASSUME SessionAssumption, HandoffInv, ChipInv, NEW d \in Devices, Listen(d) PROVE ChipInv'
<1>1. /\ worker[d].pc = "idle" /\ boards' = boards /\ ops' = ops
      /\ WorkerIs(worker[d]) /\ UsbIs(usb[d]) /\ SameCells(d) /\ CellsKnown' /\ OpsOn
  <2>1. Work(d) /\ boards' = boards /\ worker[d].pc = "idle" /\ ops' = ops
    BY DEF Work, Listen, Doing
  <2> QED BY <2>1, DeviceHas, ChipHas, WorkOps, CellsSame
<1>2. PICK seen : worker' = [worker EXCEPT ![d].seen = seen]
  <2>1. PICK heard : worker' = [worker EXCEPT ![d].seen = @ \o heard]
    BY DEF Listen
  <2>2. worker' = [worker EXCEPT ![d].seen = worker[d].seen \o heard]
    BY <2>1, DeviceHas
  <2> QED BY <2>2
<1>3. PICK w : w = [worker[d] EXCEPT !.seen = seen]
  OBVIOUS
<1>4. worker' = [worker EXCEPT ![d] = w] /\ w.pc = "idle"
  <2>1. w = [pc |-> worker[d].pc, op |-> worker[d].op, holds |-> worker[d].holds,
             proto |-> worker[d].proto, at |-> worker[d].at, from |-> worker[d].from,
             seen |-> seen, before |-> worker[d].before]
    BY <1>1, <1>3 DEF WorkerIs
  <2> QED BY <1>1, <1>2, <1>3, <2>1, DeviceHas
<1>5. PICK u : /\ usb' = [usb EXCEPT ![d] = u]
               /\ u = [usb[d] EXCEPT !.pending = <<>>] \/ u = [usb[d] EXCEPT !.incoming = <<>>]
  <2>1. PICK aside : usb' = [usb EXCEPT ![d] = IF aside THEN [@ EXCEPT !.pending = <<>>]
                                                ELSE [@ EXCEPT !.incoming = <<>>]]
    BY DEF Listen
  <2>2. PICK o : o = usb[d]
    OBVIOUS
  <2>3. PICK u : u = IF aside THEN [o EXCEPT !.pending = <<>>] ELSE [o EXCEPT !.incoming = <<>>]
    OBVIOUS
  <2>4. usb' = [usb EXCEPT ![d] = u]
    BY <2>1, <2>2, <2>3, DeviceHas
  <2> QED BY <2>2, <2>3, <2>4
<1>6. u.board = usb[d].board /\ u.attached = usb[d].attached /\ u.wired = usb[d].wired
  <2>1. \E pending, incoming :
          u = [board |-> usb[d].board, attached |-> usb[d].attached, leased |-> usb[d].leased,
               wired |-> usb[d].wired, pending |-> pending, incoming |-> incoming]
    BY <1>1, <1>5 DEF UsbIs
  <2> QED BY <2>1
<1> QED BY <1>1, <1>4, <1>5, <1>6, ChipLeft

LEMMA LosePortChips ==
  ASSUME SessionAssumption, HandoffInv, ChipInv, NEW d \in Devices, LosePort(d) PROVE ChipInv'
<1>1. SameCells(d) /\ CellsKnown' /\ OpsOn
  <2>1. Work(d) /\ boards' = boards
    BY DEF Work, LosePort
  <2> QED BY <2>1, ChipHas, WorkOps, CellsSame
<1>2. PICK w, u : w = IdleWorker /\ u = Dropped(d)
  OBVIOUS
<1>3. /\ u.board = usb[d].board /\ u.attached = usb[d].attached /\ u.wired = usb[d].wired
      /\ worker' = [worker EXCEPT ![d] = w] /\ usb' = [usb EXCEPT ![d] = u] /\ w.pc = "idle"
  BY <1>2, DroppedIs, DeviceHas, IdleIs DEF LosePort
<1> QED BY <1>1, <1>3, ChipLeft

LEMMA WorkChips ==
  ASSUME SessionAssumption, InputAssumption, HandoffInv, FlowInv, ChipInv, NEW d \in Devices, Work(d)
  PROVE  ChipInv'
BY TakeJobChips, LeaseChips, ClaimChips, IoFailsChips, ConnectChips, CheckChips,
   EraseSegmentChips, WriteSegmentChips, ReadFlashChips, EraseChipChips, SetBaudChips,
   ClearInputChips, ResetChips, ListenChips, LosePortChips DEF Work

(* What the cables do to a chip: nothing, and no attachment works again.    *)
AllCells == \A b \in Boards : boards'[b].cells = boards[b].cells
StaysAt(x) ==
  /\ usb'[x].board = usb[x].board
  /\ usb'[x].attached /\ usb'[x].wired => Live(x)

LEMMA ChipCables ==
  ASSUME HandoffInv, ChipInv, worker' = worker, ActionsStay, AllCells,
         \A x \in Devices : StaysAt(x) \/ worker[x].pc \in Opening \cup {"idle"}
  PROVE  ChipInv'
<1>1. CellsKnown'
  BY ChipHas, DeviceHas DEF CellsKnown, CellsAre, OfSize, AllCells, ChipInv
<1>2. ASSUME NEW x \in Devices PROVE Flashes(x)'
  <2>1. Flashes(x) /\ (worker[x].pc # "idle" => Asked(worker[x].op))
    BY ChipHas, DeviceHas
  <2>2. PICK w, act, now, other, c :
          /\ w = worker[x] /\ act = ops'[worker[x].op].action
          /\ now = (usb'[x].attached /\ usb'[x].wired)
          /\ other = boards'[usb'[x].board] /\ c = Kind[usb'[x].board].capacity
    OBVIOUS
  <2>3. CASE w.pc \in Opening \cup {"idle"}
    <3>1. w.pc \in Opening => w.at = 1
      BY <2>1, <2>2 DEF Flashes, Flashing
    <3>2. Flashing(w, other, act, now, c)
      BY <2>3, <3>1, FlashingIdle, FlashingOpens
    <3> QED BY <2>2, <3>2 DEF Flashes, Board, Action, Op, Live
  <2>4. CASE StaysAt(x)
    <3>1. PICK a, b, live : a = Action(x) /\ b = Board(x) /\ live = Live(x)
      OBVIOUS
    <3>2. Flashing(w, b, a, live, c)
      BY <2>1, <2>2, <2>4, <3>1 DEF Flashes, StaysAt
    <3>3. w.pc # "idle" => act = a
      BY <2>1, <2>2, <3>1 DEF ActionsStay, Action, Op
    <3>4. now => live
      BY <2>2, <2>4, <3>1 DEF StaysAt
    <3>5. now => other.cells = b.cells
      <4>1. Live(x) => usb[x].board \in Boards
        BY DeviceHas DEF Sound, Live
      <4> QED BY <2>2, <2>4, <3>1, <3>4, <4>1 DEF AllCells, StaysAt, Board
    <3>6. Flashing(w, other, act, now, c)
      BY <3>2, <3>3, <3>4, <3>5, FlashingStays
    <3> QED BY <2>2, <3>6 DEF Flashes, Board, Action, Op, Live
  <2> QED BY <2>2, <2>3, <2>4
<1> QED BY <1>1, <1>2 DEF ChipInv, CellsKnown, Flashes

LEMMA CellsStay ==
  ASSUME HandoffInv, NEW b \in Boards, NEW c, boards' = [boards EXCEPT ![b] = c],
         c.cells = boards[b].cells
  PROVE  AllCells
<1>1. boards'[b] = c /\ \A x \in Boards : x # b => boards'[x] = boards[x]
  BY DEF HandoffInv
<1>2. ASSUME NEW x \in Boards PROVE boards'[x].cells = boards[x].cells
  <2>1. CASE x = b
    BY <1>1, <2>1
  <2>2. CASE x # b
    BY <1>1, <2>2
  <2> QED BY <2>1, <2>2
<1> QED BY <1>2 DEF AllCells

LEMMA SpeakChips ==
  ASSUME HandoffInv, ChipInv, NEW b \in Boards, Speak(b) PROVE ChipInv'
<1>1. BoardIs(boards[b]) /\ b \in DOMAIN boards /\ worker' = worker /\ ops' = ops
  BY DEF HandoffInv, Speak
<1>2. PICK said, c : said = boards[b].said + 1 /\ c = [boards[b] EXCEPT !.said = said]
  OBVIOUS
<1>3. c.cells = boards[b].cells
  <2>1. c = [cells |-> boards[b].cells, mode |-> boards[b].mode, run |-> boards[b].run, said |-> said]
    BY <1>1, <1>2 DEF BoardIs
  <2> QED BY <2>1
<1>4. boards' = [boards EXCEPT ![b] = c]
  BY <1>1, <1>2 DEF Speak
<1>5. ASSUME NEW x \in Devices PROVE StaysAt(x)
  <2>1. PICK u, v : u = usb[x] /\ v = usb'[x]
    OBVIOUS
  <2>2. UsbIs(u)
    BY <2>1, DeviceHas
  <2>3. v = u \/ \E incoming : v = [u EXCEPT !.incoming = incoming]
    BY <2>1 DEF Speak
  <2>4. CASE v = u
    BY <2>1, <2>4 DEF StaysAt, Live
  <2>5. ASSUME NEW incoming, v = [u EXCEPT !.incoming = incoming] PROVE StaysAt(x)
    <3>1. v = [board |-> u.board, attached |-> u.attached, leased |-> u.leased, wired |-> u.wired,
               pending |-> u.pending, incoming |-> incoming]
      BY <2>2, <2>5 DEF UsbIs
    <3>2. v.board = u.board /\ v.attached = u.attached /\ v.wired = u.wired
      BY <3>1
    <3> QED BY <2>1, <3>2 DEF StaysAt, Live
  <2> QED BY <2>3, <2>4, <2>5
<1> QED BY <1>1, <1>3, <1>4, <1>5, CellsStay, OpsOnSame, OpsOnStays, ChipCables

LEMMA UnplugChips ==
  ASSUME HandoffInv, ChipInv, NEW b \in Boards, Unplug(b) PROVE ChipInv'
<1>1. BoardIs(boards[b]) /\ b \in DOMAIN boards /\ worker' = worker /\ ops' = ops
  BY DEF HandoffInv, Unplug
<1>2. PICK c : c = [boards[b] EXCEPT !.mode = "off"]
  OBVIOUS
<1>3. c.cells = boards[b].cells
  <2>1. c = [cells |-> boards[b].cells, mode |-> "off", run |-> boards[b].run, said |-> boards[b].said]
    BY <1>1, <1>2 DEF BoardIs
  <2> QED BY <2>1
<1>4. boards' = [boards EXCEPT ![b] = c]
  BY <1>1, <1>2 DEF Unplug
<1>5. ASSUME NEW x \in Devices PROVE StaysAt(x)
  <2>1. PICK u, v : u = usb[x] /\ v = usb'[x]
    OBVIOUS
  <2>2. UsbIs(u)
    BY <2>1, DeviceHas
  <2>3. v = u \/ v = [u EXCEPT !.wired = FALSE]
    BY <2>1 DEF Unplug
  <2>4. CASE v = u
    BY <2>1, <2>4 DEF StaysAt, Live
  <2>5. CASE v = [u EXCEPT !.wired = FALSE]
    <3>1. v = [board |-> u.board, attached |-> u.attached, leased |-> u.leased, wired |-> FALSE,
               pending |-> u.pending, incoming |-> u.incoming]
      BY <2>2, <2>5 DEF UsbIs
    <3>2. v.board = u.board /\ v.wired = FALSE
      BY <3>1
    <3> QED BY <2>1, <3>2 DEF StaysAt
  <2> QED BY <2>3, <2>4, <2>5
<1> QED BY <1>1, <1>3, <1>4, <1>5, CellsStay, OpsOnSame, OpsOnStays, ChipCables

LEMMA DetachChips ==
  ASSUME HandoffInv, ChipInv, NEW d \in Devices, Detach(d) PROVE ChipInv'
<1>1. worker' = worker /\ ops' = ops /\ AllCells
  BY DEF Detach, AllCells
<1>2. PICK u, v : u = usb[d] /\ v = [u EXCEPT !.attached = FALSE]
  OBVIOUS
<1>3. v.board = u.board /\ v.attached = FALSE
  <2>1. UsbIs(u)
    BY <1>2, DeviceHas
  <2>2. v = [board |-> u.board, attached |-> FALSE, leased |-> u.leased, wired |-> u.wired,
             pending |-> u.pending, incoming |-> u.incoming]
    BY <1>2, <2>1 DEF UsbIs
  <2> QED BY <2>2
<1>4. usb' = [usb EXCEPT ![d] = v]
  BY <1>2, DeviceHas DEF Detach
<1>5. usb'[d] = v /\ \A x \in Devices : x # d => usb'[x] = usb[x]
  BY <1>4 DEF HandoffInv
<1>6. ASSUME NEW x \in Devices PROVE StaysAt(x)
  <2>1. CASE x = d
    BY <1>2, <1>3, <1>5, <2>1 DEF StaysAt
  <2>2. CASE x # d
    BY <1>5, <2>2 DEF StaysAt, Live
  <2> QED BY <2>1, <2>2
<1> QED BY <1>1, <1>6, OpsOnSame, OpsOnStays, ChipCables

(* Nobody has a port of an attachment that is made only now.                *)
LEMMA AttachChips ==
  ASSUME HandoffInv, ChipInv, NEW d \in Devices, NEW b \in Boards, Attach(d, b) PROVE ChipInv'
<1>1. worker' = worker /\ ops' = ops /\ usb[d].board = NoBoard /\ usb' = [usb EXCEPT ![d] = Attachment(b)]
  BY DEF Attach
<1>2. \A x \in Devices : x # d => usb'[x] = usb[x]
  BY <1>1 DEF HandoffInv
<1>3. BoardIs(boards[b]) /\ b \in DOMAIN boards
  BY DEF HandoffInv
<1>4. AllCells
  <2>1. CASE boards' = boards
    BY <2>1 DEF AllCells
  <2>2. CASE boards' = [boards EXCEPT ![b] = Started(@)]
    <3>1. PICK c : c = Started(boards[b])
      OBVIOUS
    <3>2. c = [cells |-> boards[b].cells, mode |-> "app", run |-> boards[b].run + 1, said |-> 0]
      BY <1>3, <3>1 DEF BoardIs, Started
    <3>3. boards' = [boards EXCEPT ![b] = c] /\ c.cells = boards[b].cells
      BY <1>3, <2>2, <3>1, <3>2
    <3> QED BY <3>3, CellsStay
  <2> QED BY <2>1, <2>2 DEF Attach
<1>5. worker[d].pc \in Opening \cup {"idle"}
  BY <1>1, DeviceHas DEF Sound, Placed
<1>6. ASSUME NEW x \in Devices PROVE StaysAt(x) \/ worker[x].pc \in Opening \cup {"idle"}
  BY <1>2, <1>5 DEF StaysAt, Live
<1> QED BY <1>1, <1>4, <1>6, OpsOnSame, OpsOnStays, ChipCables

LEMMA ClientChips ==
  ASSUME HandoffInv, ChipInv, NEW c \in Clients,
         BringManifest(c) \/ OpenForm(c) \/ SendPart(c) \/ EndBody(c) \/ Request(c) \/ Lose(c)
  PROVE  ChipInv'
<1>1. worker' = worker /\ usb' = usb /\ boards' = boards
  BY DEF BringManifest, OpenForm, SendPart, EndBody, Request, Lose, hardware
<1>2. UNCHANGED ops \/ \E d, action : Submit(c, d, action)
  <2>1. BringManifest(c) \/ OpenForm(c) \/ SendPart(c) \/ Lose(c) => UNCHANGED ops
    BY Zenon DEF BringManifest, OpenForm, SendPart, Lose
  <2>2. EndBody(c) => UNCHANGED ops \/ \E d, action : Submit(c, d, action)
    BY DEF EndBody
  <2>3. Request(c) => UNCHANGED ops \/ \E d, action : Submit(c, d, action)
    BY DEF Request
  <2> QED BY <2>1, <2>2, <2>3
<1>3. ActionsStay
  BY <1>2, OpsSame, SubmitKeeps DEF HandoffInv
<1> QED BY <1>1, <1>3, ChipCables DEF AllCells, StaysAt, Live

-----------------------------------------------------------------------------
(* From the files to the chip, all together. *)

LEMMA FlashStarts == ASSUME SessionAssumption, InputAssumption, Init PROVE FlashInv
<1>1. HandoffInv
  BY HandoffStarts
<1>2. /\ disk = FirstDisk /\ client = [c \in Clients |-> NewClient]
      /\ staged = [c \in Clients |-> Closed] /\ ops = [c \in Clients |-> NoOp]
      /\ worker = [d \in Devices |-> IdleWorker] /\ used = [edit |-> 0, fault |-> 0]
  BY DEF Init
<1>3. FlowInv
  <2>1. client = [c \in Clients |-> client[c]] /\ staged = [c \in Clients |-> staged[c]]
    BY <1>2
  <2>2. DiskIs(disk)
    <3>1. disk = [f \in DOMAIN FirstDisk |-> disk[f]]
      BY <1>2 DEF InputAssumption
    <3>2. \A f \in DOMAIN FirstDisk : disk[f].size \in Nat
      BY <1>2 DEF InputAssumption
    <3> QED BY <3>1, <3>2 DEF DiskIs
  <2>3. used = [edit |-> used["edit"], fault |-> used["fault"]] /\ used["edit"] \in Nat
    BY <1>2
  <2>4. PICK cl : cl = NewClient
    OBVIOUS
  <2>5. ClientIs(cl) /\ cl.pc = "start" /\ cl.tries = 0 /\ cl.why = "none"
    BY <2>4, NewClientIs
  <2>6. Bringing(cl, NoOp)
    BY <2>5 DEF Bringing
  <2>7. \A c \in Clients : client[c] = cl /\ ops[c] = NoOp /\ staged[c] = Closed
    BY <1>2, <2>4
  <2>8. Checking(cl, NoOp, Closed, used["edit"], disk)
    BY <2>5, ClosedIs DEF Checking, Past
  <2>9. Checking(client[Cli], ops[Cli], staged[Cli], used["edit"], disk)
    <3>1. Cli \in Clients
      BY DEF SessionAssumption
    <3>2. client[Cli] = cl /\ ops[Cli] = NoOp /\ staged[Cli] = Closed
      BY <2>7, <3>1
    <3> QED BY <2>8, <3>2
  <2> QED BY <2>1, <2>2, <2>3, <2>6, <2>7, <2>9 DEF FlowInv
<1>4. ChipInv
  <2>1. ASSUME NEW b \in Boards PROVE CellsAre(boards[b], Kind[b].capacity)
    <3>1. PICK on \in Boards :
            /\ usb = [d \in Devices |-> Attachment(IF d = 1 THEN on ELSE NoBoard)]
            /\ boards = [x \in Boards |->
                 [cells |-> [i \in 0 .. Kind[x].capacity - 1 |-> <<"old", i>>],
                  mode |-> IF x = on THEN "app" ELSE "off", run |-> 1, said |-> 0]]
      BY DEF Init
    <3>2. boards[b].cells = [i \in 0 .. Kind[b].capacity - 1 |-> <<"old", i>>]
      BY <3>1
    <3>3. boards[b].cells = [i \in 0 .. Kind[b].capacity - 1 |-> boards[b].cells[i]]
      BY <3>2
    <3> QED BY <3>3 DEF CellsAre, OfSize
  <2>2. \A d \in Devices : worker[d].pc = "idle"
    BY <1>2, IdleIs
  <2> QED BY <2>1, <2>2, FlashingIdle DEF ChipInv
<1> QED BY <1>1, <1>3, <1>4 DEF FlashInv

LEMMA FlashSteps ==
  ASSUME SessionAssumption, InputAssumption, FlashInv, [Next]_vars PROVE FlashInv'
<1>1. HandoffInv /\ FlowInv /\ ChipInv
  BY DEF FlashInv
<1>2. HandoffInv'
  BY <1>1, HandoffSteps
<1>3. CASE Load \/ Preflight \/ Edit
  <2>1. FlowInv'
    BY <1>1, <1>3, LoadFlows, PreflightFlows, EditFlows
  <2>2. worker' = worker /\ usb' = usb /\ boards' = boards /\ ops' = ops
    BY <1>3 DEF Load, Preflight, Edit, hardware
  <2>3. AllCells /\ \A x \in Devices : StaysAt(x)
    BY <2>2 DEF AllCells, StaysAt, Live
  <2>4. ChipInv'
    BY <1>1, <2>2, <2>3, OpsOnSame, OpsOnStays, ChipCables
  <2> QED BY <1>2, <2>1, <2>4 DEF FlashInv
<1>4. ASSUME NEW c \in Clients, BringManifest(c) \/ OpenForm(c) \/ SendPart(c) \/ EndBody(c)
                                \/ Request(c) \/ Lose(c)
      PROVE  FlashInv'
  <2>1. FlowInv'
    BY <1>1, <1>4, BringManifestFlows, OpenFormFlows, SendPartFlows, EndBodyFlows, RequestFlows,
       LoseFlows
  <2>2. ChipInv'
    BY <1>1, <1>4, ClientChips
  <2> QED BY <1>2, <2>1, <2>2 DEF FlashInv
<1>5. ASSUME NEW d \in Devices, Work(d) PROVE FlashInv'
  <2>1. UNCHANGED <<client, staged>> /\ SameFiles /\ OpsOn
    BY <1>1, <1>5, WorkLeaves, WorkOps
  <2>2. FlowInv'
    BY <1>1, <2>1, FlowStays
  <2>3. ChipInv'
    BY <1>1, <1>5, WorkChips
  <2> QED BY <1>2, <2>2, <2>3 DEF FlashInv
<1>6. CASE \/ \E b \in Boards : Speak(b) \/ Unplug(b)
           \/ \E d \in Devices : Detach(d) \/ \E b \in Boards : Attach(d, b)
  <2>1. UNCHANGED <<client, staged>> /\ SameFiles /\ ops' = ops
    BY <1>6 DEF Speak, Unplug, Detach, Attach, Fault, clientVars, SameFiles
  <2>2. FlowInv'
    BY <1>1, <2>1, OpsOnSame, FlowStays
  <2>3. ChipInv'
    BY <1>1, <1>6, SpeakChips, UnplugChips, DetachChips, AttachChips
  <2> QED BY <1>2, <2>2, <2>3 DEF FlashInv
<1>7. CASE UNCHANGED vars
  <2>1. UNCHANGED <<client, staged>> /\ SameFiles
    BY <1>7 DEF vars, SameFiles
  <2>2. worker' = worker /\ usb' = usb /\ boards' = boards /\ ops' = ops
    BY <1>7 DEF vars
  <2>3. FlowInv'
    BY <1>1, <2>1, <2>2, OpsOnSame, FlowStays
  <2>4. AllCells /\ \A x \in Devices : StaysAt(x)
    BY <2>2 DEF AllCells, StaysAt, Live
  <2>5. ChipInv'
    BY <1>1, <2>2, <2>4, OpsOnSame, OpsOnStays, ChipCables
  <2> QED BY <1>2, <2>3, <2>5 DEF FlashInv
<1> QED BY <1>3, <1>4, <1>5, <1>6, <1>7 DEF Next

(* All segments of a plan are on the chip: each part is where it was        *)
(* announced.                                                               *)
Arrived(parts, cells, before) ==
  /\ \A n \in DOMAIN parts : \A i \in 1 .. parts[n].size :
       LET a == parts[n].offset + i - 1
       IN a \in DOMAIN cells /\ cells[a] = parts[n].sha256[i]
  /\ \A a \in DOMAIN cells :
       (\A n \in DOMAIN parts : a \notin Erased(parts[n].offset, RoundUp(parts[n].size, Align))) =>
         cells[a] = before[a]

LEMMA WrittenIs ==
  ASSUME NEW m, Announces(m), NEW received, NEW p, p = IntoPlan(m, received), Ok(p),
         NEW c, Whole(c), Below(p.segments, c), NEW cells, OfSize(cells, c), NEW before,
         Upto(cells, before, p.segments, Len(p.segments), Len(p.segments))
  PROVE  Arrived(m.segments, cells, before)
<1>0. PICK parts, segments : parts = m.segments /\ segments = p.segments
  OBVIOUS
<1>5. Below(segments, c) /\ Upto(cells, before, segments, Len(segments), Len(segments))
  BY <1>0
<1>1. /\ SegmentsAre(segments) /\ DOMAIN segments = 1 .. Len(segments)
      /\ \A n \in DOMAIN parts : \E k \in DOMAIN segments : Carries(segments[k], parts[n])
      /\ \A k \in DOMAIN segments : \E n \in DOMAIN parts : Carries(segments[k], parts[n])
  BY <1>0, IntoPlanIs DEF SegmentsAre, Listing
<1>2. DOMAIN cells = 0 .. c - 1
  BY DEF OfSize
<1>3. ASSUME NEW n \in DOMAIN parts, NEW i \in 1 .. parts[n].size
      PROVE  /\ parts[n].offset + i - 1 \in DOMAIN cells
             /\ cells[parts[n].offset + i - 1] = parts[n].sha256[i]
  <2>1. PICK k \in DOMAIN segments : Carries(segments[k], parts[n])
    BY <1>1
  <2>2. PICK s, part : s = segments[k] /\ part = parts[n]
    OBVIOUS
  <2>3. PICK data : data = part.sha256 /\ IsData(data) /\ Len(data) = part.size /\ s.data = Pad(data)
                    /\ s.offset = part.offset
    BY <2>1, <2>2 DEF Carries
  <2>4. /\ Len(Pad(data)) \in Nat /\ Len(data) \in Nat /\ Len(data) <= Len(Pad(data))
        /\ \A h \in 1 .. Len(data) : Pad(data)[h] = data[h]
    BY <2>3, PadIs
  <2>5. i \in 1 .. Len(s.data) /\ s.data[i] = data[i]
    BY <2>2, <2>3, <2>4
  <2>6. PICK a : a = segments[k].offset + i - 1
    OBVIOUS
  <2>7. a \in 0 .. c - 1
    BY <1>1, <1>5, <2>2, <2>5, <2>6, PutAt
  <2>8. PutIn(cells, segments[k])
    BY <1>1, <1>5 DEF Upto
  <2>9. cells[a] = s.data[i]
    BY <2>2, <2>5, <2>6, <2>8 DEF PutIn
  <2>10. a = parts[n].offset + i - 1
    BY <2>2, <2>3, <2>6
  <2> QED BY <1>2, <2>2, <2>3, <2>5, <2>7, <2>9, <2>10
<1>4. ASSUME NEW a \in DOMAIN cells,
             \A n \in DOMAIN parts :
               a \notin Erased(parts[n].offset, RoundUp(parts[n].size, Align))
      PROVE  cells[a] = before[a]
  <2>1. ASSUME NEW k \in 1 .. Len(segments)
        PROVE  a \notin Erased(segments[k].offset, Len(segments[k].data))
    <3>1. PICK n \in DOMAIN parts : Carries(segments[k], parts[n])
      BY <1>1
    <3>2. PICK s, part : s = segments[k] /\ part = parts[n]
      OBVIOUS
    <3>3. PICK data : IsData(data) /\ Len(data) = part.size /\ s.data = Pad(data)
                      /\ s.offset = part.offset
      BY <3>1, <3>2 DEF Carries
    <3>4. Len(s.data) = RoundUp(part.size, Align)
      BY <3>3, PadIs
    <3>5. a \notin Erased(part.offset, RoundUp(part.size, Align))
      BY <1>4, <3>2
    <3> QED BY <3>2, <3>3, <3>4, <3>5
  <2> QED BY <1>5, <2>1 DEF Upto, Spares
<1> QED BY <1>0, <1>3, <1>4 DEF Arrived

LEMMA FlashShows ==
  ASSUME SessionAssumption, InputAssumption, FlashInv PROVE FlashIsFaithful
<1>1. HandoffInv /\ FlowInv /\ ChipInv
  BY DEF FlashInv
<1>2. PreflightHolds
  BY <1>1, FlowHas DEF Checking, PreflightHolds
<1>3. ASSUME NEW d \in Devices, worker[d].pc \in Handoff, Action(d).kind = "flash", Live(d)
      PROVE  LET parts == client[worker[d].op].manifest.segments
                 cells == Board(d).cells
                 length(n) == RoundUp(parts[n].size, Align)
             IN /\ \A n \in DOMAIN parts : \A i \in 1 .. parts[n].size :
                     LET a == parts[n].offset + i - 1
                     IN a \in DOMAIN cells /\ cells[a] = parts[n].sha256[i]
                /\ \A a \in DOMAIN cells :
                     (\A n \in DOMAIN parts : a \notin Erased(parts[n].offset, length(n))) =>
                       cells[a] = worker[d].before[a]
  <2>1. PICK c \in Clients : c = worker[d].op /\ ops[c] # NoOp /\ ops[c].action = Action(d)
    <3>1. Asked(worker[d].op)
      BY <1>1, <1>3, DeviceHas DEF Handoff
    <3> QED BY <3>1 DEF Asked, Action, Op
  <2>2. Planned(client[c], ops[c])
    <3>1. Bringing(client[c], ops[c])
      BY <1>1, FlowHas
    <3> QED BY <1>3, <2>1, <3>1 DEF Bringing
  <2>3. PICK m, p : m = client[c].manifest /\ p = Action(d).plan
    OBVIOUS
  <2>4. PICK received : Announces(m) /\ p = IntoPlan(m, received) /\ Ok(p)
    BY <2>1, <2>2, <2>3 DEF Planned
  <2>5. PICK parts, segments : parts = m.segments /\ segments = p.segments
    OBVIOUS
  <2>6. PICK capacity, cells, before :
          /\ capacity = Kind[usb[d].board].capacity /\ cells = Board(d).cells /\ before = worker[d].before
    OBVIOUS
  <2>7. Whole(capacity) /\ OfSize(cells, capacity)
    BY <1>1, <1>3, <2>6, ChipAt DEF CellsAre
  <2>8. Progress(worker[d], cells, segments, capacity)
    <3>1. Flashes(d)
      BY <1>1, ChipHas
    <3> QED BY <1>3, <2>3, <2>5, <2>6, <3>1 DEF Flashes, Flashing, Begun, ForReset, Handoff
  <2>9. Below(segments, capacity) /\ Upto(cells, before, segments, Len(segments), Len(segments))
    BY <1>3, <2>6, <2>8 DEF Progress
  <2>10. Arrived(parts, cells, before)
    BY <2>4, <2>5, <2>7, <2>9, WrittenIs
  <2>11. Arrived(client[c].manifest.segments, Board(d).cells, worker[d].before)
    BY <2>3, <2>5, <2>6, <2>10
  <2>12. c = worker[d].op
    BY <2>1
  <2> HIDE DEF Board
  <2> QED BY Zenon, <2>11, <2>12 DEF Arrived
<1>4. WrittenAsPlanned
  BY Zenon, <1>3 DEF WrittenAsPlanned
<1> QED BY Zenon, <1>2, <1>4 DEF FlashIsFaithful

(* load, flash_form (src/src/main.rs), flash (src/src/server.rs) and        *)
(* Session::flash (src/src/backend/flashing.rs): whatever files, builds,    *)
(* manifests and chips there are, however often the connection or the cable *)
(* is lost and whenever a file is edited, the daemon plans what the client  *)
(* has checked, and the chip that is started has every part of it at its    *)
(* place and everything else as it was, but for the sectors of the parts.   *)
THEOREM FlashArrivesAsPlanned == Spec => []FlashIsFaithful
<1>1. Init => FlashInv
  BY SessionAssumption, InputAssumption, FlashStarts
<1>2. FlashInv /\ [Next]_vars => FlashInv'
  BY SessionAssumption, InputAssumption, FlashSteps
<1>3. FlashInv => FlashIsFaithful
  BY SessionAssumption, InputAssumption, FlashShows
<1> QED BY <1>1, <1>2, <1>3, PTL DEF Spec
=============================================================================
