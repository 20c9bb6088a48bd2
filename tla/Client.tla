------------------------------- MODULE Client -------------------------------
(***************************************************************************)
(* One command of the command line client (src/src/main.rs) against a      *)
(* daemon that may restart, forget finished operations and evict events,   *)
(* over connections that lose requests and answers.                        *)
(*                                                                         *)
(* The daemon is what DeviceOperations and EventLog promise of it: a key   *)
(* runs once while it is retained, an operation ends together with its     *)
(* last event, a cursor is served exactly or refused.  The client is its   *)
(* code: submit with one retry, wait for the operation, follow a flash,    *)
(* download an artifact, or capture output while keys are typed.           *)
(*                                                                         *)
(* Request 0 is the command's own; request n is its n-th piece of input.   *)
(***************************************************************************)
EXTENDS LineDecoder

CONSTANTS
  Commands,     \* what may be asked, how, what is typed and what the board says
  MaxInput,     \* longest input of a command
  Exit,         \* MONITOR_EXIT_BYTE
  ReadSize,     \* largest read of standard input
  ChannelCap,   \* capacity of the input channel
  MaxWrite,     \* MAX_SERIAL_WRITE_BYTES
  OutputReads,  \* sizes of the worker's serial reads
  Pattern,      \* the line that --wait looks for
  Script,       \* the progress a flash reports, step by step
  Chunks,       \* chunks an artifact is sent in
  MaxFaults     \* bound, for model checking only: restarts of the daemon, operations it
                \*   forgets, events it evicts, ports it loses or gives to other clients,
                \*   and repeated invocations, taken together

ASSUME ClientAssumption ==
  /\ Exit # Newline /\ ReadSize \in Nat \ {0} /\ MaxWrite \in Nat \ {0}
  /\ ChannelCap \in Nat \ {0} /\ MaxInput \in Nat /\ Chunks \in Nat /\ OutputReads \subseteq Nat \ {0}
  /\ MaxFaults \in Nat
  /\ \A c \in Commands : c.input \in Seq(ToSet(c.input)) /\ Len(c.input) <= MaxInput
  /\ \A c \in Commands : c.output \in Seq(ToSet(c.output))

Actions == {"segment_started", "segment_progress", "verifying", "segment_finished"}

(* Callback, which espflash calls; with_flasher asks it to verify and to    *)
(* skip nothing: a flash that succeeds has written each segment it started  *)
(* to the end, and has verified it.                                         *)
Completes(script) ==
  /\ script \in Seq(ToSet(script))
  /\ \A i \in DOMAIN script :
       /\ script[i].action \in Actions
       /\ script[i].action = "segment_started" =>
            \A last \in {"segment_progress", "segment_finished"} : \E j \in DOMAIN script :
              /\ script[j].action = last /\ script[j].offset = script[i].offset
              /\ script[j].percent = 100

ASSUME ScriptAssumption == Completes(Script) /\ \A c \in Commands : c.tty \in BOOLEAN

VARIABLES
  epoch,       \* the run of the daemon
  ops,         \* retained operations by key: request, status, start, input
  log,         \* the device's events since the daemon started
  faults,      \* faults so far
  evicted,     \* how many of them the ring no longer has
  flashed,     \* steps of Script the running flash has reported
  said,        \* bytes of cmd.output the worker has read
  port,        \* the worker's monitor: open, closed, or lost and to be reopened
  taken,       \* whether the worker has taken the job of the running operation
  unfinished,  \* the worker's LineDecoder
  fresh,       \* history: the length of the log when that decoder was made
  ran,         \* how often each request was admitted
  forgot,      \* how often the daemon forgot a request it had admitted
  device,      \* the input the board received
  flights,     \* posts on the network that the daemon may still handle

  cmd, run,    \* the command, and how often it was invoked
  pc,          \* where the command is
  verdict,     \* how it ended
  call,        \* the post in progress: request, attempt, what is known of it
  start,       \* start_cursor of the command's operation
  cursor,      \* the cursor events are asked with
  through,     \* progress_cursor that a flash returned
  asked,       \* the events request in flight
  printed,     \* numbers of the events printed as JSON
  rawlog,      \* the raw capture
  view,        \* FlashProgressWriter
  typed,       \* bytes of cmd.input read from standard input
  reading,     \* whether the input thread runs
  channel,     \* what it sent and the loop has not received
  pending,     \* pending_input
  exiting,     \* exit_requested
  sent,        \* number of pieces of input posted so far
  file         \* the output file: whose it is and how many chunks it has

portVars == <<port, taken, unfinished, fresh>>
daemonVars == <<epoch, faults, ops, log, evicted, flashed, said, portVars, ran, forgot, device>>
inputVars == <<typed, reading, channel, pending, exiting, sent>>
shownVars == <<cursor, through, asked, printed, rawlog, view>>
vars == <<daemonVars, flights, cmd, run, pc, verdict, call, start, shownVars, inputVars, file>>

Nowhere == [epoch |-> 0, after |-> 0]
Idle == [req |-> 0, try |-> 0, input |-> <<>>, status |-> "idle", start |-> Nowhere]
NotAsked == [state |-> "none", batch |-> <<>>]
Asking == [state |-> "asked", batch |-> <<>>]
NoPercent == <<>>
Nobody == [owner |-> "nobody", chunks |-> 0]
Somebody == [owner |-> "somebody", chunks |-> 0]

Event(kind, data) == [kind |-> kind, data |-> data]

Init ==
  /\ epoch = 1 /\ ops = [k \in {} |-> Idle] /\ log = <<>> /\ evicted = 0 /\ faults = 0
  /\ flashed = 0 /\ said = 0
  /\ port = "closed" /\ taken = FALSE /\ unfinished = <<>> /\ fresh = 0
  /\ ran = [r \in 0 .. MaxInput |-> 0] /\ forgot = ran /\ device = <<>>
  /\ flights = {}
  /\ cmd \in Commands
  /\ run = 1 /\ pc = "submit" /\ verdict = "none" /\ call = Idle
  /\ start = Nowhere /\ cursor = Nowhere /\ through = Nowhere /\ asked = NotAsked
  /\ printed = <<>> /\ rawlog = <<>>
  /\ view = [line |-> FALSE, last |-> NoPercent, shown |-> <<>>]
  /\ typed = 0 /\ reading = FALSE /\ channel = <<>> /\ pending = <<>>
  /\ exiting = FALSE /\ sent = 0
  /\ file \in IF cmd.kind = "read" THEN {Nobody, Somebody} ELSE {Nobody}

End(how) == pc' = (IF how \in {"failed", "refused", "operation failed"} THEN "failed" ELSE "done")
            /\ verdict' = how

-----------------------------------------------------------------------------
(* The daemon. *)

\* Mutant: every attempt has a key of its own.
KeyOfAttempt(req, attempt) == 10 * attempt + req

(* The key a post carries: --request-key or the generated key of the        *)
(* command, and a generated one for each piece of input.                    *)
RequestKey(req, attempt) == req

Flight(c) == [req |-> c.req, run |-> run, try |-> c.try, input |-> c.input]

Awaited(f) == call.status = "sent" /\ f = Flight(call)

(* The answer reaches the client, if it still waits for this attempt, or is *)
(* lost on the way.                                                         *)
Answer(f, status, from) ==
  \/ Awaited(f) /\ call' = [call EXCEPT !.status = status, !.start = from]
  \/ UNCHANGED call

Exclusive(req) == req = 0 /\ cmd.kind # "write"
Busy == \E k \in DOMAIN ops : ops[k].status = "running"
Flashing == \E k \in DOMAIN ops : ops[k].status = "running" /\ Exclusive(ops[k].req)

Replay(f) ==
  LET key == RequestKey(f.req, f.try) IN
  /\ key \in DOMAIN ops
  /\ Answer(f, ops[key].status, ops[key].start)
  /\ UNCHANGED daemonVars

Admit(f) ==
  LET key == RequestKey(f.req, f.try)
      op == [req |-> f.req, status |-> "running", input |-> f.input,
             start |-> [epoch |-> epoch, after |-> Len(log) + 1]]
  IN /\ key \notin DOMAIN ops /\ ~Busy
     /\ ops' = [k \in DOMAIN ops \cup {key} |-> IF k = key THEN op ELSE ops[k]]
     /\ log' = Append(log, Event("operation_started", <<f.req>>))
     /\ ran' = [ran EXCEPT ![f.req] = @ + 1]
     /\ flashed' = IF Exclusive(f.req) THEN 0 ELSE flashed
     /\ Answer(f, "running", op.start)
     /\ UNCHANGED <<epoch, faults, evicted, said, portVars, forgot, device>>

(* The device is busy, here also with what other clients do.                *)
Refuse(f) ==
  /\ RequestKey(f.req, f.try) \notin DOMAIN ops
  /\ Answer(f, "refused", Nowhere)
  /\ UNCHANGED daemonVars

Handle(f) ==
  /\ f \in flights
  /\ flights' = flights \ {f}
  /\ Replay(f) \/ Admit(f) \/ Refuse(f)
  /\ UNCHANGED <<cmd, run, pc, verdict, start, shownVars, inputVars, file>>

clientVars == <<cmd, run, pc, verdict, call, start, shownVars, inputVars, file>>

(* A flash reports its progress while it runs.                              *)
Report ==
  /\ Flashing /\ taken /\ cmd.kind = "flash" /\ flashed < Len(Script)
  /\ flashed' = flashed + 1
  /\ log' = Append(log, Event("progress", Script[flashed + 1]))
  /\ UNCHANGED <<epoch, faults, ops, evicted, said, portVars, ran, forgot, device, flights,
                 clientVars>>

\* Mutant: the decoder outlives the port it was made for.
KeptDecoder == fresh' = Len(log') /\ UNCHANGED unfinished

(* LineDecoder::default(): the line that had begun will not be finished.    *)
FreshDecoder == fresh' = Len(log') /\ unfinished' = <<>>

(* The worker takes the job.  An exclusive operation closes the monitor (an *)
(* application session, which would keep it, is left out), input opens one. *)
TakeJob ==
  /\ Busy /\ ~taken /\ taken' = TRUE
  /\ UNCHANGED <<epoch, faults, ops, log, evicted, flashed, said, ran, forgot, device, flights,
                 clientVars>>
  /\ IF port = "open" /\ ~Flashing
       THEN UNCHANGED <<port, unfinished, fresh>>
       ELSE port' = (IF Flashing THEN "closed" ELSE "open") /\ FreshDecoder

(* The port an operation leaves: an exclusive one hands it to the monitor   *)
(* if it succeeds; an input that cannot be written closes it.               *)
PortAfter(op, ok) ==
  \/ Exclusive(op.req) /\ taken
     /\ port' = (IF ok /\ cmd.capture THEN "open" ELSE "closed") /\ UNCHANGED <<unfinished, fresh>>
  \/ ~Exclusive(op.req) /\ (ok => taken /\ port = "open") /\ UNCHANGED <<port, unfinished, fresh>>
  \/ ~Exclusive(op.req) /\ ~ok /\ taken /\ port = "open" /\ port' = "closed" /\ FreshDecoder

(* The operation ends, together with its last event, under one lock.        *)
Finish(key, ok) ==
  LET op == ops[key] IN
  /\ op.status = "running"
  /\ ok /\ op.req = 0 /\ cmd.kind = "flash" => flashed = Len(Script)
  /\ ops' = [ops EXCEPT ![key].status = IF ok THEN "succeeded" ELSE "failed"]
  /\ log' = Append(log, Event("operation_finished", <<op.req, ops'[key].status>>))
  /\ PortAfter(op, ok) /\ taken' = FALSE
  /\ \/ device' = device \o op.input
     \/ ~ok /\ UNCHANGED device
  /\ UNCHANGED <<epoch, faults, evicted, flashed, said, ran, forgot, flights, clientVars>>

(* The worker reads n bytes and publishes them, raw and as lines.  What the *)
(* board says when no command listens is left out.                          *)
Publish(n) ==
  LET bytes == SubSeq(cmd.output, said + 1, said + n)
      decoded == Feed(unfinished, bytes)
  IN /\ port = "open" /\ ~Flashing
     /\ cmd.capture /\ ran[0] > 0 /\ pc \notin {"submit", "done", "failed"}
     /\ said + n <= Len(cmd.output)
     /\ said' = said + n
     /\ unfinished' = decoded.pending
     /\ log' = (log \o <<Event("raw", bytes)>>)
                 \o [i \in DOMAIN decoded.lines |-> Event("log", decoded.lines[i])]
     /\ UNCHANGED <<epoch, faults, ops, evicted, flashed, port, taken, fresh, ran, forgot, device,
                    flights, clientVars>>

otherVars == <<epoch, ops, evicted, flashed, said, taken, ran, forgot, device, flights, clientVars>>

(* begin_monitor_reconnect: the read fails, the stream ends, or a chip that *)
(* boots takes its port along.                                              *)
LosePort ==
  /\ port = "open" /\ port' = "lost"
  /\ faults < MaxFaults /\ faults' = faults + 1
  /\ log' = Append(log, Event("reconnecting", <<>>))
  /\ FreshDecoder
  /\ UNCHANGED otherVars

(* finish_monitor_reconnect; an input that was being written fails first.   *)
ReopenPort ==
  /\ port = "lost" /\ ~taken /\ port' = "open"
  /\ log' = Append(log, Event("reconnected", <<>>))
  /\ FreshDecoder
  /\ UNCHANGED <<faults, otherVars>>

(* An operation of another client closes the port, and opens it again if it *)
(* succeeds, perhaps at another baud rate; its own events are left out.     *)
OtherTakesPort ==
  /\ ~Busy /\ cmd.capture /\ port' \in {"open", "closed"}
  /\ faults < MaxFaults /\ faults' = faults + 1
  /\ UNCHANGED <<log, otherVars>>
  /\ FreshDecoder

Port == TakeJob \/ LosePort \/ ReopenPort \/ OtherTakesPort

(* Other operations push a finished one out of the history.                 *)
Forget(key) ==
  /\ ops[key].status # "running"
  /\ faults < MaxFaults /\ faults' = faults + 1
  /\ ops' = [k \in DOMAIN ops \ {key} |-> ops[k]]
  /\ forgot' = [forgot EXCEPT ![ops[key].req] = @ + 1]
  /\ UNCHANGED <<epoch, log, evicted, flashed, said, portVars, ran, device, flights, clientVars>>

Evict ==
  /\ faults < MaxFaults /\ faults' = faults + 1
  /\ evicted + 1 < Len(log)
  /\ evicted' = evicted + 1
  /\ UNCHANGED <<epoch, ops, log, flashed, said, portVars, ran, forgot, device, flights,
                 clientVars>>

(* A new daemon knows nothing, and connections to the old one break.  An    *)
(* input that was being written may have reached the board.                 *)
Restart ==
  /\ faults < MaxFaults /\ faults' = faults + 1
  /\ epoch' = epoch + 1
  /\ \/ UNCHANGED device
     \/ \E k \in DOMAIN ops : ops[k].status = "running" /\ device' = device \o ops[k].input
  /\ forgot' = [r \in DOMAIN forgot |->
       IF \E k \in DOMAIN ops : ops[k].req = r THEN forgot[r] + 1 ELSE forgot[r]]
  /\ ops' = [k \in {} |-> Idle] /\ log' = <<>> /\ evicted' = 0
  /\ flashed' = 0
  /\ port' = "closed" /\ taken' = FALSE /\ unfinished' = <<>> /\ fresh' = 0
  /\ flights' = {}
  /\ asked' = IF asked.state = "asked" THEN [Asking EXCEPT !.state = "error"] ELSE asked
  /\ UNCHANGED <<said, ran, cmd, run, pc, verdict, call, start, cursor, through, printed,
                 rawlog, view, inputVars, file>>

(* events_after: what follows the cursor, if the daemon still has all of it. *)
Served(c) == c.epoch = epoch /\ c.after >= evicted /\ c.after <= Len(log)
After(c) == SubSeq(log, c.after + 1, Len(log))
Now == [epoch |-> epoch, after |-> Len(log)]

(* The long poll is answered; an empty answer would only be asked again.    *)
AnswerEvents ==
  /\ asked.state = "asked"
  /\ asked' = IF Served(cursor) THEN [state |-> "answered", batch |-> After(cursor)]
              ELSE [Asking EXCEPT !.state = "error"]
  /\ asked'.batch # <<>> \/ asked'.state = "error"
  /\ UNCHANGED <<daemonVars, flights, cmd, run, pc, verdict, call, start, cursor, through,
                 printed, rawlog, view, inputVars, file>>

-----------------------------------------------------------------------------
(* Posting: post_with_key, post_flash and MonitorHttp::write. *)

Post(req, input) ==
  /\ call' = [req |-> req, try |-> 1, input |-> input, status |-> "sent", start |-> Nowhere]
  /\ flights' = flights \cup {Flight(call')}

(* read-flash looks for the output file first, then every command submits.  *)
Submit ==
  /\ pc = "submit"
  /\ IF cmd.kind = "read" /\ file.owner # "nobody"
       THEN End("failed") /\ UNCHANGED <<call, flights>>
       ELSE pc' = "posting" /\ Post(0, <<>>) /\ UNCHANGED verdict
  /\ UNCHANGED <<daemonVars, cmd, run, start, shownVars, inputVars, file>>

(* A command that has ended leaves its post to the network.                 *)
InFlight == pc \in {"posting", "capture"} /\ call.status = "sent"

(* The connection failed or timed out; the request may be handled yet.      *)
(* Once more, with the same key and body.                                   *)
Resend ==
  /\ InFlight /\ call.try = 1
  /\ call' = [call EXCEPT !.try = 2]
  /\ flights' = flights \cup {Flight(call')}
  /\ UNCHANGED <<daemonVars, cmd, run, pc, verdict, start, shownVars, inputVars, file>>

(* The second attempt failed, or an answer broke off inside its body.       *)
GiveUp ==
  /\ InFlight
  /\ call.try = 2 \/ Flight(call) \notin flights
  /\ call' = Idle
  /\ End("failed")
  /\ UNCHANGED <<daemonVars, flights, cmd, run, start, shownVars, inputVars, file>>

Known == call.status \in {"running", "succeeded", "failed", "refused"}

(* The daemon answered the command's post: follow the flash or wait.        *)
Submitted ==
  /\ pc = "posting" /\ Known
  /\ IF call.status = "refused"
       THEN /\ End("refused") /\ call' = Idle
            /\ UNCHANGED <<start, cursor, asked>>
       ELSE /\ pc' = IF cmd.kind = "flash" THEN "flashing" ELSE "polling"
            /\ start' = call.start
            /\ cursor' = IF cmd.kind = "flash" THEN call.start ELSE cursor
            /\ asked' = IF cmd.kind = "flash" THEN Asking ELSE asked
            /\ UNCHANGED <<verdict, call>>
  /\ UNCHANGED <<daemonVars, flights, cmd, run, through, printed, rawlog, view, inputVars, file>>

(* GET /v1/operations/{id}: an operation forgotten or of an earlier daemon  *)
(* is not found; an operation admitted later has another id.                *)
Found(key) == key \in DOMAIN ops /\ ops[key].start = call.start

Poll ==
  /\ pc \in {"polling", "flashing", "capture"} /\ call.status = "running"
  /\ LET key == RequestKey(call.req, call.try) IN
     \/ /\ Found(key)
        /\ call' = [call EXCEPT !.status = ops[key].status]
        /\ UNCHANGED <<pc, verdict>>
     \/ ~Found(key) /\ End("failed") /\ UNCHANGED call
  /\ UNCHANGED <<daemonVars, flights, cmd, run, start, shownVars, inputVars, file>>

\* Mutant: a piece of input is waited for without a deadline.
GivesUpCommandOnly ==
  /\ \/ pc = "flashing"
     \/ pc = "download" /\ file.owner # "client"
     \/ pc = "polling" /\ call.status = "running"
  /\ End("failed")
  /\ UNCHANGED <<daemonVars, flights, cmd, run, call, start, shownVars, inputVars, file>>

(* A deadline (600 s, 60 s for a piece of input), a failed GET, or Ctrl-C.  *)
GivesUpWaiting ==
  /\ \/ pc = "flashing"
     \/ pc = "download" /\ file.owner # "client"
     \/ pc \in {"polling", "capture"} /\ call.status = "running"
  /\ End("failed")
  /\ UNCHANGED <<daemonVars, flights, cmd, run, call, start, shownVars, inputVars, file>>

(* What follows an operation that succeeded.                                *)
AfterOperation == IF cmd.capture THEN "capture" ELSE IF cmd.kind = "read" THEN "download" ELSE "done"

Continue ==
  /\ pc' = AfterOperation
  /\ verdict' = IF AfterOperation = "done" THEN "finished" ELSE verdict
  /\ call' = Idle
  /\ cursor' = IF cmd.capture THEN start ELSE cursor
  /\ asked' = IF cmd.capture THEN Asking ELSE NotAsked
  /\ reading' = (cmd.capture /\ cmd.interactive)

(* wait_for_operation is over.                                              *)
Waited ==
  /\ pc = "polling" /\ call.status \in {"succeeded", "failed"}
  /\ IF call.status = "failed"
       THEN End("operation failed") /\ UNCHANGED <<call, cursor, asked, reading>>
       ELSE Continue
  /\ UNCHANGED <<daemonVars, flights, cmd, run, start, through, printed, rawlog, view, typed,
                 channel, pending, exiting, sent, file>>

-----------------------------------------------------------------------------
(* Following a flash: FlashProgressWriter and wait_for_flash_operation. *)

(* One event on the terminal, or on a pipe, where only new tenths and the   *)
(* end are worth a line.                                                    *)
Show(v, event) ==
  LET step == event.data
      reached == <<step.offset, step.percent>>
      before == IF v.last = NoPercent THEN 0 ELSE v.last[2]
  IN CASE event.kind # "progress" -> v
       [] event.kind = "progress" /\ step.action = "segment_started" ->
            [line |-> cmd.tty, last |-> <<step.offset, 0>>, shown |-> Append(v.shown, step)]
       [] event.kind = "progress" /\ step.action = "segment_progress" ->
            IF v.last = reached THEN v
            ELSE [line |-> v.line \/ cmd.tty, last |-> reached,
                  shown |-> IF cmd.tty \/ step.percent = 100
                                 \/ step.percent \div 10 > before \div 10
                              THEN Append(v.shown, step) ELSE v.shown]
       [] event.kind = "progress" /\ step.action = "verifying" ->
            [v EXCEPT !.line = FALSE, !.shown = Append(@, step)]
       [] event.kind = "progress" /\ step.action = "segment_finished" ->
            [line |-> FALSE, last |-> NoPercent, shown |-> Append(v.shown, step)]

Showing(v, batch) ==
  LET shown[n \in 0 .. Len(batch)] == IF n = 0 THEN v ELSE Show(shown[n - 1], batch[n])
  IN shown[Len(batch)]

Numbers(c, batch) == [i \in DOMAIN batch |-> c.after + i]
Behind(c, batch) == [c EXCEPT !.after = @ + Len(batch)]

(* write_flash_events.                                                      *)
WriteFlashEvents(batch) ==
  /\ printed' = IF cmd.json THEN printed \o Numbers(cursor, batch) ELSE printed
  /\ view' = IF cmd.json THEN view ELSE Showing(view, batch)

TakeFlashEvents ==
  /\ pc = "flashing" /\ call.status = "running"
  /\ \/ /\ asked.state = "answered"
        /\ WriteFlashEvents(asked.batch)
        /\ cursor' = Behind(cursor, asked.batch)
        /\ asked' = Asking
        /\ UNCHANGED <<pc, verdict>>
     \/ /\ asked.state = "error"
        /\ End("failed")
        /\ UNCHANGED <<printed, view, cursor, asked>>
  /\ UNCHANGED <<daemonVars, flights, cmd, run, call, start, through, rawlog, inputVars, file>>

(* The operation has ended: the events it ended with are there, and what    *)
(* the abandoned request was answered with comes again.                     *)
Drain ==
  /\ pc = "flashing" /\ call.status \in {"succeeded", "failed"}
  /\ IF ~Served(cursor)
       THEN /\ End("failed")
            /\ UNCHANGED <<printed, view, through, call, cursor, asked, reading>>
       ELSE LET batch == After(cursor) IN
            /\ printed' = IF cmd.json THEN printed \o Numbers(cursor, batch) ELSE printed
            /\ view' = IF cmd.json THEN view
                       ELSE [Showing(view, batch) EXCEPT !.line = FALSE]
            /\ through' = Behind(cursor, batch)
            /\ IF call.status = "failed"
                 THEN End("operation failed") /\ UNCHANGED <<call, cursor, asked, reading>>
                 ELSE Continue
  /\ UNCHANGED <<daemonVars, flights, cmd, run, start, rawlog, typed, channel, pending, exiting,
                 sent, file>>

-----------------------------------------------------------------------------
(* download_artifact. *)

(* The artifact is answered for, and the output file must be a new one.     *)
OpenOutput ==
  /\ pc = "download" /\ file.owner # "client"
  /\ IF RequestKey(0, 1) \in DOMAIN ops /\ ops[RequestKey(0, 1)].start = start /\ file = Nobody
       THEN file' = [owner |-> "client", chunks |-> 0] /\ UNCHANGED <<pc, verdict>>
       ELSE End("failed") /\ UNCHANGED file
  /\ UNCHANGED <<daemonVars, flights, cmd, run, call, start, shownVars, inputVars>>

Transfer ==
  /\ pc = "download" /\ file.owner = "client" /\ file.chunks < Chunks
  /\ file' = [file EXCEPT !.chunks = @ + 1]
  /\ UNCHANGED <<daemonVars, flights, cmd, run, pc, verdict, call, start, shownVars, inputVars>>

(* The stream ends: size and digest tell a whole artifact from a part.      *)
StopTransfer(end) ==
  /\ pc = "download" /\ file.owner = "client"
  /\ \/ end = "eof" /\ file.chunks = Chunks /\ End("saved") /\ UNCHANGED file
     \/ /\ end = "error" \/ file.chunks # Chunks
        /\ End("failed") /\ file' = Nobody
  /\ UNCHANGED <<daemonVars, flights, cmd, run, call, start, shownVars, inputVars>>

(* Another program creates a file of that name.                             *)
SomebodyWrites ==
  /\ cmd.kind = "read" /\ file = Nobody
  /\ file' = Somebody
  /\ UNCHANGED <<daemonVars, flights, cmd, run, pc, verdict, call, start, shownVars, inputVars>>

-----------------------------------------------------------------------------
(* run_capture: the input thread and capture_loop. *)

(* forward_monitor_input: a read of n bytes; the exit byte of a terminal    *)
(* ends the thread, what came before it is sent first.                      *)
ReadInput(n) ==
  LET bytes == SubSeq(cmd.input, typed + 1, typed + n)
      exits == cmd.terminal /\ Contains(bytes, Exit)
      kept == IF exits THEN SelectInSeq(bytes, LAMBDA b : b = Exit) - 1 ELSE n
  IN /\ pc = "capture" /\ reading
     /\ typed + n <= Len(cmd.input) /\ Len(channel) < ChannelCap
     /\ channel' = Append(channel, IF kept = 0 THEN <<Exit>> ELSE SubSeq(bytes, 1, kept))
     /\ typed' = typed + kept
     /\ reading' = (kept # 0)
     /\ UNCHANGED <<daemonVars, flights, cmd, run, pc, verdict, call, start, shownVars, pending,
                    exiting, sent, file>>

\* Mutant: the next piece does not wait for the one before.
CanWriteAtOnce == pending # <<>>

(* Before every wait of the loop: the next piece of input is taken up, and  *)
(* an exit that was asked for happens once nothing is left to write.        *)
CanWrite == call.status = "idle" /\ pending # <<>>
CanLeave == exiting /\ call.status = "idle" /\ pending = <<>>
Waiting == pc = "capture" /\ ~CanWrite /\ ~CanLeave

StartWrite ==
  LET size == Min({Len(pending), MaxWrite}) IN
  /\ pc = "capture" /\ CanWrite
  /\ pending' = SubSeq(pending, size + 1, Len(pending))
  /\ sent' = sent + 1
  /\ Post(sent', SubSeq(pending, 1, size))
  /\ UNCHANGED <<daemonVars, cmd, run, pc, verdict, start, shownVars, typed, reading, channel,
                 exiting, file>>

\* Mutant: a write in progress does not hold up the exit.
LeaveAtOnce ==
  /\ pc = "capture" /\ exiting /\ pending = <<>>
  /\ End("exit")
  /\ UNCHANGED <<daemonVars, flights, cmd, run, call, start, shownVars, inputVars, file>>

Leave ==
  /\ pc = "capture" /\ CanLeave
  /\ End("exit")
  /\ UNCHANGED <<daemonVars, flights, cmd, run, call, start, shownVars, inputVars, file>>

Elapsed ==
  /\ Waiting /\ cmd.timed
  /\ End(IF cmd.wait THEN "failed" ELSE "elapsed")
  /\ UNCHANGED <<daemonVars, flights, cmd, run, call, start, shownVars, inputVars, file>>

(* Ctrl-C, or standard input that cannot be read.                           *)
Interrupt ==
  /\ Waiting
  /\ End("failed")
  /\ UNCHANGED <<daemonVars, flights, cmd, run, call, start, shownVars, inputVars, file>>

ReceiveInput ==
  /\ Waiting /\ channel # <<>>
  /\ ~exiting /\ Len(pending) < MaxWrite
  /\ channel' = Tail(channel)
  /\ IF cmd.terminal /\ Head(channel) = <<Exit>>
       THEN exiting' = TRUE /\ UNCHANGED pending
       ELSE pending' = pending \o Head(channel) /\ UNCHANGED exiting
  /\ UNCHANGED <<daemonVars, flights, cmd, run, pc, verdict, call, start, shownVars, typed,
                 reading, sent, file>>

(* The write future is over; anything but success ends the command.         *)
Wrote ==
  /\ Waiting /\ call.status \in {"succeeded", "failed", "refused"}
  /\ IF call.status = "succeeded" THEN UNCHANGED <<pc, verdict>> ELSE End("failed")
  /\ call' = Idle
  /\ UNCHANGED <<daemonVars, flights, cmd, run, start, shownVars, inputVars, file>>

Matches(event) == event.kind = "log" /\ event.data.text = Pattern
RawOf(event) == IF event.kind = "raw" THEN event.data ELSE <<>>
RawBytes(events) == FlattenSeq([i \in DOMAIN events |-> RawOf(events[i])])

\* Mutant: the capture prints what the flash has printed.
UnprintedForgetful(batch) == Numbers(cursor, batch)

(* json_printed_through: what the flash has printed is not printed again.   *)
Unprinted(batch) ==
  FlattenSeq([i \in DOMAIN batch |->
    IF through.epoch # cursor.epoch \/ cursor.after + i > through.after
      THEN <<cursor.after + i>> ELSE <<>>])

TakeEvents ==
  /\ Waiting
  /\ \/ /\ asked.state = "answered"
        /\ LET batch == asked.batch
               matched == cmd.wait /\ \E i \in DOMAIN batch : Matches(batch[i])
           IN /\ rawlog' = rawlog \o RawBytes(batch)
              /\ printed' = IF cmd.json THEN printed \o Unprinted(batch) ELSE printed
              /\ cursor' = Behind(cursor, batch)
              /\ IF matched THEN End("matched") /\ asked' = NotAsked
                            ELSE asked' = Asking /\ UNCHANGED <<pc, verdict>>
     \/ asked.state = "error" /\ End("failed") /\ UNCHANGED <<rawlog, printed, cursor, asked>>
  /\ UNCHANGED <<daemonVars, flights, cmd, run, call, start, through, view, inputVars, file>>

-----------------------------------------------------------------------------
(* The user repeats a failed command with the key it was told.              *)
Repeat ==
  /\ pc = "failed" /\ sent = 0 /\ typed = 0
  /\ faults < MaxFaults /\ faults' = faults + 1
  /\ run' = run + 1 /\ pc' = "submit" /\ verdict' = "none" /\ call' = Idle
  /\ start' = Nowhere /\ cursor' = Nowhere /\ through' = Nowhere /\ asked' = NotAsked
  /\ printed' = <<>> /\ rawlog' = <<>>
  /\ view' = [line |-> FALSE, last |-> NoPercent, shown |-> <<>>]
  /\ reading' = FALSE /\ channel' = <<>> /\ pending' = <<>> /\ exiting' = FALSE
  /\ UNCHANGED <<epoch, ops, log, evicted, flashed, said, portVars, ran, forgot, device, flights,
                 cmd, typed, sent, file>>

Daemon ==
  \/ \E f \in flights : Handle(f)
  \/ Report
  \/ \E k \in DOMAIN ops, ok \in BOOLEAN : Finish(k, ok)
  \/ \E n \in OutputReads : Publish(n)
  \/ \E k \in DOMAIN ops : Forget(k)
  \/ Port \/ Evict \/ Restart \/ AnswerEvents

(* Steps the client takes by itself or when a deadline of its own passes.   *)
Proceed ==
  \/ Submit \/ Resend \/ GiveUp \/ Submitted \/ Waited \/ Drain \/ GivesUpWaiting
  \/ OpenOutput \/ (\E end \in {"eof", "error"} : StopTransfer(end))
  \/ StartWrite \/ Leave \/ Elapsed \/ Wrote

Next ==
  \/ Daemon \/ Proceed
  \/ Poll \/ TakeFlashEvents \/ Transfer \/ TakeEvents \/ Interrupt
  \/ (\E n \in 1 .. ReadSize : ReadInput(n)) \/ ReceiveInput
  \/ SomebodyWrites \/ Repeat

Spec == Init /\ [][Next]_vars

(* Deadlines pass and the runtime polls its futures; the daemon need not    *)
(* answer, and nobody needs to type.                                        *)
FairSpec == Spec /\ WF_vars(Proceed) /\ WF_vars(ReceiveInput)

-----------------------------------------------------------------------------
(* Properties. *)

(* post_with_key, post_flash: a request is executed once, however often it  *)
(* is posted, and once more only after the daemon has forgotten it, by a    *)
(* restart or by retention.                                                 *)
RunsOnce == \A r \in DOMAIN ran : ran[r] <= 1 + forgot[r]

Since(c) == SubSeq(log, start.after + 1, c.after)
Further(c, d) == IF c.after >= d.after THEN c ELSE d

(* With --json every event since the operation began is printed, once and   *)
(* in order, through the flash and the capture that starts over behind it;  *)
(* the raw log is the board's output since the operation, without a gap.    *)
OnceInOrder ==
  /\ printed = [i \in DOMAIN printed |-> start.after + i]
  /\ cmd.json /\ pc \in {"flashing", "capture"} =>
       Len(printed) = Further(cursor, through).after - start.after
  /\ pc = "capture" /\ start.epoch = epoch => rawlog = RawBytes(Since(cursor))

StepShown(action, offset, percent) ==
  \E i \in DOMAIN view.shown :
    /\ view.shown[i].action = action /\ view.shown[i].offset = offset
    /\ view.shown[i].percent = percent

(* When a flash is over for the client, its last event has been taken, and  *)
(* on a terminal or a pipe every segment was seen complete and verified if  *)
(* it succeeded.                                                            *)
FinalShown ==
  (/\ cmd.kind = "flash" /\ start.epoch = epoch
   /\ pc = "capture" \/ verdict \in {"finished", "operation failed"}) =>
       /\ \E i \in DOMAIN Since(through) : Since(through)[i].kind = "operation_finished"
       /\ ~view.line
       /\ (~cmd.json /\ verdict # "operation failed") =>
            \A i \in DOMAIN Script : Script[i].action = "segment_started" =>
              /\ StepShown("segment_progress", Script[i].offset, 100)
              /\ StepShown("segment_finished", Script[i].offset, 100)

(* wait_for_flash_operation, write_flash_events, capture_loop: two loops    *)
(* print one history of events, with what the requests they gave up were    *)
(* answered; none is missed or shown twice, and as the comment at           *)
(* main.rs:1742 says, "the last 100%/verify update is visible".             *)
EventsShown == OnceInOrder /\ FinalShown

BeforeExit ==
  IF cmd.terminal /\ Contains(cmd.input, Exit)
    THEN SubSeq(cmd.input, 1, SelectInSeq(cmd.input, LAMBDA b : b = Exit) - 1) ELSE cmd.input
NothingForgotten == \A r \in DOMAIN forgot : forgot[r] = 0

(* forward_monitor_input, capture_loop, MonitorHttp::write: what is typed   *)
(* reaches the board in order and once, in whatever pieces and attempts it  *)
(* is posted, and nothing behind the exit byte does, as long as the daemon  *)
(* forgets none of it.                                                      *)
InputInOrder == NothingForgotten => IsPrefix(device, BeforeExit)

LineOf(event) == IF event.kind = "log" THEN <<event.data>> ELSE <<>>
LogLines(events) == FlattenSeq([i \in DOMAIN events |-> LineOf(events[i])])
SinceFresh == SubSeq(log, fresh + 1, Len(log))

(* LineDecoder, capture_loop: from one making of the decoder to the next,   *)
(* the log lines are the lines of what the board said, however it was cut   *)
(* into reads, and no line mixes what two openings of the port brought (of  *)
(* a line that a closed port breaks off, the raw bytes alone are out); and  *)
(* a wait does not go on past a line that matches.                          *)
WaitSeesEveryLine ==
  /\ AreLinesOf(LogLines(SinceFresh), unfinished, RawBytes(SinceFresh))
  /\ pc = "capture" /\ cmd.wait /\ start.epoch = epoch =>
       ~\E i \in DOMAIN Since(cursor) : Matches(Since(cursor)[i])

(* run, main: success is reported only for what has happened: the command's *)
(* own operation succeeded, the artifact is whole, all that was typed is on *)
(* the board, the line has come; and a failure leaves no part of a file.    *)
SuccessMeansDone ==
  /\ pc = "done" /\ start.epoch = epoch =>
       \E n \in start.after + 1 .. Len(log) :
         log[n].kind = "operation_finished" /\ log[n].data = <<0, "succeeded">>
  /\ verdict = "saved" => file = [owner |-> "client", chunks |-> Chunks]
  /\ pc = "failed" => file.owner # "client"
  /\ verdict = "exit" /\ NothingForgotten => device = BeforeExit
  /\ verdict = "matched" /\ start.epoch = epoch =>
       \E i \in DOMAIN Since(cursor) : Matches(Since(cursor)[i])

(* A command ends whatever the daemon does, unless it is a capture that     *)
(* nobody limits; and a capture ends when its user asks it to.              *)
CommandEnds ==
  []<>(pc \in {"done", "failed"} \/ (pc = "capture" /\ ~cmd.timed /\ ~exiting))

=============================================================================
