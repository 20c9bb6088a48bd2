----------------------------- MODULE AppSession -----------------------------
(***************************************************************************)
(* An application session between the daemon and the firmware component:   *)
(* the host's session and scheduler (src/src/application.rs, `Session`;    *)
(* src/src/duplex.rs), the framing of both sides (src/src/mux.rs and       *)
(* mux_codec.c) and the four firmware tasks (idf_remote.c): `rx_task`,     *)
(* `command_task`, `tx_task` and the application that prints and           *)
(* publishes.  A firmware step runs from one access of shared state to the *)
(* next; the tasks run on two cores in any order.                          *)
(*                                                                         *)
(* The wire carries whole frames, frames cut short, and unframed text.     *)
(***************************************************************************)
EXTENDS Naturals, SequencesExt

CONSTANTS
  ControlCap,   \* frames control_queue holds
  ConsoleCap,   \* chunks console_queue holds
  RequestCap,   \* frames request_queue holds
  InputCap,     \* what input_queue holds, in writes of the host
  MaxRequest,   \* largest request ID of a session
  MaxRead,      \* wire items one read of the host returns
  Bounds        \* how often each event happens, for model checking only

(* A fault is a reset of the chip or a loss of the port.                    *)
Events == {"session", "output", "input", "cut", "fault"}

ASSUME SessionAssumption ==
  /\ {ControlCap, ConsoleCap, RequestCap, InputCap, MaxRequest, MaxRead} \subseteq Nat \ {0}
  /\ Bounds \in [Events -> Nat]

VARIABLES
  host,       \* the daemon's Session and the scheduler's Pending
  answers,    \* how each request the host sent ended
  toDevice, toHost,  \* what is on the wire
  unframed,   \* the last read brought text to a valid session
  session,    \* the firmware's session, 0 before a hello
  control, console, requests, input,  \* its queues
  notified,   \* tx_task's notification
  dropped,    \* a drop counter is not zero
  rx, tx, cmd, app,  \* where each task is and what it holds
  rxDec,      \* rx_task's mux_decoder_t
  ran,        \* the requests the handler was called with, in order
  used        \* events so far

hostVars == <<host, answers, unframed>>
queues == <<control, console, requests, input>>
tasks == <<rx, tx, cmd, app>>
device == <<session, queues, notified, dropped, tasks, rxDec, ran>>
vars == <<hostVars, toDevice, toHost, device, used>>

Kinds == {"hello", "ack", "console", "request", "response", "event", "error"}

NoRun == <<0, 0>>

(* A frame; of is the request whose handler call produced its payload.      *)
Frame(kind, s, id, of) == [kind |-> kind, session |-> s, request |-> id, of |-> of]
NoFrame == Frame("console", 0, 0, NoRun)

Whole(f) == [is |-> "frame", f |-> f]
Text == [is |-> "text", f |-> NoFrame]
(* A frame cut inside its body, and one that lacks only its last delimiter;  *)
(* part of a text is a text.                                                *)
Cuts(item) == IF item.is = "text" THEN {Text} ELSE {[item EXCEPT !.is = is] : is \in {"cut", "open"}}

(* A decoder between frames, or inside one that is unfinished.             *)
Between == [mid |-> FALSE, f |-> NoFrame]
Inside(f) == [mid |-> TRUE, f |-> f]

NoSession == [session |-> 0, valid |-> FALSE, next |-> 1, dec |-> Between]
NoPending == [kind |-> "none", request |-> 0]
Offline == [session |-> NoSession, pending |-> NoPending]

Task(pc, f) == [pc |-> pc, f |-> f]
Resting == Task("idle", NoFrame)

FreshDevice ==
  /\ session = 0
  /\ control = <<>> /\ console = <<>> /\ requests = <<>> /\ input = <<>>
  /\ notified = FALSE /\ dropped = FALSE
  /\ rx = [pc |-> "idle", todo |-> <<>>]
  /\ tx = Resting /\ cmd = Resting /\ app = Resting
  /\ rxDec = Between

Init ==
  /\ host = Offline
  /\ answers = [r \in {} |-> [how |-> "", of |-> NoRun]]
  /\ toDevice = <<>> /\ toHost = <<>> /\ unframed = FALSE
  /\ FreshDevice
  /\ ran = <<>>
  /\ used = [e \in Events |-> 0]

Spend(event) ==
  /\ used[event] < Bounds[event]
  /\ used' = [used EXCEPT ![event] = @ + 1]

-----------------------------------------------------------------------------
(* Framing.  Both decoders stay inside a frame until the next delimiter: an *)
(* unfinished body swallows text, and the delimiter that opens the next     *)
(* frame closes the unfinished one, whole or corrupt.                       *)

Broken(d) == d.mid /\ d.f = NoFrame

Closed(d) == IF ~d.mid THEN <<>> ELSE <<[is |-> IF Broken(d) THEN "corrupt" ELSE "frame", f |-> d.f]>>

(* What one item of the wire decodes to in decoder state d, and the state   *)
(* it leaves.                                                               *)
Decode(d, item) ==
  CASE item.is = "frame" -> [d |-> Between, out |-> Closed(d) \o <<item>>]
    [] item.is = "cut" -> [d |-> Inside(NoFrame), out |-> Closed(d)]
    [] item.is = "open" -> [d |-> Inside(item.f), out |-> Closed(d)]
    [] OTHER -> IF d.mid THEN [d |-> Inside(NoFrame), out |-> <<>>]
                                    ELSE [d |-> d, out |-> <<item>>]

DecodeAll(d, items) ==
  LET upto[n \in 0 .. Len(items)] ==
        IF n = 0 THEN [d |-> d, out |-> <<>>]
        ELSE LET next == Decode(upto[n - 1].d, items[n])
             IN [d |-> next.d, out |-> upto[n - 1].out \o next.out]
  IN upto[Len(items)]

-----------------------------------------------------------------------------
(* The host. *)

Pending == host.pending # NoPending

(* The pending operation ends; a hello is nobody's answer.                  *)
Answered(how, of) ==
  answers' = IF host.pending.kind = "response"
             THEN [answers EXCEPT ![<<host.session.session, host.pending.request>>] =
                     [how |-> how, of |-> of]]
             ELSE answers

(* start_application without a command: a new session, whatever was before.  *)
Connect ==
  /\ ~Pending
  /\ Spend("session")
  /\ host' = [session |-> [NoSession EXCEPT !.session = used'["session"]],
              pending |-> [kind |-> "ack", request |-> 0]]
  /\ toDevice' = Append(toDevice, Whole(Frame("hello", used'["session"], 0, NoRun)))
  /\ UNCHANGED <<answers, toHost, unframed, device>>

(* checked_add: the last ID is not given out twice.                         *)
HasId(s) == s.next <= MaxRequest

\* Mutant: the counter stays where it is.
NextIdStuck(s) == s.next

NextId(s) == s.next + 1

(* start_application with a command, prepare_request.                       *)
Request ==
  LET s == host.session
      made == <<s.session, s.next>>
  IN
  /\ ~Pending /\ s.valid /\ HasId(s)
  /\ host' = [session |-> [s EXCEPT !.next = NextId(s)],
              pending |-> [kind |-> "response", request |-> s.next]]
  /\ answers' = [r \in {made} \cup DOMAIN answers |->
                   IF r = made THEN [how |-> "pending", of |-> NoRun] ELSE answers[r]]
  /\ toDevice' = Append(toDevice, Whole(Frame("request", s.session, s.next, NoRun)))
  /\ UNCHANGED <<toHost, unframed, device, used>>

(* start_input: framed in a session, as it is without one.                  *)
ConsoleInput ==
  LET s == host.session IN
  /\ s = NoSession \/ s.valid
  /\ Spend("input")
  /\ toDevice' = Append(toDevice, IF s.valid THEN Whole(Frame("console", s.session, 0, NoRun)) ELSE Text)
  /\ UNCHANGED <<hostVars, toHost, device>>

(* expire: a hello that is not answered in time takes its session with it.  *)
Expire ==
  /\ Pending
  /\ Answered("unknown", NoRun)
  /\ host' = [host EXCEPT !.pending = NoPending,
                          !.session = IF host.pending.kind = "ack" THEN NoSession ELSE @]
  /\ UNCHANGED <<unframed, toDevice, toHost, device, used>>

\* Mutant: an answer to any request of the session.
MatchesAnyRequest(item) ==
  /\ item.is = "frame"
  /\ item.f.session = host.session.session
  /\ item.f.kind \in {host.pending.kind, "error"}

(* An answer of this session to the pending request.                        *)
Matches(item) ==
  /\ item.is = "frame"
  /\ item.f.session = host.session.session
  /\ item.f.request = host.pending.request
  /\ item.f.kind \in {host.pending.kind, "error"}

HasText(items) == \E i \in DOMAIN items : items[i].is = "text"

(* A read while there is no session: everything is console output.          *)
ReadPlain(items) ==
  /\ host.session = NoSession
  /\ unframed' = FALSE
  /\ UNCHANGED <<host, answers>>

(* Unframed output in a valid session ends it, and the reply that came with *)
(* it is lost.                                                              *)
ReadEnds(items) ==
  /\ host.session.valid /\ HasText(DecodeAll(host.session.dec, items).out)
  /\ Answered("unknown", NoRun)
  /\ host' = Offline

(* A reply completes the pending operation; anything else is passed on.     *)
ReadReply(items) ==
  LET s == host.session
      read == DecodeAll(s.dec, items)
      reply == SelectLastInSeq(read.out, Matches)
      decoded == [s EXCEPT !.dec = read.d]
  IN
  /\ s # NoSession
  /\ ~(s.valid /\ HasText(read.out))
  /\ IF Pending /\ reply # 0
     THEN LET f == read.out[reply].f IN
          /\ Answered(IF f.kind = "error" THEN "error" ELSE "ok", f.of)
          /\ host' = [session |-> IF f.kind = "error" /\ ~s.valid THEN NoSession
                                  ELSE [decoded EXCEPT !.valid = TRUE],
                      pending |-> NoPending]
     ELSE /\ host' = [host EXCEPT !.session = decoded]
          /\ UNCHANGED answers

(* feed, with what one serial read returned.                                *)
Read ==
  \E n \in 1 .. MaxRead :
    LET items == SubSeq(toHost, 1, n) IN
    /\ n <= Len(toHost)
    /\ toHost' = SubSeq(toHost, n + 1, Len(toHost))
    /\ \/ ReadPlain(items)
       \/ /\ ReadEnds(items) \/ ReadReply(items)
          /\ unframed' = (host.session.valid /\ HasText(items))
    /\ UNCHANGED <<toDevice, device, used>>

(* abort: the port is lost, or a write failed or was overdue.  What was     *)
(* written may have reached the device up to any place, and what the device *)
(* sent may be lost up to any place.                                        *)
PortLost ==
  /\ Spend("fault")
  /\ Answered("unknown", NoRun)
  /\ host' = Offline
  /\ \E n \in 0 .. Len(toDevice) :
       \/ toDevice' = SubSeq(toDevice, 1, n)
       \/ /\ n < Len(toDevice)
          /\ \E item \in Cuts(toDevice[n + 1]) : toDevice' = SubSeq(toDevice, 1, n) \o <<item>>
  /\ \E n \in 0 .. Len(toHost) : toHost' = SubSeq(toHost, n + 1, Len(toHost))
  /\ UNCHANGED <<unframed, device>>

HostStep == Connect \/ Request \/ ConsoleInput \/ Expire \/ Read \/ PortLost

-----------------------------------------------------------------------------
(* The firmware. *)

(* xQueueSend without waiting: what does not fit is counted and lost.       *)
Fits(queue, cap) == Len(queue) < cap
Sent(queue, cap, item) == IF Fits(queue, cap) THEN Append(queue, item) ELSE queue

(* enqueue, up to the notification; after says where the sender goes then.  *)
Enqueue(f) ==
  /\ control' = Sent(control, ControlCap, f)
  /\ dropped' = (dropped \/ ~Fits(control, ControlCap))

AfterEnqueue == IF Fits(control, ControlCap) THEN "notify" ELSE "idle"

-----------------------------------------------------------------------------
(* rx_task. *)

Todo == Head(rx.todo)
Handled == [pc |-> "idle", todo |-> Tail(rx.todo)]
AtRx(pc) == rx.pc = pc /\ rx.todo # <<>>

RxRead ==
  /\ rx.pc = "idle" /\ rx.todo = <<>> /\ toDevice # <<>>
  /\ LET read == Decode(rxDec, Head(toDevice)) IN
     /\ rxDec' = read.d
     /\ rx' = [pc |-> "idle", todo |-> read.out]
  /\ toDevice' = Tail(toDevice)
  /\ UNCHANGED <<hostVars, toHost, session, queues, notified, dropped, tx, cmd, app, ran, used>>

(* Text is console input while there is no session.                         *)
RxRaw ==
  /\ AtRx("idle") /\ Todo.is = "text"
  /\ input' = IF session = 0 THEN Sent(input, InputCap, session) ELSE input
  /\ rx' = Handled
  /\ UNCHANGED <<control, console, requests, session, notified, dropped>>

Hello == Todo.is = "frame" /\ Todo.f.kind = "hello"

RxHello ==
  /\ AtRx("idle") /\ Hello
  /\ session' = Todo.f.session
  /\ rx' = [rx EXCEPT !.pc = "reset"]
  /\ UNCHANGED <<queues, notified, dropped>>

\* Mutant: earlier input stays.
RxResetNothing ==
  /\ AtRx("reset")
  /\ rx' = [rx EXCEPT !.pc = "ack"]
  /\ UNCHANGED <<queues, session, notified, dropped>>

RxReset ==
  /\ AtRx("reset")
  /\ input' = <<>>
  /\ rx' = [rx EXCEPT !.pc = "ack"]
  /\ UNCHANGED <<control, console, requests, session, notified, dropped>>

RxAck ==
  /\ AtRx("ack")
  /\ Enqueue([Todo.f EXCEPT !.kind = "ack"])
  /\ rx' = [Handled EXCEPT !.pc = AfterEnqueue]
  /\ UNCHANGED <<console, requests, input, session, notified>>

RxNotify ==
  /\ rx.pc = "notify"
  /\ notified' = TRUE
  /\ rx' = [rx EXCEPT !.pc = "idle"]
  /\ UNCHANGED <<queues, session, dropped>>

(* Only frames of the current session count.                                *)
Current(kind) == Todo.is = "frame" /\ Todo.f.kind = kind /\ Todo.f.session = session

RxConsole ==
  /\ AtRx("idle") /\ Current("console")
  /\ input' = Sent(input, InputCap, session)
  /\ dropped' = (dropped \/ ~Fits(input, InputCap))
  /\ rx' = Handled
  /\ UNCHANGED <<control, console, requests, session, notified>>

\* Mutant: nobody hears that the queue was full.
RxRequestSilent ==
  /\ AtRx("idle") /\ Current("request")
  /\ requests' = Sent(requests, RequestCap, Todo.f)
  /\ rx' = Handled
  /\ UNCHANGED <<control, console, input, session, notified, dropped>>

RxRequest ==
  /\ AtRx("idle") /\ Current("request")
  /\ requests' = Sent(requests, RequestCap, Todo.f)
  /\ IF Fits(requests, RequestCap)
     THEN rx' = Handled /\ UNCHANGED <<control, dropped>>
     ELSE /\ Enqueue([Todo.f EXCEPT !.kind = "error"])
          /\ rx' = [Handled EXCEPT !.pc = AfterEnqueue]
  /\ UNCHANGED <<console, input, session, notified>>

RxIgnore ==
  /\ AtRx("idle") /\ Todo.is # "text"
  /\ ~(Hello \/ Current("console") \/ Current("request"))
  /\ rx' = Handled
  /\ UNCHANGED <<queues, session, notified, dropped>>

RxStep ==
  \/ RxRead
  \/ /\ RxRaw \/ RxHello \/ RxReset \/ RxAck \/ RxNotify \/ RxConsole \/ RxRequest \/ RxIgnore
     /\ UNCHANGED <<hostVars, toDevice, toHost, rxDec, tx, cmd, app, ran, used>>

-----------------------------------------------------------------------------
(* command_task. *)

CmdTake ==
  /\ cmd.pc = "idle" /\ requests # <<>>
  /\ cmd' = Task("taken", Head(requests))
  /\ requests' = Tail(requests)
  /\ UNCHANGED <<control, console, input, notified, dropped, ran>>

CmdCheck ==
  /\ cmd.pc = "taken"
  /\ cmd' = IF cmd.f.session = session THEN Task("call", cmd.f) ELSE Resting
  /\ UNCHANGED <<queues, notified, dropped, ran>>

(* The handler is called; its result, or the error it or an oversized       *)
(* result makes, is the reply.                                              *)
CmdCall ==
  LET run == <<cmd.f.session, cmd.f.request>> IN
  /\ cmd.pc = "call"
  /\ ran' = Append(ran, run)
  /\ \E kind \in {"response", "error"} : cmd' = Task("reply", Frame(kind, run[1], run[2], run))
  /\ UNCHANGED <<queues, notified, dropped>>

CmdReply ==
  /\ cmd.pc = "reply"
  /\ Enqueue(cmd.f)
  /\ cmd' = Task(AfterEnqueue, NoFrame)
  /\ UNCHANGED <<console, requests, input, notified, ran>>

CmdNotify ==
  /\ cmd.pc = "notify"
  /\ notified' = TRUE
  /\ cmd' = Resting
  /\ UNCHANGED <<queues, dropped, ran>>

CmdStep ==
  /\ CmdTake \/ CmdCheck \/ CmdCall \/ CmdReply \/ CmdNotify
  /\ UNCHANGED <<hostVars, toDevice, toHost, session, rxDec, rx, tx, app, used>>

-----------------------------------------------------------------------------
(* The application's own tasks: they print, publish and read their input.   *)

ConsoleWrite ==
  /\ app.pc = "idle"
  /\ Spend("output")
  /\ console' = Sent(console, ConsoleCap, NoFrame)
  /\ dropped' = (dropped \/ ~Fits(console, ConsoleCap))
  /\ app' = IF Fits(console, ConsoleCap) THEN Task("notify", NoFrame) ELSE Resting
  /\ UNCHANGED <<control, requests, input, notified>>

(* idf_remote_publish reads the session first and sends later.              *)
Publish ==
  /\ app.pc = "idle" /\ session # 0
  /\ Spend("output")
  /\ app' = Task("publish", Frame("event", session, 0, NoRun))
  /\ UNCHANGED <<queues, notified, dropped>>

Published ==
  /\ app.pc = "publish"
  /\ Enqueue(app.f)
  /\ app' = Task(AfterEnqueue, NoFrame)
  /\ UNCHANGED <<console, requests, input, notified, used>>

AppNotify ==
  /\ app.pc = "notify"
  /\ notified' = TRUE
  /\ app' = Resting
  /\ UNCHANGED <<queues, dropped, used>>

(* console_read. *)
ReadInput ==
  /\ input # <<>>
  /\ input' = Tail(input)
  /\ UNCHANGED <<control, console, requests, notified, dropped, app, used>>

Elsewhere == <<hostVars, toDevice, toHost, session, rxDec, rx, tx, cmd, ran>>

AppFinishes == (Published \/ AppNotify) /\ UNCHANGED Elsewhere

AppStep == AppFinishes \/ ((ConsoleWrite \/ Publish \/ ReadInput) /\ UNCHANGED Elsewhere)

-----------------------------------------------------------------------------
(* tx_task. *)

TxControl ==
  /\ tx.pc = "idle"
  /\ IF control # <<>>
     THEN tx' = Task("gate", Head(control)) /\ control' = Tail(control)
     ELSE tx' = Task("console", NoFrame) /\ UNCHANGED control
  /\ UNCHANGED <<console, toHost, notified, dropped, used>>

\* Mutant: what was notified before the second look is forgotten.
TxConsoleForgets ==
  /\ tx.pc = "console"
  /\ IF console # <<>>
     THEN tx' = Task("gate", Head(console)) /\ console' = Tail(console) /\ UNCHANGED notified
     ELSE tx' = Task("wait", NoFrame) /\ UNCHANGED console /\ notified' = FALSE
  /\ UNCHANGED <<control, toHost, dropped, used>>

TxConsole ==
  /\ tx.pc = "console"
  /\ IF console # <<>>
     THEN tx' = Task("gate", Head(console)) /\ console' = Tail(console)
     ELSE tx' = Task("wait", NoFrame) /\ UNCHANGED console
  /\ UNCHANGED <<control, toHost, notified, dropped, used>>

(* ulTaskNotifyTake. *)
TxWakes ==
  /\ tx.pc = "wait" /\ notified
  /\ notified' = FALSE
  /\ tx' = Resting
  /\ UNCHANGED <<control, console, toHost, dropped, used>>

\* Mutant: the chunk keeps the session it was queued without.
StampedNever(f) == f

(* Console output goes out in the session of the moment.                    *)
Stamped(f) == [f EXCEPT !.session = session]

(* The session is read once for a frame: console output is framed in it, or *)
(* sent as it is without one; a control frame of another session is left.   *)
TxGate ==
  /\ tx.pc = "gate"
  /\ tx' = CASE tx.f.kind = "console" -> Task("send", Stamped(tx.f))
             [] tx.f.session = session -> Task("send", tx.f)
             [] OTHER -> Resting
  /\ UNCHANGED <<control, console, toHost, notified, dropped, used>>

OnWire == IF tx.f.session = 0 THEN Text ELSE Whole(tx.f)

TxSend ==
  /\ tx.pc = "send"
  /\ toHost' = Append(toHost, OnWire)
  /\ tx' = Resting
  /\ UNCHANGED <<control, console, notified, dropped, used>>

(* The host does not read for a while: the rest is counted and left.        *)
TxGivesUp ==
  /\ tx.pc = "send"
  /\ Spend("cut")
  /\ dropped' = TRUE
  /\ \/ UNCHANGED toHost
     \/ \E item \in Cuts(OnWire) : toHost' = Append(toHost, item)
  /\ tx' = Resting
  /\ UNCHANGED <<control, console, notified>>

TxStep ==
  /\ TxControl \/ TxConsole \/ TxWakes \/ TxGate \/ TxSend \/ TxGivesUp
  /\ UNCHANGED <<hostVars, toDevice, session, requests, input, rxDec, rx, cmd, app, ran>>

-----------------------------------------------------------------------------
(* The chip resets, by itself or by a panic, wherever its tasks are, and    *)
(* prints boot text outside every frame; the USB connection may stay up.    *)
Reboot ==
  /\ Spend("fault")
  /\ session' = 0
  /\ control' = <<>> /\ console' = <<>> /\ requests' = <<>> /\ input' = <<>>
  /\ notified' = FALSE /\ dropped' = FALSE
  /\ rx' = [pc |-> "idle", todo |-> <<>>]
  /\ tx' = Resting /\ cmd' = Resting /\ app' = Resting
  /\ rxDec' = Between
  /\ toDevice' \in {toDevice, <<>>}
  /\ \/ toHost' = Append(toHost, Text)
     \/ tx.pc = "send" /\ \E item \in Cuts(OnWire) : toHost' = toHost \o <<item, Text>>
  /\ UNCHANGED <<hostVars, ran>>

Next == HostStep \/ RxStep \/ CmdStep \/ AppStep \/ TxStep \/ Reboot

Spec == Init /\ [][Next]_vars

(* The firmware's tasks are scheduled, the handler returns (the component   *)
(* demands it) and the worker keeps reading.                                *)
FairSpec ==
  /\ Spec
  /\ WF_vars(RxStep) /\ WF_vars(CmdStep) /\ WF_vars(TxStep)
  /\ WF_vars(AppFinishes) /\ WF_vars(Read)

-----------------------------------------------------------------------------
(* Properties. *)

Ran == {ran[i] : i \in DOMAIN ran}

(* What is on its way to the handler.                                       *)
Waiting ==
  {<<f.session, f.request>> : f \in ToSet(requests) \cup
     (IF cmd.pc \in {"taken", "call"} THEN {cmd.f} ELSE {})}

(* A request is answered by the result of its own handler call, whatever    *)
(* earlier requests and sessions left in the queues; one that was refused   *)
(* ("command queue full") was not called and never will be.                 *)
AnswersAreOwn ==
  \A r \in DOMAIN answers :
    /\ answers[r].how = "ok" => answers[r].of = r /\ r \in Ran
    /\ answers[r].how = "error" =>
         \/ answers[r].of = r /\ r \in Ran
         \/ answers[r].of = NoRun /\ r \notin Ran /\ r \notin Waiting

(* No replay: the handler is called at most once for a request, and only    *)
(* for one that was made, across timeouts, sessions and lost ports.         *)
NothingRunsTwice == IsInjective(ran) /\ Ran \subseteq DOMAIN answers

(* A valid session is the one the firmware has, unless the chip has been    *)
(* reset: an acknowledgement of an earlier hello makes no session valid.    *)
(* And what the application has not read yet is input of that session: a    *)
(* hello discards what came before it, although the session changes first.  *)
SessionIsCurrent ==
  /\ host.session.valid => session \in {0, host.session.session}
  /\ rx.pc = "idle" => \A i \in DOMAIN input : input[i] = session

(* Console output never ends a session by itself: what tx_task took before  *)
(* the hello and sends unframed reaches the host before the acknowledgement *)
(* does.                                                                    *)
ConsoleKeepsSession ==
  host.session.valid /\ session = host.session.session =>
    ~HasText(toHost) /\ ~(tx.pc = "send" /\ OnWire = Text)

(* tx_task never sleeps on a frame: it looks at two queues one after the    *)
(* other, and the notification of whoever filled either wakes it.           *)
NoFrameStranded ==
  tx.pc = "wait" /\ ~notified /\ (control # <<>> \/ console # <<>>) =>
    "notify" \in {rx.pc, cmd.pc, app.pc}

(* An answer can only get lost where a drop counter or a fault says so:     *)
(* otherwise every hello and request the host makes is answered, even if    *)
(* no deadline ever passes.                                                 *)
RepliesArrive == Pending ~> (~Pending \/ dropped \/ used["fault"] > 0)

(* docs/APPLICATION.md:57: "unframed bytes terminate a negotiated host      *)
(* session".  The code's decoder takes text that follows an unfinished      *)
(* frame for its continuation.                                              *)
UnframedEndsSession == unframed => ~host.session.valid

=============================================================================
