---------------------------- MODULE ClientProofs ----------------------------
(***************************************************************************)
(* A request runs once, whatever the client posts and posts again, whatever*)
(* the network holds back, and however often the daemon restarts; input    *)
(* reaches the board in order; a command that reports success did what it  *)
(* reports; the log lines are the lines of what the board said, and a wait *)
(* looks for its pattern in all of them; and a client shows every event it *)
(* has read past, each once and in order, the last ones of a flash too.    *)
(***************************************************************************)
EXTENDS Client, SequenceLemmas, TLAPS

-----------------------------------------------------------------------------
(* The worker's port. *)

(* The worker opens, loses and closes its port beside all that a client     *)
(* asked for; each opening has a decoder of its own.                        *)
LEMMA PortSteps ==
  ASSUME Port
  PROVE  /\ UNCHANGED <<epoch, ops, evicted, flashed, said, ran, forgot, device, flights, clientVars>>
         /\ \/ UNCHANGED log
            \/ \E kind \in {"reconnecting", "reconnected"} : log' = Append(log, Event(kind, <<>>))
         /\ UNCHANGED <<unfinished, fresh>> \/ FreshDecoder
<1>1. CASE TakeJob
  <2>1. UNCHANGED <<epoch, ops, log, evicted, flashed, said, ran, forgot, device, flights, clientVars>>
    BY <1>1 DEF TakeJob
  <2>2. UNCHANGED <<unfinished, fresh>> \/ FreshDecoder
    BY <1>1 DEF TakeJob
  <2> QED BY <2>1, <2>2
<1>2. CASE LosePort
  BY <1>2 DEF LosePort, otherVars
<1>3. CASE ReopenPort
  BY <1>3 DEF ReopenPort, otherVars
<1>4. CASE OtherTakesPort
  BY <1>4 DEF OtherTakesPort, otherVars
<1> QED BY <1>1, <1>2, <1>3, <1>4 DEF Port

(* An end that cannot write the input closes the port.                      *)
LEMMA PortAtTheEnd ==
  ASSUME NEW op, NEW ok, PortAfter(op, ok)
  PROVE  UNCHANGED <<unfinished, fresh>> \/ FreshDecoder
BY DEF PortAfter

-----------------------------------------------------------------------------
(* Requests. *)

(* What RunsOnce rests on: a retained operation is known by the key of its  *)
(* own request, and a request was admitted as often as the daemon forgot    *)
(* it, and once more while its operation is retained.                       *)
Retained ==
  /\ ran \in [0 .. MaxInput -> Nat] /\ forgot \in [0 .. MaxInput -> Nat]
  /\ \A k \in DOMAIN ops : ops[k].req = k
  /\ \A r \in 0 .. MaxInput : ran[r] = forgot[r] + (IF r \in DOMAIN ops THEN 1 ELSE 0)

LEMMA RetainedStart == Init => Retained
BY ClientAssumption DEF Init, Retained

LEMMA RetainedIsEnough == Retained => RunsOnce
BY DEF Retained, RunsOnce

(* A post is admitted only under a key that no retained operation has.      *)
LEMMA RetainedAdmit == ASSUME NEW f, Retained, Admit(f) PROVE Retained'
<1>1. f.req \notin DOMAIN ops /\ DOMAIN ops' = DOMAIN ops \cup {f.req}
  BY DEF Admit, RequestKey
<1>2. ops'[f.req].req = f.req /\ \A k \in DOMAIN ops : ops'[k] = ops[k]
  BY <1>1 DEF Admit, RequestKey
<1>3. ran' = [ran EXCEPT ![f.req] = @ + 1] /\ forgot' = forgot
  BY DEF Admit
<1>4. ran' = [r \in 0 .. MaxInput |-> IF r = f.req THEN ran[r] + 1 ELSE ran[r]]
  BY <1>3 DEF Retained
<1>5. ASSUME NEW r \in 0 .. MaxInput
      PROVE ran'[r] = forgot'[r] + (IF r \in DOMAIN ops' THEN 1 ELSE 0)
  BY <1>1, <1>3, <1>4 DEF Retained
<1>6. ran' \in [0 .. MaxInput -> Nat]
  BY <1>4 DEF Retained
<1> QED BY <1>1, <1>2, <1>3, <1>5, <1>6 DEF Retained

(* Retention forgets one operation, and a restart all of them.              *)
LEMMA RetainedForget == ASSUME NEW k \in DOMAIN ops, Retained, Forget(k) PROVE Retained'
<1>1. DOMAIN ops' = DOMAIN ops \ {k} /\ \A x \in DOMAIN ops' : ops'[x] = ops[x]
  BY DEF Forget
<1>2. forgot' = [forgot EXCEPT ![k] = @ + 1] /\ ran' = ran
  BY DEF Forget, Retained
<1>3. forgot' = [r \in 0 .. MaxInput |-> IF r = k THEN forgot[r] + 1 ELSE forgot[r]]
  BY <1>2 DEF Retained
<1>4. forgot' \in [0 .. MaxInput -> Nat]
  BY <1>3 DEF Retained
<1> QED BY <1>1, <1>2, <1>3, <1>4 DEF Retained

LEMMA RetainedRestart == ASSUME Retained, Restart PROVE Retained'
<1>1. DOMAIN ops' = {} /\ ran' = ran
  BY DEF Restart
<1>2. \A r \in 0 .. MaxInput : (\E k \in DOMAIN ops : ops[k].req = r) <=> r \in DOMAIN ops
  BY DEF Retained
<1>3. forgot' = [r \in 0 .. MaxInput |-> IF r \in DOMAIN ops THEN forgot[r] + 1 ELSE forgot[r]]
  BY <1>2 DEF Restart, Retained
<1> QED BY <1>1, <1>3 DEF Retained

(* Nothing else admits or forgets; an end changes only a status.            *)
LEMMA RetainedFinish ==
  ASSUME NEW k \in DOMAIN ops, NEW ok \in BOOLEAN, Retained, Finish(k, ok) PROVE Retained'
<1>1. DOMAIN ops' = DOMAIN ops /\ \A x \in DOMAIN ops : ops'[x].req = ops[x].req
  BY DEF Finish
<1> QED BY <1>1 DEF Finish, Retained

LEMMA RetainedHandle == ASSUME NEW f \in flights, Retained, Handle(f) PROVE Retained'
<1>1. CASE Admit(f)
  BY <1>1, RetainedAdmit
<1>2. CASE Replay(f)
  BY <1>2 DEF Replay, daemonVars, Retained
<1>3. CASE Refuse(f)
  BY <1>3 DEF Refuse, daemonVars, Retained
<1> QED BY <1>1, <1>2, <1>3 DEF Handle

LEMMA RetainedStep == Retained /\ [Next]_vars => Retained'
<1> SUFFICES ASSUME Retained, [Next]_vars PROVE Retained'
  OBVIOUS
<1>1. ASSUME UNCHANGED <<ops, ran, forgot>> PROVE Retained'
  BY <1>1 DEF Retained
<1>2. CASE Daemon
  <2>1. CASE Report \/ (\E n \in OutputReads : Publish(n)) \/ Evict \/ Port
    BY <1>1, <2>1, PortSteps DEF Report, Publish, Evict
  <2>2. CASE AnswerEvents
    BY <1>1, <2>2 DEF AnswerEvents, daemonVars
  <2> QED
    BY <1>2, <2>1, <2>2, RetainedHandle, RetainedFinish, RetainedForget, RetainedRestart
    DEF Daemon
<1>3. CASE Proceed
  <2>1. CASE Submit \/ Resend \/ GiveUp \/ Submitted \/ Waited \/ Drain \/ GivesUpWaiting
    BY <1>1, <2>1 DEF Submit, Resend, GiveUp, Submitted, Waited, Drain, GivesUpWaiting, daemonVars
  <2>2. CASE OpenOutput \/ \E end \in {"eof", "error"} : StopTransfer(end)
    BY <1>1, <2>2 DEF OpenOutput, StopTransfer, daemonVars
  <2>3. CASE StartWrite \/ Leave \/ Elapsed \/ Wrote
    BY <1>1, <2>3 DEF StartWrite, Leave, Elapsed, Wrote, daemonVars
  <2> QED BY <1>3, <2>1, <2>2, <2>3 DEF Proceed
<1>4. CASE Poll \/ TakeFlashEvents \/ Transfer \/ TakeEvents \/ Interrupt
  BY <1>1, <1>4 DEF Poll, TakeFlashEvents, Transfer, TakeEvents, Interrupt, daemonVars
<1>5. CASE (\E n \in 1 .. ReadSize : ReadInput(n)) \/ ReceiveInput \/ SomebodyWrites
  BY <1>1, <1>5 DEF ReadInput, ReceiveInput, SomebodyWrites, daemonVars
<1>6. CASE Repeat
  BY <1>1, <1>6 DEF Repeat
<1>7. CASE UNCHANGED vars
  BY <1>1, <1>7 DEF vars, daemonVars
<1> QED BY <1>2, <1>3, <1>4, <1>5, <1>6, <1>7 DEF Next

(* post_with_key and submit: however a command and its input are posted,    *)
(* a request runs once, and once more only after the daemon forgot it.      *)
THEOREM PostsRunOnce == Spec => []RunsOnce
BY RetainedStart, RetainedStep, RetainedIsEnough, PTL DEF Spec

-----------------------------------------------------------------------------
(* Lines. *)

Lines(B) == [text : Seq(B), fragment : BOOLEAN]
Decoded(B) == [pending : Seq(B), lines : Seq(Lines(B))]

LEMMA FeedByteTyped ==
  ASSUME NEW B, NEW decoder \in Decoded(B), NEW byte \in B
  PROVE  FeedByte(decoder, byte) \in Decoded(B)
<1>1. decoder.pending \in Seq(B) /\ decoder.lines \in Seq(Lines(B))
  BY DEF Decoded
<1>2. PICK grown : grown = Append(decoder.pending, byte)
  OBVIOUS
<1>3. grown \in Seq(B)
  BY <1>1, <1>2
<1>4. ASSUME NEW text \in Seq(B), NEW fragment \in BOOLEAN
      PROVE  [pending |-> <<>>, lines |-> Append(decoder.lines, Line(text, fragment))] \in Decoded(B)
  <2>1. Line(text, fragment) \in Lines(B)
    BY DEF Line, Lines
  <2>2. Append(decoder.lines, Line(text, fragment)) \in Seq(Lines(B))
    BY <1>1, <2>1
  <2> QED BY <2>2 DEF Decoded
<1>5. [decoder EXCEPT !.pending = grown] \in Decoded(B)
  BY <1>3 DEF Decoded
<1>6. FeedByte(decoder, byte) =
        IF byte = Newline
          THEN [pending |-> <<>>, lines |-> Append(decoder.lines, Line(decoder.pending, FALSE))]
        ELSE IF Len(grown) = MaxLine
          THEN [pending |-> <<>>, lines |-> Append(decoder.lines, Line(grown, TRUE))]
        ELSE [decoder EXCEPT !.pending = grown]
  BY <1>2 DEF FeedByte
<1> QED BY <1>1, <1>3, <1>4, <1>5, <1>6

(* What Feed computes, by its recursion.                                    *)
LEMMA FeedSteps ==
  ASSUME NEW B, NEW rest \in Seq(B), NEW bytes \in Seq(B)
  PROVE  \E u \in [0 .. Len(bytes) -> Decoded(B)] :
           /\ u[0] = [pending |-> rest, lines |-> <<>>]
           /\ \A n \in 1 .. Len(bytes) : u[n] = FeedByte(u[n - 1], bytes[n])
           /\ Feed(rest, bytes) = u[Len(bytes)]
<1>1. PICK last \in Nat : last = Len(bytes)
  OBVIOUS
<1>2. PICK a : a = [pending |-> rest, lines |-> <<>>]
  OBVIOUS
<1>3. a \in Decoded(B)
  BY <1>2 DEF Decoded
<1>4. \A n \in 1 .. last : bytes[n] \in B
  BY <1>1
<1> DEFINE g == [p \in Decoded(B) \X (1 .. last) |-> FeedByte(p[1], bytes[p[2]])]
           IsFed(u) == u = [n \in 0 .. last |-> IF n = 0 THEN a ELSE FeedByte(u[n - 1], bytes[n])]
<1>5. g \in [Decoded(B) \X (1 .. last) -> Decoded(B)]
  BY <1>4, FeedByteTyped
<1>6. PICK f \in [0 .. last -> Decoded(B)] : Recurs(f, a, last, g)
  <2> HIDE DEF g
  <2> QED BY <1>3, <1>5, Recursion
<1>7. f[0] = a /\ \A n \in 1 .. last : f[n] = FeedByte(f[n - 1], bytes[n])
  <2>1. \A n \in 1 .. last : <<f[n - 1], n>> \in Decoded(B) \X (1 .. last)
    <3>1. \A n \in 1 .. last : n - 1 \in 0 .. last
      OBVIOUS
    <3> QED BY <3>1
  <2>2. \A p \in Decoded(B) \X (1 .. last) : g[p] = FeedByte(p[1], bytes[p[2]])
    OBVIOUS
  <2>3. f[0] = a /\ \A n \in 1 .. last : f[n] = g[<<f[n - 1], n>>]
    BY <1>6 DEF Recurs
  <2> HIDE DEF g
  <2> QED BY <2>1, <2>2, <2>3
<1>8. IsFed(f)
  <2>1. \A n \in 0 .. last : n # 0 => n \in 1 .. last
    OBVIOUS
  <2> QED BY <1>7, <2>1
<1>9. PICK u : u = CHOOSE h : IsFed(h)
  OBVIOUS
<1>10. IsFed(u)
  <2> HIDE DEF IsFed
  <2> QED BY <1>8, <1>9
<1>11. Feed(rest, bytes) = u[last]
  BY <1>1, <1>2, <1>9 DEF Feed
<1>12. u[0] = a /\ \A n \in 1 .. last : u[n] = FeedByte(u[n - 1], bytes[n])
  <2>1. 0 \in 0 .. last /\ \A n \in 1 .. last : n \in 0 .. last /\ n # 0
    OBVIOUS
  <2> QED BY <1>10, <2>1
<1> DEFINE T == {n \in Nat : n <= last => u[n] \in Decoded(B)}
<1>13. T = Nat
  <2>1. 0 \in T
    BY <1>3, <1>12
  <2>2. ASSUME NEW n \in T PROVE n + 1 \in T
    <3>1. SUFFICES ASSUME n + 1 <= last PROVE u[n + 1] \in Decoded(B)
      OBVIOUS
    <3>2. n + 1 \in 1 .. last /\ (n + 1) - 1 = n /\ u[n] \in Decoded(B)
      BY <3>1
    <3>3. u[n + 1] = FeedByte(u[n], bytes[n + 1])
      BY <1>12, <3>2
    <3> QED BY <1>4, <3>2, <3>3, FeedByteTyped
  <2>3. T \in SUBSET Nat
    OBVIOUS
  <2> HIDE DEF T
  <2> QED BY <2>1, <2>2, <2>3, Induction
<1>14. \A n \in 0 .. last : u[n] \in Decoded(B)
  <2>1. \A n \in T : n <= last => u[n] \in Decoded(B)
    OBVIOUS
  <2> HIDE DEF T
  <2> QED BY <1>13, <2>1
<1>15. u \in [0 .. last -> Decoded(B)]
  BY <1>10, <1>14
<1> QED BY <1>1, <1>2, <1>11, <1>12, <1>15

LEMMA FeedTyped ==
  ASSUME NEW B, NEW rest \in Seq(B), NEW bytes \in Seq(B)
  PROVE  Feed(rest, bytes).pending \in Seq(B) /\ Feed(rest, bytes).lines \in Seq(Lines(B))
<1>1. PICK u \in [0 .. Len(bytes) -> Decoded(B)] :
           /\ u[0] = [pending |-> rest, lines |-> <<>>]
           /\ \A n \in 1 .. Len(bytes) : u[n] = FeedByte(u[n - 1], bytes[n])
           /\ Feed(rest, bytes) = u[Len(bytes)]
  BY FeedSteps
<1>2. u[Len(bytes)] \in Decoded(B)
  BY <1>1
<1> QED BY <1>1, <1>2 DEF Decoded

-----------------------------------------------------------------------------
(* What the daemon keeps and publishes. *)

LogTyped ==
  /\ epoch \in Nat \ {0} /\ cmd \in Commands
  /\ log \in Seq(ToSet(log))
  /\ evicted \in 0 .. Len(log)
  /\ said \in 0 .. Len(cmd.output) /\ unfinished \in Seq(ToSet(cmd.output))

(* The operation that began at c has ended so, and the log still has its    *)
(* last event, if the daemon does.                                          *)
Ended(c, req, status) ==
  c.epoch = epoch /\ status \in {"succeeded", "failed"} =>
    \E n \in c.after + 1 .. Len(log) : log[n] = Event("operation_finished", <<req, status>>)

Cursors == [epoch : Nat, after : Nat]
Reached(c) == c \in Cursors /\ c.epoch <= epoch /\ (c.epoch = epoch => c.after <= Len(log))

OpTrue(k, op) ==
  /\ op.req = k /\ op.status \in {"running", "succeeded", "failed"}
  /\ Reached(op.start) /\ Ended(op.start, k, op.status)
OpsTrue == \A k \in DOMAIN ops : OpTrue(k, ops[k])

-----------------------------------------------------------------------------
(* What the client was told. *)

CallIs(req, try, input, status, from) ==
  call = [req |-> req, try |-> try, input |-> input, status |-> status, start |-> from]

CallTrue ==
  /\ CallIs(call.req, call.try, call.input, call.status, call.start)
  /\ call.status \in {"idle", "sent", "running", "succeeded", "failed", "refused"}
  /\ Reached(call.start) /\ Ended(call.start, call.req, call.status)

StartTrue ==
  /\ Reached(start)
  /\ pc \in {"submit", "posting", "polling", "flashing", "capture", "download", "done", "failed"}
  /\ pc = "posting" => call.req = 0
  /\ pc \in {"polling", "flashing"} =>
       call.req = 0 /\ call.start = start /\ call.status \in {"running", "succeeded", "failed"}
  /\ pc \in {"capture", "download", "done"} => Ended(start, 0, "succeeded")

FileTrue ==
  /\ file.owner = "client" => pc = "download" \/ verdict = "saved"
  /\ verdict # "none" => pc \in {"done", "failed"}
  /\ verdict = "saved" => pc = "done" /\ file = [owner |-> "client", chunks |-> Chunks]
  /\ file = [owner |-> file.owner, chunks |-> file.chunks]

(* What was answered is what follows the cursor in the log.                 *)
BatchTrue(c, batch) ==
  c.epoch = epoch =>
    /\ c.after + Len(batch) <= Len(log)
    /\ \A i \in 1 .. Len(batch) : batch[i] = log[c.after + i]

AskedTrue ==
  /\ Reached(cursor)
  /\ asked.batch \in Seq(ToSet(asked.batch))
  /\ asked.state = "answered" => BatchTrue(cursor, asked.batch)

CursorTrue ==
  pc \in {"flashing", "capture"} => cursor.epoch = start.epoch /\ start.after <= cursor.after

MatchTrue ==
  verdict = "matched" /\ start.epoch = epoch =>
    /\ cursor.epoch = epoch
    /\ \E n \in start.after + 1 .. cursor.after : Matches(log[n])

ReportInv == LogTyped /\ OpsTrue /\ CallTrue /\ StartTrue /\ FileTrue /\ AskedTrue /\ CursorTrue /\ MatchTrue

-----------------------------------------------------------------------------
(* Where the input is. *)

(* The bytes behind a up to b.                                              *)
Part(a, b) == SubSeq(cmd.input, a + 1, b)

Succeeded(k) == k \in DOMAIN ops /\ ops[k].status = "succeeded"

(* Up to a the input was delivered by earlier pieces; the last piece posted *)
(* goes from a to b.                                                        *)
OpIs(op) == op = [req |-> op.req, status |-> op.status, input |-> op.input, start |-> op.start]

Posted(a, b) ==
  /\ a <= b /\ sent <= b /\ (sent = 0 => b = 0)
  /\ \A f \in flights : /\ f.req \in 0 .. sent
                        /\ f.req = 0 => f.input = <<>>
                        /\ f.req = sent => f.input = Part(a, b)
  /\ \A k \in DOMAIN ops : /\ OpIs(ops[k]) /\ k \in 0 .. sent
                           /\ k = 0 => ops[k].input = <<>>
                           /\ k = sent => ops[k].input = Part(a, b)
  /\ \A k \in 1 .. sent - 1 : Succeeded(k)

Delivered(a, b) ==
  \/ device = Part(0, a) /\ ~Succeeded(sent)
  \/ device = Part(0, b) /\ (sent # 0 => sent \in DOMAIN ops /\ ops[sent].status # "running")

(* The capture loop works on the last piece, or that was written.           *)
Before == pc \in {"submit", "posting", "polling", "flashing"}
Working(a, b) ==
  /\ Before => sent = 0 /\ typed = 0 /\ channel = <<>> /\ ~exiting
  /\ pc = "posting" => call.input = <<>>
  /\ pc = "capture" /\ call.status # "idle" =>
       sent # 0 /\ call.req = sent /\ call.input = Part(a, b)
  /\ pc = "capture" /\ call.status \in {"idle", "succeeded"} => sent = 0 \/ Succeeded(sent)

(* The rest, up to c in pending_input and then read by read in the channel, *)
(* whose last message may be that the exit byte follows.                    *)
Leaves == ~reading /\ typed = Len(BeforeExit)
Message(message, x, y, last) ==
  \/ message = Part(x, y)
  \/ message = <<Exit>> /\ cmd.terminal /\ last /\ Leaves /\ x = y
Buffered(b, c, cut) ==
  /\ b <= c /\ pending = Part(b, c)
  /\ channel \in Seq(ToSet(channel))
  /\ cut[0] = c /\ cut[Len(channel)] = typed
  /\ \A i \in 1 .. Len(channel) :
       cut[i - 1] <= cut[i] /\ Message(channel[i], cut[i - 1], cut[i], i = Len(channel))
  /\ exiting => channel = <<>> /\ Leaves

Cut(a, b, c, cut) ==
  /\ a \in 0 .. typed /\ b \in 0 .. typed /\ c \in 0 .. typed
  /\ cut \in [0 .. Len(channel) -> 0 .. typed]
  /\ Posted(a, b) /\ Delivered(a, b) /\ Working(a, b) /\ Buffered(b, c, cut)
Read == typed \in 0 .. Len(BeforeExit) /\ sent \in Nat
Exited == verdict = "exit" => device = BeforeExit /\ (sent = 0 \/ Succeeded(sent))

InputHolds ==
  /\ Read /\ Exited
  /\ \E a, b, c \in 0 .. typed, cut \in [0 .. Len(channel) -> 0 .. typed] : Cut(a, b, c, cut)

InputInv == NothingForgotten => InputHolds

ClientInv == Retained /\ ReportInv /\ InputInv

-----------------------------------------------------------------------------
(* The log grows, or a new daemon starts one. *)

Grows ==
  /\ epoch' = epoch /\ Len(log) <= Len(log')
  /\ \A n \in 1 .. Len(log) : log'[n] = log[n]
Restarts == epoch' = epoch + 1 /\ log' = <<>>

LEMMA OwnSet == ASSUME NEW S, NEW s \in Seq(S) PROVE s \in Seq(ToSet(s))
<1>1. \A i \in 1 .. Len(s) : s[i] \in ToSet(s)
  BY DEF ToSet
<1> QED BY <1>1

LEMMA OneEvent ==
  ASSUME NEW e, log \in Seq(ToSet(log)), log' = Append(log, e), epoch' = epoch
  PROVE  /\ Grows /\ log' \in Seq(ToSet(log'))
         /\ Len(log') = Len(log) + 1 /\ log'[Len(log) + 1] = e
<1>1. PICK S : S = ToSet(log) \cup {e}
  OBVIOUS
<1>2. log \in Seq(S) /\ e \in S
  BY <1>1
<1>3. log' \in Seq(S) /\ Len(log') = Len(log) + 1 /\ log'[Len(log) + 1] = e
  BY <1>2
<1>4. \A n \in 1 .. Len(log) : log'[n] = log[n]
  BY <1>2
<1>5. log' \in Seq(ToSet(log'))
  BY <1>3, OwnSet
<1> QED BY <1>2, <1>3, <1>4, <1>5 DEF Grows

LEMMA MoreEvents ==
  ASSUME NEW e, NEW S, NEW t \in Seq(S), log \in Seq(ToSet(log)),
         log' = (log \o <<e>>) \o t, epoch' = epoch
  PROVE  Grows /\ log' \in Seq(ToSet(log'))
<1>1. PICK R : R = (ToSet(log) \cup {e}) \cup S
  OBVIOUS
<1>2. log \in Seq(R) /\ e \in R /\ t \in Seq(R)
  BY <1>1
<1>3. PICK more : more = log \o <<e>>
  OBVIOUS
<1>4. more \in Seq(R) /\ Len(more) = Len(log) + 1 /\ \A n \in 1 .. Len(log) : more[n] = log[n]
  BY <1>2, <1>3
<1>5. log' \in Seq(R) /\ Len(log') = Len(more) + Len(t) /\ \A n \in 1 .. Len(more) : log'[n] = more[n]
  BY <1>2, <1>3, <1>4
<1>6. \A n \in 1 .. Len(log) : n \in 1 .. Len(more)
  BY <1>2, <1>4
<1>7. log' \in Seq(ToSet(log'))
  BY <1>5, OwnSet
<1> QED BY <1>2, <1>4, <1>5, <1>6, <1>7 DEF Grows

LEMMA LogPublish ==
  ASSUME ClientAssumption, NEW n \in OutputReads, LogTyped, Publish(n) PROVE LogTyped' /\ Grows
<1>1. PICK B : B = ToSet(cmd.output)
  OBVIOUS
<1>2. cmd.output \in Seq(B) /\ unfinished \in Seq(B) /\ n \in Nat \ {0} /\ said \in Nat
  BY <1>1 DEF LogTyped, ClientAssumption
<1>3. said + n <= Len(cmd.output) /\ said' = said + n /\ evicted' = evicted /\ epoch' = epoch /\ cmd' = cmd
  BY DEF Publish, clientVars
<1>4. PICK bytes : bytes = SubSeq(cmd.output, said + 1, said + n)
  OBVIOUS
<1>5. bytes \in Seq(B)
  BY <1>2, <1>3, <1>4
<1>6. PICK decoded : decoded = Feed(unfinished, bytes)
  OBVIOUS
<1>7. decoded.pending \in Seq(B) /\ decoded.lines \in Seq(Lines(B))
  BY <1>2, <1>5, <1>6, FeedTyped
<1>8. PICK t : t = [i \in DOMAIN decoded.lines |-> Event("log", decoded.lines[i])]
  OBVIOUS
<1>9. t \in Seq({Event("log", x) : x \in Lines(B)})
  BY <1>7, <1>8
<1>10. log' = (log \o <<Event("raw", bytes)>>) \o t /\ unfinished' = decoded.pending
  BY <1>4, <1>6, <1>8 DEF Publish
<1>11. Grows /\ log' \in Seq(ToSet(log'))
  BY <1>3, <1>9, <1>10, MoreEvents DEF LogTyped
<1>12. evicted' \in 0 .. Len(log')
  BY <1>3, <1>11 DEF LogTyped, Grows
<1>13. said' \in 0 .. Len(cmd'.output) /\ unfinished' \in Seq(ToSet(cmd'.output))
  BY <1>1, <1>2, <1>3, <1>7, <1>10
<1> QED BY <1>3, <1>11, <1>12, <1>13 DEF LogTyped

(* Every other event of the daemon is one event.                            *)
LEMMA LogAppends ==
  ASSUME NEW e, LogTyped, log' = Append(log, e), unfinished' \in {<<>>, unfinished},
         UNCHANGED <<epoch, cmd, evicted, said>>
  PROVE  LogTyped' /\ Grows
<1>1. Grows /\ log' \in Seq(ToSet(log')) /\ Len(log') = Len(log) + 1
  BY OneEvent DEF LogTyped
<1>2. unfinished' \in Seq(ToSet(cmd'.output))
  <2>1. <<>> \in Seq(ToSet(cmd.output)) /\ unfinished \in Seq(ToSet(cmd.output))
    BY DEF LogTyped
  <2> QED BY <2>1
<1>3. evicted' \in 0 .. Len(log')
  BY <1>1 DEF LogTyped
<1> QED BY <1>1, <1>2, <1>3 DEF LogTyped

LEMMA LogSame ==
  ASSUME LogTyped, UNCHANGED <<epoch, cmd, log, evicted, said, unfinished>> PROVE LogTyped' /\ Grows
<1>1. LogTyped'
  BY DEF LogTyped
<1> QED BY <1>1 DEF LogTyped, Grows

(* The client's own steps leave the daemon alone.                           *)
LEMMA ClientSteps ==
  ASSUME [Next]_vars, ~Daemon, ~Repeat PROVE UNCHANGED <<daemonVars, cmd>>
<1>1. CASE Proceed
  <2>1. CASE Submit \/ Resend \/ GiveUp \/ Submitted \/ Waited \/ Drain \/ GivesUpWaiting
    BY <2>1 DEF Submit, Resend, GiveUp, Submitted, Waited, Drain, GivesUpWaiting
  <2>2. CASE OpenOutput \/ \E end \in {"eof", "error"} : StopTransfer(end)
    BY <2>2 DEF OpenOutput, StopTransfer
  <2>3. CASE StartWrite \/ Leave \/ Elapsed \/ Wrote
    BY <2>3 DEF StartWrite, Leave, Elapsed, Wrote
  <2> QED BY <1>1, <2>1, <2>2, <2>3 DEF Proceed
<1>2. CASE Poll \/ TakeFlashEvents \/ Transfer \/ TakeEvents \/ Interrupt
  BY <1>2 DEF Poll, TakeFlashEvents, Transfer, TakeEvents, Interrupt
<1>3. CASE (\E n \in 1 .. ReadSize : ReadInput(n)) \/ ReceiveInput \/ SomebodyWrites
  BY <1>3 DEF ReadInput, ReceiveInput, SomebodyWrites
<1>4. CASE UNCHANGED vars
  BY <1>4 DEF vars
<1> QED BY <1>1, <1>2, <1>3, <1>4 DEF Next

LEMMA LogStep ==
  ASSUME ClientAssumption, LogTyped, [Next]_vars PROVE LogTyped' /\ (Grows \/ Restarts)
<1>1. CASE Daemon
  <2>1. ASSUME NEW f \in flights, Handle(f) PROVE LogTyped' /\ Grows
    <3>1. cmd' = cmd
      BY <2>1 DEF Handle
    <3>2. CASE Admit(f)
      <4>1. /\ log' = Append(log, Event("operation_started", <<f.req>>))
            /\ UNCHANGED <<epoch, evicted, said, unfinished>>
        BY <3>2 DEF Admit, portVars
      <4> QED BY <3>1, <4>1, LogAppends
    <3>3. CASE Replay(f) \/ Refuse(f)
      BY <3>1, <3>3, LogSame DEF Replay, Refuse, daemonVars, portVars
    <3> QED BY <2>1, <3>2, <3>3 DEF Handle
  <2>2. CASE Report
    <3>1. log' = Append(log, Event("progress", Script[flashed + 1]))
      BY <2>2 DEF Report
    <3> QED BY <2>2, <3>1, LogAppends DEF Report, clientVars, portVars
  <2>3. ASSUME NEW k \in DOMAIN ops, NEW ok \in BOOLEAN, Finish(k, ok) PROVE LogTyped' /\ Grows
    <3>1. PICK e : log' = Append(log, e)
      BY <2>3 DEF Finish
    <3>2. unfinished' \in {<<>>, unfinished}
      BY <2>3, PortAtTheEnd DEF Finish, FreshDecoder
    <3>3. UNCHANGED <<epoch, cmd, evicted, said>>
      BY <2>3 DEF Finish, clientVars
    <3> QED BY <3>1, <3>2, <3>3, LogAppends
  <2>4. ASSUME NEW n \in OutputReads, Publish(n) PROVE LogTyped' /\ Grows
    BY <2>4, LogPublish
  <2>5. CASE \E k \in DOMAIN ops : Forget(k)
    BY <2>5, LogSame DEF Forget, clientVars, portVars
  <2>6. CASE Evict
    <3>1. evicted' \in 0 .. Len(log') /\ log' = log
      BY <2>6 DEF Evict, LogTyped
    <3> QED BY <2>6, <3>1 DEF Evict, clientVars, portVars, LogTyped, Grows
  <2>7. CASE Restart
    <3>1. /\ epoch' = epoch + 1 /\ log' = <<>> /\ evicted' = 0 /\ unfinished' = <<>>
          /\ said' = said /\ cmd' = cmd
      BY <2>7 DEF Restart
    <3> QED BY <3>1 DEF LogTyped, Restarts, ToSet
  <2>8. CASE AnswerEvents
    BY <2>8, LogSame DEF AnswerEvents, daemonVars, portVars
  <2>9. CASE Port
    <3>1. UNCHANGED <<epoch, cmd, evicted, said>> /\ unfinished' \in {<<>>, unfinished}
      BY <2>9, PortSteps DEF clientVars, FreshDecoder
    <3>2. CASE UNCHANGED log
      <4>1. UNCHANGED <<epoch, cmd, log, evicted, said>>
        BY <3>1, <3>2
      <4>2. unfinished' \in Seq(ToSet(cmd'.output))
        <5>1. <<>> \in Seq(ToSet(cmd.output)) /\ unfinished \in Seq(ToSet(cmd.output))
          BY DEF LogTyped
        <5> QED BY <3>1, <5>1
      <4>3. LogTyped'
        BY <4>1, <4>2 DEF LogTyped
      <4> QED BY <3>2, <4>1, <4>3 DEF LogTyped, Grows
    <3>3. CASE \E e : log' = Append(log, e)
      BY <3>1, <3>3, LogAppends
    <3> QED BY <2>9, <3>2, <3>3, PortSteps
  <2> QED BY <1>1, <2>1, <2>2, <2>3, <2>4, <2>5, <2>6, <2>7, <2>8, <2>9 DEF Daemon
<1>2. CASE Repeat
  BY <1>2, LogSame DEF Repeat, portVars
<1>3. CASE ~Daemon /\ ~Repeat
  BY <1>3, ClientSteps, LogSame DEF daemonVars, portVars
<1> QED BY <1>1, <1>2, <1>3

(* What was true of the log stays true, or is of an earlier daemon.         *)
LEMMA Kept ==
  ASSUME LogTyped, LogTyped', Grows \/ Restarts, NEW c, Reached(c)
  PROVE  Reached(c)' /\ \A req, status : Ended(c, req, status) => Ended(c, req, status)'
<1>1. epoch \in Nat /\ c.epoch \in Nat /\ c.epoch <= epoch /\ c.after \in Nat /\ c \in Cursors
  BY DEF LogTyped, Reached, Cursors
<1>2. CASE Grows
  <2>1. Len(log) \in Nat /\ Len(log') \in Nat /\ Len(log) <= Len(log')
    BY <1>2 DEF Grows, LogTyped
  <2>2. Reached(c)'
    BY <1>1, <1>2, <2>1 DEF Reached, Grows
  <2>3. ASSUME NEW req, NEW status, Ended(c, req, status) PROVE Ended(c, req, status)'
    <3>1. SUFFICES ASSUME c.epoch = epoch, status \in {"succeeded", "failed"}
          PROVE \E n \in c.after + 1 .. Len(log') : log'[n] = Event("operation_finished", <<req, status>>)
      BY <1>2 DEF Ended, Grows
    <3>2. PICK n \in c.after + 1 .. Len(log) : log[n] = Event("operation_finished", <<req, status>>)
      BY <2>3, <3>1 DEF Ended
    <3>3. n \in 1 .. Len(log) /\ n \in c.after + 1 .. Len(log')
      BY <1>1, <2>1
    <3>4. log'[n] = log[n]
      BY <1>2, <3>3 DEF Grows
    <3> QED BY <3>2, <3>3, <3>4
  <2> QED BY <2>2, <2>3
<1>3. CASE Restarts
  <2>1. c.epoch # epoch' /\ c.epoch <= epoch'
    BY <1>1, <1>3 DEF Restarts
  <2> QED BY <1>1, <2>1 DEF Reached, Ended
<1> QED BY <1>2, <1>3

-----------------------------------------------------------------------------
(* Operations. *)

LEMMA OpKept ==
  ASSUME LogTyped, LogTyped', Grows \/ Restarts, NEW k, NEW op, OpTrue(k, op) PROVE OpTrue(k, op)'
<1>1. Reached(op.start)' /\ Ended(op.start, k, op.status)'
  BY Kept DEF OpTrue
<1> QED BY <1>1 DEF OpTrue

LEMMA OpsKept ==
  ASSUME LogTyped, LogTyped', Grows \/ Restarts, OpsTrue,
         DOMAIN ops' \subseteq DOMAIN ops, \A k \in DOMAIN ops' : ops'[k] = ops[k]
  PROVE  OpsTrue'
<1>1. ASSUME NEW k \in DOMAIN ops', NEW op, op = ops'[k] PROVE OpTrue(k, op)'
  <2>1. OpTrue(k, op)
    BY <1>1 DEF OpsTrue
  <2> QED BY <2>1, OpKept
<1> QED BY <1>1 DEF OpsTrue

LEMMA OpsAdmit ==
  ASSUME LogTyped, LogTyped', Grows \/ Restarts, OpsTrue, NEW f, Admit(f) PROVE OpsTrue'
<1>1. PICK key : key = f.req
  OBVIOUS
<1>2. PICK op : op = [req |-> f.req, status |-> "running", input |-> f.input,
                      start |-> [epoch |-> epoch, after |-> Len(log) + 1]]
  OBVIOUS
<1>3. /\ ops' = [k \in DOMAIN ops \cup {key} |-> IF k = key THEN op ELSE ops[k]]
      /\ log' = Append(log, Event("operation_started", <<f.req>>)) /\ epoch' = epoch
  BY <1>1, <1>2 DEF Admit, RequestKey
<1>4. Reached(op.start)'
  <2>1. PICK c : c = op.start
    OBVIOUS
  <2>2. c = [epoch |-> epoch, after |-> Len(log) + 1]
    BY <1>2, <2>1
  <2>3. epoch \in Nat /\ Len(log) \in Nat /\ Len(log') = Len(log) + 1
    BY <1>3, OneEvent DEF LogTyped
  <2>4. Reached(c)'
    BY <1>3, <2>2, <2>3 DEF Reached, Cursors
  <2> QED BY <2>1, <2>4
<1>5. op.req = key /\ op.status = "running" /\ Ended(op.start, key, op.status)'
  BY <1>1, <1>2 DEF Ended
<1>6. ASSUME NEW k \in DOMAIN ops', NEW o, o = ops'[k] PROVE OpTrue(k, o)'
  <2>1. CASE k = key
    <3>1. o = op
      BY <1>3, <1>6, <2>1
    <3> QED BY <1>4, <1>5, <2>1, <3>1 DEF OpTrue
  <2>2. CASE k # key
    <3>1. k \in DOMAIN ops /\ o = ops[k]
      BY <1>3, <1>6, <2>2
    <3>2. OpTrue(k, o)
      BY <3>1 DEF OpsTrue
    <3> QED BY <3>2, OpKept
  <2> QED BY <2>1, <2>2
<1> QED BY <1>6 DEF OpsTrue

LEMMA OpsFinish ==
  ASSUME LogTyped, LogTyped', Grows \/ Restarts, OpsTrue,
         NEW key \in DOMAIN ops, NEW ok \in BOOLEAN, Finish(key, ok)
  PROVE  OpsTrue'
<1>1. PICK op : op = ops[key]
  OBVIOUS
<1>2. PICK status : status = IF ok THEN "succeeded" ELSE "failed"
  OBVIOUS
<1>3. ops' = [ops EXCEPT ![key].status = status] /\ epoch' = epoch
  BY <1>2 DEF Finish
<1>4. DOMAIN ops' = DOMAIN ops /\ \A k \in DOMAIN ops : k # key => ops'[k] = ops[k]
  BY <1>3
<1>5. ops'[key] = [op EXCEPT !.status = status]
  BY <1>1, <1>3
<1>6. op.req = key /\ Reached(op.start) /\ op.status = "running"
  BY <1>1 DEF OpsTrue, OpTrue, Finish
<1>7. ops'[key].req = key /\ ops'[key].start = op.start
  BY <1>5, <1>6
<1>8. ops'[key].status \in {status, "running"} /\ status \in {"succeeded", "failed"}
  BY <1>2, <1>5, <1>6
<1>9. log' = Append(log, Event("operation_finished", <<key, ops'[key].status>>))
  BY <1>1, <1>6 DEF Finish
<1>10. Reached(op.start)'
  BY <1>6, Kept
<1>11. PICK reported : reported = ops'[key].status
  OBVIOUS
<1>12. Ended(op.start, key, reported)'
  <2>1. SUFFICES ASSUME op.start.epoch = epoch
        PROVE \E n \in op.start.after + 1 .. Len(log') : log'[n] = Event("operation_finished", <<key, reported>>)
    BY <1>3 DEF Ended
  <2>2. PICK at : at = Len(log) + 1
    OBVIOUS
  <2>3. log'[at] = Event("operation_finished", <<key, reported>>) /\ Len(log') = at /\ Len(log) \in Nat
    BY <1>3, <1>9, <1>11, <2>2, OneEvent DEF LogTyped
  <2>4. op.start.after <= Len(log) /\ op.start.after \in Nat
    BY <1>6, <2>1 DEF Reached, Cursors
  <2>5. at \in op.start.after + 1 .. Len(log')
    BY <2>2, <2>3, <2>4
  <2> QED BY <2>3, <2>5
<1>13. ASSUME NEW k \in DOMAIN ops', NEW o, o = ops'[k] PROVE OpTrue(k, o)'
  <2>1. CASE k = key
    <3>1. o.req = key /\ o.start = op.start /\ o.status = reported /\ o.status \in {"running", "succeeded", "failed"}
      BY <1>7, <1>8, <1>11, <1>13, <2>1
    <3> QED BY <1>10, <1>12, <2>1, <3>1 DEF OpTrue
  <2>2. CASE k # key
    <3>1. k \in DOMAIN ops /\ o = ops[k]
      BY <1>4, <1>13, <2>2
    <3>2. OpTrue(k, o)
      BY <3>1 DEF OpsTrue
    <3> QED BY <3>2, OpKept
  <2> QED BY <2>1, <2>2
<1> QED BY <1>13 DEF OpsTrue

LEMMA OpsStep ==
  ASSUME LogTyped, LogTyped', Grows \/ Restarts, OpsTrue, [Next]_vars PROVE OpsTrue'
<1>1. ASSUME ops' = ops PROVE OpsTrue'
  BY <1>1, OpsKept
<1>2. CASE Daemon
  <2>1. ASSUME NEW f \in flights, Handle(f) PROVE OpsTrue'
    <3>1. CASE Admit(f)
      BY <3>1, OpsAdmit
    <3>2. CASE Replay(f) \/ Refuse(f)
      BY <1>1, <3>2 DEF Replay, Refuse, daemonVars
    <3> QED BY <2>1, <3>1, <3>2 DEF Handle
  <2>2. CASE Report \/ Evict \/ Port \/ \E n \in OutputReads : Publish(n)
    BY <1>1, <2>2, PortSteps DEF Report, Evict, Publish
  <2>3. ASSUME NEW k \in DOMAIN ops, NEW ok \in BOOLEAN, Finish(k, ok) PROVE OpsTrue'
    BY <2>3, OpsFinish
  <2>4. ASSUME NEW k \in DOMAIN ops, Forget(k) PROVE OpsTrue'
    BY <2>4, OpsKept DEF Forget
  <2>5. CASE Restart
    BY <2>5, OpsKept DEF Restart
  <2>6. CASE AnswerEvents
    BY <1>1, <2>6 DEF AnswerEvents, daemonVars
  <2> QED BY <1>2, <2>1, <2>2, <2>3, <2>4, <2>5, <2>6 DEF Daemon
<1>3. CASE Repeat
  BY <1>1, <1>3 DEF Repeat
<1>4. CASE ~Daemon /\ ~Repeat
  BY <1>1, <1>4, ClientSteps DEF daemonVars
<1> QED BY <1>2, <1>3, <1>4

-----------------------------------------------------------------------------
(* Answers. *)

LEMMA CallExcept ==
  ASSUME NEW r, NEW req, NEW try, NEW input, NEW status, NEW from, NEW s, NEW c, NEW again,
         r = [req |-> req, try |-> try, input |-> input, status |-> status, start |-> from]
  PROVE  /\ [r EXCEPT !.status = s] =
              [req |-> req, try |-> try, input |-> input, status |-> s, start |-> from]
         /\ [r EXCEPT !.try = again] =
              [req |-> req, try |-> again, input |-> input, status |-> status, start |-> from]
         /\ [r EXCEPT !.status = s, !.start = c] =
              [req |-> req, try |-> try, input |-> input, status |-> s, start |-> c]
<1>1. [r EXCEPT !.status = s] =
              [req |-> req, try |-> try, input |-> input, status |-> s, start |-> from]
  OBVIOUS
<1>2. [r EXCEPT !.try = again] =
              [req |-> req, try |-> again, input |-> input, status |-> status, start |-> from]
  OBVIOUS
<1>3. [r EXCEPT !.status = s, !.start = c] =
              [req |-> req, try |-> try, input |-> input, status |-> s, start |-> c]
  <2>1. PICK y : y = [r EXCEPT !.status = s]
    OBVIOUS
  <2>2. PICK z : z = [y EXCEPT !.start = c]
    OBVIOUS
  <2>3. [r EXCEPT !.status = s, !.start = c] = z
    BY <2>1, <2>2
  <2>4. z = [req |-> req, try |-> try, input |-> input, status |-> s, start |-> c]
    BY <1>1, <2>1, <2>2
  <2> QED BY <2>3, <2>4
<1> QED BY <1>1, <1>2, <1>3

(* The client waits for another answer, or is told of an operation.         *)
Told ==
  \E k \in DOMAIN ops' :
    /\ call'.req = k /\ call'.start = ops'[k].start /\ call'.status = ops'[k].status
Posts ==
  /\ call'.status \in {"idle", "sent", "refused"} /\ call'.start \in {Nowhere, call.start}
Shaped == CallIs(call.req, call.try, call.input, call.status, call.start)

LEMMA AnswerIs ==
  ASSUME Shaped, NEW f, NEW status, NEW from, Answer(f, status, from)
  PROVE  /\ Shaped'
         /\ \/ UNCHANGED call
            \/ /\ call.status = "sent" /\ f = Flight(call)
               /\ call'.status = status /\ call'.start = from
               /\ call'.req = call.req /\ call'.input = call.input /\ f.req = call.req
<1>1. CASE UNCHANGED call
  BY <1>1 DEF Shaped, CallIs
<1>2. CASE Awaited(f) /\ call' = [call EXCEPT !.status = status, !.start = from]
  <2>1. call' = [req |-> call.req, try |-> call.try, input |-> call.input,
                 status |-> status, start |-> from]
    BY <1>2, CallExcept DEF Shaped, CallIs
  <2>2. f.req = call.req /\ call.status = "sent" /\ f = Flight(call)
    BY <1>2 DEF Awaited, Flight
  <2> QED BY <2>1, <2>2 DEF Shaped, CallIs
<1> QED BY <1>1, <1>2 DEF Answer

LEMMA CallHandle ==
  ASSUME Shaped, NEW f \in flights, Handle(f)
  PROVE  /\ Shaped' /\ (UNCHANGED call \/ (Posts /\ call'.status = "refused") \/ Told)
         /\ UNCHANGED call \/ (call.status = "sent" /\ call'.req = call.req /\ call'.input = call.input)
<1>1. CASE Replay(f)
  <2>1. /\ f.req \in DOMAIN ops /\ ops' = ops
        /\ Answer(f, ops[f.req].status, ops[f.req].start)
    BY <1>1 DEF Replay, RequestKey, daemonVars
  <2> QED BY <2>1, AnswerIs DEF Told
<1>2. CASE Admit(f)
  <2>1. PICK op : op = [req |-> f.req, status |-> "running", input |-> f.input,
                      start |-> [epoch |-> epoch, after |-> Len(log) + 1]]
    OBVIOUS
  <2>2. /\ ops' = [k \in DOMAIN ops \cup {f.req} |-> IF k = f.req THEN op ELSE ops[k]]
        /\ Answer(f, "running", op.start)
    BY <1>2, <2>1 DEF Admit, RequestKey
  <2>3. f.req \in DOMAIN ops' /\ ops'[f.req] = op /\ op.status = "running"
    BY <2>1, <2>2
  <2>4. PICK from : from = op.start
    OBVIOUS
  <2>5. Answer(f, "running", from)
    BY <2>2, <2>4
  <2>6. \/ Shaped' /\ UNCHANGED call
        \/ /\ Shaped' /\ call.status = "sent" /\ call'.status = "running" /\ call'.start = from
           /\ call'.req = f.req /\ call'.req = call.req /\ call'.input = call.input
    BY <2>5, AnswerIs
  <2> QED BY <2>3, <2>4, <2>6 DEF Told
<1>3. CASE Refuse(f)
  <2>1. Answer(f, "refused", Nowhere)
    BY <1>3 DEF Refuse
  <2> QED BY <2>1, AnswerIs DEF Posts
<1> QED BY <1>1, <1>2, <1>3 DEF Handle

LEMMA IdleIs == Idle.req = 0 /\ Idle.input = <<>> /\ Idle.status = "idle" /\ Idle.start = Nowhere
BY DEF Idle

LEMMA IdleCall == ASSUME call' = Idle PROVE Shaped' /\ Posts
BY DEF Shaped, CallIs, Idle, Posts

LEMMA PostIs ==
  ASSUME NEW req, NEW input, Post(req, input)
  PROVE  /\ Shaped' /\ Posts /\ flights' = flights \cup {Flight(call')}
         /\ call'.req = req /\ call'.input = input /\ call'.status = "sent"
BY DEF Post, Shaped, CallIs, Posts

LEMMA ResendIs ==
  ASSUME Shaped, Resend
  PROVE  /\ Shaped' /\ Posts /\ flights' = flights \cup {Flight(call')}
         /\ call'.req = call.req /\ call'.input = call.input /\ call'.status = "sent" /\ call'.start = call.start
<1>1. call' = [req |-> call.req, try |-> 2, input |-> call.input, status |-> call.status, start |-> call.start]
  BY CallExcept DEF Resend, Shaped, CallIs
<1>2. call.status = "sent"
  BY DEF Resend, InFlight
<1> QED BY <1>1, <1>2 DEF Shaped, CallIs, Posts, Resend

(* GET /v1/operations/{id} tells what became of the operation itself.       *)
LEMMA PollIs ==
  ASSUME Shaped, Poll
  PROVE  /\ Shaped'
         /\ \/ /\ UNCHANGED <<pc, verdict>> /\ Told
               /\ call'.req = call.req /\ call'.input = call.input /\ call'.start = call.start
            \/ End("failed") /\ UNCHANGED call
<1>1. ops' = ops
  BY DEF Poll, daemonVars
<1>2. PICK key : key = call.req
  OBVIOUS
<1>3. CASE Found(key) /\ call' = [call EXCEPT !.status = ops[key].status] /\ UNCHANGED <<pc, verdict>>
  <2>1. call' = [req |-> call.req, try |-> call.try, input |-> call.input,
                 status |-> ops[key].status, start |-> call.start]
    BY <1>3, CallExcept DEF Shaped, CallIs
  <2>2. key \in DOMAIN ops' /\ ops'[key].start = call.start
    BY <1>1, <1>3 DEF Found
  <2>3. Told
    BY <1>1, <1>2, <2>1, <2>2 DEF Told
  <2>4. Shaped'
    BY <2>1 DEF Shaped, CallIs
  <2> QED BY <1>3, <2>1, <2>3, <2>4
<1>4. CASE ~Found(key) /\ End("failed") /\ UNCHANGED call
  BY <1>4 DEF Shaped, CallIs
<1> QED BY <1>2, <1>3, <1>4 DEF Poll, RequestKey

LEMMA CallMoves ==
  ASSUME Shaped, [Next]_vars PROVE Shaped' /\ (UNCHANGED call \/ Posts \/ Told)
<1>1. ASSUME UNCHANGED call PROVE Shaped' /\ (UNCHANGED call \/ Posts \/ Told)
  BY <1>1 DEF Shaped, CallIs
<1>2. CASE Daemon
  <2>1. CASE \E f \in flights : Handle(f)
    BY <2>1, CallHandle
  <2>2. CASE Report \/ (\E n \in OutputReads : Publish(n)) \/ Evict \/ Port
    BY <1>1, <2>2, PortSteps DEF Report, Publish, Evict, clientVars
  <2>3. CASE (\E k \in DOMAIN ops : Forget(k)) \/ \E k \in DOMAIN ops, ok \in BOOLEAN : Finish(k, ok)
    BY <1>1, <2>3 DEF Forget, Finish, clientVars
  <2>4. CASE Restart \/ AnswerEvents
    BY <1>1, <2>4 DEF Restart, AnswerEvents
  <2> QED BY <1>2, <2>1, <2>2, <2>3, <2>4 DEF Daemon
<1>3. CASE Proceed
  <2>1. CASE Submit
    BY <1>1, <2>1, PostIs DEF Submit
  <2>2. CASE Resend
    BY <2>2, ResendIs
  <2>3. CASE GiveUp \/ Wrote
    BY <2>3, IdleCall DEF GiveUp, Wrote
  <2>4. CASE Submitted
    BY <1>1, <2>4, IdleCall DEF Submitted
  <2>5. CASE Waited \/ Drain
    BY <1>1, <2>5, IdleCall DEF Waited, Drain, Continue
  <2>6. CASE GivesUpWaiting \/ OpenOutput \/ \E end \in {"eof", "error"} : StopTransfer(end)
    BY <1>1, <2>6 DEF GivesUpWaiting, OpenOutput, StopTransfer
  <2>7. CASE StartWrite
    <3>1. \E req, input : Post(req, input)
      BY <2>7 DEF StartWrite
    <3> QED BY <3>1, PostIs
  <2>8. CASE Leave \/ Elapsed
    BY <1>1, <2>8 DEF Leave, Elapsed
  <2> QED BY <1>3, <2>1, <2>2, <2>3, <2>4, <2>5, <2>6, <2>7, <2>8 DEF Proceed
<1>4. CASE Poll
  BY <1>1, <1>4, PollIs
<1>5. CASE TakeFlashEvents \/ Transfer \/ TakeEvents \/ Interrupt
  BY <1>1, <1>5 DEF TakeFlashEvents, Transfer, TakeEvents, Interrupt
<1>6. CASE (\E n \in 1 .. ReadSize : ReadInput(n)) \/ ReceiveInput \/ SomebodyWrites
  BY <1>1, <1>6 DEF ReadInput, ReceiveInput, SomebodyWrites
<1>7. CASE Repeat
  BY <1>7, IdleCall DEF Repeat
<1>8. CASE UNCHANGED vars
  BY <1>1, <1>8 DEF vars
<1> QED BY <1>2, <1>3, <1>4, <1>5, <1>6, <1>7, <1>8 DEF Next

LEMMA NowhereReached == ASSUME LogTyped PROVE Reached(Nowhere)
BY DEF LogTyped, Reached, Cursors, Nowhere

LEMMA CallStep ==
  ASSUME LogTyped, LogTyped', Grows \/ Restarts, OpsTrue', CallTrue, [Next]_vars PROVE CallTrue'
<1>1. Shaped /\ call.status \in {"idle", "sent", "running", "succeeded", "failed", "refused"}
  BY DEF CallTrue, Shaped
<1>2. Shaped' /\ (UNCHANGED call \/ Posts \/ Told)
  BY <1>1, CallMoves
<1>3. PICK c : c = call
  OBVIOUS
<1>4. Reached(c.start)' /\ Ended(c.start, c.req, c.status)'
  BY <1>3, Kept DEF CallTrue
<1>5. CASE UNCHANGED call
  BY <1>1, <1>2, <1>3, <1>4, <1>5 DEF CallTrue, Shaped
<1>6. CASE Posts
  <2>1. Reached(Nowhere)'
    BY NowhereReached DEF LogTyped, Reached, Cursors, Nowhere
  <2>2. PICK d : d = call'
    OBVIOUS
  <2>3. d.status \in {"idle", "sent", "refused"} /\ d.start \in {Nowhere, c.start}
    BY <1>3, <1>6, <2>2 DEF Posts
  <2>4. Reached(d.start)' /\ Ended(d.start, d.req, d.status)'
    BY <1>4, <2>1, <2>3 DEF Ended
  <2> QED BY <1>2, <2>2, <2>3, <2>4 DEF CallTrue, Shaped
<1>7. CASE Told
  <2>1. PICK k \in DOMAIN ops' :
          call'.req = k /\ call'.start = ops'[k].start /\ call'.status = ops'[k].status
    BY <1>7 DEF Told
  <2>2. PICK op : op = ops'[k]
    OBVIOUS
  <2>3. OpTrue(k, op)'
    BY <2>2 DEF OpsTrue
  <2>4. PICK d : d = call'
    OBVIOUS
  <2>5. d.req = k /\ d.start = op.start /\ d.status = op.status
    BY <2>1, <2>2, <2>4
  <2>6. Reached(d.start)' /\ Ended(d.start, d.req, d.status)' /\ d.status \in {"running", "succeeded", "failed"}
    BY <2>3, <2>5 DEF OpTrue
  <2> QED BY <1>2, <2>4, <2>6 DEF CallTrue, Shaped
<1> QED BY <1>2, <1>5, <1>6, <1>7

-----------------------------------------------------------------------------
(* The command's own operation. *)

StartMoves ==
  \/ UNCHANGED <<pc, start, call>>
  \/ pc' = "failed" /\ start' = start
  \/ pc' = "submit" /\ start' = Nowhere
  \/ pc' = "posting" /\ start' = start /\ call'.req = 0
  \/ UNCHANGED <<pc, start>> /\ pc = "posting" /\ call'.req = call.req
  \/ UNCHANGED <<pc, start>> /\ pc = "capture"
  \/ UNCHANGED <<pc, start>> /\ pc \notin {"posting", "polling", "flashing"}
  \/ /\ UNCHANGED <<pc, start>> /\ call'.req = call.req /\ call'.start = call.start
     /\ call'.status \in {"running", "succeeded", "failed"}
  \/ /\ pc' \in {"polling", "flashing"} /\ start' = call.start /\ call' = call
     /\ call.req = 0 /\ call.status \in {"running", "succeeded", "failed"}
  \/ /\ pc' \in {"capture", "download", "done"} /\ start' = start
     /\ Ended(start, 0, "succeeded")

(* What follows an operation that succeeded.                                *)
LEMMA ContinueMoves ==
  ASSUME CallTrue, StartTrue, pc \in {"polling", "flashing"}, call.status = "succeeded",
         Continue, start' = start
  PROVE  StartMoves
<1>1. call.req = 0 /\ call.start = start
  BY DEF StartTrue
<1>2. Ended(start, 0, "succeeded")
  BY <1>1 DEF CallTrue
<1>3. pc' \in {"capture", "download", "done"}
  BY DEF Continue, AfterOperation
<1> QED BY <1>2, <1>3 DEF StartMoves

LEMMA StartMovesAlways ==
  ASSUME OpsTrue', CallTrue, StartTrue, [Next]_vars PROVE StartMoves
<1>1. ASSUME UNCHANGED <<pc, start, call>> PROVE StartMoves
  BY <1>1 DEF StartMoves
<1>2. Shaped
  BY DEF CallTrue, Shaped
<1>3. ASSUME Told PROVE call'.status \in {"running", "succeeded", "failed"}
  <2>1. PICK k \in DOMAIN ops' : call'.status = ops'[k].status
    BY <1>3 DEF Told
  <2>2. PICK op : op = ops'[k]
    OBVIOUS
  <2>3. OpTrue(k, op)'
    BY <2>2 DEF OpsTrue
  <2> QED BY <2>1, <2>2, <2>3 DEF OpTrue
<1>4. CASE Daemon
  <2>1. ASSUME NEW f \in flights, Handle(f) PROVE StartMoves
    <3>1. UNCHANGED <<pc, start>>
      BY <2>1 DEF Handle
    <3>2. UNCHANGED call \/ (call.status = "sent" /\ call'.req = call.req)
      BY <1>2, <2>1, CallHandle
    <3> QED BY <3>1, <3>2 DEF StartMoves, StartTrue
  <2>2. CASE Report \/ (\E n \in OutputReads : Publish(n)) \/ Evict \/ Port
    BY <1>1, <2>2, PortSteps DEF Report, Publish, Evict, clientVars
  <2>3. CASE (\E k \in DOMAIN ops : Forget(k)) \/ \E k \in DOMAIN ops, ok \in BOOLEAN : Finish(k, ok)
    BY <1>1, <2>3 DEF Forget, Finish, clientVars
  <2>4. CASE Restart \/ AnswerEvents
    BY <1>1, <2>4 DEF Restart, AnswerEvents
  <2> QED BY <1>4, <2>1, <2>2, <2>3, <2>4 DEF Daemon
<1>5. CASE Proceed
  <2>1. CASE Submit
    <3>1. CASE End("failed")
      BY <2>1, <3>1 DEF Submit, End, StartMoves
    <3>2. CASE pc' = "posting" /\ Post(0, <<>>)
      BY <2>1, <3>2, PostIs DEF Submit, StartMoves
    <3> QED BY <2>1, <3>1, <3>2 DEF Submit
  <2>2. CASE Resend
    BY <1>2, <2>2, ResendIs DEF Resend, InFlight, StartMoves
  <2>3. CASE GiveUp \/ GivesUpWaiting
    BY <2>3 DEF GiveUp, GivesUpWaiting, End, StartMoves
  <2>4. CASE Wrote
    BY <2>4 DEF Wrote, Waiting, End, StartMoves
  <2>5. CASE Submitted
    <3>1. CASE call.status = "refused"
      BY <2>5, <3>1 DEF Submitted, End, StartMoves
    <3>2. CASE call.status # "refused"
      BY <2>5, <3>2 DEF Submitted, Known, StartTrue, StartMoves
    <3> QED BY <3>1, <3>2
  <2>6. CASE Waited
    <3>1. CASE call.status = "failed"
      BY <2>6, <3>1 DEF Waited, End, StartMoves
    <3>2. CASE call.status # "failed"
      BY <2>6, <3>2, ContinueMoves DEF Waited
    <3> QED BY <3>1, <3>2
  <2>7. CASE Drain
    <3>1. CASE ~Served(cursor) \/ call.status = "failed"
      BY <2>7, <3>1 DEF Drain, End, StartMoves
    <3>2. CASE ~(~Served(cursor) \/ call.status = "failed")
      BY <2>7, <3>2, ContinueMoves DEF Drain
    <3> QED BY <3>1, <3>2
  <2>8. CASE OpenOutput \/ \E end \in {"eof", "error"} : StopTransfer(end)
    BY <2>8 DEF OpenOutput, StopTransfer, End, StartMoves, StartTrue
  <2>9. CASE StartWrite
    BY <2>9 DEF StartWrite, StartMoves
  <2>10. CASE Leave \/ Elapsed
    BY <2>10 DEF Leave, Elapsed, Waiting, End, StartMoves, StartTrue
  <2> QED BY <1>5, <2>1, <2>2, <2>3, <2>4, <2>5, <2>6, <2>7, <2>8, <2>9, <2>10 DEF Proceed
<1>6. CASE Poll
  <2>1. start' = start
    BY <1>6 DEF Poll
  <2>2. CASE End("failed")
    BY <2>1, <2>2 DEF End, StartMoves
  <2>3. CASE /\ UNCHANGED <<pc, verdict>> /\ Told
             /\ call'.req = call.req /\ call'.input = call.input /\ call'.start = call.start
    BY <1>3, <2>1, <2>3 DEF StartMoves
  <2> QED BY <1>2, <1>6, <2>2, <2>3, PollIs
<1>7. CASE TakeFlashEvents
  BY <1>7 DEF TakeFlashEvents, End, StartMoves
<1>8. CASE Transfer \/ Interrupt
  BY <1>8 DEF Transfer, Interrupt, End, StartMoves
<1>9. CASE TakeEvents
  BY <1>9 DEF TakeEvents, Waiting, End, StartMoves, StartTrue
<1>10. CASE (\E n \in 1 .. ReadSize : ReadInput(n)) \/ ReceiveInput \/ SomebodyWrites
  BY <1>1, <1>10 DEF ReadInput, ReceiveInput, SomebodyWrites
<1>11. CASE Repeat
  BY <1>11 DEF Repeat, StartMoves
<1>12. CASE UNCHANGED vars
  BY <1>1, <1>12 DEF vars
<1> QED BY <1>4, <1>5, <1>6, <1>7, <1>8, <1>9, <1>10, <1>11, <1>12 DEF Next

LEMMA StartStep ==
  ASSUME LogTyped, LogTyped', Grows \/ Restarts, CallTrue, StartTrue, StartMoves PROVE StartTrue'
<1>1. PICK c : c = start
  OBVIOUS
<1>2. PICK d : d = call.start
  OBVIOUS
<1>3. Reached(c)' /\ Reached(d)'
  BY <1>1, <1>2, Kept DEF StartTrue, CallTrue
<1>4. Reached(Nowhere)'
  BY NowhereReached DEF LogTyped, Reached, Cursors, Nowhere
<1>5. PICK e : e = start'
  OBVIOUS
<1>6. e \in {c, d, Nowhere} => Reached(e)'
  BY <1>3, <1>4
<1>7. Reached(start)'
  BY <1>1, <1>2, <1>5, <1>6 DEF StartMoves
<1>8. Ended(c, 0, "succeeded") => Ended(c, 0, "succeeded")'
  BY <1>1, Kept DEF StartTrue
<1>9. ASSUME pc' \in {"capture", "download", "done"} PROVE e = c /\ Ended(c, 0, "succeeded")
  BY <1>1, <1>5, <1>9 DEF StartMoves, StartTrue
<1>10. ASSUME pc' \in {"capture", "download", "done"} PROVE Ended(start, 0, "succeeded")'
  BY <1>5, <1>8, <1>9, <1>10
<1>11. pc' = "posting" => call'.req = 0
  BY DEF StartMoves, StartTrue
<1>12. pc' \in {"polling", "flashing"} =>
         call'.req = 0 /\ call'.start = start' /\ call'.status \in {"running", "succeeded", "failed"}
  BY DEF StartMoves, StartTrue
<1>13. pc' \in {"submit", "posting", "polling", "flashing", "capture", "download", "done", "failed"}
  BY DEF StartMoves, StartTrue
<1> QED BY <1>7, <1>10, <1>11, <1>12, <1>13 DEF StartTrue

-----------------------------------------------------------------------------
(* The output file and the verdict. *)

LEMMA FileStep == ASSUME FileTrue, [Next]_vars PROVE FileTrue'
<1>1. ASSUME UNCHANGED <<file, pc, verdict>> PROVE FileTrue'
  BY <1>1 DEF FileTrue
<1>2. ASSUME UNCHANGED file, NEW how, End(how), how # "saved", pc # "download", verdict = "none"
      PROVE  FileTrue'
  BY <1>2 DEF FileTrue, End
<1>3. CASE Daemon
  <2>1. CASE \E f \in flights : Handle(f)
    BY <1>1, <2>1 DEF Handle
  <2>2. CASE Report \/ (\E n \in OutputReads : Publish(n)) \/ Evict \/ Port
    BY <1>1, <2>2, PortSteps DEF Report, Publish, Evict, clientVars
  <2>3. CASE (\E k \in DOMAIN ops : Forget(k)) \/ \E k \in DOMAIN ops, ok \in BOOLEAN : Finish(k, ok)
    BY <1>1, <2>3 DEF Forget, Finish, clientVars
  <2>4. CASE Restart \/ AnswerEvents
    BY <1>1, <2>4 DEF Restart, AnswerEvents
  <2> QED BY <1>3, <2>1, <2>2, <2>3, <2>4 DEF Daemon
<1>4. CASE Proceed
  <2>1. CASE Submit
    <3>1. CASE End("failed")
      BY <2>1, <3>1 DEF Submit, End, FileTrue
    <3>2. CASE pc' = "posting" /\ UNCHANGED verdict
      BY <2>1, <3>2 DEF Submit, FileTrue
    <3> QED BY <2>1, <3>1, <3>2 DEF Submit
  <2>2. CASE Resend
    BY <1>1, <2>2 DEF Resend
  <2>3. CASE GiveUp
    BY <2>3 DEF GiveUp, InFlight, End, FileTrue
  <2>4. CASE GivesUpWaiting
    BY <2>4 DEF GivesUpWaiting, End, FileTrue
  <2>5. CASE Wrote
    BY <2>5 DEF Wrote, Waiting, End, FileTrue
  <2>6. CASE Submitted
    BY <2>6 DEF Submitted, End, FileTrue
  <2>7. CASE Waited
    BY <2>7 DEF Waited, Continue, AfterOperation, End, FileTrue
  <2>8. CASE Drain
    BY <2>8 DEF Drain, Continue, AfterOperation, End, FileTrue
  <2>9. CASE OpenOutput
    BY <2>9 DEF OpenOutput, End, FileTrue
  <2>10. ASSUME NEW end \in {"eof", "error"}, StopTransfer(end) PROVE FileTrue'
    <3>1. CASE end = "eof" /\ file.chunks = Chunks /\ End("saved") /\ UNCHANGED file
      BY <2>10, <3>1 DEF StopTransfer, End, FileTrue
    <3>2. CASE End("failed") /\ file' = Nobody
      BY <2>10, <3>2 DEF StopTransfer, End, FileTrue, Nobody
    <3> QED BY <2>10, <3>1, <3>2 DEF StopTransfer
  <2>11. CASE StartWrite
    BY <1>1, <2>11 DEF StartWrite
  <2>12. CASE Leave \/ Elapsed
    BY <2>12 DEF Leave, Elapsed, Waiting, End, FileTrue
  <2> QED BY <1>4, <2>1, <2>2, <2>3, <2>4, <2>5, <2>6, <2>7, <2>8, <2>9, <2>10, <2>11, <2>12 DEF Proceed
<1>5. CASE Poll
  BY <1>5 DEF Poll, End, FileTrue
<1>6. CASE TakeFlashEvents
  BY <1>6 DEF TakeFlashEvents, End, FileTrue
<1>7. CASE Transfer
  BY <1>7 DEF Transfer, FileTrue
<1>8. CASE Interrupt
  BY <1>8 DEF Interrupt, Waiting, End, FileTrue
<1>9. CASE TakeEvents
  BY <1>9 DEF TakeEvents, Waiting, End, FileTrue
<1>10. CASE (\E n \in 1 .. ReadSize : ReadInput(n)) \/ ReceiveInput
  BY <1>1, <1>10 DEF ReadInput, ReceiveInput
<1>11. CASE SomebodyWrites
  BY <1>11 DEF SomebodyWrites, FileTrue, Somebody, Nobody
<1>12. CASE Repeat
  BY <1>12 DEF Repeat, FileTrue
<1>13. CASE UNCHANGED vars
  BY <1>1, <1>13 DEF vars
<1> QED BY <1>3, <1>4, <1>5, <1>6, <1>7, <1>8, <1>9, <1>10, <1>11, <1>12, <1>13 DEF Next

-----------------------------------------------------------------------------
(* Events that were answered. *)

(* The request is new or given up, with a cursor the client was given or    *)
(* the one behind what it has taken.                                        *)
AskedMoves ==
  \/ UNCHANGED <<asked, cursor>>
  \/ AnswerEvents
  \/ /\ asked'.batch = <<>> /\ asked'.state # "answered"
     /\ \/ cursor' \in {cursor, start, call.start, Nowhere}
        \/ asked.state = "answered" /\ cursor' = Behind(cursor, asked.batch)

LEMMA NoBatch ==
  /\ NotAsked.batch = <<>> /\ NotAsked.state # "answered"
  /\ Asking.batch = <<>> /\ Asking.state # "answered"
  /\ [Asking EXCEPT !.state = "error"].batch = <<>> /\ [Asking EXCEPT !.state = "error"].state # "answered"
BY DEF NotAsked, Asking

LEMMA AskedMovesAlways == ASSUME [Next]_vars PROVE AskedMoves
<1>1. ASSUME UNCHANGED <<asked, cursor>> PROVE AskedMoves
  BY <1>1 DEF AskedMoves
<1>2. ASSUME asked' \in {NotAsked, Asking, [Asking EXCEPT !.state = "error"]},
             \/ cursor' \in {cursor, start, call.start, Nowhere}
             \/ asked.state = "answered" /\ cursor' = Behind(cursor, asked.batch)
      PROVE AskedMoves
  BY <1>2, NoBatch DEF AskedMoves
<1>3. CASE Daemon
  <2>1. CASE \E f \in flights : Handle(f)
    BY <1>1, <2>1 DEF Handle, shownVars
  <2>2. CASE Report \/ (\E n \in OutputReads : Publish(n)) \/ Evict \/ Port
    BY <1>1, <2>2, PortSteps DEF Report, Publish, Evict, clientVars, shownVars
  <2>3. CASE (\E k \in DOMAIN ops : Forget(k)) \/ \E k \in DOMAIN ops, ok \in BOOLEAN : Finish(k, ok)
    BY <1>1, <2>3 DEF Forget, Finish, clientVars, shownVars
  <2>4. CASE Restart
    BY <1>1, <1>2, <2>4 DEF Restart
  <2>5. CASE AnswerEvents
    BY <2>5 DEF AskedMoves
  <2> QED BY <1>3, <2>1, <2>2, <2>3, <2>4, <2>5 DEF Daemon
<1>4. CASE Proceed
  <2>1. CASE Submit \/ Resend \/ GiveUp \/ GivesUpWaiting \/ Wrote \/ OpenOutput \/ Leave \/ Elapsed
    BY <1>1, <2>1 DEF Submit, Resend, GiveUp, GivesUpWaiting, Wrote, OpenOutput, Leave, Elapsed, shownVars
  <2>2. CASE StartWrite \/ \E end \in {"eof", "error"} : StopTransfer(end)
    BY <1>1, <2>2 DEF StartWrite, StopTransfer, shownVars
  <2>3. CASE Submitted
    BY <1>1, <1>2, <2>3 DEF Submitted
  <2>4. ASSUME Continue PROVE AskedMoves
    BY <1>2, <2>4 DEF Continue
  <2>5. CASE Waited
    BY <1>1, <2>4, <2>5 DEF Waited
  <2>6. CASE Drain
    BY <1>1, <2>4, <2>6 DEF Drain
  <2> QED BY <1>4, <2>1, <2>2, <2>3, <2>5, <2>6 DEF Proceed
<1>5. CASE Poll \/ Transfer \/ Interrupt
  BY <1>1, <1>5 DEF Poll, Transfer, Interrupt, shownVars
<1>6. CASE TakeFlashEvents
  BY <1>1, <1>2, <1>6 DEF TakeFlashEvents
<1>7. CASE TakeEvents
  BY <1>1, <1>2, <1>7 DEF TakeEvents
<1>8. CASE (\E n \in 1 .. ReadSize : ReadInput(n)) \/ ReceiveInput \/ SomebodyWrites
  BY <1>1, <1>8 DEF ReadInput, ReceiveInput, SomebodyWrites, shownVars
<1>9. CASE Repeat
  BY <1>2, <1>9 DEF Repeat
<1>10. CASE UNCHANGED vars
  BY <1>1, <1>10 DEF vars, shownVars
<1> QED BY <1>3, <1>4, <1>5, <1>6, <1>7, <1>8, <1>9, <1>10 DEF Next

LEMMA BatchKept ==
  ASSUME LogTyped, LogTyped', Grows \/ Restarts, NEW c, Reached(c),
         NEW S, NEW batch \in Seq(S), BatchTrue(c, batch)
  PROVE  BatchTrue(c, batch)'
<1>1. c.epoch \in Nat /\ c.after \in Nat /\ epoch \in Nat /\ c.epoch <= epoch
  BY DEF Reached, Cursors, LogTyped
<1>2. CASE Restarts
  BY <1>1, <1>2 DEF Restarts, BatchTrue
<1>3. CASE Grows
  <2>1. SUFFICES ASSUME c.epoch = epoch
        PROVE /\ c.after + Len(batch) <= Len(log')
              /\ \A i \in 1 .. Len(batch) : batch[i] = log'[c.after + i]
    BY <1>3 DEF BatchTrue, Grows
  <2>2. c.after + Len(batch) <= Len(log) /\ Len(log) <= Len(log') /\ Len(log) \in Nat /\ Len(log') \in Nat
    BY <1>3, <2>1 DEF BatchTrue, LogTyped, Grows
  <2>3. ASSUME NEW i \in 1 .. Len(batch) PROVE batch[i] = log'[c.after + i]
    <3>1. c.after + i \in 1 .. Len(log)
      BY <1>1, <2>2
    <3>2. log'[c.after + i] = log[c.after + i]
      BY <1>3, <3>1 DEF Grows
    <3> QED BY <2>1, <3>2 DEF BatchTrue
  <2> QED BY <1>1, <2>2, <2>3
<1> QED BY <1>2, <1>3

LEMMA BehindReached ==
  ASSUME LogTyped, NEW c, Reached(c), NEW S, NEW batch \in Seq(S), BatchTrue(c, batch)
  PROVE  /\ Reached(Behind(c, batch)) /\ Behind(c, batch).epoch = c.epoch
         /\ Behind(c, batch).after = c.after + Len(batch)
<1>1. PICK n \in Nat : n = Len(batch)
  OBVIOUS
<1>2. c \in Cursors /\ c.after \in Nat
  BY DEF Reached, Cursors
<1>3. PICK d : d = [c EXCEPT !.after = @ + n]
  OBVIOUS
<1>4. d \in Cursors /\ d.epoch = c.epoch /\ d.after = c.after + n
  BY <1>2, <1>3 DEF Cursors
<1>5. Reached(d)
  BY <1>1, <1>4 DEF Reached, BatchTrue
<1> QED BY <1>1, <1>3, <1>4, <1>5 DEF Behind

LEMMA NoBatchTrue == ASSUME NEW c, LogTyped, Reached(c) PROVE BatchTrue(c, <<>>)
BY DEF BatchTrue, Reached, Cursors, LogTyped

LEMMA AnswerTrue ==
  ASSUME LogTyped, AskedTrue, AnswerEvents
  PROVE  /\ asked'.batch \in Seq(ToSet(asked'.batch)) /\ UNCHANGED <<cursor, epoch, log>>
         /\ asked'.state = "answered" => BatchTrue(cursor, asked'.batch)
<1>1. UNCHANGED <<cursor, epoch, log>>
  BY DEF AnswerEvents, daemonVars
<1>2. CASE Served(cursor) /\ asked' = [state |-> "answered", batch |-> After(cursor)]
  <2>1. cursor.after \in 0 .. Len(log) /\ cursor.after \in Nat
    BY <1>2 DEF Served, AskedTrue, Reached, Cursors
  <2>2. PICK n \in 0 .. Len(log) : n = cursor.after
    BY <2>1
  <2>3. PICK batch : batch = SubSeq(log, n + 1, Len(log))
    OBVIOUS
  <2>4. /\ batch \in Seq(ToSet(log)) /\ DOMAIN batch = 1 .. Len(log) - n
        /\ \A i \in 1 .. Len(log) - n : i + n \in DOMAIN log /\ batch[i] = log[i + n]
    <3>1. log \in Seq(ToSet(log)) /\ n \in 0 .. Len(log)
      BY <2>2 DEF LogTyped
    <3>2. /\ SubSeq(log, n + 1, Len(log)) \in Seq(ToSet(log))
          /\ DOMAIN SubSeq(log, n + 1, Len(log)) = 1 .. Len(log) - n
          /\ \A i \in 1 .. Len(log) - n :
               i + n \in DOMAIN log /\ SubSeq(log, n + 1, Len(log))[i] = log[i + n]
      BY <3>1, SuffixOf
    <3> QED BY <2>3, <3>2
  <2>5. Len(batch) = Len(log) - n /\ Len(log) \in Nat
    <3>1. Len(log) \in Nat /\ Len(log) - n \in Nat
      BY <2>2 DEF LogTyped
    <3>2. Len(batch) \in Nat /\ DOMAIN batch = 1 .. Len(batch)
      BY <2>4
    <3> QED BY <2>4, <3>1, <3>2
  <2>6. BatchTrue(cursor, batch)
    BY <2>2, <2>4, <2>5 DEF BatchTrue
  <2>7. batch \in Seq(ToSet(batch))
    BY <2>4, OwnSet
  <2>8. asked'.batch = batch
    BY <1>2, <2>2, <2>3 DEF After
  <2> QED BY <1>1, <2>6, <2>7, <2>8
<1>3. CASE asked' = [Asking EXCEPT !.state = "error"]
  <2>1. asked'.batch = <<>> /\ asked'.state # "answered"
    BY <1>3, NoBatch
  <2>2. <<>> \in Seq(ToSet(<<>>))
    OBVIOUS
  <2> QED BY <1>1, <2>1, <2>2
<1> QED BY <1>2, <1>3 DEF AnswerEvents

LEMMA AskedStep ==
  ASSUME LogTyped, LogTyped', Grows \/ Restarts, CallTrue, StartTrue, AskedTrue, AskedMoves
  PROVE  AskedTrue'
<1>1. PICK c : c = cursor
  OBVIOUS
<1>2. PICK batch : batch = asked.batch
  OBVIOUS
<1>3. Reached(c) /\ batch \in Seq(ToSet(batch))
  BY <1>1, <1>2 DEF AskedTrue
<1>4. Reached(c)'
  BY <1>3, Kept
<1>5. CASE UNCHANGED <<asked, cursor>>
  <2>1. asked.state = "answered" => BatchTrue(c, batch)'
    BY <1>1, <1>2, <1>3, BatchKept DEF AskedTrue
  <2> QED BY <1>1, <1>2, <1>3, <1>4, <1>5, <2>1 DEF AskedTrue
<1>6. CASE AnswerEvents
  <2>1. PICK given : given = asked'.batch
    OBVIOUS
  <2>2. given \in Seq(ToSet(given)) /\ (asked'.state = "answered" => BatchTrue(c, given)) /\ cursor' = c
    BY <1>1, <1>6, <2>1, AnswerTrue
  <2>3. asked'.state = "answered" => BatchTrue(c, given)'
    BY <1>3, <2>2, BatchKept
  <2> QED BY <1>4, <2>1, <2>2, <2>3 DEF AskedTrue
<1>7. CASE /\ asked'.batch = <<>> /\ asked'.state # "answered"
           /\ \/ cursor' \in {cursor, start, call.start, Nowhere}
              \/ asked.state = "answered" /\ cursor' = Behind(cursor, asked.batch)
  <2>1. PICK d : d = cursor'
    OBVIOUS
  <2>2. Reached(d)
    <3>1. CASE cursor' \in {cursor, start, call.start, Nowhere}
      BY <1>1, <1>3, <2>1, <3>1, NowhereReached DEF StartTrue, CallTrue
    <3>2. CASE asked.state = "answered" /\ cursor' = Behind(cursor, asked.batch)
      <4>1. BatchTrue(c, batch) /\ d = Behind(c, batch)
        BY <1>1, <1>2, <2>1, <3>2 DEF AskedTrue
      <4> QED BY <1>3, <4>1, BehindReached
    <3> QED BY <1>7, <3>1, <3>2
  <2>3. Reached(d)'
    BY <2>2, Kept
  <2>4. <<>> \in Seq(ToSet(<<>>))
    OBVIOUS
  <2> QED BY <1>7, <2>1, <2>3, <2>4 DEF AskedTrue
<1> QED BY <1>5, <1>6, <1>7 DEF AskedMoves

(* The client asks from the start of its operation on.                      *)
LEMMA CursorStep ==
  ASSUME LogTyped, CallTrue, StartTrue, AskedTrue, CursorTrue, [Next]_vars PROVE CursorTrue'
<1>1. ASSUME UNCHANGED <<pc, cursor, start>> PROVE CursorTrue'
  BY <1>1 DEF CursorTrue
<1>2. ASSUME pc' \notin {"flashing", "capture"} PROVE CursorTrue'
  BY <1>2 DEF CursorTrue
<1>3. ASSUME UNCHANGED start, pc \in {"flashing", "capture"}, asked.state = "answered",
             cursor' = Behind(cursor, asked.batch)
      PROVE CursorTrue'
  <2>1. PICK n \in Nat : n = Len(asked.batch)
    BY DEF AskedTrue
  <2>2. cursor'.epoch = cursor.epoch /\ cursor'.after = cursor.after + n
    BY <1>3, <2>1, BehindReached DEF AskedTrue
  <2>3. start.after \in Nat /\ cursor.after \in Nat
    BY DEF StartTrue, AskedTrue, Reached, Cursors
  <2> QED BY <1>3, <2>2, <2>3 DEF CursorTrue
<1>4. ASSUME Continue, start' = start PROVE CursorTrue'
  <2>1. start.after \in Nat
    BY DEF StartTrue, Reached, Cursors
  <2>2. pc' = "capture" => cursor' = start
    BY <1>4 DEF Continue, AfterOperation
  <2>3. pc' # "flashing"
    BY <1>4 DEF Continue, AfterOperation
  <2> QED BY <1>4, <2>1, <2>2, <2>3 DEF CursorTrue
<1>5. CASE Daemon
  <2>1. CASE \E f \in flights : Handle(f)
    BY <1>1, <2>1 DEF Handle, shownVars
  <2>2. CASE Report \/ (\E n \in OutputReads : Publish(n)) \/ Evict \/ Port
    BY <1>1, <2>2, PortSteps DEF Report, Publish, Evict, clientVars, shownVars
  <2>3. CASE (\E k \in DOMAIN ops : Forget(k)) \/ \E k \in DOMAIN ops, ok \in BOOLEAN : Finish(k, ok)
    BY <1>1, <2>3 DEF Forget, Finish, clientVars, shownVars
  <2>4. CASE Restart \/ AnswerEvents
    BY <1>1, <2>4 DEF Restart, AnswerEvents
  <2> QED BY <1>5, <2>1, <2>2, <2>3, <2>4 DEF Daemon
<1>6. CASE Proceed
  <2>1. CASE Submit \/ GiveUp \/ GivesUpWaiting \/ OpenOutput \/ Leave \/ Elapsed
    BY <1>1, <1>2, <2>1 DEF Submit, GiveUp, GivesUpWaiting, OpenOutput, Leave, Elapsed, End, shownVars
  <2>2. CASE StartWrite \/ Wrote \/ Resend
    BY <1>1, <1>2, <2>2 DEF StartWrite, Wrote, Resend, End, shownVars
  <2>3. CASE \E end \in {"eof", "error"} : StopTransfer(end)
    BY <1>2, <2>3 DEF StopTransfer, End
  <2>4. CASE Submitted
    <3>1. CASE call.status = "refused"
      BY <1>2, <2>4, <3>1 DEF Submitted, End
    <3>2. CASE call.status # "refused" /\ cmd.kind # "flash"
      BY <1>2, <2>4, <3>2 DEF Submitted
    <3>3. CASE call.status # "refused" /\ cmd.kind = "flash"
      <4>1. cursor' = call.start /\ start' = call.start /\ call.start.after \in Nat
        BY <2>4, <3>3 DEF Submitted, CallTrue, Reached, Cursors
      <4> QED BY <4>1 DEF CursorTrue
    <3> QED BY <3>1, <3>2, <3>3
  <2>5. CASE Waited
    BY <1>2, <1>4, <2>5 DEF Waited, End
  <2>6. CASE Drain
    BY <1>2, <1>4, <2>6 DEF Drain, End
  <2> QED BY <1>6, <2>1, <2>2, <2>3, <2>4, <2>5, <2>6 DEF Proceed
<1>7. CASE Poll \/ Transfer \/ Interrupt
  BY <1>1, <1>2, <1>7 DEF Poll, Transfer, Interrupt, End, shownVars
<1>8. CASE TakeFlashEvents
  BY <1>1, <1>2, <1>3, <1>8 DEF TakeFlashEvents, End
<1>9. CASE TakeEvents
  BY <1>1, <1>2, <1>3, <1>9 DEF TakeEvents, Waiting, End
<1>10. CASE (\E n \in 1 .. ReadSize : ReadInput(n)) \/ ReceiveInput \/ SomebodyWrites
  BY <1>1, <1>10 DEF ReadInput, ReceiveInput, SomebodyWrites, shownVars
<1>11. CASE Repeat
  BY <1>2, <1>11 DEF Repeat
<1>12. CASE UNCHANGED vars
  BY <1>1, <1>12 DEF vars, shownVars
<1> QED BY <1>5, <1>6, <1>7, <1>8, <1>9, <1>10, <1>11, <1>12 DEF Next

-----------------------------------------------------------------------------
(* The line that has come. *)

(* Only the capture loop reports a match, and a command that has ended      *)
(* asks for nothing more.                                                   *)
LEMMA MatchMoves ==
  ASSUME FileTrue, [Next]_vars, verdict' = "matched"
  PROVE  TakeEvents \/ (UNCHANGED <<verdict, cursor, start>> /\ verdict = "matched")
<1>1. ASSUME UNCHANGED <<verdict, cursor, start>> PROVE UNCHANGED <<verdict, cursor, start>> /\ verdict = "matched"
  BY <1>1
<1>2. verdict = "matched" => pc \in {"done", "failed"}
  BY DEF FileTrue
<1>3. CASE Daemon
  <2>1. CASE \E f \in flights : Handle(f)
    BY <1>1, <2>1 DEF Handle, shownVars
  <2>2. CASE Report \/ (\E n \in OutputReads : Publish(n)) \/ Evict \/ Port
    BY <1>1, <2>2, PortSteps DEF Report, Publish, Evict, clientVars, shownVars
  <2>3. CASE (\E k \in DOMAIN ops : Forget(k)) \/ \E k \in DOMAIN ops, ok \in BOOLEAN : Finish(k, ok)
    BY <1>1, <2>3 DEF Forget, Finish, clientVars, shownVars
  <2>4. CASE Restart \/ AnswerEvents
    BY <1>1, <2>4 DEF Restart, AnswerEvents
  <2> QED BY <1>3, <2>1, <2>2, <2>3, <2>4 DEF Daemon
<1>4. CASE Proceed
  <2>1. CASE Submit \/ GiveUp \/ GivesUpWaiting \/ OpenOutput \/ Leave \/ Elapsed
    BY <1>1, <2>1 DEF Submit, GiveUp, GivesUpWaiting, OpenOutput, Leave, Elapsed, End, shownVars
  <2>2. CASE StartWrite \/ Wrote \/ Resend
    BY <1>1, <2>2 DEF StartWrite, Wrote, Resend, End, shownVars
  <2>3. CASE \E end \in {"eof", "error"} : StopTransfer(end)
    BY <2>3 DEF StopTransfer, End
  <2>4. CASE Submitted
    BY <1>2, <2>4 DEF Submitted, End
  <2>5. CASE Waited
    BY <1>2, <2>5 DEF Waited, Continue, End
  <2>6. CASE Drain
    BY <1>2, <2>6 DEF Drain, Continue, End
  <2> QED BY <1>4, <2>1, <2>2, <2>3, <2>4, <2>5, <2>6 DEF Proceed
<1>5. CASE Poll \/ Transfer \/ Interrupt
  BY <1>1, <1>5 DEF Poll, Transfer, Interrupt, End, shownVars
<1>6. CASE TakeFlashEvents
  BY <1>2, <1>6 DEF TakeFlashEvents, End
<1>7. CASE TakeEvents
  BY <1>7
<1>8. CASE (\E n \in 1 .. ReadSize : ReadInput(n)) \/ ReceiveInput \/ SomebodyWrites
  BY <1>1, <1>8 DEF ReadInput, ReceiveInput, SomebodyWrites, shownVars
<1>9. CASE Repeat
  BY <1>9 DEF Repeat
<1>10. CASE UNCHANGED vars
  BY <1>1, <1>10 DEF vars, shownVars
<1> QED BY <1>3, <1>4, <1>5, <1>6, <1>7, <1>8, <1>9, <1>10 DEF Next

LEMMA MatchStep ==
  ASSUME LogTyped, LogTyped', Grows \/ Restarts, StartTrue, FileTrue, AskedTrue, CursorTrue,
         MatchTrue, [Next]_vars
  PROVE  MatchTrue'
<1>1. SUFFICES ASSUME verdict' = "matched", start'.epoch = epoch'
      PROVE cursor'.epoch = epoch' /\ \E n \in start'.after + 1 .. cursor'.after : Matches(log'[n])
  BY DEF MatchTrue, Matches
<1>2. CASE UNCHANGED <<verdict, cursor, start>> /\ verdict = "matched"
  <2>1. start.epoch \in Nat /\ start.epoch <= epoch /\ epoch \in Nat
    BY DEF StartTrue, Reached, Cursors, LogTyped
  <2>2. Grows /\ epoch' = epoch
    BY <1>1, <1>2, <2>1 DEF Grows, Restarts
  <2>3. PICK n \in start.after + 1 .. cursor.after : Matches(log[n])
    BY <1>1, <1>2, <2>2 DEF MatchTrue
  <2>4. cursor.epoch = epoch
    BY <1>1, <1>2, <2>2 DEF MatchTrue
  <2>5. n \in 1 .. Len(log)
    BY SMTT(30), <2>4 DEF StartTrue, AskedTrue, Reached, Cursors, LogTyped
  <2>6. log'[n] = log[n]
    BY <2>2, <2>5 DEF Grows
  <2> QED BY <1>2, <2>2, <2>3, <2>4, <2>6 DEF Matches
<1>3. CASE TakeEvents
  <2>1. /\ pc = "capture" /\ asked.state = "answered" /\ cursor' = Behind(cursor, asked.batch)
        /\ \E i \in DOMAIN asked.batch : Matches(asked.batch[i])
        /\ UNCHANGED <<log, epoch, start>>
    <3>1. pc = "capture" /\ verdict # "matched" /\ UNCHANGED <<log, epoch, start>>
      BY <1>3 DEF TakeEvents, Waiting, daemonVars, FileTrue
    <3>2. "matched" # "failed"
      OBVIOUS
    <3> QED BY <1>1, <1>3, <3>1, <3>2 DEF TakeEvents, End
  <2>2. PICK i \in DOMAIN asked.batch : Matches(asked.batch[i])
    BY <2>1
  <2>3. cursor.epoch = epoch /\ start.after <= cursor.after /\ start.after \in Nat /\ cursor.after \in Nat
    BY <1>1, <2>1 DEF CursorTrue, StartTrue, AskedTrue, Reached, Cursors
  <2>4. PICK m \in Nat : m = Len(asked.batch)
    BY DEF AskedTrue
  <2>5. i \in 1 .. m /\ i \in Nat
    BY <2>2, <2>4 DEF AskedTrue
  <2>6. asked.batch[i] = log[cursor.after + i]
    BY <2>1, <2>3, <2>4, <2>5 DEF AskedTrue, BatchTrue
  <2>7. cursor'.epoch = cursor.epoch /\ cursor'.after = cursor.after + m
    BY <2>1, <2>4, BehindReached DEF AskedTrue
  <2>8. cursor.after + i \in start.after + 1 .. cursor'.after
    BY <2>3, <2>5, <2>7
  <2>9. Matches(log'[cursor.after + i])
    BY <2>1, <2>2, <2>6
  <2> QED BY <2>1, <2>3, <2>7, <2>8, <2>9
<1> QED BY <1>1, <1>2, <1>3, MatchMoves

-----------------------------------------------------------------------------
(* Every report is true. *)

LEMMA ReportStart == ASSUME ClientAssumption, Init PROVE ReportInv
<1>1. epoch = 1 /\ log = <<>> /\ evicted = 0 /\ said = 0 /\ unfinished = <<>> /\ cmd \in Commands
  BY DEF Init
<1>2. LogTyped
  <2>1. <<>> \in Seq(ToSet(<<>>)) /\ <<>> \in Seq(ToSet(cmd.output)) /\ Len(cmd.output) \in Nat
    BY <1>1 DEF ClientAssumption
  <2> QED BY <1>1, <2>1 DEF LogTyped
<1>3. OpsTrue
  BY DEF Init, OpsTrue
<1>4. Reached(Nowhere)
  BY <1>2, NowhereReached
<1>5. CallTrue
  <2>1. call = Idle
    BY DEF Init
  <2> QED BY <1>4, <2>1, IdleIs DEF CallTrue, CallIs, Idle, Ended
<1>6. StartTrue
  <2>1. start = Nowhere /\ pc = "submit"
    BY DEF Init
  <2> QED BY <1>4, <2>1 DEF StartTrue
<1>7. FileTrue
  <2>1. verdict = "none" /\ file \in {Nobody, Somebody}
    BY DEF Init
  <2> QED BY <2>1 DEF FileTrue, Nobody, Somebody
<1>8. AskedTrue
  <2>1. asked.batch = <<>> /\ asked.state # "answered" /\ cursor = Nowhere
    BY NoBatch DEF Init
  <2>2. <<>> \in Seq(ToSet(<<>>))
    OBVIOUS
  <2> QED BY <1>4, <2>1, <2>2 DEF AskedTrue
<1>9. CursorTrue /\ MatchTrue
  BY DEF Init, CursorTrue, MatchTrue
<1> QED BY <1>2, <1>3, <1>5, <1>6, <1>7, <1>8, <1>9 DEF ReportInv

LEMMA ReportStep == ASSUME ClientAssumption, ReportInv, [Next]_vars PROVE ReportInv'
<1>1. /\ LogTyped /\ OpsTrue /\ CallTrue /\ StartTrue /\ FileTrue
      /\ AskedTrue /\ CursorTrue /\ MatchTrue
  BY DEF ReportInv
<1>2. LogTyped' /\ (Grows \/ Restarts)
  BY <1>1, LogStep
<1>3. OpsTrue'
  BY <1>1, <1>2, OpsStep
<1>4. CallTrue'
  BY <1>1, <1>2, <1>3, CallStep
<1>5. StartTrue'
  BY <1>1, <1>2, <1>3, StartMovesAlways, StartStep
<1>6. FileTrue'
  BY <1>1, FileStep
<1>7. AskedTrue'
  BY <1>1, <1>2, AskedMovesAlways, AskedStep
<1>8. CursorTrue' /\ MatchTrue'
  BY <1>1, <1>2, CursorStep, MatchStep
<1> QED BY <1>2, <1>3, <1>4, <1>5, <1>6, <1>7, <1>8 DEF ReportInv

-----------------------------------------------------------------------------
(* Pieces of the input. *)

LEMMA PartIs ==
  ASSUME ClientAssumption, cmd \in Commands,
         NEW a \in Nat, NEW b \in 0 .. Len(cmd.input), a <= b
  PROVE  /\ Part(a, b) \in Seq(ToSet(cmd.input)) /\ Len(Part(a, b)) = b - a
         /\ \A i \in 1 .. b - a : a + i \in 1 .. Len(cmd.input) /\ Part(a, b)[i] = cmd.input[a + i]
<1>1. cmd.input \in Seq(ToSet(cmd.input))
  BY DEF ClientAssumption
<1> QED BY <1>1, PartOf DEF Part

LEMMA PartNone == ASSUME NEW a \in Nat PROVE Part(a, a) = <<>>
BY SubSeqEmpty DEF Part

LEMMA PartsMeet ==
  ASSUME ClientAssumption, cmd \in Commands,
         NEW a \in Nat, NEW b \in Nat, NEW c \in 0 .. Len(cmd.input), a <= b, b <= c
  PROVE  Part(a, b) \o Part(b, c) = Part(a, c)
<1>1. cmd.input \in Seq(ToSet(cmd.input))
  BY DEF ClientAssumption
<1>2. /\ a + 1 \in 1 .. Len(cmd.input) + 1 /\ b \in (a + 1) - 1 .. Len(cmd.input)
      /\ c \in b .. Len(cmd.input)
  BY <1>1
<1> QED BY <1>1, <1>2, ConcatAdjacentSubSeq DEF Part

LEMMA PartOfAPart ==
  ASSUME ClientAssumption, cmd \in Commands,
         NEW a \in Nat, NEW b \in 0 .. Len(cmd.input), a <= b,
         NEW x \in Nat, NEW y \in 0 .. b - a, x <= y
  PROVE  SubSeq(Part(a, b), x + 1, y) = Part(a + x, a + y)
<1>1. cmd.input \in Seq(ToSet(cmd.input))
  BY DEF ClientAssumption
<1> QED BY <1>1, PartOfPart DEF Part

LEMMA PartEnd ==
  ASSUME ClientAssumption, cmd \in Commands,
         NEW a \in Nat, NEW b \in 0 .. Len(cmd.input), a <= b, NEW x \in 0 .. b - a
  PROVE  SubSeq(Part(a, b), x + 1, b - a) = Part(a + x, b)
<1>1. PICK w \in Nat : w = x
  OBVIOUS
<1>2. PICK y \in 0 .. b - a : y = b - a
  OBVIOUS
<1>3. w <= y /\ a + y = b
  BY <1>1, <1>2
<1>4. SubSeq(Part(a, b), w + 1, y) = Part(a + w, a + y)
  BY <1>3, PartOfAPart, ZenonT(30)
<1> QED BY <1>1, <1>2, <1>3, <1>4

LEMMA PartStart ==
  ASSUME ClientAssumption, cmd \in Commands,
         NEW a \in Nat, NEW b \in 0 .. Len(cmd.input), a <= b, NEW y \in 0 .. b - a
  PROVE  SubSeq(Part(a, b), 1, y) = Part(a, a + y)
<1>1. PICK z \in Nat : z = 0
  OBVIOUS
<1>2. z <= y /\ z + 1 = 1 /\ a + z = a
  BY <1>1
<1>3. SubSeq(Part(a, b), z + 1, y) = Part(a + z, a + y)
  BY ZenonT(30), <1>2, PartOfAPart
<1> QED BY <1>2, <1>3

LEMMA LeastIs ==
  ASSUME NEW I \in SUBSET Nat, I # {} PROVE Min(I) \in I /\ \A n \in I : Min(I) <= n
<1>1. \E x \in I : \A y \in I : x <= y
  BY LeastNumber
<1> QED BY <1>1 DEF Min

(* Where a byte is first.                                                   *)
First(s, e) ==
  LET I == {i \in 1 .. Len(s) : s[i] = e} IN IF I # {} THEN Min(I) ELSE 0

LEMMA FirstIs ==
  ASSUME NEW S, NEW s \in Seq(S), NEW e, Contains(s, e)
  PROVE  /\ First(s, e) \in 1 .. Len(s) /\ s[First(s, e)] = e
         /\ \A i \in 1 .. First(s, e) - 1 : s[i] # e
<1>1. PICK I : I = {i \in 1 .. Len(s) : s[i] = e}
  OBVIOUS
<1>2. I \in SUBSET Nat /\ I # {}
  BY <1>1 DEF Contains
<1>3. PICK m \in I : m = Min(I) /\ \A n \in I : m <= n
  BY <1>2, LeastIs
<1>4. First(s, e) = m
  BY <1>1, <1>2, <1>3 DEF First
<1>5. m \in 1 .. Len(s) /\ s[m] = e
  BY <1>1, <1>3
<1>6. \A i \in 1 .. m - 1 : s[i] # e
  <2>1. SUFFICES ASSUME NEW i \in 1 .. m - 1, s[i] = e PROVE FALSE
    OBVIOUS
  <2>2. i \in 1 .. Len(s) /\ ~(m <= i)
    BY <1>5
  <2>3. i \in I
    BY <1>1, <2>1, <2>2
  <2> QED BY <1>3, <2>2, <2>3
<1> QED BY <1>4, <1>5, <1>6

LEMMA BeforeIs ==
  BeforeExit = IF cmd.terminal /\ Contains(cmd.input, Exit)
                 THEN SubSeq(cmd.input, 1, First(cmd.input, Exit) - 1) ELSE cmd.input
BY DEF BeforeExit, SelectInSeq, First

(* A terminal's exit byte is the one behind the input that counts.          *)
LEMMA BeforeExitIs ==
  ASSUME ClientAssumption, cmd \in Commands
  PROVE  \E last \in 0 .. Len(cmd.input) :
           /\ last = Len(BeforeExit) /\ BeforeExit = Part(0, last) /\ last <= MaxInput
           /\ cmd.terminal =>
                /\ \A i \in 1 .. last : cmd.input[i] # Exit
                /\ last < Len(cmd.input) => cmd.input[last + 1] = Exit
           /\ ~cmd.terminal => last = Len(cmd.input)
<1>1. cmd.input \in Seq(ToSet(cmd.input)) /\ Len(cmd.input) <= MaxInput /\ Len(cmd.input) \in Nat /\ MaxInput \in Nat
  BY DEF ClientAssumption
<1>2. CASE cmd.terminal /\ Contains(cmd.input, Exit)
  <2>1. PICK m \in 1 .. Len(cmd.input) :
           /\ First(cmd.input, Exit) = m /\ cmd.input[m] = Exit
           /\ \A i \in 1 .. m - 1 : cmd.input[i] # Exit
    BY <1>1, <1>2, FirstIs
  <2>2. PICK last \in 0 .. Len(cmd.input) : last = m - 1 /\ last + 1 = m
    BY <1>1
  <2>3. BeforeExit = Part(0, last)
    BY <1>2, <2>1, <2>2, BeforeIs DEF Part
  <2>4. last = Len(BeforeExit) /\ last <= MaxInput
    <3>1. 0 \in Nat /\ 0 <= last /\ last - 0 = last /\ last <= Len(cmd.input)
      BY <1>1
    <3>2. Len(Part(0, last)) = last
      BY <3>1, PartIs
    <3> QED BY <1>1, <2>3, <3>1, <3>2
  <2> QED BY <1>2, <2>1, <2>2, <2>3, <2>4
<1>3. CASE ~(cmd.terminal /\ Contains(cmd.input, Exit))
  <2>1. BeforeExit = cmd.input
    BY <1>3, BeforeIs
  <2>2. Part(0, Len(cmd.input)) = cmd.input
    BY <1>1, SubSeqFull DEF Part
  <2>3. cmd.terminal => \A i \in 1 .. Len(cmd.input) : cmd.input[i] # Exit
    BY <1>3 DEF Contains
  <2> QED BY <1>1, <2>1, <2>2, <2>3
<1> QED BY <1>2, <1>3

LEMMA PartSame == ASSUME UNCHANGED cmd PROVE \A x, y : Part(x, y)' = Part(x, y)
BY DEF Part

LEMMA EndSame == ASSUME UNCHANGED cmd PROVE BeforeExit' = BeforeExit
BY DEF BeforeExit, SelectInSeq

LEMMA PostedSame ==
  ASSUME NEW a, NEW b, Posted(a, b), UNCHANGED <<ops, sent, cmd>>, flights' \subseteq flights
  PROVE  Posted(a, b)'
<1>1. Part(a, b)' = Part(a, b)
  BY PartSame
<1> QED BY <1>1 DEF Posted, Succeeded

LEMMA DeliveredSame ==
  ASSUME NEW a, NEW b, Delivered(a, b), UNCHANGED <<ops, sent, cmd, device>> PROVE Delivered(a, b)'
<1>1. Part(0, a)' = Part(0, a) /\ Part(0, b)' = Part(0, b)
  BY PartSame
<1> QED BY <1>1 DEF Delivered, Succeeded

LEMMA WorkingSame ==
  ASSUME NEW a, NEW b, Working(a, b), UNCHANGED <<pc, call, ops, sent, cmd, typed, channel, exiting>>
  PROVE  Working(a, b)'
<1>1. Part(a, b)' = Part(a, b)
  BY PartSame
<1> QED BY <1>1 DEF Working, Before, Succeeded

LEMMA WorkingOver ==
  ASSUME NEW a, NEW b, pc' \in {"done", "failed", "download"} PROVE Working(a, b)'
BY DEF Working, Before

LEMMA BufferedSame ==
  ASSUME NEW b, NEW c, NEW cut, Buffered(b, c, cut), UNCHANGED <<cmd, pending, channel, exiting, typed>>,
         UNCHANGED reading \/ (channel = <<>> /\ ~exiting)
  PROVE  Buffered(b, c, cut)'
<1>1. \A x, y : Part(x, y)' = Part(x, y)
  BY PartSame
<1>2. BeforeExit' = BeforeExit
  BY EndSame
<1>3. CASE UNCHANGED reading
  <2>1. Leaves' <=> Leaves
    BY <1>2, <1>3 DEF Leaves
  <2>2. \A m, x, y, last : Message(m, x, y, last) => Message(m, x, y, last)'
    BY <1>1, <2>1 DEF Message
  <2> QED BY <1>1, <2>1, <2>2 DEF Buffered
<1>4. CASE channel = <<>> /\ ~exiting
  BY <1>1, <1>4 DEF Buffered
<1> QED BY <1>3, <1>4

LEMMA ReadSame == ASSUME Read, UNCHANGED <<cmd, typed, sent>> PROVE Read'
<1>1. BeforeExit' = BeforeExit
  BY EndSame
<1> QED BY <1>1 DEF Read

LEMMA ExitedSame ==
  ASSUME Exited, UNCHANGED <<cmd, sent, ops, device>>, verdict' = "exit" => verdict = "exit" PROVE Exited'
<1>1. BeforeExit' = BeforeExit
  BY EndSame
<1> QED BY <1>1 DEF Exited, Succeeded

(* A step that moves no input.                                              *)
LEMMA InputRests ==
  ASSUME NEW a, NEW b, NEW c, NEW cut, Cut(a, b, c, cut), Read, Exited,
         UNCHANGED <<ops, device, sent, cmd, typed, pending, channel, exiting>>,
         flights' \subseteq flights, UNCHANGED reading \/ (channel = <<>> /\ ~exiting),
         verdict' = "exit" => verdict = "exit",
         Working(a, b)' \/ UNCHANGED <<pc, call>> \/ pc' \in {"done", "failed", "download"}
  PROVE  InputHolds'
<1>1. /\ a \in 0 .. typed /\ b \in 0 .. typed /\ c \in 0 .. typed
      /\ cut \in [0 .. Len(channel) -> 0 .. typed]
      /\ Posted(a, b) /\ Delivered(a, b) /\ Working(a, b) /\ Buffered(b, c, cut)
  BY DEF Cut
<1>2. Posted(a, b)' /\ Delivered(a, b)' /\ Buffered(b, c, cut)'
  BY <1>1, PostedSame, DeliveredSame, BufferedSame
<1>3. Working(a, b)'
  BY <1>1, WorkingSame, WorkingOver
<1>4. Cut(a, b, c, cut)'
  BY <1>1, <1>2, <1>3 DEF Cut
<1>5. Read' /\ Exited'
  BY ReadSame, ExitedSame
<1> QED BY <1>1, <1>4, <1>5 DEF InputHolds

(* What the command does besides, the daemon's output and the answers it    *)
(* gives.                                                                   *)
LEMMA InputElsewhere ==
  ASSUME NEW a, NEW b, NEW c, NEW cut, Cut(a, b, c, cut), Read, Exited, LogTyped,
         OpsTrue, StartTrue, FileTrue, CallTrue,
         \/ Report \/ (\E n \in OutputReads : Publish(n)) \/ Port \/ Evict \/ AnswerEvents
         \/ GiveUp \/ Submitted \/ GivesUpWaiting \/ OpenOutput \/ Transfer
         \/ (\E end \in {"eof", "error"} : StopTransfer(end))
         \/ Elapsed \/ Interrupt \/ TakeFlashEvents \/ TakeEvents \/ SomebodyWrites \/ UNCHANGED vars
  PROVE  InputHolds'
<1>1. ASSUME UNCHANGED <<ops, device, sent, cmd, typed, pending, channel, exiting, reading, flights>>,
             verdict' = "exit" => verdict = "exit",
             UNCHANGED <<pc, call>> \/ pc' \in {"done", "failed", "download"}
      PROVE  InputHolds'
  BY <1>1, InputRests
<1>2. CASE Report \/ (\E n \in OutputReads : Publish(n)) \/ Evict \/ Port
  BY <1>1, <1>2, PortSteps DEF Report, Publish, Evict, clientVars, inputVars
<1>3. CASE AnswerEvents \/ SomebodyWrites \/ Transfer
  BY <1>1, <1>3 DEF AnswerEvents, SomebodyWrites, Transfer, daemonVars, inputVars
<1>4. CASE GiveUp \/ GivesUpWaiting
  BY <1>1, <1>4 DEF GiveUp, GivesUpWaiting, End, daemonVars, inputVars
<1>5. CASE OpenOutput \/ \E end \in {"eof", "error"} : StopTransfer(end)
  BY <1>1, <1>5 DEF OpenOutput, StopTransfer, End, daemonVars, inputVars
<1>6. CASE Elapsed \/ Interrupt
  BY <1>1, <1>6 DEF Elapsed, Interrupt, End, daemonVars, inputVars
<1>7. CASE TakeFlashEvents
  BY <1>1, <1>7 DEF TakeFlashEvents, End, daemonVars, inputVars
<1>8. CASE TakeEvents
  BY <1>1, <1>8 DEF TakeEvents, End, daemonVars, inputVars
<1>9. CASE UNCHANGED vars
  BY <1>1, <1>9 DEF vars, daemonVars, inputVars
<1>10. CASE Submitted
  <2>1. CASE call.status = "refused"
    BY <1>1, <1>10, <2>1 DEF Submitted, End, daemonVars, inputVars
  <2>2. CASE call.status # "refused"
    <3>1. /\ UNCHANGED <<ops, device, sent, cmd, typed, pending, channel, exiting, reading, flights>>
          /\ verdict' = verdict /\ pc = "posting" /\ pc' \in {"polling", "flashing"}
      BY <1>10, <2>2 DEF Submitted, daemonVars, inputVars
    <3>2. Working(a, b)'
      BY <3>1 DEF Cut, Working, Before
    <3> QED BY <3>1, <3>2, InputRests
  <2> QED BY <2>1, <2>2
<1> QED BY <1>2, <1>3, <1>4, <1>5, <1>6, <1>7, <1>8, <1>9, <1>10

(* What follows an operation that succeeded is the first piece.             *)
LEMMA InputContinues ==
  ASSUME NEW a, NEW b, NEW c, NEW cut, Cut(a, b, c, cut), Read, Exited, FileTrue,
         pc \in {"polling", "flashing"}, Continue,
         UNCHANGED <<ops, device, sent, cmd, typed, pending, channel, exiting, flights>>
  PROVE  InputHolds'
<1>1. sent = 0 /\ channel = <<>> /\ ~exiting
  BY DEF Cut, Working, Before
<1>2. verdict' # "exit"
  BY DEF Continue, FileTrue
<1>3. call'.status = "idle" /\ pc' \in {"capture", "download", "done"}
  BY IdleIs DEF Continue, AfterOperation
<1>4. Working(a, b)'
  BY <1>1, <1>3 DEF Working, Before
<1> QED BY <1>1, <1>2, <1>4, InputRests

LEMMA InputWaited ==
  ASSUME NEW a, NEW b, NEW c, NEW cut, Cut(a, b, c, cut), Read, Exited, FileTrue, Waited \/ Drain
  PROVE  InputHolds'
<1>1. /\ UNCHANGED <<ops, device, sent, cmd, typed, pending, channel, exiting, flights>>
      /\ pc \in {"polling", "flashing"}
  BY DEF Waited, Drain, daemonVars
<1>2. CASE Continue
  BY <1>1, <1>2, InputContinues
<1>3. CASE ~Continue
  <2>1. (End("operation failed") \/ End("failed")) /\ UNCHANGED reading
    BY <1>3 DEF Waited, Drain
  <2>2. pc' = "failed" /\ verdict' # "exit"
    BY <2>1 DEF End
  <2> QED BY <1>1, <2>1, <2>2, InputRests
<1> QED BY <1>2, <1>3

(* The first post, and a post again.                                        *)
LEMMA InputPosts ==
  ASSUME NEW a, NEW b, NEW c, NEW cut, Cut(a, b, c, cut), Read, Exited, StartTrue, CallTrue,
         Submit \/ Resend
  PROVE  InputHolds'
<1>1. /\ a \in 0 .. typed /\ b \in 0 .. typed /\ c \in 0 .. typed
      /\ cut \in [0 .. Len(channel) -> 0 .. typed]
      /\ Posted(a, b) /\ Delivered(a, b) /\ Working(a, b) /\ Buffered(b, c, cut)
  BY DEF Cut
<1>2. UNCHANGED <<ops, device, sent, cmd, typed, pending, channel, exiting, reading>>
  BY DEF Submit, Resend, daemonVars, inputVars
<1>3. ASSUME flights' = flights \cup {Flight(call')}, Working(a, b)', UNCHANGED verdict,
             \/ sent = 0 /\ call'.req = 0 /\ call'.input = <<>>
             \/ sent # 0 /\ call'.req = sent /\ call'.input = Part(a, b)
      PROVE  InputHolds'
  <2>1. Part(a, b)' = Part(a, b)
    BY <1>2, PartSame
  <2>2. PICK f : f = Flight(call')
    OBVIOUS
  <2>3. f.req = call'.req /\ f.input = call'.input
    BY <2>2 DEF Flight
  <2>4. sent = 0 => a = 0 /\ b = 0 /\ Part(a, b) = <<>>
    BY <1>1, PartNone DEF Posted, Read
  <2>5. f.req \in 0 .. sent /\ (f.req = 0 => f.input = <<>>) /\ (f.req = sent => f.input = Part(a, b))
    BY <1>3, <2>3, <2>4 DEF Read
  <2>6. Posted(a, b)'
    BY <1>1, <1>2, <1>3, <2>1, <2>2, <2>5 DEF Posted, Succeeded
  <2>7. Delivered(a, b)' /\ Buffered(b, c, cut)' /\ Read' /\ Exited'
    BY <1>1, <1>2, <1>3, DeliveredSame, BufferedSame, ReadSame, ExitedSame
  <2>8. Cut(a, b, c, cut)'
    BY <1>1, <1>2, <1>3, <2>6, <2>7 DEF Cut
  <2> QED BY <1>1, <1>2, <2>7, <2>8 DEF InputHolds
<1>4. CASE Submit
  <2>1. CASE End("failed") /\ UNCHANGED <<call, flights>>
    BY <1>2, <2>1, InputRests DEF End
  <2>2. CASE pc' = "posting" /\ Post(0, <<>>) /\ UNCHANGED verdict
    <3>1. pc = "submit"
      BY <1>4 DEF Submit
    <3>2. sent = 0 /\ typed = 0 /\ channel = <<>> /\ ~exiting
      BY <1>1, <3>1 DEF Working, Before
    <3>3. call'.req = 0 /\ call'.input = <<>> /\ flights' = flights \cup {Flight(call')}
      BY <2>2, PostIs
    <3>4. Working(a, b)'
      BY <1>2, <2>2, <3>2, <3>3 DEF Working
    <3> QED BY <1>3, <2>2, <3>2, <3>3, <3>4
  <2> QED BY <1>4, <2>1, <2>2 DEF Submit
<1>5. CASE Resend
  <2>1. Shaped
    BY DEF CallTrue, Shaped
  <2>2. /\ flights' = flights \cup {Flight(call')}
        /\ call'.req = call.req /\ call'.input = call.input /\ call'.status = "sent"
    BY <1>5, <2>1, ResendIs
  <2>3. pc \in {"posting", "capture"} /\ call.status = "sent" /\ UNCHANGED <<pc, verdict>>
    BY <1>5 DEF Resend, InFlight
  <2>4. Part(a, b)' = Part(a, b)
    BY <1>2, PartSame
  <2>5. Working(a, b)'
    BY <1>1, <1>2, <2>2, <2>3, <2>4 DEF Working, Before
  <2>6. \/ sent = 0 /\ call'.req = 0 /\ call'.input = <<>>
        \/ sent # 0 /\ call'.req = sent /\ call'.input = Part(a, b)
    BY <1>1, <2>2, <2>3 DEF Working, Before, StartTrue
  <2> QED BY <1>3, <2>2, <2>3, <2>5, <2>6
<1> QED BY <1>4, <1>5

(* The daemon takes a post: the last piece runs once.                       *)
LEMMA PostedAdmits ==
  ASSUME NEW a, NEW b, NEW f \in flights, Posted(a, b), Delivered(a, b), Read, Admit(f),
         flights' \subseteq flights, UNCHANGED <<sent, cmd>>
  PROVE  /\ Posted(a, b)' /\ Delivered(a, b)' /\ UNCHANGED <<device, forgot>>
         /\ \A k \in 0 .. sent : Succeeded(k) => Succeeded(k)'
<1>1. PICK key : key = f.req
  OBVIOUS
<1>2. PICK op : op = [req |-> f.req, status |-> "running", input |-> f.input,
                      start |-> [epoch |-> epoch, after |-> Len(log) + 1]]
  OBVIOUS
<1>3. /\ key \notin DOMAIN ops /\ device' = device /\ forgot' = forgot
      /\ ops' = [k \in DOMAIN ops \cup {key} |-> IF k = key THEN op ELSE ops[k]]
  BY <1>1, <1>2 DEF Admit, RequestKey
<1>4. /\ DOMAIN ops' = DOMAIN ops \cup {key} /\ ops'[key] = op
      /\ \A k \in DOMAIN ops : ops'[k] = ops[k]
  BY <1>3
<1>5. OpIs(op) /\ op.input = f.input /\ op.status = "running"
  BY <1>2 DEF OpIs
<1>6. \A k \in 0 .. sent : Succeeded(k) => Succeeded(k)'
  BY <1>4 DEF Succeeded
<1>7. Part(a, b)' = Part(a, b) /\ Part(0, a)' = Part(0, a) /\ Part(0, b)' = Part(0, b)
  BY PartSame
<1>8. Posted(a, b)'
  <2>1. ASSUME NEW k \in DOMAIN ops'
        PROVE  /\ OpIs(ops'[k]) /\ k \in 0 .. sent
               /\ k = 0 => ops'[k].input = <<>>
               /\ k = sent => ops'[k].input = Part(a, b)
    BY <1>1, <1>4, <1>5 DEF Posted
  <2>2. \A k \in 1 .. sent - 1 : Succeeded(k)'
    BY <1>6 DEF Posted, Read
  <2> QED BY <1>7, <2>1, <2>2 DEF Posted, OpIs
<1>9. Delivered(a, b)'
  <2>1. CASE device = Part(0, a) /\ ~Succeeded(sent)
    <3>1. ~Succeeded(sent)'
      BY <1>4, <1>5, <2>1 DEF Succeeded
    <3> QED BY <1>3, <1>7, <2>1, <3>1 DEF Delivered
  <2>2. CASE device = Part(0, b) /\ (sent # 0 => sent \in DOMAIN ops /\ ops[sent].status # "running")
    <3>1. sent # 0 => sent \in DOMAIN ops' /\ ops'[sent].status # "running"
      BY <1>4, <2>2
    <3> QED BY <1>3, <1>7, <2>2, <3>1 DEF Delivered
  <2> QED BY <2>1, <2>2 DEF Delivered
<1> QED BY <1>3, <1>6, <1>8, <1>9

LEMMA InputHandled ==
  ASSUME NEW a, NEW b, NEW c, NEW cut, Cut(a, b, c, cut), Read, Exited, OpsTrue', CallTrue,
         NEW f \in flights, Handle(f)
  PROVE  InputHolds'
<1>1. /\ a \in 0 .. typed /\ b \in 0 .. typed /\ c \in 0 .. typed
      /\ cut \in [0 .. Len(channel) -> 0 .. typed]
      /\ Posted(a, b) /\ Delivered(a, b) /\ Working(a, b) /\ Buffered(b, c, cut)
  BY DEF Cut
<1>2. /\ UNCHANGED <<sent, cmd, typed, pending, channel, exiting, reading, pc, verdict>>
      /\ flights' \subseteq flights
  BY DEF Handle, inputVars
<1>3. /\ Posted(a, b)' /\ Delivered(a, b)' /\ UNCHANGED device
      /\ \A k \in 0 .. sent : Succeeded(k) => Succeeded(k)'
  <2>1. CASE Admit(f)
    BY <1>1, <1>2, <2>1, PostedAdmits
  <2>2. CASE Replay(f) \/ Refuse(f)
    <3>1. UNCHANGED <<ops, device>>
      BY <2>2 DEF Replay, Refuse, daemonVars
    <3> QED BY <1>1, <1>2, <3>1, PostedSame, DeliveredSame DEF Succeeded
  <2> QED BY <2>1, <2>2 DEF Handle
<1>4. /\ UNCHANGED call \/ (Posts /\ call'.status = "refused") \/ Told
      /\ UNCHANGED call \/ (call.status = "sent" /\ call'.req = call.req /\ call'.input = call.input)
  <2>1. Shaped
    BY DEF CallTrue, Shaped
  <2> QED BY <2>1, CallHandle
<1>5. Part(a, b)' = Part(a, b) /\ sent \in 0 .. sent
  BY <1>2, PartSame DEF Read
<1>6. Working(a, b)'
  <2>1. CASE UNCHANGED call
    BY <1>1, <1>2, <1>3, <1>5, <2>1 DEF Working, Before
  <2>2. CASE call'.status = "refused" /\ call.status = "sent" /\ call'.req = call.req /\ call'.input = call.input
    BY <1>1, <1>2, <1>5, <2>2 DEF Working, Before
  <2>3. CASE Told /\ call.status = "sent" /\ call'.req = call.req /\ call'.input = call.input
    <3>1. PICK k \in DOMAIN ops' : call'.req = k /\ call'.status = ops'[k].status
      BY <2>3 DEF Told
    <3>2. PICK op : op = ops'[k]
      OBVIOUS
    <3>3. op.status \in {"running", "succeeded", "failed"}
      BY <3>2 DEF OpsTrue, OpTrue
    <3>4. call'.status = "succeeded" => Succeeded(k)'
      BY <3>1 DEF Succeeded
    <3>5. pc = "capture" => sent # 0 /\ k = sent /\ call'.input = Part(a, b)
      BY <1>1, <2>3, <3>1 DEF Working
    <3>6. pc = "capture" /\ call'.status \in {"idle", "succeeded"} => Succeeded(sent)'
      <4>1. call'.status # "idle"
        BY <3>1, <3>2, <3>3
      <4>2. sent' = sent
        BY <1>2
      <4> QED BY <3>1, <3>5, <4>1, <4>2 DEF Succeeded
    <3> QED BY <1>1, <1>2, <1>5, <2>3, <3>1, <3>5, <3>6 DEF Working, Before
  <2> QED BY <1>4, <2>1, <2>2, <2>3
<1>7. Buffered(b, c, cut)' /\ Read'
  BY <1>1, <1>2, BufferedSame, ReadSame
<1>8. Exited'
  BY <1>2, <1>3, <1>5, EndSame DEF Exited
<1>9. Cut(a, b, c, cut)'
  BY <1>1, <1>2, <1>3, <1>6, <1>7 DEF Cut
<1> QED BY <1>1, <1>2, <1>7, <1>8, <1>9 DEF InputHolds

LEMMA OpExcept ==
  ASSUME NEW op, NEW s, NEW o, OpIs(op), o = [op EXCEPT !.status = s]
  PROVE  OpIs(o) /\ o.status = s /\ o.input = op.input
<1>1. o = [req |-> op.req, status |-> s, input |-> op.input, start |-> op.start]
  BY DEF OpIs
<1> QED BY <1>1 DEF OpIs

(* An operation ends; only the last piece can still be running.             *)
LEMMA InputFinishes ==
  ASSUME ClientAssumption, cmd \in Commands,
         NEW a, NEW b, NEW c, NEW cut, Cut(a, b, c, cut), Read, Exited,
         NEW key \in DOMAIN ops, NEW ok \in BOOLEAN, Finish(key, ok)
  PROVE  InputHolds'
<1>1. /\ a \in 0 .. typed /\ b \in 0 .. typed /\ c \in 0 .. typed
      /\ cut \in [0 .. Len(channel) -> 0 .. typed]
      /\ Posted(a, b) /\ Delivered(a, b) /\ Working(a, b) /\ Buffered(b, c, cut)
  BY DEF Cut
<1>2. UNCHANGED <<sent, cmd, typed, pending, channel, exiting, reading, pc, verdict, call, flights>>
  BY DEF Finish, clientVars, inputVars
<1>3. PICK op : op = ops[key]
  OBVIOUS
<1>4. PICK status : status = IF ok THEN "succeeded" ELSE "failed"
  OBVIOUS
<1>5. PICK o : o = [op EXCEPT !.status = status]
  OBVIOUS
<1>6. OpIs(o) /\ o.status = status /\ o.input = op.input
  <2>1. OpIs(op)
    BY <1>1, <1>3 DEF Posted
  <2> QED BY <1>5, <2>1, OpExcept
<1>7. /\ op.status = "running" /\ ops' = [ops EXCEPT ![key].status = status]
      /\ device' = device \o op.input \/ (~ok /\ device' = device)
  BY <1>3, <1>4 DEF Finish
<1>8. DOMAIN ops' = DOMAIN ops /\ ops'[key] = o /\ \A k \in DOMAIN ops : k # key => ops'[k] = ops[k]
  BY <1>3, <1>5, <1>7
<1>9. \A k \in 0 .. sent : k # key => (Succeeded(k)' <=> Succeeded(k))
  BY <1>8 DEF Succeeded
<1>10. ~Succeeded(key)
  BY <1>3, <1>7 DEF Succeeded
<1>11. key \in {0, sent} /\ sent \in Nat /\ (key = 0 => op.input = <<>>) /\ (key = sent => op.input = Part(a, b))
  <2>1. sent \in Nat
    BY DEF Read
  <2>2. /\ key \in 0 .. sent
        /\ key = 0 => op.input = <<>>
        /\ key = sent => op.input = Part(a, b)
    BY <1>1, <1>3 DEF Posted
  <2>3. \A k \in 1 .. sent - 1 : Succeeded(k)
    BY <1>1 DEF Posted
  <2>4. key \notin 1 .. sent - 1
    BY <1>10, <2>3
  <2>5. key \in {0, sent}
    BY <2>1, <2>2, <2>4
  <2> QED BY <2>1, <2>2, <2>5
<1>12. Part(a, b)' = Part(a, b) /\ Part(0, a)' = Part(0, a) /\ Part(0, b)' = Part(0, b)
  BY <1>2, PartSame
<1>13. Posted(a, b)'
  <2>1. ASSUME NEW k \in DOMAIN ops'
        PROVE  /\ OpIs(ops'[k]) /\ k \in 0 .. sent
               /\ k = 0 => ops'[k].input = <<>>
               /\ k = sent => ops'[k].input = Part(a, b)
    BY <1>1, <1>3, <1>6, <1>8 DEF Posted
  <2>2. \A k \in 1 .. sent - 1 : Succeeded(k)'
    <3>1. \A k \in 1 .. sent - 1 : Succeeded(k)
      BY <1>1 DEF Posted
    <3>2. \A k \in 1 .. sent - 1 : k \in 0 .. sent
      BY <1>11
    <3>3. \A k \in 1 .. sent - 1 : k # key
      BY <1>10, <3>1
    <3> QED BY <1>2, <1>9, <3>1, <3>2, <3>3
  <2> QED BY <1>1, <1>2, <1>12, <2>1, <2>2 DEF Posted, OpIs
<1>14. a <= b /\ a \in Nat /\ b \in 0 .. Len(cmd.input) /\ (sent = 0 => a = 0 /\ b = 0)
  <2>1. Len(BeforeExit) \in 0 .. Len(cmd.input)
    BY BeforeExitIs
  <2>2. Len(cmd.input) \in Nat
    BY DEF ClientAssumption
  <2> QED BY <1>1, <2>1, <2>2 DEF Posted, Read
<1>15. device \in Seq(ToSet(cmd.input)) /\ Part(0, b) \in Seq(ToSet(cmd.input))
  <2>1. Part(0, a) \in Seq(ToSet(cmd.input)) /\ Part(0, b) \in Seq(ToSet(cmd.input))
    <3>1. Len(cmd.input) \in Nat
      BY DEF ClientAssumption
    <3>2. /\ 0 \in Nat /\ a \in 0 .. Len(cmd.input) /\ b \in 0 .. Len(cmd.input)
          /\ 0 <= a /\ 0 <= b
      BY <1>14, <3>1
    <3> QED BY <3>2, PartIs
  <2> QED BY <1>1, <2>1 DEF Delivered
<1>16. Delivered(a, b)' /\ Exited'
  <2>1. CASE key = 0
    <3>1. device' = device
      <4>1. op.input = <<>>
        BY <1>11, <2>1
      <4>2. device \o <<>> = device
        BY <1>15, ConcatEmptySeq
      <4> QED BY <1>7, <4>1, <4>2
    <3>2. CASE sent = 0
      <4>1. device = Part(0, b)
        BY <1>1, <1>14, <3>2 DEF Delivered
      <4> QED BY <1>2, <1>12, <3>1, <3>2, <4>1, EndSame DEF Delivered, Exited
    <3>3. CASE sent # 0
      <4>1. Succeeded(sent)' <=> Succeeded(sent)
        BY <1>2, <1>8, <2>1, <3>3 DEF Succeeded
      <4>2. sent \in DOMAIN ops => ops'[sent] = ops[sent]
        BY <1>8, <2>1, <3>3
      <4>3. Delivered(a, b)'
        BY <1>1, <1>2, <1>8, <1>12, <3>1, <4>1, <4>2 DEF Delivered
      <4> QED BY <1>2, <3>1, <4>1, <4>3, EndSame DEF Exited
    <3> QED BY <3>2, <3>3
  <2>2. CASE key = sent /\ sent # 0
    <3>1. device = Part(0, a)
      BY <1>1, <1>3, <1>7, <2>2 DEF Delivered
    <3>2. Part(0, a) \o Part(a, b) = Part(0, b)
      <4>1. 0 \in Nat /\ b \in Nat /\ 0 <= a
        BY <1>1, <1>14 DEF Read
      <4> QED BY <1>14, <4>1, PartsMeet
    <3>3. verdict' # "exit"
      BY <1>2, <1>10, <2>2 DEF Exited
    <3>4. o.status # "running" /\ (~ok => o.status # "succeeded")
      BY <1>4, <1>6
    <3>5. CASE device' = device \o op.input
      <4>1. device' = Part(0, b)
        BY <1>11, <2>2, <3>1, <3>2, <3>5
      <4> QED BY <1>2, <1>8, <1>12, <2>2, <3>3, <3>4, <4>1 DEF Delivered, Exited
    <3>6. CASE ~ok /\ device' = device
      <4>1. ~Succeeded(sent)'
        BY <1>2, <1>8, <2>2, <3>4, <3>6 DEF Succeeded
      <4> QED BY <1>2, <1>12, <3>1, <3>3, <3>6, <4>1 DEF Delivered, Exited
    <3> QED BY <1>7, <3>5, <3>6
  <2> QED BY <1>11, <2>1, <2>2
<1>17. Working(a, b)'
  <2>1. Succeeded(sent) => Succeeded(sent)'
    BY <1>2, <1>8, <1>10 DEF Succeeded
  <2> QED BY <1>1, <1>2, <1>12, <2>1 DEF Working, Before
<1>18. Buffered(b, c, cut)' /\ Read'
  BY <1>1, <1>2, BufferedSame, ReadSame
<1>19. Cut(a, b, c, cut)'
  BY <1>1, <1>2, <1>13, <1>16, <1>17, <1>18 DEF Cut
<1> QED BY <1>1, <1>2, <1>16, <1>18, <1>19 DEF InputHolds

(* A daemon that forgets nothing has nothing when it restarts.              *)
LEMMA NothingToForget ==
  ASSUME ClientAssumption, cmd \in Commands, Retained, Read, NothingForgotten',
         NEW a, NEW b \in 0 .. typed, Posted(a, b)
  PROVE  /\ \A k \in DOMAIN ops : ~Forget(k)
         /\ Restart => DOMAIN ops = {}
<1>1. sent <= b /\ sent \in Nat /\ typed \in 0 .. Len(BeforeExit) /\ \A k \in DOMAIN ops : k \in 0 .. sent
  BY DEF Posted, Read
<1>2. Len(BeforeExit) <= MaxInput /\ Len(BeforeExit) \in Nat /\ MaxInput \in Nat
  <2>1. PICK last \in 0 .. Len(cmd.input) : last = Len(BeforeExit) /\ last <= MaxInput
    BY BeforeExitIs
  <2> QED BY <2>1 DEF ClientAssumption
<1>3. \A k \in DOMAIN ops : k \in 0 .. MaxInput /\ ops[k].req = k
  BY <1>1, <1>2 DEF Retained
<1>4. ASSUME NEW k \in DOMAIN ops, Forget(k) PROVE FALSE
  <2>1. forgot' = [forgot EXCEPT ![k] = @ + 1]
    BY <1>3, <1>4 DEF Forget
  <2>2. k \in DOMAIN forgot' /\ forgot'[k] = forgot[k] + 1 /\ forgot[k] \in Nat
    BY <1>3, <2>1 DEF Retained
  <2> QED BY <2>2 DEF NothingForgotten
<1>5. ASSUME Restart, NEW k \in DOMAIN ops PROVE FALSE
  <2>1. k \in DOMAIN forgot' /\ forgot'[k] = forgot[k] + 1 /\ forgot[k] \in Nat
    BY <1>3, <1>5 DEF Restart, Retained
  <2> QED BY <2>1 DEF NothingForgotten
<1> QED BY <1>4, <1>5

LEMMA InputRestarts ==
  ASSUME NEW a, NEW b, NEW c, NEW cut, Cut(a, b, c, cut), Read, Exited, Restart, DOMAIN ops = {}
  PROVE  InputHolds'
<1>1. /\ a \in 0 .. typed /\ b \in 0 .. typed /\ c \in 0 .. typed
      /\ cut \in [0 .. Len(channel) -> 0 .. typed]
      /\ Posted(a, b) /\ Delivered(a, b) /\ Working(a, b) /\ Buffered(b, c, cut)
  BY DEF Cut
<1>2. /\ UNCHANGED <<device, sent, cmd, typed, pending, channel, exiting, reading, pc, verdict, call>>
      /\ DOMAIN ops' = {} /\ flights' = {}
  BY DEF Restart, inputVars
<1>3. \A k : ~Succeeded(k) /\ ~Succeeded(k)'
  BY <1>2 DEF Succeeded
<1>4. Part(a, b)' = Part(a, b) /\ Part(0, a)' = Part(0, a) /\ Part(0, b)' = Part(0, b)
  BY <1>2, PartSame
<1>5. Posted(a, b)'
  BY <1>1, <1>2, <1>3 DEF Posted
<1>6. Delivered(a, b)'
  <2>1. sent = 0 => a = 0 /\ b = 0
    BY <1>1 DEF Posted, Read
  <2>2. device = Part(0, a)
    BY <1>1, <2>1 DEF Delivered
  <2> QED BY <1>2, <1>3, <1>4, <2>2 DEF Delivered
<1>7. Working(a, b)'
  BY <1>1, <1>2, <1>3, <1>4 DEF Working, Before
<1>8. Buffered(b, c, cut)' /\ Read'
  BY <1>1, <1>2, BufferedSame, ReadSame
<1>9. Exited'
  BY <1>2, <1>3, EndSame DEF Exited
<1>10. Cut(a, b, c, cut)'
  BY <1>1, <1>2, <1>5, <1>6, <1>7, <1>8 DEF Cut
<1> QED BY <1>1, <1>2, <1>8, <1>9, <1>10 DEF InputHolds

(* The client hears of its operation, and of the write it waited for.       *)
LEMMA InputHeard ==
  ASSUME NEW a, NEW b, NEW c, NEW cut, Cut(a, b, c, cut), Read, Exited, OpsTrue, CallTrue, StartTrue,
         Poll \/ Wrote
  PROVE  InputHolds'
<1>1. Working(a, b)
  BY DEF Cut
<1>2. UNCHANGED <<ops, device, sent, cmd, typed, pending, channel, exiting, reading, flights>>
  BY DEF Poll, Wrote, daemonVars, inputVars
<1>3. Part(a, b)' = Part(a, b)
  BY <1>2, PartSame
<1>4. CASE End("failed")
  BY <1>2, <1>4, InputRests DEF End
<1>5. CASE Poll /\ ~End("failed")
  <2>1. Shaped
    BY DEF CallTrue, Shaped
  <2>2. /\ UNCHANGED <<pc, verdict>> /\ Told
        /\ call'.req = call.req /\ call'.input = call.input
    BY <1>5, <2>1, PollIs
  <2>3. pc \in {"polling", "flashing", "capture"} /\ call.status = "running"
    BY <1>5 DEF Poll
  <2>4. PICK k \in DOMAIN ops : call'.req = k /\ call'.status = ops[k].status
    BY <1>2, <2>2 DEF Told
  <2>5. PICK op : op = ops[k]
    OBVIOUS
  <2>6. op.status \in {"running", "succeeded", "failed"}
    BY <2>5 DEF OpsTrue, OpTrue
  <2>7. pc = "capture" => sent # 0 /\ k = sent /\ call'.input = Part(a, b)
    BY <1>1, <2>2, <2>3, <2>4 DEF Working
  <2>8. pc = "capture" /\ call'.status \in {"idle", "succeeded"} => Succeeded(sent)
    BY <2>4, <2>5, <2>6, <2>7 DEF Succeeded
  <2>9. Succeeded(sent)' <=> Succeeded(sent)
    BY <1>2 DEF Succeeded
  <2>10. Working(a, b)'
    BY <1>1, <1>2, <1>3, <2>2, <2>3, <2>4, <2>7, <2>8, <2>9 DEF Working, Before
  <2> QED BY <1>2, <2>2, <2>10, InputRests
<1>6. CASE Wrote /\ ~End("failed")
  <2>1. call.status = "succeeded" /\ UNCHANGED <<pc, verdict>> /\ pc = "capture" /\ call' = Idle
    BY <1>6 DEF Wrote, Waiting
  <2>2. sent = 0 \/ Succeeded(sent)
    BY <1>1, <2>1 DEF Working
  <2>3. Succeeded(sent)' <=> Succeeded(sent)
    BY <1>2 DEF Succeeded
  <2>4. Working(a, b)'
    BY <1>2, <2>1, <2>2, <2>3, IdleIs DEF Working, Before
  <2> QED BY <1>2, <2>1, <2>4, InputRests
<1> QED BY <1>4, <1>5, <1>6

(* The exit byte ends the capture when all before it is on the board.       *)
LEMMA InputLeaves ==
  ASSUME ClientAssumption, cmd \in Commands,
         NEW a, NEW b, NEW c, NEW cut, Cut(a, b, c, cut), Read, Exited, Leave
  PROVE  InputHolds'
<1>1. /\ a \in 0 .. typed /\ b \in 0 .. typed /\ c \in 0 .. typed
      /\ cut \in [0 .. Len(channel) -> 0 .. typed]
      /\ Posted(a, b) /\ Delivered(a, b) /\ Working(a, b) /\ Buffered(b, c, cut)
  BY DEF Cut
<1>2. /\ UNCHANGED <<ops, device, sent, cmd, typed, pending, channel, exiting, reading, flights>>
      /\ pc = "capture" /\ call.status = "idle" /\ exiting /\ pending = <<>> /\ pc' = "done" /\ verdict' = "exit"
  BY DEF Leave, CanLeave, End, daemonVars, inputVars
<1>3. PICK last \in 0 .. Len(cmd.input) : last = Len(BeforeExit) /\ BeforeExit = Part(0, last)
  BY BeforeExitIs
<1>4. typed = last /\ c = last
  BY <1>1, <1>2, <1>3 DEF Buffered, Leaves
<1>5. b = c
  <2>1. pending = Part(b, c) /\ b <= c
    BY <1>1 DEF Buffered
  <2>2. b \in Nat /\ c \in 0 .. Len(cmd.input)
    BY <1>1, <1>4
  <2>3. Len(Part(b, c)) = c - b
    BY <2>1, <2>2, PartIs
  <2>4. Len(pending) = 0
    BY <1>2
  <2> QED BY <2>1, <2>2, <2>3, <2>4
<1>6. sent = 0 \/ Succeeded(sent)
  BY <1>1, <1>2 DEF Working
<1>7. device = Part(0, b)
  BY <1>1, <1>6 DEF Delivered, Posted, Read
<1>8. Exited'
  <2>1. device = BeforeExit
    BY <1>3, <1>4, <1>5, <1>7
  <2> QED BY <1>2, <1>6, <2>1, EndSame DEF Exited, Succeeded
<1>9. Posted(a, b)' /\ Delivered(a, b)' /\ Working(a, b)' /\ Buffered(b, c, cut)' /\ Read'
  BY <1>1, <1>2, PostedSame, DeliveredSame, WorkingOver, BufferedSame, ReadSame
<1>10. Cut(a, b, c, cut)'
  BY <1>1, <1>2, <1>9 DEF Cut
<1> QED BY <1>1, <1>2, <1>8, <1>9, <1>10 DEF InputHolds

(* The next piece is what is pending, or its first MaxWrite bytes.          *)
LEMMA InputIsPosted ==
  ASSUME ClientAssumption, cmd \in Commands,
         NEW a, NEW b, NEW c, NEW cut, Cut(a, b, c, cut), Read, Exited, FileTrue, StartWrite
  PROVE  InputHolds'
<1>1. /\ a \in 0 .. typed /\ b \in 0 .. typed /\ c \in 0 .. typed
      /\ cut \in [0 .. Len(channel) -> 0 .. typed]
      /\ Posted(a, b) /\ Delivered(a, b) /\ Working(a, b) /\ Buffered(b, c, cut)
  BY DEF Cut
<1>2. PICK size : size = Min({Len(pending), MaxWrite})
  OBVIOUS
<1>3. /\ UNCHANGED <<ops, device, cmd, typed, channel, exiting, reading, pc, verdict>>
      /\ pending' = SubSeq(pending, size + 1, Len(pending)) /\ sent' = sent + 1
      /\ Post(sent', SubSeq(pending, 1, size))
      /\ pc = "capture" /\ call.status = "idle" /\ pending # <<>>
  BY <1>2 DEF StartWrite, CanWrite, daemonVars
<1>4. Len(BeforeExit) \in 0 .. Len(cmd.input) /\ Len(cmd.input) \in Nat
  BY BeforeExitIs DEF ClientAssumption
<1>5. /\ b \in Nat /\ c \in 0 .. Len(cmd.input) /\ b <= c /\ pending = Part(b, c) /\ c \in Nat
      /\ typed \in Nat /\ c <= typed
  BY <1>1, <1>4 DEF Read, Buffered
<1>6. pending \in Seq(ToSet(cmd.input)) /\ Len(pending) = c - b
  BY <1>5, PartIs
<1>7. size \in 1 .. c - b
  <2>1. Len(pending) \in Nat \ {0} /\ MaxWrite \in Nat \ {0}
    BY <1>3, <1>6 DEF ClientAssumption
  <2>2. PICK I : I = {Len(pending), MaxWrite}
    OBVIOUS
  <2>3. I \in SUBSET Nat /\ I # {} /\ 0 \notin I /\ Len(pending) \in I /\ size = Min(I)
    BY <1>2, <2>1, <2>2
  <2>4. size \in I /\ size <= Len(pending) /\ size \in Nat \ {0}
    BY <2>3, LeastIs
  <2> QED BY <1>6, <2>4
<1>8. PICK d \in 0 .. typed : d = b + size
  BY <1>1, <1>5, <1>7
<1>9. SubSeq(pending, 1, size) = Part(b, d)
  <2>1. size \in 0 .. c - b
    BY <1>5, <1>7
  <2>2. SubSeq(Part(b, c), 1, size) = Part(b, b + size)
    BY <1>5, <2>1, PartStart
  <2> QED BY <1>5, <1>8, <2>1, <2>2
<1>10. pending' = Part(d, c)
  <2>1. size \in 0 .. c - b
    BY <1>5, <1>7
  <2>2. SubSeq(Part(b, c), size + 1, c - b) = Part(b + size, c)
    BY <1>5, <2>1, PartEnd
  <2> QED BY <1>3, <1>5, <1>6, <1>8, <2>1, <2>2
<1>11. \A x, y : Part(x, y)' = Part(x, y)
  BY <1>3, PartSame
<1>12. /\ call'.req = sent + 1 /\ call'.input = Part(b, d) /\ call'.status = "sent"
       /\ flights' = flights \cup {Flight(call')}
  <2>1. PICK req : req = sent'
    OBVIOUS
  <2>2. Post(req, Part(b, d))
    BY <1>3, <1>9, <2>1
  <2> QED BY <1>3, <2>1, <2>2, PostIs
<1>13. sent = 0 \/ Succeeded(sent)
  BY <1>1, <1>3 DEF Working
<1>14. Posted(b, d)'
  <2>1. PICK f : f = Flight(call')
    OBVIOUS
  <2>2. f.req = sent + 1 /\ f.input = Part(b, d)
    BY <1>12, <2>1 DEF Flight
  <2>3. sent \in Nat /\ sent <= b
    BY <1>1 DEF Posted, Read
  <2>4. b <= d /\ sent + 1 <= d /\ b # d
    BY <1>5, <1>7, <1>8, <2>3
  <2>5. ASSUME NEW g \in flights'
        PROVE  /\ g.req \in 0 .. sent + 1 /\ (g.req = 0 => g.input = <<>>)
               /\ g.req = sent + 1 => g.input = Part(b, d)
    <3>1. CASE g \in flights
      <4>1. g.req \in 0 .. sent /\ (g.req = 0 => g.input = <<>>)
        BY <1>1, <3>1 DEF Posted
      <4> QED BY <2>3, <4>1
    <3>2. CASE g = f
      BY <2>2, <2>3, <3>2
    <3> QED BY <1>12, <2>1, <3>1, <3>2
  <2>6. ASSUME NEW k \in DOMAIN ops
        PROVE  /\ OpIs(ops[k]) /\ k \in 0 .. sent + 1 /\ (k = 0 => ops[k].input = <<>>)
               /\ k = sent + 1 => ops[k].input = Part(b, d)
    <3>1. OpIs(ops[k]) /\ k \in 0 .. sent /\ (k = 0 => ops[k].input = <<>>)
      BY <1>1 DEF Posted
    <3> QED BY <2>3, <3>1
  <2>7. \A k \in 1 .. (sent + 1) - 1 : Succeeded(k)'
    <3>1. \A k \in 1 .. sent : Succeeded(k)
      BY <1>1, <1>13, <2>3 DEF Posted
    <3> QED BY <1>3, <2>3, <3>1 DEF Succeeded
  <2> QED BY <1>3, <1>11, <2>3, <2>4, <2>5, <2>6, <2>7 DEF Posted, OpIs
<1>15. Delivered(b, d)'
  <2>1. device = Part(0, b)
    BY <1>1, <1>13 DEF Delivered, Posted, Read
  <2>2. ~Succeeded(sent + 1)
    BY <1>1 DEF Posted, Succeeded, Read
  <2> QED BY <1>3, <1>11, <2>1, <2>2 DEF Delivered, Succeeded
<1>16. Working(b, d)'
  <2>1. sent + 1 # 0
    BY DEF Read
  <2> QED BY <1>3, <1>11, <1>12, <2>1 DEF Working, Before
<1>17. Buffered(d, c, cut)'
  <2>1. Leaves' <=> Leaves
    BY <1>3, EndSame DEF Leaves
  <2>2. \A m, x, y, last : Message(m, x, y, last) => Message(m, x, y, last)'
    BY <1>3, <1>11, <2>1 DEF Message
  <2>3. d <= c
    BY <1>5, <1>7, <1>8
  <2> QED BY <1>1, <1>3, <1>10, <1>11, <2>1, <2>2, <2>3 DEF Buffered
<1>18. Cut(b, d, c, cut)'
  BY <1>1, <1>3, <1>8, <1>14, <1>15, <1>16, <1>17 DEF Cut
<1>19. Exited' /\ Read'
  <2>1. verdict' # "exit"
    BY <1>3 DEF FileTrue
  <2> QED BY <1>3, <2>1, EndSame DEF Exited, Read
<1> QED BY <1>1, <1>3, <1>8, <1>18, <1>19 DEF InputHolds

(* A read takes what follows, up to the exit byte of a terminal.            *)
ReadUpto(reached) ==
  /\ typed' = reached /\ reached \in typed .. Len(BeforeExit)
  /\ \/ reached # typed /\ reading' /\ channel' = Append(channel, Part(typed, reached))
     \/ /\ reached = typed /\ ~reading' /\ channel' = Append(channel, <<Exit>>)
        /\ cmd.terminal /\ reached = Len(BeforeExit)

LEMMA ReadIs ==
  ASSUME ClientAssumption, cmd \in Commands, Read, NEW n \in 1 .. ReadSize, ReadInput(n)
  PROVE  \E reached : ReadUpto(reached)
<1>1. PICK last \in 0 .. Len(cmd.input) :
           /\ last = Len(BeforeExit)
           /\ cmd.terminal =>
                /\ \A i \in 1 .. last : cmd.input[i] # Exit
                /\ last < Len(cmd.input) => cmd.input[last + 1] = Exit
           /\ ~cmd.terminal => last = Len(cmd.input)
  BY BeforeExitIs
<1>2. Len(cmd.input) \in Nat /\ n \in Nat \ {0} /\ typed \in 0 .. last /\ typed + n <= Len(cmd.input)
  BY SMTT(30), <1>1 DEF ReadInput, ClientAssumption, Read
<1>3. PICK bytes : bytes = SubSeq(cmd.input, typed + 1, typed + n)
  OBVIOUS
<1>4. bytes = Part(typed, typed + n)
  BY <1>3 DEF Part
<1>5. /\ bytes \in Seq(ToSet(cmd.input)) /\ Len(bytes) = n
      /\ \A i \in 1 .. n : typed + i \in 1 .. Len(cmd.input) /\ bytes[i] = cmd.input[typed + i]
  <2>1. typed \in Nat /\ typed + n \in 0 .. Len(cmd.input) /\ typed <= typed + n /\ (typed + n) - typed = n
    BY <1>2
  <2> QED BY <1>4, <2>1, PartIs
<1> DEFINE Takes(kept) ==
             /\ channel' = Append(channel, IF kept = 0 THEN <<Exit>> ELSE SubSeq(bytes, 1, kept))
             /\ typed' = typed + kept /\ reading' = (kept # 0)
<1>6. ASSUME NEW kept \in 0 .. n, Takes(kept), typed + kept <= last,
             kept = 0 => cmd.terminal /\ typed = last
      PROVE  ReadUpto(typed + kept)
  <2>1. SubSeq(bytes, 1, kept) = Part(typed, typed + kept)
    <3>1. /\ typed \in Nat /\ typed + n \in 0 .. Len(cmd.input) /\ typed <= typed + n
          /\ kept \in 0 .. (typed + n) - typed
      BY <1>2
    <3>2. SubSeq(Part(typed, typed + n), 1, kept) = Part(typed, typed + kept)
      BY <3>1, PartStart
    <3> QED BY <1>4, <3>2
  <2>2. PICK reached : reached = typed + kept
    OBVIOUS
  <2>3. reached \in typed .. last /\ typed' = reached
    BY <1>2, <1>6, <2>2
  <2>4. CASE kept = 0
    <3>1. channel' = Append(channel, <<Exit>>) /\ ~reading'
      BY <1>6, <2>4
    <3>2. reached = typed
      BY <1>2, <2>2, <2>4
    <3> QED BY <1>1, <1>6, <2>3, <2>4, <3>1, <3>2 DEF ReadUpto
  <2>5. CASE kept # 0
    <3>1. channel' = Append(channel, SubSeq(bytes, 1, kept)) /\ reading'
      BY <1>6, <2>5
    <3>2. channel' = Append(channel, Part(typed, reached))
      BY <2>1, <2>2, <3>1
    <3>3. reached # typed
      BY <1>2, <2>2, <2>5
    <3>4. typed' = reached /\ reached \in typed .. Len(BeforeExit)
      BY <1>1, <2>3
    <3>5. ReadUpto(reached)
      BY <3>1, <3>2, <3>3, <3>4 DEF ReadUpto
    <3> QED BY <2>2, <3>5
  <2> QED BY <2>4, <2>5
<1>7. CASE cmd.terminal /\ Contains(bytes, Exit)
  <2>1. PICK m \in 1 .. Len(bytes) :
           /\ First(bytes, Exit) = m /\ bytes[m] = Exit
           /\ \A i \in 1 .. m - 1 : bytes[i] # Exit
    <3>1. /\ First(bytes, Exit) \in 1 .. Len(bytes) /\ bytes[First(bytes, Exit)] = Exit
          /\ \A i \in 1 .. First(bytes, Exit) - 1 : bytes[i] # Exit
      BY <1>5, <1>7, FirstIs
    <3> QED BY <3>1
  <2>2. PICK kept \in 0 .. n : kept = m - 1
    BY <1>2, <1>5
  <2>3. Takes(kept)
    BY <1>3, <1>7, <2>1, <2>2 DEF ReadInput, SelectInSeq, First
  <2>4. typed + kept = last
    <3>1. typed + m \in 1 .. Len(cmd.input) /\ cmd.input[typed + m] = Exit
      BY <1>5, <2>1
    <3>2. ~(typed + m <= last)
      BY <1>1, <1>7, <3>1
    <3>3. last < Len(cmd.input) /\ cmd.input[last + 1] = Exit
      BY <1>1, <1>2, <1>7, <3>1, <3>2
    <3>4. PICK i \in Nat : i = (last + 1) - typed
      BY <1>2
    <3>5. typed + i = last + 1 /\ i \in 1 .. m
      <4>1. m \in Nat /\ typed \in Nat /\ last \in Nat /\ typed <= last
        BY <1>2, <1>5, <2>1
      <4> QED BY <3>2, <3>4, <4>1
    <3>6. ~(i <= m - 1)
      <4>1. SUFFICES ASSUME i \in 1 .. m - 1 PROVE FALSE
        BY <3>5
      <4>2. bytes[i] # Exit /\ i \in 1 .. n
        BY <1>5, <2>1, <4>1
      <4> QED BY <1>5, <3>3, <3>5, <4>2
    <3>7. m \in Nat /\ typed \in Nat
      BY <1>2, <1>5, <2>1
    <3> QED BY <2>2, <3>5, <3>6, <3>7
  <2>5. kept = 0 => typed = last
    BY <1>2, <2>2, <2>4
  <2>6. typed + kept <= last
    BY <2>4
  <2> HIDE DEF Takes
  <2> QED BY <1>6, <1>7, <2>3, <2>5, <2>6
<1>8. CASE ~(cmd.terminal /\ Contains(bytes, Exit))
  <2>1. Takes(n)
    BY <1>3, <1>8 DEF ReadInput
  <2>2. typed + n <= last
    <3>1. SUFFICES ASSUME cmd.terminal, ~(typed + n <= last) PROVE FALSE
      BY <1>1, <1>2
    <3>2. last < Len(cmd.input) /\ cmd.input[last + 1] = Exit
      BY <1>1, <1>2, <3>1
    <3>3. PICK i \in 1 .. n : i = (last + 1) - typed
      BY <1>2, <3>1
    <3>4. typed + i = last + 1
      BY <1>2, <3>3
    <3>5. bytes[i] = Exit
      BY <1>5, <3>2, <3>4
    <3> QED BY <1>5, <1>8, <3>1, <3>5 DEF Contains
  <2>3. n \in 0 .. n /\ n # 0
    BY <1>2
  <2> HIDE DEF Takes
  <2> QED BY <1>6, <2>1, <2>2, <2>3
<1> QED BY <1>7, <1>8

LEMMA InputIsRead ==
  ASSUME ClientAssumption, cmd \in Commands,
         NEW a, NEW b, NEW c, NEW cut, Cut(a, b, c, cut), Read, Exited, FileTrue,
         NEW n \in 1 .. ReadSize, ReadInput(n)
  PROVE  InputHolds'
<1>1. /\ a \in 0 .. typed /\ b \in 0 .. typed /\ c \in 0 .. typed
      /\ cut \in [0 .. Len(channel) -> 0 .. typed]
      /\ Posted(a, b) /\ Delivered(a, b) /\ Working(a, b) /\ Buffered(b, c, cut)
  BY DEF Cut
<1>2. /\ UNCHANGED <<ops, device, sent, cmd, pending, exiting, pc, verdict, call, flights>>
      /\ pc = "capture" /\ reading
  BY DEF ReadInput, daemonVars
<1>3. PICK reached : ReadUpto(reached)
  BY ReadIs
<1>4. \A x, y : Part(x, y)' = Part(x, y)
  BY <1>2, PartSame
<1>5. BeforeExit' = BeforeExit
  BY <1>2, EndSame
<1>6. ~Leaves /\ ~exiting
  BY <1>1, <1>2 DEF Leaves, Buffered
<1>7. typed' = reached /\ typed \in Nat /\ reached \in Nat /\ typed <= reached /\ reached <= Len(BeforeExit)
  <2>1. PICK last \in 0 .. Len(cmd.input) : last = Len(BeforeExit)
    BY BeforeExitIs
  <2> QED BY <1>3, <2>1 DEF Read, ReadUpto, ClientAssumption
<1>8. PICK x : x = typed
  OBVIOUS
<1>9. PICK m : channel' = Append(channel, m) /\ Message(m, x, reached, TRUE)'
  <2>1. CASE reached # typed /\ reading' /\ channel' = Append(channel, Part(typed, reached))
    <3>1. PICK m : m = Part(x, reached)
      OBVIOUS
    <3>2. Message(m, x, reached, TRUE)'
      BY <1>4, <3>1 DEF Message
    <3> QED BY <1>8, <2>1, <3>1, <3>2
  <2>2. CASE /\ reached = typed /\ ~reading' /\ channel' = Append(channel, <<Exit>>)
             /\ cmd.terminal /\ reached = Len(BeforeExit)
    <3>1. Leaves' /\ cmd'.terminal
      BY <1>2, <1>5, <1>7, <2>2 DEF Leaves
    <3>2. Message(<<Exit>>, x, reached, TRUE)'
      BY <1>8, <2>2, <3>1 DEF Message
    <3> QED BY <2>2, <3>2
  <2> QED BY <1>3, <2>1, <2>2 DEF ReadUpto
<1>11. PICK S : S = ToSet(channel) \cup {m}
  OBVIOUS
<1>12. channel \in Seq(S) /\ m \in S
  BY <1>1, <1>11 DEF Buffered
<1>13. PICK k \in Nat : k = Len(channel)
  BY <1>12
<1>14. /\ channel' \in Seq(S) /\ Len(channel') = k + 1 /\ channel'[k + 1] = m
       /\ \A i \in 1 .. k : channel'[i] = channel[i]
  BY <1>9, <1>12, <1>13
<1>15. channel' \in Seq(ToSet(channel'))
  BY <1>14, OwnSet
<1>16. PICK more : more = [i \in 0 .. k + 1 |-> IF i = k + 1 THEN reached ELSE cut[i]]
  OBVIOUS
<1>17. more \in [0 .. k + 1 -> 0 .. reached] /\ more[k + 1] = reached /\ \A i \in 0 .. k : more[i] = cut[i]
  <2>1. \A i \in 0 .. k : cut[i] \in 0 .. reached
    BY SMTT(30), <1>1, <1>7, <1>13
  <2> QED BY <1>7, <1>13, <1>16, <2>1
<1>18. ASSUME NEW i \in 1 .. k + 1, NEW message, message = channel'[i]
       PROVE  more[i - 1] <= more[i] /\ Message(message, more[i - 1], more[i], i = k + 1)'
  <2>1. CASE i = k + 1
    <3>1. more[i - 1] = x /\ more[i] = reached /\ message = m
      <4>1. i - 1 = k /\ i - 1 \in 0 .. k /\ cut[k] = typed
        BY <1>1, <1>13, <2>1 DEF Buffered
      <4> QED BY <1>8, <1>14, <1>17, <1>18, <2>1, <4>1
    <3>2. Message(m, x, reached, i = k + 1)'
      BY <1>9, <2>1 DEF Message
    <3>3. x <= reached
      BY <1>7, <1>8
    <3> QED BY <3>1, <3>2, <3>3
  <2>2. CASE i # k + 1
    <3>1. i \in 1 .. k /\ i - 1 \in 0 .. k /\ i \in 0 .. k
      BY <2>2
    <3>2. cut[i - 1] <= cut[i] /\ Message(channel[i], cut[i - 1], cut[i], i = Len(channel))
      BY <1>1, <1>13, <3>1 DEF Buffered
    <3>3. channel[i] = Part(cut[i - 1], cut[i])
      BY <1>6, <3>2 DEF Message
    <3>4. message = Part(more[i - 1], more[i]) /\ more[i - 1] <= more[i]
      BY <1>14, <1>17, <1>18, <3>1, <3>2, <3>3
    <3> QED BY <1>4, <3>4 DEF Message
  <2> QED BY <2>1, <2>2
<1>19. Buffered(b, c, more)'
  <2>1. more[0] = c /\ more[k + 1] = typed' /\ b <= c /\ pending' = Part(b, c) /\ ~exiting'
    <3>1. cut[0] = c /\ b <= c /\ pending = Part(b, c) /\ 0 \in 0 .. k
      BY <1>1, <1>13 DEF Buffered
    <3> QED BY <1>2, <1>6, <1>7, <1>17, <3>1
  <2> QED BY <1>4, <1>14, <1>15, <1>18, <2>1 DEF Buffered
<1>20. Posted(a, b)' /\ Delivered(a, b)'
  BY <1>1, <1>2, PostedSame, DeliveredSame
<1>21. Working(a, b)'
  <2>1. Succeeded(sent)' <=> Succeeded(sent)
    BY <1>2 DEF Succeeded
  <2> QED BY <1>1, <1>2, <1>4, <2>1 DEF Working, Before
<1>22. /\ a \in 0 .. typed' /\ b \in 0 .. typed' /\ c \in 0 .. typed'
       /\ more \in [0 .. Len(channel') -> 0 .. typed']
  BY SMTT(30), <1>1, <1>7, <1>14, <1>17
<1>23. Cut(a, b, c, more)'
  BY <1>19, <1>20, <1>21, <1>22 DEF Cut
<1>24. Read' /\ Exited'
  <2>1. verdict' # "exit"
    BY <1>2 DEF FileTrue
  <2> QED BY <1>2, <1>5, <1>7, <2>1 DEF Read, Exited
<1> QED BY <1>22, <1>23, <1>24 DEF InputHolds

(* The loop takes one message, if it has room for a piece.                  *)
LEMMA InputIsReceived ==
  ASSUME ClientAssumption, cmd \in Commands,
         NEW a, NEW b, NEW c, NEW cut, Cut(a, b, c, cut), Read, Exited, FileTrue, ReceiveInput
  PROVE  InputHolds'
<1>1. /\ a \in 0 .. typed /\ b \in 0 .. typed /\ c \in 0 .. typed
      /\ cut \in [0 .. Len(channel) -> 0 .. typed]
      /\ Posted(a, b) /\ Delivered(a, b) /\ Working(a, b) /\ Buffered(b, c, cut)
  BY DEF Cut
<1>2. /\ UNCHANGED <<ops, device, sent, cmd, typed, reading, pc, verdict, call, flights>>
      /\ pc = "capture" /\ ~exiting /\ channel # <<>> /\ channel' = Tail(channel)
      /\ IF cmd.terminal /\ Head(channel) = <<Exit>>
           THEN exiting' = TRUE /\ UNCHANGED pending
           ELSE pending' = pending \o Head(channel) /\ UNCHANGED exiting
  BY DEF ReceiveInput, Waiting, daemonVars
<1>3. \A x, y : Part(x, y)' = Part(x, y)
  BY <1>2, PartSame
<1>4. Leaves' <=> Leaves
  BY <1>2, EndSame DEF Leaves
<1>5. PICK S : S = ToSet(channel)
  OBVIOUS
<1>6. channel \in Seq(S)
  BY <1>1, <1>5 DEF Buffered
<1>7. PICK k \in Nat : k + 1 = Len(channel)
  <2>1. Len(channel) \in Nat \ {0}
    BY <1>2, <1>6
  <2>2. Len(channel) - 1 \in Nat /\ (Len(channel) - 1) + 1 = Len(channel)
    BY <2>1
  <2> QED BY Zenon, <2>2
<1>8. /\ Head(channel) = channel[1] /\ channel' \in Seq(S) /\ Len(channel') = k
      /\ \A i \in 1 .. k : channel'[i] = channel[i + 1]
  <2>1. /\ Head(channel) = channel[1] /\ Tail(channel) \in Seq(S)
        /\ DOMAIN Tail(channel) = 1 .. (k + 1) - 1
        /\ \A i \in DOMAIN Tail(channel) : Tail(channel)[i] = channel[i + 1]
    BY <1>2, <1>6, <1>7, TailOf
  <2>2. (k + 1) - 1 = k
    OBVIOUS
  <2>3. DOMAIN channel' = 1 .. k /\ channel' \in Seq(S)
    BY <1>2, <2>1, <2>2
  <2>4. Len(channel') = k
    BY <2>3
  <2> QED BY <1>2, <2>1, <2>3, <2>4
<1>9. channel' \in Seq(ToSet(channel'))
  BY <1>8, OwnSet
<1>10. PICK d : d = cut[1]
  OBVIOUS
<1>11. d \in 0 .. typed /\ cut[0] = c /\ c <= d /\ Message(channel[1], c, d, 1 = k + 1)
  <2>1. 1 \in 1 .. Len(channel) /\ 1 \in 0 .. Len(channel) /\ 1 - 1 = 0
    BY <1>7
  <2> QED BY <1>1, <1>7, <1>10, <2>1 DEF Buffered
<1>12. PICK rest : rest = [i \in 0 .. k |-> cut[i + 1]]
  OBVIOUS
<1>13. rest \in [0 .. k -> 0 .. typed] /\ rest[0] = d /\ rest[k] = typed /\ \A i \in 0 .. k : rest[i] = cut[i + 1]
  <2>1. \A i \in 0 .. k : i + 1 \in 0 .. k + 1 /\ cut[i + 1] \in 0 .. typed
    BY <1>1, <1>7
  <2>2. cut[k + 1] = typed
    BY <1>1, <1>7 DEF Buffered
  <2> QED BY <1>10, <1>12, <2>1, <2>2
<1>14. ASSUME NEW i \in 1 .. k, NEW message, message = channel'[i]
       PROVE  rest[i - 1] <= rest[i] /\ Message(message, rest[i - 1], rest[i], i = k)'
  <2>1. i + 1 \in 1 .. k + 1 /\ (i + 1) - 1 = i /\ (i - 1) + 1 = i /\ i \in 0 .. k /\ i - 1 \in 0 .. k
    OBVIOUS
  <2>2. cut[i] <= cut[i + 1] /\ Message(channel[i + 1], cut[i], cut[i + 1], i + 1 = k + 1)
    BY <1>1, <1>7, <2>1 DEF Buffered
  <2>3. rest[i - 1] = cut[i] /\ rest[i] = cut[i + 1] /\ message = channel[i + 1]
    BY <1>8, <1>13, <1>14, <2>1
  <2>4. i + 1 = k + 1 <=> i = k
    OBVIOUS
  <2>5. \/ message = Part(rest[i - 1], rest[i])
        \/ message = <<Exit>> /\ cmd.terminal /\ i = k /\ Leaves /\ rest[i - 1] = rest[i]
    BY <2>2, <2>3, <2>4 DEF Message
  <2> QED BY <1>2, <1>3, <1>4, <2>2, <2>3, <2>5 DEF Message
<1>15. PICK last \in 0 .. Len(cmd.input) :
           /\ last = Len(BeforeExit)
           /\ cmd.terminal => \A i \in 1 .. last : cmd.input[i] # Exit
  BY BeforeExitIs
<1>16. Len(cmd.input) \in Nat /\ typed \in 0 .. last
  BY <1>15 DEF Read, ClientAssumption
<1>17. b \in Nat /\ c \in Nat /\ d \in 0 .. Len(cmd.input) /\ b <= c /\ pending = Part(b, c)
  BY <1>1, <1>11, <1>16 DEF Buffered
<1>18. /\ pending' = Part(b, d) /\ (exiting' => k = 0 /\ Leaves)
  <2>1. CASE cmd.terminal /\ channel[1] = <<Exit>>
    <3>1. channel[1] # Part(c, d)
      <4>1. SUFFICES ASSUME Part(c, d) = <<Exit>> PROVE FALSE
        BY <2>1
      <4>2. /\ Len(Part(c, d)) = d - c
            /\ \A i \in 1 .. d - c : Part(c, d)[i] = cmd.input[c + i]
        BY <1>11, <1>17, PartIs
      <4>3. d - c = 1 /\ Part(c, d)[1] = Exit
        BY <4>1, <4>2
      <4>4. cmd.input[c + 1] = Exit
        BY <4>2, <4>3
      <4>5. c + 1 \in 1 .. last
        BY <1>11, <1>16, <1>17, <4>3
      <4> QED BY <1>15, <2>1, <4>4, <4>5
    <3>2. 1 = k + 1 /\ Leaves /\ c = d
      BY <1>11, <3>1 DEF Message
    <3> QED BY <1>2, <1>8, <1>17, <2>1, <3>2
  <2>2. CASE ~(cmd.terminal /\ channel[1] = <<Exit>>)
    <3>1. channel[1] = Part(c, d)
      BY <1>11, <2>2 DEF Message
    <3>2. pending' = Part(b, c) \o Part(c, d) /\ ~exiting'
      BY <1>2, <1>8, <1>17, <2>2, <3>1
    <3>3. Part(b, c) \o Part(c, d) = Part(b, d)
      BY <1>11, <1>17, PartsMeet
    <3> QED BY <3>2, <3>3
  <2> QED BY <2>1, <2>2
<1>19. Buffered(b, d, rest)'
  <2>1. exiting' => channel' = <<>> /\ Leaves'
    <3>1. Len(channel') = 0 => channel' = <<>>
      BY <1>8
    <3> QED BY <1>4, <1>8, <1>18, <3>1
  <2>2. b <= d
    BY <1>11, <1>16, <1>17
  <2> QED BY <1>2, <1>3, <1>8, <1>9, <1>13, <1>14, <1>18, <2>1, <2>2 DEF Buffered
<1>20. Posted(a, b)' /\ Delivered(a, b)' /\ Read'
  BY <1>1, <1>2, PostedSame, DeliveredSame, ReadSame
<1>21. Working(a, b)'
  <2>1. Succeeded(sent)' <=> Succeeded(sent)
    BY <1>2 DEF Succeeded
  <2> QED BY <1>1, <1>2, <1>3, <2>1 DEF Working, Before
<1>22. /\ a \in 0 .. typed' /\ b \in 0 .. typed' /\ d \in 0 .. typed'
       /\ rest \in [0 .. Len(channel') -> 0 .. typed']
  BY <1>1, <1>2, <1>8, <1>11, <1>13
<1>23. Cut(a, b, d, rest)'
  BY <1>19, <1>20, <1>21, <1>22 DEF Cut
<1>24. Exited'
  BY <1>2, ExitedSame
<1> QED BY <1>20, <1>22, <1>23, <1>24 DEF InputHolds

(* Before the first byte is read.                                           *)
Unread ==
  /\ cmd \in Commands /\ sent = 0 /\ typed = 0 /\ channel = <<>> /\ pending = <<>> /\ ~exiting
  /\ Posted(0, 0) /\ Delivered(0, 0) /\ pc = "submit" /\ verdict = "none"

LEMMA NothingRead == Unread => InputHolds
<1> SUFFICES ASSUME Unread PROVE InputHolds
  OBVIOUS
<1> USE DEF Unread
<1>1. Len(BeforeExit) \in Nat
  <2>1. PICK last \in 0 .. Len(cmd.input) : last = Len(BeforeExit)
    BY ClientAssumption, BeforeExitIs
  <2> QED BY <2>1
<1>2. Read /\ Exited
  BY <1>1 DEF Read, Exited
<1>3. PICK cut : cut = [i \in 0 .. 0 |-> 0]
  OBVIOUS
<1>4. cut[0] = 0 /\ cut \in [0 .. 0 -> 0 .. 0]
  BY <1>3
<1>5. Len(channel) = 0 /\ channel \in Seq(ToSet(channel))
  BY OwnSet
<1>6. Part(0, 0) = <<>>
  BY PartNone
<1>7. Buffered(0, 0, cut)
  BY <1>4, <1>5, <1>6 DEF Buffered
<1>8. Working(0, 0)
  BY DEF Working, Before
<1>9. Cut(0, 0, 0, cut)
  BY <1>4, <1>5, <1>7, <1>8 DEF Cut
<1> QED BY <1>2, <1>4, <1>5, <1>9 DEF InputHolds

LEMMA InputStart == Init => InputInv
<1> SUFFICES ASSUME Init PROVE InputInv
  OBVIOUS
<1>1. /\ cmd \in Commands /\ sent = 0 /\ typed = 0 /\ channel = <<>> /\ pending = <<>> /\ ~exiting
      /\ pc = "submit" /\ verdict = "none" /\ flights = {} /\ DOMAIN ops = {} /\ device = <<>>
  BY DEF Init
<1>2. Part(0, 0) = <<>>
  BY PartNone
<1>3. Posted(0, 0) /\ Delivered(0, 0)
  BY <1>1, <1>2 DEF Posted, Delivered, Succeeded
<1> QED BY <1>1, <1>3, NothingRead DEF InputInv, Unread

LEMMA InputRepeats ==
  ASSUME cmd \in Commands, NEW a, NEW b, NEW c, NEW cut, Cut(a, b, c, cut), Repeat
  PROVE  InputHolds'
<1>1. /\ UNCHANGED <<ops, device, sent, cmd, typed, flights>> /\ sent = 0 /\ typed = 0
      /\ channel' = <<>> /\ pending' = <<>> /\ ~exiting' /\ pc' = "submit" /\ verdict' = "none"
  BY DEF Repeat
<1>2. Posted(a, b) /\ Delivered(a, b) /\ a = 0 /\ b = 0
  BY <1>1 DEF Cut
<1>3. Posted(a, b)' /\ Delivered(a, b)'
  BY <1>1, <1>2, PostedSame, DeliveredSame
<1>4. Unread'
  BY <1>1, <1>2, <1>3 DEF Unread
<1>5. Unread' => InputHolds'
  BY NothingRead, PTL
<1> QED BY <1>4, <1>5

(* What the daemon has forgotten, it forgot.                                *)
LEMMA ForgottenBefore ==
  ASSUME Retained, [Next]_vars, NothingForgotten' PROVE NothingForgotten
<1>1. ASSUME UNCHANGED forgot PROVE NothingForgotten
  BY <1>1 DEF NothingForgotten
<1>2. ASSUME \A r \in DOMAIN forgot : r \in DOMAIN forgot' /\ forgot'[r] \in {forgot[r], forgot[r] + 1}
      PROVE  NothingForgotten
  BY <1>2 DEF NothingForgotten, Retained
<1>3. CASE Daemon
  <2>1. ASSUME NEW f \in flights, Handle(f) PROVE NothingForgotten
    BY <1>1, <2>1 DEF Handle, Replay, Admit, Refuse, daemonVars
  <2>2. CASE Report \/ (\E n \in OutputReads : Publish(n)) \/ Evict \/ Port
    BY <1>1, <2>2, PortSteps DEF Report, Publish, Evict
  <2>3. CASE \E k \in DOMAIN ops, ok \in BOOLEAN : Finish(k, ok)
    BY <1>1, <2>3 DEF Finish
  <2>4. ASSUME NEW k \in DOMAIN ops, Forget(k) PROVE NothingForgotten
    <3>1. forgot' = [forgot EXCEPT ![k] = @ + 1]
      BY <2>4 DEF Forget, Retained
    <3> QED BY <1>2, <3>1
  <2>5. CASE Restart
    <3>1. \A r \in DOMAIN forgot : r \in DOMAIN forgot' /\ forgot'[r] \in {forgot[r], forgot[r] + 1}
      BY <2>5 DEF Restart
    <3> QED BY <1>2, <3>1
  <2>6. CASE AnswerEvents
    BY <1>1, <2>6 DEF AnswerEvents, daemonVars
  <2> QED BY <1>3, <2>1, <2>2, <2>3, <2>4, <2>5, <2>6 DEF Daemon
<1>4. CASE Repeat
  BY <1>1, <1>4 DEF Repeat
<1>5. CASE ~Daemon /\ ~Repeat
  BY <1>1, <1>5, ClientSteps DEF daemonVars
<1> QED BY <1>3, <1>4, <1>5

LEMMA InputStep ==
  ASSUME Retained, ReportInv, OpsTrue', InputInv, [Next]_vars PROVE InputInv'
<1>1. SUFFICES ASSUME NothingForgotten' PROVE InputHolds'
  BY DEF InputInv
<1>2. InputHolds
  BY <1>1, ForgottenBefore DEF InputInv
<1>3. ClientAssumption /\ cmd \in Commands /\ LogTyped /\ OpsTrue /\ CallTrue /\ StartTrue /\ FileTrue
  BY ClientAssumption DEF ReportInv, LogTyped
<1>4. PICK a, b, c \in 0 .. typed, cut \in [0 .. Len(channel) -> 0 .. typed] : Cut(a, b, c, cut)
  BY <1>2 DEF InputHolds
<1>5. Read /\ Exited /\ Posted(a, b)
  BY <1>2, <1>4 DEF InputHolds, Cut
<1>6. CASE Daemon
  <2>1. CASE \E f \in flights : Handle(f)
    BY <1>3, <1>4, <1>5, <2>1, InputHandled
  <2>2. CASE Report \/ (\E n \in OutputReads : Publish(n)) \/ Port \/ Evict \/ AnswerEvents
    BY <1>3, <1>4, <1>5, <2>2, InputElsewhere
  <2>3. CASE \E k \in DOMAIN ops, ok \in BOOLEAN : Finish(k, ok)
    BY <1>3, <1>4, <1>5, <2>3, InputFinishes
  <2>4. CASE \E k \in DOMAIN ops : Forget(k)
    BY <1>1, <1>3, <1>5, <2>4, NothingToForget
  <2>5. CASE Restart
    <3>1. DOMAIN ops = {}
      BY <1>1, <1>3, <1>5, <2>5, NothingToForget
    <3> QED BY <1>4, <1>5, <2>5, <3>1, InputRestarts
  <2> QED BY <1>6, <2>1, <2>2, <2>3, <2>4, <2>5 DEF Daemon
<1>7. CASE Proceed
  <2>1. CASE Submit \/ Resend
    BY <1>3, <1>4, <1>5, <2>1, InputPosts
  <2>2. CASE \/ GiveUp \/ Submitted \/ GivesUpWaiting \/ OpenOutput \/ Elapsed
             \/ (\E end \in {"eof", "error"} : StopTransfer(end))
    BY <1>3, <1>4, <1>5, <2>2, InputElsewhere
  <2>3. CASE Waited \/ Drain
    BY <1>3, <1>4, <1>5, <2>3, InputWaited
  <2>4. CASE StartWrite
    BY <1>3, <1>4, <1>5, <2>4, InputIsPosted
  <2>5. CASE Leave
    BY <1>3, <1>4, <1>5, <2>5, InputLeaves
  <2>6. CASE Wrote
    BY <1>3, <1>4, <1>5, <2>6, InputHeard
  <2> QED BY <1>7, <2>1, <2>2, <2>3, <2>4, <2>5, <2>6 DEF Proceed
<1>8. CASE Poll
  BY <1>3, <1>4, <1>5, <1>8, InputHeard
<1>9. CASE TakeFlashEvents \/ Transfer \/ TakeEvents \/ Interrupt \/ SomebodyWrites \/ UNCHANGED vars
  BY <1>3, <1>4, <1>5, <1>9, InputElsewhere
<1>10. CASE \E n \in 1 .. ReadSize : ReadInput(n)
  BY <1>3, <1>4, <1>5, <1>10, InputIsRead
<1>11. CASE ReceiveInput
  BY <1>3, <1>4, <1>5, <1>11, InputIsReceived
<1>12. CASE Repeat
  BY <1>3, <1>4, <1>12, InputRepeats
<1> QED BY <1>6, <1>7, <1>8, <1>9, <1>10, <1>11, <1>12 DEF Next

LEMMA ClientStart == Init => ClientInv
BY ClientAssumption, RetainedStart, ReportStart, InputStart DEF ClientInv

LEMMA ClientStep == ClientInv /\ [Next]_vars => ClientInv'
<1> SUFFICES ASSUME ClientInv, [Next]_vars PROVE ClientInv'
  OBVIOUS
<1>1. Retained /\ ReportInv /\ InputInv
  BY DEF ClientInv
<1>2. Retained'
  BY <1>1, RetainedStep
<1>3. ReportInv'
  BY <1>1, ClientAssumption, ReportStep
<1>4. OpsTrue'
  BY <1>3 DEF ReportInv
<1>5. InputInv'
  BY <1>1, <1>4, InputStep
<1> QED BY <1>2, <1>3, <1>5 DEF ClientInv

LEMMA ClientAlways == Spec => []ClientInv
BY ClientStart, ClientStep, PTL DEF Spec

(* forward_monitor_input, capture_loop, MonitorHttp::write: what is typed   *)
(* reaches the board in order and once, and nothing behind the exit byte    *)
(* does, in whatever reads, pieces and attempts it travels.                 *)
THEOREM InputIsInOrder == Spec => []InputInOrder
<1>1. ClientInv => InputInOrder
  <2>1. SUFFICES ASSUME ClientInv, NothingForgotten PROVE IsPrefix(device, BeforeExit)
    BY DEF InputInOrder
  <2>2. InputHolds /\ cmd \in Commands
    BY <2>1 DEF ClientInv, InputInv, ReportInv, LogTyped
  <2>3. PICK last \in 0 .. Len(cmd.input) : last = Len(BeforeExit) /\ BeforeExit = Part(0, last)
    BY <2>2, ClientAssumption, BeforeExitIs
  <2>4. PICK m \in 0 .. typed : device = Part(0, m)
    BY <2>2 DEF InputHolds, Cut, Delivered
  <2>5. Len(cmd.input) \in Nat /\ m \in Nat /\ m <= last /\ last - 0 = last /\ m - 0 = m
    BY <2>2, <2>3, <2>4, ClientAssumption DEF InputHolds, Read, ClientAssumption
  <2>6. Len(device) = m
    <3>1. 0 \in Nat /\ m \in 0 .. Len(cmd.input) /\ 0 <= m
      BY <2>3, <2>5
    <3>2. Len(Part(0, m)) = m - 0
      BY <2>2, <3>1, ClientAssumption, PartIs
    <3> QED BY <2>4, <2>5, <3>2
  <2>7. SubSeq(device, 1, m) = Part(0, m) /\ SubSeq(BeforeExit, 1, m) = Part(0, m)
    <3>1. ASSUME NEW n \in m .. last PROVE SubSeq(Part(0, n), 1, m) = Part(0, m)
      <4>1. m \in Nat /\ last \in 0 .. Len(cmd.input) /\ Len(cmd.input) \in Nat
        BY <2>3, <2>5
      <4>2. n \in 0 .. Len(cmd.input) /\ 0 \in Nat /\ 0 <= n /\ m \in 0 .. n - 0 /\ 0 + m = m
        BY <4>1
      <4>3. SubSeq(Part(0, n), 1, m) = Part(0, 0 + m)
        BY <2>2, <4>2, ClientAssumption, PartStart
      <4> QED BY <4>2, <4>3
    <3>2. m \in m .. last /\ last \in m .. last
      BY <2>3, <2>5
    <3> QED BY <2>3, <2>4, <3>1, <3>2
  <2> QED BY <2>3, <2>5, <2>6, <2>7 DEF IsPrefix
<1> QED BY <1>1, ClientAlways, PTL

(* run, main: a command that reports success did what it reports, and one   *)
(* that failed leaves no part of a file.                                    *)
THEOREM SuccessIsTrue == Spec => []SuccessMeansDone
<1>1. ClientInv => SuccessMeansDone
  <2>1. SUFFICES ASSUME ClientInv PROVE SuccessMeansDone
    OBVIOUS
  <2>2. ReportInv /\ (NothingForgotten => InputHolds)
    BY <2>1 DEF ClientInv, InputInv
  <2>3. ASSUME pc = "done", start.epoch = epoch
        PROVE \E n \in start.after + 1 .. Len(log) :
                log[n].kind = "operation_finished" /\ log[n].data = <<0, "succeeded">>
    <3>1. PICK n \in start.after + 1 .. Len(log) : log[n] = Event("operation_finished", <<0, "succeeded">>)
      BY <2>2, <2>3 DEF ReportInv, StartTrue, Ended
    <3> QED BY <3>1 DEF Event
  <2>4. verdict = "saved" => file = [owner |-> "client", chunks |-> Chunks]
    BY <2>2 DEF ReportInv, FileTrue
  <2>5. pc = "failed" => file.owner # "client"
    BY <2>2 DEF ReportInv, FileTrue
  <2>6. verdict = "exit" /\ NothingForgotten => device = BeforeExit
    BY <2>2 DEF InputHolds, Exited
  <2>7. ASSUME verdict = "matched", start.epoch = epoch
        PROVE \E i \in DOMAIN Since(cursor) : Matches(Since(cursor)[i])
    <3>1. cursor.epoch = epoch
      BY <2>2, <2>7 DEF ReportInv, MatchTrue
    <3>2. PICK n \in start.after + 1 .. cursor.after : Matches(log[n])
      BY <2>2, <2>7 DEF ReportInv, MatchTrue
    <3>3. log \in Seq(ToSet(log)) /\ start.after \in Nat /\ cursor.after \in 0 .. Len(log)
      BY <2>2, <3>1 DEF ReportInv, LogTyped, StartTrue, AskedTrue, Reached, Cursors
    <3>4. PICK x \in Nat, y \in 0 .. Len(log) : x = start.after /\ y = cursor.after
      BY <3>3
    <3>5. PICK t : t = SubSeq(log, x + 1, y)
      OBVIOUS
    <3>6. x <= y /\ n - x \in 1 .. y - x /\ x + (n - x) = n
      BY <3>2, <3>3, <3>4
    <3>7. /\ t \in Seq(ToSet(log)) /\ Len(t) = y - x
          /\ \A i \in 1 .. y - x : t[i] = log[x + i]
      <4>1. /\ SubSeq(log, x + 1, y) \in Seq(ToSet(log)) /\ Len(SubSeq(log, x + 1, y)) = y - x
            /\ \A i \in 1 .. y - x : x + i \in 1 .. Len(log) /\ SubSeq(log, x + 1, y)[i] = log[x + i]
        BY <3>3, <3>6, PartOf
      <4> QED BY <3>5, <4>1
    <3>8. n - x \in DOMAIN t /\ t[n - x] = log[n]
      BY <3>6, <3>7
    <3>9. t = Since(cursor)
      BY <3>4, <3>5 DEF Since
    <3> QED BY <3>2, <3>8, <3>9
  <2> QED BY <2>3, <2>4, <2>5, <2>6, <2>7 DEF SuccessMeansDone
<1> QED BY <1>1, ClientAlways, PTL

-----------------------------------------------------------------------------
(* Sequences of sequences. *)

LEMMA FlattenNone == FlattenSeq(<<>>) = <<>>
BY DEF FlattenSeq

LEMMA JoinIs ==
  ASSUME NEW S, NEW s \in Seq(S), NEW t \in Seq(S)
  PROVE  /\ s \o t \in Seq(S) /\ Len(s \o t) = Len(s) + Len(t)
         /\ \A i \in 1 .. Len(s) : (s \o t)[i] = s[i]
         /\ \A i \in 1 .. Len(t) : (s \o t)[Len(s) + i] = t[i]
OBVIOUS

Join(s, t) == s \o t

LEMMA JoinsAssociate ==
  ASSUME NEW S, NEW x \in Seq(S), NEW y \in Seq(S), NEW z \in Seq(S)
  PROVE  Join(Join(x, y), z) = Join(x, Join(y, z))
BY DEF Join

LEMMA JoinNone == ASSUME NEW S, NEW x \in Seq(S) PROVE Join(x, <<>>) = x /\ Join(<<>>, x) = x
BY DEF Join

(* f grows from p by the n sequences of tt, one by one.                     *)
Grown(f, p, n, tt) == f[0] = p /\ \A k \in 1 .. n : f[k] = Join(f[k - 1], tt[k])

Associative(Q) == \A x \in Q, y \in Q, z \in Q : Join(Join(x, y), z) = Join(x, Join(y, z))
AllIn(tt, n, Q) == \A k \in 1 .. n : tt[k] \in Q
Stays(g, n, Q) == \A k \in 0 .. n : g[k] \in Q

LEMMA GrownOnce ==
  ASSUME NEW Q, NEW n \in Nat, NEW tt, NEW g, NEW p \in Q, NEW f, NEW k \in Nat, k + 1 <= n,
         Associative(Q), Grown(f, p, n, tt), Grown(g, <<>>, n, tt), g[k] \in Q, tt[k + 1] \in Q,
         f[k] = Join(p, g[k])
  PROVE  f[k + 1] = Join(p, g[k + 1])
<1>1. k + 1 \in 1 .. n /\ (k + 1) - 1 = k
  OBVIOUS
<1>2. f[k + 1] = Join(f[k], tt[k + 1])
  BY <1>1 DEF Grown
<1>3. g[k + 1] = Join(g[k], tt[k + 1])
  BY <1>1 DEF Grown
<1>4. Join(Join(p, g[k]), tt[k + 1]) = Join(p, Join(g[k], tt[k + 1]))
  BY Zenon DEF Associative
<1> QED BY <1>2, <1>3, <1>4

(* f and g grow by the same sequences, f from p.                            *)
Beside(Q, n, tt, g, p, f) ==
  /\ n \in Nat /\ p \in Q /\ AllIn(tt, n, Q) /\ Stays(g, n, Q)
  /\ Grown(g, <<>>, n, tt) /\ Grown(f, p, n, tt)

LEMMA GrownAll ==
  ASSUME NEW Q, NEW n, NEW tt, NEW g, NEW p, NEW f, Associative(Q), Join(p, <<>>) = p,
         Beside(Q, n, tt, g, p, f)
  PROVE  f[n] = Join(p, g[n])
<1> DEFINE T == {k \in Nat : k <= n => f[k] = Join(p, g[k])}
<1>1. /\ n \in Nat /\ p \in Q /\ AllIn(tt, n, Q) /\ Stays(g, n, Q)
      /\ Grown(g, <<>>, n, tt) /\ Grown(f, p, n, tt)
  BY DEF Beside
<1>2. 0 \in T
  <2>1. f[0] = p /\ g[0] = <<>>
    BY <1>1 DEF Grown
  <2>2. f[0] = Join(p, g[0])
    BY <2>1
  <2> QED BY <2>2
<1>3. ASSUME NEW k \in T PROVE k + 1 \in T
  <2>1. k \in Nat /\ (k <= n => f[k] = Join(p, g[k]))
    BY Zenon
  <2>2. k + 1 \in Nat
    BY <2>1
  <2>3. ASSUME k + 1 <= n PROVE f[k + 1] = Join(p, g[k + 1])
    <3>1. k \in 0 .. n /\ k + 1 \in 1 .. n /\ k <= n
      BY <1>1, <2>1, <2>3
    <3>2. g[k] \in Q /\ tt[k + 1] \in Q
      BY <1>1, <3>1 DEF AllIn, Stays
    <3> HIDE DEF T
    <3> QED BY <1>1, <2>1, <2>3, <3>1, <3>2, GrownOnce
  <2> QED BY <2>2, <2>3, Zenon
<1>4. T \in SUBSET Nat
  BY Zenon
<1>5. T = Nat
  <2> HIDE DEF T
  <2> QED BY <1>2, <1>3, <1>4, Induction
<1>6. \A k \in T : k <= n => f[k] = Join(p, g[k])
  BY Zenon
<1> HIDE DEF T
<1> QED BY <1>1, <1>5, <1>6

LEMMA JoinsIn ==
  ASSUME NEW S, NEW Q, Q = Seq(S)
  PROVE  /\ <<>> \in Q /\ Associative(Q)
         /\ \A p \in Q : Join(p, <<>>) = p /\ Join(<<>>, p) = p
BY JoinsAssociate, JoinNone DEF Associative

(* Sequences of elements of S, in a row.                                    *)
Rows(S, ss) == ss \in Seq(Seq(S))

LEMMA FlattenGrown ==
  ASSUME NEW S, NEW ss, Rows(S, ss), NEW last, last = Len(ss)
  PROVE  /\ last \in Nat /\ AllIn(ss, last, Seq(S))
         /\ \E f : /\ Stays(f, last, Seq(S)) /\ Grown(f, <<>>, last, ss)
                  /\ FlattenSeq(ss) = f[last]
<1>1. ss \in Seq(Seq(S))
  BY DEF Rows
<1>2. PICK f \in [0 .. Len(ss) -> Seq(S)] :
        /\ f[0] = <<>> /\ \A k \in 1 .. Len(ss) : f[k] = f[k - 1] \o ss[k]
        /\ FlattenSeq(ss) = f[Len(ss)]
  BY <1>1, FlattenSteps
<1>3. Stays(f, last, Seq(S)) /\ Grown(f, <<>>, last, ss) /\ FlattenSeq(ss) = f[last]
  BY <1>2 DEF Stays, Grown, Join
<1>4. last \in Nat
  BY <1>1
<1>5. AllIn(ss, last, Seq(S))
  <2>1. PICK R : R = Seq(S)
    OBVIOUS
  <2>2. ss \in Seq(R)
    BY <1>1, <2>1
  <2> QED BY <2>1, <2>2 DEF AllIn
<1> QED BY <1>3, <1>4, <1>5

LEMMA RowsJoin ==
  ASSUME NEW S, NEW ss, NEW tt, Rows(S, ss), Rows(S, tt)
  PROVE  /\ Rows(S, ss \o tt) /\ Len(ss \o tt) = Len(ss) + Len(tt)
         /\ \A k \in 1 .. Len(ss) : (ss \o tt)[k] = ss[k]
         /\ \A k \in 1 .. Len(tt) : (ss \o tt)[Len(ss) + k] = tt[k]
<1>1. PICK R : R = Seq(S)
  OBVIOUS
<1>2. ss \in Seq(R) /\ tt \in Seq(R)
  BY <1>1 DEF Rows
<1>3. /\ ss \o tt \in Seq(R) /\ Len(ss \o tt) = Len(ss) + Len(tt)
      /\ \A k \in 1 .. Len(ss) : (ss \o tt)[k] = ss[k]
      /\ \A k \in 1 .. Len(tt) : (ss \o tt)[Len(ss) + k] = tt[k]
  BY <1>2, JoinIs
<1> QED BY <1>1, <1>3 DEF Rows

(* What grows by ss and then by tt.                                         *)
Twice(Q, m, n, ss, tt, rr, f, g, h) ==
  /\ m \in Nat /\ n \in Nat /\ AllIn(ss, m, Q) /\ AllIn(tt, n, Q)
  /\ Stays(f, m, Q) /\ Grown(f, <<>>, m, ss) /\ Stays(g, n, Q) /\ Grown(g, <<>>, n, tt)
  /\ Grown(h, <<>>, m + n, rr)
  /\ \A k \in 1 .. m : rr[k] = ss[k]
  /\ \A k \in 1 .. n : rr[m + k] = tt[k]

LEMMA GrownTwice ==
  ASSUME NEW Q, NEW m, NEW n, NEW ss, NEW tt, NEW rr, NEW f, NEW g, NEW h,
         Associative(Q), <<>> \in Q, \A p \in Q : Join(p, <<>>) = p /\ Join(<<>>, p) = p,
         Twice(Q, m, n, ss, tt, rr, f, g, h)
  PROVE  h[m + n] = Join(f[m], g[n])
<1>1. /\ m \in Nat /\ n \in Nat /\ AllIn(ss, m, Q) /\ AllIn(tt, n, Q)
      /\ Stays(f, m, Q) /\ Grown(f, <<>>, m, ss) /\ Stays(g, n, Q) /\ Grown(g, <<>>, n, tt)
      /\ Grown(h, <<>>, m + n, rr)
      /\ \A k \in 1 .. m : rr[k] = ss[k]
      /\ \A k \in 1 .. n : rr[m + k] = tt[k]
  BY DEF Twice
<1>2. f[m] \in Q
  BY <1>1 DEF Stays
<1>3. h[m] = f[m]
  <2>1. Grown(h, <<>>, m, ss)
    <3>1. \A k \in 1 .. m : k \in 1 .. m + n
      BY <1>1
    <3> QED BY <1>1, <3>1 DEF Grown
  <2>2. Beside(Q, m, ss, f, <<>>, h)
    BY <1>1, <2>1 DEF Beside
  <2>3. h[m] = Join(<<>>, f[m])
    BY <2>2, GrownAll, SMT
  <2> QED BY <1>2, <2>3
<1>4. PICK e : e = [k \in 0 .. n |-> h[m + k]]
  OBVIOUS
<1>5. Grown(e, f[m], n, tt)
  <2>1. e[0] = f[m]
    <3>1. 0 \in 0 .. n /\ m + 0 = m
      BY <1>1
    <3> QED BY <1>3, <1>4, <3>1
  <2>2. ASSUME NEW k \in 1 .. n PROVE e[k] = Join(e[k - 1], tt[k])
    <3>1. /\ k \in 0 .. n /\ k - 1 \in 0 .. n /\ m + k \in 1 .. m + n
          /\ (m + k) - 1 = m + (k - 1)
      BY <1>1
    <3>2. h[m + k] = Join(h[m + (k - 1)], rr[m + k])
      BY <1>1, <3>1 DEF Grown
    <3> QED BY <1>1, <1>4, <3>1, <3>2
  <2> QED BY <2>1, <2>2 DEF Grown
<1>6. e[n] = h[m + n]
  <2>1. n \in 0 .. n
    BY <1>1
  <2> QED BY <1>4, <2>1
<1>7. Beside(Q, n, tt, g, f[m], e)
  BY <1>1, <1>2, <1>5 DEF Beside
<1>8. Join(f[m], <<>>) = f[m]
  BY <1>2
<1>9. e[n] = Join(f[m], g[n])
  BY <1>7, <1>8, GrownAll, SMT
<1> QED BY <1>6, <1>9

(* Joined before or after, the same.                                        *)
LEMMA FlattenJoin ==
  ASSUME NEW S, NEW ss, NEW tt, Rows(S, ss), Rows(S, tt)
  PROVE  FlattenSeq(ss \o tt) = FlattenSeq(ss) \o FlattenSeq(tt)
<1>1. PICK m, n : m = Len(ss) /\ n = Len(tt)
  OBVIOUS
<1>2. PICK rr : rr = ss \o tt
  OBVIOUS
<1>3. /\ Rows(S, rr) /\ m + n = Len(rr)
      /\ \A k \in 1 .. m : rr[k] = ss[k]
      /\ \A k \in 1 .. n : rr[m + k] = tt[k]
  BY <1>1, <1>2, RowsJoin
<1>4. PICK Q : Q = Seq(S)
  OBVIOUS
<1>5. /\ m \in Nat /\ AllIn(ss, m, Q)
      /\ \E f : Stays(f, m, Q) /\ Grown(f, <<>>, m, ss) /\ FlattenSeq(ss) = f[m]
  BY <1>1, <1>4, FlattenGrown
<1>6. /\ n \in Nat /\ AllIn(tt, n, Q)
      /\ \E f : Stays(f, n, Q) /\ Grown(f, <<>>, n, tt) /\ FlattenSeq(tt) = f[n]
  BY <1>1, <1>4, FlattenGrown
<1>7. \E f : Grown(f, <<>>, m + n, rr) /\ FlattenSeq(rr) = f[m + n]
  BY <1>3, FlattenGrown
<1>8. PICK f : Stays(f, m, Q) /\ Grown(f, <<>>, m, ss) /\ FlattenSeq(ss) = f[m]
  BY <1>5
<1>9. PICK g : Stays(g, n, Q) /\ Grown(g, <<>>, n, tt) /\ FlattenSeq(tt) = g[n]
  BY <1>6
<1>10. PICK h : Grown(h, <<>>, m + n, rr) /\ FlattenSeq(rr) = h[m + n]
  BY <1>7
<1>11. Twice(Q, m, n, ss, tt, rr, f, g, h)
  BY <1>3, <1>5, <1>6, <1>8, <1>9, <1>10 DEF Twice
<1>12. <<>> \in Q /\ Associative(Q) /\ \A p \in Q : Join(p, <<>>) = p /\ Join(<<>>, p) = p
  BY <1>4, JoinsIn
<1>13. h[m + n] = Join(f[m], g[n])
  BY <1>11, <1>12, GrownTwice, SMT
<1> QED BY <1>2, <1>8, <1>9, <1>10, <1>13 DEF Join

LEMMA FlattenOne ==
  ASSUME NEW S, NEW s \in Seq(S) PROVE FlattenSeq(<<s>>) = s
<1>1. PICK ss : ss = <<s>>
  OBVIOUS
<1>2. ss \in Seq(Seq(S)) /\ Len(ss) = 1 /\ ss[1] = s
  BY <1>1
<1>3. PICK f \in [0 .. 1 -> Seq(S)] :
        /\ f[0] = <<>> /\ \A k \in 1 .. 1 : f[k] = f[k - 1] \o ss[k]
        /\ FlattenSeq(ss) = f[1]
  <2>1. PICK last : last = Len(ss)
    OBVIOUS
  <2>2. \E f \in [0 .. last -> Seq(S)] :
          /\ f[0] = <<>> /\ \A k \in 1 .. last : f[k] = f[k - 1] \o ss[k]
          /\ FlattenSeq(ss) = f[last]
    BY <1>2, <2>1, FlattenSteps
  <2> QED BY <1>2, <2>1, <2>2
<1>4. f[1] = <<>> \o s
  <2>1. 1 \in 1 .. 1 /\ 1 - 1 = 0
    OBVIOUS
  <2>2. f[1] = f[0] \o ss[1]
    BY <1>3, <2>1
  <2> QED BY <1>2, <1>3, <2>2
<1> QED BY <1>1, <1>3, <1>4

LEMMA JoinAppend ==
  ASSUME NEW S, NEW s \in Seq(S), NEW t \in Seq(S), NEW e \in S
  PROVE  s \o Append(t, e) = Append(s \o t, e)
OBVIOUS

LEMMA PrefixGrows ==
  ASSUME NEW S, NEW s \in Seq(S), NEW n \in Nat, n + 1 <= Len(s)
  PROVE  SubSeq(s, 1, n + 1) = Append(SubSeq(s, 1, n), s[n + 1])
OBVIOUS

LEMMA TextTyped ==
  ASSUME NEW B, NEW line \in Lines(B) PROVE Text(line) \in Seq(B \cup {Newline})
<1>1. line.text \in Seq(B)
  BY DEF Lines
<1>2. PICK R : R = B \cup {Newline}
  OBVIOUS
<1>3. line.text \in Seq(R) /\ Newline \in R
  BY <1>1, <1>2
<1>4. Append(line.text, Newline) \in Seq(R)
  BY <1>3
<1> QED BY <1>2, <1>3, <1>4 DEF Text

LEMMA SpelledMore ==
  ASSUME NEW B, NEW lines \in Seq(Lines(B)), NEW line \in Lines(B)
  PROVE  /\ Spelled(lines) \in Seq(B \cup {Newline})
         /\ Spelled(Append(lines, line)) = Spelled(lines) \o Text(line)
<1>1. PICK R : R = B \cup {Newline}
  OBVIOUS
<1>2. PICK n \in Nat : n = Len(lines)
  OBVIOUS
<1>3. PICK more : more = Append(lines, line)
  OBVIOUS
<1>4. /\ DOMAIN more = 1 .. n + 1 /\ DOMAIN lines = 1 .. n /\ more[n + 1] = line
      /\ \A i \in 1 .. n : more[i] = lines[i] /\ lines[i] \in Lines(B)
  BY <1>2, <1>3
<1>5. PICK ss : ss = [i \in DOMAIN lines |-> Text(lines[i])]
  OBVIOUS
<1>6. PICK tt : tt = <<Text(line)>>
  OBVIOUS
<1>7. PICK Q : Q = Seq(R)
  OBVIOUS
<1>8. Text(line) \in Q /\ \A i \in 1 .. n : Text(lines[i]) \in Q
  BY <1>1, <1>4, <1>7, TextTyped
<1>9. ss \in Seq(Q) /\ tt \in Seq(Q) /\ Len(ss) = n /\ Len(tt) = 1 /\ tt[1] = Text(line)
  BY <1>4, <1>5, <1>6, <1>8
<1>10. PICK rr : rr = [i \in DOMAIN more |-> Text(more[i])]
  OBVIOUS
<1>11. PICK jj : jj = ss \o tt
  OBVIOUS
<1>12. rr = jj
  <2>1. /\ jj \in Seq(Q) /\ Len(jj) = n + 1 /\ jj[n + 1] = Text(line)
        /\ \A i \in 1 .. n : jj[i] = ss[i]
    <3>1. /\ ss \o tt \in Seq(Q) /\ Len(ss \o tt) = Len(ss) + Len(tt)
          /\ \A i \in 1 .. Len(ss) : (ss \o tt)[i] = ss[i]
          /\ \A i \in 1 .. Len(tt) : (ss \o tt)[Len(ss) + i] = tt[i]
      BY SMTT(30), <1>9, JoinIs
    <3> QED BY <1>9, <1>11, <3>1
  <2>2. DOMAIN rr = 1 .. n + 1 /\ DOMAIN jj = 1 .. n + 1
    BY <1>4, <1>10, <2>1
  <2>3. ASSUME NEW i \in 1 .. n + 1 PROVE rr[i] = jj[i]
    <3>1. CASE i = n + 1
      BY <1>4, <1>10, <2>1, <3>1
    <3>2. CASE i # n + 1
      <4>1. i \in 1 .. n
        BY <3>2
      <4> QED BY <1>4, <1>5, <1>10, <2>1, <4>1
    <3> QED BY <3>1, <3>2
  <2>4. rr = [i \in 1 .. n + 1 |-> rr[i]] /\ jj = [i \in 1 .. n + 1 |-> jj[i]]
    BY <1>4, <1>10, <2>1
  <2> QED BY <2>3, <2>4
<1>13. FlattenSeq(jj) = FlattenSeq(ss) \o FlattenSeq(tt)
  <2>1. Rows(R, ss) /\ Rows(R, tt)
    BY <1>7, <1>9 DEF Rows
  <2> QED BY <1>11, <2>1, FlattenJoin
<1>14. FlattenSeq(tt) = Text(line)
  BY <1>6, <1>7, <1>8, FlattenOne
<1>15. FlattenSeq(ss) \in Seq(R)
  BY <1>7, <1>9, FlattenIn
<1>16. Spelled(more) = FlattenSeq(rr) /\ Spelled(lines) = FlattenSeq(ss)
  BY <1>5, <1>10 DEF Spelled
<1> QED BY <1>1, <1>3, <1>12, <1>13, <1>14, <1>15, <1>16

LEMMA SpelledNone == Spelled(<<>>) = <<>>
<1>1. [i \in DOMAIN <<>> |-> Text(<<>>[i])] = <<>>
  OBVIOUS
<1> QED BY <1>1, FlattenNone DEF Spelled

(* A byte is spelled once, in a line or in the rest.                        *)
LEMMA ByteIsKept ==
  ASSUME NEW B, NEW decoder \in Decoded(B), NEW byte \in B, NEW text,
         AreLinesOf(decoder.lines, decoder.pending, text)
  PROVE  AreLinesOf(FeedByte(decoder, byte).lines, FeedByte(decoder, byte).pending,
                    Append(text, byte))
<1>1. PICK lines \in Seq(Lines(B)), rest \in Seq(B) : lines = decoder.lines /\ rest = decoder.pending
  BY DEF Decoded
<1>2. PICK grown : grown = Append(rest, byte)
  OBVIOUS
<1>3. PICK n \in Nat : n = Len(rest)
  BY <1>1
<1>4. /\ grown \in Seq(B) /\ Len(grown) = n + 1 /\ grown[n + 1] = byte
      /\ \A i \in 1 .. n : grown[i] = rest[i]
  BY <1>1, <1>2, <1>3
<1>5. /\ Spelled(lines) \o rest = text /\ n < MaxLine /\ ~Contains(rest, Newline)
      /\ \A i \in DOMAIN lines : /\ ~Contains(lines[i].text, Newline)
                                 /\ lines[i].fragment <=> Len(lines[i].text) = MaxLine
  BY <1>1, <1>3 DEF AreLinesOf
<1>6. PICK R : R = B \cup {Newline}
  OBVIOUS
<1>7. PICK said0 \in Seq(R) : said0 = Spelled(lines)
  <2>1. Line(<<>>, FALSE) \in Lines(B)
    BY DEF Line, Lines
  <2> QED BY <1>1, <1>6, <2>1, SpelledMore
<1>8. rest \in Seq(R) /\ byte \in R /\ grown \in Seq(R)
  BY <1>1, <1>4, <1>6
<1>9. said0 \o grown = Append(text, byte)
  BY <1>2, <1>5, <1>7, <1>8, JoinAppend
<1>10. MaxLine \in Nat \ {0}
  BY DecoderAssumption
<1>11. byte # Newline => ~Contains(grown, Newline)
  <2>1. SUFFICES ASSUME byte # Newline, NEW i \in 1 .. n + 1 PROVE grown[i] # Newline
    BY <1>4 DEF Contains
  <2>2. i = n + 1 \/ i \in 1 .. n
    OBVIOUS
  <2>3. \A j \in 1 .. n : rest[j] # Newline
    BY <1>3, <1>5 DEF Contains
  <2> QED BY <1>4, <2>1, <2>2, <2>3
<1>12. ASSUME NEW t \in Seq(B), NEW fragment \in BOOLEAN, ~Contains(t, Newline),
              fragment <=> Len(t) = MaxLine, Text(Line(t, fragment)) = grown,
              FeedByte(decoder, byte) = [pending |-> <<>>, lines |-> Append(lines, Line(t, fragment))]
       PROVE  AreLinesOf(FeedByte(decoder, byte).lines, FeedByte(decoder, byte).pending,
                         Append(text, byte))
  <2>1. PICK line : line = Line(t, fragment)
    OBVIOUS
  <2>2. line \in Lines(B) /\ line.text = t /\ line.fragment = fragment
    BY <2>1 DEF Line, Lines
  <2>3. PICK more : more = Append(lines, line)
    OBVIOUS
  <2>4. Spelled(more) = said0 \o grown
    BY <1>7, <1>12, <2>1, <2>2, <2>3, SpelledMore
  <2>5. PICK whole \in Seq(R) : whole = said0 \o grown
    BY <1>8, JoinIs
  <2>6. Spelled(more) \o <<>> = Append(text, byte)
    BY <1>9, <2>4, <2>5
  <2>7. Len(<<>>) < MaxLine /\ ~Contains(<<>>, Newline)
    BY <1>10 DEF Contains
  <2>8. /\ more \in Seq(Lines(B)) /\ Len(more) = Len(lines) + 1 /\ more[Len(lines) + 1] = line
        /\ \A i \in 1 .. Len(lines) : more[i] = lines[i]
    BY <1>1, <2>2, <2>3
  <2>9. \A i \in DOMAIN more : /\ ~Contains(more[i].text, Newline)
                               /\ more[i].fragment <=> Len(more[i].text) = MaxLine
    <3>1. SUFFICES ASSUME NEW i \in DOMAIN more
          PROVE /\ ~Contains(more[i].text, Newline)
                /\ more[i].fragment <=> Len(more[i].text) = MaxLine
      OBVIOUS
    <3>2. CASE i = Len(lines) + 1
      <4>1. more[i] = line
        BY <2>8, <3>2
      <4> QED BY <1>12, <2>2, <4>1
    <3>3. CASE i # Len(lines) + 1
      <4>1. i \in DOMAIN lines /\ more[i] = lines[i]
        BY SMTT(30), <2>8, <3>3
      <4> QED BY <1>5, <4>1
    <3> QED BY <3>2, <3>3
  <2>10. FeedByte(decoder, byte).lines = more /\ FeedByte(decoder, byte).pending = <<>>
    BY <1>12, <2>1, <2>3
  <2> QED BY <2>6, <2>7, <2>9, <2>10 DEF AreLinesOf
<1>13. FeedByte(decoder, byte) =
         IF byte = Newline
           THEN [pending |-> <<>>, lines |-> Append(lines, Line(rest, FALSE))]
         ELSE IF Len(grown) = MaxLine
           THEN [pending |-> <<>>, lines |-> Append(lines, Line(grown, TRUE))]
         ELSE [decoder EXCEPT !.pending = grown]
  BY <1>1, <1>2 DEF FeedByte
<1>14. CASE byte = Newline
  <2>1. Text(Line(rest, FALSE)) = grown
    BY <1>2, <1>14 DEF Text, Line
  <2>2. Len(rest) # MaxLine
    BY <1>3, <1>5, <1>10
  <2> QED BY <1>5, <1>12, <1>13, <1>14, <2>1, <2>2
<1>15. CASE byte # Newline /\ Len(grown) = MaxLine
  <2>1. Text(Line(grown, TRUE)) = grown
    BY DEF Text, Line
  <2> QED BY <1>4, <1>11, <1>12, <1>13, <1>15, <2>1
<1>16. CASE byte # Newline /\ Len(grown) # MaxLine
  <2>1. PICK fed : fed = [decoder EXCEPT !.pending = grown]
    OBVIOUS
  <2>2. fed.pending = grown /\ fed.lines = lines
    BY <1>1, <2>1 DEF Decoded
  <2>3. Len(grown) < MaxLine
    BY <1>3, <1>4, <1>5, <1>10, <1>16
  <2>4. Spelled(lines) \o grown = Append(text, byte)
    BY <1>7, <1>9
  <2>5. FeedByte(decoder, byte) = fed
    BY <1>13, <1>16, <2>1
  <2> QED BY <1>5, <1>11, <1>16, <2>2, <2>3, <2>4, <2>5 DEF AreLinesOf
<1> QED BY <1>14, <1>15, <1>16

LEMMA FeedByteAfter ==
  ASSUME NEW B, NEW d \in Decoded(B), NEW before \in Seq(Lines(B)), NEW byte \in B,
         NEW e \in Decoded(B), e.pending = d.pending, e.lines = before \o d.lines
  PROVE  /\ FeedByte(e, byte).pending = FeedByte(d, byte).pending
         /\ FeedByte(e, byte).lines = before \o FeedByte(d, byte).lines
<1>1. PICK rest \in Seq(B), lines \in Seq(Lines(B)) : rest = d.pending /\ lines = d.lines
  BY DEF Decoded
<1>2. PICK all : all = before \o lines
  OBVIOUS
<1>3. e.pending = rest /\ e.lines = all
  BY <1>1, <1>2
<1>4. PICK grown : grown = Append(rest, byte)
  OBVIOUS
<1>5. grown \in Seq(B)
  BY <1>1, <1>4
<1>6. FeedByte(d, byte) =
        IF byte = Newline
          THEN [pending |-> <<>>, lines |-> Append(lines, Line(rest, FALSE))]
        ELSE IF Len(grown) = MaxLine
          THEN [pending |-> <<>>, lines |-> Append(lines, Line(grown, TRUE))]
        ELSE [d EXCEPT !.pending = grown]
  BY <1>1, <1>4 DEF FeedByte
<1>7. FeedByte(e, byte) =
        IF byte = Newline
          THEN [pending |-> <<>>, lines |-> Append(all, Line(rest, FALSE))]
        ELSE IF Len(grown) = MaxLine
          THEN [pending |-> <<>>, lines |-> Append(all, Line(grown, TRUE))]
        ELSE [e EXCEPT !.pending = grown]
  BY <1>3, <1>4 DEF FeedByte
<1>8. ASSUME NEW t \in Seq(B), NEW fragment \in BOOLEAN
      PROVE  Append(all, Line(t, fragment)) = before \o Append(lines, Line(t, fragment))
  <2>1. PICK L : L = Lines(B)
    OBVIOUS
  <2>2. PICK line \in L : line = Line(t, fragment)
    BY <2>1 DEF Line, Lines
  <2>3. PICK x \in Seq(L), y \in Seq(L) : x = before /\ y = lines
    BY <2>1
  <2>4. x \o Append(y, line) = Append(x \o y, line)
    BY SMTT(30), JoinAppend
  <2> QED BY <1>2, <2>2, <2>3, <2>4
<1>9. ASSUME NEW t \in Seq(B), NEW fragment \in BOOLEAN,
              FeedByte(d, byte) = [pending |-> <<>>, lines |-> Append(lines, Line(t, fragment))],
              FeedByte(e, byte) = [pending |-> <<>>, lines |-> Append(all, Line(t, fragment))]
       PROVE  /\ FeedByte(e, byte).pending = FeedByte(d, byte).pending
              /\ FeedByte(e, byte).lines = before \o FeedByte(d, byte).lines
  <2>1. FeedByte(d, byte).pending = <<>> /\ FeedByte(d, byte).lines = Append(lines, Line(t, fragment))
    BY <1>9
  <2>2. FeedByte(e, byte).pending = <<>> /\ FeedByte(e, byte).lines = Append(all, Line(t, fragment))
    BY <1>9
  <2> QED BY <1>8, <2>1, <2>2
<1>10. CASE byte = Newline
  BY <1>6, <1>7, <1>10, <1>9
<1>11. CASE byte # Newline /\ Len(grown) = MaxLine
  BY <1>5, <1>6, <1>7, <1>11, <1>9
<1>12. CASE byte # Newline /\ Len(grown) # MaxLine
  <2>1. PICK x, y : x = [d EXCEPT !.pending = grown] /\ y = [e EXCEPT !.pending = grown]
    OBVIOUS
  <2>2. x.pending = grown /\ y.pending = grown /\ x.lines = lines /\ y.lines = all
    BY <1>1, <1>3, <2>1 DEF Decoded
  <2>3. FeedByte(d, byte) = x /\ FeedByte(e, byte) = y
    BY <1>6, <1>7, <1>12, <2>1
  <2> QED BY <1>2, <1>3, <2>2, <2>3
<1> QED BY <1>10, <1>11, <1>12

LEMMA FeedOne ==
  ASSUME NEW B, NEW d \in Decoded(B), NEW before \in Seq(Lines(B)), NEW byte \in B, NEW text,
         AreLinesOf(before \o d.lines, d.pending, text)
  PROVE  AreLinesOf(before \o FeedByte(d, byte).lines, FeedByte(d, byte).pending, Append(text, byte))
<1>1. PICK e : e = [pending |-> d.pending, lines |-> before \o d.lines]
  OBVIOUS
<1>2. e \in Decoded(B)
  <2>1. PICK L : L = Lines(B)
    OBVIOUS
  <2>2. d.pending \in Seq(B) /\ d.lines \in Seq(L) /\ before \in Seq(L)
    BY <2>1 DEF Decoded
  <2>3. before \o d.lines \in Seq(L)
    BY <2>2, JoinIs
  <2> QED BY <1>1, <2>1, <2>2, <2>3 DEF Decoded
<1>3. /\ FeedByte(e, byte).pending = FeedByte(d, byte).pending
      /\ FeedByte(e, byte).lines = before \o FeedByte(d, byte).lines
  <2>1. e.pending = d.pending /\ e.lines = before \o d.lines
    BY <1>1
  <2> QED BY <1>2, <2>1, FeedByteAfter
<1>4. AreLinesOf(e.lines, e.pending, text)
  BY <1>1
<1>5. AreLinesOf(FeedByte(e, byte).lines, FeedByte(e, byte).pending, Append(text, byte))
  BY <1>2, <1>4, ByteIsKept
<1> QED BY <1>3, <1>5

(* However the bytes are cut into reads, the lines are those of the text.   *)
LEMMA FeedIsFaithful ==
  ASSUME NEW B, NEW before \in Seq(Lines(B)), NEW rest \in Seq(B), NEW bytes \in Seq(B),
         NEW text \in Seq(B), AreLinesOf(before, rest, text)
  PROVE  AreLinesOf(before \o Feed(rest, bytes).lines, Feed(rest, bytes).pending, text \o bytes)
<1>1. PICK u \in [0 .. Len(bytes) -> Decoded(B)] :
        /\ u[0] = [pending |-> rest, lines |-> <<>>]
        /\ \A n \in 1 .. Len(bytes) : u[n] = FeedByte(u[n - 1], bytes[n])
        /\ Feed(rest, bytes) = u[Len(bytes)]
  BY FeedSteps
<1>2. PICK last \in Nat : last = Len(bytes)
  OBVIOUS
<1> DEFINE T == {k \in Nat : k <= last =>
                   AreLinesOf(before \o u[k].lines, u[k].pending, text \o SubSeq(bytes, 1, k))}
<1>3. 0 \in T
  <2>1. before \o <<>> = before /\ text \o SubSeq(bytes, 1, 0) = text
    OBVIOUS
  <2>2. u[0].lines = <<>> /\ u[0].pending = rest
    BY <1>1
  <2>3. AreLinesOf(before \o u[0].lines, u[0].pending, text \o SubSeq(bytes, 1, 0))
    BY <2>1, <2>2
  <2> QED BY <2>3
<1>4. ASSUME NEW k \in T PROVE k + 1 \in T
  <2>1. k \in Nat /\ k + 1 \in Nat
    OBVIOUS
  <2>2. k <= last => AreLinesOf(before \o u[k].lines, u[k].pending, text \o SubSeq(bytes, 1, k))
    BY Zenon
  <2>3. ASSUME k + 1 <= last
        PROVE AreLinesOf(before \o u[k + 1].lines, u[k + 1].pending, text \o SubSeq(bytes, 1, k + 1))
    <3> HIDE DEF T
    <3>1. k \in 0 .. last /\ k + 1 \in 1 .. last /\ (k + 1) - 1 = k /\ k <= last
      BY <2>1, <2>3
    <3>2. u[k + 1] = FeedByte(u[k], bytes[k + 1]) /\ u[k] \in Decoded(B) /\ bytes[k + 1] \in B
      <4>1. PICK i \in 1 .. last : i = k + 1 /\ i - 1 = k
        BY <3>1
      <4>2. u[i] = FeedByte(u[k], bytes[i]) /\ bytes[i] \in B
        BY <1>1, <1>2, <4>1
      <4>3. u[k] \in Decoded(B)
        BY <1>2, <3>1
      <4> QED BY <4>1, <4>2, <4>3
    <3>3. PICK front \in Seq(B) : front = SubSeq(bytes, 1, k)
      <4>1. k \in 0 .. Len(bytes)
        BY <1>2, <2>1, <3>1
      <4>2. SubSeq(bytes, 1, k) \in Seq(B)
        BY <4>1, PrefixOf
      <4> QED BY <4>2
    <3>4. SubSeq(bytes, 1, k + 1) = Append(front, bytes[k + 1])
      BY <1>2, <2>1, <2>3, <3>3, PrefixGrows
    <3>5. text \o SubSeq(bytes, 1, k + 1) = Append(text \o front, bytes[k + 1])
      <4>1. PICK x \in B : x = bytes[k + 1]
        BY <3>2
      <4>2. text \o Append(front, x) = Append(text \o front, x)
        BY JoinAppend
      <4> QED BY <3>4, <4>1, <4>2
    <3>6. AreLinesOf(before \o u[k].lines, u[k].pending, text \o front)
      BY <2>2, <3>1, <3>3
    <3>7. PICK d \in Decoded(B) : d = u[k]
      BY <3>2
    <3>8. AreLinesOf(before \o FeedByte(d, bytes[k + 1]).lines, FeedByte(d, bytes[k + 1]).pending,
                     Append(text \o front, bytes[k + 1]))
      BY <3>2, <3>6, <3>7, FeedOne
    <3> QED BY <3>2, <3>5, <3>7, <3>8
  <2> QED BY <2>1, <2>3, Zenon
<1>5. T \in SUBSET Nat
  BY Zenon
<1>6. T = Nat
  <2> HIDE DEF T
  <2> QED BY <1>3, <1>4, <1>5, Induction
<1>7. \A k \in T : k <= last =>
        AreLinesOf(before \o u[k].lines, u[k].pending, text \o SubSeq(bytes, 1, k))
  BY Zenon
<1>8. AreLinesOf(before \o u[last].lines, u[last].pending, text \o SubSeq(bytes, 1, last))
  <2> HIDE DEF T
  <2>1. last <= last
    OBVIOUS
  <2> QED BY <1>6, <1>7, <2>1
<1>9. SubSeq(bytes, 1, last) = bytes
  BY <1>2
<1> QED BY <1>1, <1>2, <1>8, <1>9

(* Rows of one element each, and empty rows.                                *)
LEMMA FlattenSingles ==
  ASSUME NEW S, NEW s \in Seq(S), NEW ss, DOMAIN ss = 1 .. Len(s), ss = [i \in DOMAIN ss |-> <<s[i]>>]
  PROVE  Rows(S, ss) /\ FlattenSeq(ss) = s
<1>1. PICK n \in Nat : n = Len(s)
  OBVIOUS
<1>2. PICK Q : Q = Seq(S)
  OBVIOUS
<1>3. ASSUME NEW i \in 1 .. n PROVE ss[i] = <<s[i]>> /\ ss[i] \in Q
  <2>1. ss[i] = <<s[i]>>
    BY <1>1
  <2>2. PICK e \in S : e = s[i]
    BY <1>1
  <2>3. <<e>> \in Seq(S)
    OBVIOUS
  <2> QED BY <1>2, <2>1, <2>2, <2>3
<1>4. ss \in Seq(Q) /\ Len(ss) = n
  <2>1. DOMAIN ss = 1 .. n /\ ss = [i \in 1 .. n |-> ss[i]]
    BY <1>1
  <2> QED BY <1>3, <2>1
<1>5. Rows(S, ss)
  BY <1>2, <1>4 DEF Rows
<1>6. PICK f : Grown(f, <<>>, n, ss) /\ FlattenSeq(ss) = f[n]
  BY <1>4, <1>5, FlattenGrown
<1> DEFINE T == {k \in Nat : k <= n => f[k] = SubSeq(s, 1, k)}
<1>7. 0 \in T
  <2>1. f[0] = SubSeq(s, 1, 0)
    BY <1>6 DEF Grown
  <2> QED BY <2>1
<1>8. ASSUME NEW k \in T PROVE k + 1 \in T
  <2>1. k \in Nat /\ k + 1 \in Nat
    OBVIOUS
  <2>2. k <= n => f[k] = SubSeq(s, 1, k)
    BY Zenon
  <2>3. ASSUME k + 1 <= n PROVE f[k + 1] = SubSeq(s, 1, k + 1)
    <3> HIDE DEF T
    <3>1. k + 1 \in 1 .. n /\ (k + 1) - 1 = k /\ k <= n
      BY <2>1, <2>3
    <3>2. f[k + 1] = f[k] \o ss[k + 1]
      BY <1>6, <3>1 DEF Grown, Join
    <3>3. f[k + 1] = SubSeq(s, 1, k) \o <<s[k + 1]>>
      BY <1>3, <2>2, <3>1, <3>2
    <3>4. SubSeq(s, 1, k + 1) = Append(SubSeq(s, 1, k), s[k + 1])
      BY <1>1, <2>1, <2>3, PrefixGrows
    <3>5. PICK front \in Seq(S) : front = SubSeq(s, 1, k)
      <4>1. k \in 0 .. Len(s)
        BY <1>1, <2>1, <3>1
      <4>2. SubSeq(s, 1, k) \in Seq(S)
        BY <4>1, PrefixOf
      <4> QED BY <4>2
    <3>6. front \o <<s[k + 1]>> = Append(front, s[k + 1])
      BY <1>1, <3>1
    <3> QED BY <3>3, <3>4, <3>5, <3>6
  <2> QED BY <2>1, <2>3, Zenon
<1>9. T \in SUBSET Nat
  BY Zenon
<1>10. T = Nat
  <2> HIDE DEF T
  <2> QED BY <1>7, <1>8, <1>9, Induction
<1>11. \A k \in T : k <= n => f[k] = SubSeq(s, 1, k)
  BY Zenon
<1>12. f[n] = SubSeq(s, 1, n)
  <2> HIDE DEF T
  <2>1. n <= n
    OBVIOUS
  <2> QED BY <1>10, <1>11, <2>1
<1>13. SubSeq(s, 1, n) = s
  BY <1>1
<1> QED BY <1>5, <1>6, <1>12, <1>13

LEMMA FlattenEmpty ==
  ASSUME NEW S, NEW n \in Nat, NEW ss, ss = [i \in 1 .. n |-> <<>>]
  PROVE  Rows(S, ss) /\ FlattenSeq(ss) = <<>>
<1>1. PICK Q : Q = Seq(S)
  OBVIOUS
<1>2. <<>> \in Q
  BY <1>1
<1>3. ss \in Seq(Q) /\ Len(ss) = n /\ \A k \in 1 .. n : ss[k] = <<>>
  BY <1>2
<1>4. Rows(S, ss)
  BY <1>1, <1>3 DEF Rows
<1>5. PICK f : Grown(f, <<>>, n, ss) /\ FlattenSeq(ss) = f[n]
  BY <1>3, <1>4, FlattenGrown
<1> DEFINE T == {k \in Nat : k <= n => f[k] = <<>>}
<1>6. 0 \in T
  BY <1>5 DEF Grown
<1>7. ASSUME NEW k \in T PROVE k + 1 \in T
  <2>1. k \in Nat /\ k + 1 \in Nat
    OBVIOUS
  <2>2. k <= n => f[k] = <<>>
    BY Zenon
  <2>3. ASSUME k + 1 <= n PROVE f[k + 1] = <<>>
    <3> HIDE DEF T
    <3>1. k + 1 \in 1 .. n /\ (k + 1) - 1 = k /\ k <= n
      BY <2>1, <2>3
    <3>2. f[k + 1] = f[k] \o ss[k + 1]
      BY <1>5, <3>1 DEF Grown, Join
    <3>3. <<>> \o <<>> = <<>>
      OBVIOUS
    <3> QED BY <1>3, <2>2, <3>1, <3>2, <3>3
  <2> QED BY <2>1, <2>3, Zenon
<1>8. T \in SUBSET Nat
  BY Zenon
<1>9. T = Nat
  <2> HIDE DEF T
  <2> QED BY <1>6, <1>7, <1>8, Induction
<1>10. \A k \in T : k <= n => f[k] = <<>>
  BY Zenon
<1>11. f[n] = <<>>
  <2> HIDE DEF T
  <2>1. n <= n
    OBVIOUS
  <2> QED BY <1>9, <1>10, <2>1
<1> QED BY <1>4, <1>5, <1>11

-----------------------------------------------------------------------------
(* What the log says of the board's output. *)

EventTyped(B, e) == /\ e.kind = "raw" => e.data \in Seq(B)
                    /\ e.kind = "log" => e.data \in Lines(B)
Typed(B, events) ==
  /\ events \in Seq(ToSet(events))
  /\ \A i \in 1 .. Len(events) : EventTyped(B, events[i])

LEMMA RawRows ==
  ASSUME NEW B, NEW s, Typed(B, s), NEW ss, ss = [i \in DOMAIN s |-> RawOf(s[i])]
  PROVE  Rows(B, ss) /\ Len(ss) = Len(s)
<1>1. PICK Q : Q = Seq(B)
  OBVIOUS
<1>2. s \in Seq(ToSet(s)) /\ \A i \in 1 .. Len(s) : RawOf(s[i]) \in Q
  <2>1. <<>> \in Q
    BY <1>1
  <2> QED BY <1>1, <2>1 DEF Typed, EventTyped, RawOf
<1>3. ss \in Seq(Q) /\ Len(ss) = Len(s)
  BY <1>2
<1> QED BY <1>1, <1>3 DEF Rows

LEMMA LineRows ==
  ASSUME NEW B, NEW s, Typed(B, s), NEW ss, ss = [i \in DOMAIN s |-> LineOf(s[i])]
  PROVE  Rows(Lines(B), ss) /\ Len(ss) = Len(s)
<1>1. PICK L, Q : L = Lines(B) /\ Q = Seq(L)
  OBVIOUS
<1>2. s \in Seq(ToSet(s)) /\ \A i \in 1 .. Len(s) : LineOf(s[i]) \in Q
  <2>1. <<>> \in Q /\ \A x \in L : <<x>> \in Q
    BY <1>1
  <2> QED BY <1>1, <2>1 DEF Typed, EventTyped, LineOf
<1>3. ss \in Seq(Q) /\ Len(ss) = Len(s)
  BY <1>2
<1> QED BY <1>1, <1>3 DEF Rows

LEMMA TypedJoin ==
  ASSUME NEW B, NEW s, NEW t, Typed(B, s), Typed(B, t)
  PROVE  /\ Typed(B, s \o t) /\ Len(s \o t) = Len(s) + Len(t) /\ Len(s) \in Nat /\ Len(t) \in Nat
         /\ \A i \in 1 .. Len(s) : (s \o t)[i] = s[i]
         /\ \A i \in 1 .. Len(t) : (s \o t)[Len(s) + i] = t[i]
<1>1. PICK R : R = ToSet(s) \cup ToSet(t)
  OBVIOUS
<1>2. s \in Seq(R) /\ t \in Seq(R)
  BY <1>1 DEF Typed
<1>3. /\ s \o t \in Seq(R) /\ Len(s \o t) = Len(s) + Len(t)
      /\ \A i \in 1 .. Len(s) : (s \o t)[i] = s[i]
      /\ \A i \in 1 .. Len(t) : (s \o t)[Len(s) + i] = t[i]
  BY <1>2, JoinIs
<1>4. PICK m \in Nat, n \in Nat : m = Len(s) /\ n = Len(t)
  BY <1>2
<1>5. PICK j : j = s \o t
  OBVIOUS
<1>6. ASSUME NEW i \in 1 .. m + n PROVE EventTyped(B, j[i])
  <2>1. CASE i \in 1 .. m
    BY <1>3, <1>4, <1>5, <2>1 DEF Typed
  <2>2. CASE i \notin 1 .. m
    <3>1. PICK k \in 1 .. n : i = m + k
      <4>1. i - m \in 1 .. n /\ i = m + (i - m)
        BY <2>2
      <4> QED BY <4>1
    <3>2. j[i] = t[k]
      BY <1>3, <1>4, <1>5, <3>1
    <3> QED BY <1>4, <3>2 DEF Typed
  <2> QED BY <2>1, <2>2
<1>7. j \in Seq(ToSet(j))
  BY <1>3, <1>5, OwnSet
<1> QED BY <1>3, <1>4, <1>5, <1>6, <1>7 DEF Typed

LEMMA RawJoin ==
  ASSUME NEW B, NEW s, NEW t, Typed(B, s), Typed(B, t)
  PROVE  RawBytes(s) \in Seq(B) /\ RawBytes(s \o t) = RawBytes(s) \o RawBytes(t)
<1>1. PICK j : j = s \o t
  OBVIOUS
<1>2. PICK m \in Nat, n \in Nat : m = Len(s) /\ n = Len(t)
  BY TypedJoin
<1>3. /\ Typed(B, j) /\ Len(j) = m + n
      /\ \A i \in 1 .. m : j[i] = s[i]
      /\ \A i \in 1 .. n : j[m + i] = t[i]
  BY <1>1, <1>2, TypedJoin
<1>4. DOMAIN s = 1 .. m /\ DOMAIN t = 1 .. n /\ DOMAIN j = 1 .. m + n
  BY <1>2, <1>3 DEF Typed
<1>5. PICK ss : ss = [i \in DOMAIN s |-> RawOf(s[i])]
  OBVIOUS
<1>6. PICK tt : tt = [i \in DOMAIN t |-> RawOf(t[i])]
  OBVIOUS
<1>7. PICK jj : jj = [i \in DOMAIN j |-> RawOf(j[i])]
  OBVIOUS
<1>8. Rows(B, ss) /\ Rows(B, tt) /\ Len(ss) = m /\ Len(tt) = n
  BY <1>2, <1>5, <1>6, RawRows
<1>9. PICK uu : uu = ss \o tt
  OBVIOUS
<1>10. /\ Rows(B, uu) /\ Len(uu) = m + n
       /\ \A k \in 1 .. m : uu[k] = ss[k]
       /\ \A k \in 1 .. n : uu[m + k] = tt[k]
  BY <1>8, <1>9, RowsJoin
<1>11. uu = jj
  <2>1. uu = [i \in 1 .. m + n |-> uu[i]]
    <3>1. PICK Q : Q = Seq(B)
      OBVIOUS
    <3>2. uu \in Seq(Q)
      BY <1>10, <3>1 DEF Rows
    <3> QED BY <1>10, <3>2
  <2>2. ASSUME NEW i \in 1 .. m + n PROVE uu[i] = RawOf(j[i])
    <3>1. CASE i \in 1 .. m
      BY <1>3, <1>4, <1>5, <1>10, <3>1
    <3>2. CASE i \notin 1 .. m
      <4>1. PICK k \in 1 .. n : i = m + k
        <5>1. i - m \in 1 .. n /\ i = m + (i - m)
          BY <3>2
        <5> QED BY <5>1
      <4> QED BY <1>3, <1>4, <1>6, <1>10, <4>1
    <3> QED BY <3>1, <3>2
  <2> QED BY <1>4, <1>7, <2>1, <2>2
<1>12. FlattenSeq(uu) = FlattenSeq(ss) \o FlattenSeq(tt)
  BY <1>8, <1>9, FlattenJoin
<1>13. FlattenSeq(ss) \in Seq(B)
  BY <1>8, FlattenIn DEF Rows
<1> QED BY <1>1, <1>5, <1>6, <1>7, <1>11, <1>12, <1>13 DEF RawBytes

LEMMA LineJoin ==
  ASSUME NEW B, NEW s, NEW t, Typed(B, s), Typed(B, t)
  PROVE  LogLines(s) \in Seq(Lines(B)) /\ LogLines(s \o t) = LogLines(s) \o LogLines(t)
<1>1. PICK j : j = s \o t
  OBVIOUS
<1>2. PICK m \in Nat, n \in Nat : m = Len(s) /\ n = Len(t)
  BY TypedJoin
<1>3. /\ Typed(B, j) /\ Len(j) = m + n
      /\ \A i \in 1 .. m : j[i] = s[i]
      /\ \A i \in 1 .. n : j[m + i] = t[i]
  BY <1>1, <1>2, TypedJoin
<1>4. DOMAIN s = 1 .. m /\ DOMAIN t = 1 .. n /\ DOMAIN j = 1 .. m + n
  BY <1>2, <1>3 DEF Typed
<1>5. PICK ss : ss = [i \in DOMAIN s |-> LineOf(s[i])]
  OBVIOUS
<1>6. PICK tt : tt = [i \in DOMAIN t |-> LineOf(t[i])]
  OBVIOUS
<1>7. PICK jj : jj = [i \in DOMAIN j |-> LineOf(j[i])]
  OBVIOUS
<1>8. PICK L : L = Lines(B)
  OBVIOUS
<1>9. Rows(L, ss) /\ Rows(L, tt) /\ Len(ss) = m /\ Len(tt) = n
  BY <1>2, <1>5, <1>6, <1>8, LineRows
<1>10. PICK uu : uu = ss \o tt
  OBVIOUS
<1>11. /\ Rows(L, uu) /\ Len(uu) = m + n
       /\ \A k \in 1 .. m : uu[k] = ss[k]
       /\ \A k \in 1 .. n : uu[m + k] = tt[k]
  BY <1>9, <1>10, RowsJoin
<1>12. uu = jj
  <2>1. uu = [i \in 1 .. m + n |-> uu[i]]
    <3>1. PICK Q : Q = Seq(L)
      OBVIOUS
    <3>2. uu \in Seq(Q)
      BY <1>11, <3>1 DEF Rows
    <3> QED BY <1>11, <3>2
  <2>2. ASSUME NEW i \in 1 .. m + n PROVE uu[i] = LineOf(j[i])
    <3>1. CASE i \in 1 .. m
      BY <1>3, <1>4, <1>5, <1>11, <3>1
    <3>2. CASE i \notin 1 .. m
      <4>1. PICK k \in 1 .. n : i = m + k
        <5>1. i - m \in 1 .. n /\ i = m + (i - m)
          BY <3>2
        <5> QED BY <5>1
      <4> QED BY <1>3, <1>4, <1>6, <1>11, <4>1
    <3> QED BY <3>1, <3>2
  <2> QED BY <1>4, <1>7, <2>1, <2>2
<1>13. FlattenSeq(uu) = FlattenSeq(ss) \o FlattenSeq(tt)
  BY <1>9, <1>10, FlattenJoin
<1>14. FlattenSeq(ss) \in Seq(L)
  BY <1>9, FlattenIn DEF Rows
<1> QED BY <1>1, <1>5, <1>6, <1>7, <1>8, <1>12, <1>13, <1>14 DEF LogLines

LEMMA NoEvents == RawBytes(<<>>) = <<>> /\ LogLines(<<>>) = <<>>
<1>1. [i \in DOMAIN <<>> |-> RawOf(<<>>[i])] = <<>> /\ [i \in DOMAIN <<>> |-> LineOf(<<>>[i])] = <<>>
  OBVIOUS
<1> QED BY <1>1, FlattenNone DEF RawBytes, LogLines

LEMMA EventAlone ==
  ASSUME NEW B, NEW e, EventTyped(B, e)
  PROVE  Typed(B, <<e>>) /\ RawBytes(<<e>>) = RawOf(e) /\ LogLines(<<e>>) = LineOf(e)
<1>1. PICK s : s = <<e>>
  OBVIOUS
<1>2. s \in Seq({e}) /\ Len(s) = 1 /\ s[1] = e /\ DOMAIN s = 1 .. 1
  BY <1>1
<1>3. Typed(B, s)
  BY <1>2, OwnSet DEF Typed
<1>4. [i \in DOMAIN s |-> RawOf(s[i])] = <<RawOf(e)>>
  BY <1>2
<1>5. [i \in DOMAIN s |-> LineOf(s[i])] = <<LineOf(e)>>
  BY <1>2
<1>6. PICK raw \in Seq(B) : raw = RawOf(e)
  <2>1. <<>> \in Seq(B)
    OBVIOUS
  <2>2. RawOf(e) \in Seq(B)
    BY <2>1 DEF EventTyped, RawOf
  <2> QED BY <2>2
<1>7. PICK L : L = Lines(B)
  OBVIOUS
<1>8. PICK line \in Seq(L) : line = LineOf(e)
  <2>1. <<>> \in Seq(L) /\ \A x \in L : <<x>> \in Seq(L)
    OBVIOUS
  <2> QED BY <1>7, <2>1 DEF EventTyped, LineOf
<1>9. FlattenSeq(<<raw>>) = raw /\ FlattenSeq(<<line>>) = line
  BY FlattenOne
<1> QED BY <1>1, <1>3, <1>4, <1>5, <1>6, <1>8, <1>9 DEF RawBytes, LogLines

LEMMA LineEvents ==
  ASSUME NEW B, NEW lines \in Seq(Lines(B)),
         NEW t, t = [i \in DOMAIN lines |-> Event("log", lines[i])]
  PROVE  Typed(B, t) /\ RawBytes(t) = <<>> /\ LogLines(t) = lines
<1>1. PICK L : L = Lines(B)
  OBVIOUS
<1>2. PICK n \in Nat : n = Len(lines)
  BY <1>1
<1>3. DOMAIN lines = 1 .. n /\ lines \in Seq(L)
  BY <1>1, <1>2
<1>4. DOMAIN t = 1 .. n /\ \A i \in 1 .. n : t[i].kind = "log" /\ t[i].data = lines[i] /\ lines[i] \in L
  BY <1>2, <1>3 DEF Event
<1>5. t \in Seq({Event("log", x) : x \in L}) /\ Len(t) = n
  BY <1>2, <1>3
<1>6. Typed(B, t)
  BY <1>1, <1>4, <1>5, OwnSet DEF Typed, EventTyped
<1>7. PICK ss : ss = [i \in DOMAIN t |-> RawOf(t[i])]
  OBVIOUS
<1>8. ss = [i \in 1 .. n |-> <<>>]
  BY <1>4, <1>7 DEF RawOf
<1>9. FlattenSeq(ss) = <<>>
  BY <1>8, FlattenEmpty
<1>10. PICK tt : tt = [i \in DOMAIN t |-> LineOf(t[i])]
  OBVIOUS
<1>11. DOMAIN tt = 1 .. Len(lines) /\ tt = [i \in DOMAIN tt |-> <<lines[i]>>]
  BY <1>2, <1>4, <1>10 DEF LineOf
<1>12. FlattenSeq(tt) = lines
  BY <1>3, <1>11, FlattenSingles
<1> QED BY <1>6, <1>7, <1>9, <1>10, <1>12 DEF RawBytes, LogLines

(* What follows n elements, when more follow.                               *)
LEMMA SuffixJoin ==
  ASSUME NEW S, NEW s \in Seq(S), NEW t \in Seq(S), NEW n \in 0 .. Len(s)
  PROVE  SubSeq(s \o t, n + 1, Len(s \o t)) = SubSeq(s, n + 1, Len(s)) \o t
<1>1. PICK l \in Nat, m \in Nat : l = Len(s) /\ m = Len(t)
  OBVIOUS
<1>2. PICK j : j = s \o t
  OBVIOUS
<1>3. /\ j \in Seq(S) /\ Len(j) = l + m /\ \A i \in 1 .. l : j[i] = s[i]
      /\ \A i \in 1 .. m : j[l + i] = t[i]
  BY <1>1, <1>2, JoinIs
<1>4. PICK a : a = SubSeq(j, n + 1, Len(j))
  OBVIOUS
<1>5. n \in 0 .. Len(j) /\ n \in Nat /\ n <= l
  BY <1>1, <1>3
<1>6. /\ a \in Seq(S) /\ DOMAIN a = 1 .. (l + m) - n
      /\ \A i \in 1 .. (l + m) - n : a[i] = j[i + n]
  BY ZenonT(60), <1>3, <1>4, <1>5, SuffixOf
<1>7. PICK b : b = SubSeq(s, n + 1, Len(s))
  OBVIOUS
<1>8. /\ b \in Seq(S) /\ DOMAIN b = 1 .. l - n
      /\ \A i \in 1 .. l - n : b[i] = s[i + n]
  BY <1>1, <1>7, SuffixOf
<1>9. Len(b) = l - n
  <2>1. Len(s) \in 0 .. Len(s) /\ n <= Len(s)
    BY <1>1, <1>5
  <2>2. Len(SubSeq(s, n + 1, Len(s))) = Len(s) - n
    BY <1>5, <2>1, PartOf
  <2> QED BY <1>1, <1>7, <2>2
<1>10. PICK c : c = b \o t
  OBVIOUS
<1>11. /\ c \in Seq(S) /\ Len(c) = (l - n) + m /\ \A i \in 1 .. l - n : c[i] = b[i]
       /\ \A i \in 1 .. m : c[(l - n) + i] = t[i]
  <2>1. /\ b \o t \in Seq(S) /\ Len(b \o t) = Len(b) + Len(t)
        /\ \A i \in 1 .. Len(b) : (b \o t)[i] = b[i]
        /\ \A i \in 1 .. Len(t) : (b \o t)[Len(b) + i] = t[i]
    BY <1>8, JoinIs
  <2> QED BY <1>1, <1>9, <1>10, <2>1
<1>12. (l - n) + m = (l + m) - n /\ DOMAIN c = 1 .. (l + m) - n
  BY <1>5, <1>11
<1>13. ASSUME NEW i \in 1 .. (l + m) - n PROVE a[i] = c[i]
  <2>1. CASE i \in 1 .. l - n
    <3>1. i + n \in 1 .. l
      BY <1>5, <2>1
    <3> QED BY <1>3, <1>6, <1>8, <1>11, <2>1, <3>1
  <2>2. CASE i \notin 1 .. l - n
    <3>1. PICK k \in 1 .. m : i = (l - n) + k /\ i + n = l + k
      <4>1. i - (l - n) \in 1 .. m /\ i = (l - n) + (i - (l - n)) /\ i + n = l + (i - (l - n))
        BY <1>5, <2>2
      <4> QED BY <4>1
    <3> QED BY <1>3, <1>6, <1>11, <3>1
  <2> QED BY <2>1, <2>2
<1>14. a = [i \in 1 .. (l + m) - n |-> a[i]] /\ c = [i \in 1 .. (l + m) - n |-> c[i]]
  BY <1>6, <1>11, <1>12
<1>15. a = c
  BY <1>13, <1>14
<1> QED BY <1>2, <1>4, <1>7, <1>10, <1>15

LEMMA SuffixTyped ==
  ASSUME NEW B, NEW s, Typed(B, s), NEW n \in 0 .. Len(s)
  PROVE  Typed(B, SubSeq(s, n + 1, Len(s)))
<1>1. s \in Seq(ToSet(s)) /\ Len(s) \in Nat
  BY DEF Typed
<1>2. PICK t : t = SubSeq(s, n + 1, Len(s))
  OBVIOUS
<1>3. /\ t \in Seq(ToSet(s)) /\ DOMAIN t = 1 .. Len(s) - n
      /\ \A i \in 1 .. Len(s) - n : i + n \in DOMAIN s /\ t[i] = s[i + n]
  BY <1>1, <1>2, SuffixOf
<1>4. DOMAIN t = 1 .. Len(t) /\ DOMAIN s = 1 .. Len(s)
  BY <1>1, <1>3
<1>5. \A i \in 1 .. Len(t) : EventTyped(B, t[i])
  BY <1>3, <1>4 DEF Typed
<1> QED BY <1>2, <1>3, <1>5, OwnSet DEF Typed

(* The daemon's lines are those of the board's output since the decoder     *)
(* started afresh.                                                          *)
LinesTrue ==
  /\ Typed(ToSet(cmd.output), log) /\ fresh \in 0 .. Len(log)
  /\ AreLinesOf(LogLines(SinceFresh), unfinished, RawBytes(SinceFresh))

LEMMA LinesNext ==
  LinesTrue' <=> /\ Typed(ToSet(cmd'.output), log') /\ fresh' \in 0 .. Len(log')
                 /\ AreLinesOf(LogLines(SinceFresh'), unfinished', RawBytes(SinceFresh'))
BY DEF LinesTrue

(* What follows under one decoder follows in the same output.               *)
LEMMA FreshKept ==
  ASSUME LogTyped, LinesTrue, NEW t, Typed(ToSet(cmd.output), t), log' = log \o t, fresh' = fresh
  PROVE  /\ SinceFresh' = SinceFresh \o t /\ Typed(ToSet(cmd.output), SinceFresh)
         /\ Typed(ToSet(cmd.output), log') /\ fresh' \in 0 .. Len(log')
<1>1. PICK B : B = ToSet(cmd.output)
  OBVIOUS
<1>2. Typed(B, log) /\ Typed(B, t) /\ fresh \in 0 .. Len(log)
  BY <1>1 DEF LinesTrue
<1>3. Typed(B, log') /\ Len(log') = Len(log) + Len(t) /\ Len(log) \in Nat /\ Len(t) \in Nat
  BY <1>2, TypedJoin
<1>4. PICK d \in 0 .. Len(log) : d = fresh
  BY <1>2
<1>5. PICK S : S = ToSet(log) \cup ToSet(t)
  OBVIOUS
<1>6. log \in Seq(S) /\ t \in Seq(S)
  BY <1>2, <1>5 DEF Typed
<1>7. SubSeq(log', d + 1, Len(log')) = SubSeq(log, d + 1, Len(log)) \o t
  <2>1. SubSeq(log \o t, d + 1, Len(log \o t)) = SubSeq(log, d + 1, Len(log)) \o t
    BY <1>4, <1>6, SuffixJoin
  <2> QED BY <2>1
<1>8. SinceFresh = SubSeq(log, d + 1, Len(log)) /\ SinceFresh' = SubSeq(log', d + 1, Len(log'))
  BY <1>4 DEF SinceFresh
<1>9. Typed(B, SubSeq(log, d + 1, Len(log)))
  BY <1>2, <1>4, SuffixTyped
<1>10. fresh' \in 0 .. Len(log')
  BY <1>2, <1>3
<1> QED BY <1>1, <1>3, <1>7, <1>8, <1>9, <1>10

LEMMA LinesSame == ASSUME LinesTrue, UNCHANGED <<log, unfinished, fresh, cmd>> PROVE LinesTrue'
<1>1. SinceFresh' = SinceFresh
  BY DEF SinceFresh
<1> QED BY <1>1, LinesNext DEF LinesTrue

(* An event that is no output and no line.                                  *)
LEMMA LinesQuiet ==
  ASSUME LogTyped, LinesTrue, NEW e, e.kind \notin {"raw", "log"},
         log' = Append(log, e), UNCHANGED <<unfinished, fresh, cmd>>
  PROVE  LinesTrue'
<1>1. PICK B : B = ToSet(cmd.output)
  OBVIOUS
<1>2. EventTyped(B, e) /\ RawOf(e) = <<>> /\ LineOf(e) = <<>>
  BY DEF EventTyped, RawOf, LineOf
<1>3. PICK t : t = <<e>>
  OBVIOUS
<1>4. Typed(B, t) /\ RawBytes(t) = <<>> /\ LogLines(t) = <<>>
  BY <1>2, <1>3, EventAlone
<1>5. log' = log \o t
  BY <1>3 DEF LogTyped
<1>6. PICK s : s = SinceFresh
  OBVIOUS
<1>7. SinceFresh' = s \o t /\ Typed(B, s) /\ Typed(B, log') /\ fresh' \in 0 .. Len(log')
  BY <1>1, <1>4, <1>5, <1>6, FreshKept
<1>8. RawBytes(s \o t) = RawBytes(s) \o <<>> /\ RawBytes(s) \in Seq(B)
  <2>1. RawBytes(s \o t) = RawBytes(s) \o RawBytes(t) /\ RawBytes(s) \in Seq(B)
    <3>1. Typed(B, s) /\ Typed(B, t)
      BY <1>4, <1>7
    <3> QED BY <3>1, RawJoin
  <2> QED BY <1>4, <2>1
<1>9. LogLines(s \o t) = LogLines(s) \o <<>> /\ LogLines(s) \in Seq(Lines(B))
  <2>1. LogLines(s \o t) = LogLines(s) \o LogLines(t) /\ LogLines(s) \in Seq(Lines(B))
    <3>1. Typed(B, s) /\ Typed(B, t)
      BY <1>4, <1>7
    <3> QED BY <3>1, LineJoin
  <2> QED BY <1>4, <2>1
<1>10. PICK raw \in Seq(B) : raw = RawBytes(s)
  BY <1>8
<1>11. PICK L : L = Lines(B)
  OBVIOUS
<1>12. PICK lines \in Seq(L) : lines = LogLines(s)
  BY <1>9, <1>11
<1>13. raw \o <<>> = raw /\ lines \o <<>> = lines
  OBVIOUS
<1>14. AreLinesOf(LogLines(s \o t), unfinished, RawBytes(s \o t))
  BY <1>6, <1>8, <1>9, <1>10, <1>12, <1>13 DEF LinesTrue
<1> QED BY <1>1, <1>7, <1>14, LinesNext

LEMMA NoLines == AreLinesOf(<<>>, <<>>, <<>>)
<1>1. <<>> \o <<>> = <<>> /\ Len(<<>>) = 0
  OBVIOUS
<1>2. MaxLine \in Nat \ {0}
  BY DecoderAssumption
<1>3. 0 < MaxLine /\ ~Contains(<<>>, Newline)
  BY <1>1, <1>2 DEF Contains
<1> QED BY <1>1, <1>3, SpelledNone DEF AreLinesOf

(* A new decoder has no output behind it, whatever event it was made at.    *)
LEMMA LinesFresh ==
  ASSUME LogTyped, LinesTrue, FreshDecoder, cmd' = cmd,
         \/ log' = log
         \/ \E e : e.kind \notin {"raw", "log"} /\ log' = Append(log, e)
  PROVE  LinesTrue'
<1>1. PICK B : B = ToSet(cmd.output)
  OBVIOUS
<1>2. Typed(B, log) /\ log \in Seq(ToSet(log))
  BY <1>1 DEF LogTyped, LinesTrue
<1>3. Typed(B, log')
  <2>1. ASSUME NEW e, e.kind \notin {"raw", "log"}, log' = Append(log, e) PROVE Typed(B, log')
    <3>1. EventTyped(B, e)
      BY <2>1 DEF EventTyped
    <3>2. Typed(B, <<e>>)
      BY <3>1, EventAlone
    <3>3. log' = log \o <<e>>
      BY <1>2, <2>1
    <3> QED BY <1>2, <3>2, <3>3, TypedJoin
  <2> QED BY <1>2, <2>1
<1>4. PICK n \in Nat : n = Len(log')
  BY <1>3 DEF Typed
<1>5. fresh' = n /\ unfinished' = <<>>
  BY <1>4 DEF FreshDecoder
<1>6. SinceFresh' = <<>>
  <2>1. PICK x : x = log'
    OBVIOUS
  <2>2. x \in Seq(ToSet(x)) /\ n = Len(x)
    BY <1>3, <1>4, <2>1 DEF Typed
  <2>3. SubSeq(x, n + 1, n) = <<>>
    BY <2>2
  <2> QED BY <1>4, <1>5, <2>1, <2>3 DEF SinceFresh
<1>7. LogLines(SinceFresh') = <<>> /\ RawBytes(SinceFresh') = <<>>
  BY <1>6, NoEvents
<1> QED BY <1>1, <1>3, <1>4, <1>5, <1>7, LinesNext, NoLines

LEMMA TypedNone == ASSUME NEW B PROVE Typed(B, <<>>)
<1>1. <<>> \in Seq(ToSet(<<>>)) /\ Len(<<>>) = 0 /\ 1 .. 0 = {}
  OBVIOUS
<1> QED BY <1>1 DEF Typed

(* A publication is one raw event and the lines it completed.               *)
LEMMA PublishIs ==
  ASSUME ClientAssumption, LogTyped, NEW n \in OutputReads, Publish(n),
         NEW B, B = ToSet(cmd.output)
  PROVE  \E bytes, x :
           /\ bytes \in Seq(B) /\ log' = log \o x /\ Typed(B, x) /\ Len(x) \in Nat
           /\ RawBytes(x) = bytes /\ LogLines(x) = Feed(unfinished, bytes).lines
           /\ unfinished' = Feed(unfinished, bytes).pending
           /\ \A i \in 1 .. Len(x) : x[i].kind \in {"raw", "log"}
<1>1. cmd.output \in Seq(B) /\ unfinished \in Seq(B) /\ n \in Nat \ {0} /\ said \in Nat
  BY DEF LogTyped, ClientAssumption
<1>2. said + n <= Len(cmd.output)
  BY DEF Publish
<1>3. PICK bytes : bytes = SubSeq(cmd.output, said + 1, said + n)
  OBVIOUS
<1>4. bytes \in Seq(B)
  BY <1>1, <1>2, <1>3
<1>5. PICK decoded : decoded = Feed(unfinished, bytes)
  OBVIOUS
<1>6. PICK L : L = Lines(B)
  OBVIOUS
<1>7. PICK lines \in Seq(L) : lines = decoded.lines
  BY <1>1, <1>4, <1>5, <1>6, FeedTyped
<1>8. PICK t : t = [i \in DOMAIN lines |-> Event("log", lines[i])]
  OBVIOUS
<1>9. PICK e : e = Event("raw", bytes)
  OBVIOUS
<1>10. log' = (log \o <<e>>) \o t /\ unfinished' = decoded.pending
  BY <1>3, <1>5, <1>7, <1>8, <1>9 DEF Publish
<1>11. Typed(B, t) /\ RawBytes(t) = <<>> /\ LogLines(t) = lines
  BY <1>6, <1>7, <1>8, LineEvents
<1>12. Typed(B, <<e>>) /\ RawBytes(<<e>>) = bytes /\ LogLines(<<e>>) = <<>>
  <2>1. EventTyped(B, e) /\ RawOf(e) = bytes /\ LineOf(e) = <<>>
    BY <1>4, <1>9 DEF EventTyped, RawOf, LineOf, Event
  <2> QED BY <1>4, <2>1, EventAlone
<1>13. PICK one : one = <<e>>
  OBVIOUS
<1>14. Typed(B, one) /\ Typed(B, t) /\ Len(one) = 1 /\ one[1] = e
  BY <1>11, <1>12, <1>13
<1>15. PICK x : x = one \o t
  OBVIOUS
<1>16. /\ Typed(B, x) /\ Len(x) = Len(one) + Len(t) /\ Len(t) \in Nat
       /\ \A i \in 1 .. Len(one) : x[i] = one[i]
       /\ \A i \in 1 .. Len(t) : x[Len(one) + i] = t[i]
  <2>1. Typed(B, one) /\ Typed(B, t)
    BY <1>14
  <2>2. /\ Typed(B, one \o t) /\ Len(one \o t) = Len(one) + Len(t) /\ Len(t) \in Nat
        /\ \A i \in 1 .. Len(one) : (one \o t)[i] = one[i]
        /\ \A i \in 1 .. Len(t) : (one \o t)[Len(one) + i] = t[i]
    BY <2>1, TypedJoin
  <2> QED BY <1>15, <2>2
<1>17. RawBytes(x) = bytes /\ LogLines(x) = lines
  <2>1. RawBytes(x) = RawBytes(one) \o RawBytes(t) /\ LogLines(x) = LogLines(one) \o LogLines(t)
    BY SMTT(30), <1>14, <1>15, RawJoin, LineJoin
  <2>2. bytes \o <<>> = bytes /\ <<>> \o lines = lines
    BY <1>4, <1>7
  <2> QED BY <1>11, <1>12, <1>13, <2>1, <2>2
<1>18. log' = log \o x
  <2>1. PICK S : S = (ToSet(log) \cup ToSet(one)) \cup ToSet(t)
    OBVIOUS
  <2>2. log \in Seq(S) /\ one \in Seq(S) /\ t \in Seq(S)
    BY <1>14, <2>1 DEF LogTyped, Typed
  <2>3. (log \o one) \o t = log \o (one \o t)
    BY SMTT(30), <2>2, JoinsAssociate DEF Join
  <2> QED BY <1>10, <1>13, <1>15, <2>3
<1>19. \A i \in 1 .. Len(x) : x[i].kind \in {"raw", "log"}
  <2>1. e.kind = "raw"
    BY <1>9 DEF Event
  <2>2. ASSUME NEW i \in 1 .. Len(t) PROVE t[i].kind = "log"
    <3>1. DOMAIN t = 1 .. Len(t) /\ DOMAIN t = DOMAIN lines
      BY <1>7, <1>8
    <3> QED BY <1>8, <3>1 DEF Event
  <2>3. ASSUME NEW i \in 1 .. 1 + Len(t) PROVE x[i].kind \in {"raw", "log"}
    <3>1. CASE i = 1
      BY <1>14, <1>16, <2>1, <3>1
    <3>2. CASE i # 1
      <4>1. PICK k \in 1 .. Len(t) : i = 1 + k
        <5>1. i - 1 \in 1 .. Len(t) /\ i = 1 + (i - 1)
          BY <1>16, <3>2
        <5> QED BY <5>1
      <4> QED BY <1>14, <1>16, <2>2, <4>1
    <3> QED BY <3>1, <3>2
  <2> QED BY <1>14, <1>16, <2>3
<1>20. LogLines(x) = Feed(unfinished, bytes).lines /\ unfinished' = Feed(unfinished, bytes).pending
  BY <1>5, <1>7, <1>10, <1>17
<1>21. Len(x) \in Nat
  BY <1>14, <1>16
<1> QED BY <1>4, <1>16, <1>17, <1>18, <1>19, <1>20, <1>21

LEMMA LinesPublish ==
  ASSUME ClientAssumption, LogTyped, LinesTrue, NEW n \in OutputReads, Publish(n) PROVE LinesTrue'
<1>1. PICK B : B = ToSet(cmd.output)
  OBVIOUS
<1>2. PICK bytes, x :
        /\ bytes \in Seq(B) /\ log' = log \o x /\ Typed(B, x) /\ Len(x) \in Nat
        /\ RawBytes(x) = bytes /\ LogLines(x) = Feed(unfinished, bytes).lines
        /\ unfinished' = Feed(unfinished, bytes).pending
        /\ \A i \in 1 .. Len(x) : x[i].kind \in {"raw", "log"}
  BY <1>1, PublishIs
<1>3. cmd' = cmd /\ fresh' = fresh /\ unfinished \in Seq(B)
  BY <1>1 DEF Publish, clientVars, LogTyped
<1>4. PICK s : s = SinceFresh
  OBVIOUS
<1>5. SinceFresh' = s \o x /\ Typed(B, s) /\ Typed(B, log') /\ fresh' \in 0 .. Len(log')
  BY <1>1, <1>2, <1>3, <1>4, FreshKept
<1>6. RawBytes(s \o x) = RawBytes(s) \o bytes /\ RawBytes(s) \in Seq(B)
  <2>1. Typed(B, s) /\ Typed(B, x)
    BY <1>2, <1>5
  <2>2. RawBytes(s \o x) = RawBytes(s) \o RawBytes(x) /\ RawBytes(s) \in Seq(B)
    BY <2>1, RawJoin
  <2> QED BY <1>2, <2>2
<1>7. LogLines(s \o x) = LogLines(s) \o LogLines(x) /\ LogLines(s) \in Seq(Lines(B))
  <2>1. Typed(B, s) /\ Typed(B, x)
    BY <1>2, <1>5
  <2>2. LogLines(s \o x) = LogLines(s) \o LogLines(x) /\ LogLines(s) \in Seq(Lines(B))
    BY <2>1, LineJoin
  <2> QED BY <1>2, <2>2
<1>8. AreLinesOf(LogLines(s), unfinished, RawBytes(s))
  BY <1>4 DEF LinesTrue
<1>9. AreLinesOf(LogLines(s) \o Feed(unfinished, bytes).lines, Feed(unfinished, bytes).pending,
                  RawBytes(s) \o bytes)
  BY <1>2, <1>3, <1>6, <1>7, <1>8, FeedIsFaithful
<1>10. AreLinesOf(LogLines(s \o x), unfinished', RawBytes(s \o x))
  BY <1>2, <1>6, <1>7, <1>9
<1> QED BY <1>1, <1>3, <1>5, <1>10, LinesNext

LEMMA LinesStart == ASSUME Init PROVE LinesTrue
<1>1. log = <<>> /\ unfinished = <<>> /\ fresh = 0 /\ Len(<<>>) = 0 /\ SubSeq(<<>>, 0 + 1, 0) = <<>>
  BY DEF Init
<1>2. SinceFresh = <<>>
  BY <1>1 DEF SinceFresh
<1>3. Typed(ToSet(cmd.output), log) /\ LogLines(SinceFresh) = <<>> /\ RawBytes(SinceFresh) = <<>>
  BY <1>1, <1>2, NoEvents, TypedNone
<1> QED BY <1>1, <1>3, NoLines DEF LinesTrue

(* A new daemon has said nothing yet.                                       *)
LEMMA LinesRestart == ASSUME log' = <<>>, unfinished' = <<>>, fresh' = 0 PROVE LinesTrue'
<1>1. Len(<<>>) = 0 /\ SubSeq(<<>>, 0 + 1, 0) = <<>>
  OBVIOUS
<1>2. SinceFresh' = <<>>
  BY <1>1 DEF SinceFresh
<1>3. Typed(ToSet(cmd'.output), <<>>) /\ LogLines(SinceFresh') = <<>> /\ RawBytes(SinceFresh') = <<>>
  BY <1>2, NoEvents, TypedNone
<1> QED BY <1>1, <1>3, LinesNext, NoLines

LEMMA LinesStep ==
  ASSUME ClientAssumption, LogTyped, LinesTrue, [Next]_vars PROVE LinesTrue'
<1>1. CASE Daemon
  <2>1. ASSUME NEW f \in flights, Handle(f) PROVE LinesTrue'
    <3>1. cmd' = cmd
      BY <2>1 DEF Handle
    <3>2. CASE Admit(f)
      <4>1. PICK e : e = Event("operation_started", <<f.req>>)
        OBVIOUS
      <4>2. e.kind \notin {"raw", "log"}
        BY <4>1 DEF Event
      <4>3. log' = Append(log, e) /\ UNCHANGED <<unfinished, fresh>>
        BY <3>2, <4>1 DEF Admit, portVars
      <4> QED BY <3>1, <4>2, <4>3, LinesQuiet
    <3>3. CASE Replay(f) \/ Refuse(f)
      BY <3>1, <3>3, LinesSame DEF Replay, Refuse, daemonVars, portVars
    <3> QED BY <2>1, <3>2, <3>3 DEF Handle
  <2>2. CASE Report
    <3>1. PICK e : e = Event("progress", Script[flashed + 1])
      OBVIOUS
    <3>2. log' = Append(log, e) /\ UNCHANGED <<unfinished, fresh, cmd>>
      BY <2>2, <3>1 DEF Report, clientVars, portVars
    <3>3. e.kind \notin {"raw", "log"}
      BY <3>1 DEF Event
    <3> QED BY <3>2, <3>3, LinesQuiet
  <2>3. ASSUME NEW k \in DOMAIN ops, NEW ok \in BOOLEAN, Finish(k, ok) PROVE LinesTrue'
    <3>1. PICK e : e = Event("operation_finished", <<ops[k].req, ops'[k].status>>)
      OBVIOUS
    <3>2. log' = Append(log, e) /\ cmd' = cmd
      BY <2>3, <3>1 DEF Finish, clientVars
    <3>3. e.kind \notin {"raw", "log"}
      BY <3>1 DEF Event
    <3>4. UNCHANGED <<unfinished, fresh>> \/ FreshDecoder
      BY <2>3, PortAtTheEnd DEF Finish
    <3>5. CASE UNCHANGED <<unfinished, fresh>>
      BY <3>2, <3>3, <3>5, LinesQuiet
    <3>6. CASE FreshDecoder
      BY <3>2, <3>3, <3>6, LinesFresh
    <3> QED BY <3>4, <3>5, <3>6
  <2>4. ASSUME NEW n \in OutputReads, Publish(n) PROVE LinesTrue'
    BY <2>4, LinesPublish
  <2>5. CASE (\E k \in DOMAIN ops : Forget(k)) \/ Evict \/ AnswerEvents
    BY <2>5, LinesSame DEF Forget, Evict, AnswerEvents, clientVars, daemonVars, portVars
  <2>6. CASE Restart
    <3>1. log' = <<>> /\ unfinished' = <<>> /\ fresh' = 0
      BY <2>6 DEF Restart
    <3> QED BY <3>1, LinesRestart
  <2>7. CASE Port
    <3>1. cmd' = cmd
      BY <2>7, PortSteps DEF clientVars
    <3>2. CASE FreshDecoder
      <4>1. \A kind \in {"reconnecting", "reconnected"} : Event(kind, <<>>).kind \notin {"raw", "log"}
        BY DEF Event
      <4> QED BY <2>7, <3>1, <3>2, <4>1, PortSteps, LinesFresh
    <3>3. CASE UNCHANGED <<unfinished, fresh>>
      <4>1. CASE UNCHANGED log
        BY <3>1, <3>3, <4>1, LinesSame
      <4>2. ASSUME NEW kind \in {"reconnecting", "reconnected"}, log' = Append(log, Event(kind, <<>>))
            PROVE  LinesTrue'
        <5>1. Event(kind, <<>>).kind \notin {"raw", "log"}
          BY DEF Event
        <5> QED BY <3>1, <3>3, <4>2, <5>1, LinesQuiet
      <4> QED BY <2>7, <4>1, <4>2, PortSteps
    <3> QED BY <2>7, <3>2, <3>3, PortSteps
  <2> QED BY <1>1, <2>1, <2>2, <2>3, <2>4, <2>5, <2>6, <2>7 DEF Daemon
<1>2. CASE Repeat
  BY <1>2, LinesSame DEF Repeat, portVars
<1>3. CASE ~Daemon /\ ~Repeat
  BY <1>3, ClientSteps, LinesSame DEF daemonVars, portVars
<1> QED BY <1>1, <1>2, <1>3

-----------------------------------------------------------------------------
(* The line that is waited for. *)

(* What a capture has taken did not match.                                  *)
WaitTrue ==
  pc = "capture" /\ cmd.wait /\ start.epoch = epoch =>
    \A n \in start.after + 1 .. cursor.after : ~Matches(log[n])

(* A capture begins with nothing taken and goes on by taking what came.     *)
LEMMA WaitMoves ==
  ASSUME [Next]_vars, pc' = "capture"
  PROVE  /\ UNCHANGED <<start, cmd>>
         /\ cursor' = start \/ TakeEvents \/ (pc = "capture" /\ cursor' = cursor)
<1>1. CASE Daemon
  <2>1. CASE \E f \in flights : Handle(f)
    BY <2>1 DEF Handle, shownVars
  <2>2. CASE Report \/ (\E n \in OutputReads : Publish(n)) \/ Evict \/ Port
    BY <2>2, PortSteps DEF Report, Publish, Evict, clientVars, shownVars
  <2>3. CASE (\E k \in DOMAIN ops : Forget(k)) \/ \E k \in DOMAIN ops, ok \in BOOLEAN : Finish(k, ok)
    BY <2>3 DEF Forget, Finish, clientVars, shownVars
  <2>4. CASE Restart \/ AnswerEvents
    BY <2>4 DEF Restart, AnswerEvents
  <2> QED BY <1>1, <2>1, <2>2, <2>3, <2>4 DEF Daemon
<1>2. CASE Proceed
  <2>1. CASE Submit \/ GiveUp \/ GivesUpWaiting \/ OpenOutput \/ Leave \/ Elapsed
    BY <2>1 DEF Submit, GiveUp, GivesUpWaiting, OpenOutput, Leave, Elapsed, End, shownVars
  <2>2. CASE StartWrite \/ Wrote \/ Resend
    BY <2>2 DEF StartWrite, Wrote, Resend, End, shownVars
  <2>3. CASE Submitted \/ \E end \in {"eof", "error"} : StopTransfer(end)
    BY <2>3 DEF Submitted, StopTransfer, End
  <2>4. ASSUME Continue PROVE cursor' = start
    BY <2>4 DEF Continue, AfterOperation
  <2>5. CASE Waited \/ Drain
    BY <2>4, <2>5 DEF Waited, Drain, End
  <2> QED BY <1>2, <2>1, <2>2, <2>3, <2>5 DEF Proceed
<1>3. CASE Poll \/ Transfer \/ Interrupt \/ TakeFlashEvents
  BY <1>3 DEF Poll, Transfer, Interrupt, TakeFlashEvents, End, shownVars
<1>4. CASE TakeEvents
  BY <1>4 DEF TakeEvents
<1>5. CASE (\E n \in 1 .. ReadSize : ReadInput(n)) \/ ReceiveInput \/ SomebodyWrites
  BY <1>5 DEF ReadInput, ReceiveInput, SomebodyWrites, shownVars
<1>6. CASE Repeat
  BY <1>6 DEF Repeat
<1>7. CASE UNCHANGED vars
  BY <1>7 DEF vars, shownVars
<1> QED BY <1>1, <1>2, <1>3, <1>4, <1>5, <1>6, <1>7 DEF Next

LEMMA WaitStep ==
  ASSUME LogTyped, Grows \/ Restarts, StartTrue, AskedTrue, CursorTrue, WaitTrue, [Next]_vars
  PROVE  WaitTrue'
<1>1. SUFFICES ASSUME pc' = "capture", cmd'.wait, start'.epoch = epoch',
                      NEW n \in start'.after + 1 .. cursor'.after
               PROVE  ~Matches(log[n])'
  BY DEF WaitTrue, Matches
<1>2. UNCHANGED <<start, cmd>>
  BY <1>1, WaitMoves
<1>3. start.epoch \in Nat /\ start.epoch <= epoch /\ epoch \in Nat /\ start.after \in Nat
  BY DEF StartTrue, Reached, Cursors, LogTyped
<1>4. Grows /\ epoch' = epoch
  BY <1>1, <1>2, <1>3 DEF Grows, Restarts
<1>5. cursor' # start
  BY <1>1, <1>2, <1>3
<1>6. cursor \in Cursors /\ (cursor.epoch = epoch => cursor.after <= Len(log)) /\ Len(log) \in Nat
  BY DEF AskedTrue, Reached, LogTyped
<1>7. pc = "capture"
  BY <1>1, <1>5, WaitMoves DEF TakeEvents, Waiting
<1>8. cursor.epoch = epoch /\ start.after <= cursor.after /\ cursor.after \in Nat /\ n \in Nat
  BY <1>1, <1>2, <1>3, <1>4, <1>6, <1>7 DEF CursorTrue, Cursors
<1>9. ASSUME n <= cursor.after PROVE ~Matches(log[n])'
  <2>1. n \in start.after + 1 .. cursor.after /\ n \in 1 .. Len(log)
    BY <1>1, <1>2, <1>3, <1>6, <1>8, <1>9
  <2>2. ~Matches(log[n])
    BY <1>1, <1>2, <1>4, <1>7, <2>1 DEF WaitTrue
  <2>3. log'[n] = log[n]
    BY <1>4, <2>1 DEF Grows
  <2> QED BY <2>2, <2>3 DEF Matches
<1>10. CASE cursor' = cursor
  BY <1>1, <1>8, <1>9, <1>10
<1>11. CASE TakeEvents /\ cursor' # cursor
  <2>1. asked.state = "answered" /\ cursor' = Behind(cursor, asked.batch) /\ log' = log
    BY <1>11 DEF TakeEvents, daemonVars
  <2>2. \A i \in DOMAIN asked.batch : ~Matches(asked.batch[i])
    BY <1>1, <1>2, <1>11, <2>1 DEF TakeEvents, End
  <2>3. PICK m \in Nat : m = Len(asked.batch)
    BY DEF AskedTrue
  <2>4. DOMAIN asked.batch = 1 .. m
    BY <2>3 DEF AskedTrue
  <2>5. \A i \in 1 .. m : asked.batch[i] = log[cursor.after + i]
    BY <1>8, <2>1, <2>3 DEF AskedTrue, BatchTrue
  <2>6. cursor'.after = cursor.after + m
    BY <2>1, <2>3, BehindReached DEF AskedTrue
  <2>7. CASE n > cursor.after
    <3>1. PICK i \in 1 .. m : n = cursor.after + i
      <4>1. n - cursor.after \in 1 .. m /\ n = cursor.after + (n - cursor.after)
        BY <1>1, <1>8, <2>6, <2>7
      <4> QED BY <4>1
    <3>2. ~Matches(log[n])
      BY <2>2, <2>4, <2>5, <3>1
    <3> QED BY <2>1, <3>2 DEF Matches
  <2> QED BY <1>8, <1>9, <2>7
<1> QED BY <1>1, <1>5, <1>10, <1>11, WaitMoves

SeenInv == ClientInv /\ LinesTrue /\ WaitTrue

LEMMA SeenStart == Init => SeenInv
<1>1. Init => WaitTrue
  BY DEF Init, WaitTrue
<1> QED BY <1>1, ClientStart, LinesStart DEF SeenInv

LEMMA SeenStep == SeenInv /\ [Next]_vars => SeenInv'
<1> SUFFICES ASSUME SeenInv, [Next]_vars PROVE SeenInv'
  OBVIOUS
<1>1. ClientInv /\ LinesTrue /\ WaitTrue /\ LogTyped /\ StartTrue /\ AskedTrue /\ CursorTrue
  BY DEF SeenInv, ClientInv, ReportInv
<1>2. Grows \/ Restarts
  BY <1>1, ClientAssumption, LogStep
<1>3. ClientInv'
  BY <1>1, ClientStep
<1>4. LinesTrue'
  BY <1>1, ClientAssumption, LinesStep
<1>5. WaitTrue'
  BY <1>1, <1>2, WaitStep
<1> QED BY <1>3, <1>4, <1>5 DEF SeenInv

LEMMA SeenAlways == Spec => []SeenInv
BY SeenStart, SeenStep, PTL DEF Spec

(* LineDecoder, capture_loop: the log lines are the lines of what the board *)
(* said since the decoder started afresh, in whatever reads it came and     *)
(* however long they are, and a wait does not go on past one that matches.  *)
THEOREM WaitMissesNothing == Spec => []WaitSeesEveryLine
<1>1. SeenInv => WaitSeesEveryLine
  <2>1. SUFFICES ASSUME SeenInv PROVE WaitSeesEveryLine
    OBVIOUS
  <2>2. LinesTrue /\ WaitTrue /\ LogTyped /\ StartTrue /\ AskedTrue /\ CursorTrue
    BY <2>1 DEF SeenInv, ClientInv, ReportInv
  <2>3. AreLinesOf(LogLines(SinceFresh), unfinished, RawBytes(SinceFresh))
    BY <2>2 DEF LinesTrue
  <2>4. ASSUME pc = "capture", cmd.wait, start.epoch = epoch,
               NEW i \in DOMAIN Since(cursor)
        PROVE  ~Matches(Since(cursor)[i])
    <3>1. log \in Seq(ToSet(log)) /\ start.after \in Nat /\ cursor.after \in 0 .. Len(log)
      BY <2>2, <2>4 DEF LogTyped, StartTrue, AskedTrue, CursorTrue, Reached, Cursors
    <3>2. PICK x \in Nat, y \in 0 .. Len(log) : x = start.after /\ y = cursor.after
      BY <3>1
    <3>3. x <= y
      BY <2>2, <2>4, <3>2 DEF CursorTrue
    <3>4. PICK t : t = SubSeq(log, x + 1, y)
      OBVIOUS
    <3>5. /\ t \in Seq(ToSet(log)) /\ Len(t) = y - x
          /\ \A j \in 1 .. y - x : t[j] = log[x + j]
      <4>1. /\ SubSeq(log, x + 1, y) \in Seq(ToSet(log)) /\ Len(SubSeq(log, x + 1, y)) = y - x
            /\ \A j \in 1 .. y - x : x + j \in 1 .. Len(log) /\ SubSeq(log, x + 1, y)[j] = log[x + j]
        BY <3>1, <3>3, PartOf
      <4> QED BY <3>4, <4>1
    <3>6. t = Since(cursor)
      BY <3>2, <3>4 DEF Since
    <3>7. i \in 1 .. y - x /\ x + i \in x + 1 .. y
      <4>1. DOMAIN t = 1 .. y - x
        BY <3>5
      <4>2. i \in 1 .. y - x
        BY <2>4, <3>6, <4>1
      <4> QED BY <3>2, <4>2
    <3>8. ~Matches(log[x + i])
      BY <2>2, <2>4, <3>2, <3>7 DEF WaitTrue
    <3> QED BY <3>5, <3>6, <3>7, <3>8
  <2> QED BY <2>3, <2>4 DEF WaitSeesEveryLine
<1> QED BY <1>1, SeenAlways, PTL

-----------------------------------------------------------------------------
(* What the progress of a flash looks like. *)

Percents == ({NoPercent} \cup {<<step.offset, 0>> : step \in ToSet(Script)})
              \cup {<<step.offset, step.percent>> : step \in ToSet(Script)}
Views == [line : BOOLEAN, last : Percents, shown : Seq(ToSet(Script))]

ShownIn(v, action, offset, percent) ==
  \E i \in DOMAIN v.shown :
    v.shown[i].action = action /\ v.shown[i].offset = offset /\ v.shown[i].percent = percent

(* Whoever was last shown complete was shown.                               *)
Lasting(v) == \A offset : v.last = <<offset, 100>> => ShownIn(v, "segment_progress", offset, 100)
Better(v, w) ==
  \A action, offset, percent : ShownIn(v, action, offset, percent) => ShownIn(w, action, offset, percent)

Reported(e) == e.kind = "progress" => e.data \in ToSet(Script)
Final(e) ==
  /\ e.kind = "progress"
  /\ \/ e.data.action = "segment_finished"
     \/ e.data.action = "segment_progress" /\ e.data.percent = 100
Seen(v, e) == Final(e) => ShownIn(v, e.data.action, e.data.offset, e.data.percent)

Shows(v, e, w) == w \in Views /\ Better(v, w) /\ (Lasting(v) => Lasting(w) /\ Seen(w, e))

LEMMA BetterStill ==
  ASSUME NEW u, NEW v, NEW w, Better(u, v), Better(v, w)
  PROVE  Better(u, w) /\ \A e : Seen(v, e) => Seen(w, e)
BY DEF Better, Seen

LEMMA ScriptIs ==
  ASSUME NEW step \in ToSet(Script)
  PROVE  /\ step.action \in Actions
         /\ <<step.offset, 0>> \in Percents /\ <<step.offset, step.percent>> \in Percents
<1>1. PICK i \in DOMAIN Script : step = Script[i]
  BY DEF ToSet
<1>2. step.action \in Actions
  BY <1>1, ScriptAssumption DEF Completes
<1> QED BY <1>2 DEF Percents

LEMMA ViewMore ==
  ASSUME NEW v \in Views, NEW step \in ToSet(Script), NEW line \in BOOLEAN, NEW last \in Percents,
         NEW w, w = [line |-> line, last |-> last, shown |-> Append(v.shown, step)]
  PROVE  w \in Views /\ Better(v, w) /\ ShownIn(w, step.action, step.offset, step.percent)
<1>1. PICK s \in Seq(ToSet(Script)) : s = v.shown
  BY DEF Views
<1>2. PICK t : t = Append(s, step)
  OBVIOUS
<1>3. /\ t \in Seq(ToSet(Script)) /\ Len(t) = Len(s) + 1 /\ t[Len(s) + 1] = step
      /\ \A i \in 1 .. Len(s) : t[i] = s[i]
  BY <1>2
<1>4. DOMAIN s = 1 .. Len(s) /\ DOMAIN t = 1 .. Len(s) + 1 /\ Len(s) \in Nat
  BY <1>3
<1>5. Len(s) + 1 \in DOMAIN t /\ DOMAIN s \in SUBSET DOMAIN t
  BY <1>4
<1>6. w.shown = t /\ w \in Views
  BY <1>1, <1>2, <1>3 DEF Views
<1>7. ShownIn(w, step.action, step.offset, step.percent)
  BY <1>3, <1>5, <1>6 DEF ShownIn
<1>8. Better(v, w)
  BY <1>1, <1>3, <1>4, <1>5, <1>6 DEF Better, ShownIn
<1> QED BY <1>6, <1>7, <1>8

LEMMA ShowStep ==
  ASSUME NEW v \in Views, NEW e, Reported(e), cmd.tty \in BOOLEAN
  PROVE  Shows(v, e, Show(v, e))
<1>1. PICK step : step = e.data
  OBVIOUS
<1>2. v.line \in BOOLEAN /\ v.last \in Percents /\ v.shown \in Seq(ToSet(Script))
  BY DEF Views
<1>3. ASSUME NEW w, w \in Views, w.last = v.last, w.shown = v.shown, ~Final(e) PROVE Shows(v, e, w)
  BY <1>3 DEF Shows, Better, Lasting, Seen, ShownIn
<1>4. CASE e.kind # "progress"
  <2>1. Show(v, e) = v
    BY <1>4 DEF Show
  <2> QED BY <1>3, <1>4, <2>1 DEF Final
<1>5. CASE e.kind = "progress"
  <2>1. step \in ToSet(Script)
    BY <1>1, <1>5 DEF Reported
  <2>2. PICK reached : reached = <<step.offset, step.percent>>
    OBVIOUS
  <2>3. step.action \in Actions /\ <<step.offset, 0>> \in Percents /\ reached \in Percents
    BY <2>1, <2>2, ScriptIs
  <2>4. ASSUME NEW line \in BOOLEAN, NEW last \in Percents,
               NEW w, w = [line |-> line, last |-> last, shown |-> Append(v.shown, step)],
               \A offset : last = <<offset, 100>> =>
                 last = v.last \/ ShownIn(w, "segment_progress", offset, 100)
        PROVE  Shows(v, e, w)
    <3>1. w \in Views /\ Better(v, w) /\ ShownIn(w, step.action, step.offset, step.percent)
      BY <2>1, <2>4, ViewMore
    <3>2. Seen(w, e)
      BY <1>1, <3>1 DEF Seen
    <3>3. Lasting(v) => Lasting(w)
      BY <2>4, <3>1 DEF Lasting, Better
    <3> QED BY <3>1, <3>2, <3>3 DEF Shows
  <2>5. CASE step.action = "segment_started"
    <3>1. PICK last : last = <<step.offset, 0>>
      OBVIOUS
    <3>2. Show(v, e) = [line |-> cmd.tty, last |-> last, shown |-> Append(v.shown, step)]
      BY <1>1, <1>5, <2>5, <3>1 DEF Show
    <3>3. \A offset : last # <<offset, 100>>
      BY <3>1
    <3> QED BY <2>3, <2>4, <3>1, <3>2, <3>3
  <2>6. CASE step.action = "verifying"
    <3>1. Show(v, e) = [v EXCEPT !.line = FALSE, !.shown = Append(@, step)]
      BY <1>1, <1>5, <2>6 DEF Show
    <3>2. v = [line |-> v.line, last |-> v.last, shown |-> v.shown]
      BY DEF Views
    <3>3. Show(v, e) = [line |-> FALSE, last |-> v.last, shown |-> Append(v.shown, step)]
      BY <3>1, <3>2
    <3> QED BY <1>2, <2>4, <3>3
  <2>7. CASE step.action = "segment_finished"
    <3>1. Show(v, e) = [line |-> FALSE, last |-> NoPercent, shown |-> Append(v.shown, step)]
      BY <1>1, <1>5, <2>7 DEF Show
    <3>2. NoPercent \in Percents /\ \A offset : NoPercent # <<offset, 100>>
      BY DEF Percents, NoPercent
    <3> QED BY <2>4, <3>1, <3>2
  <2>8. CASE step.action = "segment_progress"
    <3>1. PICK before : before = (IF v.last = NoPercent THEN 0 ELSE v.last[2])
      OBVIOUS
    <3>2. PICK worth \in BOOLEAN :
            worth <=> cmd.tty \/ step.percent = 100 \/ step.percent \div 10 > before \div 10
      OBVIOUS
    <3>3. PICK line \in BOOLEAN : line = (v.line \/ cmd.tty)
      OBVIOUS
    <3>4. Show(v, e) = IF v.last = reached THEN v
                       ELSE [line |-> line, last |-> reached,
                             shown |-> IF worth THEN Append(v.shown, step) ELSE v.shown]
      BY <1>1, <1>5, <2>2, <2>8, <3>1, <3>2, <3>3 DEF Show
    <3>5. CASE v.last = reached
      <4>1. Show(v, e) = v
        BY <3>4, <3>5
      <4>2. Better(v, v)
        BY DEF Better
      <4>3. ASSUME Lasting(v) PROVE Seen(v, e)
        BY <1>1, <2>2, <2>8, <3>5, <4>3 DEF Seen, Final, Lasting
      <4> QED BY <4>1, <4>2, <4>3 DEF Shows
    <3>6. CASE v.last # reached /\ worth
      <4>1. PICK w : w = [line |-> line, last |-> reached, shown |-> Append(v.shown, step)]
        OBVIOUS
      <4>2. Show(v, e) = w
        BY <3>4, <3>6, <4>1
      <4>3. ShownIn(w, step.action, step.offset, step.percent)
        BY <2>1, <2>3, <4>1, ViewMore
      <4>4. \A offset : reached = <<offset, 100>> => ShownIn(w, "segment_progress", offset, 100)
        <5>1. \A offset : reached = <<offset, 100>> => step.offset = offset /\ step.percent = 100
          BY <2>2
        <5> QED BY <2>8, <4>3, <5>1
      <4> QED BY <2>3, <2>4, <4>1, <4>2, <4>4
    <3>7. CASE v.last # reached /\ ~worth
      <4>1. PICK w : w = [line |-> line, last |-> reached, shown |-> v.shown]
        OBVIOUS
      <4>2. Show(v, e) = w
        BY <3>4, <3>7, <4>1
      <4>3. w \in Views /\ w.shown = v.shown /\ w.last = reached
        BY <1>2, <2>3, <4>1 DEF Views
      <4>4. step.percent # 100 /\ Seen(w, e)
        BY <1>1, <2>8, <3>2, <3>7 DEF Seen, Final
      <4>5. Lasting(w)
        BY <2>2, <4>3, <4>4 DEF Lasting
      <4>6. Better(v, w)
        BY <4>3 DEF Better, ShownIn
      <4> QED BY <4>2, <4>3, <4>4, <4>5, <4>6 DEF Shows
    <3> QED BY <3>5, <3>6, <3>7
  <2> QED BY <2>3, <2>5, <2>6, <2>7, <2>8 DEF Actions
<1> QED BY <1>4, <1>5

(* What Showing computes, by its recursion.                                 *)
LEMMA ShowingSteps ==
  ASSUME NEW v \in Views, NEW S, NEW batch \in Seq(S), cmd.tty \in BOOLEAN,
         \A i \in 1 .. Len(batch) : Reported(batch[i])
  PROVE  \E u \in [0 .. Len(batch) -> Views] :
           /\ u[0] = v
           /\ \A n \in 1 .. Len(batch) : u[n] = Show(u[n - 1], batch[n])
           /\ Showing(v, batch) = u[Len(batch)]
<1>1. PICK last \in Nat : last = Len(batch)
  OBVIOUS
<1>2. PICK V : V = Views
  OBVIOUS
<1>3. v \in V
  BY <1>2
<1>4. \A w \in V, n \in 1 .. last : Show(w, batch[n]) \in V
  <2>1. ASSUME NEW w \in Views, NEW n \in 1 .. last PROVE Show(w, batch[n]) \in Views
    <3>1. Reported(batch[n])
      BY <1>1
    <3> QED BY <3>1, ShowStep DEF Shows
  <2> QED BY <1>2, <2>1
<1> DEFINE g == [p \in V \X (1 .. last) |-> Show(p[1], batch[p[2]])]
           IsShown(u) == u = [n \in 0 .. last |-> IF n = 0 THEN v ELSE Show(u[n - 1], batch[n])]
<1>5. g \in [V \X (1 .. last) -> V]
  BY <1>4
<1>6. PICK f \in [0 .. last -> V] : Recurs(f, v, last, g)
  <2> HIDE DEF g
  <2> QED BY <1>3, <1>5, Recursion
<1>7. f[0] = v /\ \A n \in 1 .. last : f[n] = Show(f[n - 1], batch[n])
  <2>1. \A n \in 1 .. last : <<f[n - 1], n>> \in V \X (1 .. last)
    <3>1. \A n \in 1 .. last : n - 1 \in 0 .. last
      OBVIOUS
    <3> QED BY <3>1
  <2>2. \A p \in V \X (1 .. last) : g[p] = Show(p[1], batch[p[2]])
    OBVIOUS
  <2>3. f[0] = v /\ \A n \in 1 .. last : f[n] = g[<<f[n - 1], n>>]
    BY <1>6 DEF Recurs
  <2> HIDE DEF g
  <2> QED BY <2>1, <2>2, <2>3
<1>8. IsShown(f)
  <2>1. \A n \in 0 .. last : n # 0 => n \in 1 .. last
    OBVIOUS
  <2> QED BY <1>7, <2>1
<1>9. PICK u : u = CHOOSE h : IsShown(h)
  OBVIOUS
<1>10. IsShown(u)
  <2> HIDE DEF IsShown
  <2> QED BY <1>8, <1>9
<1>11. Showing(v, batch) = u[last]
  BY <1>1, <1>9 DEF Showing
<1>12. u[0] = v /\ \A n \in 1 .. last : u[n] = Show(u[n - 1], batch[n])
  <2>1. 0 \in 0 .. last /\ \A n \in 1 .. last : n \in 0 .. last /\ n # 0
    OBVIOUS
  <2> QED BY <1>10, <2>1
<1> DEFINE T == {n \in Nat : n <= last => u[n] \in V}
<1>13. T = Nat
  <2>1. 0 \in T
    BY <1>3, <1>12
  <2>2. ASSUME NEW n \in T PROVE n + 1 \in T
    <3>1. SUFFICES ASSUME n + 1 <= last PROVE u[n + 1] \in V
      OBVIOUS
    <3>2. n + 1 \in 1 .. last /\ (n + 1) - 1 = n /\ u[n] \in V
      BY <3>1
    <3>3. u[n + 1] = Show(u[n], batch[n + 1])
      BY <1>12, <3>2
    <3> QED BY <1>4, <3>2, <3>3
  <2>3. T \in SUBSET Nat
    OBVIOUS
  <2> HIDE DEF T
  <2> QED BY <2>1, <2>2, <2>3, Induction
<1>14. \A n \in 0 .. last : u[n] \in V
  <2>1. \A n \in T : n <= last => u[n] \in V
    OBVIOUS
  <2> HIDE DEF T
  <2> QED BY <1>13, <2>1
<1>15. u \in [0 .. last -> V]
  BY <1>10, <1>14
<1> QED BY <1>1, <1>2, <1>11, <1>12, <1>15

(* The final steps of a batch are all shown.                                *)
LEMMA ShowingAll ==
  ASSUME NEW v \in Views, Lasting(v), NEW S, NEW batch \in Seq(S), cmd.tty \in BOOLEAN,
         \A i \in 1 .. Len(batch) : Reported(batch[i])
  PROVE  /\ Showing(v, batch) \in Views /\ Lasting(Showing(v, batch))
         /\ Better(v, Showing(v, batch))
         /\ \A i \in 1 .. Len(batch) : Seen(Showing(v, batch), batch[i])
<1>1. PICK last \in Nat : last = Len(batch)
  OBVIOUS
<1>2. PICK u \in [0 .. last -> Views] :
        /\ u[0] = v
        /\ \A n \in 1 .. last : u[n] = Show(u[n - 1], batch[n])
        /\ Showing(v, batch) = u[last]
  BY <1>1, ShowingSteps
<1> DEFINE Good(n) == /\ Lasting(u[n]) /\ Better(v, u[n])
                      /\ \A i \in 1 .. n : Seen(u[n], batch[i])
           T == {n \in Nat : n <= last => Good(n)}
<1>3. 0 \in T
  <2>1. Better(v, v)
    BY DEF Better
  <2> QED BY <1>2, <2>1
<1>4. ASSUME NEW n \in T PROVE n + 1 \in T
  <2>1. n \in Nat /\ n + 1 \in Nat
    OBVIOUS
  <2>2. n <= last => Good(n)
    BY Zenon
  <2>3. ASSUME n + 1 <= last PROVE Good(n + 1)
    <3> HIDE DEF T
    <3>1. n + 1 \in 1 .. last /\ (n + 1) - 1 = n /\ n <= last /\ n \in 0 .. last
      BY <2>1, <2>3
    <3>2. u[n + 1] = Show(u[n], batch[n + 1]) /\ u[n] \in Views /\ Reported(batch[n + 1])
      BY <1>1, <1>2, <3>1
    <3>3. Shows(u[n], batch[n + 1], u[n + 1])
      BY <3>2, ShowStep
    <3>4. Lasting(u[n]) /\ Better(v, u[n]) /\ \A i \in 1 .. n : Seen(u[n], batch[i])
      BY <2>2, <3>1
    <3>5. Lasting(u[n + 1]) /\ Seen(u[n + 1], batch[n + 1]) /\ Better(u[n], u[n + 1])
      BY <3>3, <3>4 DEF Shows
    <3>6. Better(v, u[n + 1]) /\ \A i \in 1 .. n : Seen(u[n + 1], batch[i])
      BY <3>4, <3>5, BetterStill
    <3>7. \A i \in 1 .. n + 1 : i \in 1 .. n \/ i = n + 1
      BY <2>1
    <3> QED BY <3>5, <3>6, <3>7
  <2> HIDE DEF Good
  <2> QED BY <2>1, <2>3, Zenon
<1>5. T \in SUBSET Nat
  BY Zenon
<1>6. T = Nat
  <2> HIDE DEF T
  <2> QED BY <1>3, <1>4, <1>5, Induction
<1>7. \A n \in T : n <= last => Good(n)
  BY Zenon
<1>8. Good(last)
  <2> HIDE DEF T, Good
  <2>1. last <= last
    OBVIOUS
  <2> QED BY <1>6, <1>7, <2>1
<1>9. u[last] \in Views
  BY <1>2
<1> QED BY <1>1, <1>2, <1>8, <1>9

-----------------------------------------------------------------------------
(* What a flash has reported. *)

(* The first m steps of the script are in the log behind c, if the daemon   *)
(* is still the one that wrote it.                                          *)
HasSteps(c, m) ==
  c.epoch = epoch =>
    \A j \in 1 .. m : \E n \in c.after + 1 .. Len(log) : log[n] = Event("progress", Script[j])

Whole(c, req, status) ==
  cmd.kind = "flash" /\ req = 0 /\ status = "succeeded" => HasSteps(c, Len(Script))
Progressed(op) ==
  /\ Whole(op.start, op.req, op.status)
  /\ cmd.kind = "flash" /\ op.req = 0 /\ op.status = "running" => HasSteps(op.start, flashed)

OpsProgress == \A k \in DOMAIN ops : Progressed(ops[k])
LogReported == \A n \in 1 .. Len(log) : Reported(log[n])

FlashTrue ==
  /\ flashed \in 0 .. Len(Script) /\ LogReported /\ OpsProgress
  /\ Whole(call.start, call.req, call.status)

LEMMA CmdSame == ASSUME [Next]_vars PROVE cmd' = cmd
<1>1. CASE Daemon
  <2>1. CASE (\E f \in flights : Handle(f)) \/ Restart \/ AnswerEvents
    BY <2>1 DEF Handle, Restart, AnswerEvents
  <2>2. CASE Report \/ (\E n \in OutputReads : Publish(n)) \/ Evict \/ Port
    BY <2>2, PortSteps DEF Report, Publish, Evict, clientVars
  <2>3. CASE (\E k \in DOMAIN ops : Forget(k)) \/ \E k \in DOMAIN ops, ok \in BOOLEAN : Finish(k, ok)
    BY <2>3 DEF Forget, Finish, clientVars
  <2> QED BY <1>1, <2>1, <2>2, <2>3 DEF Daemon
<1>2. CASE Repeat
  BY <1>2 DEF Repeat
<1>3. CASE ~Daemon /\ ~Repeat
  BY <1>3, ClientSteps
<1> QED BY <1>1, <1>2, <1>3

LEMMA StepsKept ==
  ASSUME LogTyped, LogTyped', Grows \/ Restarts, NEW c, Reached(c), NEW m, HasSteps(c, m)
  PROVE  HasSteps(c, m)'
<1>1. epoch \in Nat /\ c.epoch \in Nat /\ c.epoch <= epoch /\ c.after \in Nat
  BY DEF LogTyped, Reached, Cursors
<1>2. CASE Restarts
  BY <1>1, <1>2 DEF Restarts, HasSteps
<1>3. CASE Grows
  <2>1. SUFFICES ASSUME c.epoch = epoch, NEW j \in 1 .. m
        PROVE \E n \in c.after + 1 .. Len(log') : log'[n] = Event("progress", Script[j])
    BY <1>3 DEF HasSteps, Grows
  <2>2. Len(log) \in Nat /\ Len(log') \in Nat /\ Len(log) <= Len(log')
    BY <1>3 DEF Grows, LogTyped
  <2>3. PICK n \in c.after + 1 .. Len(log) : log[n] = Event("progress", Script[j])
    BY <2>1 DEF HasSteps
  <2>4. n \in 1 .. Len(log) /\ n \in c.after + 1 .. Len(log')
    BY <1>1, <2>2
  <2>5. log'[n] = log[n]
    BY <1>3, <2>4 DEF Grows
  <2> QED BY <2>3, <2>4, <2>5
<1> QED BY <1>2, <1>3

LEMMA WholeKept ==
  ASSUME LogTyped, LogTyped', Grows \/ Restarts, cmd' = cmd,
         NEW c, Reached(c), NEW req, NEW status, Whole(c, req, status)
  PROVE  Whole(c, req, status)'
<1>1. HasSteps(c, Len(Script)) => HasSteps(c, Len(Script))'
  <2>1. PICK m : m = Len(Script)
    OBVIOUS
  <2>2. HasSteps(c, m) => HasSteps(c, m)'
    BY StepsKept
  <2> QED BY <2>1, <2>2 DEF HasSteps
<1> QED BY <1>1 DEF Whole

LEMMA ProgressKept ==
  ASSUME LogTyped, LogTyped', Grows \/ Restarts, cmd' = cmd, flashed' = flashed,
         NEW op, Reached(op.start), Progressed(op)
  PROVE  Progressed(op)'
<1>1. Whole(op.start, op.req, op.status)'
  BY WholeKept DEF Progressed
<1>2. PICK m : m = flashed
  OBVIOUS
<1>3. HasSteps(op.start, m) => HasSteps(op.start, m)'
  BY StepsKept
<1>4. HasSteps(op.start, flashed) => HasSteps(op.start, flashed)'
  BY <1>2, <1>3 DEF HasSteps
<1> QED BY <1>1, <1>4 DEF Progressed

LEMMA ReportedMore ==
  ASSUME LogReported, Len(log) \in Nat, Len(log') \in Nat, Grows,
         \A n \in Len(log) + 1 .. Len(log') : Reported(log'[n])
  PROVE  LogReported'
<1>1. ASSUME NEW n \in 1 .. Len(log') PROVE Reported(log'[n])
  <2>1. CASE n \in 1 .. Len(log)
    BY <2>1 DEF LogReported, Grows
  <2>2. CASE n \notin 1 .. Len(log)
    <3>1. n \in Len(log) + 1 .. Len(log')
      BY <2>2
    <3> QED BY <3>1
  <2> QED BY <2>1, <2>2
<1> QED BY <1>1 DEF LogReported, Reported

LEMMA ReportedOne ==
  ASSUME LogTyped, LogReported, NEW e, Reported(e), log' = Append(log, e), epoch' = epoch
  PROVE  LogReported'
<1>1. Grows /\ Len(log') = Len(log) + 1 /\ log'[Len(log) + 1] = e /\ Len(log) \in Nat
  BY OneEvent DEF LogTyped
<1>2. \A n \in Len(log) + 1 .. Len(log') : n = Len(log) + 1
  BY <1>1
<1> QED BY <1>1, <1>2, ReportedMore

LEMMA ReportedStep ==
  ASSUME ClientAssumption, LogTyped, LogTyped', LogReported, flashed \in 0 .. Len(Script), [Next]_vars
  PROVE  LogReported'
<1>1. ASSUME log' = log PROVE LogReported'
  BY <1>1 DEF LogReported, Reported
<1>2. ASSUME NEW e, e.kind # "progress", log' = Append(log, e), epoch' = epoch PROVE LogReported'
  BY <1>2, ReportedOne DEF Reported
<1>3. CASE Daemon
  <2>1. ASSUME NEW f \in flights, Handle(f) PROVE LogReported'
    <3>1. CASE Admit(f)
      <4>1. PICK e : e = Event("operation_started", <<f.req>>)
        OBVIOUS
      <4> QED BY <1>2, <3>1, <4>1 DEF Admit, Event
    <3>2. CASE Replay(f) \/ Refuse(f)
      BY <1>1, <3>2 DEF Replay, Refuse, daemonVars
    <3> QED BY <2>1, <3>1, <3>2 DEF Handle
  <2>2. CASE Report
    <3>1. PICK e : e = Event("progress", Script[flashed + 1])
      OBVIOUS
    <3>2. log' = Append(log, e) /\ epoch' = epoch /\ flashed < Len(Script)
      BY <2>2, <3>1 DEF Report
    <3>3. Script \in Seq(ToSet(Script)) /\ Len(Script) \in Nat
      BY ScriptAssumption DEF Completes
    <3>4. Script[flashed + 1] \in ToSet(Script)
      BY <3>2, <3>3
    <3>5. Reported(e)
      BY <3>1, <3>4 DEF Reported, Event
    <3> QED BY <3>2, <3>5, ReportedOne
  <2>3. ASSUME NEW k \in DOMAIN ops, NEW ok \in BOOLEAN, Finish(k, ok) PROVE LogReported'
    <3>1. PICK e : e = Event("operation_finished", <<ops[k].req, ops'[k].status>>)
      OBVIOUS
    <3> QED BY <1>2, <2>3, <3>1 DEF Finish, Event
  <2>4. ASSUME NEW n \in OutputReads, Publish(n) PROVE LogReported'
    <3>1. PICK B : B = ToSet(cmd.output)
      OBVIOUS
    <3>2. PICK bytes, x :
            /\ bytes \in Seq(B) /\ log' = log \o x /\ Typed(B, x) /\ Len(x) \in Nat
            /\ RawBytes(x) = bytes /\ LogLines(x) = Feed(unfinished, bytes).lines
            /\ unfinished' = Feed(unfinished, bytes).pending
            /\ \A i \in 1 .. Len(x) : x[i].kind \in {"raw", "log"}
      BY <2>4, <3>1, PublishIs
    <3>3. Grows
      BY <2>4, LogPublish
    <3>4. /\ Len(log') = Len(log) + Len(x) /\ Len(log) \in Nat
          /\ \A i \in 1 .. Len(x) : log'[Len(log) + i] = x[i]
      <4>1. PICK S : S = ToSet(log) \cup ToSet(x)
        OBVIOUS
      <4>2. log \in Seq(S) /\ x \in Seq(S)
        BY SMTT(30), <3>2, <4>1 DEF LogTyped, Typed
      <4> QED BY <3>2, <4>2, JoinIs
    <3>5. ASSUME NEW n1 \in Len(log) + 1 .. Len(log') PROVE Reported(log'[n1])
      <4>1. PICK i \in 1 .. Len(x) : n1 = Len(log) + i
        <5>1. n1 - Len(log) \in 1 .. Len(x) /\ n1 = Len(log) + (n1 - Len(log))
          BY <3>2, <3>4
        <5> QED BY <5>1
      <4>2. log'[n1] = x[i] /\ x[i].kind \in {"raw", "log"}
        BY <3>2, <3>4, <4>1
      <4> QED BY <4>2 DEF Reported
    <3> QED BY <3>2, <3>3, <3>4, <3>5, ReportedMore
  <2>5. CASE (\E k \in DOMAIN ops : Forget(k)) \/ Evict \/ AnswerEvents
    BY <1>1, <2>5 DEF Forget, Evict, AnswerEvents, daemonVars
  <2>6. CASE Restart
    <3>1. log' = <<>>
      BY <2>6 DEF Restart
    <3> QED BY <3>1 DEF LogReported
  <2>7. CASE Port
    <3>1. ASSUME NEW kind \in {"reconnecting", "reconnected"}, log' = Append(log, Event(kind, <<>>))
          PROVE  LogReported'
      <4>1. PICK e : e = Event(kind, <<>>)
        OBVIOUS
      <4>2. e.kind # "progress" /\ log' = Append(log, e) /\ epoch' = epoch
        BY <2>7, <3>1, <4>1, PortSteps DEF Event
      <4> QED BY <1>2, <4>2
    <3> QED BY <1>1, <2>7, <3>1, PortSteps
  <2> QED BY <1>3, <2>1, <2>2, <2>3, <2>4, <2>5, <2>6, <2>7 DEF Daemon
<1>4. CASE Repeat
  BY <1>1, <1>4 DEF Repeat
<1>5. CASE ~Daemon /\ ~Repeat
  BY <1>1, <1>5, ClientSteps DEF daemonVars
<1> QED BY <1>3, <1>4, <1>5

LEMMA ProgressSame ==
  ASSUME LogTyped, LogTyped', Grows \/ Restarts, cmd' = cmd, flashed' = flashed, OpsTrue, OpsProgress,
         DOMAIN ops' \subseteq DOMAIN ops, \A k \in DOMAIN ops' : ops'[k] = ops[k]
  PROVE  OpsProgress'
<1>1. ASSUME NEW k \in DOMAIN ops', NEW op, op = ops'[k] PROVE Progressed(op)'
  <2>1. Progressed(op) /\ Reached(op.start)
    BY <1>1 DEF OpsProgress, OpsTrue, OpTrue
  <2> QED BY <2>1, ProgressKept
<1> QED BY <1>1 DEF OpsProgress

LEMMA ProgressAdmits ==
  ASSUME LogTyped, LogTyped', Grows \/ Restarts, cmd' = cmd, OpsTrue, OpsProgress, NEW f, Admit(f)
  PROVE  OpsProgress'
<1>1. PICK op : op = [req |-> f.req, status |-> "running", input |-> f.input,
                      start |-> [epoch |-> epoch, after |-> Len(log) + 1]]
  OBVIOUS
<1>2. /\ ops' = [k \in DOMAIN ops \cup {f.req} |-> IF k = f.req THEN op ELSE ops[k]]
      /\ flashed' = (IF Exclusive(f.req) THEN 0 ELSE flashed) /\ ~Busy
  BY <1>1 DEF Admit, RequestKey
<1>3. op.req = f.req /\ op.status = "running"
  BY <1>1
<1>4. Progressed(op)'
  <2>1. cmd.kind = "flash" /\ op.req = 0 => flashed' = 0
    BY <1>2, <1>3 DEF Exclusive
  <2>2. 1 .. 0 = {}
    OBVIOUS
  <2>3. flashed' = 0 => HasSteps(op.start, flashed)'
    BY <2>2 DEF HasSteps
  <2> QED BY <1>3, <2>1, <2>3 DEF Progressed, Whole
<1>5. ASSUME NEW k \in DOMAIN ops', NEW o, o = ops'[k] PROVE Progressed(o)'
  <2>1. CASE k = f.req
    BY <1>2, <1>4, <1>5, <2>1
  <2>2. CASE k # f.req
    <3>1. k \in DOMAIN ops /\ o = ops[k]
      BY <1>2, <1>5, <2>2
    <3>2. Reached(o.start) /\ Whole(o.start, o.req, o.status) /\ o.status # "running"
      BY <1>2, <3>1 DEF OpsTrue, OpTrue, OpsProgress, Progressed, Busy
    <3>3. Whole(o.start, o.req, o.status)'
      BY <3>2, WholeKept
    <3> QED BY <3>2, <3>3 DEF Progressed
  <2> QED BY <2>1, <2>2
<1> QED BY <1>5 DEF OpsProgress

LEMMA ProgressReports ==
  ASSUME LogTyped, LogTyped', Grows \/ Restarts, OpsTrue, OpsProgress,
         flashed \in 0 .. Len(Script), Report
  PROVE  OpsProgress'
<1>1. PICK e : e = Event("progress", Script[flashed + 1])
  OBVIOUS
<1>2. log' = Append(log, e) /\ UNCHANGED <<epoch, ops, cmd>> /\ flashed' = flashed + 1
  BY <1>1 DEF Report, clientVars
<1>3. Len(log') = Len(log) + 1 /\ log'[Len(log) + 1] = e /\ Len(log) \in Nat
  BY <1>2, OneEvent DEF LogTyped
<1>4. ASSUME NEW k \in DOMAIN ops', NEW op, op = ops'[k] PROVE Progressed(op)'
  <2>1. Progressed(op) /\ Reached(op.start)
    BY <1>2, <1>4 DEF OpsProgress, OpsTrue, OpTrue
  <2>2. Whole(op.start, op.req, op.status)'
    BY <1>2, <2>1, WholeKept DEF Progressed
  <2>3. ASSUME HasSteps(op.start, flashed) PROVE HasSteps(op.start, flashed)'
    <3>1. PICK m \in Nat : m = flashed
      BY ScriptAssumption DEF Completes
    <3>2. PICK c : c = op.start
      OBVIOUS
    <3>3. HasSteps(c, m)'
      BY <2>1, <2>3, <3>1, <3>2, StepsKept
    <3>4. ASSUME c.epoch = epoch', NEW j \in 1 .. m + 1
          PROVE \E n \in c.after + 1 .. Len(log') : log'[n] = Event("progress", Script[j])
      <4>1. CASE j \in 1 .. m
        BY <3>3, <3>4, <4>1 DEF HasSteps
      <4>2. CASE j \notin 1 .. m
        <5>1. j = m + 1
          BY <4>2
        <5>2. c.after \in Nat /\ c.after <= Len(log)
          BY <1>2, <2>1, <3>2, <3>4 DEF Reached, Cursors
        <5>3. Len(log) + 1 \in c.after + 1 .. Len(log')
          BY <1>3, <5>2
        <5> QED BY <1>1, <1>3, <3>1, <5>1, <5>3
      <4> QED BY <4>1, <4>2
    <3>5. HasSteps(c, m + 1)'
      BY <3>4 DEF HasSteps
    <3> QED BY <1>2, <3>1, <3>2, <3>5 DEF HasSteps
  <2> QED BY <1>2, <2>1, <2>2, <2>3 DEF Progressed
<1> QED BY <1>4 DEF OpsProgress

LEMMA ProgressFinishes ==
  ASSUME LogTyped, LogTyped', Grows \/ Restarts, cmd' = cmd, OpsTrue, OpsProgress,
         NEW key \in DOMAIN ops, NEW ok \in BOOLEAN, Finish(key, ok)
  PROVE  OpsProgress'
<1>1. PICK op : op = ops[key]
  OBVIOUS
<1>2. PICK status : status = IF ok THEN "succeeded" ELSE "failed"
  OBVIOUS
<1>3. ops' = [ops EXCEPT ![key].status = status] /\ flashed' = flashed
  BY <1>2 DEF Finish
<1>4. DOMAIN ops' = DOMAIN ops /\ \A k \in DOMAIN ops : k # key => ops'[k] = ops[k]
  BY <1>3
<1>5. ops'[key] = [op EXCEPT !.status = status]
  BY <1>1, <1>3
<1>6. op.status = "running" /\ (ok /\ op.req = 0 /\ cmd.kind = "flash" => flashed = Len(Script))
  BY <1>1 DEF Finish
<1>7. Progressed(op) /\ Reached(op.start)
  BY <1>1 DEF OpsProgress, OpsTrue, OpTrue
<1>8. Progressed(op)'
  BY <1>3, <1>7, ProgressKept
<1>9. ASSUME NEW k \in DOMAIN ops', NEW o, o = ops'[k] PROVE Progressed(o)'
  <2>1. CASE k = key
    <3>1. o = [op EXCEPT !.status = status]
      BY <1>5, <1>9, <2>1
    <3>2. o.req = op.req
      BY <3>1
    <3>3. o.start = op.start
      BY <3>1
    <3>4. o.status \in {status, op.status}
      BY <3>1
    <3>5. cmd'.kind = "flash" /\ op.req = 0 => HasSteps(op.start, flashed)'
      BY <1>6, <1>8, <1>7 DEF Progressed
    <3>6. ok /\ cmd'.kind = "flash" /\ op.req = 0 => HasSteps(op.start, Len(Script))'
      BY <1>3, <1>6, <3>5 DEF HasSteps
    <3>7. (o.status = "succeeded" => ok) /\ (o.status = "running" => op.status = "running")
      BY <1>2, <1>6, <3>4
    <3> QED BY <3>2, <3>3, <3>5, <3>6, <3>7 DEF Progressed, Whole, HasSteps
  <2>2. CASE k # key
    <3>1. k \in DOMAIN ops /\ o = ops[k]
      BY <1>4, <1>9, <2>2
    <3>2. Progressed(o) /\ Reached(o.start)
      BY <3>1 DEF OpsProgress, OpsTrue, OpTrue
    <3> QED BY <1>3, <3>2, ProgressKept
  <2> QED BY <2>1, <2>2
<1> QED BY <1>9 DEF OpsProgress

LEMMA ProgressStep ==
  ASSUME LogTyped, LogTyped', Grows \/ Restarts, OpsTrue, OpsProgress,
         flashed \in 0 .. Len(Script), [Next]_vars
  PROVE  OpsProgress' /\ flashed' \in 0 .. Len(Script)
<1>1. cmd' = cmd
  BY CmdSame
<1>2. ASSUME UNCHANGED <<ops, flashed>> PROVE OpsProgress' /\ flashed' \in 0 .. Len(Script)
  BY <1>1, <1>2, ProgressSame
<1>3. Len(Script) \in Nat
  BY ScriptAssumption DEF Completes
<1>4. CASE Daemon
  <2>1. ASSUME NEW f \in flights, Handle(f) PROVE OpsProgress' /\ flashed' \in 0 .. Len(Script)
    <3>1. CASE Admit(f)
      <4>1. flashed' \in 0 .. Len(Script)
        BY <1>3, <3>1 DEF Admit
      <4> QED BY <1>1, <3>1, <4>1, ProgressAdmits
    <3>2. CASE Replay(f) \/ Refuse(f)
      BY <1>2, <3>2 DEF Replay, Refuse, daemonVars
    <3> QED BY <2>1, <3>1, <3>2 DEF Handle
  <2>2. CASE Report
    <3>1. flashed' \in 0 .. Len(Script)
      BY <1>3, <2>2 DEF Report
    <3> QED BY <2>2, <3>1, ProgressReports
  <2>3. ASSUME NEW k \in DOMAIN ops, NEW ok \in BOOLEAN, Finish(k, ok)
        PROVE OpsProgress' /\ flashed' \in 0 .. Len(Script)
    <3>1. flashed' = flashed
      BY <2>3 DEF Finish
    <3> QED BY <1>1, <2>3, <3>1, ProgressFinishes
  <2>4. ASSUME NEW k \in DOMAIN ops, Forget(k) PROVE OpsProgress' /\ flashed' \in 0 .. Len(Script)
    BY <1>1, <2>4, ProgressSame DEF Forget
  <2>5. CASE (\E n \in OutputReads : Publish(n)) \/ Port \/ Evict \/ AnswerEvents
    BY <1>2, <2>5, PortSteps DEF Publish, Evict, AnswerEvents, daemonVars
  <2>6. CASE Restart
    <3>1. DOMAIN ops' = {} /\ flashed' = 0
      BY <2>6 DEF Restart
    <3> QED BY <1>3, <3>1 DEF OpsProgress
  <2> QED BY <1>4, <2>1, <2>2, <2>3, <2>4, <2>5, <2>6 DEF Daemon
<1>5. CASE Repeat
  BY <1>2, <1>5 DEF Repeat
<1>6. CASE ~Daemon /\ ~Repeat
  BY <1>2, <1>6, ClientSteps DEF daemonVars
<1> QED BY <1>4, <1>5, <1>6

LEMMA CallWholeStep ==
  ASSUME LogTyped, LogTyped', Grows \/ Restarts, CallTrue, OpsTrue', OpsProgress',
         Whole(call.start, call.req, call.status), [Next]_vars
  PROVE  Whole(call.start, call.req, call.status)'
<1>1. Shaped
  BY DEF CallTrue, Shaped
<1>2. UNCHANGED call \/ Posts \/ Told
  BY <1>1, CallMoves
<1>3. PICK d : d = call'
  OBVIOUS
<1>4. CASE UNCHANGED call
  <2>1. Reached(d.start) /\ Whole(d.start, d.req, d.status)
    BY <1>3, <1>4 DEF CallTrue
  <2>2. Whole(d.start, d.req, d.status)'
    BY <2>1, CmdSame, WholeKept
  <2> QED BY <1>3, <2>2 DEF Whole, HasSteps
<1>5. CASE Posts
  BY <1>5 DEF Posts, Whole
<1>6. CASE Told
  <2>1. PICK k \in DOMAIN ops' :
          call'.req = k /\ call'.start = ops'[k].start /\ call'.status = ops'[k].status
    BY <1>6 DEF Told
  <2>2. PICK op : op = ops'[k]
    OBVIOUS
  <2>3. op.req = k /\ Progressed(op)'
    BY <2>2 DEF OpsTrue, OpTrue, OpsProgress
  <2>4. Whole(op.start, op.req, op.status)'
    BY <2>3 DEF Progressed
  <2>5. call'.start = op.start /\ call'.req = op.req /\ call'.status = op.status
    BY <2>1, <2>2, <2>3
  <2> QED BY <2>4, <2>5 DEF Whole, HasSteps
<1> QED BY <1>2, <1>4, <1>5, <1>6

LEMMA FlashStart == ASSUME Init PROVE FlashTrue
<1>1. Len(Script) \in Nat /\ flashed = 0 /\ DOMAIN ops = {} /\ call.status = "idle" /\ log = <<>>
  BY ScriptAssumption, IdleIs DEF Completes, Init
<1> QED BY <1>1 DEF FlashTrue, LogReported, OpsProgress, Whole

LEMMA FlashStep ==
  ASSUME ClientAssumption, ReportInv, ReportInv', FlashTrue, [Next]_vars PROVE FlashTrue'
<1>1. LogTyped /\ LogTyped' /\ OpsTrue /\ OpsTrue' /\ CallTrue
  BY DEF ReportInv
<1>2. flashed \in 0 .. Len(Script) /\ LogReported /\ OpsProgress /\ Whole(call.start, call.req, call.status)
  BY DEF FlashTrue
<1>3. Grows \/ Restarts
  BY <1>1, LogStep
<1>4. OpsProgress' /\ flashed' \in 0 .. Len(Script)
  BY <1>1, <1>2, <1>3, ProgressStep
<1>5. LogReported'
  BY <1>1, <1>2, ReportedStep
<1>6. Whole(call.start, call.req, call.status)'
  BY <1>1, <1>2, <1>3, <1>4, CallWholeStep
<1> QED BY <1>4, <1>5, <1>6 DEF FlashTrue

-----------------------------------------------------------------------------
(* What the client has shown. *)

NoView == [line |-> FALSE, last |-> NoPercent, shown |-> <<>>]

(* Everything that was taken has been shown, until the operation has ended. *)
ViewTrue ==
  /\ cmd.json \/ pc \in {"submit", "posting", "polling"} => view = NoView
  /\ pc = "polling" => cmd.kind # "flash"
  /\ pc = "flashing" /\ ~cmd.json /\ start.epoch = epoch =>
       /\ view \in Views /\ Lasting(view)
       /\ \A n \in start.after + 1 .. cursor.after : Seen(view, log[n])

AllShown ==
  \A i \in DOMAIN Script : Script[i].action = "segment_started" =>
    /\ ShownIn(view, "segment_progress", Script[i].offset, 100)
    /\ ShownIn(view, "segment_finished", Script[i].offset, 100)
FinalTrue ==
  (cmd.kind = "flash" /\ start.epoch = epoch /\ (pc = "capture" \/ verdict \in {"finished", "operation failed"})) =>
    /\ view.line = FALSE /\ through.after \in 0 .. Len(log)
    /\ \E n \in start.after + 1 .. through.after : log[n].kind = "operation_finished"
    /\ ~cmd.json /\ verdict # "operation failed" => AllShown

StillShown == UNCHANGED <<start, cursor, through, printed, rawlog, view>>
ShownMoves ==
  \/ StillShown /\ UNCHANGED <<pc, verdict>>
  \/ StillShown /\ pc' \in {"done", "failed"} /\ verdict' \in {"failed", "refused", "exit", "elapsed", "saved"}
  \/ StillShown /\ pc = "submit" /\ pc' = "posting" /\ verdict' = verdict
  \/ /\ pc = "posting" /\ pc' = IF cmd.kind = "flash" THEN "flashing" ELSE "polling"
     /\ start' = call.start /\ (cmd.kind = "flash" => cursor' = call.start)
     /\ UNCHANGED <<verdict, through, printed, rawlog, view>>
  \/ TakeFlashEvents /\ asked.state = "answered"
  \/ Waited
  \/ Drain /\ Served(cursor)
  \/ TakeEvents /\ asked.state = "answered"
  \/ Repeat

LEMMA ShownMovesAlways == ASSUME [Next]_vars PROVE ShownMoves
<1>1. ASSUME StillShown, UNCHANGED <<pc, verdict>> PROVE ShownMoves
  BY <1>1 DEF ShownMoves
<1>2. ASSUME StillShown, NEW how \in {"failed", "refused", "exit", "elapsed", "saved"}, End(how) PROVE ShownMoves
  BY <1>2 DEF ShownMoves, End
<1>3. CASE Daemon
  <2>1. CASE \E f \in flights : Handle(f)
    BY <1>1, <2>1 DEF Handle, shownVars, StillShown
  <2>2. CASE Report \/ (\E n \in OutputReads : Publish(n)) \/ Evict \/ Port
    BY <1>1, <2>2, PortSteps DEF Report, Publish, Evict, clientVars, shownVars, StillShown
  <2>3. CASE (\E k \in DOMAIN ops : Forget(k)) \/ \E k \in DOMAIN ops, ok \in BOOLEAN : Finish(k, ok)
    BY <1>1, <2>3 DEF Forget, Finish, clientVars, shownVars, StillShown
  <2>4. CASE Restart \/ AnswerEvents
    BY <1>1, <2>4 DEF Restart, AnswerEvents, StillShown
  <2> QED BY <1>3, <2>1, <2>2, <2>3, <2>4 DEF Daemon
<1>4. CASE Proceed
  <2>1. CASE Submit
    <3>1. StillShown
      BY <2>1 DEF Submit, shownVars, StillShown
    <3>2. CASE End("failed")
      BY <1>2, <3>1, <3>2
    <3>3. CASE pc' = "posting" /\ verdict' = verdict
      BY <2>1, <3>1, <3>3 DEF Submit, ShownMoves
    <3> QED BY <2>1, <3>2, <3>3 DEF Submit
  <2>2. CASE Resend \/ StartWrite
    BY <1>1, <2>2 DEF Resend, StartWrite, shownVars, StillShown
  <2>3. CASE GiveUp \/ GivesUpWaiting
    BY <1>2, <2>3 DEF GiveUp, GivesUpWaiting, shownVars, StillShown
  <2>4. CASE Wrote
    BY <1>1, <1>2, <2>4 DEF Wrote, shownVars, StillShown
  <2>5. CASE Leave \/ Elapsed
    BY <1>2, <2>5 DEF Leave, Elapsed, shownVars, StillShown
  <2>6. CASE OpenOutput
    BY <1>1, <1>2, <2>6 DEF OpenOutput, shownVars, StillShown
  <2>7. CASE \E end \in {"eof", "error"} : StopTransfer(end)
    BY <1>2, <2>7 DEF StopTransfer, shownVars, StillShown
  <2>8. CASE Submitted
    <3>1. CASE call.status = "refused"
      BY <1>2, <2>8, <3>1 DEF Submitted, StillShown
    <3>2. CASE call.status # "refused"
      BY <2>8, <3>2 DEF Submitted, ShownMoves
    <3> QED BY <3>1, <3>2
  <2>9. CASE Waited
    BY <2>9 DEF ShownMoves
  <2>10. CASE Drain
    <3>1. CASE ~Served(cursor)
      BY <1>2, <2>10, <3>1 DEF Drain, StillShown
    <3> QED BY <2>10, <3>1 DEF ShownMoves
  <2> QED BY <1>4, <2>1, <2>2, <2>3, <2>4, <2>5, <2>6, <2>7, <2>8, <2>9, <2>10 DEF Proceed
<1>5. CASE Poll
  BY <1>1, <1>2, <1>5 DEF Poll, shownVars, StillShown
<1>6. CASE Transfer \/ Interrupt
  BY <1>1, <1>2, <1>6 DEF Transfer, Interrupt, shownVars, StillShown
<1>7. CASE TakeFlashEvents
  <2>1. CASE asked.state = "answered"
    BY <1>7, <2>1 DEF ShownMoves
  <2>2. CASE asked.state # "answered"
    BY <1>2, <1>7, <2>2 DEF TakeFlashEvents, StillShown
  <2> QED BY <2>1, <2>2
<1>8. CASE TakeEvents
  <2>1. CASE asked.state = "answered"
    BY <1>8, <2>1 DEF ShownMoves
  <2>2. CASE asked.state # "answered"
    BY <1>2, <1>8, <2>2 DEF TakeEvents, StillShown
  <2> QED BY <2>1, <2>2
<1>9. CASE (\E n \in 1 .. ReadSize : ReadInput(n)) \/ ReceiveInput \/ SomebodyWrites
  BY <1>1, <1>9 DEF ReadInput, ReceiveInput, SomebodyWrites, shownVars, StillShown
<1>10. CASE Repeat
  BY <1>10 DEF ShownMoves
<1>11. CASE UNCHANGED vars
  BY <1>1, <1>11 DEF vars, shownVars, StillShown
<1> QED BY <1>3, <1>4, <1>5, <1>6, <1>7, <1>8, <1>9, <1>10, <1>11 DEF Next

(* The events behind a cursor that is served.                               *)
LEMMA AfterIs ==
  ASSUME LogTyped, AskedTrue, Served(cursor), NEW batch, batch = After(cursor)
  PROVE  /\ batch \in Seq(ToSet(log)) /\ BatchTrue(cursor, batch)
         /\ cursor.epoch = epoch /\ cursor.after \in 0 .. Len(log)
         /\ Len(batch) = Len(log) - cursor.after
         /\ Behind(cursor, batch).epoch = epoch /\ Behind(cursor, batch).after = Len(log)
<1>1. cursor.epoch = epoch /\ cursor.after \in 0 .. Len(log) /\ Len(log) \in Nat /\ Reached(cursor)
  BY DEF Served, AskedTrue, Reached, Cursors, LogTyped
<1>2. PICK n \in 0 .. Len(log) : n = cursor.after
  BY <1>1
<1>3. batch = SubSeq(log, n + 1, Len(log))
  BY <1>2 DEF After
<1>4. /\ batch \in Seq(ToSet(log)) /\ DOMAIN batch = 1 .. Len(log) - n
      /\ \A i \in 1 .. Len(log) - n : i + n \in DOMAIN log /\ batch[i] = log[i + n]
  <2>1. log \in Seq(ToSet(log)) /\ n \in 0 .. Len(log)
    BY <1>2 DEF LogTyped
  <2>2. /\ SubSeq(log, n + 1, Len(log)) \in Seq(ToSet(log))
        /\ DOMAIN SubSeq(log, n + 1, Len(log)) = 1 .. Len(log) - n
        /\ \A i \in 1 .. Len(log) - n :
             i + n \in DOMAIN log /\ SubSeq(log, n + 1, Len(log))[i] = log[i + n]
    BY <2>1, SuffixOf
  <2> QED BY <1>3, <2>2
<1>5. Len(batch) = Len(log) - n
  <2>1. Len(log) - n \in Nat
    BY <1>1, <1>2
  <2>2. Len(batch) \in Nat /\ DOMAIN batch = 1 .. Len(batch)
    BY <1>4
  <2> QED BY <1>4, <2>1, <2>2
<1>6. BatchTrue(cursor, batch)
  BY <1>1, <1>2, <1>4, <1>5 DEF BatchTrue
<1>7. Behind(cursor, batch).epoch = cursor.epoch /\ Behind(cursor, batch).after = cursor.after + Len(batch)
  BY <1>1, <1>4, <1>6, BehindReached
<1> QED BY <1>1, <1>2, <1>4, <1>5, <1>6, <1>7

(* What has been taken is shown with what was.                              *)
LEMMA TakenShown ==
  ASSUME LogTyped, LogReported, StartTrue, AskedTrue, CursorTrue, ViewTrue, cmd.tty \in BOOLEAN,
         pc = "flashing", ~cmd.json, start.epoch = epoch,
         NEW S, NEW batch \in Seq(S), BatchTrue(cursor, batch), NEW w, w = Showing(view, batch)
  PROVE  /\ w \in Views /\ Lasting(w)
         /\ \A n \in start.after + 1 .. cursor.after + Len(batch) : Seen(w, log[n])
<1>1. /\ start.after \in Nat /\ cursor.after \in Nat /\ start.after <= cursor.after
      /\ cursor.epoch = epoch /\ Len(log) \in Nat
  BY DEF StartTrue, AskedTrue, CursorTrue, Reached, Cursors, LogTyped
<1>2. PICK m \in Nat : m = Len(batch)
  OBVIOUS
<1>3. cursor.after + m <= Len(log) /\ \A i \in 1 .. m : batch[i] = log[cursor.after + i]
  BY <1>1, <1>2 DEF BatchTrue
<1>4. \A i \in 1 .. m : Reported(batch[i])
  <2>1. \A i \in 1 .. m : cursor.after + i \in 1 .. Len(log)
    BY <1>1, <1>3
  <2> QED BY <1>3, <2>1 DEF LogReported
<1>5. /\ view \in Views /\ Lasting(view)
      /\ \A n \in start.after + 1 .. cursor.after : Seen(view, log[n])
  BY DEF ViewTrue
<1>6. /\ w \in Views /\ Lasting(w) /\ Better(view, w)
      /\ \A i \in 1 .. m : Seen(w, batch[i])
  BY <1>2, <1>4, <1>5, ShowingAll
<1>7. ASSUME NEW n \in start.after + 1 .. cursor.after + m PROVE Seen(w, log[n])
  <2>1. CASE n <= cursor.after
    <3>1. n \in start.after + 1 .. cursor.after
      BY <1>1, <2>1
    <3> QED BY <1>5, <1>6, <3>1 DEF Better, Seen
  <2>2. CASE n > cursor.after
    <3>1. PICK i \in 1 .. m : n = cursor.after + i
      <4>1. n - cursor.after \in 1 .. m /\ n = cursor.after + (n - cursor.after)
        BY <1>1, <2>2
      <4> QED BY <4>1
    <3> QED BY <1>3, <1>6, <3>1
  <2> QED BY <1>1, <2>1, <2>2
<1> QED BY <1>2, <1>6, <1>7

LEMMA NoViewIs ==
  /\ NoView.line = FALSE /\ NoView \in Views /\ Lasting(NoView)
<1>1. NoView.last = NoPercent /\ \A offset : NoPercent # <<offset, 100>>
  BY DEF NoView, NoPercent
<1>2. <<>> \in Seq(ToSet(Script)) /\ NoPercent \in Percents
  BY DEF Percents
<1>3. NoView \in Views
  BY <1>2 DEF NoView, Views
<1> QED BY <1>1, <1>3 DEF NoView, Lasting

LEMMA EpochKept ==
  ASSUME LogTyped, Grows \/ Restarts, NEW c, Reached(c), c.epoch = epoch'
  PROVE  c.epoch = epoch /\ Grows
BY DEF LogTyped, Reached, Cursors, Grows, Restarts

LEMMA ViewStep ==
  ASSUME LogTyped, LogTyped', Grows \/ Restarts, LogReported, CallTrue, StartTrue, AskedTrue, CursorTrue,
         ViewTrue, [Next]_vars
  PROVE  ViewTrue'
<1>1. cmd' = cmd /\ ShownMoves
  BY CmdSame, ShownMovesAlways
<1>2. cmd \in Commands /\ cmd.tty \in BOOLEAN
  BY ScriptAssumption DEF LogTyped
<1> DEFINE Followed ==
             pc' = "flashing" /\ ~cmd.json /\ start'.epoch = epoch' =>
               /\ view' \in Views /\ Lasting(view')
               /\ \A n \in start'.after + 1 .. cursor'.after : Seen(view', log'[n])
           Idles == cmd.json \/ pc' \in {"submit", "posting", "polling"} => view' = NoView
           Others == pc' = "polling" => cmd.kind # "flash"
<1>3. ASSUME Followed, Idles, Others PROVE ViewTrue'
  BY <1>1, <1>3 DEF ViewTrue, Lasting, Seen
<1>4. ASSUME pc' # "flashing" PROVE Followed
  BY <1>4
<1>5. cmd.json \/ pc \in {"submit", "posting", "polling"} => view = NoView
  BY DEF ViewTrue
<1>6. pc = "polling" => cmd.kind # "flash"
  BY DEF ViewTrue
<1>7. CASE StillShown /\ UNCHANGED <<pc, verdict>>
  <2>1. ASSUME pc = "flashing", ~cmd.json, start.epoch = epoch' PROVE Followed
    <3>1. Reached(start)
      BY DEF StartTrue
    <3>2. start.epoch = epoch /\ Grows
      BY <2>1, <3>1, EpochKept
    <3>3. start.epoch = epoch /\ Grows /\ Len(log) \in Nat /\ start.after \in Nat
      BY <3>1, <3>2 DEF LogTyped, Reached, Cursors
    <3>4. cursor.after \in Nat /\ cursor.after <= Len(log)
      BY <2>1, <3>3 DEF AskedTrue, CursorTrue, Reached, Cursors
    <3>5. view \in Views /\ Lasting(view) /\ \A n \in start.after + 1 .. cursor.after : Seen(view, log[n])
      BY <2>1, <3>3 DEF ViewTrue
    <3>6. \A n \in start.after + 1 .. cursor.after : log'[n] = log[n]
      <4>1. \A n \in start.after + 1 .. cursor.after : n \in 1 .. Len(log)
        BY <3>3, <3>4
      <4> QED BY <3>3, <4>1 DEF Grows
    <3> QED BY <1>7, <3>5, <3>6 DEF StillShown
  <2>2. Followed
    BY <1>7, <2>1 DEF StillShown
  <2> HIDE DEF Followed
  <2> QED BY <1>3, <1>5, <1>6, <1>7, <2>2 DEF StillShown
<1>8. CASE StillShown /\ (pc' \in {"done", "failed"} \/ (pc = "submit" /\ pc' = "posting"))
  BY <1>3, <1>4, <1>5, <1>8 DEF StillShown
<1>9. CASE /\ pc = "posting" /\ pc' = IF cmd.kind = "flash" THEN "flashing" ELSE "polling"
           /\ start' = call.start /\ (cmd.kind = "flash" => cursor' = call.start)
           /\ UNCHANGED <<verdict, through, printed, rawlog, view>>
  <2>1. view' = NoView /\ view' \in Views /\ Lasting(view')
    BY <1>5, <1>9, NoViewIs
  <2>2. ASSUME pc' = "flashing" PROVE start' = cursor' /\ start'.after \in Nat
    BY <1>9, <2>2 DEF CallTrue, Reached, Cursors
  <2>3. Followed
    BY <2>1, <2>2
  <2>4. Others
    BY <1>9
  <2> HIDE DEF Followed
  <2> QED BY <1>3, <2>1, <2>3, <2>4
<1>10. CASE TakeFlashEvents /\ asked.state = "answered"
  <2>1. PICK batch : batch = asked.batch
    OBVIOUS
  <2>2. /\ pc = "flashing" /\ pc' = pc /\ UNCHANGED <<epoch, log, start>>
        /\ cursor' = Behind(cursor, batch) /\ view' = (IF cmd.json THEN view ELSE Showing(view, batch))
    BY <1>10, <2>1 DEF TakeFlashEvents, WriteFlashEvents, daemonVars, End
  <2>3. batch \in Seq(ToSet(batch)) /\ BatchTrue(cursor, batch) /\ Reached(cursor)
    BY <1>10, <2>1 DEF AskedTrue
  <2>4. cursor'.after = cursor.after + Len(batch)
    BY <2>2, <2>3, BehindReached
  <2>5. Followed
    <3>1. ASSUME ~cmd.json, start.epoch = epoch PROVE Followed
      <4>1. PICK w : w = Showing(view, batch)
        OBVIOUS
      <4>2. /\ w \in Views /\ Lasting(w)
            /\ \A n \in start.after + 1 .. cursor.after + Len(batch) : Seen(w, log[n])
        BY <1>2, <2>2, <2>3, <3>1, <4>1, TakenShown
      <4>3. view' = w
        BY <2>2, <3>1, <4>1
      <4> QED BY <2>2, <2>4, <4>2, <4>3
    <3> QED BY <2>2, <3>1
  <2> HIDE DEF Followed
  <2> QED BY <1>3, <1>5, <2>2, <2>5
<1>11. CASE Waited
  <2>1. view' = view /\ pc' \in {"capture", "download", "done", "failed"}
    BY <1>11 DEF Waited, Continue, AfterOperation, End
  <2> QED BY <1>3, <1>4, <1>5, <2>1
<1>12. CASE Drain /\ Served(cursor)
  <2>1. (cmd.json => view' = view) /\ pc' \in {"capture", "download", "done", "failed"}
    BY <1>12 DEF Drain, Continue, AfterOperation, End
  <2> QED BY <1>3, <1>4, <1>5, <2>1
<1>13. CASE TakeEvents /\ asked.state = "answered"
  <2>1. view' = view /\ pc' \in {"capture", "done", "failed"}
    BY <1>13 DEF TakeEvents, Waiting, End
  <2> QED BY <1>3, <1>4, <1>5, <2>1
<1>14. CASE Repeat
  <2>1. view' = NoView /\ pc' = "submit"
    BY <1>14 DEF Repeat, NoView
  <2> QED BY <1>3, <1>4, <2>1
<1>15. CASE StillShown /\ pc' \in {"done", "failed"} /\ verdict' \in {"failed", "refused", "exit", "elapsed", "saved"}
  BY <1>8, <1>15
<1>16. CASE StillShown /\ pc = "submit" /\ pc' = "posting" /\ verdict' = verdict
  BY <1>8, <1>16
<1> HIDE DEF Followed, Idles, Others
<1> QED BY <1>1, <1>7, <1>9, <1>10, <1>11, <1>12, <1>13, <1>14, <1>15, <1>16 DEF ShownMoves

(* When a flash is over, its last event and all its steps have been taken.  *)
LEMMA FinalDrain ==
  ASSUME LogTyped, LogReported, CallTrue, StartTrue, AskedTrue, CursorTrue, ViewTrue,
         Whole(call.start, call.req, call.status), cmd' = cmd, cmd.kind = "flash", start.epoch = epoch,
         Drain, Served(cursor)
  PROVE  FinalTrue'
<1>1. PICK batch : batch = After(cursor)
  OBVIOUS
<1>2. /\ pc = "flashing" /\ UNCHANGED <<start, epoch, log>> /\ through' = Behind(cursor, batch)
      /\ view' = (IF cmd.json THEN view ELSE [Showing(view, batch) EXCEPT !.line = FALSE])
      /\ call.status \in {"succeeded", "failed"}
  BY <1>1 DEF Drain, daemonVars
<1>3. verdict' = "operation failed" \/ call.status = "succeeded"
  BY DEF Drain, End
<1>4. /\ batch \in Seq(ToSet(log)) /\ BatchTrue(cursor, batch) /\ cursor.epoch = epoch
      /\ cursor.after + Len(batch) = Len(log) /\ Len(log) \in Nat /\ through'.after = Len(log)
  BY <1>1, <1>2, AfterIs DEF LogTyped
<1>5. call.req = 0 /\ call.start = start /\ start.after \in Nat
  BY <1>2 DEF StartTrue, Reached, Cursors
<1>6. \E n \in start.after + 1 .. Len(log) : log[n].kind = "operation_finished"
  <2>1. Ended(start, 0, call.status)
    BY <1>5 DEF CallTrue
  <2>2. PICK n \in start.after + 1 .. Len(log) :
          log[n] = Event("operation_finished", <<0, call.status>>)
    BY <1>2, <2>1 DEF Ended
  <2> QED BY <2>2 DEF Event
<1>7. PICK w : w = Showing(view, batch)
  OBVIOUS
<1>8. ASSUME ~cmd.json
      PROVE /\ w \in Views /\ \A n \in start.after + 1 .. Len(log) : Seen(w, log[n])
            /\ view'.line = FALSE /\ view'.shown = w.shown
  <2>1. cmd.tty \in BOOLEAN
    BY ScriptAssumption DEF LogTyped
  <2>2. w \in Views /\ \A n \in start.after + 1 .. cursor.after + Len(batch) : Seen(w, log[n])
    BY <1>2, <1>4, <1>7, <1>8, <2>1, TakenShown
  <2>3. view' = [w EXCEPT !.line = FALSE]
    BY <1>2, <1>7, <1>8
  <2>4. w = [line |-> w.line, last |-> w.last, shown |-> w.shown]
    BY <2>2 DEF Views
  <2>5. view'.line = FALSE /\ view'.shown = w.shown
    BY <2>3, <2>4
  <2> QED BY <1>4, <2>2, <2>5
<1>9. view'.line = FALSE
  <2>1. cmd.json => view' = NoView
    BY <1>2 DEF ViewTrue
  <2> QED BY <1>8, <2>1, NoViewIs
<1>10. ASSUME ~cmd.json, call.status = "succeeded" PROVE AllShown'
  <2>1. HasSteps(start, Len(Script))
    BY <1>5, <1>10 DEF Whole
  <2>2. Len(Script) \in Nat /\ DOMAIN Script = 1 .. Len(Script)
    BY ScriptAssumption DEF Completes
  <2>3. ASSUME NEW last \in {"segment_progress", "segment_finished"},
               NEW i \in DOMAIN Script, Script[i].action = "segment_started"
        PROVE  ShownIn(w, last, Script[i].offset, 100)
    <3>1. PICK j \in DOMAIN Script :
            Script[j].action = last /\ Script[j].offset = Script[i].offset /\ Script[j].percent = 100
      BY <2>3, ScriptAssumption DEF Completes
    <3>2. PICK n \in start.after + 1 .. Len(log) : log[n] = Event("progress", Script[j])
      BY <2>1, <2>2, <3>1 DEF HasSteps
    <3>3. PICK e : e = log[n]
      OBVIOUS
    <3>4. e.kind = "progress" /\ e.data = Script[j]
      BY <3>2, <3>3 DEF Event
    <3>5. Final(e)
      BY <3>1, <3>4 DEF Final
    <3>6. Seen(w, e)
      BY <1>8, <1>10, <3>3
    <3> QED BY <3>1, <3>4, <3>5, <3>6 DEF Seen
  <2>4. \A action, offset, percent : ShownIn(w, action, offset, percent) => ShownIn(view, action, offset, percent)'
    BY <1>8, <1>10 DEF ShownIn
  <2> QED BY <2>3, <2>4 DEF AllShown
<1>11. through'.after \in 0 .. Len(log)
  BY <1>4
<1>12. ~cmd.json /\ verdict' # "operation failed" => AllShown'
  BY <1>3, <1>10
<1> QED BY <1>2, <1>4, <1>6, <1>9, <1>11, <1>12 DEF FinalTrue

LEMMA FinalStep ==
  ASSUME LogTyped, LogTyped', Grows \/ Restarts, LogReported, CallTrue, StartTrue, FileTrue, AskedTrue, CursorTrue,
         Whole(call.start, call.req, call.status), ViewTrue, FinalTrue, [Next]_vars
  PROVE  FinalTrue'
<1>1. cmd' = cmd /\ ShownMoves
  BY CmdSame, ShownMovesAlways
<1>2. SUFFICES ASSUME cmd.kind = "flash", start'.epoch = epoch',
                      pc' = "capture" \/ verdict' \in {"finished", "operation failed"}
               PROVE  FinalTrue'
  BY <1>1 DEF FinalTrue
<1>3. verdict = "none" \/ pc \in {"done", "failed"}
  BY DEF FileTrue
<1>4. ASSUME UNCHANGED <<start, through, view>>,
             pc = "capture" \/ verdict \in {"finished", "operation failed"}, verdict' # "operation failed" => verdict # "operation failed"
      PROVE  FinalTrue'
  <2>1. start.epoch = epoch /\ Grows
    BY <1>2, <1>4, EpochKept DEF StartTrue
  <2>2. start.after \in Nat /\ Len(log) \in Nat /\ Len(log') \in Nat
    BY DEF StartTrue, LogTyped, Reached, Cursors
  <2>3. /\ view.line = FALSE /\ through.after \in 0 .. Len(log)
        /\ \E n \in start.after + 1 .. through.after : log[n].kind = "operation_finished"
        /\ ~cmd.json /\ verdict # "operation failed" => AllShown
    BY <1>2, <1>4, <2>1 DEF FinalTrue
  <2>4. PICK n \in start.after + 1 .. through.after : log[n].kind = "operation_finished"
    BY <2>3
  <2>5. n \in 1 .. Len(log)
    <3>1. through.after \in 0 .. Len(log)
      BY <2>3
    <3> QED BY <2>2, <3>1
  <2>6. log'[n] = log[n] /\ through.after \in 0 .. Len(log')
    <3>1. through.after \in 0 .. Len(log)
      BY <2>3
    <3> QED BY <2>1, <2>2, <2>5, <3>1 DEF Grows
  <2>7. AllShown => AllShown'
    BY <1>4, ZenonT(60) DEF AllShown, ShownIn
  <2> QED BY <1>1, <1>4, <2>3, <2>4, <2>6, <2>7 DEF FinalTrue
<1>5. CASE StillShown /\ UNCHANGED <<pc, verdict>>
  BY <1>2, <1>4, <1>5 DEF StillShown
<1>6. CASE StillShown /\ pc' \in {"done", "failed"} /\ verdict' \in {"failed", "refused", "exit", "elapsed", "saved"}
  BY <1>2, <1>6
<1>7. CASE StillShown /\ pc = "submit" /\ pc' = "posting" /\ verdict' = verdict
  BY <1>2, <1>3, <1>7
<1>8. CASE /\ pc = "posting" /\ pc' = IF cmd.kind = "flash" THEN "flashing" ELSE "polling"
           /\ start' = call.start /\ (cmd.kind = "flash" => cursor' = call.start)
           /\ UNCHANGED <<verdict, through, printed, rawlog, view>>
  BY <1>2, <1>3, <1>8
<1>9. CASE TakeFlashEvents /\ asked.state = "answered"
  <2>1. pc = "flashing" /\ UNCHANGED <<pc, verdict>>
    BY <1>9 DEF TakeFlashEvents
  <2> QED BY <1>2, <1>3, <2>1
<1>10. CASE Waited
  BY <1>2, <1>10 DEF Waited, ViewTrue
<1>11. CASE Drain /\ Served(cursor)
  <2>1. start.epoch = epoch
    BY <1>2, <1>11 DEF Drain, daemonVars
  <2> QED BY <1>1, <1>2, <1>11, <2>1, FinalDrain
<1>12. CASE TakeEvents /\ asked.state = "answered"
  <2>1. pc = "capture" /\ UNCHANGED <<start, through, view>>
    BY <1>12 DEF TakeEvents, Waiting
  <2> QED BY <1>3, <1>4, <2>1
<1>13. CASE Repeat
  BY <1>2, <1>13 DEF Repeat
<1> QED BY <1>1, <1>5, <1>6, <1>7, <1>8, <1>9, <1>10, <1>11, <1>12, <1>13 DEF ShownMoves

-----------------------------------------------------------------------------
(* Numbers in a row. *)

Row(a, k) == [i \in 1 .. k |-> a + i]

LEMMA RowIs ==
  ASSUME NEW a \in Nat, NEW k \in Nat
  PROVE  /\ Row(a, k) \in Seq(Nat) /\ Len(Row(a, k)) = k /\ DOMAIN Row(a, k) = 1 .. k
         /\ \A i \in 1 .. k : Row(a, k)[i] = a + i
BY DEF Row

LEMMA RowNone == ASSUME NEW a PROVE Row(a, 0) = <<>>
BY DEF Row

LEMMA RowsMeet ==
  ASSUME NEW a \in Nat, NEW k \in Nat, NEW m \in Nat
  PROVE  Row(a, k) \o Row(a + k, m) = Row(a, k + m)
<1>1. PICK s, t : s = Row(a, k) /\ t = Row(a + k, m)
  OBVIOUS
<1>2. a + k \in Nat /\ k + m \in Nat
  OBVIOUS
<1>3. s \in Seq(Nat) /\ Len(s) = k /\ \A i \in 1 .. k : s[i] = a + i
  BY <1>1, RowIs
<1>4. t \in Seq(Nat) /\ Len(t) = m /\ \A i \in 1 .. m : t[i] = (a + k) + i
  BY <1>1, <1>2, RowIs
<1>5. PICK j : j = s \o t
  OBVIOUS
<1>6. /\ j \in Seq(Nat) /\ Len(j) = k + m /\ \A i \in 1 .. k : j[i] = s[i]
      /\ \A i \in 1 .. m : j[k + i] = t[i]
  <2>1. /\ s \o t \in Seq(Nat) /\ Len(s \o t) = Len(s) + Len(t)
        /\ \A i \in 1 .. Len(s) : (s \o t)[i] = s[i]
        /\ \A i \in 1 .. Len(t) : (s \o t)[Len(s) + i] = t[i]
    <3>1. s \in Seq(Nat) /\ t \in Seq(Nat)
      BY <1>3, <1>4
    <3> QED BY <3>1, JoinIs
  <2> QED BY <1>3, <1>4, <1>5, <2>1
<1>7. ASSUME NEW i \in 1 .. k + m PROVE j[i] = a + i
  <2>1. CASE i \in 1 .. k
    BY <1>3, <1>6, <2>1
  <2>2. CASE i \notin 1 .. k
    <3>1. PICK n \in 1 .. m : i = k + n
      <4>1. i - k \in 1 .. m /\ i = k + (i - k)
        BY <2>2
      <4> QED BY <4>1
    <3>2. j[k + n] = t[n] /\ t[n] = (a + k) + n
      BY <1>4, <1>6
    <3>3. (a + k) + n = a + (k + n)
      OBVIOUS
    <3> QED BY <3>1, <3>2, <3>3
  <2> QED BY <2>1, <2>2
<1>8. j = [i \in 1 .. k + m |-> a + i]
  BY <1>6, <1>7
<1> QED BY <1>1, <1>5, <1>8 DEF Row

Later(x, y) == IF x >= y THEN x ELSE y

(* Of the numbers behind c, those behind t.                                 *)
Behinds(c, t, n) == [i \in 1 .. n |-> IF c + i > t THEN <<c + i>> ELSE <<>>]

LEMMA FlattenBehind ==
  ASSUME NEW c \in Nat, NEW t \in Nat, NEW n \in Nat, NEW ss, ss = Behinds(c, t, n)
  PROVE  FlattenSeq(ss) = Row(Later(c, t), Later(c + n, t) - Later(c, t))
<1>1. PICK Q : Q = Seq(Nat)
  OBVIOUS
<1>2. DOMAIN ss = 1 .. n /\ \A i \in 1 .. n : ss[i] = IF c + i > t THEN <<c + i>> ELSE <<>>
  BY DEF Behinds
<1>3. ss \in Seq(Q) /\ Len(ss) = n
  <2>1. <<>> \in Q /\ \A i \in 1 .. n : <<c + i>> \in Q
    BY <1>1
  <2>2. \A i \in 1 .. n : ss[i] \in Q
    BY <1>2, <2>1
  <2>3. PICK rr : rr = ss
    OBVIOUS
  <2>4. rr = [i \in 1 .. n |-> rr[i]] /\ DOMAIN rr = 1 .. n
    BY <2>3 DEF Behinds
  <2>5. \A i \in 1 .. n : rr[i] \in Q
    BY <2>2, <2>3
  <2>6. rr \in Seq(Q) /\ Len(rr) = n
    BY <2>4, <2>5
  <2> QED BY <2>3, <2>6
<1>4. Rows(Nat, ss)
  BY <1>1, <1>3 DEF Rows
<1>5. PICK f : Grown(f, <<>>, n, ss) /\ FlattenSeq(ss) = f[n]
  BY <1>3, <1>4, FlattenGrown
<1>6. PICK lo \in Nat : lo = Later(c, t)
  BY DEF Later
<1> DEFINE Upto(k) == Row(lo, Later(c + k, t) - lo)
           T == {k \in Nat : k <= n => f[k] = Upto(k)}
<1>7. 0 \in T
  <2>1. Later(c + 0, t) - lo = 0
    BY <1>6 DEF Later
  <2>2. f[0] = Upto(0)
    BY <1>5, <2>1, RowNone DEF Grown
  <2> HIDE DEF Upto
  <2> QED BY <2>2
<1>8. ASSUME NEW k \in T PROVE k + 1 \in T
  <2>1. k \in Nat /\ k + 1 \in Nat
    OBVIOUS
  <2>2. k <= n => f[k] = Upto(k)
    BY Zenon
  <2>3. ASSUME k + 1 <= n PROVE f[k + 1] = Upto(k + 1)
    <3> HIDE DEF T
    <3>1. k + 1 \in 1 .. n /\ (k + 1) - 1 = k /\ k <= n
      BY <2>1, <2>3
    <3>2. f[k + 1] = f[k] \o ss[k + 1]
      BY <1>5, <3>1 DEF Grown, Join
    <3>3. PICK m \in Nat : m = Later(c + k, t) - lo
      <4>1. Later(c + k, t) - lo \in Nat
        BY <1>6, <2>1 DEF Later
      <4> QED BY <4>1
    <3>4. f[k] = Row(lo, m)
      BY <2>2, <3>1, <3>3
    <3>5. CASE c + (k + 1) > t
      <4>1. lo + m = c + k /\ Later(c + (k + 1), t) - lo = m + 1
        BY <1>6, <2>1, <3>3, <3>5 DEF Later
      <4>2. ss[k + 1] = Row(lo + m, 1)
        <5>1. ss[k + 1] = <<c + (k + 1)>>
          BY <1>2, <3>1, <3>5
        <5>2. Row(lo + m, 1) = <<(lo + m) + 1>>
          BY DEF Row
        <5>3. (lo + m) + 1 = c + (k + 1)
          BY <2>1, <4>1
        <5> QED BY <5>1, <5>2, <5>3
      <4>3. Row(lo, m) \o Row(lo + m, 1) = Row(lo, m + 1)
        BY ZenonT(60), RowsMeet
      <4> QED BY <3>2, <3>4, <4>1, <4>2, <4>3
    <3>6. CASE ~(c + (k + 1) > t)
      <4>1. Later(c + (k + 1), t) - lo = m
        BY <1>6, <2>1, <3>3, <3>6 DEF Later
      <4>2. ss[k + 1] = <<>>
        BY <1>2, <3>1, <3>6
      <4>3. Row(lo, m) \o <<>> = Row(lo, m)
        <5>1. PICK s \in Seq(Nat) : s = Row(lo, m)
          BY RowIs
        <5> QED BY <5>1
      <4> QED BY <3>2, <3>4, <4>1, <4>2, <4>3
    <3> QED BY <3>5, <3>6
  <2> HIDE DEF Upto
  <2> QED BY <2>1, <2>3, Zenon
<1>9. T \in SUBSET Nat
  BY Zenon
<1>10. T = Nat
  <2> HIDE DEF T
  <2> QED BY <1>7, <1>8, <1>9, Induction
<1>11. \A k \in T : k <= n => f[k] = Upto(k)
  BY Zenon
<1>12. f[n] = Upto(n)
  <2> HIDE DEF T, Upto
  <2>1. n <= n
    OBVIOUS
  <2> QED BY <1>10, <1>11, <2>1
<1> QED BY <1>5, <1>6, <1>12

-----------------------------------------------------------------------------
(* What the client has printed. *)

ThroughTrue ==
  /\ Before => through = Nowhere
  /\ pc = "capture" => through.after \in Nat /\ (through.epoch = cursor.epoch \/ through.after = 0)

Printed(k) ==
  /\ printed = Row(start.after, k)
  /\ ~cmd.json \/ pc \in {"submit", "posting", "polling"} => k = 0
  /\ cmd.json /\ pc \in {"flashing", "capture"} =>
       k = Later(cursor.after, through.after) - start.after
PrintedTrue == \E k \in Nat : Printed(k)

LEMMA NowhereIs == Nowhere.epoch = 0 /\ Nowhere.after = 0
BY DEF Nowhere

LEMMA ThroughStep ==
  ASSUME LogTyped, StartTrue, AskedTrue, CursorTrue, ThroughTrue, [Next]_vars PROVE ThroughTrue'
<1>1. ShownMoves
  BY ShownMovesAlways
<1>2. ASSUME StillShown, pc' = pc \/ pc' \in {"done", "failed"} \/ (pc = "submit" /\ pc' = "posting")
      PROVE  ThroughTrue'
  BY <1>2 DEF StillShown, ThroughTrue, Before
<1>3. ASSUME Before, through' = through, pc' # "capture" PROVE ThroughTrue'
  BY <1>3 DEF ThroughTrue
<1>4. CASE StillShown /\ UNCHANGED <<pc, verdict>>
  BY <1>2, <1>4
<1>5. CASE StillShown /\ pc' \in {"done", "failed"} /\ verdict' \in {"failed", "refused", "exit", "elapsed", "saved"}
  BY <1>2, <1>5
<1>6. CASE StillShown /\ pc = "submit" /\ pc' = "posting" /\ verdict' = verdict
  BY <1>2, <1>6
<1>7. CASE /\ pc = "posting" /\ pc' = IF cmd.kind = "flash" THEN "flashing" ELSE "polling"
           /\ start' = call.start /\ (cmd.kind = "flash" => cursor' = call.start)
           /\ UNCHANGED <<verdict, through, printed, rawlog, view>>
  <2>1. Before /\ through' = through /\ pc' # "capture"
    BY <1>7 DEF Before
  <2> QED BY <1>3, <2>1
<1>8. CASE TakeFlashEvents /\ asked.state = "answered"
  <2>1. Before /\ through' = through /\ pc' # "capture"
    BY <1>8 DEF TakeFlashEvents, Before
  <2> QED BY <1>3, <2>1
<1>9. CASE Waited
  <2>1. through' = Nowhere /\ pc' \in {"capture", "download", "done", "failed"}
    BY <1>9 DEF Waited, Continue, AfterOperation, End, ThroughTrue, Before
  <2> QED BY <2>1, NowhereIs DEF ThroughTrue, Before
<1>10. CASE Drain /\ Served(cursor)
  <2>1. PICK batch : batch = After(cursor)
    OBVIOUS
  <2>2. /\ pc = "flashing" /\ through' = Behind(cursor, batch)
        /\ pc' \in {"capture", "download", "done", "failed"}
        /\ pc' = "capture" => cursor' = start
    BY <1>10, <2>1 DEF Drain, Continue, AfterOperation, End
  <2>3. through'.epoch = epoch /\ through'.after = Len(log) /\ Len(log) \in Nat /\ cursor.epoch = epoch
    BY <1>10, <2>1, <2>2, AfterIs DEF LogTyped
  <2>4. start.epoch = cursor.epoch
    BY <2>2 DEF CursorTrue
  <2> QED BY <2>2, <2>3, <2>4 DEF ThroughTrue, Before
<1>11. CASE TakeEvents /\ asked.state = "answered"
  <2>1. /\ pc = "capture" /\ through' = through /\ cursor' = Behind(cursor, asked.batch)
        /\ pc' \in {"capture", "done", "failed"}
    BY <1>11 DEF TakeEvents, Waiting, End
  <2>2. cursor'.epoch = cursor.epoch
    BY <1>11, <2>1, BehindReached DEF AskedTrue
  <2> QED BY <2>1, <2>2 DEF ThroughTrue, Before
<1>12. CASE Repeat
  <2>1. through' = Nowhere /\ pc' = "submit"
    BY <1>12 DEF Repeat
  <2> QED BY <2>1 DEF ThroughTrue
<1> QED BY <1>1, <1>4, <1>5, <1>6, <1>7, <1>8, <1>9, <1>10, <1>11, <1>12 DEF ShownMoves

(* What a capture prints of a batch.                                        *)
LEMMA UnprintedIs ==
  ASSUME NEW batch, NEW m \in Nat, DOMAIN batch = 1 .. m, NEW c \in Nat, NEW t \in Nat,
         c = cursor.after, t = through.after, through.epoch = cursor.epoch \/ t = 0
  PROVE  Unprinted(batch) = Row(Later(c, t), Later(c + m, t) - Later(c, t))
<1>1. PICK ss : ss = Behinds(c, t, m)
  OBVIOUS
<1>2. \A i \in 1 .. m : through.epoch # cursor.epoch \/ c + i > t <=> c + i > t
  OBVIOUS
<1>3. ss = [i \in DOMAIN batch |->
              IF through.epoch # cursor.epoch \/ cursor.after + i > through.after
                THEN <<cursor.after + i>> ELSE <<>>]
  BY <1>1, <1>2 DEF Behinds
<1>4. Unprinted(batch) = FlattenSeq(ss)
  BY <1>3 DEF Unprinted
<1>5. \A x \in Nat, y \in Nat, n \in Nat :
        FlattenSeq(Behinds(x, y, n)) = Row(Later(x, y), Later(x + n, y) - Later(x, y))
  BY FlattenBehind
<1> QED BY <1>1, <1>4, <1>5

LEMMA NumbersIs ==
  ASSUME NEW batch, NEW m \in Nat, DOMAIN batch = 1 .. m, NEW c
  PROVE  Numbers(c, batch) = Row(c.after, m)
BY DEF Numbers, Row

LEMMA PrintedStep ==
  ASSUME LogTyped, CallTrue, StartTrue, AskedTrue, CursorTrue, ThroughTrue, PrintedTrue, [Next]_vars
  PROVE  PrintedTrue'
<1>1. cmd' = cmd /\ ShownMoves
  BY CmdSame, ShownMovesAlways
<1>2. PICK k \in Nat : Printed(k)
  BY DEF PrintedTrue
<1>3. /\ printed = Row(start.after, k)
      /\ ~cmd.json \/ pc \in {"submit", "posting", "polling"} => k = 0
      /\ cmd.json /\ pc \in {"flashing", "capture"} => k = Later(cursor.after, through.after) - start.after
  BY <1>2 DEF Printed
<1>4. ASSUME NEW n \in Nat, printed' = Row(start'.after, n),
             ~cmd.json \/ pc' \in {"submit", "posting", "polling"} => n = 0,
             cmd.json /\ pc' \in {"flashing", "capture"} =>
               n = Later(cursor'.after, through'.after) - start'.after
      PROVE  PrintedTrue'
  BY <1>1, <1>4 DEF PrintedTrue, Printed, Row, Later
<1>5. /\ start.after \in Nat /\ cursor.after \in Nat
      /\ pc \in {"flashing", "capture"} => start.after <= cursor.after
  BY DEF StartTrue, AskedTrue, CursorTrue, Reached, Cursors
<1>6. CASE StillShown /\ UNCHANGED <<pc, verdict>>
  BY <1>3, <1>4, <1>6 DEF StillShown
<1>7. CASE StillShown /\ pc' \in {"done", "failed"} /\ verdict' \in {"failed", "refused", "exit", "elapsed", "saved"}
  BY <1>3, <1>4, <1>7 DEF StillShown
<1>8. CASE StillShown /\ pc = "submit" /\ pc' = "posting" /\ verdict' = verdict
  BY <1>3, <1>4, <1>8 DEF StillShown
<1>9. CASE /\ pc = "posting" /\ pc' = IF cmd.kind = "flash" THEN "flashing" ELSE "polling"
           /\ start' = call.start /\ (cmd.kind = "flash" => cursor' = call.start)
           /\ UNCHANGED <<verdict, through, printed, rawlog, view>>
  <2>1. k = 0 /\ printed' = Row(start'.after, 0)
    BY <1>3, <1>9, RowNone
  <2>2. ASSUME pc' = "flashing" PROVE 0 = Later(cursor'.after, through'.after) - start'.after
    <3>1. start'.after \in Nat /\ cursor' = start'
      BY <1>9, <2>2 DEF CallTrue, Reached, Cursors
    <3>2. through'.after = 0
      BY <1>9, NowhereIs DEF ThroughTrue, Before
    <3> QED BY <3>1, <3>2 DEF Later
  <2>3. pc' # "capture"
    BY <1>9
  <2> QED BY <1>4, <2>1, <2>2, <2>3
<1>10. ASSUME pc = "flashing", cmd.json PROVE start.after + k = cursor.after
  <2>1. through.after = 0
    BY <1>10, NowhereIs DEF ThroughTrue, Before
  <2> QED BY <1>3, <1>5, <1>10, <2>1 DEF Later
<1>11. CASE TakeFlashEvents /\ asked.state = "answered"
  <2>1. PICK batch : batch = asked.batch
    OBVIOUS
  <2>2. /\ pc = "flashing" /\ pc' = pc /\ UNCHANGED <<start, through>> /\ cursor' = Behind(cursor, batch)
        /\ printed' = (IF cmd.json THEN printed \o Numbers(cursor, batch) ELSE printed)
    BY <1>11, <2>1 DEF TakeFlashEvents, WriteFlashEvents
  <2>3. PICK m \in Nat : m = Len(batch) /\ DOMAIN batch = 1 .. m
    BY <2>1 DEF AskedTrue
  <2>4. cursor'.after = cursor.after + m
    BY <1>11, <2>1, <2>2, <2>3, BehindReached DEF AskedTrue
  <2>5. CASE cmd.json
    <3>1. Numbers(cursor, batch) = Row(start.after + k, m)
      BY <1>10, <2>2, <2>3, <2>5, NumbersIs
    <3>2. printed' = Row(start.after, k + m)
      <4>1. Row(start.after, k) \o Row(start.after + k, m) = Row(start.after, k + m)
        BY <1>5, RowsMeet
      <4> QED BY <1>3, <2>2, <2>5, <3>1, <4>1
    <3>3. through'.after = 0
      BY <2>2, NowhereIs DEF ThroughTrue, Before
    <3>4. k + m = Later(cursor'.after, through'.after) - start.after
      BY <1>5, <1>10, <2>2, <2>4, <2>5, <3>3 DEF Later
    <3> QED BY <1>4, <2>2, <2>5, <3>2, <3>4
  <2>6. CASE ~cmd.json
    BY <1>3, <1>4, <2>2, <2>6
  <2> QED BY <2>5, <2>6
<1>12. CASE Waited
  <2>1. /\ pc = "polling" /\ UNCHANGED <<start, through, printed>>
        /\ pc' \in {"capture", "download", "done", "failed"}
        /\ pc' = "capture" => cursor' = start
    BY <1>12 DEF Waited, Continue, AfterOperation, End
  <2>2. through'.after = 0
    BY <2>1, NowhereIs DEF ThroughTrue, Before
  <2>3. pc' = "capture" => 0 = Later(cursor'.after, through'.after) - start.after
    BY <1>5, <2>1, <2>2 DEF Later
  <2> QED BY <1>3, <1>4, <2>1, <2>3
<1>13. CASE Drain /\ Served(cursor)
  <2>1. PICK batch : batch = After(cursor)
    OBVIOUS
  <2>2. /\ pc = "flashing" /\ start' = start /\ through' = Behind(cursor, batch)
        /\ printed' = (IF cmd.json THEN printed \o Numbers(cursor, batch) ELSE printed)
        /\ pc' \in {"capture", "download", "done", "failed"}
        /\ pc' = "capture" => cursor' = start
    BY <1>13, <2>1 DEF Drain, Continue, AfterOperation, End
  <2>3. PICK m \in Nat : m = Len(batch) /\ DOMAIN batch = 1 .. m
    BY <1>13, <2>1, AfterIs
  <2>4. through'.after = cursor.after + m
    BY <1>13, <2>1, <2>2, <2>3, AfterIs
  <2>5. CASE cmd.json
    <3>1. Numbers(cursor, batch) = Row(start.after + k, m)
      BY <1>10, <2>2, <2>3, <2>5, NumbersIs
    <3>2. printed' = Row(start.after, k + m)
      <4>1. Row(start.after, k) \o Row(start.after + k, m) = Row(start.after, k + m)
        BY <1>5, RowsMeet
      <4> QED BY <1>3, <2>2, <2>5, <3>1, <4>1
    <3>3. pc' = "capture" => k + m = Later(cursor'.after, through'.after) - start.after
      BY <1>5, <1>10, <2>2, <2>4, <2>5 DEF Later
    <3> QED BY <1>4, <2>2, <2>5, <3>2, <3>3
  <2>6. CASE ~cmd.json
    BY <1>3, <1>4, <2>2, <2>6
  <2> QED BY <2>5, <2>6
<1>14. CASE TakeEvents /\ asked.state = "answered"
  <2>1. PICK batch : batch = asked.batch
    OBVIOUS
  <2>2. /\ pc = "capture" /\ UNCHANGED <<start, through>> /\ cursor' = Behind(cursor, batch)
        /\ printed' = (IF cmd.json THEN printed \o Unprinted(batch) ELSE printed)
        /\ pc' \in {"capture", "done", "failed"}
    BY <1>14, <2>1 DEF TakeEvents, Waiting, End
  <2>3. PICK m \in Nat : m = Len(batch) /\ DOMAIN batch = 1 .. m
    BY <2>1 DEF AskedTrue
  <2>4. cursor'.after = cursor.after + m
    BY <1>14, <2>1, <2>2, <2>3, BehindReached DEF AskedTrue
  <2>5. CASE cmd.json
    <3>1. PICK c \in Nat : c = cursor.after
      BY <1>5
    <3>2. PICK t \in Nat : t = through.after
      BY <2>2 DEF ThroughTrue
    <3>3. PICK more \in Nat : more = Later(c + m, t) - Later(c, t)
      <4>1. Later(c + m, t) - Later(c, t) \in Nat
        BY DEF Later
      <4> QED BY <4>1
    <3>4. start.after + k = Later(c, t)
      BY <1>3, <1>5, <2>2, <2>5, <3>1, <3>2 DEF Later
    <3>5. Unprinted(batch) = Row(start.after + k, more)
      <4>1. through.epoch = cursor.epoch \/ t = 0
        BY <2>2, <3>2 DEF ThroughTrue
      <4>2. Unprinted(batch) = Row(Later(c, t), Later(c + m, t) - Later(c, t))
        BY <2>3, <3>1, <3>2, <4>1, UnprintedIs
      <4> QED BY <3>3, <3>4, <4>2
    <3>6. printed' = Row(start.after, k + more)
      <4>1. Row(start.after, k) \o Row(start.after + k, more) = Row(start.after, k + more)
        BY ZenonT(30), <1>5, RowsMeet
      <4> QED BY <1>3, <2>2, <2>5, <3>5, <4>1
    <3>7. k + more = Later(cursor'.after, through'.after) - start.after
      <4>1. Later(cursor'.after, through'.after) = Later(c + m, t) /\ Later(c + m, t) \in Nat /\ Later(c, t) \in Nat
        BY <2>2, <2>4, <3>1, <3>2 DEF Later
      <4> QED BY <1>5, <3>3, <3>4, <4>1
    <3> QED BY <1>4, <2>2, <2>5, <3>6, <3>7
  <2>6. CASE ~cmd.json
    BY <1>3, <1>4, <2>2, <2>6
  <2> QED BY <2>5, <2>6
<1>15. CASE Repeat
  <2>1. start' = Nowhere /\ printed' = <<>> /\ pc' = "submit"
    BY <1>15 DEF Repeat
  <2>2. printed' = Row(start'.after, 0)
    BY <2>1, RowNone
  <2> QED BY <1>4, <2>1, <2>2
<1> QED BY <1>1, <1>6, <1>7, <1>8, <1>9, <1>11, <1>12, <1>13, <1>14, <1>15 DEF ShownMoves

-----------------------------------------------------------------------------
(* What the client has captured. *)

RawTrue ==
  /\ Before => rawlog = <<>>
  /\ pc = "capture" /\ start.epoch = epoch => rawlog = RawBytes(Since(cursor))

(* Two parts that meet are a part.                                          *)
LEMMA PartJoin ==
  ASSUME NEW S, NEW s \in Seq(S), NEW a \in Nat, NEW b \in Nat, NEW m \in Nat, a <= b, b + m <= Len(s),
         NEW t \in Seq(S), Len(t) = m, \A i \in 1 .. m : t[i] = s[b + i]
  PROVE  SubSeq(s, a + 1, b + m) = SubSeq(s, a + 1, b) \o t
<1>1. PICK l \in Nat : l = Len(s)
  OBVIOUS
<1>2. b \in 0 .. Len(s) /\ b + m \in 0 .. Len(s) /\ a <= b + m
  BY <1>1
<1>3. PICK u, v : u = SubSeq(s, a + 1, b + m) /\ v = SubSeq(s, a + 1, b)
  OBVIOUS
<1>4. u \in Seq(S) /\ Len(u) = (b + m) - a /\ \A i \in 1 .. (b + m) - a : u[i] = s[a + i]
  <2>1. /\ SubSeq(s, a + 1, b + m) \in Seq(S) /\ Len(SubSeq(s, a + 1, b + m)) = (b + m) - a
        /\ \A i \in 1 .. (b + m) - a : SubSeq(s, a + 1, b + m)[i] = s[a + i]
    BY <1>2, PartOf
  <2> QED BY <1>3, <2>1
<1>5. v \in Seq(S) /\ Len(v) = b - a /\ \A i \in 1 .. b - a : v[i] = s[a + i]
  <2>1. /\ SubSeq(s, a + 1, b) \in Seq(S) /\ Len(SubSeq(s, a + 1, b)) = b - a
        /\ \A i \in 1 .. b - a : SubSeq(s, a + 1, b)[i] = s[a + i]
    BY <1>2, PartOf
  <2> QED BY <1>3, <2>1
<1>6. PICK j : j = v \o t
  OBVIOUS
<1>7. /\ j \in Seq(S) /\ Len(j) = (b - a) + m /\ \A i \in 1 .. b - a : j[i] = v[i]
      /\ \A i \in 1 .. m : j[(b - a) + i] = t[i]
  <2>1. /\ v \o t \in Seq(S) /\ Len(v \o t) = Len(v) + Len(t)
        /\ \A i \in 1 .. Len(v) : (v \o t)[i] = v[i]
        /\ \A i \in 1 .. Len(t) : (v \o t)[Len(v) + i] = t[i]
    <3>1. v \in Seq(S) /\ t \in Seq(S)
      BY <1>5
    <3>2. \A x \in Seq(S), y \in Seq(S) :
            /\ x \o y \in Seq(S) /\ Len(x \o y) = Len(x) + Len(y)
            /\ \A i \in 1 .. Len(x) : (x \o y)[i] = x[i]
            /\ \A i \in 1 .. Len(y) : (x \o y)[Len(x) + i] = y[i]
      BY JoinIs
    <3> QED BY <3>1, <3>2
  <2> QED BY <1>5, <1>6, <2>1
<1>8. PICK n \in Nat : n = (b + m) - a /\ n = (b - a) + m
  <2>1. (b + m) - a \in Nat /\ (b + m) - a = (b - a) + m
    OBVIOUS
  <2> QED BY <2>1
<1>9. ASSUME NEW i \in 1 .. n PROVE u[i] = j[i]
  <2>1. u[i] = s[a + i]
    BY <1>4, <1>8
  <2>2. CASE i \in 1 .. b - a
    BY <1>5, <1>7, <2>1, <2>2
  <2>3. CASE i \notin 1 .. b - a
    <3>1. PICK k \in 1 .. m : i = (b - a) + k /\ a + i = b + k
      <4>1. i - (b - a) \in 1 .. m /\ i = (b - a) + (i - (b - a)) /\ a + i = b + (i - (b - a))
        BY <1>8, <2>3
      <4> QED BY <4>1
    <3> QED BY <1>7, <2>1, <3>1
  <2> QED BY <2>2, <2>3
<1>10. u = [i \in 1 .. n |-> u[i]] /\ j = [i \in 1 .. n |-> j[i]]
  BY <1>4, <1>7, <1>8
<1> QED BY <1>3, <1>6, <1>9, <1>10

LEMMA PartKept ==
  ASSUME NEW S, NEW s \in Seq(S), NEW R, NEW t \in Seq(R), NEW a \in Nat, NEW b \in Nat, a <= b,
         b <= Len(s), b <= Len(t), \A i \in 1 .. Len(s) : t[i] = s[i]
  PROVE  SubSeq(t, a + 1, b) = SubSeq(s, a + 1, b)
<1>1. b \in 0 .. Len(s) /\ b \in 0 .. Len(t) /\ Len(s) \in Nat
  OBVIOUS
<1>2. PICK u, v : u = SubSeq(s, a + 1, b) /\ v = SubSeq(t, a + 1, b)
  OBVIOUS
<1>3. u \in Seq(S) /\ Len(u) = b - a /\ \A i \in 1 .. b - a : u[i] = s[a + i]
  <2>1. /\ SubSeq(s, a + 1, b) \in Seq(S) /\ Len(SubSeq(s, a + 1, b)) = b - a
        /\ \A i \in 1 .. b - a : SubSeq(s, a + 1, b)[i] = s[a + i]
    BY <1>1, PartOf
  <2> QED BY <1>2, <2>1
<1>4. v \in Seq(R) /\ Len(v) = b - a /\ \A i \in 1 .. b - a : v[i] = t[a + i]
  <2>1. /\ SubSeq(t, a + 1, b) \in Seq(R) /\ Len(SubSeq(t, a + 1, b)) = b - a
        /\ \A i \in 1 .. b - a : SubSeq(t, a + 1, b)[i] = t[a + i]
    BY <1>1, PartOf
  <2> QED BY <1>2, <2>1
<1>5. ASSUME NEW i \in 1 .. b - a PROVE u[i] = v[i]
  <2>1. a + i \in 1 .. Len(s)
    BY <1>1
  <2> QED BY <1>3, <1>4, <2>1
<1>6. u = [i \in 1 .. b - a |-> u[i]] /\ v = [i \in 1 .. b - a |-> v[i]]
  BY <1>3, <1>4
<1> QED BY <1>2, <1>5, <1>6

LEMMA TypedPart ==
  ASSUME NEW B, NEW s, Typed(B, s), NEW a \in Nat, NEW b \in 0 .. Len(s), a <= b
  PROVE  Typed(B, SubSeq(s, a + 1, b))
<1>1. s \in Seq(ToSet(s)) /\ Len(s) \in Nat /\ b \in Nat
  BY DEF Typed
<1>2. PICK u : u = SubSeq(s, a + 1, b)
  OBVIOUS
<1>3. u \in Seq(ToSet(s)) /\ Len(u) = b - a /\ \A i \in 1 .. b - a : a + i \in 1 .. Len(s) /\ u[i] = s[a + i]
  <2>1. /\ SubSeq(s, a + 1, b) \in Seq(ToSet(s)) /\ Len(SubSeq(s, a + 1, b)) = b - a
        /\ \A i \in 1 .. b - a : a + i \in 1 .. Len(s) /\ SubSeq(s, a + 1, b)[i] = s[a + i]
    BY <1>1, PartOf
  <2> QED BY <1>2, <2>1
<1>4. u \in Seq(ToSet(u))
  BY <1>3, OwnSet
<1>5. \A i \in 1 .. Len(u) : EventTyped(B, u[i])
  BY <1>3 DEF Typed
<1> QED BY <1>2, <1>4, <1>5 DEF Typed

LEMMA RawStep ==
  ASSUME LogTyped, LogTyped', Grows \/ Restarts, LinesTrue, StartTrue, AskedTrue, CursorTrue,
         RawTrue, [Next]_vars
  PROVE  RawTrue'
<1>1. ShownMoves
  BY ShownMovesAlways
<1>2. /\ Reached(start) /\ Reached(cursor)
      /\ start.after \in Nat /\ cursor.after \in Nat /\ Len(log) \in Nat
      /\ log \in Seq(ToSet(log)) /\ log' \in Seq(ToSet(log'))
  BY DEF StartTrue, AskedTrue, Reached, Cursors, LogTyped
<1>3. CASE StillShown /\ UNCHANGED <<pc, verdict>>
  <2>1. ASSUME pc = "capture", start.epoch = epoch' PROVE rawlog = RawBytes(Since(cursor)')
    <3>1. start.epoch = epoch /\ Grows
      BY <1>2, <2>1, EpochKept
    <3>2. start.after <= cursor.after /\ cursor.after <= Len(log) /\ cursor.after <= Len(log')
      BY <1>2, <2>1, <3>1 DEF CursorTrue, Reached, Grows, LogTyped
    <3>3. SubSeq(log', start.after + 1, cursor.after) = SubSeq(log, start.after + 1, cursor.after)
      <4>1. PICK a \in Nat, b \in Nat : a = start.after /\ b = cursor.after
        BY <1>2
      <4>2. /\ log \in Seq(ToSet(log)) /\ log' \in Seq(ToSet(log')) /\ a <= b
            /\ b <= Len(log) /\ b <= Len(log') /\ \A i \in 1 .. Len(log) : log'[i] = log[i]
        BY <1>2, <3>1, <3>2, <4>1 DEF Grows
      <4>3. SubSeq(log', a + 1, b) = SubSeq(log, a + 1, b)
        BY <4>2, PartKept
      <4> QED BY <4>1, <4>3
    <3>4. rawlog = RawBytes(Since(cursor))
      BY <2>1, <3>1 DEF RawTrue
    <3> QED BY <1>3, <3>3, <3>4 DEF Since, StillShown
  <2>2. Before' => Before
    BY <1>3 DEF Before
  <2>3. RawBytes(Since(cursor))' = RawBytes(Since(cursor)')
    BY DEF RawBytes
  <2> QED BY <1>3, <2>1, <2>2, <2>3 DEF RawTrue, StillShown
<1>4. ASSUME rawlog' = rawlog, pc' # "capture", Before' => Before PROVE RawTrue'
  BY <1>4 DEF RawTrue
<1>5. CASE StillShown /\ pc' \in {"done", "failed"} /\ verdict' \in {"failed", "refused", "exit", "elapsed", "saved"}
  BY <1>4, <1>5 DEF StillShown, Before
<1>6. CASE StillShown /\ pc = "submit" /\ pc' = "posting" /\ verdict' = verdict
  BY <1>4, <1>6 DEF StillShown, Before
<1>7. CASE /\ pc = "posting" /\ pc' = IF cmd.kind = "flash" THEN "flashing" ELSE "polling"
           /\ start' = call.start /\ (cmd.kind = "flash" => cursor' = call.start)
           /\ UNCHANGED <<verdict, through, printed, rawlog, view>>
  BY <1>4, <1>7 DEF Before
<1>8. CASE TakeFlashEvents /\ asked.state = "answered"
  BY <1>4, <1>8 DEF TakeFlashEvents, Before
<1>9. ASSUME pc' \in {"capture", "download", "done", "failed"}, Before, rawlog' = rawlog, start' = start,
             pc' = "capture" => cursor' = start
      PROVE  RawTrue'
  <2>1. rawlog' = <<>>
    BY <1>9 DEF RawTrue
  <2>2. ASSUME pc' = "capture" PROVE RawBytes(Since(cursor)') = <<>>
    <3>1. Since(cursor)' = SubSeq(log', start.after + 1, start.after)
      BY <1>9, <2>2 DEF Since
    <3>2. SubSeq(log', start.after + 1, start.after) = <<>>
      BY <1>2
    <3> QED BY <3>1, <3>2, NoEvents
  <2>3. RawBytes(Since(cursor))' = RawBytes(Since(cursor)')
    BY DEF RawBytes
  <2> QED BY <1>9, <2>1, <2>2, <2>3 DEF RawTrue, Before
<1>10. CASE Waited
  BY <1>9, <1>10 DEF Waited, Continue, AfterOperation, End, Before
<1>11. CASE Drain /\ Served(cursor)
  BY <1>9, <1>11 DEF Drain, Continue, AfterOperation, End, Before
<1>12. CASE TakeEvents /\ asked.state = "answered"
  <2>1. PICK batch : batch = asked.batch
    OBVIOUS
  <2>2. /\ pc = "capture" /\ UNCHANGED <<start, log, epoch>> /\ cursor' = Behind(cursor, batch)
        /\ rawlog' = rawlog \o RawBytes(batch) /\ pc' \in {"capture", "done", "failed"}
    BY <1>12, <2>1 DEF TakeEvents, Waiting, End, daemonVars
  <2>3. PICK m \in Nat : m = Len(batch) /\ DOMAIN batch = 1 .. m
    BY <2>1 DEF AskedTrue
  <2>4. cursor'.after = cursor.after + m
    BY <1>12, <2>1, <2>2, <2>3, BehindReached DEF AskedTrue
  <2>5. ASSUME pc' = "capture", start.epoch = epoch
        PROVE  rawlog' = RawBytes(SubSeq(log, start.after + 1, cursor.after + m))
    <3>1. PICK a \in Nat, b \in Nat : a = start.after /\ b = cursor.after
      BY <1>2
    <3>2. /\ a <= b /\ cursor.epoch = epoch /\ b \in 0 .. Len(log) /\ b + m <= Len(log)
          /\ \A i \in 1 .. m : batch[i] = log[b + i]
      <4>1. a <= b /\ cursor.epoch = epoch /\ b <= Len(log)
        BY <1>2, <2>2, <2>5, <3>1 DEF CursorTrue, Reached
      <4>2. BatchTrue(cursor, batch)
        BY <1>12, <2>1 DEF AskedTrue
      <4> QED BY <1>2, <2>3, <3>1, <4>1, <4>2 DEF BatchTrue
    <3>3. PICK B : B = ToSet(cmd.output) /\ Typed(B, log)
      BY DEF LinesTrue
    <3>4. batch \in Seq(ToSet(batch))
      BY <2>1 DEF AskedTrue
    <3>5. \A i \in 1 .. m : b + i \in 1 .. Len(log)
      BY <1>2, <3>2
    <3>6. Typed(B, batch)
      BY <2>3, <3>2, <3>3, <3>4, <3>5 DEF Typed
    <3>7. PICK s : s = SubSeq(log, a + 1, b)
      OBVIOUS
    <3>8. Typed(B, s)
      BY <3>2, <3>3, <3>7, TypedPart
    <3>9. SubSeq(log, a + 1, b + m) = s \o batch
      <4>1. PICK S : S = ToSet(log) \cup ToSet(batch)
        OBVIOUS
      <4>2. log \in Seq(S) /\ batch \in Seq(S)
        BY <1>2, <3>4, <4>1
      <4>3. a <= b /\ b + m <= Len(log) /\ Len(batch) = m /\ \A i \in 1 .. m : batch[i] = log[b + i]
        BY <2>3, <3>2
      <4>4. SubSeq(log, a + 1, b + m) = SubSeq(log, a + 1, b) \o batch
        BY SMTT(30), <4>2, <4>3, PartJoin
      <4> QED BY <3>7, <4>4
    <3>10. RawBytes(s \o batch) = RawBytes(s) \o RawBytes(batch)
      BY <3>6, <3>8, RawJoin
    <3>11. rawlog = RawBytes(s)
      BY <2>2, <2>5, <3>1, <3>7 DEF RawTrue, Since
    <3> QED BY <2>2, <3>1, <3>9, <3>10, <3>11
  <2>6. RawBytes(Since(cursor))' = RawBytes(Since(cursor)')
    BY DEF RawBytes
  <2>7. Since(cursor)' = SubSeq(log, start.after + 1, cursor.after + m)
    BY <2>2, <2>4 DEF Since
  <2> QED BY <2>2, <2>5, <2>6, <2>7 DEF RawTrue, Before
<1>13. CASE Repeat
  <2>1. rawlog' = <<>> /\ pc' = "submit"
    BY <1>13 DEF Repeat
  <2> QED BY <2>1 DEF RawTrue
<1> QED BY <1>1, <1>3, <1>5, <1>6, <1>7, <1>8, <1>10, <1>11, <1>12, <1>13 DEF ShownMoves

-----------------------------------------------------------------------------
(* Every event is shown. *)

ShownInv == SeenInv /\ FlashTrue /\ ViewTrue /\ FinalTrue /\ ThroughTrue /\ PrintedTrue /\ RawTrue

LEMMA ShownStart == Init => ShownInv
<1> SUFFICES ASSUME Init PROVE ShownInv
  OBVIOUS
<1>1. SeenInv /\ FlashTrue
  BY SeenStart, FlashStart
<1>2. /\ pc = "submit" /\ verdict = "none" /\ start = Nowhere /\ cursor = Nowhere /\ through = Nowhere
      /\ printed = <<>> /\ rawlog = <<>>
  BY DEF Init
<1>3. view = NoView
  BY DEF Init, NoView
<1>4. ViewTrue /\ FinalTrue
  BY <1>2, <1>3 DEF ViewTrue, FinalTrue
<1>5. ThroughTrue /\ RawTrue
  BY <1>2 DEF ThroughTrue, RawTrue
<1>6. PrintedTrue
  <2>1. printed = Row(start.after, 0)
    BY <1>2, RowNone
  <2>2. Printed(0)
    BY <1>2, <2>1 DEF Printed
  <2> QED BY <2>2 DEF PrintedTrue
<1> QED BY <1>1, <1>4, <1>5, <1>6 DEF ShownInv

LEMMA ShownStep == ShownInv /\ [Next]_vars => ShownInv'
<1> SUFFICES ASSUME ShownInv, [Next]_vars PROVE ShownInv'
  OBVIOUS
<1>1. SeenInv /\ FlashTrue /\ ViewTrue /\ FinalTrue /\ ThroughTrue /\ PrintedTrue /\ RawTrue
  BY DEF ShownInv
<1>2. SeenInv'
  BY <1>1, SeenStep
<1>3. ReportInv /\ ReportInv' /\ LinesTrue
  BY <1>1, <1>2 DEF SeenInv, ClientInv
<1>4. /\ LogTyped /\ CallTrue /\ StartTrue /\ FileTrue /\ AskedTrue /\ CursorTrue /\ LogTyped'
      /\ LogReported /\ Whole(call.start, call.req, call.status)
  BY <1>1, <1>3 DEF ReportInv, FlashTrue
<1>5. Grows \/ Restarts
  BY <1>4, ClientAssumption, LogStep
<1>6. FlashTrue'
  BY <1>1, <1>3, ClientAssumption, FlashStep
<1>7. ViewTrue'
  BY <1>1, <1>4, <1>5, ViewStep
<1>8. FinalTrue'
  BY <1>1, <1>4, <1>5, FinalStep
<1>9. ThroughTrue' /\ PrintedTrue'
  BY <1>1, <1>4, ThroughStep, PrintedStep
<1>10. RawTrue'
  BY <1>1, <1>3, <1>4, <1>5, RawStep
<1> QED BY <1>2, <1>6, <1>7, <1>8, <1>9, <1>10 DEF ShownInv

LEMMA ShownAlways == Spec => []ShownInv
BY ShownStart, ShownStep, PTL DEF Spec

LEMMA PrintedInOrder ==
  ASSUME StartTrue, PrintedTrue, RawTrue PROVE OnceInOrder
<1>1. PICK k \in Nat : Printed(k)
  BY DEF PrintedTrue
<1>2. start.after \in Nat
  BY DEF StartTrue, Reached, Cursors
<1>3. PICK a \in Nat : a = start.after
  BY <1>2
<1>4. printed = Row(a, k)
  BY <1>1, <1>3 DEF Printed
<1>5. Len(printed) = k /\ DOMAIN printed = 1 .. k
  BY <1>4, RowIs
<1>6. printed = [i \in DOMAIN printed |-> start.after + i]
  BY <1>3, <1>4, <1>5 DEF Row
<1>7. Further(cursor, through).after = Later(cursor.after, through.after)
  BY DEF Further, Later
<1>8. cmd.json /\ pc \in {"flashing", "capture"} => Len(printed) = Further(cursor, through).after - start.after
  BY <1>1, <1>5, <1>7 DEF Printed
<1> QED BY <1>6, <1>8 DEF RawTrue, OnceInOrder

LEMMA LastIsShown ==
  ASSUME LogTyped, StartTrue, FinalTrue PROVE FinalShown
<1>1. SUFFICES ASSUME cmd.kind = "flash", start.epoch = epoch,
                      pc = "capture" \/ verdict \in {"finished", "operation failed"}
               PROVE  /\ \E i \in DOMAIN Since(through) : Since(through)[i].kind = "operation_finished"
                      /\ ~view.line
                      /\ ~cmd.json /\ verdict # "operation failed" => AllShown
  BY DEF FinalShown, AllShown, StepShown, ShownIn
<1>2. /\ view.line = FALSE /\ through.after \in 0 .. Len(log)
      /\ \E n \in start.after + 1 .. through.after : log[n].kind = "operation_finished"
      /\ ~cmd.json /\ verdict # "operation failed" => AllShown
  BY <1>1 DEF FinalTrue
<1>3. PICK n \in start.after + 1 .. through.after : log[n].kind = "operation_finished"
  BY <1>2
<1>4. PICK a \in Nat, b \in 0 .. Len(log) : a = start.after /\ b = through.after
  BY <1>2 DEF StartTrue, Reached, Cursors
<1>5. log \in Seq(ToSet(log)) /\ Len(log) \in Nat /\ a <= b
  <2>1. log \in Seq(ToSet(log)) /\ Len(log) \in Nat
    BY DEF LogTyped
  <2> QED BY <1>3, <1>4, <2>1
<1>6. PICK t : t = SubSeq(log, a + 1, b)
  OBVIOUS
<1>7. t \in Seq(ToSet(log)) /\ Len(t) = b - a /\ \A i \in 1 .. b - a : t[i] = log[a + i]
  <2>1. /\ SubSeq(log, a + 1, b) \in Seq(ToSet(log)) /\ Len(SubSeq(log, a + 1, b)) = b - a
        /\ \A i \in 1 .. b - a : SubSeq(log, a + 1, b)[i] = log[a + i]
    BY <1>5, PartOf
  <2> QED BY <1>6, <2>1
<1>8. PICK i \in 1 .. b - a : n = a + i
  <2>1. n - a \in 1 .. b - a /\ n = a + (n - a)
    BY <1>3, <1>4, <1>5
  <2> QED BY <2>1
<1>9. i \in DOMAIN t /\ t[i].kind = "operation_finished"
  BY <1>3, <1>7, <1>8
<1>10. t = Since(through)
  BY <1>4, <1>6 DEF Since
<1> QED BY <1>2, <1>9, <1>10

(* wait_for_flash_operation, write_flash_events, capture_loop: with --json  *)
(* every event since the operation began is printed once and in order,      *)
(* through the flash and the capture behind it; the raw log has no gap; and *)
(* a flash that is over was followed to its last event, each of its         *)
(* segments shown complete and verified if it succeeded.                    *)
THEOREM EventsAreShown == Spec => []EventsShown
<1>1. ShownInv => EventsShown
  <2>1. SUFFICES ASSUME ShownInv PROVE EventsShown
    OBVIOUS
  <2>2. LogTyped /\ StartTrue /\ FinalTrue /\ PrintedTrue /\ RawTrue
    BY <2>1 DEF ShownInv, SeenInv, ClientInv, ReportInv
  <2> QED BY <2>2, PrintedInOrder, LastIsShown DEF EventsShown
<1> QED BY <1>1, ShownAlways, PTL

=============================================================================
