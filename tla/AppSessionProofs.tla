-------------------------- MODULE AppSessionProofs --------------------------
(***************************************************************************)
(* Theorems about an application session, for queues of any length and any *)
(* number of sessions, requests, resets and lost ports.                    *)
(*                                                                         *)
(*   RequestsRunOnce      the handler is called once for a request;        *)
(*   AnswersAreTheirOwn   what the host hears of a request is about it;    *)
(*   SessionsAgree        host and firmware are in the same session;       *)
(*   ConsoleIsHarmless    console output does not end the session;         *)
(*   FramesAreSent        tx_task never sleeps on a frame.                 *)
(*                                                                         *)
(* The invariant (SessionInv) says that hellos and requests pass every     *)
(* place between the host and the handler in the order they were made in   *)
(* (PathInOrder), and that every frame on its way back is true whenever    *)
(* the host reads it (RepliesAreTrue).                                     *)
(***************************************************************************)
EXTENDS AppSession, SequenceLemmas, TLAPS

-----------------------------------------------------------------------------
(* Types of what moves through the link. *)

Frames == [kind : Kinds, session : Nat, request : Nat, of : Nat \X Nat]
Items == {item \in [is : {"frame", "cut", "open", "text", "corrupt"}, f : Frames] :
            item.is \in {"text", "corrupt"} => item.f = NoFrame}
Decoders == [mid : BOOLEAN, f : Frames]

HostTyped ==
  /\ host \in [session : [session : Nat, valid : BOOLEAN, next : Nat \ {0}, dec : Decoders],
               pending : [kind : {"none", "ack", "response"}, request : Nat]]
  /\ answers = [r \in DOMAIN answers |-> answers[r]]
  /\ DOMAIN answers \subseteq Nat \X Nat
  /\ used \in [Events -> Nat]

LinkTyped == toDevice \in Seq(Items) /\ toHost \in Seq(Items)

DeviceTyped ==
  /\ session \in Nat
  /\ control \in Seq(Frames) /\ console \in Seq({NoFrame}) /\ requests \in Seq(Frames)
  /\ input \in Seq(Nat)
  /\ rx \in [pc : {"idle", "reset", "ack", "notify"}, todo : Seq(Items)]
  /\ tx \in [pc : {"idle", "console", "wait", "gate", "send"}, f : Frames]
  /\ cmd \in [pc : {"idle", "taken", "call", "reply", "notify"}, f : Frames]
  /\ app \in [pc : {"idle", "publish", "notify"}, f : Frames]
  /\ rxDec \in Decoders
  /\ ran \in Seq(Nat \X Nat)

Typed == HostTyped /\ LinkTyped /\ DeviceTyped

-----------------------------------------------------------------------------
(* Hellos and requests pass the wire, the decoder, rx_task and the request  *)
(* queue in the order the host sent them in: by session, and by request ID  *)
(* in a session, the hello first.                                           *)

Run(f) == <<f.session, f.request>>
Earlier(p, q) == p[1] < q[1] \/ (p[1] = q[1] /\ p[2] < q[2])

Tracked(f) == f.kind \in {"hello", "request"}
Before(f, g) == Tracked(f) /\ Tracked(g) => Earlier(Run(f), Run(g))

(* What is still behind each place of that path.                            *)
Unread == {toDevice[i].f : i \in DOMAIN toDevice}
Undecoded == Unread \cup {rxDec.f}
Unhandled == Undecoded \cup {rx.todo[i].f : i \in DOMAIN rx.todo}
Untaken == Unhandled \cup {requests[i] : i \in DOMAIN requests}
Uncalled == Untaken \cup {cmd.f}

WireInOrder ==
  /\ \A i, j \in DOMAIN toDevice : i < j => Before(toDevice[i].f, toDevice[j].f)
  /\ \A g \in Unread : Before(rxDec.f, g)

TodoInOrder ==
  /\ \A i, j \in DOMAIN rx.todo : i < j => Before(rx.todo[i].f, rx.todo[j].f)
  /\ \A i \in DOMAIN rx.todo, g \in Undecoded : Before(rx.todo[i].f, g)

RequestsInOrder ==
  /\ \A i \in DOMAIN requests : requests[i].kind = "request"
  /\ \A i, j \in DOMAIN requests : i < j => Before(requests[i], requests[j])
  /\ \A i \in DOMAIN requests, g \in Unhandled : Before(requests[i], g)

CallsInOrder ==
  /\ cmd.pc \in {"taken", "call"} => cmd.f.kind = "request"
  /\ \A g \in Untaken : Before(cmd.f, g)
  /\ \A i, j \in DOMAIN ran : i < j => Earlier(ran[i], ran[j])
  /\ \A i \in DOMAIN ran, g \in Uncalled : Tracked(g) => Earlier(ran[i], Run(g))

(* The host made it: in an earlier session, or before the ID it gives next. *)
Made(r) ==
  /\ r[1] \in 1 .. used["session"] /\ r[2] \in Nat
  /\ r[1] = host.session.session => r[2] < host.session.next

HostCounts ==
  /\ host.session.session \in {0, used["session"]}
  /\ host.session.session = 0 => host.session = NoSession
  /\ host.pending.kind = "ack" => ~host.session.valid
  /\ host.pending.kind = "response" =>
       host.session.valid /\ <<host.session.session, host.pending.request>> \in DOMAIN answers
  /\ \A r \in DOMAIN answers : Made(r)

AllMade ==
  /\ \A g \in Uncalled : Tracked(g) => Made(Run(g))
  /\ \A g \in Uncalled : g.kind = "request" => Run(g) \in DOMAIN answers
  /\ Ran \subseteq DOMAIN answers

(* A hello has no request ID, a request no result yet.                      *)
SentPlain ==
  \A g \in Uncalled : /\ g.kind = "hello" => g.request = 0
                      /\ g.kind = "request" => g.of = NoRun

-----------------------------------------------------------------------------
(* What the device sends is true when the host reads it, however late.      *)

Coming ==
  {control[i] : i \in DOMAIN control} \cup {cmd.f, app.f, tx.f} \cup
  {toHost[i].f : i \in DOMAIN toHost} \cup {host.session.dec.f}

(* The hello of session s was handled: those not handled yet are of later   *)
(* sessions, and a device that has a session has that one or a later one.   *)
Past(s) ==
  /\ s <= used["session"]
  /\ \A g \in Unhandled : g.kind = "hello" => s < g.session
  /\ session # 0 => s <= session

Refused(r) == r \in DOMAIN answers /\ r \notin Ran /\ \A g \in Uncalled : g.kind = "request" => Run(g) # r
Executed(f) == f.of = Run(f) /\ Run(f) \in Ran

True(f) ==
  /\ f.kind = "ack" => Past(f.session)
  /\ f.kind = "response" => Executed(f)
  /\ f.kind = "error" => Executed(f) \/ (f.of = NoRun /\ Refused(Run(f)))

RepliesAreTrue == \A f \in Coming : True(f)

HelloInHand ==
  /\ session <= used["session"]
  /\ rx.pc \in {"reset", "ack"} =>
       /\ rx.todo # <<>> /\ Todo.f.kind = "hello" /\ Todo.f.session = session

(* An answer the host has noted says what became of the request.            *)
AnswersAreTrue ==
  \A r \in DOMAIN answers :
    /\ answers[r].how = "ok" => answers[r].of = r /\ r \in Ran
    /\ answers[r].how = "error" =>
         (answers[r].of = r /\ r \in Ran) \/ (answers[r].of = NoRun /\ Refused(r))

SessionPast == host.session.valid => Past(host.session.session)

InputIsOwn == rx.pc # "reset" => \A i \in DOMAIN input : input[i] = session

(* After the acknowledgement of the session the device has, no text.        *)
NoText == ~HasText(toHost) /\ (tx.pc = "send" => tx.f.session # 0)
AcknowledgedIn(f) == f.kind = "ack" /\ f.session = session

FramedSince ==
  session # 0 =>
    /\ \A i \in DOMAIN toHost : AcknowledgedIn(toHost[i].f) =>
         /\ \A j \in DOMAIN toHost : i < j => toHost[j].is # "text"
         /\ tx.pc = "send" => tx.f.session # 0
    /\ AcknowledgedIn(host.session.dec.f) \/ (host.session.valid /\ host.session.session = session)
         => NoText

-----------------------------------------------------------------------------
(* What the decoders make of the wire. *)

(* The frames that decoder and items hold.                                  *)
Seen(d, items) == {NoFrame, d.f} \cup {items[i].f : i \in DOMAIN items}
DecodersOf(F) == {d \in Decoders : d.f \in F}
ItemsOf(F) == {item \in Items : item.f \in F}

LEMMA NoFrameTyped == NoFrame \in Frames /\ ~Tracked(NoFrame) /\ NoFrame.kind = "console"
BY DEF NoFrame, Frame, NoRun, Frames, Kinds, Tracked

LEMMA TextTyped == Text \in Items /\ Text.is = "text" /\ Text.f = NoFrame
BY NoFrameTyped DEF Text, Items

LEMMA WholeTyped == ASSUME NEW f \in Frames PROVE Whole(f) \in Items /\ Whole(f).f = f /\ Whole(f).is = "frame"
BY DEF Whole, Items

LEMMA BetweenTyped == Between \in Decoders /\ Between.f = NoFrame
BY NoFrameTyped DEF Between, Decoders

LEMMA InsideTyped == ASSUME NEW f \in Frames PROVE Inside(f) \in Decoders /\ Inside(f).f = f
BY DEF Inside, Decoders

LEMMA CutsTyped ==
  ASSUME NEW item \in Items, NEW part \in Cuts(item)
  PROVE  part \in Items /\ (part.is = "text" <=> item.is = "text") /\ part.f \in {item.f, NoFrame}
<1>1. CASE item.is = "text"
  BY <1>1, TextTyped DEF Cuts
<1>2. CASE item.is # "text"
  <2>1. PICK is \in {"cut", "open"} : part = [item EXCEPT !.is = is]
    BY <1>2 DEF Cuts
  <2>2. part.is = is /\ part.f = item.f /\ part \in Items
    BY <2>1 DEF Items
  <2> QED BY <1>2, <2>2
<1> QED BY <1>1, <1>2

LEMMA ClosedTyped ==
  ASSUME NEW F \in SUBSET Frames, NoFrame \in F, NEW d \in DecodersOf(F)
  PROVE  Closed(d) \in Seq(ItemsOf(F)) /\ Len(Closed(d)) \in {0, 1} /\
         \A i \in DOMAIN Closed(d) : i = 1 /\ Closed(d)[i].f = d.f
<1> DEFINE item == [is |-> IF Broken(d) THEN "corrupt" ELSE "frame", f |-> d.f]
<1>1. item \in ItemsOf(F) /\ item.f = d.f
  BY DEF ItemsOf, Items, DecodersOf, Decoders, Broken
<1>2. CASE ~d.mid
  BY <1>2 DEF Closed
<1>3. CASE d.mid
  <2>1. Closed(d) = <<item>>
    BY <1>3 DEF Closed
  <2> HIDE DEF item
  <2> QED BY <2>1, <1>1
<1> QED BY <1>2, <1>3

(* One item, as Decode takes it: it leaves a decoder and gives items that   *)
(* hold what it held and what the item held, and nothing else.              *)
LEMMA DecodeTyped ==
  ASSUME NEW F \in SUBSET Frames, NoFrame \in F, NEW d \in DecodersOf(F), NEW item \in ItemsOf(F)
  PROVE  Decode(d, item).d \in DecodersOf(F) /\ Decode(d, item).out \in Seq(ItemsOf(F))
<1>1. item.f \in F /\ item.f \in Frames /\ item \in Items
  BY DEF ItemsOf
<1>2. Between \in DecodersOf(F) /\ Inside(NoFrame) \in DecodersOf(F) /\ Inside(item.f) \in DecodersOf(F)
  BY <1>1, BetweenTyped, InsideTyped, NoFrameTyped DEF DecodersOf
<1>3. Closed(d) \in Seq(ItemsOf(F))
  BY ClosedTyped
<1>4. <<item>> \in Seq(ItemsOf(F)) /\ <<>> \in Seq(ItemsOf(F))
  OBVIOUS
<1>5. Closed(d) \o <<item>> \in Seq(ItemsOf(F))
  BY <1>3, <1>4, ConcatProperties
<1> HIDE DEF ItemsOf
<1>6. CASE item.is = "frame"
  BY <1>2, <1>5, <1>6 DEF Decode
<1>7. CASE item.is = "cut"
  BY <1>2, <1>3, <1>7 DEF Decode
<1>8. CASE item.is = "open"
  BY <1>2, <1>3, <1>8 DEF Decode
<1>9. CASE item.is \notin {"frame", "cut", "open"}
  BY <1>2, <1>4, <1>9 DEF Decode
<1> QED BY <1>6, <1>7, <1>8, <1>9

(* A whole read, by induction on the items of the wire.                     *)
LEMMA DecodeAllTyped ==
  ASSUME NEW d \in Decoders, NEW items \in Seq(Items)
  PROVE  /\ DecodeAll(d, items).d \in DecodersOf(Seen(d, items))
         /\ DecodeAll(d, items).out \in Seq(ItemsOf(Seen(d, items)))
<1> DEFINE F == Seen(d, items)
           States == [d : DecodersOf(F), out : Seq(ItemsOf(F))]
           first == [d |-> d, out |-> <<>>]
           Then(s, item) == [d |-> Decode(s.d, item).d, out |-> s.out \o Decode(s.d, item).out]
           IsUpto(u) == u = [n \in 0 .. Len(items) |-> IF n = 0 THEN first ELSE Then(u[n - 1], items[n])]
           g == [p \in States \X (1 .. Len(items)) |-> Then(p[1], items[p[2]])]
<1>1. PICK N \in Nat : N = Len(items) /\ DOMAIN items = 1 .. N
  OBVIOUS
<1>2. F \in SUBSET Frames /\ NoFrame \in F /\ d \in DecodersOf(F) /\ \A i \in 1 .. N : items[i] \in ItemsOf(F)
  <2>0. \A i \in 1 .. N : items[i] \in Items
    BY <1>1
  <2>1. \A i \in 1 .. N : items[i] \in Items /\ items[i].f \in Frames
    BY <2>0 DEF Items
  <2>2. d.f \in Frames
    BY DEF Decoders
  <2> QED BY <1>1, <2>1, <2>2, NoFrameTyped DEF Seen, DecodersOf, ItemsOf
<1> HIDE DEF F
<1>3. first \in States
  BY <1>2
<1>4. ASSUME NEW s \in States, NEW item \in ItemsOf(F) PROVE Then(s, item) \in States
  <2>1. s.d \in DecodersOf(F) /\ s.out \in Seq(ItemsOf(F))
    OBVIOUS
  <2>2. Decode(s.d, item).d \in DecodersOf(F) /\ Decode(s.d, item).out \in Seq(ItemsOf(F))
    BY <2>1, <1>2, DecodeTyped
  <2>3. s.out \o Decode(s.d, item).out \in Seq(ItemsOf(F))
    BY <2>1, <2>2, ConcatProperties
  <2> QED BY <2>2, <2>3
<1> HIDE DEF States, first, Then
<1>5. g \in [States \X (1 .. N) -> States]
  BY <1>1, <1>2, <1>4
<1>6. PICK f \in [0 .. N -> States] : Recurs(f, first, N, g)
  <2> HIDE DEF g
  <2> QED BY <1>3, <1>5, Recursion
<1>7. f[0] = first /\ \A n \in 1 .. N : f[n] = Then(f[n - 1], items[n])
  <2>1. \A n \in 1 .. N : <<f[n - 1], n>> \in States \X (1 .. N)
    <3>1. \A n \in 1 .. N : n - 1 \in 0 .. N
      OBVIOUS
    <3> QED BY <3>1
  <2>2. \A p \in States \X (1 .. N) : g[p] = Then(p[1], items[p[2]])
    BY <1>1
  <2>3. f[0] = first /\ \A n \in 1 .. N : f[n] = g[<<f[n - 1], n>>]
    BY <1>6 DEF Recurs
  <2> HIDE DEF g
  <2> QED BY <2>1, <2>2, <2>3
<1>8. IsUpto(f)
  <2>1. \A n \in 0 .. N : n # 0 => n \in 1 .. N
    OBVIOUS
  <2> QED BY <1>1, <1>7, <2>1
<1>9. PICK u : u = CHOOSE h : IsUpto(h)
  OBVIOUS
<1>10. IsUpto(u)
  <2> HIDE DEF IsUpto
  <2> QED BY <1>8, <1>9
<1>11. DecodeAll(d, items) = u[N]
  BY <1>1, <1>9 DEF DecodeAll, Then, first
<1>12. u[0] = first /\ \A n \in 1 .. N : u[n] = Then(u[n - 1], items[n])
  <2>1. 0 \in 0 .. N /\ \A n \in 1 .. N : n \in 0 .. N /\ n # 0
    OBVIOUS
  <2> QED BY <1>1, <1>10, <2>1
<1> DEFINE T == {n \in Nat : n <= N => u[n] \in States}
<1>13. T = Nat
  <2>1. 0 \in T
    BY <1>3, <1>12
  <2>2. ASSUME NEW n \in T PROVE n + 1 \in T
    <3>1. SUFFICES ASSUME n + 1 <= N PROVE u[n + 1] \in States
      OBVIOUS
    <3>2. n + 1 \in 1 .. N /\ (n + 1) - 1 = n /\ u[n] \in States
      BY <3>1
    <3> QED BY <1>2, <1>4, <1>12, <3>2
  <2>3. T \in SUBSET Nat
    OBVIOUS
  <2> HIDE DEF T
  <2> QED BY <2>1, <2>2, <2>3, Induction
<1>14. u[N] \in States
  <2>1. N \in T
    <3> HIDE DEF T
    <3> QED BY <1>13
  <2> QED BY <2>1
<1> QED BY <1>11, <1>14 DEF States, F

(* The reply a read ends with is one of what it decoded, and matches.       *)
LEMMA ReplyMatches ==
  ASSUME NEW S, NEW out \in Seq(S), SelectLastInSeq(out, Matches) # 0
  PROVE  /\ SelectLastInSeq(out, Matches) \in DOMAIN out
         /\ Matches(out[SelectLastInSeq(out, Matches)])
<1> DEFINE I == {i \in 1 .. Len(out) : Matches(out[i])}
<1>1. I # {} /\ SelectLastInSeq(out, Matches) = Max(I)
  BY DEF SelectLastInSeq
<1>2. PICK n \in Nat : n = Len(out) /\ I \in SUBSET (0 .. n)
  OBVIOUS
<1>3. \E x \in I : \A y \in I : y <= x
  <2> HIDE DEF I
  <2> QED BY <1>1, <1>2, GreatestNumber
<1>4. \E x \in I : \A y \in I : x >= y
  <2>1. \A x, y \in I : y <= x => x >= y
    OBVIOUS
  <2> QED BY <1>3, <2>1
<1>5. Max(I) \in I
  BY <1>4 DEF Max
<1> QED BY <1>1, <1>5

-----------------------------------------------------------------------------
(* Types. *)

LEMMA TypedStart == ASSUME SessionAssumption, Init PROVE Typed
<1>1. NoSession = [session |-> 0, valid |-> FALSE, next |-> 1, dec |-> Between] /\ Between \in Decoders
  BY BetweenTyped DEF NoSession
<1>2. HostTyped
  <2>1. host = [session |-> NoSession, pending |-> [kind |-> "none", request |-> 0]]
    BY DEF Init, Offline, NoPending
  <2>2. answers = [r \in DOMAIN answers |-> answers[r]] /\ DOMAIN answers = {}
    BY DEF Init
  <2>3. used \in [Events -> Nat]
    BY DEF Init
  <2> QED BY <1>1, <2>1, <2>2, <2>3 DEF HostTyped
<1>3. LinkTyped
  BY DEF Init, LinkTyped
<1>4. DeviceTyped
  <2>1. Resting = [pc |-> "idle", f |-> NoFrame] /\ NoFrame \in Frames /\ Between \in Decoders
    BY NoFrameTyped, BetweenTyped DEF Resting, Task
  <2> QED BY <2>1 DEF Init, FreshDevice, DeviceTyped
<1> QED BY <1>2, <1>3, <1>4 DEF Typed

LEMMA DeviceSame == ASSUME DeviceTyped, UNCHANGED device PROVE DeviceTyped'
BY DEF DeviceTyped, device, queues, tasks

LEMMA FrameTyped ==
  ASSUME NEW kind \in Kinds, NEW s \in Nat, NEW id \in Nat, NEW of \in Nat \X Nat
  PROVE  /\ Frame(kind, s, id, of) \in Frames
         /\ Frame(kind, s, id, of).kind = kind /\ Run(Frame(kind, s, id, of)) = <<s, id>>
         /\ Frame(kind, s, id, of).of = of /\ Frame(kind, s, id, of).session = s
BY DEF Frame, Frames, Run

LEMMA SpendTyped ==
  ASSUME used \in [Events -> Nat], NEW event \in Events, Spend(event)
  PROVE  /\ used' \in [Events -> Nat] /\ used'[event] = used[event] + 1
         /\ \A e \in Events : e # event => used'[e] = used[e]
BY DEF Spend

(* An answer is noted for the pending request and no other.                 *)
LEMMA AnsweredTyped ==
  ASSUME HostTyped, NEW how, NEW of, Answered(how, of)
  PROVE  /\ answers' = [r \in DOMAIN answers |-> answers'[r]] /\ DOMAIN answers' = DOMAIN answers
         /\ \A r \in DOMAIN answers :
              \/ answers'[r] = answers[r]
              \/ /\ host.pending.kind = "response"
                 /\ r = <<host.session.session, host.pending.request>>
                 /\ answers'[r] = [how |-> how, of |-> of]
<1> DEFINE p == <<host.session.session, host.pending.request>>
<1>1. answers = [r \in DOMAIN answers |-> answers[r]]
  BY DEF HostTyped
<1>2. CASE host.pending.kind # "response"
  BY <1>1, <1>2 DEF Answered
<1>3. CASE host.pending.kind = "response"
  <2>1. answers' = [answers EXCEPT ![p] = [how |-> how, of |-> of]]
    BY <1>3 DEF Answered
  <2>2. answers' = [r \in DOMAIN answers |-> IF r = p THEN [how |-> how, of |-> of] ELSE answers[r]]
    BY <2>1
  <2> HIDE DEF p
  <2>3. DOMAIN answers' = DOMAIN answers
    BY <2>2
  <2>4. \A r \in DOMAIN answers :
          answers'[r] = answers[r] \/ (r = p /\ answers'[r] = [how |-> how, of |-> of])
    <3> TAKE r \in DOMAIN answers
    <3>1. answers'[r] = IF r = p THEN [how |-> how, of |-> of] ELSE answers[r]
      BY <2>2
    <3> QED BY <3>1
  <2>5. answers' = [r \in DOMAIN answers |-> answers'[r]]
    BY <2>2
  <2> QED BY <1>3, <2>3, <2>4, <2>5 DEF p
<1> QED BY <1>2, <1>3

LEMMA OfflineTyped ==
  /\ Offline \in [session : [session : Nat, valid : BOOLEAN, next : Nat \ {0}, dec : Decoders],
                  pending : [kind : {"none", "ack", "response"}, request : Nat]]
  /\ Offline.session = NoSession /\ Offline.pending = NoPending
  /\ NoSession.session = 0 /\ NoSession.valid = FALSE /\ NoSession.dec = Between /\ NoSession.next = 1
  /\ NoPending.kind = "none"
BY BetweenTyped DEF Offline, NoSession, NoPending

(* What a read of n items does, by the frames it may have heard.            *)
Heard(n) == Seen(host.session.dec, SubSeq(toHost, 1, n))

Decoded(d) == [host.session EXCEPT !.dec = d]

HearsNothing(n) ==
  /\ host.session # NoSession
  /\ \E d \in DecodersOf(Heard(n)) : host' = [host EXCEPT !.session = Decoded(d)]
  /\ answers' = answers

HearsReply(n, f) ==
  /\ host.session # NoSession /\ Pending
  /\ f.session = host.session.session /\ f.request = host.pending.request
  /\ f.kind \in {host.pending.kind, "error"}
  /\ Answered(IF f.kind = "error" THEN "error" ELSE "ok", f.of)
  /\ \/ f.kind = "error" /\ host' = Offline
     \/ /\ f.kind = "error" => host.session.valid
        /\ \E d \in DecodersOf(Heard(n)) :
             host' = [session |-> [Decoded(d) EXCEPT !.valid = TRUE], pending |-> NoPending]

LEMMA ReadEffect ==
  ASSUME HostTyped, LinkTyped, Read
  PROVE  /\ UNCHANGED <<toDevice, device, used>>
         /\ \E n \in 0 .. Len(toHost) :
              /\ toHost' = SubSeq(toHost, n + 1, Len(toHost))
              /\ \/ UNCHANGED <<host, answers>>
                 \/ Answered("unknown", NoRun) /\ host' = Offline
                 \/ HearsNothing(n)
                 \/ \E f \in Heard(n) : HearsReply(n, f)
<1>1. PICK n \in 1 .. MaxRead :
        /\ n <= Len(toHost) /\ toHost' = SubSeq(toHost, n + 1, Len(toHost))
        /\ \/ ReadPlain(SubSeq(toHost, 1, n))
           \/ ReadEnds(SubSeq(toHost, 1, n))
           \/ ReadReply(SubSeq(toHost, 1, n))
        /\ UNCHANGED <<toDevice, device, used>>
  BY DEF Read
<1> DEFINE items == SubSeq(toHost, 1, n)
<1>2. n \in 0 .. Len(toHost) /\ items \in Seq(Items)
  BY <1>1, PrefixOf DEF LinkTyped
<1>3. CASE ReadPlain(items)
  BY <1>1, <1>2, <1>3 DEF ReadPlain
<1>4. CASE ReadEnds(items)
  BY <1>1, <1>2, <1>4 DEF ReadEnds
<1>5. CASE ReadReply(items)
  <2> DEFINE read == DecodeAll(host.session.dec, items)
             reply == SelectLastInSeq(read.out, Matches)
  <2>1. host.session.dec \in Decoders
    BY DEF HostTyped
  <2>2. read.d \in DecodersOf(Heard(n)) /\ read.out \in Seq(ItemsOf(Heard(n)))
    BY <1>2, <2>1, DecodeAllTyped DEF Heard
  <2>3. CASE ~(Pending /\ reply # 0)
    <3>1. HearsNothing(n)
      BY <1>5, <2>2, <2>3 DEF ReadReply, HearsNothing, Decoded
    <3> QED BY <1>1, <1>2, <3>1
  <2>4. CASE Pending /\ reply # 0
    <3>1. reply \in DOMAIN read.out /\ Matches(read.out[reply])
      BY <2>2, <2>4, ReplyMatches
    <3> DEFINE f == read.out[reply].f
    <3>2. read.out[reply] \in ItemsOf(Heard(n))
      <4> HIDE DEF read, reply
      <4> QED BY <2>2, <3>1
    <3>3. f \in Heard(n)
      BY <3>2 DEF ItemsOf
    <3>4. f.session = host.session.session /\ f.request = host.pending.request
          /\ f.kind \in {host.pending.kind, "error"}
      BY <3>1 DEF Matches
    <3>5. /\ host.session # NoSession
          /\ Answered(IF f.kind = "error" THEN "error" ELSE "ok", f.of)
          /\ host' = [session |-> IF f.kind = "error" /\ ~host.session.valid THEN NoSession
                                  ELSE [Decoded(read.d) EXCEPT !.valid = TRUE],
                      pending |-> NoPending]
      BY Zenon, <1>5, <2>4 DEF ReadReply, Decoded
    <3> HIDE DEF f, reply, read
    <3>6. \/ f.kind = "error" /\ host' = Offline
          \/ /\ f.kind = "error" => host.session.valid
             /\ host' = [session |-> [Decoded(read.d) EXCEPT !.valid = TRUE], pending |-> NoPending]
      <4>1. CASE f.kind = "error" /\ ~host.session.valid
        BY <3>5, <4>1 DEF Offline
      <4>2. CASE ~(f.kind = "error" /\ ~host.session.valid)
        BY <3>5, <4>2
      <4> QED BY <4>1, <4>2
    <3>7. HearsReply(n, f)
      BY <2>2, <2>4, <3>4, <3>5, <3>6 DEF HearsReply
    <3> QED BY <1>1, <1>2, <3>3, <3>7
  <2> QED BY <2>3, <2>4
<1> QED BY <1>1, <1>3, <1>4, <1>5

(* A port that is lost cuts the wire to the device short.                   *)
LEMMA PortLostEffect ==
  ASSUME LinkTyped, PortLost
  PROVE  /\ \E n \in 0 .. Len(toHost) : toHost' = SubSeq(toHost, n + 1, Len(toHost))
         /\ toDevice' \in Seq(Items) /\ Len(toDevice') <= Len(toDevice)
         /\ \A i \in DOMAIN toDevice' : i \in DOMAIN toDevice /\ toDevice'[i].f \in {toDevice[i].f, NoFrame}
         /\ host' = Offline /\ Answered("unknown", NoRun) /\ UNCHANGED device
<1>1. PICK n \in 0 .. Len(toDevice) :
        \/ toDevice' = SubSeq(toDevice, 1, n)
        \/ /\ n < Len(toDevice)
           /\ \E item \in Cuts(toDevice[n + 1]) : toDevice' = SubSeq(toDevice, 1, n) \o <<item>>
  BY DEF PortLost
<1>2. toDevice \in Seq(Items)
  BY DEF LinkTyped
<1> DEFINE s == SubSeq(toDevice, 1, n)
<1>3. s \in Seq(Items) /\ Len(s) = n /\ DOMAIN s = 1 .. n /\ \A i \in 1 .. n : i \in DOMAIN toDevice /\ s[i] = toDevice[i]
  BY <1>2, PrefixOf
<1> DEFINE Shorter ==
             /\ toDevice' \in Seq(Items) /\ Len(toDevice') <= Len(toDevice)
             /\ \A i \in DOMAIN toDevice' : i \in DOMAIN toDevice /\ toDevice'[i].f \in {toDevice[i].f, NoFrame}
<1>4. ASSUME toDevice' = s PROVE Shorter
  BY <1>2, <1>3, <1>4
<1>5. ASSUME n < Len(toDevice), \E item \in Cuts(toDevice[n + 1]) : toDevice' = s \o <<item>>
      PROVE  Shorter
  <2>1. n + 1 \in DOMAIN toDevice /\ toDevice[n + 1] \in Items
    BY <1>2, <1>5
  <2>2. PICK item \in Cuts(toDevice[n + 1]) : toDevice' = s \o <<item>>
    BY <1>5
  <2>3. item \in Items /\ item.f \in {toDevice[n + 1].f, NoFrame}
    BY <2>1, <2>2, CutsTyped
  <2> HIDE DEF s
  <2>4. toDevice' = Append(s, item)
    BY <1>3, <2>2, <2>3
  <2>5. /\ toDevice' \in Seq(Items) /\ DOMAIN toDevice' = 1 .. n + 1 /\ Len(toDevice') = n + 1
        /\ toDevice'[n + 1] = item /\ \A i \in 1 .. n : toDevice'[i] = s[i]
    BY <1>3, <2>3, <2>4
  <2>6. \A i \in 1 .. n + 1 : i \in 1 .. n \/ i = n + 1
    OBVIOUS
  <2>7. ASSUME NEW i \in DOMAIN toDevice'
        PROVE  i \in DOMAIN toDevice /\ toDevice'[i].f \in {toDevice[i].f, NoFrame}
    <3>1. CASE i = n + 1
      BY <3>1, <2>1, <2>3, <2>5
    <3>2. CASE i \in 1 .. n
      BY <3>2, <1>3, <2>5
    <3> QED BY <2>5, <2>6, <3>1, <3>2
  <2>8. Len(toDevice') <= Len(toDevice)
    BY <1>2, <1>5, <2>5
  <2> QED BY <2>5, <2>7, <2>8
<1>6. Shorter
  BY <1>1, <1>4, <1>5
<1> QED BY <1>6 DEF PortLost

LEMMA SentTyped ==
  ASSUME NEW S, NEW queue \in Seq(S), NEW item \in S, NEW cap
  PROVE  Sent(queue, cap, item) \in Seq(S)
BY AppendTo DEF Sent

LEMMA EnqueueTyped ==
  ASSUME control \in Seq(Frames), NEW f \in Frames, Enqueue(f)
  PROVE  control' \in Seq(Frames) /\ AfterEnqueue \in {"notify", "idle"}
BY SentTyped DEF Enqueue, AfterEnqueue

LEMMA TypedHost == ASSUME SessionAssumption, Typed, HostStep PROVE Typed'
<1> DEFINE Sessions == [session : Nat, valid : BOOLEAN, next : Nat \ {0}, dec : Decoders]
           Pendings == [kind : {"none", "ack", "response"}, request : Nat]
<1>1. HostTyped /\ LinkTyped /\ DeviceTyped
  BY DEF Typed
<1>2. host \in [session : Sessions, pending : Pendings] /\ host.session \in Sessions /\ host.pending \in Pendings
      /\ answers = [r \in DOMAIN answers |-> answers[r]] /\ DOMAIN answers \subseteq Nat \X Nat
      /\ used \in [Events -> Nat]
  BY <1>1 DEF HostTyped
<1>3. toDevice \in Seq(Items) /\ toHost \in Seq(Items)
  BY <1>1 DEF LinkTyped
<1>4. "session" \in Events /\ "input" \in Events /\ "fault" \in Events
  BY DEF Events
<1>5. NoSession \in Sessions /\ NoPending \in Pendings /\ Offline \in [session : Sessions, pending : Pendings]
  BY OfflineTyped DEF Offline
<1>6. NoRun \in Nat \X Nat
  BY DEF NoRun
<1>7. CASE Connect
  <2> DEFINE s == used'["session"]
  <2>1. used' \in [Events -> Nat] /\ s \in Nat
    BY <1>2, <1>4, <1>7, SpendTyped DEF Connect
  <2>2. host' = [session |-> [NoSession EXCEPT !.session = s], pending |-> [kind |-> "ack", request |-> 0]]
        /\ UNCHANGED <<answers, toHost, device>>
        /\ toDevice' = Append(toDevice, Whole(Frame("hello", s, 0, NoRun)))
    BY <1>7 DEF Connect
  <2> HIDE DEF s
  <2>3. [NoSession EXCEPT !.session = s] \in Sessions
    BY <1>5, <2>1
  <2>4. HostTyped'
    BY <1>2, <2>1, <2>2, <2>3 DEF HostTyped
  <2>5. Whole(Frame("hello", s, 0, NoRun)) \in Items
    BY <2>1, <1>6, FrameTyped, WholeTyped DEF Kinds
  <2>6. LinkTyped'
    BY <1>3, <2>2, <2>5 DEF LinkTyped
  <2> QED BY <1>1, <2>2, <2>4, <2>6, DeviceSame DEF Typed
<1>8. CASE Request
  <2> DEFINE s == host.session
             r == <<s.session, s.next>>
  <2>1. host' = [session |-> [s EXCEPT !.next = NextId(s)], pending |-> [kind |-> "response", request |-> s.next]]
        /\ answers' = [x \in {r} \cup DOMAIN answers |->
                         IF x = r THEN [how |-> "pending", of |-> NoRun] ELSE answers[x]]
        /\ toDevice' = Append(toDevice, Whole(Frame("request", s.session, s.next, NoRun)))
        /\ UNCHANGED <<toHost, device, used>>
    BY <1>8 DEF Request
  <2>2. s \in Sessions /\ s.next + 1 \in Nat \ {0} /\ r \in Nat \X Nat
    BY <1>2
  <2>3. host' \in [session : Sessions, pending : Pendings]
    BY <2>1, <2>2 DEF NextId
  <2>5. DOMAIN answers' = {r} \cup DOMAIN answers
    BY <2>1
  <2>6. answers' = [x \in DOMAIN answers' |-> answers'[x]]
    BY <2>1
  <2>7. HostTyped'
    <3> HIDE DEF r, s
    <3> QED BY <1>2, <2>1, <2>2, <2>3, <2>5, <2>6 DEF HostTyped
  <2>8. Whole(Frame("request", s.session, s.next, NoRun)) \in Items
    BY <2>2, <1>6, FrameTyped, WholeTyped DEF Kinds
  <2>9. LinkTyped'
    BY <1>3, <2>1, <2>8 DEF LinkTyped
  <2> QED BY <1>1, <2>1, <2>7, <2>9, DeviceSame DEF Typed
<1>9. CASE ConsoleInput
  <2> DEFINE item == IF host.session.valid THEN Whole(Frame("console", host.session.session, 0, NoRun)) ELSE Text
  <2>1. UNCHANGED <<host, answers, toHost, device>> /\ toDevice' = Append(toDevice, item)
    BY <1>9 DEF ConsoleInput, hostVars
  <2>2. used' \in [Events -> Nat]
    BY <1>2, <1>4, <1>9, SpendTyped DEF ConsoleInput
  <2>3. item \in Items
    BY <1>2, <1>6, FrameTyped, WholeTyped, TextTyped DEF Kinds
  <2> HIDE DEF item
  <2>4. HostTyped'
    BY <1>1, <2>1, <2>2 DEF HostTyped
  <2>5. LinkTyped'
    BY <1>3, <2>1, <2>3 DEF LinkTyped
  <2> QED BY <1>1, <2>1, <2>4, <2>5, DeviceSame DEF Typed
<1>10. CASE Expire
  <2>1. UNCHANGED <<toDevice, toHost, device, used>> /\ Answered("unknown", NoRun)
        /\ host' = [host EXCEPT !.pending = NoPending,
                                !.session = IF host.pending.kind = "ack" THEN NoSession ELSE @]
    BY <1>10 DEF Expire
  <2>2. host' \in [session : Sessions, pending : Pendings]
    BY <1>2, <1>5, <2>1
  <2>3. HostTyped'
    BY <1>1, <1>2, <2>1, <2>2, AnsweredTyped DEF HostTyped
  <2> QED BY <1>1, <2>1, <2>3, DeviceSame DEF Typed, LinkTyped
<1>11. CASE Read
  <2>1. UNCHANGED <<toDevice, device, used>>
    BY <1>1, <1>11, ReadEffect
  <2>2. PICK n \in 0 .. Len(toHost) :
        /\ toHost' = SubSeq(toHost, n + 1, Len(toHost))
        /\ \/ UNCHANGED <<host, answers>>
           \/ Answered("unknown", NoRun) /\ host' = Offline
           \/ HearsNothing(n)
           \/ \E f \in Heard(n) : HearsReply(n, f)
    BY <1>1, <1>11, ReadEffect
  <2>3. LinkTyped'
    BY <1>3, <2>1, <2>2, SuffixOf DEF LinkTyped
  <2>4. ASSUME UNCHANGED <<host, answers>> PROVE HostTyped'
    BY <1>1, <2>1, <2>4 DEF HostTyped
  <2>5. ASSUME Answered("unknown", NoRun), host' = Offline PROVE HostTyped'
    BY <1>1, <1>2, <1>5, <2>1, <2>5, AnsweredTyped DEF HostTyped
  <2>6. \A d \in DecodersOf(Heard(n)) : Decoded(d) \in Sessions /\ [Decoded(d) EXCEPT !.valid = TRUE] \in Sessions
    BY <1>2 DEF Decoded, DecodersOf
  <2>7. ASSUME HearsNothing(n) PROVE HostTyped'
    <3>1. PICK d \in DecodersOf(Heard(n)) : host' = [host EXCEPT !.session = Decoded(d)]
      BY <2>7 DEF HearsNothing
    <3>2. host' \in [session : Sessions, pending : Pendings]
      BY <1>2, <2>6, <3>1
    <3>3. answers' = answers
      BY <2>7 DEF HearsNothing
    <3> QED BY <1>2, <2>1, <3>2, <3>3 DEF HostTyped
  <2>8. ASSUME \E f \in Heard(n) : HearsReply(n, f) PROVE HostTyped'
    <3>1. host' \in [session : Sessions, pending : Pendings]
      BY <1>5, <2>6, <2>8 DEF HearsReply
    <3>2. \E how, of : Answered(how, of)
      BY <2>8 DEF HearsReply
    <3> QED BY <1>1, <1>2, <2>1, <3>1, <3>2, AnsweredTyped DEF HostTyped
  <2>9. HostTyped'
    BY <2>2, <2>4, <2>5, <2>7, <2>8
  <2> QED BY <1>1, <2>1, <2>3, <2>9, DeviceSame DEF Typed
<1>12. CASE PortLost
  <2>1. /\ \E n \in 0 .. Len(toHost) : toHost' = SubSeq(toHost, n + 1, Len(toHost))
        /\ toDevice' \in Seq(Items)
        /\ host' = Offline /\ Answered("unknown", NoRun) /\ UNCHANGED device
    BY <1>1, <1>12, PortLostEffect
  <2>2. LinkTyped'
    BY <1>3, <2>1, SuffixOf DEF LinkTyped
  <2>3. used' \in [Events -> Nat]
    BY <1>2, <1>4, <1>12, SpendTyped DEF PortLost
  <2>4. HostTyped'
    BY <1>1, <1>2, <1>5, <2>1, <2>3, AnsweredTyped DEF HostTyped
  <2> QED BY <1>1, <2>1, <2>2, <2>4, DeviceSame DEF Typed
<1> QED BY <1>7, <1>8, <1>9, <1>10, <1>11, <1>12 DEF HostStep

LEMMA TypedRx == ASSUME Typed, RxStep PROVE Typed'
<1>1. HostTyped /\ LinkTyped /\ DeviceTyped
  BY DEF Typed
<1>2. /\ session \in Nat /\ control \in Seq(Frames) /\ requests \in Seq(Frames) /\ input \in Seq(Nat)
      /\ rx \in [pc : {"idle", "reset", "ack", "notify"}, todo : Seq(Items)]
      /\ rxDec \in Decoders /\ toDevice \in Seq(Items)
  BY <1>1 DEF DeviceTyped, LinkTyped
<1>3. UNCHANGED <<hostVars, toHost, tx, cmd, app, ran, used, console>>
  BY DEF RxStep, RxRead, RxRaw, RxHello, RxReset, RxAck, RxNotify, RxConsole, RxRequest, RxIgnore, queues
<1>4. HostTyped'
  BY <1>1, <1>3 DEF HostTyped, hostVars
<1>5. ASSUME rx.todo # <<>>
      PROVE  /\ Todo \in Items /\ Todo.f \in Frames /\ Tail(rx.todo) \in Seq(Items)
             /\ Handled \in [pc : {"idle", "reset", "ack", "notify"}, todo : Seq(Items)]
             /\ \A pc \in {"idle", "notify"} :
                  [Handled EXCEPT !.pc = pc] \in [pc : {"idle", "reset", "ack", "notify"}, todo : Seq(Items)]
  <2>1. Todo \in Items /\ Tail(rx.todo) \in Seq(Items)
    BY <1>2, <1>5, TailOf DEF Todo
  <2> QED BY <2>1 DEF Handled, Items
<1>6. CASE RxRead
  <2> DEFINE read == Decode(rxDec, Head(toDevice))
  <2>1. rxDec' = read.d /\ rx' = [pc |-> "idle", todo |-> read.out] /\ toDevice' = Tail(toDevice)
        /\ UNCHANGED <<session, queues>> /\ toDevice # <<>>
    BY <1>6 DEF RxRead
  <2>2. Head(toDevice) \in Items /\ Tail(toDevice) \in Seq(Items)
    BY <1>2, <2>1, TailOf
  <2>3. rxDec \in DecodersOf(Frames) /\ Head(toDevice) \in ItemsOf(Frames)
    BY <1>2, <2>2 DEF DecodersOf, Decoders, ItemsOf, Items
  <2>4. read.d \in DecodersOf(Frames) /\ read.out \in Seq(ItemsOf(Frames))
    BY <2>3, NoFrameTyped, DecodeTyped
  <2>5. DecodersOf(Frames) = Decoders /\ ItemsOf(Frames) = Items
    BY DEF DecodersOf, Decoders, ItemsOf, Items
  <2> HIDE DEF read
  <2>6. DeviceTyped'
    BY <1>1, <1>3, <2>1, <2>4, <2>5 DEF DeviceTyped, queues
  <2>7. LinkTyped'
    BY <1>1, <1>3, <2>1, <2>2 DEF LinkTyped
  <2> QED BY <1>4, <2>6, <2>7 DEF Typed
<1>7. CASE RxRaw \/ RxHello \/ RxReset \/ RxAck \/ RxNotify \/ RxConsole \/ RxRequest \/ RxIgnore
  <2>1. UNCHANGED <<toDevice, rxDec>>
    BY <1>7 DEF RxStep, RxRead, RxRaw, RxHello, RxReset, RxAck, RxNotify, RxConsole, RxRequest, RxIgnore, AtRx
  <2>2. LinkTyped'
    BY <1>1, <1>3, <2>1 DEF LinkTyped
  <2> DEFINE Same == /\ session' \in Nat /\ control' \in Seq(Frames) /\ requests' \in Seq(Frames)
                     /\ input' \in Seq(Nat)
                     /\ rx' \in [pc : {"idle", "reset", "ack", "notify"}, todo : Seq(Items)]
  <2>3. ASSUME RxRaw \/ RxConsole PROVE Same
    <3>1. Sent(input, InputCap, session) \in Seq(Nat)
      BY <1>2, SentTyped
    <3>2. CASE RxRaw
      BY <1>2, <1>5, <3>1, <3>2 DEF RxRaw, AtRx
    <3>3. CASE RxConsole
      BY <1>2, <1>5, <3>1, <3>3 DEF RxConsole, AtRx
    <3> QED BY <2>3, <3>2, <3>3
  <2>4. ASSUME RxHello PROVE Same
    <3>1. Todo.f.session \in Nat
      BY <1>5, <2>4 DEF RxHello, AtRx, Frames
    <3> QED BY <1>2, <2>4, <3>1 DEF RxHello, queues
  <2>5. ASSUME RxReset \/ RxNotify PROVE Same
    <3>1. \A pc \in {"idle", "ack"} :
            [rx EXCEPT !.pc = pc] \in [pc : {"idle", "reset", "ack", "notify"}, todo : Seq(Items)]
      BY <1>2
    <3>2. CASE RxReset
      BY <1>2, <3>1, <3>2 DEF RxReset
    <3>3. CASE RxNotify
      BY <1>2, <3>1, <3>3 DEF RxNotify, queues
    <3> QED BY <2>5, <3>2, <3>3
  <2>6. ASSUME RxAck PROVE Same
    <3>1. [Todo.f EXCEPT !.kind = "ack"] \in Frames
      BY <1>5, <2>6 DEF RxAck, AtRx, Frames, Kinds
    <3> QED BY <1>2, <1>5, <2>6, <3>1, EnqueueTyped DEF RxAck, AtRx
  <2>7. ASSUME RxRequest PROVE Same
    <3>1. [Todo.f EXCEPT !.kind = "error"] \in Frames
      BY <1>5, <2>7 DEF RxRequest, AtRx, Frames, Kinds
    <3>2. requests' \in Seq(Frames)
      BY <1>2, <1>5, <2>7, SentTyped DEF RxRequest, AtRx
    <3> QED BY <1>2, <1>5, <2>7, <3>1, <3>2, EnqueueTyped DEF RxRequest, AtRx
  <2>8. ASSUME RxIgnore PROVE Same
    BY <1>2, <1>5, <2>8 DEF RxIgnore, AtRx, queues
  <2>9. Same
    BY <1>7, <2>3, <2>4, <2>5, <2>6, <2>7, <2>8
  <2>10. DeviceTyped'
    BY <1>1, <1>3, <2>1, <2>9 DEF DeviceTyped
  <2> QED BY <1>4, <2>2, <2>10 DEF Typed
<1> QED BY <1>6, <1>7 DEF RxStep

LEMMA TaskTyped ==
  ASSUME NEW f \in Frames, NEW pcs, NEW pc \in pcs
  PROVE  Task(pc, f) \in [pc : pcs, f : Frames] /\ Task(pc, f).pc = pc /\ Task(pc, f).f = f
BY DEF Task

LEMMA RestingTyped == Resting \in [pc : {"idle"}, f : Frames] /\ Resting.pc = "idle" /\ Resting.f = NoFrame
BY NoFrameTyped DEF Resting, Task

LEMMA TypedCmd == ASSUME Typed, CmdStep PROVE Typed'
<1>1. HostTyped /\ LinkTyped /\ DeviceTyped
  BY DEF Typed
<1>2. /\ control \in Seq(Frames) /\ requests \in Seq(Frames) /\ ran \in Seq(Nat \X Nat)
      /\ cmd \in [pc : {"idle", "taken", "call", "reply", "notify"}, f : Frames]
  BY <1>1 DEF DeviceTyped
<1>3. UNCHANGED <<hostVars, toDevice, toHost, session, rxDec, rx, tx, app, used, console, input>>
  BY DEF CmdStep, CmdTake, CmdCheck, CmdCall, CmdReply, CmdNotify, queues
<1>4. HostTyped' /\ LinkTyped'
  BY <1>1, <1>3 DEF HostTyped, LinkTyped, hostVars
<1> DEFINE Same == /\ control' \in Seq(Frames) /\ requests' \in Seq(Frames) /\ ran' \in Seq(Nat \X Nat)
                   /\ cmd' \in [pc : {"idle", "taken", "call", "reply", "notify"}, f : Frames]
<1>5. ASSUME CmdTake PROVE Same
  <2>1. Head(requests) \in Frames /\ Tail(requests) \in Seq(Frames)
    BY <1>2, <1>5, TailOf DEF CmdTake
  <2> QED BY <1>2, <1>5, <2>1, TaskTyped DEF CmdTake
<1>6. ASSUME CmdCheck PROVE Same
  BY <1>2, <1>6, RestingTyped DEF CmdCheck, queues, Task
<1>7. ASSUME CmdCall PROVE Same
  <2> DEFINE run == <<cmd.f.session, cmd.f.request>>
  <2>1. run \in Nat \X Nat /\ run[1] \in Nat /\ run[2] \in Nat
    BY <1>2 DEF Frames
  <2>2. PICK kind \in {"response", "error"} : cmd' = Task("reply", Frame(kind, run[1], run[2], run))
    BY <1>7 DEF CmdCall
  <2>3. cmd' \in [pc : {"idle", "taken", "call", "reply", "notify"}, f : Frames]
    <3> HIDE DEF run
    <3>1. kind \in Kinds
      BY DEF Kinds
    <3>2. Frame(kind, run[1], run[2], run) \in Frames
      BY <2>1, <3>1, FrameTyped
    <3> QED BY <2>2, <3>2 DEF Task
  <2>4. ran' \in Seq(Nat \X Nat)
    BY <1>2, <1>7, <2>1, AppendTo DEF CmdCall
  <2> QED BY <1>2, <1>7, <2>3, <2>4 DEF CmdCall, queues
<1>8. ASSUME CmdReply PROVE Same
  <2>1. control' \in Seq(Frames) /\ AfterEnqueue \in {"notify", "idle"}
    BY <1>2, <1>8, EnqueueTyped DEF CmdReply
  <2>2. Task(AfterEnqueue, NoFrame) \in [pc : {"idle", "taken", "call", "reply", "notify"}, f : Frames]
    BY <2>1, NoFrameTyped DEF Task
  <2> QED BY <1>2, <1>8, <2>1, <2>2 DEF CmdReply
<1>9. ASSUME CmdNotify PROVE Same
  BY <1>2, <1>9, RestingTyped DEF CmdNotify, queues
<1>10. Same
  BY <1>5, <1>6, <1>7, <1>8, <1>9 DEF CmdStep
<1>11. DeviceTyped'
  BY <1>1, <1>3, <1>10 DEF DeviceTyped
<1> QED BY <1>4, <1>11 DEF Typed

LEMMA TypedApp == ASSUME Typed, AppStep PROVE Typed'
<1>1. HostTyped /\ LinkTyped /\ DeviceTyped
  BY DEF Typed
<1>2. /\ control \in Seq(Frames) /\ console \in Seq({NoFrame}) /\ input \in Seq(Nat) /\ session \in Nat
      /\ app \in [pc : {"idle", "publish", "notify"}, f : Frames]
      /\ used \in [Events -> Nat] /\ "output" \in Events
  BY <1>1 DEF DeviceTyped, HostTyped, Events
<1>3. UNCHANGED <<hostVars, toDevice, toHost, session, rxDec, rx, tx, cmd, ran, requests>>
  BY DEF AppStep, AppFinishes, Elsewhere, ConsoleWrite, Publish, Published, AppNotify, ReadInput, queues
<1>4. LinkTyped'
  BY <1>1, <1>3 DEF LinkTyped
<1> DEFINE Same == /\ control' \in Seq(Frames) /\ console' \in Seq({NoFrame}) /\ input' \in Seq(Nat)
                   /\ app' \in [pc : {"idle", "publish", "notify"}, f : Frames]
                   /\ used' \in [Events -> Nat]
<1>5. ASSUME ConsoleWrite PROVE Same
  <2>1. console' \in Seq({NoFrame})
    BY <1>2, <1>5, SentTyped, NoFrameTyped DEF ConsoleWrite
  <2> QED BY <1>2, <1>5, <2>1, SpendTyped, RestingTyped, NoFrameTyped DEF ConsoleWrite, Task
<1>6. ASSUME Publish PROVE Same
  <2>1. Frame("event", session, 0, NoRun) \in Frames
    BY <1>2, FrameTyped DEF Kinds, NoRun
  <2> QED BY <1>2, <1>6, <2>1, SpendTyped, TaskTyped DEF Publish, queues
<1>7. ASSUME Published PROVE Same
  <2>1. control' \in Seq(Frames) /\ AfterEnqueue \in {"notify", "idle"}
    BY <1>2, <1>7, EnqueueTyped DEF Published
  <2>2. Task(AfterEnqueue, NoFrame) \in [pc : {"idle", "publish", "notify"}, f : Frames]
    BY <2>1, NoFrameTyped DEF Task
  <2> QED BY <1>2, <1>7, <2>1, <2>2 DEF Published
<1>8. ASSUME AppNotify PROVE Same
  BY <1>2, <1>8, RestingTyped DEF AppNotify, queues
<1>9. ASSUME ReadInput PROVE Same
  BY <1>2, <1>9, TailOf DEF ReadInput
<1>10. Same
  BY <1>5, <1>6, <1>7, <1>8, <1>9 DEF AppStep, AppFinishes
<1>11. DeviceTyped'
  BY <1>1, <1>3, <1>10 DEF DeviceTyped
<1>12. HostTyped'
  BY <1>1, <1>3, <1>10 DEF HostTyped, hostVars
<1> QED BY <1>4, <1>11, <1>12 DEF Typed

LEMMA OnWireTyped == ASSUME tx.f \in Frames PROVE OnWire \in Items /\ OnWire.f \in {tx.f, NoFrame}
BY TextTyped, WholeTyped DEF OnWire

LEMMA TypedTx == ASSUME Typed, TxStep PROVE Typed'
<1>1. HostTyped /\ LinkTyped /\ DeviceTyped
  BY DEF Typed
<1>2. /\ control \in Seq(Frames) /\ console \in Seq({NoFrame}) /\ session \in Nat /\ toHost \in Seq(Items)
      /\ tx \in [pc : {"idle", "console", "wait", "gate", "send"}, f : Frames] /\ tx.f \in Frames
      /\ used \in [Events -> Nat] /\ "cut" \in Events
  BY <1>1 DEF DeviceTyped, HostTyped, LinkTyped, Events
<1>3. UNCHANGED <<hostVars, toDevice, session, requests, input, rxDec, rx, cmd, app, ran>>
  BY DEF TxStep
<1> DEFINE Same == /\ control' \in Seq(Frames) /\ console' \in Seq({NoFrame}) /\ toHost' \in Seq(Items)
                   /\ tx' \in [pc : {"idle", "console", "wait", "gate", "send"}, f : Frames]
                   /\ used' \in [Events -> Nat]
<1>4. ASSUME TxControl PROVE Same
  <2>1. CASE control # <<>>
    <3>1. Head(control) \in Frames /\ Tail(control) \in Seq(Frames)
      BY <1>2, <2>1, TailOf
    <3>2. /\ tx' = [pc |-> "gate", f |-> Head(control)] /\ control' = Tail(control)
          /\ UNCHANGED <<console, toHost, used>>
      BY <1>4, <2>1 DEF TxControl, Task
    <3>3. tx' \in [pc : {"idle", "console", "wait", "gate", "send"}, f : Frames]
      BY <3>1, <3>2
    <3> QED BY <1>2, <3>1, <3>2, <3>3
  <2>2. CASE control = <<>>
    BY <1>2, <1>4, <2>2, NoFrameTyped DEF TxControl, Task
  <2> QED BY <2>1, <2>2
<1>5. ASSUME TxConsole PROVE Same
  <2>1. CASE console # <<>>
    <3>1. Head(console) \in Frames /\ Tail(console) \in Seq({NoFrame})
      <4>1. Head(console) = NoFrame /\ Tail(console) \in Seq({NoFrame})
        BY <1>2, <2>1, TailOf
      <4> QED BY <4>1, NoFrameTyped
    <3>2. /\ tx' = [pc |-> "gate", f |-> Head(console)] /\ console' = Tail(console)
          /\ UNCHANGED <<control, toHost, used>>
      BY <1>5, <2>1 DEF TxConsole, Task
    <3>3. tx' \in [pc : {"idle", "console", "wait", "gate", "send"}, f : Frames]
      BY <3>1, <3>2
    <3> QED BY <1>2, <3>1, <3>2, <3>3
  <2>2. CASE console = <<>>
    BY <1>2, <1>5, <2>2, NoFrameTyped DEF TxConsole, Task
  <2> QED BY <2>1, <2>2
<1>6. ASSUME TxWakes PROVE Same
  BY <1>2, <1>6, RestingTyped DEF TxWakes
<1>7. ASSUME TxGate PROVE Same
  <2>1. Stamped(tx.f) \in Frames
    BY <1>2 DEF Stamped, Frames
  <2>2. tx' \in {Task("send", Stamped(tx.f)), Task("send", tx.f), Resting}
    BY <1>7 DEF TxGate
  <2>3. tx' \in [pc : {"idle", "console", "wait", "gate", "send"}, f : Frames]
    BY <1>2, <2>1, <2>2, RestingTyped DEF Task
  <2> QED BY <1>2, <1>7, <2>3 DEF TxGate
<1>8. ASSUME TxSend PROVE Same
  BY <1>2, <1>8, OnWireTyped, AppendTo, RestingTyped DEF TxSend
<1>9. ASSUME TxGivesUp PROVE Same
  <2>1. toHost' \in Seq(Items)
    <3>1. CASE UNCHANGED toHost
      BY <1>2, <3>1
    <3>2. CASE \E item \in Cuts(OnWire) : toHost' = Append(toHost, item)
      BY <1>2, <3>2, OnWireTyped, CutsTyped, AppendTo
    <3> QED BY <1>9, <3>1, <3>2 DEF TxGivesUp
  <2> QED BY <1>2, <1>9, <2>1, SpendTyped, RestingTyped DEF TxGivesUp
<1>10. Same
  BY <1>4, <1>5, <1>6, <1>7, <1>8, <1>9 DEF TxStep
<1>11. DeviceTyped'
  BY <1>1, <1>3, <1>10 DEF DeviceTyped
<1>12. HostTyped' /\ LinkTyped'
  BY <1>1, <1>3, <1>10 DEF HostTyped, LinkTyped, hostVars
<1> QED BY <1>11, <1>12 DEF Typed

LEMMA TypedReboot == ASSUME Typed, Reboot PROVE Typed'
<1>1. HostTyped /\ LinkTyped /\ DeviceTyped
  BY DEF Typed
<1>2. /\ toHost \in Seq(Items) /\ toDevice \in Seq(Items) /\ tx.f \in Frames /\ ran \in Seq(Nat \X Nat)
      /\ used \in [Events -> Nat] /\ "fault" \in Events
  BY <1>1 DEF DeviceTyped, HostTyped, LinkTyped, Events
<1>3. DeviceTyped'
  BY <1>2, RestingTyped, BetweenTyped DEF Reboot, DeviceTyped
<1>4. HostTyped'
  <2>1. used' \in [Events -> Nat] /\ UNCHANGED hostVars
    BY <1>2, SpendTyped DEF Reboot
  <2> QED BY <1>1, <2>1 DEF HostTyped, hostVars
<1>5. LinkTyped'
  <2>1. toDevice' \in Seq(Items)
    <3>1. toDevice' \in {toDevice, <<>>}
      BY DEF Reboot
    <3>2. <<>> \in Seq(Items)
      OBVIOUS
    <3> QED BY <1>2, <3>1, <3>2
  <2>2. toHost' \in Seq(Items)
    <3>1. CASE toHost' = Append(toHost, Text)
      BY <1>2, <3>1, TextTyped, AppendTo
    <3>2. CASE \E item \in Cuts(OnWire) : toHost' = toHost \o <<item, Text>>
      <4>1. PICK item \in Cuts(OnWire) : toHost' = toHost \o <<item, Text>>
        BY <3>2
      <4>2. item \in Items /\ Text \in Items
        BY <1>2, <4>1, OnWireTyped, CutsTyped, TextTyped
      <4>3. <<item, Text>> \in Seq(Items)
        BY <4>2
      <4> QED BY <1>2, <4>1, <4>3, ConcatProperties
    <3> QED BY <3>1, <3>2 DEF Reboot
  <2> QED BY <2>1, <2>2 DEF LinkTyped
<1> QED BY <1>3, <1>4, <1>5 DEF Typed

LEMMA TypedStep == ASSUME SessionAssumption, Typed, [Next]_vars PROVE Typed'
<1>1. CASE UNCHANGED vars
  BY <1>1, DeviceSame DEF vars, hostVars, device, Typed, HostTyped, LinkTyped
<1> QED BY <1>1, TypedHost, TypedRx, TypedCmd, TypedApp, TypedTx, TypedReboot DEF Next

-----------------------------------------------------------------------------
(* The order of what the host sends. *)

PathInOrder == WireInOrder /\ TodoInOrder /\ RequestsInOrder /\ CallsInOrder

LEMMA BeforeNothing == ASSUME NEW f, NEW g, ~Tracked(f) \/ ~Tracked(g) PROVE Before(f, g)
BY DEF Before

LEMMA NothingTracked == ASSUME NEW f, f.kind \notin {"hello", "request"} PROVE ~Tracked(f)
BY DEF Tracked

(* Whatever is lost on the way, at whichever place, the rest is in order.   *)
Lossy ==
  /\ \A i \in DOMAIN toDevice' : i \in DOMAIN toDevice /\ toDevice'[i].f \in {toDevice[i].f, NoFrame}
  /\ rxDec'.f \in {rxDec.f, NoFrame}
  /\ rx'.todo \in {rx.todo, <<>>} /\ requests' \in {requests, <<>>}
  /\ ~Tracked(cmd'.f) \/ cmd'.f = cmd.f
  /\ cmd'.pc \in {"taken", "call"} => cmd.pc \in {"taken", "call"} /\ cmd'.f = cmd.f
  /\ ran' = ran

LEMMA LossyPlaces ==
  ASSUME Lossy
  PROVE  /\ \A g \in Unread' : g \in Unread \/ ~Tracked(g)
         /\ \A g \in Undecoded' : g \in Undecoded \/ ~Tracked(g)
         /\ \A g \in Unhandled' : g \in Unhandled \/ ~Tracked(g)
         /\ \A g \in Untaken' : g \in Untaken \/ ~Tracked(g)
         /\ \A g \in Uncalled' : g \in Uncalled \/ ~Tracked(g)
<1>1. \A g \in Unread' : g \in Unread \/ ~Tracked(g)
  BY NoFrameTyped DEF Lossy, Unread
<1>2. \A g \in Undecoded' : g \in Undecoded \/ ~Tracked(g)
  BY <1>1, NoFrameTyped DEF Lossy, Undecoded
<1>3. \A g \in Unhandled' : g \in Unhandled \/ ~Tracked(g)
  <2>1. {rx'.todo[i].f : i \in DOMAIN rx'.todo} \subseteq {rx.todo[i].f : i \in DOMAIN rx.todo}
    BY DEF Lossy
  <2> QED BY <1>2, <2>1 DEF Unhandled
<1>4. \A g \in Untaken' : g \in Untaken \/ ~Tracked(g)
  <2>1. {requests'[i] : i \in DOMAIN requests'} \subseteq {requests[i] : i \in DOMAIN requests}
    BY DEF Lossy
  <2> QED BY <1>3, <2>1 DEF Untaken
<1>5. \A g \in Uncalled' : g \in Uncalled \/ ~Tracked(g)
  BY <1>4 DEF Lossy, Uncalled
<1> QED BY <1>1, <1>2, <1>3, <1>4, <1>5

LEMMA LossyOrder == ASSUME PathInOrder, Lossy PROVE PathInOrder'
<1>1. WireInOrder'
  <2>1. \A i, j \in DOMAIN toDevice' : i < j => Before(toDevice'[i].f, toDevice'[j].f)
    BY BeforeNothing, NoFrameTyped DEF PathInOrder, WireInOrder, Lossy
  <2>2. \A g \in Unread' : Before(rxDec'.f, g)
    BY LossyPlaces, BeforeNothing, NoFrameTyped DEF PathInOrder, WireInOrder, Lossy
  <2> QED BY <2>1, <2>2 DEF WireInOrder
<1>2. TodoInOrder'
  <2>1. CASE rx'.todo = <<>>
    BY <2>1 DEF TodoInOrder
  <2>2. CASE rx'.todo = rx.todo
    BY <2>2, LossyPlaces, BeforeNothing DEF PathInOrder, TodoInOrder
  <2> QED BY <2>1, <2>2 DEF Lossy
<1>3. RequestsInOrder'
  <2>1. CASE requests' = <<>>
    BY <2>1 DEF RequestsInOrder
  <2>2. CASE requests' = requests
    BY <2>2, LossyPlaces, BeforeNothing DEF PathInOrder, RequestsInOrder
  <2> QED BY <2>1, <2>2 DEF Lossy
<1>4. CallsInOrder'
  <2>1. cmd'.pc \in {"taken", "call"} => cmd'.f.kind = "request"
    BY DEF PathInOrder, CallsInOrder, Lossy
  <2>2. \A g \in Untaken' : Before(cmd'.f, g)
    BY LossyPlaces, BeforeNothing DEF PathInOrder, CallsInOrder, Lossy
  <2>3. \A i, j \in DOMAIN ran' : i < j => Earlier(ran'[i], ran'[j])
    BY DEF PathInOrder, CallsInOrder, Lossy
  <2>4. \A i \in DOMAIN ran', g \in Uncalled' : Tracked(g) => Earlier(ran'[i], Run(g))
    BY LossyPlaces DEF PathInOrder, CallsInOrder, Lossy
  <2> QED BY <2>1, <2>2, <2>3, <2>4 DEF CallsInOrder
<1> QED BY <1>1, <1>2, <1>3, <1>4 DEF PathInOrder

(* What the host appends comes after everything it sent before.             *)
LEMMA SentOrder ==
  ASSUME Typed, PathInOrder, NEW item \in Items,
         toDevice' = Append(toDevice, item), UNCHANGED device,
         Tracked(item.f) => /\ \A g \in Uncalled : Tracked(g) => Earlier(Run(g), Run(item.f))
                            /\ \A i \in DOMAIN ran : Earlier(ran[i], Run(item.f))
  PROVE  /\ PathInOrder'
         /\ Unread' = Unread \cup {item.f} /\ Unhandled' = Unhandled \cup {item.f}
         /\ Uncalled' = Uncalled \cup {item.f}
<1>1. UNCHANGED <<rxDec, rx, requests, cmd, ran>>
  BY DEF device, queues, tasks
<1>2. toDevice \in Seq(Items)
  BY DEF Typed, LinkTyped
<1>3. /\ DOMAIN toDevice' = 1 .. Len(toDevice) + 1 /\ toDevice'[Len(toDevice) + 1] = item
      /\ \A i \in DOMAIN toDevice : i \in DOMAIN toDevice' /\ i < Len(toDevice) + 1 /\ toDevice'[i] = toDevice[i]
      /\ \A i \in DOMAIN toDevice' : i \in DOMAIN toDevice \/ i = Len(toDevice) + 1
      /\ Len(toDevice) \in Nat /\ DOMAIN toDevice = 1 .. Len(toDevice)
  BY <1>2, AppendTo
<1>4. Unread' = Unread \cup {item.f}
  <2>1. \A i \in DOMAIN toDevice' : toDevice'[i].f \in Unread \cup {item.f}
    BY <1>3 DEF Unread
  <2>2. \A i \in DOMAIN toDevice : toDevice[i].f \in Unread'
    BY <1>3 DEF Unread
  <2>3. item.f \in Unread'
    <3>1. Len(toDevice) + 1 \in DOMAIN toDevice'
      BY <1>3
    <3> QED BY <1>3, <3>1 DEF Unread
  <2>4. Unread' \subseteq Unread \cup {item.f}
    BY <2>1 DEF Unread
  <2>5. Unread \subseteq Unread'
    BY <2>2 DEF Unread
  <2> QED BY <2>3, <2>4, <2>5
<1>5. Undecoded' = Undecoded \cup {item.f} /\ Unhandled' = Unhandled \cup {item.f}
      /\ Untaken' = Untaken \cup {item.f} /\ Uncalled' = Uncalled \cup {item.f}
  BY <1>1, <1>4 DEF Undecoded, Unhandled, Untaken, Uncalled
<1>6. \A g \in Uncalled : Before(g, item.f)
  BY DEF Before
<1>7. Unread \subseteq Uncalled /\ rxDec.f \in Uncalled /\ cmd.f \in Uncalled
      /\ (\A i \in DOMAIN rx.todo : rx.todo[i].f \in Uncalled) /\ (\A i \in DOMAIN requests : requests[i] \in Uncalled)
  BY DEF Undecoded, Unhandled, Untaken, Uncalled
<1>8. WireInOrder'
  <2>1. ASSUME NEW i \in DOMAIN toDevice', NEW j \in DOMAIN toDevice', i < j
        PROVE  Before(toDevice'[i].f, toDevice'[j].f)
    <3>1. i \in DOMAIN toDevice
      BY <1>3, <2>1
    <3>2. CASE j \in DOMAIN toDevice
      BY <1>3, <2>1, <3>1, <3>2 DEF PathInOrder, WireInOrder
    <3>3. CASE j = Len(toDevice) + 1
      <4>1. toDevice[i].f \in Uncalled
        BY <1>7, <3>1 DEF Unread
      <4> QED BY <1>3, <1>6, <3>1, <3>3, <4>1
    <3> QED BY <1>3, <3>2, <3>3
  <2>2. \A g \in Unread' : Before(rxDec'.f, g)
    BY <1>1, <1>4, <1>6, <1>7 DEF PathInOrder, WireInOrder
  <2> QED BY <2>1, <2>2 DEF WireInOrder
<1>9. TodoInOrder'
  BY <1>1, <1>5, <1>6, <1>7 DEF PathInOrder, TodoInOrder
<1>10. RequestsInOrder'
  BY <1>1, <1>5, <1>6, <1>7 DEF PathInOrder, RequestsInOrder
<1>11. CallsInOrder'
  <2>1. cmd'.pc \in {"taken", "call"} => cmd'.f.kind = "request"
    BY <1>1 DEF PathInOrder, CallsInOrder
  <2>2. \A g \in Untaken' : Before(cmd'.f, g)
    BY <1>1, <1>5, <1>6, <1>7 DEF PathInOrder, CallsInOrder
  <2>3. \A i, j \in DOMAIN ran' : i < j => Earlier(ran'[i], ran'[j])
    BY <1>1 DEF PathInOrder, CallsInOrder
  <2>4. \A i \in DOMAIN ran', g \in Uncalled' : Tracked(g) => Earlier(ran'[i], Run(g))
    BY <1>1, <1>5 DEF PathInOrder, CallsInOrder
  <2> QED BY <2>1, <2>2, <2>3, <2>4 DEF CallsInOrder
<1> QED BY <1>4, <1>5, <1>8, <1>9, <1>10, <1>11 DEF PathInOrder

(* rx_task is done with an item; a request it accepted is the youngest in   *)
(* the queue.                                                               *)
LEMMA HandledOrder ==
  ASSUME Typed, PathInOrder, rx.todo # <<>>, rx'.todo = Tail(rx.todo),
         UNCHANGED <<toDevice, rxDec, cmd, ran>>,
         \/ requests' = requests
         \/ Todo.f.kind = "request" /\ requests' = Append(requests, Todo.f)
  PROVE  /\ PathInOrder'
         /\ Unhandled' \subseteq Unhandled /\ Uncalled' \subseteq Uncalled
         /\ Todo.f \in Unhandled
         /\ \A g \in Unhandled' : Before(Todo.f, g)
<1>1. rx.todo \in Seq(Items) /\ requests \in Seq(Frames)
  BY DEF Typed, DeviceTyped
<1>2. /\ Todo \in Items /\ 1 \in DOMAIN rx.todo /\ Todo = rx.todo[1]
      /\ DOMAIN rx'.todo = 1 .. Len(rx.todo) - 1
      /\ \A i \in DOMAIN rx'.todo : i + 1 \in DOMAIN rx.todo /\ rx'.todo[i] = rx.todo[i + 1]
  BY <1>1, TailOf DEF Todo
<1>3. Todo.f \in Frames
  BY <1>2 DEF Items
<1>4. Unread' = Unread /\ Undecoded' = Undecoded
  BY DEF Unread, Undecoded
<1>5. \A i \in DOMAIN rx'.todo : rx'.todo[i].f \in Unhandled /\ Before(Todo.f, rx'.todo[i].f)
  <2> TAKE i \in DOMAIN rx'.todo
  <2>1. i + 1 \in DOMAIN rx.todo /\ 1 < i + 1 /\ rx'.todo[i] = rx.todo[i + 1]
    BY <1>2
  <2> QED BY <1>2, <2>1 DEF Unhandled, PathInOrder, TodoInOrder
<1>6. Todo.f \in Unhandled /\ \A g \in Undecoded : Before(Todo.f, g)
  BY <1>2 DEF Unhandled, PathInOrder, TodoInOrder
<1>7. Unhandled' \subseteq Unhandled
  <2>1. Undecoded \subseteq Unhandled
    BY DEF Unhandled
  <2> QED BY <1>4, <1>5, <2>1 DEF Unhandled
<1>8. \A g \in Unhandled' : Before(Todo.f, g)
  BY <1>4, <1>5, <1>6 DEF Unhandled
<1>9. ASSUME Todo.f.kind = "request", requests' = Append(requests, Todo.f)
      PROVE  /\ Len(requests) + 1 \in DOMAIN requests' /\ requests'[Len(requests) + 1] = Todo.f
             /\ \A i \in DOMAIN requests : i \in DOMAIN requests' /\ i < Len(requests) + 1 /\ requests'[i] = requests[i]
             /\ \A i \in DOMAIN requests' : i \in DOMAIN requests \/ i = Len(requests) + 1
             /\ DOMAIN requests = 1 .. Len(requests) /\ Len(requests) \in Nat
  BY <1>1, <1>3, <1>9, AppendTo
<1>10. Untaken' \subseteq Untaken
  <2>1. \A i \in DOMAIN requests' : requests'[i] \in Untaken
    <3>1. CASE requests' = requests
      BY <3>1 DEF Untaken
    <3>2. CASE Todo.f.kind = "request" /\ requests' = Append(requests, Todo.f)
      BY <1>6, <1>9, <3>2 DEF Untaken
    <3> QED BY <3>1, <3>2
  <2>2. Unhandled \subseteq Untaken
    BY DEF Untaken
  <2> QED BY <1>7, <2>1, <2>2 DEF Untaken
<1>11. Uncalled' \subseteq Uncalled
  BY <1>10 DEF Uncalled
<1>12. WireInOrder'
  BY <1>4 DEF PathInOrder, WireInOrder
<1>13. TodoInOrder'
  <2>1. ASSUME NEW i \in DOMAIN rx'.todo, NEW j \in DOMAIN rx'.todo, i < j
        PROVE  Before(rx'.todo[i].f, rx'.todo[j].f)
    <3>1. i + 1 < j + 1
      BY <1>2, <2>1
    <3> QED BY <1>2, <3>1 DEF PathInOrder, TodoInOrder
  <2>2. \A i \in DOMAIN rx'.todo, g \in Undecoded' : Before(rx'.todo[i].f, g)
    BY <1>2, <1>4 DEF PathInOrder, TodoInOrder
  <2> QED BY <2>1, <2>2 DEF TodoInOrder
<1>14. RequestsInOrder'
  <2>1. CASE requests' = requests
    BY <1>7, <2>1 DEF PathInOrder, RequestsInOrder
  <2>2. CASE Todo.f.kind = "request" /\ requests' = Append(requests, Todo.f)
    <3>1. \A i \in DOMAIN requests' : requests'[i].kind = "request"
      BY <1>9, <2>2 DEF PathInOrder, RequestsInOrder
    <3>2. ASSUME NEW i \in DOMAIN requests', NEW j \in DOMAIN requests', i < j
          PROVE  Before(requests'[i], requests'[j])
      <4>1. i \in DOMAIN requests
        BY <1>9, <2>2, <3>2
      <4>2. CASE j \in DOMAIN requests
        BY <1>9, <2>2, <3>2, <4>1, <4>2 DEF PathInOrder, RequestsInOrder
      <4>3. CASE j = Len(requests) + 1
        BY <1>6, <1>9, <2>2, <4>1, <4>3 DEF PathInOrder, RequestsInOrder
      <4> QED BY <1>9, <2>2, <4>2, <4>3
    <3>3. ASSUME NEW i \in DOMAIN requests', NEW g \in Unhandled'
          PROVE  Before(requests'[i], g)
      <4>1. CASE i \in DOMAIN requests
        BY <1>7, <1>9, <2>2, <4>1 DEF PathInOrder, RequestsInOrder
      <4>2. CASE i = Len(requests) + 1
        BY <1>8, <1>9, <2>2, <4>2
      <4> QED BY <1>9, <2>2, <4>1, <4>2
    <3> QED BY <3>1, <3>2, <3>3 DEF RequestsInOrder
  <2> QED BY <2>1, <2>2
<1>15. CallsInOrder'
  BY <1>10, <1>11 DEF PathInOrder, CallsInOrder
<1> QED BY <1>6, <1>7, <1>8, <1>11, <1>12, <1>13, <1>14, <1>15 DEF PathInOrder

(* One item of the wire: what the decoder held is given before the item,    *)
(* and what it holds afterwards has not been given.                         *)
DecodesInOrder(d, item, read) ==
  \/ /\ read.d.f = NoFrame
     /\ \A i \in DOMAIN read.out : read.out[i].f \in {d.f, item.f}
     /\ \A i, j \in DOMAIN read.out : i < j => read.out[i].f = d.f /\ read.out[j].f = item.f
  \/ /\ read.d.f = item.f
     /\ \A i \in DOMAIN read.out : i = 1 /\ read.out[i].f = d.f
  \/ /\ read.d.f = d.f
     /\ \A i \in DOMAIN read.out : read.out[i].f = NoFrame

LEMMA DecodeOrder ==
  ASSUME NEW d \in Decoders, NEW item \in Items
  PROVE  DecodesInOrder(d, item, Decode(d, item))
<1>1. /\ Closed(d) \in Seq(ItemsOf(Frames)) /\ Len(Closed(d)) \in {0, 1}
      /\ \A i \in DOMAIN Closed(d) : i = 1 /\ Closed(d)[i].f = d.f
  <2>1. d \in DecodersOf(Frames)
    BY DEF DecodersOf, Decoders
  <2> QED BY <2>1, ClosedTyped, NoFrameTyped
<1>2. CASE item.is = "frame"
  <2> DEFINE closed == Closed(d)
             out == closed \o <<item>>
  <2>1. Decode(d, item) = [d |-> Between, out |-> out]
    BY <1>2 DEF Decode
  <2>2. item \in ItemsOf(Frames)
    BY DEF ItemsOf, Items
  <2>3. DOMAIN out = 1 .. Len(closed) + 1 /\ out[Len(closed) + 1] = item
        /\ \A i \in DOMAIN closed : out[i] = closed[i]
    <3> HIDE DEF closed
    <3>1. closed \in Seq(ItemsOf(Frames))
      BY <1>1 DEF closed
    <3> QED BY <2>2, <3>1
  <2>4. DOMAIN closed = 1 .. Len(closed) /\ Len(closed) \in {0, 1}
    BY <1>1
  <2>5. ASSUME NEW i \in DOMAIN out
        PROVE  out[i].f \in {d.f, item.f} /\ (i # Len(closed) + 1 => i = 1 /\ out[i].f = d.f)
    <3>1. CASE i = Len(closed) + 1
      BY <2>3, <3>1
    <3>2. CASE i # Len(closed) + 1
      <4>1. i \in DOMAIN closed
        BY <2>3, <2>4, <3>2
      <4> QED BY <1>1, <2>3, <4>1
    <3> QED BY <3>1, <3>2
  <2>6. ASSUME NEW i \in DOMAIN out, NEW j \in DOMAIN out, i < j
        PROVE  out[i].f = d.f /\ out[j].f = item.f
    <3>1. i # Len(closed) + 1 /\ j = Len(closed) + 1
      BY <2>3, <2>4, <2>6
    <3> QED BY <2>3, <2>5, <3>1
  <2> HIDE DEF out
  <2> QED BY <2>1, <2>5, <2>6, BetweenTyped DEF DecodesInOrder
<1>3. CASE item.is = "cut"
  <2>1. Decode(d, item) = [d |-> Inside(NoFrame), out |-> Closed(d)]
    BY <1>3 DEF Decode
  <2>2. Inside(NoFrame).f = NoFrame
    BY DEF Inside
  <2> QED BY <1>1, <2>1, <2>2 DEF DecodesInOrder
<1>4. CASE item.is = "open"
  <2>1. Decode(d, item) = [d |-> Inside(item.f), out |-> Closed(d)]
    BY <1>4 DEF Decode
  <2>2. Inside(item.f).f = item.f
    BY DEF Inside
  <2> QED BY <1>1, <2>1, <2>2 DEF DecodesInOrder
<1>5. CASE item.is \notin {"frame", "cut", "open"} /\ d.mid
  <2>1. Decode(d, item) = [d |-> Inside(NoFrame), out |-> <<>>]
    BY <1>5 DEF Decode
  <2>2. Inside(NoFrame).f = NoFrame
    BY DEF Inside
  <2> QED BY <2>1, <2>2 DEF DecodesInOrder
<1>6. CASE item.is \notin {"frame", "cut", "open"} /\ ~d.mid
  <2>1. Decode(d, item) = [d |-> d, out |-> <<item>>]
    BY <1>6 DEF Decode
  <2>2. item.f = NoFrame
    BY <1>6 DEF Items
  <2> QED BY <2>1, <2>2 DEF DecodesInOrder
<1> QED BY <1>2, <1>3, <1>4, <1>5, <1>6

(* rx_task decodes the next item of the wire, its hands empty.              *)
LEMMA ReadOrder ==
  ASSUME Typed, PathInOrder, RxRead
  PROVE  /\ PathInOrder'
         /\ \A g \in Unhandled' : g \in Unhandled \/ ~Tracked(g)
         /\ \A g \in Uncalled' : g \in Uncalled \/ ~Tracked(g)
<1> DEFINE item == Head(toDevice)
           read == Decode(rxDec, item)
<1>1. toDevice \in Seq(Items) /\ rxDec \in Decoders
  BY DEF Typed, LinkTyped, DeviceTyped
<1>2. /\ rxDec' = read.d /\ rx'.todo = read.out /\ rx.todo = <<>>
      /\ toDevice # <<>> /\ toDevice' = Tail(toDevice) /\ UNCHANGED <<requests, cmd, ran>>
  BY DEF RxRead, queues
<1>3. /\ item \in Items /\ 1 \in DOMAIN toDevice /\ item = toDevice[1]
      /\ DOMAIN toDevice' = 1 .. Len(toDevice) - 1
      /\ \A i \in DOMAIN toDevice' : i + 1 \in DOMAIN toDevice /\ toDevice'[i] = toDevice[i + 1]
  BY <1>1, <1>2, TailOf
<1>4. DecodesInOrder(rxDec, item, read)
  BY <1>1, <1>3, DecodeOrder
<1> HIDE DEF item, read
<1>5. \A g \in Unread' : g \in Unread /\ Before(item.f, g) /\ Before(rxDec.f, g)
  <2> TAKE g \in Unread'
  <2>1. PICK i \in DOMAIN toDevice' : g = toDevice'[i].f
    BY DEF Unread
  <2>2. i + 1 \in DOMAIN toDevice /\ 1 < i + 1 /\ g = toDevice[i + 1].f
    BY <1>3, <2>1
  <2>3. g \in Unread /\ Before(item.f, g)
    BY <1>3, <2>2 DEF Unread, PathInOrder, WireInOrder
  <2> QED BY <2>3 DEF PathInOrder, WireInOrder
<1>6. item.f \in Unread /\ Before(rxDec.f, item.f)
  <2>1. item.f \in Unread
    BY <1>3 DEF Unread
  <2> QED BY <2>1 DEF PathInOrder, WireInOrder
<1>7. Unhandled = Unread \cup {rxDec.f}
  BY <1>2 DEF Unhandled, Undecoded
<1>8. rxDec'.f \in {item.f, rxDec.f, NoFrame} /\ \A i \in DOMAIN rx'.todo : rx'.todo[i].f \in {item.f, rxDec.f, NoFrame}
  BY <1>2, <1>4 DEF DecodesInOrder
<1>9. Undecoded' = Unread' \cup {rxDec'.f}
  BY DEF Undecoded
<1>10. \A g \in Unhandled' : g \in Unhandled \/ g = NoFrame
  <2>1. \A i \in DOMAIN rx'.todo : rx'.todo[i].f \in Unhandled \/ rx'.todo[i].f = NoFrame
    BY <1>6, <1>7, <1>8
  <2>2. \A g \in Undecoded' : g \in Unhandled \/ g = NoFrame
    BY <1>5, <1>6, <1>7, <1>8, <1>9
  <2> QED BY <2>1, <2>2 DEF Unhandled
<1>11. \A g \in Untaken' : g \in Untaken \/ g = NoFrame
  BY <1>2, <1>10 DEF Untaken
<1>12. \A g \in Uncalled' : g \in Uncalled \/ g = NoFrame
  BY <1>2, <1>11 DEF Uncalled
<1>13. WireInOrder'
  <2>1. ASSUME NEW i \in DOMAIN toDevice', NEW j \in DOMAIN toDevice', i < j
        PROVE  Before(toDevice'[i].f, toDevice'[j].f)
    <3>1. i + 1 < j + 1
      BY <1>3, <2>1
    <3> QED BY <1>3, <3>1 DEF PathInOrder, WireInOrder
  <2>2. \A g \in Unread' : Before(rxDec'.f, g)
    BY <1>5, <1>8, BeforeNothing, NoFrameTyped
  <2> QED BY <2>1, <2>2 DEF WireInOrder
<1>14. TodoInOrder'
  <2>1. ASSUME NEW i \in DOMAIN rx'.todo, NEW j \in DOMAIN rx'.todo, i < j
        PROVE  Before(rx'.todo[i].f, rx'.todo[j].f)
    <3>1. CASE rx'.todo[i].f = rxDec.f /\ rx'.todo[j].f = item.f
      BY <1>6, <3>1
    <3>2. CASE i = 1 /\ j = 1
      BY <2>1, <3>2
    <3>3. CASE rx'.todo[i].f = NoFrame
      BY <3>3, BeforeNothing, NoFrameTyped
    <3> QED BY <1>2, <1>4, <2>1, <3>1, <3>2, <3>3 DEF DecodesInOrder
  <2>2. ASSUME NEW i \in DOMAIN rx'.todo PROVE \A g \in Unread' : Before(rx'.todo[i].f, g)
    BY <1>5, <1>8, BeforeNothing, NoFrameTyped
  <2>3. ASSUME NEW i \in DOMAIN rx'.todo PROVE Before(rx'.todo[i].f, rxDec'.f)
    <3>1. CASE rxDec'.f = NoFrame
      BY <3>1, BeforeNothing, NoFrameTyped
    <3>2. CASE rxDec'.f = item.f /\ rx'.todo[i].f = rxDec.f
      BY <1>6, <3>2
    <3>3. CASE rx'.todo[i].f = NoFrame
      BY <3>3, BeforeNothing, NoFrameTyped
    <3> QED BY <1>2, <1>4, <3>1, <3>2, <3>3 DEF DecodesInOrder
  <2> QED BY <1>9, <2>1, <2>2, <2>3 DEF TodoInOrder
<1>15. RequestsInOrder'
  BY <1>2, <1>10, BeforeNothing, NoFrameTyped DEF PathInOrder, RequestsInOrder
<1>16. CallsInOrder'
  BY <1>2, <1>11, <1>12, BeforeNothing, NoFrameTyped DEF PathInOrder, CallsInOrder
<1> QED BY <1>10, <1>12, <1>13, <1>14, <1>15, <1>16, NoFrameTyped DEF PathInOrder

(* command_task takes the oldest request.                                   *)
LEMMA TakeOrder ==
  ASSUME Typed, PathInOrder, CmdTake, UNCHANGED <<toDevice, rxDec, rx>>
  PROVE  PathInOrder' /\ Unhandled' = Unhandled /\ \A g \in Uncalled' : g \in Uncalled
<1>1. /\ requests \in Seq(Frames) /\ requests # <<>> /\ requests' = Tail(requests)
      /\ cmd' = Task("taken", Head(requests)) /\ ran' = ran
  BY DEF Typed, DeviceTyped, CmdTake
<1>2. /\ cmd'.f = requests[1] /\ 1 \in DOMAIN requests
      /\ DOMAIN requests' = 1 .. Len(requests) - 1
      /\ \A i \in DOMAIN requests' : i + 1 \in DOMAIN requests /\ requests'[i] = requests[i + 1]
  BY <1>1, TailOf DEF Task
<1>3. Unread' = Unread /\ Undecoded' = Undecoded /\ Unhandled' = Unhandled
  BY DEF Unread, Undecoded, Unhandled
<1>4. Untaken' \subseteq Untaken /\ cmd'.f \in Untaken
  <2>1. \A i \in DOMAIN requests' : requests'[i] \in Untaken
    BY <1>2 DEF Untaken
  <2> QED BY <1>2, <1>3, <2>1 DEF Untaken
<1>5. \A g \in Untaken' : Before(cmd'.f, g)
  <2>1. \A i \in DOMAIN requests' : Before(cmd'.f, requests'[i])
    <3> TAKE i \in DOMAIN requests'
    <3>1. i + 1 \in DOMAIN requests /\ 1 < i + 1
      BY <1>2
    <3> QED BY <1>2, <3>1 DEF PathInOrder, RequestsInOrder
  <2>2. \A g \in Unhandled : Before(cmd'.f, g)
    BY <1>2 DEF PathInOrder, RequestsInOrder
  <2> QED BY <1>3, <2>1, <2>2 DEF Untaken
<1>6. \A g \in Uncalled' : g \in Uncalled
  BY <1>4 DEF Uncalled
<1>7. WireInOrder' /\ TodoInOrder'
  BY <1>3 DEF PathInOrder, WireInOrder, TodoInOrder
<1>8. RequestsInOrder'
  <2>1. ASSUME NEW i \in DOMAIN requests', NEW j \in DOMAIN requests', i < j
        PROVE  Before(requests'[i], requests'[j])
    <3>1. i + 1 < j + 1
      BY <1>2, <2>1
    <3> QED BY <1>2, <3>1 DEF PathInOrder, RequestsInOrder
  <2> QED BY <1>2, <1>3, <2>1 DEF PathInOrder, RequestsInOrder
<1>9. CallsInOrder'
  BY <1>1, <1>2, <1>5, <1>6 DEF PathInOrder, CallsInOrder, RequestsInOrder
<1> QED BY <1>3, <1>6, <1>7, <1>8, <1>9 DEF PathInOrder

(* The handler is called with it.                                           *)
LEMMA CallOrder ==
  ASSUME Typed, PathInOrder, CmdCall, UNCHANGED <<toDevice, rxDec, rx>>
  PROVE  /\ PathInOrder' /\ Unhandled' = Unhandled /\ cmd.f.kind = "request"
         /\ \A g \in Uncalled' : g \in Uncalled \/ ~Tracked(g)
         /\ \A g \in Uncalled' : Tracked(g) => Earlier(Run(cmd.f), Run(g))
         /\ Ran' = Ran \cup {Run(cmd.f)} /\ cmd.f \in Uncalled
<1>1. /\ ran \in Seq(Nat \X Nat) /\ cmd.f \in Frames /\ Run(cmd.f) \in Nat \X Nat
  BY DEF Typed, DeviceTyped, Frames, Run
<1>2. PICK kind \in {"response", "error"} :
        cmd' = Task("reply", Frame(kind, Run(cmd.f)[1], Run(cmd.f)[2], Run(cmd.f)))
  BY DEF CmdCall, Run
<1>3. cmd.pc = "call" /\ ran' = Append(ran, Run(cmd.f)) /\ requests' = requests
  BY DEF CmdCall, Run, queues
<1>4. cmd'.pc = "reply" /\ cmd'.f.kind = kind /\ ~Tracked(cmd'.f)
  BY <1>2 DEF Task, Frame, Tracked
<1>5. cmd.f.kind = "request" /\ Tracked(cmd.f)
  BY <1>3 DEF PathInOrder, CallsInOrder, Tracked
<1>6. Unread' = Unread /\ Undecoded' = Undecoded /\ Unhandled' = Unhandled /\ Untaken' = Untaken
  BY <1>3 DEF Unread, Undecoded, Unhandled, Untaken
<1>7. cmd.f \in Uncalled /\ \A g \in Uncalled' : g \in Untaken \/ ~Tracked(g)
  BY <1>4, <1>6 DEF Uncalled
<1>8. \A g \in Untaken : g \in Uncalled /\ (Tracked(g) => Earlier(Run(cmd.f), Run(g)))
  BY <1>5 DEF Uncalled, PathInOrder, CallsInOrder, Before
<1>9. /\ DOMAIN ran = 1 .. Len(ran) /\ DOMAIN ran' = 1 .. Len(ran) + 1 /\ Len(ran) \in Nat
      /\ ran'[Len(ran) + 1] = Run(cmd.f)
      /\ \A i \in DOMAIN ran : i \in DOMAIN ran' /\ ran'[i] = ran[i]
      /\ \A i \in DOMAIN ran' : i \in DOMAIN ran \/ i = Len(ran) + 1
  BY <1>1, <1>3, AppendTo
<1>10. Ran' = Ran \cup {Run(cmd.f)}
  <2>1. Len(ran) + 1 \in DOMAIN ran'
    BY <1>9
  <2>2. \A i \in DOMAIN ran' : ran'[i] \in Ran \cup {Run(cmd.f)}
    BY <1>9 DEF Ran
  <2>3. \A i \in DOMAIN ran : ran[i] \in Ran'
    BY <1>9 DEF Ran
  <2>4. Run(cmd.f) \in Ran'
    BY <1>9, <2>1 DEF Ran
  <2>5. Ran' \subseteq Ran \cup {Run(cmd.f)}
    BY <2>2 DEF Ran
  <2>6. Ran \subseteq Ran'
    BY <2>3 DEF Ran
  <2> QED BY <2>4, <2>5, <2>6
<1>11. WireInOrder' /\ TodoInOrder' /\ RequestsInOrder'
  BY <1>3, <1>6 DEF PathInOrder, WireInOrder, TodoInOrder, RequestsInOrder
<1>12. \A g \in Uncalled' : Tracked(g) => Earlier(Run(cmd.f), Run(g))
  BY <1>7, <1>8
<1>13. CallsInOrder'
  <2>1. \A g \in Untaken' : Before(cmd'.f, g)
    BY <1>4, BeforeNothing
  <2>2. ASSUME NEW i \in DOMAIN ran', NEW j \in DOMAIN ran', i < j
        PROVE  Earlier(ran'[i], ran'[j])
    <3>1. i \in DOMAIN ran
      BY <1>9, <2>2
    <3>2. CASE j \in DOMAIN ran
      BY <1>9, <2>2, <3>1, <3>2 DEF PathInOrder, CallsInOrder
    <3>3. CASE j = Len(ran) + 1
      BY <1>5, <1>7, <1>9, <3>1, <3>3 DEF PathInOrder, CallsInOrder
    <3> QED BY <1>9, <3>2, <3>3
  <2>3. ASSUME NEW i \in DOMAIN ran', NEW g \in Uncalled', Tracked(g)
        PROVE  Earlier(ran'[i], Run(g))
    <3>1. g \in Uncalled
      BY <1>7, <1>8, <2>3
    <3>2. CASE i \in DOMAIN ran
      BY <1>9, <2>3, <3>1, <3>2 DEF PathInOrder, CallsInOrder
    <3>3. CASE i = Len(ran) + 1
      BY <1>9, <1>12, <2>3, <3>3
    <3> QED BY <1>9, <3>2, <3>3
  <2> QED BY <1>4, <2>1, <2>2, <2>3 DEF CallsInOrder
<1> QED BY <1>5, <1>6, <1>7, <1>8, <1>10, <1>11, <1>12, <1>13 DEF PathInOrder

(* What any step but a hello or a request of the host does to the path.     *)
Flows ==
  /\ \A g \in Unhandled' : g \in Unhandled \/ ~Tracked(g)
  /\ \A g \in Uncalled' : g \in Uncalled \/ ~Tracked(g)
  /\ Ran \subseteq Ran'
  /\ \A r \in Ran' : r \in Ran \/ \E g \in Uncalled : g.kind = "request" /\ r = Run(g)

LEMMA LossyFlows == ASSUME PathInOrder, Lossy PROVE PathInOrder' /\ Flows
<1>1. Ran' = Ran
  BY DEF Lossy, Ran
<1> QED BY <1>1, LossyOrder, LossyPlaces DEF Flows

LEMMA HandledFlows ==
  ASSUME Typed, PathInOrder, rx.todo # <<>>, rx'.todo = Tail(rx.todo),
         UNCHANGED <<toDevice, rxDec, cmd, ran>>,
         \/ requests' = requests
         \/ Todo.f.kind = "request" /\ requests' = Append(requests, Todo.f)
  PROVE  PathInOrder' /\ Flows
<1>1. Ran' = Ran
  BY DEF Ran
<1> QED BY <1>1, HandledOrder DEF Flows

LEMMA HandledIs ==
  ASSUME rx.todo # <<>>
  PROVE  Handled.todo = Tail(rx.todo) /\ \A pc : [Handled EXCEPT !.pc = pc].todo = Tail(rx.todo)
BY DEF Handled

LEMMA RxFlows == ASSUME Typed, PathInOrder, RxStep PROVE PathInOrder' /\ Flows
<1>1. CASE RxRead
  <2>1. Ran' = Ran
    BY <1>1 DEF RxRead, Ran
  <2> QED BY <1>1, <2>1, ReadOrder DEF Flows
<1>2. CASE RxRaw \/ RxHello \/ RxReset \/ RxAck \/ RxNotify \/ RxConsole \/ RxRequest \/ RxIgnore
  <2>1. UNCHANGED <<toDevice, rxDec, cmd, ran>>
    BY <1>2 DEF RxStep, RxRead, RxRaw, RxHello, RxReset, RxAck, RxNotify, RxConsole, RxRequest, RxIgnore, AtRx
  <2>2. ASSUME rx'.todo = rx.todo, requests' = requests PROVE PathInOrder' /\ Flows
    <3>1. Lossy
      BY <2>1, <2>2 DEF Lossy
    <3> QED BY <3>1, LossyFlows
  <2>3. rx \in [pc : {"idle", "reset", "ack", "notify"}, todo : Seq(Items)]
    BY DEF Typed, DeviceTyped
  <2>4. CASE RxHello \/ RxReset \/ RxNotify
    <3>1. rx'.todo = rx.todo /\ requests' = requests
      BY <2>3, <2>4 DEF RxHello, RxReset, RxNotify, queues
    <3> QED BY <2>2, <3>1
  <2>5. CASE RxRaw \/ RxAck \/ RxConsole \/ RxIgnore
    <3>1. rx.todo # <<>> /\ rx'.todo = Tail(rx.todo) /\ requests' = requests
      BY <2>5, HandledIs DEF RxRaw, RxAck, RxConsole, RxIgnore, AtRx, queues
    <3> QED BY <2>1, <3>1, HandledFlows
  <2>6. CASE RxRequest
    <3>1. rx.todo # <<>> /\ Todo.f.kind = "request"
      BY <2>6 DEF RxRequest, AtRx, Current
    <3>2. rx'.todo = Tail(rx.todo)
      BY <2>6, <3>1, HandledIs DEF RxRequest
    <3>3. requests' = requests \/ requests' = Append(requests, Todo.f)
      BY <2>6 DEF RxRequest, Sent
    <3> QED BY <2>1, <3>1, <3>2, <3>3, HandledFlows
  <2> QED BY <1>2, <2>4, <2>5, <2>6
<1> QED BY <1>1, <1>2 DEF RxStep

LEMMA CmdFlows == ASSUME Typed, PathInOrder, CmdStep PROVE PathInOrder' /\ Flows
<1>1. UNCHANGED <<toDevice, rxDec, rx>>
  BY DEF CmdStep
<1>2. CASE CmdTake
  <2>1. Ran' = Ran
    BY <1>2 DEF CmdTake, Ran
  <2> QED BY <1>1, <1>2, <2>1, TakeOrder DEF Flows
<1>3. CASE CmdCall
  BY <1>1, <1>3, CallOrder DEF Flows
<1>4. CASE CmdCheck \/ CmdReply \/ CmdNotify
  <2>1. cmd \in [pc : {"idle", "taken", "call", "reply", "notify"}, f : Frames]
    BY DEF Typed, DeviceTyped
  <2>2. requests' = requests /\ ran' = ran
    BY <1>4 DEF CmdCheck, CmdReply, CmdNotify, queues
  <2>3. /\ cmd'.f = cmd.f \/ cmd'.f = NoFrame
        /\ cmd'.pc \in {"taken", "call"} => cmd.pc \in {"taken", "call"} /\ cmd'.f = cmd.f
    <3>1. CASE CmdCheck
      BY <2>1, <3>1, RestingTyped DEF CmdCheck, Task
    <3>2. CASE CmdReply
      BY <3>2 DEF CmdReply, Task, AfterEnqueue
    <3>3. CASE CmdNotify
      BY <3>3, RestingTyped DEF CmdNotify
    <3> QED BY <1>4, <3>1, <3>2, <3>3
  <2>4. Lossy
    BY <1>1, <2>2, <2>3, NoFrameTyped DEF Lossy
  <2> QED BY <2>4, LossyFlows
<1> QED BY <1>2, <1>3, <1>4 DEF CmdStep

LEMMA SameFlows ==
  ASSUME PathInOrder, UNCHANGED <<toDevice, rxDec, rx, requests, cmd, ran>>
  PROVE  PathInOrder' /\ Flows
<1>1. Lossy
  BY DEF Lossy
<1> QED BY <1>1, LossyFlows

LEMMA PathStep ==
  ASSUME Typed, PathInOrder, [Next]_vars, ~(Connect \/ Request)
  PROVE  PathInOrder' /\ Flows
<1>1. CASE ConsoleInput
  <2> DEFINE item == IF host.session.valid THEN Whole(Frame("console", host.session.session, 0, NoRun)) ELSE Text
  <2>1. toDevice' = Append(toDevice, item) /\ UNCHANGED device
    BY <1>1 DEF ConsoleInput
  <2>2. host.session.session \in Nat /\ NoRun \in Nat \X Nat /\ "console" \in Kinds
    BY DEF Typed, HostTyped, NoRun, Kinds
  <2>3. item \in Items /\ item.f.kind = "console"
    <3>1. CASE host.session.valid
      <4>1. Frame("console", host.session.session, 0, NoRun) \in Frames
            /\ Frame("console", host.session.session, 0, NoRun).kind = "console"
        BY <2>2 DEF Frame, Frames
      <4> QED BY <3>1, <4>1, WholeTyped
    <3>2. CASE ~host.session.valid
      BY <3>2, TextTyped, NoFrameTyped
    <3> QED BY <3>1, <3>2
  <2> HIDE DEF item
  <2>4. ~Tracked(item.f)
    BY <2>3, NothingTracked
  <2>5. Ran' = Ran
    BY <2>1 DEF device, Ran
  <2> QED BY <2>1, <2>3, <2>4, <2>5, SentOrder DEF Flows
<1>2. CASE PortLost
  <2>1. /\ \A i \in DOMAIN toDevice' : i \in DOMAIN toDevice /\ toDevice'[i].f \in {toDevice[i].f, NoFrame}
        /\ UNCHANGED device
    BY <1>2, PortLostEffect DEF Typed
  <2>2. Lossy
    BY <2>1 DEF Lossy, device, queues, tasks
  <2> QED BY <2>2, LossyFlows
<1>3. CASE Expire
  <2>1. UNCHANGED <<toDevice, device>>
    BY <1>3 DEF Expire
  <2> QED BY <2>1, SameFlows DEF device, queues, tasks
<1>4. CASE Read
  <2>1. UNCHANGED <<toDevice, device>>
    BY <1>4 DEF Read
  <2> QED BY <2>1, SameFlows DEF device, queues, tasks
<1>5. CASE AppStep
  <2>1. UNCHANGED <<toDevice, rxDec, rx, requests, cmd, ran>>
    BY <1>5 DEF AppStep, AppFinishes, Elsewhere, ConsoleWrite, Publish, Published, AppNotify, ReadInput, queues
  <2> QED BY <2>1, SameFlows
<1>6. CASE TxStep
  <2>1. UNCHANGED <<toDevice, rxDec, rx, requests, cmd, ran>>
    BY <1>6 DEF TxStep
  <2> QED BY <2>1, SameFlows
<1>7. CASE Reboot
  <2>1. /\ toDevice' \in {toDevice, <<>>} /\ rxDec' = Between /\ rx'.todo = <<>> /\ requests' = <<>>
        /\ cmd' = Resting /\ ran' = ran
    BY <1>7 DEF Reboot
  <2>2. Lossy
    BY <2>1, BetweenTyped, RestingTyped, NoFrameTyped DEF Lossy
  <2> QED BY <2>2, LossyFlows
<1>8. CASE UNCHANGED vars
  BY <1>8, SameFlows DEF vars, device, queues, tasks
<1> QED BY <1>1, <1>2, <1>3, <1>4, <1>5, <1>6, <1>7, <1>8, RxFlows, CmdFlows DEF Next, HostStep

-----------------------------------------------------------------------------
(* What the host has made. *)

(* The host keeps its session and its numbers, or has none.                 *)
LEMMA HostKeeps ==
  ASSUME Typed, HostCounts, [Next]_vars, ~(Connect \/ Request)
  PROVE  /\ HostCounts' /\ DOMAIN answers' = DOMAIN answers /\ used'["session"] = used["session"]
         /\ \A r : Made(r) => Made(r)'
<1>1. /\ host \in [session : [session : Nat, valid : BOOLEAN, next : Nat \ {0}, dec : Decoders],
                   pending : [kind : {"none", "ack", "response"}, request : Nat]]
      /\ used \in [Events -> Nat] /\ Events = {"session", "output", "input", "cut", "fault"}
  BY DEF Typed, HostTyped, Events
<1>2. used'["session"] = used["session"]
  <2>1. CASE ConsoleInput \/ PortLost
    BY <1>1, <2>1 DEF ConsoleInput, PortLost, Spend
  <2>2. CASE Expire \/ Read
    BY <2>2 DEF Expire, Read
  <2>3. CASE RxStep \/ CmdStep
    BY <2>3 DEF RxStep, RxRead, CmdStep
  <2>4. CASE AppStep
    BY <1>1, <2>4 DEF AppStep, AppFinishes, ConsoleWrite, Publish, Published, AppNotify, ReadInput, Spend
  <2>5. CASE TxStep
    BY <1>1, <2>5 DEF TxStep, TxControl, TxConsole, TxWakes, TxGate, TxSend, TxGivesUp, Spend
  <2>6. CASE Reboot
    BY <1>1, <2>6 DEF Reboot, Spend
  <2>7. CASE UNCHANGED vars
    BY <2>7 DEF vars
  <2> QED BY <2>1, <2>2, <2>3, <2>4, <2>5, <2>6, <2>7 DEF Next, HostStep
<1> DEFINE Loses == host'.session = NoSession /\ host'.pending = NoPending
           Keeps == /\ host'.session.session = host.session.session
                    /\ host'.session.next = host.session.next
                    /\ host'.session = host.session \/ host.session # NoSession
                    /\ \/ host'.session.valid = host.session.valid /\ host'.pending = host.pending
                       \/ host'.pending = NoPending
<1>3. UNCHANGED <<host, answers>> => Keeps /\ DOMAIN answers' = DOMAIN answers
  OBVIOUS
<1>4. (Loses \/ Keeps) /\ DOMAIN answers' = DOMAIN answers
  <2>1. CASE Expire
    <3>1. DOMAIN answers' = DOMAIN answers
      BY <2>1, AnsweredTyped DEF Expire, Typed
    <3>2. CASE host.pending.kind = "ack"
      BY <1>1, <2>1, <3>1, <3>2 DEF Expire
    <3>3. CASE host.pending.kind # "ack"
      BY <1>1, <2>1, <3>1, <3>3 DEF Expire
    <3> QED BY <3>2, <3>3
  <2>2. CASE Read
    <3>1. PICK n \in 0 .. Len(toHost) :
            \/ UNCHANGED <<host, answers>>
            \/ Answered("unknown", NoRun) /\ host' = Offline
            \/ HearsNothing(n)
            \/ \E f \in Heard(n) : HearsReply(n, f)
      BY <2>2, ReadEffect DEF Typed
    <3>2. CASE Answered("unknown", NoRun) /\ host' = Offline
      BY <3>2, AnsweredTyped, OfflineTyped DEF Typed
    <3>3. CASE HearsNothing(n)
      BY <1>1, <3>3 DEF HearsNothing, Decoded
    <3>4. CASE \E f \in Heard(n) : HearsReply(n, f)
      <4>1. PICK f \in Heard(n) : HearsReply(n, f)
        BY <3>4
      <4>2. DOMAIN answers' = DOMAIN answers
        BY <4>1, AnsweredTyped DEF HearsReply, Typed
      <4>3. Loses \/ Keeps
        <5>1. CASE host' = Offline
          BY <5>1, OfflineTyped
        <5>2. CASE \E d \in DecodersOf(Heard(n)) :
                     host' = [session |-> [Decoded(d) EXCEPT !.valid = TRUE], pending |-> NoPending]
          <6>1. PICK d \in DecodersOf(Heard(n)) :
                     host' = [session |-> [Decoded(d) EXCEPT !.valid = TRUE], pending |-> NoPending]
            BY <5>2
          <6>2. host'.session = [[host.session EXCEPT !.dec = d] EXCEPT !.valid = TRUE] /\ host'.pending = NoPending
            BY <6>1 DEF Decoded
          <6>3. host'.session.session = host.session.session /\ host'.session.next = host.session.next
            BY <1>1, <6>2
          <6>4. host.session # NoSession
            BY <4>1 DEF HearsReply
          <6> QED BY <6>2, <6>3, <6>4
        <5> QED BY <4>1, <5>1, <5>2 DEF HearsReply
      <4> QED BY <4>2, <4>3
    <3> QED BY <1>3, <3>1, <3>2, <3>3, <3>4
  <2>3. CASE PortLost
    BY <2>3, PortLostEffect, AnsweredTyped, OfflineTyped DEF Typed
  <2>4. CASE ConsoleInput
    BY <1>3, <2>4 DEF ConsoleInput, hostVars
  <2>5. CASE RxStep \/ CmdStep \/ AppStep \/ TxStep \/ Reboot
    <3>1. UNCHANGED hostVars
      BY <2>5 DEF RxStep, RxRead, CmdStep, AppStep, AppFinishes, Elsewhere, TxStep, Reboot
    <3> QED BY <1>3, <3>1 DEF hostVars
  <2>6. CASE UNCHANGED vars
    BY <1>3, <2>6 DEF vars, hostVars
  <2> QED BY <2>1, <2>2, <2>3, <2>4, <2>5, <2>6 DEF Next, HostStep
<1>5. \A r : Made(r) => Made(r)'
  BY <1>2, <1>4, OfflineTyped DEF Made
<1>6. HostCounts'
  <2>1. \A r \in DOMAIN answers' : Made(r)'
    BY <1>4, <1>5 DEF HostCounts
  <2>2. CASE Loses
    BY <2>1, <2>2, OfflineTyped DEF HostCounts
  <2>3. CASE Keeps
    BY <1>2, <1>4, <2>1, <2>3, OfflineTyped DEF HostCounts
  <2> QED BY <1>4, <2>2, <2>3
<1> QED BY <1>2, <1>4, <1>5, <1>6

CountInv == PathInOrder /\ HostCounts /\ AllMade

LEMMA CountStart == ASSUME SessionAssumption, Init PROVE CountInv
<1>1. /\ toDevice = <<>> /\ rxDec.f = NoFrame /\ rx.todo = <<>> /\ requests = <<>> /\ cmd.f = NoFrame
      /\ cmd.pc = "idle" /\ ran = <<>> /\ DOMAIN answers = {}
  BY BetweenTyped, RestingTyped DEF Init, FreshDevice
<1>2. Unread = {} /\ Undecoded = {NoFrame} /\ Unhandled = {NoFrame} /\ Untaken = {NoFrame} /\ Uncalled = {NoFrame}
  BY <1>1 DEF Unread, Undecoded, Unhandled, Untaken, Uncalled
<1>3. PathInOrder
  BY <1>1, <1>2, NoFrameTyped, BeforeNothing
     DEF PathInOrder, WireInOrder, TodoInOrder, RequestsInOrder, CallsInOrder
<1>4. HostCounts
  BY <1>1, OfflineTyped DEF Init, HostCounts
<1>5. AllMade
  BY <1>1, <1>2, NoFrameTyped DEF AllMade, Ran
<1> QED BY <1>3, <1>4, <1>5 DEF CountInv

(* A hello begins a session no frame has had.                               *)
LEMMA CountConnect ==
  ASSUME Typed, CountInv, Connect
  PROVE  CountInv' /\ Ran' = Ran /\ UNCHANGED device /\ DOMAIN answers' = DOMAIN answers
         /\ \E f \in Frames : /\ f.kind = "hello" /\ f.session = used'["session"] /\ f.request = 0
                              /\ Unhandled' = Unhandled \cup {f} /\ Uncalled' = Uncalled \cup {f}
<1>0. PICK s : s = used'["session"]
  OBVIOUS
<1> DEFINE f == Frame("hello", s, 0, NoRun)
<1>1. used \in [Events -> Nat] /\ "session" \in Events
  BY DEF Typed, HostTyped, Events
<1>2. s = used["session"] + 1 /\ s \in Nat /\ used["session"] \in Nat
  BY <1>0, <1>1, SpendTyped DEF Connect
<1>3. host' = [session |-> [NoSession EXCEPT !.session = s], pending |-> [kind |-> "ack", request |-> 0]]
      /\ toDevice' = Append(toDevice, Whole(f)) /\ UNCHANGED <<answers, device>>
  BY <1>0 DEF Connect
<1>4. f \in Frames /\ f.kind = "hello" /\ f.session = s /\ Run(f) = <<s, 0>> /\ f.request = 0
  BY <1>2 DEF Frame, Frames, Kinds, NoRun, Run
<1> HIDE DEF f
<1>5. Whole(f) \in Items /\ Whole(f).f = f
  BY <1>4, WholeTyped
<1>6. \A r : Made(r) => Earlier(r, Run(f)) /\ r[1] \in 1 .. s /\ r[1] # s
  BY <1>2, <1>4 DEF Made, Earlier
<1>7. \A i \in DOMAIN ran : Earlier(ran[i], Run(f))
  BY <1>6 DEF CountInv, AllMade, HostCounts, Ran
<1>8. \A g \in Uncalled : Tracked(g) => Earlier(Run(g), Run(f))
  BY <1>6 DEF CountInv, AllMade
<1>9. PathInOrder' /\ Unhandled' = Unhandled \cup {f} /\ Uncalled' = Uncalled \cup {f}
  BY <1>3, <1>5, <1>7, <1>8, SentOrder DEF CountInv
<1>10. Ran' = Ran
  BY <1>3 DEF device, Ran
<1>11. /\ host'.session.session = s /\ host'.session.valid = FALSE /\ host'.session.next = 1
       /\ host'.pending.kind = "ack"
  <2>1. host'.session = [session |-> s, valid |-> FALSE, next |-> 1, dec |-> Between]
    BY <1>3 DEF NoSession
  <2> QED BY <1>3, <2>1
<1>12. \A r : Made(r) => Made(r)'
  BY <1>0, <1>2, <1>6, <1>11 DEF Made
<1>13. HostCounts'
  BY <1>0, <1>2, <1>3, <1>11, <1>12 DEF HostCounts, CountInv
<1>14. Made(Run(f))'
  BY <1>0, <1>2, <1>4, <1>11 DEF Made
<1>15. AllMade'
  <2>1. \A g \in Uncalled' : Tracked(g) => Made(Run(g))'
    BY <1>9, <1>12, <1>14 DEF CountInv, AllMade
  <2>2. \A g \in Uncalled' : g.kind = "request" => Run(g) \in DOMAIN answers'
    BY <1>3, <1>4, <1>9 DEF CountInv, AllMade
  <2> QED BY <1>3, <1>10, <2>1, <2>2 DEF CountInv, AllMade
<1> QED BY <1>0, <1>3, <1>4, <1>9, <1>10, <1>13, <1>15 DEF CountInv

(* A request has a number no frame of its session has had.                  *)
LEMMA CountRequest ==
  ASSUME Typed, CountInv, Request
  PROVE  CountInv' /\ Ran' = Ran /\ UNCHANGED device
         /\ \E f \in Frames : /\ f.kind = "request" /\ Run(f) \notin DOMAIN answers
                              /\ f.of = NoRun
                              /\ DOMAIN answers' = {Run(f)} \cup DOMAIN answers
                              /\ answers'[Run(f)].how = "pending"
                              /\ \A r \in DOMAIN answers : answers'[r] = answers[r]
                              /\ Unhandled' = Unhandled \cup {f} /\ Uncalled' = Uncalled \cup {f}
<1>0. PICK s, id : s = host.session.session /\ id = host.session.next
  OBVIOUS
<1> DEFINE f == Frame("request", s, id, NoRun)
           r == <<s, id>>
<1>1. /\ host.session \in [session : Nat, valid : BOOLEAN, next : Nat \ {0}, dec : Decoders]
      /\ used \in [Events -> Nat] /\ "session" \in Events
  BY DEF Typed, HostTyped, Events
<1>2. /\ host' = [session |-> [host.session EXCEPT !.next = NextId(host.session)],
                  pending |-> [kind |-> "response", request |-> id]]
      /\ answers' = [x \in {r} \cup DOMAIN answers |->
                       IF x = r THEN [how |-> "pending", of |-> NoRun] ELSE answers[x]]
      /\ toDevice' = Append(toDevice, Whole(f)) /\ UNCHANGED <<used, device>>
      /\ host.session.valid
  BY <1>0 DEF Request
<1>3. s \in Nat /\ id \in Nat \ {0}
  BY <1>0, <1>1
<1>4. s = used["session"] /\ s # 0
  BY <1>0, <1>2, OfflineTyped DEF CountInv, HostCounts
<1>5. f \in Frames /\ f.kind = "request" /\ f.session = s /\ Run(f) = r /\ f.of = NoRun
  BY <1>3 DEF Frame, Frames, Kinds, NoRun, Run
<1>6. /\ host'.session.session = s /\ host'.session.next = id + 1 /\ host'.session.valid
      /\ host'.pending.kind = "response" /\ host'.pending.request = id
      /\ host'.session # NoSession
  <2>1. host'.session.session = s /\ host'.session.next = id + 1 /\ host'.session.valid
    BY <1>0, <1>1, <1>2 DEF NextId
  <2> QED BY <1>2, <1>4, <2>1, OfflineTyped
<1> HIDE DEF f
<1>7. Whole(f) \in Items /\ Whole(f).f = f
  BY <1>5, WholeTyped
<1>8. \A x : Made(x) => Earlier(x, Run(f)) /\ x # r
  <2> SUFFICES ASSUME NEW x, Made(x) PROVE Earlier(x, Run(f)) /\ x # r
    OBVIOUS
  <2>1. x[1] \in 1 .. s /\ (x[1] = s => x[2] < id)
    BY <1>0, <1>4 DEF Made
  <2>2. x # r
    BY <1>3, <2>1
  <2>3. Run(f)[1] = s /\ Run(f)[2] = id
    BY <1>5
  <2> QED BY <1>3, <2>1, <2>2, <2>3 DEF Earlier
<1>9. r \notin DOMAIN answers
  BY <1>8 DEF CountInv, HostCounts
<1>10. \A i \in DOMAIN ran : Earlier(ran[i], Run(f))
  BY <1>8 DEF CountInv, AllMade, HostCounts, Ran
<1>11. \A g \in Uncalled : Tracked(g) => Earlier(Run(g), Run(f))
  BY <1>8 DEF CountInv, AllMade
<1>12. PathInOrder' /\ Unhandled' = Unhandled \cup {f} /\ Uncalled' = Uncalled \cup {f}
  BY <1>2, <1>7, <1>10, <1>11, SentOrder DEF CountInv
<1>13. Ran' = Ran
  BY <1>2 DEF device, Ran
<1>14. DOMAIN answers' = {r} \cup DOMAIN answers /\ answers'[r].how = "pending"
       /\ \A x \in DOMAIN answers : answers'[x] = answers[x]
  <2> HIDE DEF r
  <2>1. \A x \in DOMAIN answers : x # r
    BY <1>9
  <2> QED BY <1>2, <2>1
<1>15. \A x : Made(x) => Made(x)'
  <2> SUFFICES ASSUME NEW x, Made(x) PROVE Made(x)'
    OBVIOUS
  <2>1. x[1] \in 1 .. s /\ x[2] \in Nat /\ (x[1] = s => x[2] < id)
    BY <1>0, <1>4 DEF Made
  <2>2. x[1] = s => x[2] < id + 1
    <3>1. CASE x[1] = s
      <4>1. x[2] < id
        BY <2>1, <3>1
      <4> QED BY <1>3, <2>1, <4>1
    <3> QED BY <3>1
  <2> QED BY <1>2, <1>4, <1>6, <2>1, <2>2 DEF Made
<1>16. Made(r)'
  <2>1. r[1] = s /\ r[2] = id /\ id < id + 1 /\ s \in 1 .. s
    BY <1>3, <1>4
  <2> QED BY <1>2, <1>3, <1>4, <1>6, <2>1 DEF Made
<1>17. HostCounts'
  BY <1>2, <1>4, <1>6, <1>14, <1>15, <1>16, OfflineTyped DEF HostCounts, CountInv
<1>18. AllMade'
  <2>1. \A g \in Uncalled' : Tracked(g) => Made(Run(g))'
    BY <1>5, <1>12, <1>15, <1>16 DEF CountInv, AllMade
  <2>2. \A g \in Uncalled' : g.kind = "request" => Run(g) \in DOMAIN answers'
    BY <1>5, <1>12, <1>14 DEF CountInv, AllMade
  <2> QED BY <1>13, <1>14, <2>1, <2>2 DEF CountInv, AllMade
<1> QED BY <1>0, <1>2, <1>5, <1>9, <1>12, <1>13, <1>14, <1>17, <1>18 DEF CountInv

LEMMA CountStep == ASSUME Typed, CountInv, [Next]_vars PROVE CountInv'
<1>1. CASE Connect \/ Request
  BY <1>1, CountConnect, CountRequest
<1>2. CASE ~(Connect \/ Request)
  <2>1. PathInOrder' /\ Flows /\ HostCounts' /\ DOMAIN answers' = DOMAIN answers /\ \A r : Made(r) => Made(r)'
    BY <1>2, PathStep, HostKeeps DEF CountInv
  <2>2. \A g \in Uncalled' : Tracked(g) => Made(Run(g))'
    BY <2>1 DEF Flows, CountInv, AllMade
  <2>3. \A g \in Uncalled' : g.kind = "request" => Run(g) \in DOMAIN answers'
    BY <2>1 DEF Flows, CountInv, AllMade, Tracked
  <2>4. Ran' \subseteq DOMAIN answers'
    BY <2>1 DEF Flows, CountInv, AllMade
  <2> QED BY <2>1, <2>2, <2>3, <2>4 DEF CountInv, AllMade
<1> QED BY <1>1, <1>2

LEMMA CountIsEnough == ASSUME Typed, CountInv PROVE NothingRunsTwice
<1>1. ran \in Seq(Nat \X Nat)
  BY DEF Typed, DeviceTyped
<1>2. ASSUME NEW i \in DOMAIN ran, NEW j \in DOMAIN ran, ran[i] = ran[j] PROVE i = j
  <2>1. i \in Nat /\ j \in Nat /\ ran[i] \in Nat \X Nat
    BY <1>1
  <2>2. ~Earlier(ran[i], ran[i])
    BY <2>1 DEF Earlier
  <2>3. ~(i < j) /\ ~(j < i)
    BY <1>2, <2>2 DEF CountInv, PathInOrder, CallsInOrder
  <2> QED BY <2>1, <2>3
<1>3. IsInjective(ran)
  BY <1>2 DEF IsInjective
<1> QED BY <1>3 DEF NothingRunsTwice, CountInv, AllMade

-----------------------------------------------------------------------------
(* What stays true of a frame on its way to the host, whatever happens.     *)

LEMMA FramesTyped ==
  ASSUME Typed
  PROVE  Uncalled \subseteq Frames /\ Unhandled \subseteq Uncalled /\ Untaken \subseteq Uncalled
         /\ Coming \subseteq Frames
<1>1. /\ toDevice \in Seq(Items) /\ rxDec \in Decoders /\ rx.todo \in Seq(Items) /\ requests \in Seq(Frames)
      /\ cmd.f \in Frames /\ tx.f \in Frames /\ app.f \in Frames /\ control \in Seq(Frames)
      /\ toHost \in Seq(Items) /\ host.session.dec \in Decoders
  BY DEF Typed, LinkTyped, DeviceTyped, HostTyped
<1>2. (\A item \in Items : item.f \in Frames) /\ (\A d \in Decoders : d.f \in Frames)
  BY DEF Items, Decoders
<1>3. Unread \subseteq Frames
  <2>1. \A i \in DOMAIN toDevice : toDevice[i] \in Items
    BY <1>1
  <2> QED BY <1>2, <2>1 DEF Unread
<1>4. \A i \in DOMAIN rx.todo : rx.todo[i].f \in Frames
  <2>1. \A i \in DOMAIN rx.todo : rx.todo[i] \in Items
    BY <1>1
  <2> QED BY <1>2, <2>1
<1>5. \A i \in DOMAIN requests : requests[i] \in Frames
  BY <1>1
<1>6. \A i \in DOMAIN control : control[i] \in Frames
  BY <1>1
<1>7. \A i \in DOMAIN toHost : toHost[i].f \in Frames
  <2>1. \A i \in DOMAIN toHost : toHost[i] \in Items
    BY <1>1
  <2> QED BY <1>2, <2>1
<1>8. Uncalled \subseteq Frames /\ Unhandled \subseteq Uncalled /\ Untaken \subseteq Uncalled
  BY <1>1, <1>2, <1>3, <1>4, <1>5 DEF Undecoded, Unhandled, Untaken, Uncalled
<1>9. Coming \subseteq Frames
  BY <1>1, <1>2, <1>6, <1>7 DEF Coming
<1> QED BY <1>8, <1>9

(* What every step leaves alone.                                            *)
Later ==
  /\ used["session"] <= used'["session"]
  /\ \A g \in Unhandled' : g.kind = "hello" => g \in Unhandled \/ (g.session \in Nat /\ used["session"] < g.session)
  /\ session' \in {0, session} \/ \E g \in Unhandled : g.kind = "hello" /\ session' = g.session
  /\ DOMAIN answers \subseteq DOMAIN answers'
  /\ Ran \subseteq Ran'
  /\ \A r \in Ran' : r \in Ran \/ \E g \in Uncalled : g.kind = "request" /\ r = Run(g)
  /\ \A g \in Uncalled' : g.kind = "request" => g \in Uncalled \/ Run(g) \notin DOMAIN answers

LEMMA SessionAfter ==
  ASSUME Typed, [Next]_vars
  PROVE  session' \in {0, session} \/ \E g \in Unhandled : g.kind = "hello" /\ session' = g.session
<1>1. CASE RxHello
  <2>1. rx.todo \in Seq(Items) /\ rx.todo # <<>> /\ Todo.f.kind = "hello" /\ session' = Todo.f.session
    BY <1>1 DEF Typed, DeviceTyped, RxHello, AtRx, Hello
  <2>2. Todo = rx.todo[1] /\ 1 \in DOMAIN rx.todo
    BY <2>1, TailOf DEF Todo
  <2> QED BY <2>1, <2>2 DEF Unhandled
<1>2. CASE Reboot
  BY <1>2 DEF Reboot
<1>3. CASE HostStep
  <2>1. UNCHANGED device
    BY <1>3 DEF HostStep, Connect, Request, ConsoleInput, Expire, Read, PortLost
  <2> QED BY <2>1 DEF device
<1>4. CASE RxStep /\ ~RxHello
  BY <1>4 DEF RxStep, RxRead, RxRaw, RxReset, RxAck, RxNotify, RxConsole, RxRequest, RxIgnore
<1>5. CASE CmdStep \/ AppStep \/ TxStep
  BY <1>5 DEF CmdStep, AppStep, AppFinishes, Elsewhere, TxStep
<1>6. CASE UNCHANGED vars
  BY <1>6 DEF vars, device
<1> QED BY <1>1, <1>2, <1>3, <1>4, <1>5, <1>6 DEF Next

LEMMA LaterStep == ASSUME Typed, CountInv, [Next]_vars PROVE Later
<1>1. used["session"] \in Nat
  BY DEF Typed, HostTyped, Events
<1>2. session' \in {0, session} \/ \E g \in Unhandled : g.kind = "hello" /\ session' = g.session
  BY SessionAfter
<1>3. CASE Connect
  <2>1. used'["session"] = used["session"] + 1
    BY <1>3, SpendTyped DEF Connect, Typed, HostTyped, Events
  <2>2. PICK f \in Frames : /\ f.kind = "hello" /\ f.session = used'["session"]
                            /\ Unhandled' = Unhandled \cup {f} /\ Uncalled' = Uncalled \cup {f}
    BY <1>3, CountConnect
  <2>3. f.session \in Nat
    BY DEF Frames
  <2>4. Ran' = Ran /\ DOMAIN answers' = DOMAIN answers
    BY <1>3, CountConnect
  <2> QED BY <1>1, <1>2, <2>1, <2>2, <2>3, <2>4 DEF Later
<1>4. CASE Request
  <2>1. used' = used
    BY <1>4 DEF Request
  <2>2. PICK f \in Frames : /\ f.kind = "request" /\ Run(f) \notin DOMAIN answers
                            /\ DOMAIN answers' = {Run(f)} \cup DOMAIN answers
                            /\ Unhandled' = Unhandled \cup {f} /\ Uncalled' = Uncalled \cup {f}
    BY <1>4, CountRequest
  <2>3. Ran' = Ran
    BY <1>4, CountRequest
  <2> QED BY <1>1, <1>2, <2>1, <2>2, <2>3 DEF Later
<1>5. CASE ~(Connect \/ Request)
  <2>1. Flows /\ DOMAIN answers' = DOMAIN answers /\ used'["session"] = used["session"]
    BY <1>5, PathStep, HostKeeps DEF CountInv
  <2> QED BY <1>1, <1>2, <2>1 DEF Later, Flows, Tracked
<1> QED BY <1>3, <1>4, <1>5

LEMMA PastStays ==
  ASSUME Typed, Typed', Later, NEW s \in Nat, Past(s)
  PROVE  Past(s)'
<1>1. used["session"] \in Nat /\ used'["session"] \in Nat /\ session \in Nat
  BY DEF Typed, HostTyped, DeviceTyped, Events
<1>2. \A g \in Unhandled : g.session \in Nat
  BY FramesTyped DEF Frames
<1>4. s <= used'["session"]
  BY <1>1 DEF Later, Past
<1>5. ASSUME NEW g \in Unhandled', g.kind = "hello" PROVE s < g.session
  BY <1>1, <1>2, <1>5 DEF Later, Past
<1>6. session' # 0 => s <= session'
  BY <1>1, <1>2 DEF Later, Past
<1> QED BY <1>4, <1>5, <1>6 DEF Past

LEMMA RefusedStays == ASSUME Later, NEW r, Refused(r) PROVE Refused(r)'
BY DEF Later, Refused

LEMMA TrueStays ==
  ASSUME Typed, Typed', Later, NEW f \in Frames, True(f)
  PROVE  True(f)'
<1>1. f.session \in Nat
  BY DEF Frames
<1>2. f.kind = "ack" => Past(f.session)'
  BY <1>1, PastStays DEF True
<1>3. Executed(f) => Executed(f)'
  BY DEF Executed, Later
<1>4. Refused(Run(f)) => Refused(Run(f))'
  BY RefusedStays
<1> QED BY <1>2, <1>3, <1>4 DEF True

LEMMA PlainStep ==
  ASSUME Typed, CountInv, SentPlain, [Next]_vars
  PROVE  SentPlain'
<1>1. CASE Connect
  BY <1>1, CountConnect DEF SentPlain
<1>2. CASE Request
  BY <1>2, CountRequest DEF SentPlain
<1>3. CASE ~(Connect \/ Request)
  <2>1. Flows
    BY <1>3, PathStep DEF CountInv
  <2> QED BY <2>1 DEF Flows, SentPlain, Tracked
<1> QED BY <1>1, <1>2, <1>3

-----------------------------------------------------------------------------
(* Every frame that gets on its way to the host is true: one that was on    *)
(* its way before, or one that the step made.                               *)

(* rx_task makes acknowledgements, and refuses requests it cannot queue.    *)
LEMMA RxComing ==
  ASSUME Typed, Typed', CountInv, SentPlain, HelloInHand, RxStep
  PROVE  \A f \in Coming' : f \in Coming \/ True(f)'
<1>1. CASE RxAck
  <2>0. PICK a : a = [Todo.f EXCEPT !.kind = "ack"]
    OBVIOUS
  <2>1. /\ control' = control \/ control' = Append(control, a)
        /\ rx.pc = "ack" /\ rx.todo # <<>> /\ rx'.todo = Tail(rx.todo) /\ requests' = requests /\ session' = session
        /\ UNCHANGED <<hostVars, toDevice, toHost, rxDec, tx, cmd, app, ran, used>>
    BY <1>1, <2>0, HandledIs DEF RxStep, RxAck, AtRx, Enqueue, Sent, RxRead
  <2>2. /\ PathInOrder' /\ Unhandled' \subseteq Unhandled /\ Todo.f \in Unhandled
        /\ \A g \in Unhandled' : Before(Todo.f, g)
    BY <2>1, HandledOrder DEF CountInv
  <2>3. Todo.f \in Frames /\ Todo.f.kind = "hello" /\ Todo.f.session = session /\ session <= used["session"]
    BY <2>1, <2>2, FramesTyped DEF HelloInHand
  <2>4. a \in Frames /\ a.kind = "ack" /\ a.session = session
    BY <2>0, <2>3 DEF Frames, Kinds
  <2>5. ASSUME NEW g \in Unhandled', g.kind = "hello" PROVE session < g.session
    <3>1. g \in Uncalled /\ Todo.f \in Uncalled /\ g \in Frames
      BY <2>2, FramesTyped
    <3>2. g.request = 0 /\ Todo.f.request = 0
      BY <2>3, <2>5, <3>1 DEF SentPlain
    <3>3. Earlier(Run(Todo.f), Run(g))
      BY <2>2, <2>3, <2>5 DEF Before, Tracked
    <3> QED BY <2>3, <3>1, <3>2, <3>3 DEF Earlier, Run, Frames
  <2>6. Past(session)'
    <3>1. session \in Nat
      BY DEF Typed, DeviceTyped
    <3> QED BY <2>1, <2>3, <2>5, <3>1 DEF Past
  <2>7. True(a)'
    BY <2>1, <2>4, <2>6 DEF True
  <2>8. \A i \in DOMAIN control' : control'[i] \in Coming \/ control'[i] = a
    <3>1. control \in Seq(Frames)
      BY DEF Typed, DeviceTyped
    <3>2. \A i \in DOMAIN control : control[i] \in Coming
      BY DEF Coming
    <3> QED BY <2>1, <2>4, <3>1, <3>2, AppendTo
  <2>9. \A f \in Coming' : f \in Coming \/ f = a
    BY <2>1, <2>8 DEF Coming, hostVars
  <2> QED BY <2>7, <2>9
<1>2. CASE RxRequest
  <2>0. PICK e : e = [Todo.f EXCEPT !.kind = "error"]
    OBVIOUS
  <2>1. /\ rx.pc = "idle" /\ rx.todo # <<>> /\ rx'.todo = Tail(rx.todo) /\ session' = session
        /\ Todo.f.kind = "request"
        /\ UNCHANGED <<hostVars, toDevice, toHost, rxDec, tx, cmd, app, ran, used>>
        /\ \/ requests' = Append(requests, Todo.f) /\ control' = control
           \/ requests' = requests /\ (control' = control \/ control' = Append(control, e))
    <3>1. /\ rx.pc = "idle" /\ rx.todo # <<>> /\ Todo.f.kind = "request" /\ session' = session
          /\ UNCHANGED <<hostVars, toDevice, toHost, rxDec, tx, cmd, app, ran, used>>
      BY <1>2 DEF RxStep, RxRequest, AtRx, RxRead, Current
    <3>2. rx'.todo = Tail(rx.todo)
      BY <1>2, <3>1, HandledIs DEF RxRequest
    <3>3. \/ requests' = Append(requests, Todo.f) /\ control' = control
          \/ requests' = requests /\ (control' = control \/ control' = Append(control, e))
      BY <1>2, <2>0 DEF RxRequest, Enqueue, Sent
    <3> QED BY <3>1, <3>2, <3>3
  <2>2. /\ PathInOrder' /\ Unhandled' \subseteq Unhandled /\ Uncalled' \subseteq Uncalled /\ Todo.f \in Unhandled
        /\ \A g \in Unhandled' : Before(Todo.f, g)
    BY <2>1, HandledOrder DEF CountInv
  <2>3. Todo.f \in Frames /\ Todo.f \in Uncalled /\ Todo.f \in Untaken /\ Tracked(Todo.f)
    BY <2>1, <2>2, FramesTyped DEF Untaken, Tracked
  <2>4. PICK r \in Nat \X Nat : r = Run(Todo.f)
    BY <2>3 DEF Run, Frames
  <2>5. e \in Frames /\ e.kind = "error" /\ Run(e) = r /\ e.of = NoRun
    BY <2>0, <2>1, <2>3, <2>4 DEF Frames, Kinds, SentPlain, Run
  <2>6. control' = control \/ (control' = Append(control, e) /\ requests' = requests)
    BY <2>1
  <2>7. ASSUME requests' = requests PROVE Refused(r)'
    <3>0. \A q \in Nat \X Nat : Earlier(r, q) \/ Earlier(q, r) => q # r
      BY <2>4 DEF Earlier
    <3>1. r \in DOMAIN answers'
      <4>1. answers' = answers
        BY <2>1 DEF hostVars
      <4> QED BY <2>1, <2>3, <2>4, <4>1 DEF CountInv, AllMade
    <3>2. r \notin Ran'
      <4>0. \A i \in DOMAIN ran : ran[i] \in Nat \X Nat
        BY SMTT(30) DEF Typed, DeviceTyped
      <4>1. \A i \in DOMAIN ran : ran[i] \in Nat \X Nat /\ Earlier(ran[i], r)
        BY <2>3, <2>4, <4>0 DEF CountInv, PathInOrder, CallsInOrder
      <4> QED BY <2>1, <3>0, <4>1 DEF Ran
    <3>3. ASSUME NEW g \in Uncalled', g.kind = "request" PROVE Run(g) # r
      <4>1. g \in Frames /\ Tracked(g) /\ Run(g) \in Nat \X Nat
        BY <2>2, <3>3, FramesTyped DEF Tracked, Run, Frames
      <4>2. CASE g \in Unhandled'
        BY <2>2, <2>3, <2>4, <3>0, <4>1, <4>2 DEF Before
      <4>3. CASE \E i \in DOMAIN requests : g = requests[i]
        BY <2>2, <2>3, <2>4, <3>0, <4>1, <4>3 DEF Before, CountInv, PathInOrder, RequestsInOrder
      <4>4. CASE g = cmd.f
        BY <2>2, <2>3, <2>4, <3>0, <4>1, <4>4 DEF Before, CountInv, PathInOrder, CallsInOrder
      <4>5. g \in Unhandled' \/ (\E i \in DOMAIN requests : g = requests[i]) \/ g = cmd.f
        BY <2>1, <2>7 DEF Uncalled, Untaken
      <4> QED BY <4>2, <4>3, <4>4, <4>5
    <3> QED BY <3>1, <3>2, <3>3 DEF Refused
  <2>8. requests' = requests => True(e)'
    BY <2>5, <2>7 DEF True
  <2>9. \A i \in DOMAIN control' : control'[i] \in Coming \/ (requests' = requests /\ control'[i] = e)
    <3>1. control \in Seq(Frames)
      BY DEF Typed, DeviceTyped
    <3>2. \A i \in DOMAIN control : control[i] \in Coming
      BY DEF Coming
    <3> QED BY <2>5, <2>6, <3>1, <3>2, AppendTo
  <2>10. \A f \in Coming' : f \in Coming \/ (requests' = requests /\ f = e)
    BY <2>1, <2>9 DEF Coming, hostVars
  <2> QED BY <2>8, <2>10
<1>3. CASE ~(RxAck \/ RxRequest)
  <2>1. UNCHANGED <<hostVars, control, cmd, app, tx, toHost>>
    BY <1>3 DEF RxStep, RxRead, RxRaw, RxHello, RxReset, RxNotify, RxConsole, RxIgnore, queues
  <2> QED BY <2>1 DEF Coming, hostVars
<1> QED BY <1>1, <1>2, <1>3

(* A frame that claims nothing.                                             *)
Plain(f) == f.kind \notin {"ack", "response", "error"}

LEMMA PlainIsTrue == ASSUME NEW f, Plain(f) PROVE True(f)'
BY DEF True, Plain

LEMMA NoFramePlain == Plain(NoFrame) /\ Plain(Between.f) /\ Plain(Resting.f)
BY NoFrameTyped, BetweenTyped, RestingTyped DEF Plain

(* command_task makes the reply to the request the handler was called with. *)
LEMMA CmdComing ==
  ASSUME Typed, CountInv, CmdStep
  PROVE  \A f \in Coming' : f \in Coming \/ True(f)'
<1>1. UNCHANGED <<hostVars, toHost, tx, app, toDevice, rxDec, rx>>
  BY DEF CmdStep
<1>2. control \in Seq(Frames) /\ cmd.f \in Frames /\ \A i \in DOMAIN control : control[i] \in Coming
  BY DEF Typed, DeviceTyped, Coming
<1>0. PICK c : c = cmd'.f
  OBVIOUS
<1>3. ASSUME control' = control, c \in Coming \/ True(c)'
      PROVE  \A f \in Coming' : f \in Coming \/ True(f)'
  <2>1. \A f \in Coming' : f \in Coming \/ f = c
    BY <1>0, <1>1, <1>3 DEF Coming, hostVars
  <2> QED BY <1>3, <2>1
<1>4. CASE CmdTake
  <2>1. cmd'.f = Head(requests) /\ control' = control /\ requests # <<>> /\ requests \in Seq(Frames)
    BY <1>4 DEF CmdTake, Task, Typed, DeviceTyped
  <2>2. cmd'.f.kind = "request"
    BY <2>1, TailOf DEF CountInv, PathInOrder, RequestsInOrder
  <2>3. Plain(c)
    BY <1>0, <2>2 DEF Plain
  <2> QED BY <1>3, <2>1, <2>3, PlainIsTrue
<1>5. CASE CmdCheck
  <2>1. control' = control /\ cmd'.f \in {cmd.f, NoFrame}
    BY <1>5, RestingTyped DEF CmdCheck, Task, queues
  <2>2. c \in Coming \/ Plain(c)
    BY <1>0, <2>1, NoFramePlain DEF Coming
  <2> QED BY <1>3, <2>1, <2>2, PlainIsTrue
<1>6. CASE CmdCall
  <2>1. PICK kind \in {"response", "error"} :
          cmd' = Task("reply", Frame(kind, cmd.f.session, cmd.f.request, Run(cmd.f)))
    BY <1>6 DEF CmdCall, Run
  <2>2. Run(c) = Run(cmd.f) /\ c.of = Run(cmd.f) /\ c.kind = kind
    BY <1>0, <2>1 DEF Task, Frame, Run
  <2>3. Run(cmd.f) \in Ran'
    BY <1>1, <1>6, CallOrder DEF CountInv
  <2>4. Executed(c)'
    BY <2>2, <2>3 DEF Executed
  <2>5. True(c)'
    BY <2>2, <2>4 DEF True
  <2> QED BY <1>3, <1>6, <2>5 DEF CmdCall, queues
<1>7. CASE CmdReply
  <2>1. control' \in {control, Append(control, cmd.f)} /\ cmd'.f = NoFrame
    BY <1>7 DEF CmdReply, Enqueue, Sent, Task
  <2>2. \A i \in DOMAIN control' : control'[i] \in Coming
    <3>1. cmd.f \in Coming
      BY DEF Coming
    <3> QED BY <1>2, <2>1, <3>1, AppendTo
  <2>3. \A f \in Coming' : f \in Coming \/ Plain(f)
    BY <1>1, <2>1, <2>2, NoFramePlain DEF Coming, hostVars
  <2> QED BY <2>3, PlainIsTrue
<1>8. CASE CmdNotify
  <2>1. control' = control /\ c = NoFrame
    BY <1>0, <1>8, RestingTyped DEF CmdNotify, queues
  <2> QED BY <1>3, <2>1, PlainIsTrue, NoFramePlain
<1> QED BY <1>4, <1>5, <1>6, <1>7, <1>8 DEF CmdStep

(* The application publishes events, which claim nothing.                   *)
LEMMA AppComing ==
  ASSUME Typed, AppStep
  PROVE  \A f \in Coming' : f \in Coming \/ True(f)'
<1>1. UNCHANGED <<hostVars, toHost, tx, cmd>>
  BY DEF AppStep, AppFinishes, Elsewhere
<1>2. control \in Seq(Frames) /\ app.f \in Frames /\ \A i \in DOMAIN control : control[i] \in Coming
  BY DEF Typed, DeviceTyped, Coming
<1>3. control' \in {control, Append(control, app.f)} /\ (app'.f = app.f \/ Plain(app'.f))
  <2>1. CASE Publish
    BY <2>1 DEF Publish, queues, Task, Plain, Frame
  <2>2. CASE Published
    BY <2>2, NoFramePlain DEF Published, Enqueue, Sent, Task
  <2>3. CASE ConsoleWrite
    BY <2>3, NoFramePlain DEF ConsoleWrite, Task
  <2>4. CASE AppNotify \/ ReadInput
    BY <2>4, NoFramePlain DEF AppNotify, ReadInput, queues
  <2> QED BY <2>1, <2>2, <2>3, <2>4 DEF AppStep, AppFinishes
<1>4. \A i \in DOMAIN control' : control'[i] \in Coming
  <2>1. app.f \in Coming
    BY DEF Coming
  <2> QED BY <1>2, <1>3, <2>1, AppendTo
<1>5. \A f \in Coming' : f \in Coming \/ Plain(f)
  BY <1>1, <1>3, <1>4 DEF Coming, hostVars
<1> QED BY <1>5, PlainIsTrue

(* tx_task passes frames on, whole or in part.                              *)
LEMMA TxComing ==
  ASSUME Typed, TxStep
  PROVE  \A f \in Coming' : f \in Coming \/ True(f)'
<1>1. UNCHANGED <<hostVars, cmd, app>>
  BY DEF TxStep
<1>2. /\ control \in Seq(Frames) /\ console \in Seq({NoFrame}) /\ tx.f \in Frames /\ toHost \in Seq(Items)
      /\ \A i \in DOMAIN control : control[i] \in Coming
      /\ \A i \in DOMAIN toHost : toHost[i].f \in Coming
      /\ tx.f \in Coming
  BY DEF Typed, DeviceTyped, LinkTyped, Coming
<1> DEFINE Kept == /\ \A i \in DOMAIN control' : control'[i] \in Coming
                   /\ tx'.f \in Coming \/ Plain(tx'.f)
                   /\ \A i \in DOMAIN toHost' : toHost'[i].f \in Coming \/ toHost'[i].f = NoFrame
<1>3. ASSUME TxControl PROVE Kept
  <2>1. CASE control # <<>>
    <3>1. tx' = Task("gate", Head(control)) /\ control' = Tail(control) /\ toHost' = toHost
      BY <1>3, <2>1 DEF TxControl
    <3>2. tx'.f = control[1] /\ 1 \in DOMAIN control
          /\ \A i \in DOMAIN control' : i + 1 \in DOMAIN control /\ control'[i] = control[i + 1]
      BY <1>2, <2>1, <3>1, TailOf DEF Task
    <3> QED BY <1>2, <3>1, <3>2
  <2>2. CASE control = <<>>
    BY <1>2, <1>3, <2>2, NoFramePlain DEF TxControl, Task
  <2> QED BY <2>1, <2>2
<1>4. ASSUME TxConsole PROVE Kept
  <2>1. CASE console # <<>>
    <3>1. Head(console) = NoFrame
      BY <1>2, <2>1, TailOf
    <3> QED BY <1>2, <1>4, <2>1, <3>1, NoFramePlain DEF TxConsole, Task
  <2>2. CASE console = <<>>
    BY <1>2, <1>4, <2>2, NoFramePlain DEF TxConsole, Task
  <2> QED BY <2>1, <2>2
<1>5. ASSUME TxWakes PROVE Kept
  BY <1>2, <1>5, NoFramePlain DEF TxWakes
<1>6. ASSUME TxGate PROVE Kept
  <2>1. tx.f.kind = "console" => Plain(Stamped(tx.f))
    BY <1>2 DEF Stamped, Plain, Frames
  <2>2. (tx.f.kind = "console" /\ tx' = Task("send", Stamped(tx.f))) \/ tx' = Task("send", tx.f) \/ tx' = Resting
    BY <1>6 DEF TxGate
  <2>3. tx'.f \in Coming \/ Plain(tx'.f)
    BY <1>2, <2>1, <2>2, NoFramePlain DEF Task
  <2> QED BY <1>2, <1>6, <2>3 DEF TxGate
<1>7. ASSUME NEW item \in Items, item.f \in {tx.f, NoFrame}, toHost' = Append(toHost, item)
      PROVE  \A i \in DOMAIN toHost' : toHost'[i].f \in Coming \/ toHost'[i].f = NoFrame
  BY <1>2, <1>7, AppendTo
<1>8. ASSUME TxSend PROVE Kept
  <2>1. \A i \in DOMAIN toHost' : toHost'[i].f \in Coming \/ toHost'[i].f = NoFrame
    BY <1>2, <1>7, <1>8, OnWireTyped DEF TxSend
  <2> QED BY <1>2, <1>8, <2>1, NoFramePlain DEF TxSend
<1>9. ASSUME TxGivesUp PROVE Kept
  <2>1. \A i \in DOMAIN toHost' : toHost'[i].f \in Coming \/ toHost'[i].f = NoFrame
    <3>1. CASE UNCHANGED toHost
      BY <1>2, <3>1
    <3>2. CASE \E item \in Cuts(OnWire) : toHost' = Append(toHost, item)
      <4>1. PICK item \in Cuts(OnWire) : toHost' = Append(toHost, item)
        BY <3>2
      <4>2. OnWire \in Items /\ OnWire.f \in {tx.f, NoFrame}
        BY <1>2, OnWireTyped
      <4>3. item \in Items /\ item.f \in {OnWire.f, NoFrame}
        BY <4>1, <4>2, CutsTyped
      <4> QED BY <1>7, <4>1, <4>2, <4>3
    <3> QED BY <1>9, <3>1, <3>2 DEF TxGivesUp
  <2> QED BY <1>2, <1>9, <2>1, NoFramePlain DEF TxGivesUp
<1>10. Kept
  BY <1>3, <1>4, <1>5, <1>6, <1>8, <1>9 DEF TxStep
<1>11. \A f \in Coming' : f \in Coming \/ Plain(f)
  BY <1>1, <1>10, NoFramePlain DEF Coming, hostVars
<1> QED BY <1>11, PlainIsTrue

(* What the host may take from a read.                                      *)
Acknowledges(f, s) == f.kind = "ack" /\ f.session = s
Answers(f, r, answer) ==
  /\ Run(f) = r
  /\ \/ f.kind = "response" /\ answer = [how |-> "ok", of |-> f.of]
     \/ f.kind = "error" /\ answer = [how |-> "error", of |-> f.of]

Learns ==
  /\ UNCHANGED device
  /\ \E n \in 0 .. Len(toHost) :
       /\ toHost' = SubSeq(toHost, n + 1, Len(toHost))
       /\ host'.session.dec.f \in Heard(n)
       /\ host'.session.valid =>
            \/ host.session.valid /\ host'.session.session = host.session.session
            \/ \E f \in Heard(n) : Acknowledges(f, host'.session.session)
  /\ DOMAIN answers' = DOMAIN answers
  /\ \A r \in DOMAIN answers :
       \/ answers'[r] = answers[r]
       \/ answers'[r].how = "unknown"
       \/ \E f \in Coming : Answers(f, r, answers'[r])

LEMMA HeardComing ==
  ASSUME Typed, NEW n \in 0 .. Len(toHost)
  PROVE  \A f \in Heard(n) : f \in Coming \/ f = NoFrame
<1>1. toHost \in Seq(Items)
  BY DEF Typed, LinkTyped
<1>2. \A i \in 1 .. n : i \in DOMAIN toHost /\ SubSeq(toHost, 1, n)[i] = toHost[i]
  BY <1>1, PrefixOf
<1>3. DOMAIN SubSeq(toHost, 1, n) = 1 .. n
  BY <1>1, PrefixOf
<1> QED BY <1>2, <1>3 DEF Heard, Seen, Coming

LEMMA AnsweredUnknown ==
  ASSUME Typed, Answered("unknown", NoRun)
  PROVE  /\ DOMAIN answers' = DOMAIN answers
         /\ \A r \in DOMAIN answers : answers'[r] = answers[r] \/ answers'[r].how = "unknown"
<1>1. HostTyped
  BY DEF Typed
<1>2. \A r \in DOMAIN answers : answers'[r] = answers[r] \/ answers'[r] = [how |-> "unknown", of |-> NoRun]
  BY <1>1, AnsweredTyped
<1>3. DOMAIN answers' = DOMAIN answers
  BY <1>1, AnsweredTyped
<1> QED BY <1>2, <1>3

LEMMA AllRead ==
  ASSUME Typed
  PROVE  \E n \in 0 .. Len(toHost) : toHost = SubSeq(toHost, n + 1, Len(toHost))
<1>1. toHost \in Seq(Items) /\ 0 \in 0 .. Len(toHost)
  BY DEF Typed, LinkTyped
<1>2. toHost = SubSeq(toHost, 0 + 1, Len(toHost))
  BY <1>1
<1> QED BY <1>1, <1>2

LEMMA ReadLearns == ASSUME Typed, HostCounts, Read PROVE Learns
<1>1. /\ UNCHANGED device
      /\ host.session \in [session : Nat, valid : BOOLEAN, next : Nat \ {0}, dec : Decoders]
      /\ \A m : NoFrame \in Heard(m) /\ host.session.dec.f \in Heard(m)
  BY ReadEffect DEF Typed, HostTyped, Heard, Seen
<1>2. PICK n \in 0 .. Len(toHost) :
        /\ toHost' = SubSeq(toHost, n + 1, Len(toHost))
        /\ \/ UNCHANGED <<host, answers>>
           \/ Answered("unknown", NoRun) /\ host' = Offline
           \/ HearsNothing(n)
           \/ \E f \in Heard(n) : HearsReply(n, f)
  BY ReadEffect DEF Typed
<1>3. CASE UNCHANGED <<host, answers>>
  BY <1>1, <1>2, <1>3 DEF Learns
<1>4. CASE Answered("unknown", NoRun) /\ host' = Offline
  BY <1>1, <1>2, <1>4, AnsweredUnknown, OfflineTyped, BetweenTyped DEF Learns
<1>5. CASE HearsNothing(n)
  <2>1. PICK d \in DecodersOf(Heard(n)) : host' = [host EXCEPT !.session = Decoded(d)]
    BY <1>5 DEF HearsNothing
  <2>2. host'.session = [host.session EXCEPT !.dec = d]
    BY <2>1 DEF Decoded, Typed, HostTyped
  <2>3. host'.session.dec = d /\ host'.session.valid = host.session.valid /\ host'.session.session = host.session.session
    BY <1>1, <2>2
  <2>4. d.f \in Heard(n)
    BY DEF DecodersOf
  <2>5. answers' = answers
    BY <1>5 DEF HearsNothing
  <2> QED BY <1>1, <1>2, <2>3, <2>4, <2>5 DEF Learns
<1>6. CASE \E f \in Heard(n) : HearsReply(n, f)
  <2>1. PICK f \in Heard(n) : HearsReply(n, f)
    BY <1>6
  <2>2. /\ Pending /\ f.session = host.session.session /\ f.request = host.pending.request
        /\ f.kind \in {host.pending.kind, "error"}
        /\ Answered(IF f.kind = "error" THEN "error" ELSE "ok", f.of)
    BY <2>1 DEF HearsReply
  <2>3. f \in Coming \/ f = NoFrame
    BY HeardComing
  <2>4. host.pending.kind \in {"none", "ack", "response"}
    BY DEF Typed, HostTyped
  <2>5. f \in Coming
    BY <2>2, <2>3, <2>4, NoFrameTyped
  <2>6. f.kind \in Kinds
    BY <2>5, FramesTyped DEF Frames
  <2>7. \A r \in DOMAIN answers : answers'[r] = answers[r] \/ Answers(f, r, answers'[r])
    <3>1. TAKE r \in DOMAIN answers
    <3>2. \/ answers'[r] = answers[r]
          \/ /\ host.pending.kind = "response"
             /\ r = <<host.session.session, host.pending.request>>
             /\ answers'[r] = [how |-> IF f.kind = "error" THEN "error" ELSE "ok", of |-> f.of]
      BY <2>2, AnsweredTyped DEF Typed
    <3> QED BY <2>2, <3>2 DEF Answers, Run
  <2>8. DOMAIN answers' = DOMAIN answers
    BY <2>2, AnsweredTyped DEF Typed
  <2>9. CASE host' = Offline
    BY <1>1, <1>2, <2>5, <2>7, <2>8, <2>9, OfflineTyped, BetweenTyped DEF Learns
  <2>10. CASE host' # Offline
    <3>1. f.kind = "error" => host.session.valid
      BY <2>1, <2>10 DEF HearsReply
    <3>2. PICK d \in DecodersOf(Heard(n)) :
            host' = [session |-> [Decoded(d) EXCEPT !.valid = TRUE], pending |-> NoPending]
      BY <2>1, <2>10 DEF HearsReply
    <3>3. host'.session = [[host.session EXCEPT !.dec = d] EXCEPT !.valid = TRUE]
      BY <3>2 DEF Decoded
    <3>4. host'.session.dec = d /\ host'.session.session = host.session.session
      BY <1>1, <3>3
    <3>5. d.f \in Heard(n)
      BY DEF DecodersOf
    <3>6. host.session.valid \/ f.kind = "ack"
      <4>1. CASE host.pending.kind = "response"
        BY <4>1 DEF HostCounts
      <4>2. CASE host.pending.kind = "ack"
        BY <2>2, <3>1, <4>2
      <4>3. CASE host.pending.kind = "none"
        BY <2>2, <2>6, <3>1, <4>3 DEF Kinds
      <4> QED BY <2>4, <4>1, <4>2, <4>3
    <3>7. \/ host.session.valid /\ host'.session.session = host.session.session
          \/ Acknowledges(f, host'.session.session)
      BY <2>2, <3>4, <3>6 DEF Acknowledges
    <3> QED BY <1>1, <1>2, <2>5, <2>7, <2>8, <3>4, <3>5, <3>7 DEF Learns
  <2> QED BY <2>9, <2>10
<1> QED BY <1>2, <1>3, <1>4, <1>5, <1>6

LEMMA HostLearns == ASSUME Typed, HostCounts, HostStep, ~(Connect \/ Request) PROVE Learns
<1>1. /\ host.session \in [session : Nat, valid : BOOLEAN, next : Nat \ {0}, dec : Decoders]
      /\ \A m : NoFrame \in Heard(m) /\ host.session.dec.f \in Heard(m)
  BY DEF Typed, HostTyped, Heard, Seen
<1>2. CASE ConsoleInput
  <2>1. UNCHANGED <<host, answers, toHost, device>>
    BY <1>2 DEF ConsoleInput, hostVars
  <2>2. \E n \in 0 .. Len(toHost) : toHost' = SubSeq(toHost, n + 1, Len(toHost))
    BY <2>1, AllRead
  <2> QED BY <1>1, <2>1, <2>2 DEF Learns
<1>3. CASE Expire
  <2>1. /\ UNCHANGED <<toHost, device>> /\ Answered("unknown", NoRun)
        /\ host'.session = IF host.pending.kind = "ack" THEN NoSession ELSE host.session
    BY <1>3 DEF Expire, Typed, HostTyped
  <2>2. \E n \in 0 .. Len(toHost) : toHost' = SubSeq(toHost, n + 1, Len(toHost))
    BY <2>1, AllRead
  <2>3. CASE host.pending.kind = "ack"
    BY <1>1, <2>1, <2>2, <2>3, AnsweredUnknown, OfflineTyped, BetweenTyped DEF Learns
  <2>4. CASE host.pending.kind # "ack"
    BY <1>1, <2>1, <2>2, <2>4, AnsweredUnknown DEF Learns
  <2> QED BY <2>3, <2>4
<1>4. CASE Read
  BY <1>4, ReadLearns
<1>5. CASE PortLost
  <2>1. /\ \E n \in 0 .. Len(toHost) : toHost' = SubSeq(toHost, n + 1, Len(toHost))
        /\ host' = Offline /\ Answered("unknown", NoRun) /\ UNCHANGED device
    BY <1>5, PortLostEffect DEF Typed
  <2> QED BY <1>1, <2>1, AnsweredUnknown, OfflineTyped, BetweenTyped DEF Learns
<1> QED BY <1>2, <1>3, <1>4, <1>5 DEF HostStep

LEMMA LearnsComing == ASSUME Typed, Learns PROVE \A f \in Coming' : f \in Coming \/ f = NoFrame
<1>1. UNCHANGED <<control, cmd, app, tx>> /\ host'.session.dec.f \in Coming \cup {NoFrame}
  BY HeardComing DEF Learns, device, queues, tasks
<1>2. PICK n \in 0 .. Len(toHost) : toHost' = SubSeq(toHost, n + 1, Len(toHost))
  BY DEF Learns
<1>3. \A i \in DOMAIN toHost' : toHost'[i].f \in Coming
  <2>1. toHost \in Seq(Items)
    BY DEF Typed, LinkTyped
  <2>2. \A i \in DOMAIN toHost' : i + n \in DOMAIN toHost /\ toHost'[i] = toHost[i + n]
    BY <1>2, <2>1, SuffixOf
  <2> QED BY <2>2 DEF Coming
<1> QED BY <1>1, <1>3 DEF Coming

LEMMA ConnectHost ==
  ASSUME Connect
  PROVE  host'.session.valid = FALSE /\ host'.session.dec = Between /\ host'.session.session = used'["session"]
         /\ UNCHANGED <<answers, toHost, device>>
<1>1. host'.session = [session |-> used'["session"], valid |-> FALSE, next |-> 1, dec |-> Between]
  BY DEF Connect, NoSession
<1> QED BY <1>1 DEF Connect

LEMMA RequestHost ==
  ASSUME Typed, Request
  PROVE  host'.session.valid = host.session.valid /\ host'.session.dec = host.session.dec
         /\ host'.session.session = host.session.session /\ UNCHANGED <<toHost, device>>
<1>1. host.session \in [session : Nat, valid : BOOLEAN, next : Nat \ {0}, dec : Decoders]
  BY DEF Typed, HostTyped
<1>2. host'.session = [host.session EXCEPT !.next = NextId(host.session)]
  BY DEF Request
<1> QED BY <1>1, <1>2 DEF Request

LEMMA RebootComing ==
  ASSUME Typed, Reboot
  PROVE  \A f \in Coming' : f \in Coming \/ f = NoFrame
<1>1. /\ control' = <<>> /\ tx' = Resting /\ cmd' = Resting /\ app' = Resting /\ UNCHANGED host
  BY DEF Reboot, hostVars
<1>2. toHost \in Seq(Items) /\ tx.f \in Frames /\ tx.f \in Coming /\ \A i \in DOMAIN toHost : toHost[i].f \in Coming
  BY DEF Typed, LinkTyped, DeviceTyped, Coming
<1>3. \A i \in DOMAIN toHost' : toHost'[i].f \in Coming \cup {NoFrame}
  <2>1. CASE toHost' = Append(toHost, Text)
    BY <1>2, <2>1, TextTyped, AppendTo
  <2>2. CASE \E item \in Cuts(OnWire) : toHost' = toHost \o <<item, Text>>
    <3>1. PICK item \in Cuts(OnWire) : toHost' = toHost \o <<item, Text>>
      BY <2>2
    <3>2. OnWire \in Items /\ OnWire.f \in {tx.f, NoFrame}
      BY <1>2, OnWireTyped
    <3>3. item \in Items /\ item.f \in {tx.f, NoFrame}
      BY <3>1, <3>2, CutsTyped
    <3>4. toHost' = Append(Append(toHost, item), Text)
      BY <1>2, <3>1, <3>3, TextTyped
    <3>5. Append(toHost, item) \in Seq(Items)
          /\ \A i \in DOMAIN Append(toHost, item) : Append(toHost, item)[i].f \in Coming \cup {NoFrame}
      BY <1>2, <3>3, AppendTo
    <3>6. PICK s \in Seq(Items) : s = Append(toHost, item)
      BY <3>5
    <3> QED BY <3>4, <3>5, <3>6, TextTyped, AppendTo
  <2> QED BY <2>1, <2>2 DEF Reboot
<1> QED BY <1>1, <1>3, RestingTyped DEF Coming

LEMMA ComingStep ==
  ASSUME Typed, Typed', CountInv, SentPlain, HelloInHand, [Next]_vars
  PROVE  \A f \in Coming' : f \in Coming \/ True(f)'
<1>1. CASE Connect
  <2>1. \A f \in Coming' : f \in Coming \/ f = NoFrame
    BY <1>1, ConnectHost, BetweenTyped DEF Coming, device, queues, tasks
  <2> QED BY <2>1, PlainIsTrue, NoFramePlain
<1>2. CASE Request
  BY <1>2, RequestHost DEF Coming, device, queues, tasks
<1>3. CASE HostStep /\ ~(Connect \/ Request)
  <2>1. \A f \in Coming' : f \in Coming \/ f = NoFrame
    BY <1>3, HostLearns, LearnsComing DEF CountInv
  <2> QED BY <2>1, PlainIsTrue, NoFramePlain
<1>4. CASE Reboot
  <2>1. \A f \in Coming' : f \in Coming \/ f = NoFrame
    BY <1>4, RebootComing
  <2> QED BY <2>1, PlainIsTrue, NoFramePlain
<1>5. CASE UNCHANGED vars
  BY <1>5 DEF vars, hostVars, device, queues, tasks, Coming
<1> QED BY <1>1, <1>2, <1>3, <1>4, <1>5, RxComing, CmdComing, AppComing, TxComing DEF Next

-----------------------------------------------------------------------------
(* The host believes what is true. *)

TrueInv == SentPlain /\ RepliesAreTrue /\ HelloInHand /\ SessionPast /\ AnswersAreTrue

LEMMA TrueStart == ASSUME SessionAssumption, Init PROVE TrueInv
<1>1. /\ toDevice = <<>> /\ rxDec.f = NoFrame /\ rx.todo = <<>> /\ requests = <<>> /\ cmd.f = NoFrame
      /\ control = <<>> /\ app.f = NoFrame /\ tx.f = NoFrame /\ toHost = <<>> /\ rx.pc = "idle"
      /\ DOMAIN answers = {} /\ session = 0 /\ host.session = NoSession /\ used["session"] = 0
  BY BetweenTyped, RestingTyped, OfflineTyped DEF Init, FreshDevice, Events
<1>2. Uncalled = {NoFrame}
  BY <1>1 DEF Unread, Undecoded, Unhandled, Untaken, Uncalled
<1>3. Coming = {NoFrame}
  BY <1>1, OfflineTyped, BetweenTyped DEF Coming
<1> QED BY <1>1, <1>2, <1>3, NoFrameTyped, OfflineTyped
        DEF TrueInv, SentPlain, RepliesAreTrue, True, HelloInHand, SessionPast, AnswersAreTrue

LEMMA HelloStep ==
  ASSUME Typed, Typed', CountInv, HelloInHand, [Next]_vars
  PROVE  HelloInHand'
<1>1. session' <= used'["session"]
  <2>1. Later
    BY LaterStep
  <2>2. session \in Nat /\ used["session"] \in Nat /\ used'["session"] \in Nat
    BY DEF Typed, HostTyped, DeviceTyped, Events
  <2>3. \A g \in Unhandled : g.kind = "hello" => g.session \in Nat /\ g.session <= used["session"]
    <3> TAKE g \in Unhandled
    <3>1. g \in Uncalled
      BY FramesTyped
    <3>2. g.kind = "hello" => Made(Run(g))
      BY <3>1 DEF CountInv, AllMade, Tracked
    <3> QED BY <2>2, <3>2 DEF Made, Run
  <2> QED BY <2>1, <2>2, <2>3 DEF Later, HelloInHand
<1> DEFINE Holds == rx.pc \in {"reset", "ack"} =>
                      /\ rx.todo # <<>> /\ Todo.f.kind = "hello" /\ Todo.f.session = session
<1>2. rx \in [pc : {"idle", "reset", "ack", "notify"}, todo : Seq(Items)]
  BY DEF Typed, DeviceTyped
<1>3. ASSUME UNCHANGED <<rx, session>> PROVE Holds'
  BY <1>3 DEF HelloInHand, Todo
<1>4. ASSUME rx'.pc \notin {"reset", "ack"} PROVE Holds'
  BY <1>4
<1>5. CASE HostStep
  <2>1. UNCHANGED device
    BY <1>5 DEF HostStep, Connect, Request, ConsoleInput, Expire, Read, PortLost
  <2> QED BY <1>1, <1>3, <2>1 DEF device, tasks, HelloInHand
<1>6. CASE CmdStep \/ AppStep \/ TxStep
  <2>1. UNCHANGED <<rx, session>>
    BY <1>6 DEF CmdStep, AppStep, AppFinishes, Elsewhere, TxStep
  <2> QED BY <1>1, <1>3, <2>1 DEF HelloInHand
<1>7. CASE Reboot
  <2>1. rx'.pc = "idle"
    BY <1>7 DEF Reboot
  <2> QED BY <1>1, <1>4, <2>1 DEF HelloInHand
<1>8. CASE UNCHANGED vars
  BY <1>1, <1>3, <1>8 DEF vars, device, tasks, HelloInHand
<1>9. CASE RxHello
  <2>1. rx'.pc = "reset" /\ rx'.todo = rx.todo /\ session' = Todo.f.session /\ rx.todo # <<>> /\ Todo.f.kind = "hello"
    BY <1>2, <1>9 DEF RxHello, AtRx, Hello
  <2> QED BY <1>1, <2>1 DEF HelloInHand, Todo
<1>10. CASE RxReset
  <2>1. rx'.pc = "ack" /\ rx'.todo = rx.todo /\ session' = session /\ rx.pc = "reset"
    BY <1>2, <1>10 DEF RxReset, AtRx
  <2> QED BY <1>1, <2>1 DEF HelloInHand, Todo
<1>11. CASE RxRead \/ RxRaw \/ RxAck \/ RxNotify \/ RxConsole \/ RxRequest \/ RxIgnore
  <2>1. rx'.pc \in {"idle", "notify"}
    <3>1. Handled.pc = "idle" /\ \A pc : [Handled EXCEPT !.pc = pc].pc = pc
      BY DEF Handled
    <3>2. AfterEnqueue \in {"notify", "idle"}
      BY DEF AfterEnqueue
    <3>3. CASE RxRead \/ RxNotify
      BY <1>2, <3>3 DEF RxRead, RxNotify
    <3>4. CASE RxRaw \/ RxConsole \/ RxIgnore
      BY <3>1, <3>4 DEF RxRaw, RxConsole, RxIgnore
    <3>5. CASE RxAck
      BY <3>1, <3>2, <3>5 DEF RxAck
    <3>6. CASE RxRequest
      BY <3>1, <3>2, <3>6 DEF RxRequest
    <3> QED BY <1>11, <3>3, <3>4, <3>5, <3>6
  <2> QED BY <1>1, <1>4, <2>1 DEF HelloInHand
<1> QED BY <1>5, <1>6, <1>7, <1>8, <1>9, <1>10, <1>11 DEF Next, RxStep

LEMMA SessionPastStep ==
  ASSUME Typed, Typed', CountInv, RepliesAreTrue, SessionPast, [Next]_vars
  PROVE  SessionPast'
<1>1. Later
  BY LaterStep
<1>2. host.session.session \in Nat
  BY DEF Typed, HostTyped
<1>3. PICK s : s = host'.session.session
  OBVIOUS
<1>4. \/ host'.session.valid = FALSE
      \/ host.session.valid /\ s = host.session.session
      \/ \E f \in Coming : Acknowledges(f, s)
  <2>1. CASE Connect
    BY <2>1, ConnectHost
  <2>2. CASE Request
    BY <1>3, <2>2, RequestHost
  <2>3. CASE HostStep /\ ~(Connect \/ Request)
    <3>1. Learns
      BY <2>3, HostLearns DEF CountInv
    <3>2. \A n \in 0 .. Len(toHost) : \A f \in Heard(n) : Acknowledges(f, s) => f \in Coming
      BY HeardComing, NoFrameTyped DEF Acknowledges
    <3> QED BY <1>3, <3>1, <3>2 DEF Learns, Typed, HostTyped
  <2>4. CASE RxStep \/ CmdStep \/ AppStep \/ TxStep \/ Reboot \/ UNCHANGED vars
    <3>1. UNCHANGED hostVars
      BY <2>4 DEF RxStep, RxRead, CmdStep, AppStep, AppFinishes, Elsewhere, TxStep, Reboot, vars
    <3> QED BY <1>3, <3>1 DEF hostVars, Typed, HostTyped
  <2> QED BY <2>1, <2>2, <2>3, <2>4 DEF Next
<1>5. CASE host'.session.valid = FALSE
  BY <1>5 DEF SessionPast
<1>6. ASSUME s \in Nat, Past(s) PROVE SessionPast'
  <2>1. Past(s)'
    BY <1>1, <1>6, PastStays
  <2>2. s = host'.session.session => SessionPast'
    BY <2>1 DEF SessionPast, Past
  <2> QED BY <1>3, <2>2
<1>7. CASE host.session.valid /\ s = host.session.session
  BY <1>2, <1>6, <1>7 DEF SessionPast
<1>8. CASE \E f \in Coming : Acknowledges(f, s)
  <2>1. PICK f \in Coming : f.kind = "ack" /\ f.session = s
    BY <1>8 DEF Acknowledges
  <2>2. f \in Frames /\ True(f)
    BY FramesTyped DEF RepliesAreTrue
  <2> QED BY <1>6, <2>1, <2>2 DEF True, Frames
<1> QED BY <1>4, <1>5, <1>7, <1>8

LEMMA AnswersStep ==
  ASSUME Typed, Typed', CountInv, RepliesAreTrue, AnswersAreTrue, [Next]_vars
  PROVE  AnswersAreTrue'
<1>1. Later
  BY LaterStep
<1> DEFINE Fair(r, a) == /\ a.how = "ok" => a.of = r /\ r \in Ran
                         /\ a.how = "error" => (a.of = r /\ r \in Ran) \/ (a.of = NoRun /\ Refused(r))
<1>2. ASSUME NEW r, NEW a, Fair(r, a) PROVE Fair(r, a)'
  <2>1. r \in Ran => r \in Ran'
    BY <1>1 DEF Later
  <2>2. Refused(r) => Refused(r)'
    BY <1>1, RefusedStays
  <2> QED BY <1>2, <2>1, <2>2
<1>3. ASSUME NEW r \in DOMAIN answers, NEW a,
             \/ a = answers[r]
             \/ a.how \in {"unknown", "pending"}
             \/ \E f \in Coming : Answers(f, r, a)
      PROVE  Fair(r, a)
  <2>1. CASE a = answers[r]
    BY <2>1 DEF AnswersAreTrue
  <2>2. CASE a.how \in {"unknown", "pending"}
    BY <2>2
  <2>3. CASE \E f \in Coming : Answers(f, r, a)
    <3>1. PICK f \in Coming : Answers(f, r, a)
      BY <2>3
    <3>2. True(f) /\ Run(f) = r
      BY <3>1 DEF RepliesAreTrue, Answers
    <3>3. CASE f.kind = "response" /\ a = [how |-> "ok", of |-> f.of]
      BY <3>2, <3>3 DEF True, Executed
    <3>4. CASE f.kind = "error" /\ a = [how |-> "error", of |-> f.of]
      BY <3>2, <3>4 DEF True, Executed
    <3> QED BY <3>1, <3>3, <3>4 DEF Answers
  <2> QED BY <1>3, <2>1, <2>2, <2>3
<1>4. \A r \in DOMAIN answers' :
        \/ answers'[r].how \in {"unknown", "pending"}
        \/ /\ r \in DOMAIN answers
           /\ answers'[r] = answers[r] \/ \E f \in Coming : Answers(f, r, answers'[r])
  <2>1. CASE Connect
    BY <2>1, ConnectHost
  <2>2. CASE Request
    BY <2>2, CountRequest
  <2>3. CASE HostStep /\ ~(Connect \/ Request)
    BY <2>3, HostLearns DEF Learns, CountInv
  <2>4. CASE RxStep \/ CmdStep \/ AppStep \/ TxStep \/ Reboot \/ UNCHANGED vars
    <3>1. UNCHANGED hostVars
      BY <2>4 DEF RxStep, RxRead, CmdStep, AppStep, AppFinishes, Elsewhere, TxStep, Reboot, vars
    <3> QED BY <3>1 DEF hostVars
  <2> QED BY <2>1, <2>2, <2>3, <2>4 DEF Next
<1>5. ASSUME NEW r, r \in DOMAIN answers' PROVE \E a : a = answers'[r] /\ Fair(r, a)'
  <2>1. PICK a : a = answers'[r]
    OBVIOUS
  <2>2. Fair(r, a)
    <3>1. CASE a.how \in {"unknown", "pending"}
      BY <3>1
    <3>2. CASE r \in DOMAIN answers /\ (a = answers[r] \/ \E f \in Coming : Answers(f, r, a))
      <4> HIDE DEF Fair
      <4> QED BY <1>3, <3>2
    <3> QED BY <1>4, <1>5, <2>1, <3>1, <3>2
  <2> HIDE DEF Fair
  <2>3. Fair(r, a)'
    BY <1>2, <2>2
  <2> QED BY <2>1, <2>3
<1>6. ASSUME NEW r, r \in DOMAIN answers'
      PROVE  /\ answers'[r].how = "ok" => answers'[r].of = r /\ r \in Ran'
             /\ answers'[r].how = "error" =>
                  (answers'[r].of = r /\ r \in Ran') \/ (answers'[r].of = NoRun /\ Refused(r)')
  <2>1. PICK a : a = answers'[r] /\ Fair(r, a)'
    BY <1>5, <1>6
  <2> QED BY <2>1
<1> HIDE DEF Fair
<1> QED BY <1>6 DEF AnswersAreTrue

LEMMA TrueStep == ASSUME Typed, Typed', CountInv, TrueInv, [Next]_vars PROVE TrueInv'
<1>1. RepliesAreTrue'
  <2>1. ASSUME NEW f \in Coming' PROVE True(f)'
    <3>1. CASE f \in Coming
      BY <3>1, LaterStep, TrueStays, FramesTyped DEF TrueInv, RepliesAreTrue
    <3>2. CASE True(f)'
      BY <3>2
    <3> QED BY <3>1, <3>2, ComingStep DEF TrueInv
  <2> QED BY <2>1 DEF RepliesAreTrue
<1> QED BY <1>1, PlainStep, HelloStep, SessionPastStep, AnswersStep DEF TrueInv

(* A request whose handler call is still to come has not been refused.      *)
LEMMA TrueIsEnough == ASSUME Typed, CountInv, TrueInv PROVE AnswersAreOwn
<1>1. ASSUME NEW r, Refused(r) PROVE r \notin Ran /\ r \notin Waiting
  <2>1. SUFFICES ASSUME r \in Waiting PROVE FALSE
    BY <1>1 DEF Refused
  <2>2. PICK f \in ToSet(requests) \cup (IF cmd.pc \in {"taken", "call"} THEN {cmd.f} ELSE {}) :
          r = <<f.session, f.request>>
    BY <2>1 DEF Waiting
  <2>3. f \in Uncalled /\ f.kind = "request"
    <3>1. CASE f \in ToSet(requests)
      BY <3>1 DEF ToSet, Uncalled, Untaken, CountInv, PathInOrder, RequestsInOrder
    <3>2. CASE f \notin ToSet(requests)
      BY <2>2, <3>2 DEF Uncalled, CountInv, PathInOrder, CallsInOrder
    <3> QED BY <3>1, <3>2
  <2> QED BY <1>1, <2>2, <2>3 DEF Refused, Run
<1> QED BY <1>1 DEF AnswersAreOwn, TrueInv, AnswersAreTrue

-----------------------------------------------------------------------------
(* What the application has yet to read, and what text may still do. *)

LEMMA InputStart == ASSUME Init PROVE InputIsOwn
BY DEF Init, FreshDevice, InputIsOwn

LEMMA InputStep == ASSUME Typed, InputIsOwn, [Next]_vars PROVE InputIsOwn'
<1>1. /\ input \in Seq(Nat) /\ session \in Nat
      /\ rx \in [pc : {"idle", "reset", "ack", "notify"}, todo : Seq(Items)]
  BY DEF Typed, DeviceTyped
<1>2. ASSUME UNCHANGED <<input, session>>, rx'.pc # "reset" => rx.pc # "reset" PROVE InputIsOwn'
  BY <1>2 DEF InputIsOwn
<1>3. ASSUME UNCHANGED <<input, session, rx>> PROVE InputIsOwn'
  BY <1>2, <1>3
<1>4. ASSUME rx.pc # "reset", session' = session, input' \in {input, Append(input, session)} PROVE InputIsOwn'
  <2>1. \A i \in DOMAIN input : input[i] = session
    BY <1>4 DEF InputIsOwn
  <2>2. CASE input' = input
    BY <1>4, <2>1, <2>2 DEF InputIsOwn
  <2>3. CASE input' = Append(input, session)
    <3>1. input'[Len(input) + 1] = session
          /\ \A i \in DOMAIN input' : i = Len(input) + 1 \/ (i \in DOMAIN input /\ input'[i] = input[i])
      BY <1>1, <2>3, AppendTo
    <3> QED BY <1>4, <2>1, <3>1 DEF InputIsOwn
  <2> QED BY <1>4, <2>2, <2>3
<1>5. CASE HostStep
  <2>1. UNCHANGED device
    BY <1>5 DEF HostStep, Connect, Request, ConsoleInput, Expire, Read, PortLost
  <2> QED BY <1>3, <2>1 DEF device, queues, tasks
<1>6. CASE RxRead \/ RxRaw \/ RxNotify \/ RxConsole \/ RxAck \/ RxRequest \/ RxIgnore
  <2>1. rx.pc # "reset" /\ session' = session
    BY <1>6 DEF RxRead, RxRaw, RxNotify, RxConsole, RxAck, RxRequest, RxIgnore, AtRx
  <2>2. input' \in {input, Append(input, session)}
    BY <1>6 DEF RxRead, RxRaw, RxNotify, RxConsole, RxAck, RxRequest, RxIgnore, Sent, queues
  <2> QED BY <1>4, <2>1, <2>2
<1>7. CASE RxHello
  <2>1. rx'.pc = "reset"
    BY <1>1, <1>7 DEF RxHello
  <2> QED BY <2>1 DEF InputIsOwn
<1>8. CASE RxReset
  <2>1. input' = <<>>
    BY <1>8 DEF RxReset
  <2> QED BY <2>1 DEF InputIsOwn
<1>9. CASE CmdStep \/ TxStep
  <2>1. UNCHANGED <<input, session, rx>>
    BY <1>9 DEF CmdStep, CmdTake, CmdCheck, CmdCall, CmdReply, CmdNotify, TxStep, queues
  <2> QED BY <1>3, <2>1
<1>10. CASE AppStep /\ ~ReadInput
  <2>1. UNCHANGED <<input, session, rx>>
    BY <1>10 DEF AppStep, AppFinishes, Elsewhere, ConsoleWrite, Publish, Published, AppNotify, queues
  <2> QED BY <1>3, <2>1
<1>11. CASE AppStep /\ ReadInput
  <2>1. UNCHANGED <<session, rx>> /\ input # <<>> /\ input' = Tail(input)
    BY <1>11 DEF AppStep, AppFinishes, Elsewhere, ReadInput
  <2>2. \A i \in DOMAIN input' : i + 1 \in DOMAIN input /\ input'[i] = input[i + 1]
    BY <1>1, <2>1, TailOf
  <2> QED BY <2>1, <2>2 DEF InputIsOwn
<1>12. CASE Reboot
  <2>1. input' = <<>>
    BY <1>12 DEF Reboot
  <2> QED BY <2>1 DEF InputIsOwn
<1>13. CASE UNCHANGED vars
  BY <1>3, <1>13 DEF vars, device, queues, tasks
<1> QED BY <1>5, <1>6, <1>7, <1>8, <1>9, <1>10, <1>11, <1>12, <1>13 DEF Next, RxStep

(* A valid session is the last one the host began, and the device has it.   *)
LEMMA CurrentIsEnough ==
  ASSUME Typed, CountInv, TrueInv, InputIsOwn
  PROVE  SessionIsCurrent
<1>1. session \in Nat /\ used["session"] \in Nat /\ session <= used["session"]
  BY DEF Typed, DeviceTyped, HostTyped, Events, TrueInv, HelloInHand
<1>2. ASSUME host.session.valid, session # 0 PROVE session = host.session.session
  <2>1. host.session.session = used["session"]
    BY <1>2, OfflineTyped DEF CountInv, HostCounts
  <2>2. host.session.session <= session
    BY <1>2 DEF TrueInv, SessionPast, Past
  <2> QED BY <1>1, <2>1, <2>2
<1> QED BY <1>2 DEF SessionIsCurrent, InputIsOwn

LEMMA FramedStart == ASSUME Init PROVE FramedSince
BY DEF Init, FreshDevice, FramedSince

(* Of what is on the wire nothing changes but what the host has read.       *)
LEMMA FramedRead ==
  ASSUME Typed, FramedSince, UNCHANGED <<session, tx>>,
         NEW n \in 0 .. Len(toHost),
         toHost' = SubSeq(toHost, n + 1, Len(toHost)),
         host'.session.dec.f \in Heard(n),
         host'.session.valid =>
            \/ host.session.valid /\ host'.session.session = host.session.session
            \/ \E f \in Heard(n) : Acknowledges(f, host'.session.session)
  PROVE  FramedSince'
<1> SUFFICES ASSUME session # 0 PROVE FramedSince'
  BY DEF FramedSince
<1>1. toHost \in Seq(Items)
  BY DEF Typed, LinkTyped
<1>2. /\ DOMAIN toHost' = 1 .. Len(toHost) - n
      /\ \A i \in DOMAIN toHost' : i + n \in DOMAIN toHost /\ toHost'[i] = toHost[i + n]
      /\ DOMAIN toHost = 1 .. Len(toHost) /\ Len(toHost) \in Nat
  BY <1>1, SuffixOf
<1>3. ASSUME NEW i \in DOMAIN toHost', AcknowledgedIn(toHost'[i].f)
      PROVE  /\ \A j \in DOMAIN toHost' : i < j => toHost'[j].is # "text"
             /\ tx'.pc = "send" => tx'.f.session # 0
  <2>1. i + n \in DOMAIN toHost /\ AcknowledgedIn(toHost[i + n].f)
    BY <1>2, <1>3 DEF AcknowledgedIn
  <2>2. \A j \in DOMAIN toHost' : i < j => i + n < j + n
    BY <1>2
  <2> QED BY <1>2, <2>1, <2>2 DEF FramedSince
<1>4. ASSUME NoText PROVE NoText'
  BY <1>2, <1>4 DEF NoText, HasText
<1>5. ASSUME NEW f \in Heard(n), AcknowledgedIn(f) PROVE NoText'
  <2>1. PICK items \in Seq(Items) : /\ items = SubSeq(toHost, 1, n) /\ DOMAIN items = 1 .. n
                                    /\ \A i \in 1 .. n : i \in DOMAIN toHost /\ items[i] = toHost[i]
    BY <1>1, PrefixOf
  <2>2. f # NoFrame
    BY <1>5, NoFrameTyped DEF AcknowledgedIn
  <2>3. f = host.session.dec.f \/ \E i \in 1 .. n : f = toHost[i].f
    BY <2>1, <2>2 DEF Heard, Seen
  <2>4. CASE f = host.session.dec.f
    BY <1>4, <1>5, <2>4 DEF FramedSince
  <2>5. CASE \E i \in 1 .. n : f = toHost[i].f
    <3>1. PICK i \in 1 .. n : f = toHost[i].f
      BY <2>5
    <3>2. i \in DOMAIN toHost /\ \A j \in DOMAIN toHost' : i < j + n
      BY <1>2, <2>1
    <3>3. /\ \A j \in DOMAIN toHost : i < j => toHost[j].is # "text"
          /\ tx.pc = "send" => tx.f.session # 0
      BY <1>5, <3>1, <3>2 DEF FramedSince
    <3> QED BY <1>2, <3>2, <3>3 DEF NoText, HasText
  <2> QED BY <2>3, <2>4, <2>5
<1>6. AcknowledgedIn(host'.session.dec.f) => NoText'
  BY <1>5
<1>7. host'.session.valid /\ host'.session.session = session => NoText'
  <2> SUFFICES ASSUME host'.session.valid, host'.session.session = session PROVE NoText'
    OBVIOUS
  <2>1. CASE host.session.valid /\ host'.session.session = host.session.session
    BY <1>4, <2>1 DEF FramedSince
  <2>2. CASE \E f \in Heard(n) : Acknowledges(f, host'.session.session)
    BY <1>5, <2>2 DEF Acknowledges, AcknowledgedIn
  <2> QED BY <2>1, <2>2
<1> QED BY <1>3, <1>6, <1>7 DEF FramedSince, AcknowledgedIn

(* tx_task sends one more item: text only without a session.                *)
LEMMA FramedAppend ==
  ASSUME Typed, FramedSince, UNCHANGED <<session, host>>, tx.pc = "send", tx'.pc = "idle",
         toHost' = toHost \/ \E item \in Items : /\ toHost' = Append(toHost, item)
                                                 /\ item.is = "text" => tx.f.session = 0
  PROVE  FramedSince'
<1>1. toHost \in Seq(Items)
  BY DEF Typed, LinkTyped
<1>2. CASE toHost' = toHost
  BY <1>2 DEF FramedSince, AcknowledgedIn, NoText
<1>3. CASE \E item \in Items : toHost' = Append(toHost, item) /\ (item.is = "text" => tx.f.session = 0)
  <2>1. PICK item \in Items : toHost' = Append(toHost, item) /\ (item.is = "text" => tx.f.session = 0)
    BY <1>3
  <2>2. /\ DOMAIN toHost' = 1 .. Len(toHost) + 1 /\ toHost'[Len(toHost) + 1] = item
        /\ \A i \in DOMAIN toHost : i \in DOMAIN toHost' /\ toHost'[i] = toHost[i]
        /\ \A i \in DOMAIN toHost' : i \in DOMAIN toHost \/ i = Len(toHost) + 1
        /\ Len(toHost) \in Nat /\ DOMAIN toHost = 1 .. Len(toHost)
    BY <1>1, <2>1, AppendTo
  <2> SUFFICES ASSUME session # 0 PROVE FramedSince'
    BY DEF FramedSince
  <2>3. ASSUME NEW i \in DOMAIN toHost', AcknowledgedIn(toHost'[i].f), NEW j \in DOMAIN toHost', i < j
        PROVE  toHost'[j].is # "text"
    <3>1. i \in DOMAIN toHost /\ AcknowledgedIn(toHost[i].f)
      BY <2>2, <2>3 DEF AcknowledgedIn
    <3>2. tx.f.session # 0 /\ \A k \in DOMAIN toHost : i < k => toHost[k].is # "text"
      BY <3>1 DEF FramedSince
    <3> QED BY Zenon, <2>1, <2>2, <2>3, <3>2
  <2>4. ASSUME NoText PROVE NoText'
    BY Zenon, <2>1, <2>2, <2>4 DEF NoText, HasText
  <2> QED BY <2>3, <2>4 DEF FramedSince, AcknowledgedIn
<1> QED BY <1>2, <1>3

LEMMA FramedTx == ASSUME Typed, FramedSince, TxStep PROVE FramedSince'
<1>1. UNCHANGED <<host, session>> /\ tx.f \in Frames
  BY DEF TxStep, hostVars, Typed, DeviceTyped
<1>2. CASE TxControl \/ TxConsole \/ TxWakes \/ TxGate
  <2>1. toHost' = toHost
    BY <1>2 DEF TxControl, TxConsole, TxWakes, TxGate
  <2>2. session # 0 => (tx'.pc = "send" => tx'.f.session # 0)
    <3>1. CASE TxGate
      <4>1. tx.f \in Frames => Stamped(tx.f).session = session
        BY DEF Stamped, Frames
      <4>2. tx' = Task("send", Stamped(tx.f)) \/ (tx' = Task("send", tx.f) /\ tx.f.session = session) \/ tx' = Resting
        BY <3>1 DEF TxGate
      <4> QED BY <1>1, <4>1, <4>2, RestingTyped DEF Task
    <3>2. CASE TxControl \/ TxConsole \/ TxWakes
      BY <3>2, RestingTyped DEF TxControl, TxConsole, TxWakes, Task
    <3> QED BY <1>2, <3>1, <3>2
  <2> QED BY <1>1, <2>1, <2>2 DEF FramedSince, AcknowledgedIn, NoText
<1>3. OnWire \in Items /\ (OnWire.is = "text" => tx.f.session = 0)
  BY <1>1, OnWireTyped, WholeTyped DEF OnWire
<1>4. CASE TxSend
  <2>1. tx.pc = "send" /\ tx'.pc = "idle" /\ toHost' = Append(toHost, OnWire)
    BY <1>4, RestingTyped DEF TxSend
  <2> QED BY <1>1, <1>3, <2>1, FramedAppend
<1>5. CASE TxGivesUp
  <2>1. tx.pc = "send" /\ tx'.pc = "idle"
    BY <1>5, RestingTyped DEF TxGivesUp
  <2>2. \A item \in Cuts(OnWire) : item \in Items /\ (item.is = "text" => tx.f.session = 0)
    BY <1>3, CutsTyped
  <2> QED BY <1>1, <1>5, <2>1, <2>2, FramedAppend DEF TxGivesUp
<1> QED BY <1>2, <1>4, <1>5 DEF TxStep

(* A hello makes every acknowledgement on its way one of an older session.  *)
LEMMA FramedHello ==
  ASSUME Typed, TrueInv, RxHello, UNCHANGED <<host, toHost, tx>>
  PROVE  FramedSince'
<1>1. rx.todo \in Seq(Items) /\ rx.todo # <<>> /\ Todo.f.kind = "hello" /\ session' = Todo.f.session
  BY DEF Typed, DeviceTyped, RxHello, AtRx, Hello
<1>2. Todo = rx.todo[1] /\ 1 \in DOMAIN rx.todo
  BY <1>1, TailOf DEF Todo
<1>3. Todo.f \in Unhandled
  BY <1>2 DEF Unhandled
<1>4. session' \in Nat
  BY <1>1, <1>3, FramesTyped DEF Frames
<1>5. \A s \in Nat : Past(s) => s # session'
  BY <1>1, <1>3, <1>4 DEF Past
<1>6. \A f \in Coming : f.kind = "ack" => f.session # session'
  <2> TAKE f \in Coming
  <2>1. f \in Frames /\ (f.kind = "ack" => Past(f.session))
    BY FramesTyped DEF TrueInv, RepliesAreTrue, True
  <2> QED BY <1>5, <2>1 DEF Frames
<1>7. host.session.valid => host.session.session # session'
  BY <1>5 DEF TrueInv, SessionPast, Typed, HostTyped
<1>8. host.session.dec.f \in Coming /\ \A i \in DOMAIN toHost : toHost[i].f \in Coming
  BY DEF Coming
<1> QED BY <1>6, <1>7, <1>8 DEF FramedSince, AcknowledgedIn

LEMMA FramedStep == ASSUME Typed, CountInv, TrueInv, FramedSince, [Next]_vars PROVE FramedSince'
<1>1. ASSUME UNCHANGED <<session, host, toHost, tx>> PROVE FramedSince'
  BY <1>1 DEF FramedSince, AcknowledgedIn, NoText
<1>2. CASE Connect
  <2>1. host'.session.valid = FALSE /\ host'.session.dec.f = NoFrame /\ UNCHANGED <<toHost, session, tx>>
    BY <1>2, ConnectHost, BetweenTyped DEF device, tasks
  <2> QED BY <2>1, NoFrameTyped DEF FramedSince, AcknowledgedIn
<1>3. CASE Request
  <2>1. UNCHANGED <<toHost, session, tx>>
    BY <1>3, RequestHost DEF device, tasks
  <2> QED BY <1>3, <2>1, RequestHost DEF FramedSince, AcknowledgedIn, NoText
<1>4. CASE HostStep /\ ~(Connect \/ Request)
  <2>1. Learns
    BY <1>4, HostLearns DEF CountInv
  <2>2. UNCHANGED <<session, tx>>
    BY <2>1 DEF Learns, device, tasks
  <2> QED BY <2>1, <2>2, FramedRead DEF Learns
<1>5. CASE RxStep
  <2>1. UNCHANGED <<host, toHost, tx>>
    BY <1>5 DEF RxStep, RxRead, hostVars
  <2>2. CASE RxHello
    BY <2>1, <2>2, FramedHello
  <2>3. CASE ~RxHello
    <3>1. session' = session
      BY <1>5, <2>3 DEF RxStep, RxRead, RxRaw, RxReset, RxAck, RxNotify, RxConsole, RxRequest, RxIgnore
    <3> QED BY <1>1, <2>1, <3>1
  <2> QED BY <2>2, <2>3
<1>6. CASE CmdStep \/ AppStep
  <2>1. UNCHANGED <<session, host, toHost, tx>>
    BY <1>6 DEF CmdStep, AppStep, AppFinishes, Elsewhere, hostVars
  <2> QED BY <1>1, <2>1
<1>7. CASE TxStep
  BY <1>7, FramedTx
<1>8. CASE Reboot
  BY <1>8 DEF Reboot, FramedSince
<1>9. CASE UNCHANGED vars
  BY <1>1, <1>9 DEF vars, hostVars, device, tasks
<1> QED BY <1>2, <1>3, <1>4, <1>5, <1>6, <1>7, <1>8, <1>9 DEF Next

(* Once the acknowledgement is read, all text was read before it.           *)
LEMMA FramedIsEnough == ASSUME CountInv, FramedSince PROVE ConsoleKeepsSession
<1> SUFFICES ASSUME host.session.valid, session = host.session.session
             PROVE  ~HasText(toHost) /\ ~(tx.pc = "send" /\ OnWire = Text)
  BY DEF ConsoleKeepsSession
<1>1. session # 0
  BY OfflineTyped DEF CountInv, HostCounts
<1>2. NoText
  BY <1>1 DEF FramedSince
<1>3. tx.f.session # 0 => OnWire # Text
  BY DEF OnWire, Whole, Text
<1> QED BY <1>2, <1>3 DEF NoText

-----------------------------------------------------------------------------
(* The invariant and what follows from it. *)

SessionInv == Typed /\ CountInv /\ TrueInv /\ InputIsOwn /\ FramedSince

LEMMA SessionInvStart == ASSUME SessionAssumption, Init PROVE SessionInv
BY TypedStart, CountStart, TrueStart, InputStart, FramedStart DEF SessionInv

LEMMA SessionInvStep == ASSUME SessionAssumption, SessionInv, [Next]_vars PROVE SessionInv'
<1>1. Typed'
  BY TypedStep DEF SessionInv
<1>2. CountInv' /\ TrueInv' /\ InputIsOwn' /\ FramedSince'
  BY <1>1, CountStep, TrueStep, InputStep, FramedStep DEF SessionInv
<1> QED BY <1>1, <1>2 DEF SessionInv

LEMMA SessionInvHolds == Spec => []SessionInv
<1>1. Init => SessionInv
  BY SessionAssumption, SessionInvStart
<1>2. SessionInv /\ [Next]_vars => SessionInv'
  BY SessionAssumption, SessionInvStep
<1> QED BY <1>1, <1>2, PTL DEF Spec

(* A request is never replayed (idf_remote.c, command_task): not after a    *)
(* timeout, in a later session, or when a lost port cut it on the wire.     *)
THEOREM RequestsRunOnce == Spec => []NothingRunsTwice
<1>1. SessionInv => NothingRunsTwice
  BY CountIsEnough DEF SessionInv
<1> QED BY <1>1, SessionInvHolds, PTL

(* The reply the host pairs with a request (duplex.rs, feed) was made by    *)
(* the handler call for that request, and a refusal is final.               *)
THEOREM AnswersAreTheirOwn == Spec => []AnswersAreOwn
<1>1. SessionInv => AnswersAreOwn
  BY TrueIsEnough DEF SessionInv
<1> QED BY <1>1, SessionInvHolds, PTL

(* No acknowledgement of an earlier hello makes a session valid, and input  *)
(* of an earlier session does not reach the application.                    *)
THEOREM SessionsAgree == Spec => []SessionIsCurrent
<1>1. SessionInv => SessionIsCurrent
  BY CurrentIsEnough DEF SessionInv
<1> QED BY <1>1, SessionInvHolds, PTL

(* What tx_task sends unframed is read before the acknowledgement.          *)
THEOREM ConsoleIsHarmless == Spec => []ConsoleKeepsSession
<1>1. SessionInv => ConsoleKeepsSession
  BY FramedIsEnough DEF SessionInv
<1> QED BY <1>1, SessionInvHolds, PTL

-----------------------------------------------------------------------------
(* The notification of tx_task. *)

(* Somebody has just filled a queue and is about to say so.                 *)
Filler == "notify" \in {rx.pc, cmd.pc, app.pc}

(* tx_task looks at control first: a frame there that it has not seen is    *)
(* announced already on its way to the second look.                         *)
Watched ==
  /\ tx.pc \in {"console", "wait"} /\ control # <<>> => notified \/ Filler
  /\ tx.pc = "wait" /\ console # <<>> => notified \/ Filler

LEMMA WatchedStart == Init => Watched
BY DEF Init, FreshDevice, Resting, Task, Watched

LEMMA WatchedIsEnough == Watched => NoFrameStranded
BY DEF Watched, NoFrameStranded, Filler

(* enqueue changes the queue only where it also leads to a notification.    *)
LEMMA Enqueues == ASSUME NEW f, Enqueue(f) PROVE control' = control \/ AfterEnqueue = "notify"
BY DEF Enqueue, Sent, AfterEnqueue

LEMMA WatchedRx == ASSUME RxStep, Watched PROVE Watched'
<1>1. UNCHANGED <<tx, cmd, app, console>>
  BY DEF RxStep, RxRead, RxRaw, RxHello, RxReset, RxAck, RxNotify, RxConsole, RxRequest,
         RxIgnore, queues
<1>2. CASE RxNotify
  BY <1>1, <1>2 DEF RxNotify, queues, Watched
<1>3. CASE RxAck \/ RxRequest
  <2>1. rx.pc # "notify" /\ notified' = notified
    BY <1>3 DEF RxAck, RxRequest, AtRx
  <2>2. control' = control \/ rx'.pc = "notify"
    BY <1>3, Enqueues DEF RxAck, RxRequest, Handled
  <2> QED BY <1>1, <2>1, <2>2 DEF Watched, Filler
<1>4. CASE RxRead \/ RxRaw \/ RxHello \/ RxReset \/ RxConsole \/ RxIgnore
  <2>1. rx.pc # "notify" /\ UNCHANGED <<notified, control>>
    BY <1>4 DEF RxRead, RxRaw, RxHello, RxReset, RxConsole, RxIgnore, AtRx, queues
  <2> QED BY <1>1, <2>1 DEF Watched, Filler
<1> QED BY <1>2, <1>3, <1>4 DEF RxStep

LEMMA WatchedCmd == ASSUME CmdStep, Watched PROVE Watched'
<1>1. UNCHANGED <<tx, rx, app, console>>
  BY DEF CmdStep, CmdTake, CmdCheck, CmdCall, CmdReply, CmdNotify, queues
<1>2. CASE CmdNotify
  BY <1>1, <1>2 DEF CmdNotify, queues, Watched
<1>3. CASE CmdReply
  <2>1. cmd.pc # "notify" /\ notified' = notified
    BY <1>3 DEF CmdReply
  <2>2. control' = control \/ cmd'.pc = "notify"
    BY <1>3, Enqueues DEF CmdReply, Task
  <2> QED BY <1>1, <2>1, <2>2 DEF Watched, Filler
<1>4. CASE CmdTake \/ CmdCheck \/ CmdCall
  <2>1. cmd.pc # "notify" /\ UNCHANGED <<notified, control>>
    BY <1>4 DEF CmdTake, CmdCheck, CmdCall, queues
  <2> QED BY <1>1, <2>1 DEF Watched, Filler
<1> QED BY <1>2, <1>3, <1>4 DEF CmdStep

(* The application's tasks fill either queue.                               *)
LEMMA WatchedApp == ASSUME AppStep, Watched PROVE Watched'
<1>1. UNCHANGED <<tx, rx, cmd>>
  BY DEF AppStep, AppFinishes, Elsewhere
<1>2. CASE AppNotify
  BY <1>1, <1>2 DEF AppNotify, queues, Watched
<1>3. CASE ConsoleWrite
  <2>1. app.pc # "notify" /\ UNCHANGED <<notified, control>>
    BY <1>3 DEF ConsoleWrite
  <2>2. console' = console \/ app'.pc = "notify"
    BY <1>3 DEF ConsoleWrite, Sent, Task
  <2> QED BY <1>1, <2>1, <2>2 DEF Watched, Filler
<1>4. CASE Published
  <2>1. app.pc # "notify" /\ UNCHANGED <<notified, console>>
    BY <1>4 DEF Published
  <2>2. control' = control \/ app'.pc = "notify"
    BY <1>4, Enqueues DEF Published, Task
  <2> QED BY <1>1, <2>1, <2>2 DEF Watched, Filler
<1>5. CASE Publish
  BY <1>1, <1>5 DEF Publish, queues, Watched, Filler
<1>6. CASE ReadInput
  BY <1>1, <1>6 DEF ReadInput, Watched, Filler
<1> QED BY <1>2, <1>3, <1>4, <1>5, <1>6 DEF AppStep, AppFinishes

(* tx_task sleeps only after it has found both queues empty, and what it    *)
(* missed in the first meanwhile has been announced.                        *)
LEMMA WatchedTx == ASSUME TxStep, Watched PROVE Watched'
<1>1. UNCHANGED <<rx, cmd, app>>
  BY DEF TxStep
<1>2. CASE TxControl
  BY <1>1, <1>2 DEF TxControl, Task, Watched
<1>3. CASE TxConsole
  BY <1>1, <1>3 DEF TxConsole, Task, Watched, Filler
<1>4. CASE TxWakes \/ TxGate \/ TxSend \/ TxGivesUp
  <2>1. tx'.pc \in {"idle", "send"}
    BY <1>4 DEF TxWakes, TxGate, TxSend, TxGivesUp, Resting, Task
  <2> QED BY <2>1 DEF Watched
<1> QED BY <1>2, <1>3, <1>4 DEF TxStep

LEMMA WatchedStep == Watched /\ [Next]_vars => Watched'
<1> SUFFICES ASSUME Watched, [Next]_vars PROVE Watched'
  OBVIOUS
<1>1. ASSUME UNCHANGED device PROVE Watched'
  BY <1>1 DEF device, queues, tasks, Watched, Filler
<1>2. CASE HostStep
  BY <1>1, <1>2 DEF HostStep, Connect, Request, ConsoleInput, Expire, Read, PortLost
<1>3. CASE Reboot
  BY <1>3 DEF Reboot, Watched
<1>4. CASE UNCHANGED vars
  BY <1>1, <1>4 DEF vars
<1> QED BY <1>2, <1>3, <1>4, WatchedRx, WatchedCmd, WatchedApp, WatchedTx DEF Next

(* idf_remote.c, tx_task: it looks at two queues one after the other and    *)
(* then sleeps; whoever fills either in between wakes it.                   *)
THEOREM FramesAreSent == Spec => []NoFrameStranded
BY WatchedStart, WatchedStep, WatchedIsEnough, PTL DEF Spec
=============================================================================
