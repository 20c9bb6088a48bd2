------------------------ MODULE DeviceWorkerRefinement ------------------------
(***************************************************************************)
(* The worker thread keeps the promise of DeviceOperations, for any        *)
(* requests, bauds and bounds: its job, the reply it waits for and the     *)
(* console input it writes are what DeviceOperations says it has claimed.  *)
(* Its subscribers are told the truth about the application session.       *)
(***************************************************************************)
EXTENDS DeviceWorker, SequenceTheorems, TLAPS

(* DeviceOperations once more, now with what was proved of it.              *)
Contract == INSTANCE DeviceOperationsProofs WITH claimed <- [d \in Devices |-> Claimed]

(* A step the contract allows.                                              *)
Allowed == [Contract!Next]_(Contract!vars)

-----------------------------------------------------------------------------
(* What the contract's proofs say, with the assumptions they rest on.       *)

LEMMA ContractStart == Contract!Init => Contract!Typed /\ Contract!Accounted
BY Contract!InitTyped, Contract!InitAccounted, RequestsAssumption, BoundsAssumption
DEF Kinds, StreamKinds, HardwareKinds, Contract!Kinds, Contract!StreamKinds, Contract!HardwareKinds

LEMMA ContractSteps ==
  Contract!Typed /\ Contract!Accounted /\ Allowed => Contract!Typed' /\ Contract!Accounted'
BY Contract!NextTyped, Contract!NextAccounted, RequestsAssumption, BoundsAssumption
DEF Allowed, Kinds, StreamKinds, HardwareKinds,
    Contract!Kinds, Contract!StreamKinds, Contract!HardwareKinds

LEMMA ContractHistory ==
  ASSUME Contract!Typed, Contract!Accounted, Allowed
  PROVE  /\ \A i \in Running(Dev) : i \in DOMAIN ops' /\ ops'[i].req = ops[i].req
         /\ Running(Dev)' \subseteq Running(Dev) \cup {ticket + 1}
         /\ ticket' >= ticket
<1>1. /\ \A d \in Devices : \A i \in Contract!RunningIn(ops, d) :
           i \in DOMAIN ops' /\ ops'[i].req = ops[i].req
      /\ \A d \in Devices :
           Contract!RunningIn(ops', d) \subseteq Contract!RunningIn(ops, d) \cup {ticket + 1}
      /\ ticket' >= ticket
  BY Contract!RunningSteps, RequestsAssumption, BoundsAssumption
  DEF Allowed, Kinds, StreamKinds, HardwareKinds,
      Contract!Kinds, Contract!StreamKinds, Contract!HardwareKinds
<1> QED
  BY <1>1, WorkerAssumption DEF Contract!RunningIn, Running

(* The worker's part of it, in the worker's words.                          *)
StoreTyped ==
  /\ ticket \in Nat
  /\ ops \in [DOMAIN ops -> [key : Keys, req : Requests, status : {"running", "succeeded", "failed"}]]
  /\ DOMAIN ops \subseteq 1 .. ticket
  /\ lanes \in [Devices -> [busy : BOOLEAN, app : BOOLEAN, input : BOOLEAN, discard : BOOLEAN]]
  /\ queue \in [Devices -> Seq(1 .. ticket)]
  /\ worker \in [Devices -> {"loop", "leaving", "gone"}]

JobsKnown ==
  /\ Queued(Dev) \cup Claimed \subseteq Running(Dev)
  /\ Queued(Dev) \cap Claimed = {}

OneOwner == \A i, j \in Running(Dev) : i # j => {Kind(i), Kind(j)} = {"command", "input"}

DiscardsExactly == lanes[Dev].discard <=> \E i \in Running(Dev) : Kind(i) \in HardwareKinds

LEMMA ContractMeans ==
  Contract!Typed /\ Contract!Accounted => StoreTyped /\ JobsKnown /\ OneOwner /\ DiscardsExactly
<1> SUFFICES ASSUME Contract!Typed, Contract!Accounted
             PROVE  StoreTyped /\ JobsKnown /\ OneOwner /\ DiscardsExactly
  OBVIOUS
<1>1. StoreTyped
  BY DEF StoreTyped, Contract!Typed, Contract!HistoryTyped, Contract!DevicesTyped, Contract!Statuses
<1>2. Dev \in Devices /\ [d \in Devices |-> Claimed][Dev] = Claimed
  BY WorkerAssumption
<1>3. /\ Contract!JobsFit(Contract!RunningIn(ops, Dev), queue[Dev], Claimed, worker[Dev])
      /\ Contract!FlagsFit(Contract!RunningIn(ops, Dev), ops, lanes[Dev])
  BY <1>2 DEF Contract!Accounted
<1>4. Contract!RunningIn(ops, Dev) = Running(Dev) /\ Contract!Members(queue[Dev]) = Queued(Dev)
  BY DEF Contract!RunningIn, Running, Contract!Members, Queued
<1>5. JobsKnown
  BY <1>3, <1>4 DEF JobsKnown, Contract!JobsFit
<1>6. OneOwner /\ DiscardsExactly
  BY <1>3, <1>4
  DEF OneOwner, DiscardsExactly, Contract!FlagsFit, Kind, Contract!HardwareKinds, HardwareKinds
<1> QED
  BY <1>1, <1>5, <1>6

LEMMA ContractMeansNext ==
  Contract!Typed' /\ Contract!Accounted' => StoreTyped' /\ JobsKnown'
BY ContractMeans, PTL

-----------------------------------------------------------------------------
(* Steps of the store are steps of the contract.                            *)

LEMMA SameCalls == CallerStep => Contract!CallerStep
BY Zenon DEF
    CallerStep, Contract!CallerStep, Begin, Contract!Begin, Reject, Contract!Reject, LateReplay,
    Contract!LateReplay, DeviceBusy, Contract!DeviceBusy, Admit, Contract!Admit, AdmitUnsent,
    Contract!AdmitUnsent, Return, Contract!Return, Answer, Contract!Answer, Refuse,
    Contract!Refuse, IdleCall, Contract!IdleCall, NoOp, Contract!NoOp, Replay, Contract!Replay,
    Fresh, Contract!Fresh, Compatible, Contract!Compatible, Admissible, Contract!Admissible,
    SendFails, Contract!SendFails, Issue, Contract!Issue, Kept, Contract!Kept, Expired,
    Contract!Expired, Finished, Contract!Finished, IdemKept, Contract!IdemKept, FilesKept,
    Contract!FilesKept, LanesAdmitted, Contract!LanesAdmitted, LanesUnsent, Contract!LanesUnsent,
    StreamKinds, Contract!StreamKinds, Cardinality, Contract!Cardinality, storeVars,
    Contract!storeVars, historyVars, Contract!historyVars

LEMMA SameEndings ==
  /\ \A done, good : FinishStream(Dev, done, good) => Contract!FinishStream(Dev, done, good)
  /\ \A i, ok : FinishHardware(Dev, i, ok) => Contract!FinishHardware(Dev, i, ok)
  /\ \A i : CreateFile(i) => Contract!CreateFile(i)
  /\ \A i : Kind(i) = Contract!Kind(i)
  /\ StreamKinds = Contract!StreamKinds /\ HardwareKinds = Contract!HardwareKinds
<1>1. \A i : Kind(i) = Contract!Kind(i)
  BY DEF Kind, Contract!Kind
<1>2. \A l, done : LanesStreamDone(l, done) = Contract!LanesStreamDone(l, done)
  BY <1>1 DEF LanesStreamDone, Contract!LanesStreamDone
<1>3. \A done, good : FinishStream(Dev, done, good) => Contract!FinishStream(Dev, done, good)
  BY <1>2 DEF FinishStream, Contract!FinishStream, SetStatus, Contract!SetStatus
<1>4. \A i, ok : FinishHardware(Dev, i, ok) => Contract!FinishHardware(Dev, i, ok)
  BY <1>1 DEF FinishHardware, Contract!FinishHardware, SetStatus, Contract!SetStatus,
              LanesHardwareDone, Contract!LanesHardwareDone
<1> QED
  BY <1>1, <1>3, <1>4
  DEF CreateFile, Contract!CreateFile, StreamKinds, Contract!StreamKinds,
      HardwareKinds, Contract!HardwareKinds

(* What the worker has claimed is the claim on the one device.              *)
LEMMA ClaimMoves ==
  ASSUME NEW S, Claimed' = S
  PROVE  /\ [d \in Devices |-> Claimed]' = [[d \in Devices |-> Claimed] EXCEPT ![Dev] = S]
         /\ [d \in Devices |-> Claimed][Dev] = Claimed
         /\ Dev \in Devices
BY WorkerAssumption

LEMMA ClaimStays ==
  ASSUME UNCHANGED <<job, pending, tx>>
  PROVE  Claimed' = Claimed
BY DEF Claimed, Open, Inputs, NoOp

LEMMA StoreStays ==
  ASSUME UNCHANGED sharedVars, Claimed' = Claimed
  PROVE  Allowed
BY DEF Allowed, Contract!vars, sharedVars, Contract!sharedVars, storeVars, Contract!storeVars,
       historyVars, Contract!historyVars

LEMMA CallsAllowed ==
  ASSUME NEW c \in Callers, Claimed' = Claimed,
         \/ \E k \in Keys, r \in Requests : Begin(c, k, r)
         \/ Reject(c) \/ LateReplay(c) \/ DeviceBusy(c) \/ Admit(c) \/ AdmitUnsent(c) \/ Return(c)
  PROVE  Allowed
<1>1. Contract!CallerStep
  BY SameCalls DEF CallerStep
<1> QED
  BY <1>1 DEF Allowed, Contract!Next

(* Taking a job from the channel.                                           *)
LEMMA TakeAllowed ==
  ASSUME worker[Dev] = "loop", queue[Dev] # <<>>, Claimed' = Claimed \cup {Head(queue[Dev])},
         queue' = [queue EXCEPT ![Dev] = Tail(@)],
         UNCHANGED <<running, historyVars, lanes, worker, calls>>
  PROVE  Allowed
<1>1. Contract!Take(Dev)
  BY ClaimMoves DEF Contract!Take, historyVars, Contract!historyVars
<1> QED
  BY <1>1, WorkerAssumption DEF Allowed, Contract!Next, Contract!WorkerStep

(* Requests and console inputs end; when there are none, nothing happens.   *)
LEMMA EndingAllowed ==
  ASSUME StoreTyped, NEW done \in SUBSET Claimed, NEW good \in SUBSET done,
         \A i \in done : Kind(i) \in StreamKinds,
         FinishStream(Dev, done, good), Claimed' = Claimed \ done,
         UNCHANGED <<running, queue, worker, calls>>
  PROVE  Allowed
<1>1. CASE done = {}
  <2>1. ops' = ops /\ lanes' = lanes
    BY <1>1, WorkerAssumption DEF StoreTyped, FinishStream, SetStatus
  <2>2. UNCHANGED sharedVars /\ Claimed' = Claimed
    BY <1>1, <2>1 DEF FinishStream, sharedVars, storeVars, historyVars
  <2> QED
    BY <2>2, StoreStays
<1>2. CASE done # {}
  <2>1. Contract!EndStream(Dev)
    BY <1>2, SameEndings, ClaimMoves DEF Contract!EndStream
  <2> QED
    BY <2>1, WorkerAssumption DEF Allowed, Contract!Next, Contract!WorkerStep
<1> QED
  BY <1>1, <1>2

LEMMA HardwareEndingAllowed ==
  ASSUME NEW i \in Claimed, NEW ok \in BOOLEAN, Kind(i) \in HardwareKinds,
         ok /\ Kind(i) = "read" => i \in files,
         FinishHardware(Dev, i, ok), Claimed' = Claimed \ {i},
         UNCHANGED <<running, queue, worker, calls>>
  PROVE  Allowed
<1>1. Contract!EndHardware(Dev)
  BY SameEndings, ClaimMoves DEF Contract!EndHardware
<1> QED
  BY <1>1, WorkerAssumption DEF Allowed, Contract!Next, Contract!WorkerStep

LEMMA FileAllowed ==
  ASSUME NEW i \in Claimed, CreateFile(i), Claimed' = Claimed,
         UNCHANGED <<running, ticket, ops, idem, artifacts, lanes, queue, worker, calls>>
  PROVE  Allowed
<1>1. Contract!BeginFile(Dev)
  BY SameEndings, ClaimMoves DEF Contract!BeginFile
<1> QED
  BY <1>1, WorkerAssumption DEF Allowed, Contract!Next, Contract!WorkerStep

LEMMA LeavingAllowed ==
  ASSUME WorkerLeaves(Dev) \/ WorkerGone(Dev) \/ Shutdown, Claimed' = Claimed
  PROVE  Allowed
BY WorkerAssumption
DEF WorkerLeaves, WorkerGone, Shutdown, Contract!WorkerLeaves, Contract!WorkerGone,
    Contract!Shutdown, storeVars, historyVars, Contract!storeVars, Contract!historyVars,
    Allowed, Contract!Next, Contract!WorkerStep

-----------------------------------------------------------------------------
(* The invariant of the worker's own variables.                             *)

IsInput(t) == t.lane = "input"

(* Where the worker has a job in its hands, and of which kind.              *)
JobHeld ==
  /\ job # NoOp <=> pc \in {"stream", "hardware", "opened", "reused", "failed"}
  /\ pc = "stream" => Kind(job) \in StreamKinds
  /\ pc \in {"hardware", "opened", "reused", "failed"} => Kind(job) \in HardwareKinds
  /\ pc = "reused" => Kind(job) = "monitor"
  /\ pc = "opened" => session = "none" /\ reader = NoBaud

Entries == [op : Nat \ {0}, lane : {"input", "app"}, left : Nat, mid : BOOLEAN]

OneInput(q) == \A m, n \in 1 .. Len(q) : IsInput(q[m]) /\ IsInput(q[n]) => m = n

TransfersTyped ==
  /\ tx \in Seq(Entries)
  /\ OneInput(tx)
  /\ NoOp \notin late

Ended(i) == i \in 1 .. ticket /\ i \notin Running(Dev)

(* What waits to be written is of the one console input, of the pending     *)
(* request, or of a request that has timed out.                             *)
TransfersOwned ==
  \A n \in 1 .. Len(tx) :
    IF IsInput(tx[n]) THEN Kind(tx[n].op) = "input"
    ELSE tx[n].op = pending \/ (tx[n].op \in late /\ Ended(tx[n].op))

(* The duplex has no operation twice; it writes only when nothing is        *)
(* overdue, and reads a reply only to a request it has written.             *)
RequestPending ==
  /\ pending # NoOp => Kind(pending) \in {"command", "connect"}
  /\ job # NoOp => job \notin Open
  /\ pc = "write" => \A n \in 1 .. Len(tx) : ~IsInput(tx[n]) => tx[n].op = pending
  /\ pc = "publish" /\ chunk \in {"reply", "refusal", "garbled"} =>
       pending # NoOp /\ pending \notin Transfers

WorkerInv == JobHeld /\ TransfersTyped /\ TransfersOwned /\ RequestPending

-----------------------------------------------------------------------------
(* The write queue.                                                         *)

OpsIn(q) == {q[n].op : n \in 1 .. Len(q)}
InputsIn(q) == {q[n].op : n \in {m \in 1 .. Len(q) : q[m].lane = "input"}}

LEMMA QueueAppend ==
  ASSUME NEW q \in Seq(Entries), NEW e \in Entries, OneInput(q), IsInput(e) => InputsIn(q) = {}
  PROVE  /\ Append(q, e) \in Seq(Entries)
         /\ OneInput(Append(q, e))
         /\ InputsIn(Append(q, e)) = InputsIn(q) \cup (IF IsInput(e) THEN {e.op} ELSE {})
<1>1. /\ Append(q, e) \in Seq(Entries) /\ Len(Append(q, e)) = Len(q) + 1 /\ Len(q) \in Nat
      /\ \A n \in 1 .. Len(q) : Append(q, e)[n] = q[n]
      /\ Append(q, e)[Len(q) + 1] = e
  BY AppendProperties, LenProperties
<1>2. 1 .. Len(q) + 1 = (1 .. Len(q)) \cup {Len(q) + 1} /\ Len(q) + 1 \notin 1 .. Len(q)
  BY <1>1
<1>3. InputsIn(Append(q, e)) = InputsIn(q) \cup (IF IsInput(e) THEN {e.op} ELSE {})
  BY <1>1, <1>2 DEF InputsIn, IsInput
<1>4. IsInput(e) => \A n \in 1 .. Len(q) : ~IsInput(q[n])
  BY DEF InputsIn, IsInput
<1>5. OneInput(Append(q, e))
  BY <1>1, <1>2, <1>4 DEF OneInput
<1> QED
  BY <1>1, <1>3, <1>5

LEMMA QueueTail ==
  ASSUME NEW q \in Seq(Entries), q # <<>>, OneInput(q)
  PROVE  /\ Head(q) = q[1] /\ 1 \in 1 .. Len(q) /\ Head(q) \in Entries
         /\ Tail(q) \in Seq(Entries)
         /\ OneInput(Tail(q))
         /\ \A n \in 1 .. Len(Tail(q)) : n + 1 \in 1 .. Len(q) /\ Tail(q)[n] = q[n + 1]
         /\ ~IsInput(Head(q)) => InputsIn(Tail(q)) = InputsIn(q)
         /\ IsInput(Head(q)) => InputsIn(q) = {Head(q).op} /\ InputsIn(Tail(q)) = {}
<1>1. /\ Head(q) = q[1] /\ 1 \in 1 .. Len(q) /\ Head(q) \in Entries
      /\ Tail(q) \in Seq(Entries)
      /\ Len(Tail(q)) = Len(q) - 1 /\ Len(q) \in Nat \ {0}
      /\ \A n \in 1 .. Len(Tail(q)) : n + 1 \in 1 .. Len(q) /\ Tail(q)[n] = q[n + 1]
  BY HeadTailProperties, LenProperties
<1>2. OneInput(Tail(q))
  BY <1>1 DEF OneInput
<1>3. \A n \in 1 .. Len(q) : n = 1 \/ (n - 1 \in 1 .. Len(Tail(q)) /\ Tail(q)[n - 1] = q[n])
  BY <1>1
<1>4. IsInput(Head(q)) => InputsIn(q) = {Head(q).op} /\ InputsIn(Tail(q)) = {}
  BY <1>1 DEF OneInput, InputsIn, IsInput
<1>5. ~IsInput(Head(q)) => InputsIn(Tail(q)) = InputsIn(q)
  BY <1>1, <1>3 DEF InputsIn, IsInput
<1> QED
  BY <1>1, <1>2, <1>4, <1>5

(* The driver has taken a part of the first frame.                          *)
LEMMA QueueMark ==
  ASSUME NEW q \in Seq(Entries), NEW r, q # <<>>, OneInput(q),
         r = <<[Head(q) EXCEPT !.mid = TRUE]>> \o Tail(q)
  PROVE  /\ r \in Seq(Entries) /\ Len(r) = Len(q)
         /\ \A n \in 1 .. Len(q) : r[n].op = q[n].op /\ r[n].lane = q[n].lane
         /\ OneInput(r)
         /\ InputsIn(r) = InputsIn(q)
<1> DEFINE e == [Head(q) EXCEPT !.mid = TRUE]
           f == <<e>>
<1>1. /\ Head(q) = q[1] /\ 1 \in 1 .. Len(q) /\ Head(q) \in Entries
      /\ Tail(q) \in Seq(Entries)
      /\ Len(Tail(q)) = Len(q) - 1 /\ Len(q) \in Nat \ {0}
      /\ \A n \in 1 .. Len(Tail(q)) : Tail(q)[n] = q[n + 1]
  BY HeadTailProperties, LenProperties
<1>2. e \in Entries /\ e.op = q[1].op /\ e.lane = q[1].lane
  BY <1>1 DEF Entries
<1>3. r = f \o Tail(q)
  OBVIOUS
<1> HIDE DEF e
<1>4. f \in Seq(Entries) /\ Len(f) = 1 /\ f[1] = e
  BY <1>2
<1> HIDE DEF f
<1>5. /\ r \in Seq(Entries) /\ Len(r) = Len(f) + Len(Tail(q))
      /\ \A n \in 1 .. Len(f) + Len(Tail(q)) :
           r[n] = IF n <= Len(f) THEN f[n] ELSE Tail(q)[n - Len(f)]
  <2> DEFINE g == Tail(q)
  <2>1. f \in Seq(Entries) /\ g \in Seq(Entries)
    BY <1>1, <1>4
  <2> HIDE DEF g
  <2>2. /\ f \o g \in Seq(Entries) /\ Len(f \o g) = Len(f) + Len(g)
        /\ \A n \in 1 .. Len(f) + Len(g) : (f \o g)[n] = IF n <= Len(f) THEN f[n] ELSE g[n - Len(f)]
    BY <2>1, ConcatProperties, Zenon
  <2>3. r = f \o g
    BY <1>3 DEF g
  <2> QED
    BY <2>2, <2>3 DEF g
<1>6. /\ Len(r) = Len(q) /\ r[1] = e
      /\ \A n \in 1 .. Len(q) : n # 1 => r[n] = q[n]
  BY <1>1, <1>4, <1>5
<1>7. \A n \in 1 .. Len(q) : r[n].op = q[n].op /\ r[n].lane = q[n].lane
  BY <1>2, <1>6
<1>8. OneInput(r)
  BY <1>6, <1>7 DEF OneInput, IsInput
<1>9. InputsIn(r) = InputsIn(q)
  BY <1>6, <1>7 DEF InputsIn
<1> QED
  BY <1>5, <1>6, <1>7, <1>8, <1>9

(* It has taken all of it, and more frames follow.                          *)
LEMMA FrameTaken ==
  ASSUME NEW t \in Entries, t.left > 1
  PROVE  LET e == [t EXCEPT !.left = @ - 1, !.mid = FALSE]
         IN  e \in Entries /\ e.op = t.op /\ (IsInput(e) <=> IsInput(t))
<1>1. t.left \in Nat /\ t.left - 1 \in Nat
  BY DEF Entries
<1> QED
  BY <1>1 DEF Entries, IsInput

-----------------------------------------------------------------------------
(* Every step of the worker is one of the contract's, or none.              *)

Known == StoreTyped /\ JobsKnown /\ OneOwner /\ WorkerInv

(* What the duplex has open are streams' operations that still run.         *)
LEMMA OpenFacts ==
  ASSUME Known
  PROVE  /\ Inputs = InputsIn(tx) /\ Transfers = OpsIn(tx)
         /\ Open \subseteq Claimed /\ Claimed \subseteq Running(Dev)
         /\ \A i \in Inputs : Kind(i) = "input" /\ i # NoOp
         /\ \A i \in Open : Kind(i) \in StreamKinds
         /\ pending # NoOp => pending \in Open /\ pending \notin Inputs
         /\ job # NoOp => job \in Claimed /\ Claimed \ {job} = Open
         /\ job = NoOp => Claimed = Open
         /\ pending = NoOp => Open = Inputs
<1>1. Inputs = InputsIn(tx) /\ Transfers = OpsIn(tx)
  BY DEF Inputs, InputsIn, Transfers, OpsIn
<1>2. \A i \in Inputs : Kind(i) = "input" /\ i # NoOp
  <2>1. \A n \in 1 .. Len(tx) : tx[n] \in Entries
    BY DEF Known, WorkerInv, TransfersTyped
  <2>2. \A n \in 1 .. Len(tx) : tx[n].op # NoOp
    BY <2>1 DEF Entries, NoOp
  <2> QED
    BY <2>2 DEF Inputs, Known, WorkerInv, TransfersOwned, IsInput
<1>3. pending # NoOp => Kind(pending) \in {"command", "connect"}
  BY DEF Known, WorkerInv, RequestPending
<1>4. pending # NoOp => pending \in Open /\ pending \notin Inputs
  BY <1>2, <1>3 DEF Open
<1>5. \A i \in Open : Kind(i) \in StreamKinds
  BY <1>2, <1>3 DEF Open, StreamKinds
<1>6. Open \subseteq Claimed /\ Claimed \subseteq Running(Dev)
  BY DEF Claimed, Known, JobsKnown
<1>7. job # NoOp => job \in Claimed /\ Claimed \ {job} = Open
  BY DEF Claimed, Known, WorkerInv, RequestPending
<1> QED
  BY <1>1, <1>2, <1>4, <1>5, <1>6, <1>7 DEF Claimed, Open

LEMMA AbortAllowed ==
  ASSUME Known, NEW hasReader, Abort(hasReader), job = NoOp,
         UNCHANGED <<running, queue, worker, calls, job>>
  PROVE  Allowed
<1>1. Claimed = Open /\ \A i \in Open : Kind(i) \in StreamKinds
  BY OpenFacts
<1>2. Claimed' = {}
  BY DEF Abort, Claimed, Open, Inputs, NoOp
<1>3. FinishStream(Dev, Open, {})
  BY DEF Abort, Complete
<1> QED
  BY <1>1, <1>2, <1>3, EndingAllowed DEF Known

LEMMA ExpiryAllowed ==
  ASSUME Known, NEW written, NEW left, AfterExpiry(written, left), job = NoOp,
         written \subseteq Inputs, InputsIn(left) = Inputs \ written,
         UNCHANGED <<running, queue, worker, calls, job>>
  PROVE  Allowed
<1> DEFINE done == written \cup ExpiredRequest
<1>1. FinishStream(Dev, done, written)
  BY DEF AfterExpiry, Complete
<1>2. ExpiredRequest # {} => ExpiredRequest = {pending} /\ pending # NoOp
  BY DEF ExpiredRequest, Known, WorkerInv, TransfersTyped
<1>3. Inputs' = Inputs \ written
  BY DEF AfterExpiry, InputsIn, Inputs
<1>4. done \subseteq Claimed /\ \A i \in done : Kind(i) \in StreamKinds
  BY <1>2, OpenFacts DEF Open
<1>5. Claimed' = Claimed \ done
  BY <1>2, <1>3, OpenFacts DEF Claimed, Open, AfterExpiry, NoOp
<1> QED
  BY <1>1, <1>4, <1>5, EndingAllowed DEF Known

LEMMA WriteAllowed == ASSUME Known, Write PROVE Allowed
<1>1. job = NoOp /\ tx \in Seq(Entries) /\ OneInput(tx)
  BY DEF Known, WorkerInv, JobHeld, TransfersTyped, Write
<1>2. CASE WriteNothing
  BY <1>1, <1>2, OpenFacts, ExpiryAllowed DEF WriteNothing, callerVars
<1>3. CASE WriteFails
  BY <1>1, <1>3, AbortAllowed DEF WriteFails, DropPort, callerVars
<1>4. CASE WriteSome
  <2>1. tx # <<>> /\ UNCHANGED <<running, queue, worker, calls, job>>
    BY <1>4 DEF WriteSome, callerVars
  <2>2. CASE AfterExpiry({}, <<[Head(tx) EXCEPT !.mid = TRUE]>> \o Tail(tx))
    <3>1. InputsIn(<<[Head(tx) EXCEPT !.mid = TRUE]>> \o Tail(tx)) = InputsIn(tx)
      BY <1>1, <2>1, QueueMark
    <3> QED
      BY <1>1, <2>1, <2>2, <3>1, OpenFacts, ExpiryAllowed
  <2>3. CASE AfterExpiry({}, Append(Tail(tx), [Head(tx) EXCEPT !.left = @ - 1, !.mid = FALSE]))
             /\ MoreFrames(Head(tx))
    <3> DEFINE e == [Head(tx) EXCEPT !.left = @ - 1, !.mid = FALSE]
    <3>1. e \in Entries /\ e.op = Head(tx).op /\ (IsInput(e) <=> IsInput(Head(tx)))
      BY <1>1, <2>1, <2>3, FrameTaken, QueueTail DEF MoreFrames
    <3> HIDE DEF e
    <3>2. /\ Tail(tx) \in Seq(Entries) /\ OneInput(Tail(tx))
          /\ IsInput(Head(tx)) => InputsIn(tx) = {Head(tx).op} /\ InputsIn(Tail(tx)) = {}
          /\ ~IsInput(Head(tx)) => InputsIn(Tail(tx)) = InputsIn(tx)
      BY <1>1, <2>1, QueueTail
    <3>3. InputsIn(Append(Tail(tx), e))
            = InputsIn(Tail(tx)) \cup (IF IsInput(e) THEN {e.op} ELSE {})
      BY <3>1, <3>2, QueueAppend
    <3>4. InputsIn(Append(Tail(tx), e)) = InputsIn(tx)
      BY <3>1, <3>2, <3>3
    <3> USE DEF e
    <3> QED
      BY <1>1, <2>1, <2>3, <3>4, OpenFacts, ExpiryAllowed
  <2>4. CASE AfterExpiry({Head(tx).op} \cap Inputs, Tail(tx))
    <3>1. InputsIn(Tail(tx)) = Inputs \ ({Head(tx).op} \cap Inputs)
      <4>1. CASE IsInput(Head(tx))
        BY <1>1, <2>1, <4>1, QueueTail, OpenFacts
      <4>2. CASE ~IsInput(Head(tx))
        <5>1. Head(tx).op = pending \/ Ended(Head(tx).op)
          BY <1>1, <2>1, <4>2, QueueTail DEF Known, WorkerInv, TransfersOwned
        <5>2. Head(tx).op \notin Inputs
          BY <1>1, <2>1, <5>1, QueueTail, OpenFacts DEF Ended, Open, Entries, NoOp
        <5> QED
          BY <1>1, <2>1, <4>2, <5>2, QueueTail, OpenFacts
      <4> QED
        BY <4>1, <4>2
    <3> QED
      BY <1>1, <2>1, <2>4, <3>1, ExpiryAllowed
  <2> QED
    BY <1>4, <2>2, <2>3, <2>4 DEF WriteSome
<1> QED
  BY <1>2, <1>3, <1>4 DEF Write

LEMMA FedAllowed == ASSUME Known, PublishFed PROVE Allowed
<1>1. job = NoOp /\ UNCHANGED <<running, queue, worker, calls, job>>
  BY DEF Known, WorkerInv, JobHeld, PublishFed, FeedEndsSession, FeedReply, FeedOther, FedBy,
         callerVars
<1>2. CASE FeedEndsSession
  BY <1>1, <1>2, AbortAllowed DEF FeedEndsSession
<1>3. CASE FeedReply
  <2>1. PICK good \in SUBSET {pending} : FinishStream(Dev, {pending}, good)
    BY <1>3 DEF FeedReply, Complete
  <2>2. pending # NoOp /\ pending' = NoOp /\ tx' = tx
    BY <1>3 DEF FeedReply, Expected
  <2>3. Claimed' = Claimed \ {pending}
    BY <1>1, <2>2, OpenFacts DEF Claimed, Open, Inputs, NoOp
  <2> QED
    BY <1>1, <2>1, <2>2, <2>3, OpenFacts, EndingAllowed DEF Known
<1>4. CASE FeedOther
  BY <1>1, <1>4, OpenFacts, ExpiryAllowed DEF FeedOther
<1> QED
  BY <1>2, <1>3, <1>4 DEF PublishFed

LEMMA StreamJobAllowed == ASSUME Known, StreamJob PROVE Allowed
<1>1. /\ job # NoOp /\ Kind(job) \in StreamKinds /\ job' = NoOp
      /\ UNCHANGED <<running, queue, worker, calls>>
  BY DEF Known, WorkerInv, JobHeld, StreamJob, callerVars
<1>2. CASE StreamRefused \/ StreamUnavailable \/ StreamOpenFails
  <2>1. FinishStream(Dev, {job}, {}) /\ UNCHANGED <<pending, tx>>
    BY <1>2 DEF StreamRefused, StreamUnavailable, StreamOpenFails, StreamFails, Complete,
                duplexVars
  <2>2. Claimed' = Claimed \ {job}
    BY <1>1, <2>1, OpenFacts DEF Claimed, Open, Inputs, NoOp
  <2> QED
    BY <1>1, <2>1, <2>2, OpenFacts, EndingAllowed DEF Known
<1>3. CASE StreamStarts
  <2>1. tx \in Seq(Entries) /\ OneInput(tx) /\ job \in Nat \ {0}
    BY <1>1, OpenFacts
    DEF Known, WorkerInv, TransfersTyped, StoreTyped, Running, NoOp
  <2>2. CASE Kind(job) = "input"
    <3>1. PICK n \in 1 .. MaxFrames :
            tx' = Append(tx, [op |-> job, lane |-> "input", left |-> n, mid |-> FALSE])
      BY <1>3, <2>2 DEF StreamStarts
    <3>2. [op |-> job, lane |-> "input", left |-> n, mid |-> FALSE] \in Entries
      BY <2>1, WorkerAssumption DEF Entries
    <3>3. Inputs = {} /\ pending' = pending
      BY <1>3, <2>2 DEF StreamStarts, CanStart
    <3>4. InputsIn(tx') = {job}
      BY <2>1, <3>1, <3>2, <3>3, QueueAppend, OpenFacts DEF IsInput
    <3>5. Claimed' = Claimed
      BY <1>1, <3>3, <3>4 DEF Claimed, Open, Inputs, InputsIn, NoOp
    <3> QED
      BY <1>1, <1>3, <3>5, StoreStays DEF StreamStarts, sharedVars, storeVars
  <2>3. CASE Kind(job) # "input"
    <3>1. /\ tx' = Append(tx, [op |-> job, lane |-> "app", left |-> 1, mid |-> FALSE])
          /\ pending' = job /\ pending = NoOp
      BY <1>1, <1>3, <2>3 DEF StreamStarts, CanStart
    <3>2. [op |-> job, lane |-> "app", left |-> 1, mid |-> FALSE] \in Entries
      BY <2>1 DEF Entries
    <3>3. InputsIn(tx') = InputsIn(tx)
      BY <2>1, <3>1, <3>2, QueueAppend DEF IsInput
    <3>4. Claimed' = Claimed
      BY <1>1, <3>1, <3>3 DEF Claimed, Open, Inputs, InputsIn, NoOp
    <3> QED
      BY <1>1, <1>3, <3>4, StoreStays DEF StreamStarts, sharedVars, storeVars
  <2> QED
    BY <2>2, <2>3
<1> QED
  BY <1>2, <1>3 DEF StreamJob

LEMMA HardwareAllowed ==
  ASSUME Known, HardwareWritesFile \/ \E ok \in BOOLEAN : HardwareEnds(ok)
  PROVE  Allowed
<1>1. job # NoOp /\ job \in Claimed /\ Kind(job) \in HardwareKinds
  BY OpenFacts DEF Known, WorkerInv, JobHeld, HardwareWritesFile, HardwareEnds
<1>2. CASE HardwareWritesFile
  <2>1. Claimed' = Claimed
    BY <1>2, ClaimStays DEF HardwareWritesFile, workerVars, duplexVars
  <2> QED
    BY <1>1, <1>2, <2>1, FileAllowed DEF HardwareWritesFile, callerVars
<1>3. ASSUME NEW ok \in BOOLEAN, HardwareEnds(ok)
      PROVE  Allowed
  <2>1. FinishHardware(Dev, job, ok) /\ job' = NoOp /\ UNCHANGED <<pending, tx>>
        /\ UNCHANGED <<running, queue, worker, calls>>
    BY <1>3 DEF HardwareEnds, duplexVars, callerVars
  <2>2. ok /\ Kind(job) = "read" => job \in files
    BY <1>3 DEF HardwareEnds, Known, WorkerInv, JobHeld
  <2>3. Claimed' = Claimed \ {job}
    BY <1>1, <2>1, OpenFacts DEF Claimed, Open, Inputs, NoOp
  <2> QED
    BY <1>1, <2>1, <2>2, <2>3, HardwareEndingAllowed
<1> QED
  BY <1>2, <1>3

LEMMA WorkerAllowed == ASSUME Known, WorkerStep PROVE Allowed
<1>1. CASE UNCHANGED <<sharedVars, job, pending, tx>>
  BY <1>1, ClaimStays, StoreStays
<1>2. CASE NoPort \/ TickInTime \/ ReadNothing \/ ReadChunk \/ PublishPlain
  BY <1>1, <1>2
  DEF NoPort, TickInTime, ReadNothing, ReadChunk, PublishPlain, callerVars, lockedVars,
      duplexVars, sharedVars, storeVars
<1>3. CASE HardwareBegins \/ BootHandoff \/ ReadFails \/ ReopenFails \/ ReopenSucceeds \/ Reopened
  BY <1>1, <1>3
  DEF HardwareBegins, BootHandoff, ReadFails, ReopenFails, ReopenSucceeds, Reopened, callerVars,
      duplexVars, sharedVars, storeVars
<1>4. CASE Leave \/ Exit
  BY <1>4, ClaimStays, LeavingAllowed DEF Leave, Exit, workerVars, duplexVars
<1>5. CASE AbortLost \/ TickOverdue
  <2>1. job = NoOp
    BY <1>5 DEF Known, WorkerInv, JobHeld, AbortLost, TickOverdue, NoJob, AtChannel
  <2> QED
    BY <1>5, <2>1, AbortAllowed DEF AbortLost, TickOverdue, DropPort, callerVars
<1>6. CASE Receive
  <2>1. job = NoOp /\ job' = Head(queue[Dev]) /\ UNCHANGED <<pending, tx>>
    BY <1>6 DEF Known, WorkerInv, JobHeld, Receive, AtChannel, duplexVars
  <2>2. Head(queue[Dev]) # NoOp
    BY <1>6, WorkerAssumption, HeadTailProperties DEF Receive, Known, StoreTyped, NoOp
  <2>3. Claimed' = Claimed \cup {Head(queue[Dev])}
    BY <2>1, <2>2 DEF Claimed, Open, Inputs, NoOp
  <2> QED
    BY <1>6, <2>3, TakeAllowed DEF Receive, AtChannel, callerVars
<1> QED
  BY <1>2, <1>3, <1>4, <1>5, <1>6, StreamJobAllowed, HardwareAllowed, WriteAllowed, FedAllowed
  DEF WorkerStep

LEMMA EveryStepAllowed == ASSUME Known, [Next]_vars PROVE Allowed
<1>1. CASE DeadlinePasses
  BY <1>1, ClaimStays, StoreStays DEF DeadlinePasses
<1>2. CASE Environment
  <2>1. UNCHANGED <<job, pending, tx>>
    BY <1>2 DEF Environment, Replug, BootDelayPasses, Discover, workerVars, duplexVars
  <2> QED
    BY <1>2, <2>1, ClaimStays, StoreStays, LeavingAllowed
    DEF Environment, Replug, BootDelayPasses, Discover
<1>3. ASSUME NEW c \in Callers, Caller(c)
      PROVE  Allowed
  <2>1. UNCHANGED <<job, pending, tx>>
    BY <1>3 DEF Caller, Shortcut, Look, Record, RecordMissing, Locked, workerVars, duplexVars
  <2> QED
    BY <1>3, <2>1, ClaimStays, StoreStays, CallsAllowed
    DEF Caller, Shortcut, Look, Record, RecordMissing, Locked
<1>4. CASE UNCHANGED vars
  BY <1>4, ClaimStays, StoreStays DEF vars, workerVars, duplexVars
<1> QED
  BY <1>1, <1>2, <1>3, <1>4, WorkerAllowed DEF Next

-----------------------------------------------------------------------------
(* Every step keeps the worker's invariant.  What the contract's proofs say *)
(* of the step: running operations keep their requests, and nothing that    *)
(* has ended runs again.                                                    *)

Persists ==
  /\ \A i \in Running(Dev) : i \in DOMAIN ops' /\ ops'[i].req = ops[i].req
  /\ Running(Dev)' \subseteq Running(Dev) \cup {ticket + 1}
  /\ ticket' >= ticket

Steady == Known /\ StoreTyped' /\ JobsKnown' /\ Persists

LEMMA SteadyFacts ==
  ASSUME Steady
  PROVE  /\ \A i \in Running(Dev) : Kind(i)' = Kind(i) /\ i \in 1 .. ticket
         /\ \A i : Ended(i) => Ended(i)'
         /\ pending # NoOp => pending \in Running(Dev)
         /\ job # NoOp => job \in Running(Dev)
         /\ \A i \in Inputs : i \in Running(Dev)
<1>1. \A i \in Running(Dev) : Kind(i)' = Kind(i) /\ i \in 1 .. ticket
  BY DEF Steady, Persists, Known, StoreTyped, Running, Kind
<1>2. \A i : Ended(i) => Ended(i)'
  BY DEF Steady, Persists, Known, StoreTyped, Ended
<1> QED
  BY <1>1, <1>2, OpenFacts DEF Steady, Open

(* Steps that leave the duplex alone, but for deadlines that pass.          *)
LEMMA DuplexKept ==
  ASSUME Steady, UNCHANGED <<pending, tx>>, late \subseteq late', NoOp \notin late'
  PROVE  /\ TransfersTyped' /\ TransfersOwned'
         /\ pending' # NoOp => Kind(pending)' \in {"command", "connect"}
<1>1. TransfersTyped'
  BY DEF Steady, Known, WorkerInv, TransfersTyped, OneInput, IsInput
<1>2. \A n \in 1 .. Len(tx) : IsInput(tx[n]) => tx[n].op \in Inputs
  BY DEF Inputs, IsInput
<1>3. TransfersOwned'
  BY <1>2, SteadyFacts DEF Steady, Known, WorkerInv, TransfersOwned, IsInput
<1>4. pending' # NoOp => Kind(pending)' \in {"command", "connect"}
  BY SteadyFacts DEF Steady, Known, WorkerInv, RequestPending, Kind
<1> QED
  BY <1>1, <1>3, <1>4

LEMMA JobKept ==
  ASSUME Steady, UNCHANGED <<job, pc, session, reader>>
  PROVE  JobHeld'
BY SteadyFacts DEF Steady, Known, WorkerInv, JobHeld, Kind, StreamKinds, HardwareKinds

LEMMA ElsewhereKeeps ==
  ASSUME Steady, UNCHANGED <<job, pc, session, reader, pending, tx, chunk>>,
         late \subseteq late', NoOp \notin late'
  PROVE  WorkerInv'
<1>1. JobHeld' /\ TransfersTyped' /\ TransfersOwned'
  BY JobKept, DuplexKept
<1>2. RequestPending'
  BY DuplexKept
  DEF Steady, Known, WorkerInv, RequestPending, Open, Inputs, Transfers, IsInput
<1> QED
  BY <1>1, <1>2 DEF WorkerInv

(* The worker is back at the top of its loop, or on its way.                *)
LEMMA IdleKeeps ==
  ASSUME Steady, pc' \in {"top", "read", "reopened"}, job' = NoOp, TransfersTyped', TransfersOwned',
         pending' # NoOp => Kind(pending)' \in {"command", "connect"}
  PROVE  WorkerInv'
BY DEF WorkerInv, JobHeld, RequestPending, NoOp

LEMMA QuietKeeps ==
  ASSUME Steady, pc' \in {"top", "read", "reopened"}, job' = NoOp, UNCHANGED <<pending, tx, late>>
  PROVE  WorkerInv'
<1>1. NoOp \notin late'
  BY DEF Steady, Known, WorkerInv, TransfersTyped
<1> QED
  BY <1>1, DuplexKept, IdleKeeps

LEMMA AbortKeeps ==
  ASSUME Steady, NEW hasReader, Abort(hasReader), pc' = "top", job' = NoOp
  PROVE  WorkerInv'
<1>1. tx' = <<>> /\ pending' = NoOp /\ late' = {}
  BY DEF Abort
<1>2. TransfersTyped'
  BY <1>1 DEF TransfersTyped, OneInput
<1>3. TransfersOwned'
  BY <1>1 DEF TransfersOwned
<1> QED
  BY <1>1, <1>2, <1>3, IdleKeeps

(* What is left in the write queue comes from it.                           *)
Remains(left) ==
  /\ left \in Seq(Entries)
  /\ OneInput(left)
  /\ \A n \in 1 .. Len(left) : \E m \in 1 .. Len(tx) :
       left[n].op = tx[m].op /\ (IsInput(left[n]) <=> IsInput(tx[m]))

LEMMA ExpiryKeeps ==
  ASSUME Steady, NEW written, NEW left, AfterExpiry(written, left), Remains(left),
         pc' \in {"top", "read"}, job' = NoOp, queue' = queue
  PROVE  WorkerInv'
<1>1. /\ tx' = left
      /\ pending' = IF ExpiredRequest = {} THEN pending ELSE NoOp
      /\ late' = late \cap {left[n].op : n \in 1 .. Len(left)}
  BY DEF AfterExpiry
<1>2. TransfersTyped'
  BY <1>1 DEF TransfersTyped, Remains, Steady, Known, WorkerInv, OneInput, IsInput
<1>3. ExpiredRequest # {} => pending # NoOp /\ pending \in late /\ pending' = NoOp
  <2>1. ASSUME ExpiredRequest # {} PROVE pending # NoOp /\ pending \in late
    <3>1. NoOp \notin late
      BY DEF Steady, Known, WorkerInv, TransfersTyped
    <3>2. pending \in late
      BY <2>1 DEF ExpiredRequest
    <3> QED BY <3>1, <3>2
  <2> QED BY <1>1, <2>1
<1>4. ASSUME ExpiredRequest # {}
      PROVE  \A i : i = pending => Ended(i)'
  <2>1. pending \in ExpiredRequest /\ pending \in Running(Dev)
    BY <1>3, <1>4, SteadyFacts DEF ExpiredRequest
  <2>2. pending \notin Running(Dev)'
    BY <2>1 DEF AfterExpiry, Complete, FinishStream, SetStatus, Running
  <2>3. pending \in 1 .. ticket'
    BY <1>3, <1>4, SteadyFacts DEF Steady, Persists, StoreTyped, Known
  <2> QED
    BY <2>2, <2>3 DEF Ended
<1>5. TransfersOwned'
  <2> SUFFICES ASSUME NEW n \in 1 .. Len(left)
               PROVE  IF IsInput(left[n]) THEN Kind(left[n].op)' = "input"
                      ELSE left[n].op = pending' \/ (left[n].op \in late' /\ Ended(left[n].op)')
    BY <1>1 DEF TransfersOwned, IsInput, Kind, Ended, Running
  <2>1. PICK m \in 1 .. Len(tx) :
          left[n].op = tx[m].op /\ (IsInput(left[n]) <=> IsInput(tx[m]))
    BY DEF Remains
  <2>2. CASE IsInput(left[n])
    <3>1. tx[m].op \in Inputs /\ Kind(tx[m].op) = "input"
      BY <2>1, <2>2 DEF Inputs, IsInput, Steady, Known, WorkerInv, TransfersOwned
    <3> QED
      BY <2>1, <2>2, <3>1, SteadyFacts
  <2>3. CASE ~IsInput(left[n])
    <3>1. tx[m].op = pending \/ (tx[m].op \in late /\ Ended(tx[m].op))
      BY <2>1, <2>3 DEF Steady, Known, WorkerInv, TransfersOwned
    <3>2. tx[m].op \in late => left[n].op \in late'
      BY <1>1, <2>1
    <3> QED
      BY <1>1, <1>3, <1>4, <2>1, <2>3, <3>1, <3>2, SteadyFacts
  <2> QED
    BY <2>2, <2>3
<1>6. pending' # NoOp => Kind(pending)' \in {"command", "connect"}
  BY <1>1, SteadyFacts DEF Steady, Known, WorkerInv, RequestPending, Kind
<1> QED
  BY <1>2, <1>5, <1>6, IdleKeeps

LEMMA WriteKeeps == ASSUME Steady, Write PROVE WorkerInv'
<1>1. /\ tx \in Seq(Entries) /\ OneInput(tx)
      /\ job' = NoOp /\ queue' = queue
  BY DEF Steady, Known, WorkerInv, JobHeld, TransfersTyped, Write, WriteNothing, WriteSome,
         WriteFails, DropPort
<1>2. CASE WriteNothing
  <2>1. Remains(tx)
    BY <1>1 DEF Remains
  <2> QED
    BY <1>1, <1>2, <2>1, ExpiryKeeps DEF WriteNothing
<1>3. CASE WriteFails
  BY <1>1, <1>3, AbortKeeps DEF WriteFails, DropPort
<1>4. CASE WriteSome
  <2>1. tx # <<>> /\ pc' = "read"
    BY <1>4 DEF WriteSome
  <2>2. /\ Tail(tx) \in Seq(Entries) /\ OneInput(Tail(tx)) /\ 1 \in 1 .. Len(tx)
        /\ Head(tx) = tx[1] /\ Head(tx) \in Entries
        /\ \A n \in 1 .. Len(Tail(tx)) : n + 1 \in 1 .. Len(tx) /\ Tail(tx)[n] = tx[n + 1]
        /\ IsInput(Head(tx)) => InputsIn(Tail(tx)) = {}
    BY <1>1, <2>1, QueueTail
  <2>3. Remains(Tail(tx))
    BY <2>2 DEF Remains
  <2>4. CASE AfterExpiry({}, <<[Head(tx) EXCEPT !.mid = TRUE]>> \o Tail(tx))
    <3> DEFINE r == <<[Head(tx) EXCEPT !.mid = TRUE]>> \o Tail(tx)
    <3>1. /\ r \in Seq(Entries) /\ Len(r) = Len(tx) /\ OneInput(r)
          /\ \A n \in 1 .. Len(tx) : r[n].op = tx[n].op /\ r[n].lane = tx[n].lane
      BY <1>1, <2>1, QueueMark
    <3> HIDE DEF r
    <3>2. Remains(r)
      BY <3>1 DEF Remains, IsInput
    <3>3. AfterExpiry({}, r)
      BY <2>4 DEF r
    <3> QED
      BY <1>1, <2>1, <3>2, <3>3, ExpiryKeeps
  <2>5. CASE AfterExpiry({}, Append(Tail(tx), [Head(tx) EXCEPT !.left = @ - 1, !.mid = FALSE]))
             /\ MoreFrames(Head(tx))
    <3> DEFINE e == [Head(tx) EXCEPT !.left = @ - 1, !.mid = FALSE]
    <3>1. e \in Entries /\ e.op = Head(tx).op /\ (IsInput(e) <=> IsInput(Head(tx)))
      BY <2>2, <2>5, FrameTaken DEF MoreFrames
    <3>2. AfterExpiry({}, Append(Tail(tx), e))
      BY <2>5
    <3> HIDE DEF e
    <3>3. Append(Tail(tx), e) \in Seq(Entries) /\ OneInput(Append(Tail(tx), e))
      BY <2>2, <3>1, QueueAppend
    <3>4. \A n \in 1 .. Len(Append(Tail(tx), e)) :
            Append(Tail(tx), e)[n] = e \/ \E m \in 1 .. Len(tx) : Append(Tail(tx), e)[n] = tx[m]
      BY <2>2, <3>1, AppendProperties, LenProperties
    <3>5. Remains(Append(Tail(tx), e))
      BY <2>2, <3>1, <3>3, <3>4 DEF Remains
    <3> QED
      BY <1>1, <2>1, <3>2, <3>5, ExpiryKeeps
  <2>6. CASE AfterExpiry({Head(tx).op} \cap Inputs, Tail(tx))
    BY <1>1, <2>1, <2>3, <2>6, ExpiryKeeps
  <2> QED
    BY <1>4, <2>4, <2>5, <2>6 DEF WriteSome
<1> QED
  BY <1>2, <1>3, <1>4 DEF Write

LEMMA FedKeeps == ASSUME Steady, PublishFed PROVE WorkerInv'
<1>1. /\ job' = NoOp /\ pc' = "top" /\ pc = "publish" /\ queue' = queue
      /\ tx \in Seq(Entries) /\ OneInput(tx)
  BY DEF Steady, Known, WorkerInv, JobHeld, TransfersTyped, PublishFed, FeedEndsSession,
         FeedReply, FeedOther, FedBy
<1>2. CASE FeedEndsSession
  BY <1>1, <1>2, AbortKeeps DEF FeedEndsSession
<1>3. CASE FeedReply
  <2>1. pending' = NoOp /\ tx' = tx /\ late' = late /\ pending \notin Transfers
    BY <1>1, <1>3 DEF FeedReply, Steady, Known, WorkerInv, RequestPending
  <2>2. TransfersTyped'
    BY <2>1 DEF Steady, Known, WorkerInv, TransfersTyped, OneInput, IsInput
  <2>3. \A n \in 1 .. Len(tx) : /\ tx[n].op \in Transfers
                                /\ IsInput(tx[n]) => tx[n].op \in Inputs
    BY DEF Transfers, Inputs, IsInput
  <2>4. TransfersOwned'
    BY <2>1, <2>3, SteadyFacts DEF Steady, Known, WorkerInv, TransfersOwned, IsInput
  <2> QED
    BY <1>1, <2>1, <2>2, <2>4, IdleKeeps
<1>4. CASE FeedOther
  <2>1. Remains(tx)
    BY <1>1 DEF Remains
  <2> QED
    BY <1>1, <1>4, <2>1, ExpiryKeeps DEF FeedOther
<1> QED
  BY <1>2, <1>3, <1>4 DEF PublishFed

LEMMA StreamJobKeeps == ASSUME Steady, StreamJob PROVE WorkerInv'
<1>1. /\ job' = NoOp /\ pc' = "top" /\ job # NoOp /\ Kind(job) \in StreamKinds
      /\ tx \in Seq(Entries) /\ OneInput(tx)
  BY DEF Steady, Known, WorkerInv, JobHeld, TransfersTyped, StreamJob
<1>2. CASE StreamRefused \/ StreamUnavailable \/ StreamOpenFails
  BY <1>1, <1>2, QuietKeeps
  DEF StreamRefused, StreamUnavailable, StreamOpenFails, StreamFails, duplexVars
<1>3. CASE StreamStarts
  <2>1. /\ job \in Nat \ {0} /\ late' = late /\ NoOp \notin late
        /\ job \in Running(Dev)
        /\ \A i : i = job => Kind(i)' = Kind(job)
    BY <1>1, <1>3, SteadyFacts
    DEF StreamStarts, Steady, Known, WorkerInv, TransfersTyped, StoreTyped, NoOp
  <2>2. ASSUME NEW e \in Entries, tx' = Append(tx, e), OneInput(tx')
        PROVE  TransfersTyped'
    BY <1>1, <2>1, <2>2, AppendProperties DEF TransfersTyped, OneInput, IsInput
  <2>3. ASSUME NEW e \in Entries, tx' = Append(tx, e)
        PROVE  /\ \A n \in 1 .. Len(tx) : tx'[n] = tx[n] /\ tx[n].op # NoOp
               /\ \A n \in 1 .. Len(tx') : n \in 1 .. Len(tx) \/ tx'[n] = e
    <3>1. \A n \in 1 .. Len(tx) : tx[n] \in Entries
      BY <1>1
    <3> QED
      BY <1>1, <2>3, <3>1, AppendProperties, LenProperties DEF Entries, NoOp
  <2>4. \A i \in Inputs : Kind(i)' = Kind(i)
    BY SteadyFacts
  <2>5. \A n \in 1 .. Len(tx) : IsInput(tx[n]) => tx[n].op \in Inputs
    BY DEF Inputs, IsInput
  <2>6. CASE Kind(job) = "input"
    <3>1. PICK k \in 1 .. MaxFrames :
            tx' = Append(tx, [op |-> job, lane |-> "input", left |-> k, mid |-> FALSE])
      BY <1>3, <2>6 DEF StreamStarts
    <3> DEFINE e == [op |-> job, lane |-> "input", left |-> k, mid |-> FALSE]
    <3>2. e \in Entries /\ e.op = job /\ IsInput(e)
      BY <2>1, WorkerAssumption DEF Entries, IsInput
    <3>3. tx' = Append(tx, e)
      BY <3>1
    <3> HIDE DEF e
    <3>4. Inputs = {} /\ pending' = pending
      BY <1>3, <2>6 DEF StreamStarts, CanStart
    <3>5. OneInput(tx')
      BY <1>1, <3>2, <3>3, <3>4, QueueAppend, OpenFacts DEF Steady
    <3>6. TransfersOwned'
      BY <2>1, <2>3, <2>4, <2>5, <2>6, <3>2, <3>3, <3>4, SteadyFacts
      DEF Steady, Known, WorkerInv, TransfersOwned, IsInput, Kind
    <3>7. pending' # NoOp => Kind(pending)' \in {"command", "connect"}
      BY <3>4, SteadyFacts DEF Steady, Known, WorkerInv, RequestPending, Kind
    <3> QED
      BY <1>1, <2>2, <3>2, <3>3, <3>5, <3>6, <3>7, IdleKeeps
  <2>7. CASE Kind(job) # "input"
    <3> DEFINE e == [op |-> job, lane |-> "app", left |-> 1, mid |-> FALSE]
    <3>1. tx' = Append(tx, e) /\ pending' = job /\ pending = NoOp
      BY <1>1, <1>3, <2>7 DEF StreamStarts, CanStart
    <3>2. e \in Entries /\ e.op = job /\ ~IsInput(e)
      BY <2>1 DEF Entries, IsInput
    <3> HIDE DEF e
    <3>3. OneInput(tx')
      BY <1>1, <3>1, <3>2, QueueAppend
    <3>4. TransfersOwned'
      BY <2>1, <2>3, <2>4, <2>5, <3>1, <3>2, SteadyFacts
      DEF Steady, Known, WorkerInv, TransfersOwned, IsInput, Kind
    <3>5. Kind(pending)' \in {"command", "connect"}
      BY <1>1, <2>1, <2>7, <3>1 DEF StreamKinds, Kind
    <3> QED
      BY <1>1, <2>2, <3>1, <3>2, <3>3, <3>4, <3>5, IdleKeeps
  <2> QED
    BY <2>6, <2>7
<1> QED
  BY <1>2, <1>3 DEF StreamJob

(* A job comes from the channel, so the duplex does not have it.            *)
LEMMA ReceiveKeeps == ASSUME Steady, Receive PROVE WorkerInv'
<1>1. /\ job = NoOp /\ job' = Head(queue[Dev]) /\ ops' = ops /\ ticket' = ticket
      /\ UNCHANGED <<pending, tx, late, session, reader>>
  BY DEF Receive, AtChannel, historyVars, duplexVars, portVars, Steady, Known, WorkerInv, JobHeld
<1>2. queue[Dev] \in Seq(1 .. ticket) /\ queue[Dev] # <<>>
  BY WorkerAssumption DEF Receive, Steady, Known, StoreTyped
<1>3. job' \in Queued(Dev) /\ job' # NoOp
  <2>1. Head(queue[Dev]) = queue[Dev][1] /\ Head(queue[Dev]) \in 1 .. ticket
    <3> DEFINE q == queue[Dev]
    <3>1. q \in Seq(1 .. ticket) /\ q # <<>>
      BY <1>2
    <3> HIDE DEF q
    <3>2. Head(q) \in 1 .. ticket
      BY <3>1, HeadTailProperties
    <3>3. Head(q) = q[1]
      BY <3>1
    <3> QED
      BY <3>2, <3>3 DEF q
  <2>2. 1 \in 1 .. Len(queue[Dev])
    BY <1>2, EmptySeq, LenProperties
  <2> QED
    BY <1>1, <2>1, <2>2 DEF Queued, NoOp
<1>4. job' \in Running(Dev) /\ job' \notin Open
  BY <1>3, OpenFacts DEF Steady, Known, JobsKnown
<1>5. Kind(job') \in Kinds
  BY <1>4, RequestsAssumption DEF Running, Kind, Steady, Known, StoreTyped
<1>6. Kind(job)' = Kind(job') /\ Open' = Open
  BY <1>1 DEF Kind, Open, Inputs, NoOp
<1>7. JobHeld'
  BY <1>3, <1>5, <1>6 DEF JobHeld, Receive, Kinds
<1>8. pc' \in {"stream", "hardware"} /\ NoOp \notin late'
  BY <1>1 DEF Receive, Steady, Known, WorkerInv, TransfersTyped
<1>9. /\ TransfersTyped' /\ TransfersOwned'
      /\ pending' # NoOp => Kind(pending)' \in {"command", "connect"}
  BY <1>1, <1>8, DuplexKept
<1>10. RequestPending'
  BY <1>4, <1>6, <1>8, <1>9 DEF RequestPending
<1> QED
  BY <1>7, <1>9, <1>10 DEF WorkerInv

LEMMA HardwareKeeps == ASSUME Steady, HardwareBegins PROVE WorkerInv'
<1>1. /\ UNCHANGED <<job, pending, tx, late>> /\ NoOp \notin late' /\ pc = "hardware"
      /\ pc' \in {"opened", "reused", "failed"} /\ job # NoOp /\ Kind(job) \in HardwareKinds
  BY DEF HardwareBegins, Steady, Known, WorkerInv, JobHeld, TransfersTyped
<1>2. Kind(job)' = Kind(job)
  BY <1>1, SteadyFacts DEF Kind
<1>3. JobHeld'
  BY <1>1, <1>2 DEF HardwareBegins, JobHeld, PreservesMonitor
<1>4. /\ TransfersTyped' /\ TransfersOwned'
      /\ pending' # NoOp => Kind(pending)' \in {"command", "connect"}
  BY <1>1, DuplexKept
<1>5. RequestPending'
  BY <1>1, <1>4 DEF RequestPending, Open, Inputs, Steady, Known, WorkerInv
<1> QED
  BY <1>3, <1>4, <1>5 DEF WorkerInv

(* Nothing is overdue when writing begins.                                  *)
LEMMA TickKeeps == ASSUME Steady, TickInTime PROVE WorkerInv'
<1>1. /\ UNCHANGED <<job, pending, tx, late>> /\ NoOp \notin late'
      /\ pc' = "write" /\ job = NoOp
  BY DEF TickInTime, NoJob, AtChannel, duplexVars, Steady, Known, WorkerInv, JobHeld, TransfersTyped
<1>2. /\ TransfersTyped' /\ TransfersOwned'
      /\ pending' # NoOp => Kind(pending)' \in {"command", "connect"}
  BY <1>1, DuplexKept
<1>3. \A n \in 1 .. Len(tx) : tx[n].op \notin late
  BY DEF TickInTime, Overdue, Transfers
<1>4. \A n \in 1 .. Len(tx) : ~IsInput(tx[n]) => tx[n].op = pending
  BY <1>3 DEF Steady, Known, WorkerInv, TransfersOwned
<1>5. RequestPending'
  BY <1>1, <1>2, <1>4 DEF RequestPending, IsInput
<1>6. JobHeld'
  BY <1>1 DEF JobHeld, NoOp
<1> QED
  BY <1>2, <1>5, <1>6 DEF WorkerInv

(* A reply can only be read to a request that has been written.             *)
LEMMA ReadKeeps == ASSUME Steady, ReadChunk PROVE WorkerInv'
<1>1. /\ UNCHANGED <<job, pending, tx, late, session>> /\ NoOp \notin late'
      /\ pc' = "publish" /\ job = NoOp /\ chunk' \in Readable
  BY DEF ReadChunk, AtRead, duplexVars, Steady, Known, WorkerInv, JobHeld, TransfersTyped
<1>2. /\ TransfersTyped' /\ TransfersOwned'
      /\ pending' # NoOp => Kind(pending)' \in {"command", "connect"}
  BY <1>1, DuplexKept
<1>3. RequestPending'
  BY <1>1, <1>2 DEF RequestPending, Readable, Transfers
<1>4. JobHeld'
  BY <1>1 DEF JobHeld, NoOp
<1> QED
  BY <1>2, <1>3, <1>4 DEF WorkerInv

LEMMA WorkerKeeps == ASSUME Steady, WorkerStep PROVE WorkerInv'
<1>1. CASE Leave \/ Exit \/ HardwareWritesFile
  <2>1. UNCHANGED workerVars /\ NoOp \notin late
    BY <1>1 DEF Leave, Exit, HardwareWritesFile, Steady, Known, WorkerInv, TransfersTyped
  <2> QED
    BY <2>1, ElsewhereKeeps DEF workerVars, duplexVars, outputVars, portVars
<1>2. CASE AbortLost \/ TickOverdue
  <2>1. job' = NoOp /\ pc' = "top"
    BY <1>2 DEF AbortLost, TickOverdue, DropPort, NoJob, AtChannel, Steady, Known, WorkerInv, JobHeld
  <2> QED
    BY <1>2, <2>1, AbortKeeps DEF AbortLost, TickOverdue, DropPort
<1>3. CASE NoPort \/ BootHandoff \/ ReadNothing \/ ReadFails
  <2>1. /\ pc' \in {"top", "read", "reopened"} /\ job' = NoOp /\ UNCHANGED <<pending, tx, late>>
    BY <1>3 DEF NoPort, BootHandoff, ReadNothing, ReadFails, AtRead, NoJob, AtChannel, duplexVars,
                Steady, Known, WorkerInv, JobHeld
  <2> QED
    BY <2>1, QuietKeeps
<1>4. CASE ReopenFails \/ ReopenSucceeds \/ Reopened \/ PublishPlain
  <2>1. /\ pc' \in {"top", "read", "reopened"} /\ job' = NoOp /\ UNCHANGED <<pending, tx, late>>
    BY <1>4 DEF ReopenFails, ReopenSucceeds, Reopened, PublishPlain, AtRead, duplexVars,
                Steady, Known, WorkerInv, JobHeld
  <2> QED
    BY <2>1, QuietKeeps
<1>5. CASE \E ok \in BOOLEAN : HardwareEnds(ok)
  BY <1>5, QuietKeeps DEF HardwareEnds, duplexVars
<1> QED
  BY <1>1, <1>2, <1>3, <1>4, <1>5, ReceiveKeeps, StreamJobKeeps, HardwareKeeps, TickKeeps,
     WriteKeeps, ReadKeeps, FedKeeps
  DEF WorkerStep

LEMMA EveryStepKeeps == ASSUME Steady, [Next]_vars PROVE WorkerInv'
<1>1. NoOp \notin late
  BY DEF Steady, Known, WorkerInv, TransfersTyped
<1>2. CASE DeadlinePasses
  <2>1. \A n \in 1 .. Len(tx) : tx[n] \in Entries
    BY DEF Steady, Known, WorkerInv, TransfersTyped
  <2>2. NoOp \notin Transfers
    BY <2>1 DEF Transfers, Entries, NoOp
  <2> QED
    BY <1>1, <1>2, <2>2, ElsewhereKeeps DEF DeadlinePasses, outputVars, portVars
<1>3. CASE Environment
  BY <1>1, <1>3, ElsewhereKeeps
  DEF Environment, Replug, BootDelayPasses, Discover, workerVars, duplexVars, outputVars, portVars
<1>4. ASSUME NEW c \in Callers, Caller(c)
      PROVE  WorkerInv'
  BY <1>1, <1>4, ElsewhereKeeps
  DEF Caller, Shortcut, Look, Record, RecordMissing, Locked, workerVars, duplexVars, outputVars, portVars
<1>5. CASE UNCHANGED vars
  BY <1>1, <1>5, ElsewhereKeeps DEF vars, workerVars, duplexVars, outputVars, portVars
<1> QED
  BY <1>2, <1>3, <1>4, <1>5, WorkerKeeps DEF Next

-----------------------------------------------------------------------------
(* The theorems.                                                            *)

ContractInv == Contract!Typed /\ Contract!Accounted /\ WorkerInv

LEMMA ContractKnown == ContractInv => Known
BY ContractMeans DEF ContractInv, Known

LEMMA StartMatches == Init => Contract!Init /\ ContractInv
<1> SUFFICES ASSUME Init
             PROVE  Contract!Init /\ ContractInv
  OBVIOUS
<1>1. Claimed = {}
  BY DEF Init, Claimed, Open, Inputs, NoOp
<1>2. Contract!Init
  BY <1>1 DEF Init, Contract!Init, InitStore, Contract!InitStore, IdleCall, Contract!IdleCall,
              OpenLanes, Contract!OpenLanes, NoOp, Contract!NoOp
<1>3. WorkerInv
  BY DEF Init, WorkerInv, JobHeld, TransfersTyped, TransfersOwned, RequestPending, OneInput, NoOp
<1> QED
  BY <1>2, <1>3, ContractStart DEF ContractInv

LEMMA StepSteady ==
  ContractInv /\ [Next]_vars => Allowed /\ Contract!Typed' /\ Contract!Accounted' /\ Steady
<1> SUFFICES ASSUME ContractInv, [Next]_vars
             PROVE  Allowed /\ Contract!Typed' /\ Contract!Accounted' /\ Steady
  OBVIOUS
<1>1. Known
  BY ContractKnown
<1>2. Allowed
  BY <1>1, EveryStepAllowed
<1>3. Contract!Typed' /\ Contract!Accounted'
  BY <1>2, ContractSteps DEF ContractInv
<1>4. StoreTyped' /\ JobsKnown'
  BY <1>3, ContractMeansNext
<1>5. Persists
  BY <1>2, ContractHistory DEF ContractInv, Persists
<1> QED
  BY <1>1, <1>2, <1>3, <1>4, <1>5 DEF Steady

LEMMA StepMatches == ContractInv /\ [Next]_vars => Allowed /\ ContractInv'
BY StepSteady, EveryStepKeeps DEF ContractInv

LEMMA AlwaysKnown == Spec => []ContractInv
BY StartMatches, StepMatches, PTL DEF Spec

(* The names of DeviceOperations, once with its proofs and once without.    *)
LEMMA SameInit == Contract!Init => Service!Init
BY DEF Contract!Init, Service!Init, Contract!InitStore, Service!InitStore,
       Contract!IdleCall, Service!IdleCall, Contract!OpenLanes, Service!OpenLanes,
       Contract!NoOp, Service!NoOp

LEMMA SameCallers == Contract!CallerStep => Service!CallerStep
BY Zenon DEF
    Contract!CallerStep, Service!CallerStep, Contract!Begin, Service!Begin, Contract!Reject,
    Service!Reject, Contract!LateReplay, Service!LateReplay, Contract!DeviceBusy,
    Service!DeviceBusy, Contract!Admit, Service!Admit, Contract!AdmitUnsent, Service!AdmitUnsent,
    Contract!Return, Service!Return, Contract!Answer, Service!Answer, Contract!Refuse,
    Service!Refuse, Contract!IdleCall, Service!IdleCall, Contract!NoOp, Service!NoOp,
    Contract!Replay, Service!Replay, Contract!Fresh, Service!Fresh, Contract!Compatible,
    Service!Compatible, Contract!Admissible, Service!Admissible, Contract!SendFails,
    Service!SendFails, Contract!Issue, Service!Issue, Contract!Kept, Service!Kept,
    Contract!Expired, Service!Expired, Contract!Finished, Service!Finished, Contract!IdemKept,
    Service!IdemKept, Contract!FilesKept, Service!FilesKept, Contract!LanesAdmitted,
    Service!LanesAdmitted, Contract!LanesUnsent, Service!LanesUnsent, Contract!StreamKinds,
    Service!StreamKinds, Contract!Cardinality, Service!Cardinality, Contract!storeVars,
    Service!storeVars, Contract!historyVars, Service!historyVars

LEMMA SameWorkers == \A d \in Devices : Contract!WorkerStep(d) => Service!WorkerStep(d)
BY DEF
    Contract!WorkerStep, Service!WorkerStep, Contract!Take, Service!Take, Contract!EndStream,
    Service!EndStream, Contract!BeginFile, Service!BeginFile, Contract!EndHardware,
    Service!EndHardware, Contract!WorkerLeaves, Service!WorkerLeaves, Contract!WorkerGone,
    Service!WorkerGone, Contract!FinishStream, Service!FinishStream, Contract!FinishHardware,
    Service!FinishHardware, Contract!SetStatus, Service!SetStatus, Contract!CreateFile,
    Service!CreateFile, Contract!LanesStreamDone, Service!LanesStreamDone,
    Contract!LanesHardwareDone, Service!LanesHardwareDone, Contract!Kind, Service!Kind,
    Contract!StreamKinds, Service!StreamKinds, Contract!HardwareKinds, Service!HardwareKinds,
    Contract!storeVars, Service!storeVars, Contract!historyVars, Service!historyVars

LEMMA SameSteps == Allowed => [Service!Next]_(Service!vars)
BY SameCallers, SameWorkers
DEF Allowed, Contract!Next, Service!Next, Contract!Shutdown, Service!Shutdown,
    Contract!vars, Service!vars, Contract!sharedVars, Service!sharedVars,
    Contract!storeVars, Service!storeVars, Contract!historyVars, Service!historyVars

(* The worker thread with its duplex implements the worker of               *)
(* DeviceOperations: whatever ticks, replies, time-outs, write errors and   *)
(* lost ports come in between, each operation it takes from the channel     *)
(* ends exactly once, with its lanes and files, and in an allowed order.    *)
THEOREM WorkerKeepsItsPromise == Spec => ImplementsService
BY StartMatches, StepMatches, AlwaysKnown, SameInit, SameSteps, PTL
DEF Spec, ImplementsService, Service!Spec

(* No operation is replayed: when the worker writes, every frame in the     *)
(* queue is of an operation that still runs, although a request that timed  *)
(* out leaves its frame behind (Duplex::tick looks at every deadline).      *)
THEOREM EndedOperationsStaySilent == Spec => []NothingSentAfterTheEnd
<1>1. ContractInv => NothingSentAfterTheEnd
  <2> SUFFICES ASSUME ContractInv, pc = "write", NEW n \in 1 .. Len(tx)
               PROVE  tx[n].op \in Running(Dev)
    BY DEF NothingSentAfterTheEnd, Transfers
  <2>1. Known
    BY ContractKnown
  <2>2. tx[n] \in Entries
    BY DEF ContractInv, WorkerInv, TransfersTyped
  <2>3. CASE IsInput(tx[n])
    BY <2>1, <2>3, OpenFacts DEF Inputs, IsInput, Open
  <2>4. CASE ~IsInput(tx[n])
    <3>1. tx[n].op = pending /\ tx[n].op # NoOp
      BY <2>2, <2>4 DEF ContractInv, WorkerInv, RequestPending, Entries, NoOp
    <3> QED
      BY <2>1, <3>1, OpenFacts
  <2> QED
    BY <2>3, <2>4
<1> QED
  BY <1>1, AlwaysKnown, PTL

-----------------------------------------------------------------------------
(* What the board had said before an operation that replaces the monitor. *)

Replacing == \E i \in Running(Dev) : Kind(i) \in HardwareKinds

Silent == Replacing => ~shown

(* No operation begins without a new ticket.                                *)
LEMMA NoneBegins == ASSUME Steady, ticket' = ticket PROVE Running(Dev)' \subseteq Running(Dev)
<1>1. Running(Dev)' \subseteq 1 .. ticket
  BY DEF Steady, StoreTyped, Running
<1>2. ticket \in Nat /\ ticket + 1 \notin 1 .. ticket
  BY DEF Steady, Known, StoreTyped
<1> QED
  BY <1>1, <1>2 DEF Steady, Persists

LEMMA ReplacingBefore == ASSUME Steady, ticket' = ticket, Replacing' PROVE Replacing
BY NoneBegins, SteadyFacts DEF Replacing

LEMMA SilentKept == ASSUME Steady, ticket' = ticket, shown' = shown, Silent PROVE Silent'
BY ReplacingBefore DEF Silent

(* The flag is up: a read from before the admission is dropped.             *)
LEMMA SilentPublish ==
  ASSUME Steady, DiscardsExactly, Silent, PublishFed \/ PublishPlain
  PROVE  Silent'
<1>1. ticket' = ticket
  <2>1. CASE PublishPlain
    BY <2>1 DEF PublishPlain, lockedVars, historyVars
  <2>2. CASE PublishFed
    BY <2>2 DEF PublishFed, FeedEndsSession, FeedReply, FeedOther, Abort, AfterExpiry, Complete,
                FinishStream
  <2> QED
    BY <2>1, <2>2
<1>2. Replacing => ~Publishes
  BY DEF Replacing, DiscardsExactly, Publishes
<1>3. shown' = (shown \/ Publishes)
  BY DEF PublishFed, PublishPlain
<1> QED
  BY <1>1, <1>2, <1>3, ReplacingBefore DEF Silent

(* What an admission begins is judged in its own step.                      *)
LEMMA SilentLocked == ASSUME Steady, Silent, NEW c \in Callers, Locked(c) PROVE Silent'
<1>1. shown' = (shown /\ ~\E i \in Running(Dev)' \ Running(Dev) : Kind(i)' \in HardwareKinds)
  BY DEF Locked
<1>2. SUFFICES ASSUME shown', NEW i \in Running(Dev)', Kind(i)' \in HardwareKinds
               PROVE  FALSE
  BY DEF Silent, Replacing
<1>3. shown /\ i \in Running(Dev)
  BY <1>1, <1>2
<1>4. Kind(i) \in HardwareKinds
  BY <1>2, <1>3, SteadyFacts
<1> QED
  BY <1>3, <1>4 DEF Silent, Replacing

LEMMA SilentStep == ASSUME Steady, DiscardsExactly, Silent, [Next]_vars PROVE Silent'
<1>1. CASE UNCHANGED vars
  BY <1>1, SilentKept DEF vars, sharedVars, storeVars, historyVars, workerVars, outputVars
<1>2. CASE DeadlinePasses
  BY <1>2, SilentKept DEF DeadlinePasses, sharedVars, storeVars, historyVars, outputVars
<1>3. CASE Environment
  BY <1>3, SilentKept
  DEF Environment, Replug, BootDelayPasses, Discover, Shutdown, sharedVars, storeVars,
      historyVars, workerVars, outputVars
<1>4. ASSUME NEW c \in Callers, Caller(c)
      PROVE  Silent'
  <2>1. CASE Locked(c)
    BY <2>1, SilentLocked
  <2>2. CASE ~Locked(c)
    BY <1>4, <2>2, SilentKept
    DEF Caller, Begin, Return, Shortcut, Look, Record, RecordMissing, Reject, sharedVars,
        storeVars, historyVars, workerVars, outputVars
  <2> QED
    BY <2>1, <2>2
<1>5. CASE WorkerStep
  <2>1. CASE PublishFed \/ PublishPlain
    BY <2>1, SilentPublish
  <2>2. CASE AbortLost \/ TickOverdue
    BY <2>2, SilentKept
    DEF AbortLost, TickOverdue, DropPort, Abort, Complete, FinishStream, outputVars
  <2>3. CASE Leave \/ Exit
    BY <2>3, SilentKept
    DEF Leave, Exit, WorkerLeaves, WorkerGone, storeVars, historyVars, workerVars, outputVars
  <2>4. CASE Receive \/ NoPort \/ HardwareBegins \/ TickInTime
    BY <2>4, SilentKept
    DEF Receive, NoPort, HardwareBegins, TickInTime, lockedVars, historyVars, outputVars
  <2>5. CASE StreamJob
    BY <2>5, SilentKept
    DEF StreamJob, StreamRefused, StreamUnavailable, StreamOpenFails, StreamStarts, StreamFails,
        Complete, FinishStream, historyVars, outputVars
  <2>6. CASE HardwareWritesFile \/ \E ok \in BOOLEAN : HardwareEnds(ok)
    BY <2>6, SilentKept
    DEF HardwareWritesFile, HardwareEnds, FinishHardware, workerVars, outputVars
  <2>7. CASE Write
    BY <2>7, SilentKept
    DEF Write, WriteNothing, WriteSome, WriteFails, DropPort, Abort, AfterExpiry, Complete,
        FinishStream, outputVars
  <2>8. CASE BootHandoff \/ ReadNothing \/ ReadFails \/ ReadChunk
    BY <2>8, SilentKept
    DEF BootHandoff, ReadNothing, ReadFails, ReadChunk, lockedVars, historyVars, outputVars
  <2>9. CASE ReopenFails \/ ReopenSucceeds \/ Reopened
    BY <2>9, SilentKept DEF ReopenFails, ReopenSucceeds, Reopened, historyVars, outputVars
  <2> QED
    BY <1>5, <2>1, <2>2, <2>3, <2>4, <2>5, <2>6, <2>7, <2>8, <2>9 DEF WorkerStep
<1> QED
  BY <1>1, <1>2, <1>3, <1>4, <1>5 DEF Next

(* Nothing the board says reaches the log between the admission of an       *)
(* operation that replaces the monitor and its end (application_output and  *)
(* the plain monitor look at discard_monitor_read under the store lock),    *)
(* and the port it opens is nobody else's (OneOwner: an exclusive operation *)
(* is admitted alone, so the duplex has nothing open).                      *)
THEOREM HardwareHasThePort == Spec => []HardwareOwnsPort
<1>1. Init => Silent
  BY DEF Init, Silent
<1>2. ContractInv /\ Silent /\ [Next]_vars => Silent'
  <2> SUFFICES ASSUME ContractInv, Silent, [Next]_vars
               PROVE  Silent'
    OBVIOUS
  <2>1. Steady /\ DiscardsExactly
    BY StepSteady, ContractMeans DEF ContractInv
  <2> QED
    BY <2>1, SilentStep
<1>3. ContractInv /\ Silent => HardwareOwnsPort
  <2> SUFFICES ASSUME ContractInv, Silent
               PROVE  HardwareOwnsPort
    OBVIOUS
  <2>1. Known
    BY ContractKnown
  <2>2. ASSUME pc = "opened", NEW i \in Open
        PROVE  FALSE
    <3>1. job # NoOp /\ Kind(job) \in HardwareKinds /\ job \notin Open
      BY <2>2 DEF ContractInv, WorkerInv, JobHeld, RequestPending
    <3>2. job \in Running(Dev) /\ i \in Running(Dev) /\ i # job
      BY <2>1, <2>2, <3>1, OpenFacts
    <3>3. {Kind(job), Kind(i)} = {"command", "input"}
      BY <2>1, <3>2 DEF Known, OneOwner
    <3> QED
      BY <3>1, <3>3 DEF HardwareKinds
  <2> QED
    BY <2>2 DEF HardwareOwnsPort, Silent, Replacing
<1> QED
  BY <1>1, <1>2, <1>3, AlwaysKnown, PTL DEF Spec

-----------------------------------------------------------------------------
(* What the subscribers of a device hear of its application session. *)

(* SessionIsAnnounced speaks of the places where the worker looks for work; *)
(* what subscribers heard is right at all others too.                       *)
Told == announced = "connected" <=> session = "valid"

LEMMA ToldStart == Init => Told
BY DEF Init, Told

(* At the job channel a port that was lost has taken its session along.     *)
LEMMA ToldIsEnough == Told => SessionIsAnnounced
BY DEF Told, SessionIsAnnounced, AtChannel, PortLost

(* Where a session ends, the loss is announced if there was one.            *)
LEMMA ToldLoss == ASSUME session' = "none", AnnounceLoss, Told PROVE Told'
BY DEF AnnounceLoss, Told

(* An expired hello ends a session that was never announced.                *)
LEMMA ToldExpiry ==
  ASSUME NEW written, NEW left, AfterExpiry(written, left), announced' = announced, Told
  PROVE Told'
BY DEF AfterExpiry, Told

LEMMA ToldStream == StreamJob /\ Told => Told'
<1> SUFFICES ASSUME StreamJob, Told PROVE Told'
  OBVIOUS
<1>1. CASE StreamRefused \/ StreamUnavailable \/ StreamOpenFails
  BY <1>1 DEF StreamRefused, StreamUnavailable, StreamOpenFails, StreamFails, duplexVars, Told
<1>2. CASE StreamStarts
  BY <1>2 DEF StreamStarts, Told
<1> QED BY <1>1, <1>2 DEF StreamJob

LEMMA ToldHardware == HardwareBegins /\ Told => Told'
<1> SUFFICES ASSUME HardwareBegins, Told PROVE Told'
  OBVIOUS
<1>1. CASE PreservesMonitor
  BY <1>1 DEF HardwareBegins, Told
<1>2. CASE ~PreservesMonitor
  BY <1>2, ToldLoss DEF HardwareBegins
<1> QED BY <1>1, <1>2

LEMMA ToldDrop == DropPort /\ Told => Told'
BY ToldLoss DEF DropPort, Abort

LEMMA ToldWrite == Write /\ Told => Told'
<1> SUFFICES ASSUME Write, Told PROVE Told'
  OBVIOUS
<1>1. CASE WriteNothing
  BY <1>1, ToldExpiry DEF WriteNothing
<1>2. CASE WriteSome
  BY <1>2, ToldExpiry DEF WriteSome
<1>3. CASE WriteFails
  BY <1>3, ToldDrop DEF WriteFails
<1> QED BY <1>1, <1>2, <1>3 DEF Write

(* Of what a read brings, a welcome connects, and text or garbage ends.     *)
LEMMA ToldFed == PublishFed /\ Told => Told'
<1> SUFFICES ASSUME PublishFed, Told PROVE Told'
  OBVIOUS
<1>1. CASE FeedEndsSession
  BY <1>1 DEF FeedEndsSession, Abort, Told
<1>2. CASE FeedReply
  BY <1>2 DEF FeedReply, Told
<1>3. CASE FeedOther
  BY <1>3, ToldExpiry DEF FeedOther
<1> QED BY <1>1, <1>2, <1>3 DEF PublishFed

LEMMA ToldWorker == WorkerStep /\ Told => Told'
<1> SUFFICES ASSUME WorkerStep, Told PROVE Told'
  OBVIOUS
<1>1. ASSUME UNCHANGED <<session, announced>> PROVE Told'
  BY <1>1 DEF Told
<1>2. CASE AbortLost
  BY <1>2, ToldLoss DEF AbortLost, Abort
<1>3. CASE Leave \/ Exit
  BY <1>1, <1>3 DEF Leave, Exit, workerVars, duplexVars
<1>4. CASE Receive \/ NoPort \/ TickInTime \/ HardwareWritesFile \/ \E ok \in BOOLEAN : HardwareEnds(ok)
  BY <1>1, <1>4
  DEF Receive, NoPort, TickInTime, HardwareWritesFile, HardwareEnds, workerVars, duplexVars
<1>5. CASE BootHandoff \/ ReadNothing \/ ReadFails \/ ReadChunk
  BY <1>1, <1>5 DEF BootHandoff, ReadNothing, ReadFails, ReadChunk, duplexVars
<1>6. CASE ReopenFails \/ ReopenSucceeds \/ Reopened \/ PublishPlain
  BY <1>1, <1>6 DEF ReopenFails, ReopenSucceeds, Reopened, PublishPlain, duplexVars
<1>7. CASE TickOverdue
  BY <1>7, ToldDrop DEF TickOverdue
<1> QED
  BY <1>2, <1>3, <1>4, <1>5, <1>6, <1>7, ToldStream, ToldHardware, ToldWrite, ToldFed
  DEF WorkerStep

LEMMA ToldStep == Told /\ [Next]_vars => Told'
<1> SUFFICES ASSUME Told, [Next]_vars PROVE Told'
  OBVIOUS
<1>1. ASSUME UNCHANGED <<session, announced>> PROVE Told'
  BY <1>1 DEF Told
<1>2. CASE DeadlinePasses
  BY <1>1, <1>2 DEF DeadlinePasses
<1>3. CASE Environment
  BY <1>1, <1>3 DEF Environment, Replug, BootDelayPasses, Discover, workerVars, duplexVars
<1>4. ASSUME NEW c \in Callers, Caller(c) PROVE Told'
  BY <1>1, <1>4
  DEF Caller, Shortcut, Look, Record, RecordMissing, Locked, workerVars, duplexVars
<1>5. CASE UNCHANGED vars
  BY <1>1, <1>5 DEF vars, workerVars, duplexVars
<1> QED BY <1>2, <1>3, <1>4, <1>5, ToldWorker DEF Next

(* application_connected and application_disconnected: whoever heard        *)
(* connected last is right whenever the worker looks for work, on whichever *)
(* of its paths the session began or ended.                                 *)
THEOREM SubscribersAreRight == Spec => []SessionIsAnnounced
BY ToldStart, ToldStep, ToldIsEnough, PTL DEF Spec
===============================================================================
