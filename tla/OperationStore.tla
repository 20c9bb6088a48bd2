--------------------------- MODULE OperationStore ---------------------------
(***************************************************************************)
(* The part of the daemon's state that HTTP handlers and device workers    *)
(* share: the operation history, the idempotency records, the artifacts,   *)
(* the admission flags of each device and the job channel of its worker    *)
(* (src/src/server.rs, `Service`, `Store`, `DeviceState`, `Service::submit`)*)
(*                                                                         *)
(* This module declares the state and the steps of `submit`.  What takes   *)
(* the jobs out of the channel and finishes them is left to the modules    *)
(* that extend it: DeviceOperations promises only that operations finish   *)
(* once, DeviceWorker is the real worker loop.                             *)
(*                                                                         *)
(* An operation is named by its admission ticket.  The code names it by    *)
(* device and event sequence number, which `emit` has just advanced, so    *)
(* names are never reused there either and history order is ticket order.  *)
(***************************************************************************)
EXTENDS Naturals, FiniteSets, Sequences

CONSTANTS
  Devices,    \* device ids with a running worker
  Callers,    \* concurrent `submit` calls (HTTP handlers, library callers)
  Keys,       \* idempotency keys
  Requests,   \* requests a caller may make: records with fields dev and kind
  Retain,     \* finished operations that fill the history (64)
  QueueCap,   \* capacity of the job channel of a worker (2)
  MaxTicket,  \* bound on admissions, for model checking only
  NoKey,      \* no key, in a call that is not in progress
  NoRequest   \* no request, in a call that is not in progress

(* Actions that ride on the open monitor stream. *)
StreamKinds == {"connect", "command", "input"}

(* Actions that own the port while they run. *)
HardwareKinds == {"probe", "flash", "read", "erase", "reset", "monitor"}

Kinds == StreamKinds \cup HardwareKinds

ASSUME RequestsAssumption ==
  \A r \in Requests : r.dev \in Devices /\ r.kind \in Kinds

ASSUME BoundsAssumption ==
  /\ Retain \in Nat \ {0}
  /\ QueueCap \in Nat \ {0}
  /\ MaxTicket \in Nat
  /\ NoKey \notin Keys
  /\ NoRequest \notin Requests

VARIABLES
  running,    \* the AtomicBool that shutdown clears
  ticket,     \* admissions so far
  ops,        \* Store::operations: retained ticket -> operation record
  idem,       \* Store::idempotency: key -> the request and operation it names
  artifacts,  \* Store::artifacts: tickets with a published artifact record
  files,      \* tickets whose <id>.bin exists in the artifact directory
  lanes,      \* admission flags of each device (DeviceState)
  queue,      \* job channel of each worker
  worker,     \* worker thread: in its loop, past its exit check, or gone
  calls       \* submit calls in progress

historyVars == <<ticket, ops, idem, artifacts, files>>
storeVars == <<historyVars, lanes, queue>>
sharedVars == <<running, storeVars, worker, calls>>

NoOp == 0
Tickets == 1 .. MaxTicket

IdleCall == [pc |-> "idle", key |-> NoKey, req |-> NoRequest, op |-> NoOp]

OpenLanes == [busy |-> FALSE, app |-> FALSE, input |-> FALSE, discard |-> FALSE]

InitStore ==
  /\ running = TRUE
  /\ ticket = 0
  /\ ops = [i \in {} |-> NoOp]
  /\ idem = [k \in {} |-> NoOp]
  /\ artifacts = {}
  /\ files = {}
  /\ lanes = [d \in Devices |-> OpenLanes]
  /\ queue = [d \in Devices |-> <<>>]
  /\ worker = [d \in Devices |-> "loop"]
  /\ calls = [c \in Callers |-> IdleCall]

-----------------------------------------------------------------------------
(* Views of the history. *)

Running(d) == {i \in DOMAIN ops : ops[i].status = "running" /\ ops[i].req.dev = d}

Finished == {i \in DOMAIN ops : ops[i].status # "running"}

Queued(d) == {queue[d][n] : n \in 1 .. Len(queue[d])}

Kind(i) == ops[i].req.kind

-----------------------------------------------------------------------------
(* Store::push_operation: make room by dropping the oldest finished        *)
(* operations; operations still running are never dropped.                 *)

\* Mutant: the oldest go, running or not.
ExpiredAnyStatus == {i \in DOMAIN ops : Cardinality({j \in DOMAIN ops : j > i}) >= Retain - 1}

Expired == {i \in Finished : Cardinality({j \in Finished : j > i}) >= Retain - 1}

Kept == DOMAIN ops \ Expired

\* Mutant: the file of an expired operation stays behind.
KeepAllFiles == files

IdemKept == [k \in {k \in DOMAIN idem : idem[k].op \notin Expired} |-> idem[k]]

FilesKept == files \ (artifacts \cap Expired)

-----------------------------------------------------------------------------
(* The admission flags. *)

\* Mutant: a lane is offered to a command while a command is pending.
CompatibleSameLane(l, kind) ==
  \/ kind = "command" /\ l.app
  \/ kind = "input" /\ l.app /\ ~l.input

Compatible(l, kind) ==
  \/ kind = "command" /\ l.input /\ ~l.app
  \/ kind = "input" /\ l.app /\ ~l.input

LanesAdmitted(l, kind) ==
  [busy    |-> TRUE,
   app     |-> l.app \/ kind = "command",
   input   |-> l.input \/ kind = "input",
   discard |-> kind \notin StreamKinds]

LanesUnsent(l, kind) ==
  LET app   == l.app /\ kind # "command"
      input == l.input /\ kind # "input"
  IN [busy |-> app \/ input, app |-> app, input |-> input, discard |-> FALSE]

\* Mutant: finishing one lane opens the device to exclusive operations.
LanesStreamDoneAll(l, done) == OpenLanes

(* finish_stream: the completions in done clear their lanes. *)
LanesStreamDone(l, done) ==
  LET app   == l.app /\ ~\E i \in done : Kind(i) \in {"command", "connect"}
      input == l.input /\ ~\E i \in done : Kind(i) = "input"
  IN [busy |-> app \/ input, app |-> app, input |-> input, discard |-> FALSE]

(* The end of an exclusive operation. *)
LanesHardwareDone(l) == [l EXCEPT !.busy = FALSE, !.discard = FALSE]

-----------------------------------------------------------------------------
(* submit, before its await: the shutdown check and the first replay.      *)

Answer(c, k, r, i) ==
  calls' = [calls EXCEPT ![c] = [pc |-> "answered", key |-> k, req |-> r, op |-> i]]

(* An error response: the call is over and leaves no trace. *)
Refuse(c) == calls' = [calls EXCEPT ![c] = IdleCall]

\* Mutant: a key is answered whatever the request it came with.
ReplayAnyRequest(c, k, r) == Answer(c, k, r, idem[k].op)

(* replay: the recorded operation, or idempotency_key_conflict. *)
Replay(c, k, r) ==
  \/ idem[k].req = r /\ Answer(c, k, r, idem[k].op)
  \/ idem[k].req # r /\ Refuse(c)

(* A call that finds the daemon stopping is refused at once; a known key is *)
(* replayed; any other goes on to the availability check.                   *)
Begin(c, k, r) ==
  /\ calls[c].pc = "idle"
  /\ running
  /\ \/ k \in DOMAIN idem /\ Replay(c, k, r)
     \/ /\ k \notin DOMAIN idem
        /\ calls' = [calls EXCEPT ![c] = [pc |-> "checked", key |-> k, req |-> r, op |-> NoOp]]
  /\ UNCHANGED <<running, storeVars, worker>>

(* The capability, availability or baud check after the await fails.        *)
Reject(c) ==
  /\ calls[c].pc = "checked"
  /\ Refuse(c)
  /\ UNCHANGED <<running, storeVars, worker>>

-----------------------------------------------------------------------------
(* submit, under the store lock after its await.                            *)

(* The key may have been recorded by another call during the await.         *)
LateReplay(c) ==
  /\ calls[c].pc = "checked"
  /\ calls[c].key \in DOMAIN idem
  /\ Replay(c, calls[c].key, calls[c].req)
  /\ UNCHANGED <<running, storeVars, worker>>

\* Mutant: the key is not looked up again after the await.
FreshUnchecked(c) == calls[c].pc = "checked"

Fresh(c) == calls[c].pc = "checked" /\ calls[c].key \notin DOMAIN idem

DeviceBusy(c) ==
  LET r == calls[c].req IN
  /\ Fresh(c)
  /\ lanes[r.dev].busy
  /\ ~Compatible(lanes[r.dev], r.kind)
  /\ Refuse(c)
  /\ UNCHANGED <<running, storeVars, worker>>

Admissible(c) ==
  LET r == calls[c].req IN
  /\ Fresh(c)
  /\ ~lanes[r.dev].busy \/ Compatible(lanes[r.dev], r.kind)
  /\ ticket < MaxTicket

(* The channel takes the job unless its receiver is gone or it is full.     *)
SendFails(d) == worker[d] = "gone" \/ Len(queue[d]) >= QueueCap

\* Mutant: the sequence number that names the operation does not advance.
IssueStuck == ticket' = ticket

(* emit("operation_started") advances the sequence the name is taken from.  *)
Issue == ticket' = ticket + 1

Admit(c) ==
  LET r  == calls[c].req
      k  == calls[c].key
      id == ticket + 1
  IN /\ Admissible(c)
     /\ ~SendFails(r.dev)
     /\ Issue
     /\ ops' = [i \in Kept \cup {id} |->
                 IF i = id THEN [key |-> k, req |-> r, status |-> "running"] ELSE ops[i]]
     /\ idem' = [x \in DOMAIN IdemKept \cup {k} |->
                  IF x = k THEN [req |-> r, op |-> id] ELSE IdemKept[x]]
     /\ artifacts' = artifacts \ Expired
     /\ files' = FilesKept
     /\ lanes' = [lanes EXCEPT ![r.dev] = LanesAdmitted(@, r.kind)]
     /\ queue' = [queue EXCEPT ![r.dev] = Append(@, id)]
     /\ Answer(c, k, r, id)
     /\ UNCHANGED <<running, worker>>

(* try_send fails: the new operation and its record are taken back under    *)
(* the same lock; what push_operation dropped to make room stays dropped.   *)
AdmitUnsent(c) ==
  LET r == calls[c].req IN
  /\ Admissible(c)
  /\ SendFails(r.dev)
  /\ Issue
  /\ ops' = [i \in Kept |-> ops[i]]
  /\ idem' = IdemKept
  /\ artifacts' = artifacts \ Expired
  /\ files' = FilesKept
  /\ lanes' = [lanes EXCEPT ![r.dev] = LanesUnsent(@, r.kind)]
  /\ Refuse(c)
  /\ UNCHANGED <<running, queue, worker>>

(* The caller has read its answer. *)
Return(c) ==
  /\ calls[c].pc = "answered"
  /\ Refuse(c)
  /\ UNCHANGED <<running, storeVars, worker>>

-----------------------------------------------------------------------------
(* What a worker does to the store. *)

SetStatus(done, good) ==
  ops' = [i \in DOMAIN ops |->
           IF i \in done
           THEN [ops[i] EXCEPT !.status = IF i \in good THEN "succeeded" ELSE "failed"]
           ELSE ops[i]]

(* finish_stream: one lock, several completions. *)
FinishStream(d, done, good) ==
  /\ SetStatus(done, good)
  /\ lanes' = [lanes EXCEPT ![d] = IF done = {} THEN @ ELSE LanesStreamDone(@, done)]
  /\ UNCHANGED <<ticket, idem, artifacts, files>>

(* The final lock of an exclusive operation: a failed read removes its file, *)
(* a successful one publishes it as the operation's artifact.                *)
FinishHardware(d, i, ok) ==
  /\ SetStatus({i}, IF ok THEN {i} ELSE {})
  /\ lanes' = [lanes EXCEPT ![d] = LanesHardwareDone(@)]
  /\ files' = IF ok THEN files ELSE files \ {i}
  /\ artifacts' = IF ok /\ Kind(i) = "read" THEN artifacts \cup {i} ELSE artifacts
  /\ UNCHANGED <<ticket, idem>>

(* session.read_flash writes into <id>.bin before the operation ends.        *)
CreateFile(i) ==
  /\ Kind(i) = "read"
  /\ files' = files \cup {i}

Shutdown ==
  /\ running
  /\ running' = FALSE
  /\ UNCHANGED <<storeVars, worker, calls>>

\* Mutant: the worker stops without waiting for the operation it runs.
WorkerLeavesBusy(d) ==
  /\ worker[d] = "loop"
  /\ ~running
  /\ worker' = [worker EXCEPT ![d] = "leaving"]
  /\ UNCHANGED <<running, storeVars, calls>>

(* The worker's exit check holds the store lock only while it reads busy.    *)
WorkerLeaves(d) ==
  /\ worker[d] = "loop"
  /\ ~running
  /\ ~lanes[d].busy
  /\ worker' = [worker EXCEPT ![d] = "leaving"]
  /\ UNCHANGED <<running, storeVars, calls>>

(* Returning drops the receiver, and with it the jobs still in the channel:  *)
(* one sent since the exit check is lost, and its operation stays running.   *)
WorkerGone(d) ==
  /\ worker[d] = "leaving"
  /\ worker' = [worker EXCEPT ![d] = "gone"]
  /\ queue' = [queue EXCEPT ![d] = <<>>]
  /\ UNCHANGED <<running, historyVars, lanes, calls>>

(* The steps of every caller. *)
CallerStep ==
  \E c \in Callers :
    \/ \E k \in Keys, r \in Requests : Begin(c, k, r)
    \/ Reject(c)
    \/ LateReplay(c)
    \/ DeviceBusy(c)
    \/ Admit(c)
    \/ AdmitUnsent(c)
    \/ Return(c)
=============================================================================
