-------------------------- MODULE DeviceOperations --------------------------
(***************************************************************************)
(* What the service promises about operations, with the workers reduced to *)
(* their contract: a worker takes jobs from its channel in order, and ends *)
(* every job it has taken exactly once.  The state and the caller's steps  *)
(* are OperationStore's, for any number of devices sharing one store.      *)
(***************************************************************************)
EXTENDS OperationStore

VARIABLE claimed   \* per device, the operations its worker has taken on

vars == <<sharedVars, claimed>>

Init ==
  /\ InitStore
  /\ claimed = [d \in Devices |-> {}]

-----------------------------------------------------------------------------
Take(d) ==
  /\ worker[d] = "loop"
  /\ queue[d] # <<>>
  /\ claimed' = [claimed EXCEPT ![d] = @ \cup {Head(queue[d])}]
  /\ queue' = [queue EXCEPT ![d] = Tail(@)]
  /\ UNCHANGED <<running, historyVars, lanes, worker, calls>>

(* Requests and console inputs end together or apart, each with its result. *)
EndStream(d) ==
  \E done \in SUBSET {i \in claimed[d] : Kind(i) \in StreamKinds} :
    \E good \in SUBSET done :
      /\ done # {}
      /\ FinishStream(d, done, good)
      /\ claimed' = [claimed EXCEPT ![d] = @ \ done]
      /\ UNCHANGED <<running, queue, worker, calls>>

BeginFile(d) ==
  \E i \in claimed[d] :
    /\ CreateFile(i)
    /\ UNCHANGED <<running, ticket, ops, idem, artifacts, lanes, queue, worker, calls, claimed>>

(* A read that succeeds has written its file. *)
EndHardware(d) ==
  \E i \in {j \in claimed[d] : Kind(j) \in HardwareKinds} :
    \E ok \in BOOLEAN :
      /\ ok /\ Kind(i) = "read" => i \in files
      /\ FinishHardware(d, i, ok)
      /\ claimed' = [claimed EXCEPT ![d] = @ \ {i}]
      /\ UNCHANGED <<running, queue, worker, calls>>

WorkerStep(d) ==
  \/ Take(d)
  \/ EndStream(d)
  \/ BeginFile(d)
  \/ EndHardware(d)
  \/ WorkerLeaves(d) /\ UNCHANGED claimed
  \/ WorkerGone(d) /\ UNCHANGED claimed

Next ==
  \/ CallerStep /\ UNCHANGED claimed
  \/ Shutdown /\ UNCHANGED claimed
  \/ \E d \in Devices : WorkerStep(d)

Spec == Init /\ [][Next]_vars

-----------------------------------------------------------------------------
Statuses == {"running", "succeeded", "failed"}

(* Every variable has its type (the shapes of Store and DeviceState). *)
TypeOK ==
  /\ running \in BOOLEAN
  /\ ticket \in Nat
  /\ DOMAIN ops \subseteq 1 .. ticket
  /\ ops \in [DOMAIN ops -> [key : Keys, req : Requests, status : Statuses]]
  /\ DOMAIN idem \subseteq Keys
  /\ idem \in [DOMAIN idem -> [req : Requests, op : 1 .. ticket]]
  /\ artifacts \subseteq 1 .. ticket
  /\ files \subseteq 1 .. ticket
  /\ lanes \in [Devices -> [busy : BOOLEAN, app : BOOLEAN, input : BOOLEAN, discard : BOOLEAN]]
  /\ queue \in [Devices -> Seq(1 .. ticket)]
  /\ worker \in [Devices -> {"loop", "leaving", "gone"}]
  /\ calls \in [Callers -> [pc : {"idle", "checked", "answered"}, key : Keys \cup {NoKey},
                            req : Requests \cup {NoRequest}, op : 0 .. ticket]]
  /\ claimed \in [Devices -> SUBSET (1 .. ticket)]

(* Idempotency records share the operation retention boundary (the two     *)
(* `expect`s of submit): every record names a retained operation made with *)
(* that key and request, and every retained operation is named by its key, *)
(* so no key ever has two retained operations.                             *)
OneOperationPerKey ==
  /\ \A k \in DOMAIN idem :
       /\ idem[k].op \in DOMAIN ops
       /\ ops[idem[k].op].key = k
       /\ ops[idem[k].op].req = idem[k].req
  /\ \A i \in DOMAIN ops : ops[i].key \in DOMAIN idem /\ idem[ops[i].key].op = i

(* A call that is answered with an operation gets the one its own key and  *)
(* request made, also when another call recorded the key during the await. *)
ReplayIsFaithful ==
  \A c \in Callers : calls[c].op \in DOMAIN ops =>
    /\ ops[calls[c].op].key = calls[c].key
    /\ ops[calls[c].op].req = calls[c].req

(* The admission flags say exactly what is running: busy iff anything is,  *)
(* each lane iff its operation is, output is discarded iff an operation     *)
(* that owns the port is running, and two operations run on one device     *)
(* only if one is a request and the other a console input; flash, reset,   *)
(* monitor and connect are exclusive.                                      *)
LanesMatchOperations ==
  \A d \in Devices :
    /\ lanes[d].busy <=> Running(d) # {}
    /\ lanes[d].app <=> \E i \in Running(d) : Kind(i) = "command"
    /\ lanes[d].input <=> \E i \in Running(d) : Kind(i) = "input"
    /\ lanes[d].discard <=> \E i \in Running(d) : Kind(i) \in HardwareKinds
    /\ \A i, j \in Running(d) : i # j => {Kind(i), Kind(j)} = {"command", "input"}

(* What runs without a job: no worker will ever end it.                     *)
Lost(d) == Running(d) \ (Queued(d) \cup claimed[d])

(* As long as the worker has its receiver, every running operation is       *)
(* either waiting in the channel or in the worker's hands: no job is lost,  *)
(* taken twice, or finished while it waits.  A worker that has returned     *)
(* leaves no job behind, and nobody sends one after it.                     *)
JobsAreAccountedFor ==
  \A d \in Devices :
    /\ Queued(d) \cup claimed[d] \subseteq Running(d)
    /\ Queued(d) \cap claimed[d] = {}
    /\ \A m, n \in 1 .. Len(queue[d]) : queue[d][m] = queue[d][n] => m = n
    /\ worker[d] # "gone" => Lost(d) = {}
    /\ worker[d] = "gone" => queue[d] = <<>>

(* Worker, submit: shutdown waits for all that was admitted before the      *)
(* worker's last look at its busy flag, for at that look nothing is         *)
(* unfinished.  Only the jobs sent since are lost, by the return of the     *)
(* worker, and all of them, for it takes none after that look.  What is     *)
(* lost stays so: the operation is never ended, and no other joins it.      *)
OnlyLateJobsAreLost ==
  [][\A d \in Devices :
       /\ Lost(d)' # Lost(d) =>
            worker[d] = "leaving" /\ worker'[d] = "gone" /\ Lost(d)' = Queued(d)
       /\ worker[d] = "loop" /\ worker'[d] # "loop" => Running(d) = {}]_vars

(* Two admissions never overfill a worker's channel: a send can only fail   *)
(* because the worker is gone.                                              *)
QueueHasRoom ==
  \A c \in Callers : Admissible(c) => Len(queue[calls[c].req.dev]) < QueueCap

(* A published artifact belongs to a retained, succeeded read and its file  *)
(* is on disk; a file without an artifact belongs to a read still running:  *)
(* eviction and failure leave nothing behind in the artifact directory.     *)
ArtifactsMatchFiles ==
  /\ artifacts \subseteq {i \in DOMAIN ops : ops[i].status = "succeeded" /\ Kind(i) = "read"}
  /\ artifacts \subseteq files
  /\ files \ artifacts \subseteq
       {i \in DOMAIN ops : ops[i].status = "running" /\ Kind(i) = "read"}

(* An operation is admitted once and finishes once: a finished record never *)
(* changes, an operation leaves the history only after it finished, and no  *)
(* operation reappears.                                                     *)
OperationsAreFinal ==
  [][/\ \A i \in DOMAIN ops \cap DOMAIN ops' :
          ops[i].status # "running" => ops'[i] = ops[i]
     /\ \A i \in DOMAIN ops \ DOMAIN ops' : ops[i].status # "running"
     /\ \A i \in DOMAIN ops' \ DOMAIN ops : i = ticket']_vars

=============================================================================
